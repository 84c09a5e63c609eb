------------------------- MODULE StreamUploadProofs -------------------------
(***************************************************************************)
(* Proofs about the upload of a collection, for any window, any sizes of   *)
(* chunks and any collection.                                              *)
(***************************************************************************)
EXTENDS StreamUpload, FiniteSetTheorems, SequenceTheorems, WellFoundedInduction, TLAPS

-----------------------------------------------------------------------------
(* The number of chunks of a file.                                         *)

\* There are fewer parents than children, and no more leaves than bytes.
LEMMA FewerAbove ==
  ASSUME NEW n \in Nat \ {0}, NEW b \in Nat \ {0}
  PROVE  DivCeil(n, b) \in 1..n /\ (n > 1 /\ b > 1 => DivCeil(n, b) < n)
<1> DEFINE q == (n + b - 1) \div b
<1>1. q \in Nat /\ b * q <= n + b - 1 /\ n + b - 1 < b * q + b
  OBVIOUS
<1> HIDE DEF q
<1>2. q >= 1
  <2> SUFFICES ASSUME q = 0 PROVE FALSE
    BY <1>1
  <2> QED
    BY <1>1
<1>3. q <= n
  <2> SUFFICES ASSUME q >= n + 1 PROVE FALSE
    BY <1>1
  <2>1. PICK k \in Nat : q = n + 1 + k
    BY <1>1
  <2>2. b * q = b * n + b + b * k /\ b * n >= n /\ b * k >= 0
    BY <2>1
  <2> QED
    BY <1>1, <2>2
<1>4. ASSUME n > 1, b > 1 PROVE q < n
  <2> SUFFICES ASSUME q >= n PROVE FALSE
    BY <1>1
  <2>1. PICK k \in Nat : q = n + k
    BY <1>1
  <2>2. PICK c \in Nat : b = c + 2
    BY <1>4
  <2>3. b * q = b * n + b * k /\ b * k >= 0 /\ b * n = c * n + 2 * n /\ c * n >= c
    BY <1>4, <2>1, <2>2
  <2> QED
    BY <1>1, <1>4, <2>2, <2>3
<1> QED
  BY <1>1, <1>2, <1>3, <1>4 DEF q, DivCeil

\* The chunks above a level of n, as TotalChunksFor counts them.
Above(f, m) ==
  f = [n \in 0..m |-> IF n <= 1 THEN 0
                      ELSE LET parents == DivCeil(n, MAX_BRANCHES) IN parents + f[parents]]

\* Its recursion goes to smaller levels.
LEMMA ParentsFewer ==
  ASSUME NEW n \in Nat, n > 1
  PROVE  DivCeil(n, MAX_BRANCHES) \in 1..(n - 1)
  BY FewerAbove, ChunkTreeAssumption

\* A set of numbers that is not empty has a least one.
LEMMA LeastExists ==
  ASSUME NEW S \in SUBSET Nat, S # {}
  PROVE  \E n \in S : \A m \in S : n <= m
<1> DEFINE Less == OpToRel(<, Nat)
<1>1. IsWellFoundedOn(Less, Nat)
  BY NatLessThanWellFounded
<1>2. \A x, y \in Nat : <<x, y>> \in Less <=> x < y
  BY DEF OpToRel
<1> HIDE DEF Less
<1>3. PICK n \in S : \A m \in S : ~ (<<m, n>> \in Less)
  BY <1>1, WFMin
<1>4. \A m \in S : m \in Nat /\ n \in Nat /\ ~ (m < n)
  BY <1>2, <1>3
<1> QED
  BY <1>4

\* So there is a function that satisfies it.
LEMMA AboveExists == \A m \in Nat : \E f : Above(f, m)
<1> DEFINE S == {m \in Nat : ~ \E f : Above(f, m)}
<1> SUFFICES ASSUME S # {} PROVE FALSE
  OBVIOUS
<1>1. PICK m \in S : \A k \in S : m <= k
  BY LeastExists
<1>2. m \in Nat /\ ~ \E f : Above(f, m)
  BY <1>1
<1>3. CASE m = 0
  <2>1. Above([n \in 0..0 |-> 0], 0)
    BY DEF Above
  <2> QED
    BY <1>2, <1>3, <2>1
<1>4. CASE m > 0
  <2>1. m - 1 \in Nat /\ m - 1 \notin S
    BY <1>1, <1>2, <1>4
  <2>2. PICK f : Above(f, m - 1)
    BY <2>1
  <2> DEFINE new == IF m <= 1 THEN 0
                    ELSE DivCeil(m, MAX_BRANCHES) + f[DivCeil(m, MAX_BRANCHES)]
             g == [n \in 0..m |-> IF n = m THEN new ELSE f[n]]
  <2>3. \A n \in 0..(m - 1) :
          /\ g[n] = f[n]
          /\ f[n] = IF n <= 1 THEN 0 ELSE DivCeil(n, MAX_BRANCHES) + f[DivCeil(n, MAX_BRANCHES)]
    BY <1>2, <2>2 DEF Above
  <2>4. g[m] = new
    BY <1>2
  <2>5. ASSUME NEW n \in 0..m, n > 1
        PROVE  g[DivCeil(n, MAX_BRANCHES)] = f[DivCeil(n, MAX_BRANCHES)]
    <3>1. DivCeil(n, MAX_BRANCHES) \in 1..(n - 1)
      BY <1>2, <2>5, ParentsFewer
    <3>2. DivCeil(n, MAX_BRANCHES) \in 0..(m - 1)
      BY <1>2, <2>5, <3>1
    <3> QED
      BY <2>3, <3>2
  <2>6. ASSUME NEW n \in 0..m
        PROVE  g[n] = IF n <= 1 THEN 0
                      ELSE DivCeil(n, MAX_BRANCHES) + g[DivCeil(n, MAX_BRANCHES)]
    <3>1. CASE n = m
      BY <1>2, <2>4, <2>5, <3>1
    <3>2. CASE n # m
      <4>1. n \in 0..(m - 1)
        BY <1>2, <3>2
      <4> QED
        BY <1>2, <2>3, <2>5, <4>1
    <3> QED
      BY <3>1, <3>2
  <2>7. g = [n \in 0..m |-> g[n]]
    OBVIOUS
  <2> HIDE DEF g, new
  <2>8. Above(g, m)
    BY <2>6, <2>7 DEF Above
  <2> QED
    BY <1>2, <2>8
<1> QED
  BY <1>2, <1>3, <1>4

\* And it counts.
LEMMA AboveCounts ==
  ASSUME NEW m \in Nat, NEW f, Above(f, m), NEW n \in 0..m
  PROVE  f[n] \in Nat
<1> DEFINE S == {k \in 0..m : f[k] \notin Nat}
<1> SUFFICES ASSUME S # {} PROVE FALSE
  OBVIOUS
<1>1. PICK k \in S : \A j \in S : k <= j
  <2>1. S \in SUBSET Nat
    OBVIOUS
  <2> HIDE DEF S
  <2> QED
    BY <2>1, LeastExists
<1>2. k \in 0..m /\ f[k] \notin Nat
  BY <1>1
<1>3. f[k] = IF k <= 1 THEN 0 ELSE DivCeil(k, MAX_BRANCHES) + f[DivCeil(k, MAX_BRANCHES)]
  BY <1>2 DEF Above
<1>4. CASE k <= 1
  BY <1>2, <1>3, <1>4
<1>5. CASE k > 1
  <2>1. DivCeil(k, MAX_BRANCHES) \in 1..(k - 1)
    BY <1>2, <1>5, ParentsFewer
  <2>2. DivCeil(k, MAX_BRANCHES) \in 0..m /\ ~ (k <= DivCeil(k, MAX_BRANCHES))
    BY <1>2, <2>1
  <2>3. f[DivCeil(k, MAX_BRANCHES)] \in Nat
    BY <1>1, <2>2
  <2> QED
    BY <1>2, <1>3, <1>5, <2>1, <2>3
<1> QED
  BY <1>2, <1>4, <1>5

\* The pre-count of a file is a number.
LEMMA TotalIsNat == \A len \in Nat : TotalChunksFor(len) \in Nat
<1> SUFFICES ASSUME NEW len \in Nat, len # 0 PROVE TotalChunksFor(len) \in Nat
  BY DEF TotalChunksFor
<1> DEFINE above[n \in 0..len] ==
             IF n <= 1 THEN 0
             ELSE LET parents == DivCeil(n, MAX_BRANCHES) IN parents + above[parents]
<1>1. Above(above, len)
  BY AboveExists DEF Above
<1>2. DivCeil(len, CHUNK_SIZE) \in 1..len
  BY FewerAbove, ChunkTreeAssumption
<1>3. TotalChunksFor(len) = DivCeil(len, CHUNK_SIZE) + above[DivCeil(len, CHUNK_SIZE)]
  BY DEF TotalChunksFor
<1> HIDE DEF above
<1>4. above[DivCeil(len, CHUNK_SIZE)] \in Nat
  BY <1>1, <1>2, AboveCounts
<1> QED
  BY <1>2, <1>3, <1>4

-----------------------------------------------------------------------------
(* The invariant.                                                          *)

States == {"idle", "queued", "sent", "acked", "failed", "gone", "done"}
Phases == {"entry", "upload", "save", "ok", "err", "dropped"}

ShapeOK ==
  /\ lens \in Seq(Nat) /\ website \in BOOLEAN /\ phase \in Phases
  /\ file \in 1..(Len(lens) + 1) /\ next \in Nat /\ processed \in Nat
  /\ req \in [Requests -> States]

\* What the node holds was sent; it holds what it has acknowledged; nothing is given up
\* before the end.
StoredOK ==
  \A r \in Requests :
    /\ r \in stored => req[r] \notin {"idle", "queued"}
    /\ req[r] \in {"acked", "done"} => r \in stored
    /\ req[r] = "gone" => phase \in {"err", "dropped"}

\* The files before the present one are done, those behind it not begun; of the present one
\* the chunks before next are begun.
FilesOK ==
  \A f \in 1..Len(lens) : \A i \in 1..Count(f) :
    /\ f < file => req[Chunk(f, i)] = "done"
    /\ f > file \/ (f = file /\ phase = "entry") => req[Chunk(f, i)] = "idle"
    /\ f = file /\ phase = "upload" => (req[Chunk(f, i)] = "idle" <=> i >= next)

\* A manifest node is sent when every file is done, the root when every other node is.
SaveOK ==
  /\ \A f \in FirstFork..Len(lens) : req[Fork(f)] # "idle" => file = Len(lens) + 1
  /\ req[RootNode] # "idle" =>
       /\ file = Len(lens) + 1
       /\ \A f \in FirstFork..Len(lens) : req[Fork(f)] = "done"
  /\ phase = "upload" => file <= Len(lens) /\ next >= 1
  /\ phase \in {"entry", "upload"} => req[RootNode] = "idle" /\ forks = 1..(file - 1)
  /\ phase = "save" =>
       /\ file = Len(lens) + 1
       /\ forks = FirstFork..Len(lens) /\ next \in FirstFork..(Len(lens) + 1)
       /\ \A f \in FirstFork..(next - 1) : req[Fork(f)] = "done"
       /\ next <= Len(lens) => req[RootNode] = "idle"
  /\ phase = "ok" => req[RootNode] = "done"

\* The chunks that are done, and those begun and not done.
Done == {r \in AllChunks : req[r] = "done"}
Busy == {r \in AllChunks : req[r] \in States \ {"idle", "done"}}

WindowOK ==
  /\ IsFiniteSet(Done) /\ IsFiniteSet(Busy)
  /\ Cardinality(Done) = processed
  /\ Cardinality(Busy) <= STREAM_CONCURRENCY

IInv == ShapeOK /\ StoredOK /\ FilesOK /\ SaveOK /\ WindowOK

-----------------------------------------------------------------------------
(* Requests.                                                               *)

\* A request is a chunk of a file, a fork or the root, and only one of these.
LEMMA Kinds ==
  ASSUME ShapeOK
  PROVE  /\ Len(lens) \in Nat /\ DOMAIN lens = 1..Len(lens) /\ FirstFork \in {0, 1}
         /\ \A f \in 1..Len(lens) : Count(f) \in Nat
         /\ \A f \in 1..Len(lens) : \A i \in 1..Count(f) : Chunk(f, i) \in AllChunks
         /\ \A r \in AllChunks : \E f \in 1..Len(lens) : \E i \in 1..Count(f) : r = Chunk(f, i)
         /\ AllChunks \subseteq Requests
         /\ \A f \in FirstFork..Len(lens) : Fork(f) \in Requests /\ Fork(f) \notin AllChunks
         /\ RootNode \in Requests /\ RootNode \notin AllChunks
         /\ \A f \in FirstFork..Len(lens) : Fork(f) # RootNode
         /\ \A r \in Requests : \/ r \in AllChunks
                                \/ \E f \in FirstFork..Len(lens) : r = Fork(f)
                                \/ r = RootNode
<1>1. Len(lens) \in Nat /\ DOMAIN lens = 1..Len(lens) /\ \A f \in 1..Len(lens) : lens[f] \in Nat
  BY DEF ShapeOK
<1>2. FirstFork \in {0, 1}
  BY DEF FirstFork
<1>3. \A f \in 1..Len(lens) : Count(f) \in Nat
  BY <1>1, TotalIsNat DEF Count
<1>5. \A r : r \in AllChunks <=> \E f \in 1..Len(lens) : \E i \in 1..Count(f) : r = Chunk(f, i)
  BY <1>1, <1>3 DEF AllChunks, ChunksOf
<1>6. \A r : r \in AllForks <=> \E f \in FirstFork..Len(lens) : r = Fork(f)
  BY DEF AllForks
<1>7. \A f, i, g : Chunk(f, i) # Fork(g) /\ Chunk(f, i) # RootNode /\ Fork(g) # RootNode
  BY DEF Chunk, Fork, RootNode
<1>8. \A r : r \in Requests <=> r \in AllChunks \/ r \in AllForks \/ r = RootNode
  BY DEF Requests
<1> HIDE DEF AllChunks, AllForks, Requests
<1>9. /\ \A f \in FirstFork..Len(lens) : Fork(f) \notin AllChunks
      /\ RootNode \notin AllChunks
  BY <1>5, <1>7
<1> QED
  BY <1>1, <1>2, <1>3, <1>5, <1>6, <1>7, <1>8, <1>9

\* Chunks, and forks, differ when their files or their places do.
LEMMA Differ ==
  /\ \A f, g, i, j : Chunk(f, i) = Chunk(g, j) => f = g /\ i = j
  /\ \A f, g : Fork(f) = Fork(g) => f = g
  BY DEF Chunk, Fork

\* As long as the collection stays the requests are the same.
LEMMA Same ==
  ASSUME lens' = lens, website' = website
  PROVE  /\ Requests' = Requests /\ AllChunks' = AllChunks /\ FirstFork' = FirstFork
         /\ \A f : Count(f)' = Count(f)
  BY DEF Requests, AllChunks, AllForks, ChunksOf, Count, FirstFork

\* In an upload only chunks are in flight, and they are the busy ones.
LEMMA InflightIsBusy == IInv /\ phase = "upload" => Inflight = Busy
<1> SUFFICES ASSUME IInv, phase = "upload" PROVE Inflight = Busy
  OBVIOUS
<1>1. ShapeOK /\ StoredOK /\ SaveOK
  BY DEF IInv
<1>2. \A r \in Requests : req[r] # "idle" => r \in AllChunks
  <2>1. file <= Len(lens) /\ file \in Nat /\ Len(lens) \in Nat
    BY <1>1, Kinds DEF SaveOK, ShapeOK
  <2>2. file # Len(lens) + 1
    BY <2>1
  <2>3. req[RootNode] = "idle" /\ \A f \in FirstFork..Len(lens) : req[Fork(f)] = "idle"
    BY <1>1, <2>2 DEF SaveOK
  <2> QED
    BY <1>1, <2>3, Kinds
<1>3. \A r \in Requests : req[r] # "gone" /\ req[r] \in States
  BY <1>1 DEF StoredOK, ShapeOK
<1>4. AllChunks \subseteq Requests
  BY <1>1, Kinds
<1> QED
  BY <1>2, <1>3, <1>4 DEF Inflight, Busy, States

-----------------------------------------------------------------------------
(* Steps.                                                                  *)

\* A request on its way goes on: sent, answered, or its answer read.
LEMMA Moves ==
  ASSUME IInv, NEW r \in Requests, NEW state \in {"sent", "acked", "failed", "done"},
         req[r] \in {"queued", "sent", "acked"}, req' = [req EXCEPT ![r] = state],
         state \in {"acked", "done"} => r \in stored,
         UNCHANGED <<lens, website, phase, file, next, stored, forks>>,
         processed' \in Nat
  PROVE  ShapeOK' /\ StoredOK' /\ FilesOK' /\ SaveOK'
<1>1. /\ ShapeOK /\ StoredOK /\ FilesOK /\ SaveOK
      /\ lens' = lens /\ website' = website /\ phase' = phase /\ file' = file /\ next' = next
      /\ stored' = stored /\ forks' = forks
  BY DEF IInv
<1>2. /\ Requests' = Requests /\ FirstFork' = FirstFork /\ \A f : Count(f)' = Count(f)
      /\ req' \in [Requests -> States] /\ state \in States
      /\ req'[r] = state /\ \A q \in Requests : q # r => req'[q] = req[q]
  BY <1>1, Same DEF ShapeOK, States
<1>3. ShapeOK'
  BY <1>1, <1>2 DEF ShapeOK
<1>4. StoredOK'
  BY <1>1, <1>2 DEF StoredOK
<1>5. FilesOK'
  <2> SUFFICES ASSUME NEW f \in 1..Len(lens), NEW i \in 1..Count(f)
               PROVE  /\ f < file => req'[Chunk(f, i)] = "done"
                      /\ f > file \/ (f = file /\ phase = "entry") => req'[Chunk(f, i)] = "idle"
                      /\ f = file /\ phase = "upload" => (req'[Chunk(f, i)] = "idle" <=> i >= next)
    BY <1>1, <1>2 DEF FilesOK
  <2>1. Chunk(f, i) \in Requests
    BY <1>1, Kinds
  <2>2. /\ f < file => req[Chunk(f, i)] = "done"
        /\ f > file \/ (f = file /\ phase = "entry") => req[Chunk(f, i)] = "idle"
        /\ f = file /\ phase = "upload" => (req[Chunk(f, i)] = "idle" <=> i >= next)
    BY <1>1 DEF FilesOK
  <2> QED
    BY <1>2, <2>1, <2>2
<1>6. SaveOK'
  <2>1. /\ RootNode \in Requests /\ \A f \in FirstFork..Len(lens) : Fork(f) \in Requests
        /\ Len(lens) \in Nat /\ FirstFork \in {0, 1} /\ next \in Nat
    BY <1>1, Kinds DEF ShapeOK
  <2>2. \A q \in Requests : (req'[q] = "idle" <=> req[q] = "idle")
                            /\ (req[q] = "done" => req'[q] = "done")
    BY <1>2
  <2>3. phase = "save" => \A f \in FirstFork..(next - 1) : f \in FirstFork..Len(lens)
    BY <1>1, <2>1 DEF SaveOK
  <2> QED
    BY <1>1, <1>2, <2>1, <2>2, <2>3 DEF SaveOK
<1> QED
  BY <1>3, <1>4, <1>5, <1>6

\* The task sends a request, or one is answered: no chunk begins or ends.
LEMMA SentOK == IInv /\ (\E r \in Requests : Poll(r) \/ Answer(r)) => IInv'
<1> SUFFICES ASSUME IInv, NEW r \in Requests, Poll(r) \/ Answer(r) PROVE IInv'
  OBVIOUS
<1>1. PICK state \in {"sent", "acked", "failed"} :
        /\ req[r] \in {"queued", "sent"} /\ req' = [req EXCEPT ![r] = state]
        /\ state = "acked" => r \in stored
  BY DEF Poll, Answer
<1>2. /\ lens' = lens /\ website' = website /\ phase' = phase /\ file' = file /\ next' = next
      /\ stored' = stored /\ forks' = forks /\ processed' = processed
      /\ ShapeOK /\ WindowOK
  BY DEF Poll, Answer, IInv
<1>3. ShapeOK' /\ StoredOK' /\ FilesOK' /\ SaveOK'
  BY <1>1, <1>2, Moves DEF ShapeOK
<1>4. Done' = Done /\ Busy' = Busy
  <2>1. /\ AllChunks' = AllChunks /\ AllChunks \subseteq Requests
        /\ \A q \in Requests : q # r => req'[q] = req[q]
        /\ req'[r] = state
    BY <1>1, <1>2, Same, Kinds DEF ShapeOK
  <2> QED
    BY <1>1, <2>1 DEF Done, Busy, States
<1>5. WindowOK'
  BY <1>2, <1>4 DEF WindowOK
<1> QED
  BY <1>3, <1>5 DEF IInv

\* The futures are dropped: no chunk comes to be busy or done.
LEMMA AbortOK ==
  ASSUME IInv, NEW end \in {"err", "dropped"}, Abort(end)
  PROVE  IInv'
<1>1. /\ ShapeOK /\ StoredOK /\ FilesOK /\ SaveOK /\ WindowOK /\ phase' = end
      /\ lens' = lens /\ website' = website /\ file' = file /\ next' = next
      /\ stored' = stored /\ forks' = forks /\ processed' = processed
  BY DEF IInv, Abort
<1>2. /\ Requests' = Requests /\ AllChunks' = AllChunks /\ FirstFork' = FirstFork
      /\ \A f : Count(f)' = Count(f)
  BY <1>1, Same
<1>3. /\ req' \in [Requests -> States]
      /\ \A q \in Requests : /\ req[q] = "queued" => req'[q] = "idle"
                             /\ req[q] = "sent" => req'[q] = "gone"
                             /\ req[q] \notin {"queued", "sent"} => req'[q] = req[q]
  <2>1. req' = [q \in Requests |-> CASE req[q] = "queued" -> "idle"
                                     [] req[q] = "sent"   -> "gone"
                                     [] OTHER             -> req[q]]
    BY DEF Abort
  <2>2. \A q \in Requests : req[q] \in States
    BY <1>1 DEF ShapeOK
  <2> QED
    BY <2>1, <2>2 DEF States
<1>4. ShapeOK'
  BY <1>1, <1>2, <1>3 DEF ShapeOK, Phases
<1>5. StoredOK'
  BY <1>1, <1>2, <1>3 DEF StoredOK
<1>6. FilesOK'
  <2> SUFFICES ASSUME NEW f \in 1..Len(lens), NEW i \in 1..Count(f)
               PROVE  /\ f < file => req'[Chunk(f, i)] = "done"
                      /\ f > file => req'[Chunk(f, i)] = "idle"
    BY <1>1, <1>2 DEF FilesOK
  <2> QED
    BY <1>1, <1>3, Kinds DEF FilesOK
<1>7. SaveOK'
  <2>1. RootNode \in Requests /\ \A f \in FirstFork..Len(lens) : Fork(f) \in Requests
    BY <1>1, Kinds
  <2>2. \A q \in Requests : (req'[q] # "idle" => req[q] # "idle")
                            /\ (req[q] = "done" => req'[q] = "done")
    BY <1>3
  <2> QED
    BY <1>1, <1>2, <2>1, <2>2 DEF SaveOK
<1>8. WindowOK'
  <2>1. AllChunks \subseteq Requests /\ \A q \in Requests : req[q] \in States
    BY <1>1, Kinds DEF ShapeOK
  <2>2. Done' = Done
    BY <1>2, <1>3, <2>1 DEF Done, States
  <2>3. Busy' \subseteq Busy
    BY <1>2, <1>3, <2>1 DEF Busy, States
  <2>4. IsFiniteSet(Busy') /\ Cardinality(Busy') <= Cardinality(Busy)
        /\ Cardinality(Busy') \in Nat /\ Cardinality(Busy) \in Nat
    BY <1>1, <2>3, FS_Subset, FS_CardinalityType DEF WindowOK
  <2>5. STREAM_CONCURRENCY \in Nat
    BY UploadAssumption
  <2> QED
    BY <1>1, <2>2, <2>4, <2>5 DEF WindowOK
<1> QED
  BY <1>4, <1>5, <1>6, <1>7, <1>8 DEF IInv

\* The answer for a chunk is read: it is done, and counted; or it aborts the upload.
LEMMA HarvestOK == IInv /\ (\E r \in Requests : Harvest(r)) => IInv'
<1> SUFFICES ASSUME IInv, NEW r \in Requests, Harvest(r), ~Abort("err") PROVE IInv'
  BY AbortOK DEF Harvest
<1>1. /\ phase = "upload" /\ req[r] = "acked" /\ req' = [req EXCEPT ![r] = "done"]
      /\ lens' = lens /\ website' = website /\ phase' = phase /\ file' = file /\ next' = next
      /\ stored' = stored /\ forks' = forks /\ processed' = processed + 1
  BY DEF Harvest, Harvesting
<1>2. ShapeOK /\ StoredOK /\ WindowOK /\ processed \in Nat
  BY DEF IInv, ShapeOK
<1>3. ShapeOK' /\ StoredOK' /\ FilesOK' /\ SaveOK'
  <2>1. r \in stored
    BY <1>1, <1>2 DEF StoredOK
  <2>2. processed' \in Nat
    BY <1>1, <1>2
  <2> QED
    BY <1>1, <2>1, <2>2, Moves
<1>4. r \in AllChunks
  <2>1. r \in Inflight
    BY <1>1 DEF Inflight
  <2> QED
    BY <1>1, <2>1, InflightIsBusy DEF Busy
<1>5. Done' = Done \cup {r} /\ r \notin Done /\ Busy' \subseteq Busy
  <2>1. /\ AllChunks' = AllChunks /\ AllChunks \subseteq Requests
        /\ \A q \in Requests : q # r => req'[q] = req[q]
        /\ req'[r] = "done"
    BY <1>1, <1>2, Same, Kinds DEF ShapeOK
  <2> QED
    BY <1>1, <1>4, <2>1 DEF Done, Busy, States
<1>6. IsFiniteSet(Done') /\ Cardinality(Done') = processed'
  <2>1. IsFiniteSet(Done) /\ Cardinality(Done) = processed
    BY <1>2 DEF WindowOK
  <2>2. IsFiniteSet(Done \cup {r}) /\ Cardinality(Done \cup {r}) = Cardinality(Done) + 1
    BY <1>5, <2>1, FS_AddElement
  <2> QED
    BY <1>1, <1>5, <2>1, <2>2
<1>7. IsFiniteSet(Busy') /\ Cardinality(Busy') <= STREAM_CONCURRENCY
  <2>1. IsFiniteSet(Busy') /\ Cardinality(Busy') <= Cardinality(Busy)
        /\ Cardinality(Busy') \in Nat /\ Cardinality(Busy) \in Nat
    BY <1>2, <1>5, FS_Subset, FS_CardinalityType DEF WindowOK
  <2>2. STREAM_CONCURRENCY \in Nat
    BY UploadAssumption
  <2> QED
    BY <1>2, <2>1, <2>2 DEF WindowOK
<1> QED
  BY <1>3, <1>6, <1>7 DEF IInv, WindowOK

\* A chunk is begun while there is room in the window.
LEMMA PushChunkOK == IInv /\ PushChunk => IInv'
<1> SUFFICES ASSUME IInv, PushChunk PROVE IInv'
  OBVIOUS
<1> DEFINE new == Chunk(file, next)
<1>1. /\ phase = "upload" /\ ~AllPushed /\ ~WindowFull
      /\ req' = [req EXCEPT ![new] = "queued"] /\ next' = next + 1
      /\ lens' = lens /\ website' = website /\ phase' = phase /\ file' = file
      /\ stored' = stored /\ forks' = forks /\ processed' = processed
  BY DEF PushChunk
<1>2. ShapeOK /\ StoredOK /\ FilesOK /\ SaveOK /\ WindowOK
  BY DEF IInv
<1>3. /\ file \in 1..Len(lens) /\ Count(file) \in Nat /\ next \in Nat
      /\ Len(lens) \in Nat
  BY <1>1, <1>2, Kinds DEF ShapeOK, SaveOK
<1>4. next <= Count(file)
  BY <1>1, <1>3 DEF AllPushed
<1>5. Requests' = Requests /\ AllChunks' = AllChunks /\ FirstFork' = FirstFork
      /\ \A f : Count(f)' = Count(f)
  BY <1>1, Same
<1>6. /\ req' \in [Requests -> States]
      /\ \A q \in Requests : req'[q] = IF q = new THEN "queued" ELSE req[q]
  <2>1. req \in [Requests -> States] /\ "queued" \in States
    BY <1>2 DEF ShapeOK, States
  <2> QED
    BY <1>1, <2>1
<1>7. ShapeOK'
  BY <1>1, <1>2, <1>5, <1>6 DEF ShapeOK
<1>8. new \in AllChunks /\ new \in Requests /\ req[new] = "idle"
  <2>1. next \in 1..Count(file)
    BY <1>1, <1>2, <1>3, <1>4 DEF SaveOK
  <2> QED
    BY <1>1, <1>2, <1>3, <2>1, Kinds DEF FilesOK
<1>9. StoredOK'
  BY <1>1, <1>2, <1>5, <1>6, <1>8 DEF StoredOK
<1>10. FilesOK'
  <2> SUFFICES ASSUME NEW f \in 1..Len(lens), NEW i \in 1..Count(f)
               PROVE  /\ f < file => req'[Chunk(f, i)] = "done"
                      /\ f > file => req'[Chunk(f, i)] = "idle"
                      /\ f = file => (req'[Chunk(f, i)] = "idle" <=> i >= next + 1)
    BY <1>1, <1>5 DEF FilesOK
  <2>1. /\ f < file => req[Chunk(f, i)] = "done"
        /\ f > file => req[Chunk(f, i)] = "idle"
        /\ f = file => (req[Chunk(f, i)] = "idle" <=> i >= next)
    BY <1>1, <1>2 DEF FilesOK
  <2>2. /\ Chunk(f, i) \in Requests /\ i \in Nat
        /\ Chunk(f, i) = new <=> f = file /\ i = next
    <3>1. i \in Nat /\ Chunk(f, i) \in Requests
      BY <1>2, Kinds
    <3> QED
      BY <3>1, Differ
  <2>3. CASE f = file /\ i = next
    BY <1>3, <1>6, <2>2, <2>3
  <2>4. CASE ~(f = file /\ i = next)
    <3>1. req'[Chunk(f, i)] = req[Chunk(f, i)]
      BY <1>6, <2>2, <2>4
    <3>2. f = file => (i >= next <=> i >= next + 1)
      BY <1>3, <2>2, <2>4
    <3> QED
      BY <2>1, <3>1, <3>2
  <2> QED
    BY <2>3, <2>4
<1>11. SaveOK'
  <2>1. /\ \A f \in FirstFork..Len(lens) : Fork(f) \in Requests /\ Fork(f) # new
        /\ RootNode \in Requests /\ RootNode # new
    BY <1>2, <1>8, Kinds
  <2>2. /\ \A f \in FirstFork..Len(lens) : req'[Fork(f)] = req[Fork(f)]
        /\ req'[RootNode] = req[RootNode]
    BY <1>6, <2>1
  <2> QED
    BY <1>1, <1>2, <1>3, <1>5, <2>2 DEF SaveOK
<1>12. WindowOK'
  <2>1. \A q \in AllChunks : q \in Requests
    BY <1>2, Kinds
  <2>2. Done' = Done
    BY <1>5, <1>6, <1>8, <2>1 DEF Done
  <2>3. Busy' = Busy \cup {new} /\ new \notin Busy
    BY <1>5, <1>6, <1>8, <2>1 DEF Busy, States
  <2>4. Cardinality(Busy') = Cardinality(Busy) + 1 /\ IsFiniteSet(Busy')
        /\ Cardinality(Busy) \in Nat
    <3>1. IsFiniteSet(Busy) /\ Cardinality(Busy) \in Nat
      BY <1>2, FS_CardinalityType DEF WindowOK
    <3>2. /\ IsFiniteSet(Busy \cup {new})
          /\ Cardinality(Busy \cup {new}) = Cardinality(Busy) + 1
      BY <2>3, <3>1, FS_AddElement
    <3> QED
      BY <2>3, <3>1, <3>2
  <2>5. Cardinality(Busy) < STREAM_CONCURRENCY
    <3>1. Inflight = Busy
      BY <1>1, InflightIsBusy
    <3>2. ~ (Cardinality(Busy) >= STREAM_CONCURRENCY) /\ STREAM_CONCURRENCY \in Nat
      BY <1>1, <3>1, UploadAssumption DEF WindowFull
    <3> QED
      BY <2>4, <3>2
  <2>6. STREAM_CONCURRENCY \in Nat
    BY UploadAssumption
  <2> QED
    BY <1>1, <1>2, <2>2, <2>4, <2>5, <2>6 DEF WindowOK
<1> QED
  BY <1>7, <1>9, <1>10, <1>11, <1>12 DEF IInv

\* A step that leaves the chunks alone leaves the window alone.
LEMMA WindowKept ==
  ASSUME ShapeOK, WindowOK, lens' = lens, website' = website, processed' = processed,
         \A q \in AllChunks : req'[q] = req[q]
  PROVE  WindowOK'
<1>1. AllChunks' = AllChunks
  BY Same
<1>2. Done' = Done /\ Busy' = Busy
  BY <1>1 DEF Done, Busy
<1> QED
  BY <1>2 DEF WindowOK

\* The next file: none of its chunks is begun.
LEMMA StartEntryOK == IInv /\ StartEntry => IInv'
<1> SUFFICES ASSUME IInv, StartEntry, ~Abort("err") PROVE IInv'
  BY AbortOK DEF StartEntry
<1>1. /\ phase = "entry" /\ file <= Len(lens) /\ phase' = "upload" /\ next' = 1
      /\ lens' = lens /\ website' = website /\ file' = file /\ req' = req
      /\ stored' = stored /\ forks' = forks /\ processed' = processed
  BY DEF StartEntry
<1>2. /\ ShapeOK /\ StoredOK /\ FilesOK /\ SaveOK /\ WindowOK
      /\ Requests' = Requests /\ FirstFork' = FirstFork /\ \A f : Count(f)' = Count(f)
  BY <1>1, Same DEF IInv
<1>3. ShapeOK' /\ StoredOK'
  BY <1>1, <1>2 DEF ShapeOK, StoredOK, Phases
<1>4. FilesOK'
  <2> SUFFICES ASSUME NEW f \in 1..Len(lens), NEW i \in 1..Count(f)
               PROVE  /\ f < file => req[Chunk(f, i)] = "done"
                      /\ f > file => req[Chunk(f, i)] = "idle"
                      /\ f = file => (req[Chunk(f, i)] = "idle" <=> i >= 1)
    BY <1>1, <1>2 DEF FilesOK
  <2>1. i \in 1..Count(f) /\ Count(f) \in Nat
    BY <1>2, Kinds
  <2> QED
    BY <1>1, <1>2, <2>1 DEF FilesOK
<1>5. SaveOK'
  BY <1>1, <1>2 DEF SaveOK
<1> QED
  BY <1>1, <1>2, <1>3, <1>4, <1>5, WindowKept DEF IInv

\* The last answer of a file is read: all of its chunks are done.
LEMMA FinishEntryOK == IInv /\ FinishEntry => IInv'
<1> SUFFICES ASSUME IInv, FinishEntry PROVE IInv'
  OBVIOUS
<1>1. /\ phase = "upload" /\ AllPushed /\ Inflight = {}
      /\ phase' = "entry" /\ file' = file + 1 /\ forks' = forks \cup {file} /\ next' = next
      /\ lens' = lens /\ website' = website /\ req' = req
      /\ stored' = stored /\ processed' = processed
  BY DEF FinishEntry
<1>2. /\ ShapeOK /\ StoredOK /\ FilesOK /\ SaveOK /\ WindowOK
      /\ Requests' = Requests /\ FirstFork' = FirstFork /\ \A f : Count(f)' = Count(f)
  BY <1>1, Same DEF IInv
<1>3. file \in 1..Len(lens) /\ Len(lens) \in Nat /\ next \in Nat /\ Count(file) \in Nat
  BY <1>1, <1>2, Kinds DEF ShapeOK, SaveOK
<1>4. ShapeOK'
  BY <1>1, <1>2, <1>3 DEF ShapeOK, Phases
<1>5. StoredOK'
  BY <1>1, <1>2 DEF StoredOK
<1>6. ASSUME NEW i \in 1..Count(file) PROVE req[Chunk(file, i)] = "done"
  <2>1. i < next
    BY <1>1, <1>3 DEF AllPushed
  <2>2. req[Chunk(file, i)] # "idle"
    BY <1>1, <1>2, <1>3, <2>1 DEF FilesOK
  <2>3. Chunk(file, i) \in Requests /\ req[Chunk(file, i)] \in States
    BY <1>2, <1>3, Kinds DEF ShapeOK
  <2>4. req[Chunk(file, i)] # "gone"
    BY <1>1, <1>2, <2>3 DEF StoredOK
  <2>5. req[Chunk(file, i)] \notin {"queued", "sent", "acked", "failed"}
    BY <1>1, <2>3 DEF Inflight
  <2> QED
    BY <2>2, <2>3, <2>4, <2>5 DEF States
<1>7. FilesOK'
  <2> SUFFICES ASSUME NEW f \in 1..Len(lens), NEW i \in 1..Count(f)
               PROVE  /\ f < file + 1 => req[Chunk(f, i)] = "done"
                      /\ f > file + 1 \/ f = file + 1 => req[Chunk(f, i)] = "idle"
    BY <1>1, <1>2 DEF FilesOK
  <2>1. CASE f < file
    BY <1>2, <1>3, <2>1 DEF FilesOK
  <2>2. CASE f = file
    BY <1>3, <1>6, <2>2
  <2>3. CASE f > file
    BY <1>2, <1>3, <2>3 DEF FilesOK
  <2> QED
    BY <1>3, <2>1, <2>2, <2>3
<1>8. SaveOK'
  <2>1. file # Len(lens) + 1
    BY <1>3
  <2>2. /\ req[RootNode] = "idle" /\ \A f \in FirstFork..Len(lens) : req[Fork(f)] = "idle"
        /\ forks = 1..(file - 1)
    BY <1>1, <1>2, <2>1 DEF SaveOK
  <2>3. forks' = 1..(file' - 1)
    BY <1>1, <1>3, <2>2
  <2> QED
    BY <1>1, <1>2, <2>2, <2>3 DEF SaveOK
<1> QED
  BY <1>1, <1>2, <1>4, <1>5, <1>7, <1>8, WindowKept DEF IInv

\* Every file is done: the manifest has a fork for each, and for the website.
LEMMA StartSaveOK == IInv /\ StartSave => IInv'
<1> SUFFICES ASSUME IInv, StartSave PROVE IInv'
  OBVIOUS
<1>1. /\ phase = "entry" /\ file > Len(lens) /\ phase' = "save" /\ next' = FirstFork
      /\ forks' = (IF website THEN forks \cup {0} ELSE forks)
      /\ lens' = lens /\ website' = website /\ file' = file /\ req' = req
      /\ stored' = stored /\ processed' = processed
  BY DEF StartSave
<1>2. /\ ShapeOK /\ StoredOK /\ FilesOK /\ SaveOK /\ WindowOK
      /\ Requests' = Requests /\ FirstFork' = FirstFork /\ \A f : Count(f)' = Count(f)
      /\ Len(lens) \in Nat /\ FirstFork \in {0, 1}
  BY <1>1, Same, Kinds DEF IInv
<1>3. file = Len(lens) + 1
  BY <1>1, <1>2 DEF ShapeOK
<1>4. ShapeOK' /\ StoredOK'
  BY <1>1, <1>2 DEF ShapeOK, StoredOK, Phases
<1>5. FilesOK'
  BY <1>1, <1>2, <1>3 DEF FilesOK
<1>6. SaveOK'
  <2>1. forks = 1..Len(lens) /\ req[RootNode] = "idle"
    BY <1>1, <1>2, <1>3 DEF SaveOK
  <2>2. forks' = FirstFork..Len(lens)
    <3>1. CASE website
      <4>1. FirstFork = 0 /\ forks' = forks \cup {0}
        BY <1>1, <3>1 DEF FirstFork
      <4> QED
        BY <1>2, <2>1, <4>1
    <3>2. CASE ~website
      <4>1. FirstFork = 1 /\ forks' = forks
        BY <1>1, <3>2 DEF FirstFork
      <4> QED
        BY <2>1, <4>1
    <3> QED
      BY <3>1, <3>2
  <2>3. \A f : f \notin FirstFork..(FirstFork - 1)
    BY <1>2
  <2>4. FirstFork \in FirstFork..(Len(lens) + 1)
    BY <1>2
  <2> QED
    BY <1>1, <1>2, <1>3, <2>1, <2>2, <2>3, <2>4 DEF SaveOK
<1> QED
  BY <1>1, <1>2, <1>4, <1>5, <1>6, WindowKept DEF IInv

\* What is saved is the next fork, or after all of them the root.
LEMMA SavingIs ==
  ASSUME IInv, phase = "save"
  PROVE  /\ Saving \in Requests /\ Saving \notin AllChunks
         /\ \/ next \in FirstFork..Len(lens) /\ Saving = Fork(next)
            \/ next = Len(lens) + 1 /\ Saving = RootNode
<1>1. /\ forks = FirstFork..Len(lens) /\ next \in FirstFork..(Len(lens) + 1) /\ ShapeOK
      /\ Len(lens) \in Nat /\ FirstFork \in {0, 1}
  BY Kinds DEF IInv, SaveOK
<1>2. CASE next \in forks
  BY <1>1, <1>2, Kinds DEF Saving
<1>3. CASE next \notin forks
  <2>1. next = Len(lens) + 1
    BY <1>1, <1>3
  <2> QED
    BY <1>1, <1>3, <2>1, Kinds DEF Saving
<1> QED
  BY <1>2, <1>3

\* A node of the manifest is sent, or its answer is read: those before it are done.
LEMMA SaveStepOK == IInv /\ (SaveNode \/ SaveReturn) => IInv'
<1> SUFFICES ASSUME IInv, SaveNode \/ SaveReturn, ~Abort("err") PROVE IInv'
  BY AbortOK DEF SaveReturn
<1>1. /\ phase = "save" /\ lens' = lens /\ website' = website /\ file' = file
      /\ stored' = stored /\ forks' = forks /\ processed' = processed
  BY DEF SaveNode, SaveReturn
<1>2. PICK state \in {"sent", "done"} :
        /\ req' = [req EXCEPT ![Saving] = state]
        /\ \/ state = "sent" /\ phase' = phase /\ next' = next
           \/ /\ state = "done" /\ req[Saving] = "acked"
              /\ IF Saving = RootNode THEN phase' = "ok" /\ next' = next
                                      ELSE next' = next + 1 /\ phase' = phase
  BY DEF SaveNode, SaveReturn
<1>3. /\ ShapeOK /\ StoredOK /\ FilesOK /\ SaveOK /\ WindowOK
      /\ Requests' = Requests /\ FirstFork' = FirstFork /\ \A f : Count(f)' = Count(f)
      /\ Len(lens) \in Nat /\ FirstFork \in {0, 1} /\ next \in Nat
  BY <1>1, Same, Kinds DEF IInv, ShapeOK
<1>4. /\ Saving \in Requests /\ Saving \notin AllChunks
      /\ \/ next \in FirstFork..Len(lens) /\ Saving = Fork(next)
         \/ next = Len(lens) + 1 /\ Saving = RootNode
  BY <1>1, SavingIs
<1>5. /\ req' \in [Requests -> States] /\ req'[Saving] = state
      /\ \A q \in Requests : q # Saving => req'[q] = req[q]
  BY <1>2, <1>3, <1>4 DEF ShapeOK, States
<1> HIDE DEF Saving
<1>6. ShapeOK'
  <2>1. phase' \in Phases /\ next' \in Nat
    BY <1>1, <1>2, <1>3 DEF Phases, ShapeOK
  <2> QED
    BY <1>1, <1>3, <1>5, <2>1 DEF ShapeOK
<1>7. StoredOK'
  <2>1. state = "done" => Saving \in stored
    BY <1>2, <1>3, <1>4 DEF StoredOK
  <2>2. phase' \notin {"err", "dropped"}
    BY <1>1, <1>2
  <2> SUFFICES ASSUME NEW q \in Requests
               PROVE  /\ q \in stored => req'[q] \notin {"idle", "queued"}
                      /\ req'[q] \in {"acked", "done"} => q \in stored
                      /\ req'[q] # "gone"
    BY <1>1, <1>3 DEF StoredOK
  <2> QED
    BY <1>1, <1>3, <1>5, <2>1 DEF StoredOK
<1>8. FilesOK'
  <2>1. phase' \notin {"entry", "upload"}
    BY <1>1, <1>2
  <2>2. \A f \in 1..Len(lens) : \A i \in 1..Count(f) : req'[Chunk(f, i)] = req[Chunk(f, i)]
    BY <1>3, <1>4, <1>5, Kinds
  <2> QED
    BY <1>1, <1>3, <2>1, <2>2 DEF FilesOK
<1>9. SaveOK'
  <2>1. /\ file = Len(lens) + 1 /\ forks = FirstFork..Len(lens)
        /\ next \in FirstFork..(Len(lens) + 1)
        /\ \A f \in FirstFork..(next - 1) : req[Fork(f)] = "done"
        /\ next <= Len(lens) => req[RootNode] = "idle"
    BY <1>1, <1>3 DEF SaveOK
  <2>2. \A f \in FirstFork..(next - 1) : f \in FirstFork..Len(lens) /\ f # next
    BY <1>3, <2>1
  <2>3. \A f \in FirstFork..Len(lens) : Fork(f) \in Requests /\ Fork(f) # RootNode
    BY <1>3, Kinds
  <2>4. \A f \in FirstFork..(next - 1) : req'[Fork(f)] = "done"
    <3> SUFFICES ASSUME NEW f \in FirstFork..(next - 1) PROVE req'[Fork(f)] = "done"
      OBVIOUS
    <3>1. Fork(f) # Saving /\ Fork(f) \in Requests
      BY <1>4, <2>2, <2>3, Differ
    <3> QED
      BY <1>5, <2>1, <3>1
  <2>5. CASE next \in FirstFork..Len(lens) /\ Saving = Fork(next)
    <3>1. Saving # RootNode /\ phase' = "save" /\ RootNode \in Requests
      BY <1>1, <1>2, <1>3, <2>3, <2>5, Kinds
    <3>2. req'[RootNode] = "idle"
      BY <1>5, <2>1, <2>5, <3>1
    <3>3. /\ next' \in FirstFork..(Len(lens) + 1)
          /\ \A f \in FirstFork..(next' - 1) : req'[Fork(f)] = "done"
      <4>1. CASE state = "sent"
        BY <1>2, <2>1, <2>4, <4>1
      <4>2. CASE state = "done"
        <5>1. next' = next + 1 /\ req'[Fork(next)] = "done"
          BY <1>2, <1>5, <2>5, <3>1, <4>2
        <5>2. \A f \in FirstFork..(next' - 1) : f \in FirstFork..(next - 1) \/ f = next
          BY <1>3, <5>1
        <5> QED
          BY <1>3, <2>4, <2>5, <5>1, <5>2
      <4> QED
        BY <4>1, <4>2
    <3> QED
      BY <1>1, <1>3, <2>1, <3>1, <3>2, <3>3 DEF SaveOK
  <2>6. CASE next = Len(lens) + 1 /\ Saving = RootNode
    <3>1. \A f \in FirstFork..Len(lens) : req'[Fork(f)] = "done"
      BY <1>3, <2>4, <2>6
    <3>2. next' = next /\ (phase' = "save" \/ (phase' = "ok" /\ req'[RootNode] = "done"))
      BY <1>1, <1>2, <1>5, <2>6
    <3>3. ~(next <= Len(lens))
      BY <1>3, <2>6
    <3> QED
      BY <1>1, <1>3, <2>1, <2>4, <3>1, <3>2, <3>3 DEF SaveOK
  <2> QED
    BY <1>4, <2>5, <2>6
<1>10. \A q \in AllChunks : req'[q] = req[q]
  BY <1>3, <1>4, <1>5, Kinds
<1> QED
  BY <1>1, <1>3, <1>6, <1>7, <1>8, <1>9, <1>10, WindowKept DEF IInv

\* The node stores what it was sent, also when nobody waits for it.
LEMMA NodeStoresOK == IInv /\ (\E r \in Requests : NodeStores(r)) => IInv'
<1> SUFFICES ASSUME IInv, NEW r \in Requests, NodeStores(r) PROVE IInv'
  OBVIOUS
<1>1. /\ req[r] \in {"sent", "gone", "failed"} /\ stored' = stored \cup {r}
      /\ lens' = lens /\ website' = website /\ phase' = phase /\ file' = file /\ next' = next
      /\ req' = req /\ forks' = forks /\ processed' = processed
  BY DEF NodeStores
<1>2. /\ ShapeOK /\ StoredOK /\ FilesOK /\ SaveOK /\ WindowOK
      /\ Requests' = Requests /\ FirstFork' = FirstFork /\ \A f : Count(f)' = Count(f)
  BY <1>1, Same DEF IInv
<1>3. StoredOK'
  BY <1>1, <1>2 DEF StoredOK
<1>4. ShapeOK' /\ FilesOK' /\ SaveOK'
  BY <1>1, <1>2 DEF ShapeOK, FilesOK, SaveOK
<1> QED
  BY <1>1, <1>2, <1>3, <1>4, WindowKept DEF IInv

-----------------------------------------------------------------------------
(* The specification.                                                      *)

\* At first nothing is begun.
LEMMA InitOK == Init => IInv
<1> SUFFICES ASSUME Init PROVE IInv
  OBVIOUS
<1>1. PICK n \in 0..MaxEntries : lens \in [1..n -> Lengths]
  BY DEF Init
<1>2. /\ website \in BOOLEAN /\ phase = "entry" /\ file = 1 /\ next = 1
      /\ req = [r \in Requests |-> "idle"] /\ stored = {} /\ processed = 0 /\ forks = {}
  BY DEF Init
<1>3. lens \in Seq(Nat)
  <2>1. n \in Nat
    BY UploadAssumption
  <2>2. \A k \in 1..n : lens[k] \in Nat
    BY <1>1, UploadAssumption
  <2>3. lens \in [1..n -> Nat]
    BY <1>1, <2>2
  <2> QED
    BY <2>1, <2>3, IsASeq
<1>4. ShapeOK
  BY <1>2, <1>3 DEF ShapeOK, States, Phases
<1>5. StoredOK
  BY <1>2 DEF StoredOK
<1>6. FilesOK
  <2> SUFFICES ASSUME NEW f \in 1..Len(lens), NEW i \in 1..Count(f)
               PROVE  ~(f < 1) /\ req[Chunk(f, i)] = "idle"
    BY <1>2 DEF FilesOK
  <2>1. Chunk(f, i) \in Requests
    BY <1>4, Kinds
  <2> QED
    BY <1>2, <1>4, <2>1, Kinds
<1>7. SaveOK
  <2>1. req[RootNode] = "idle" /\ \A f \in FirstFork..Len(lens) : req[Fork(f)] = "idle"
    BY <1>2, <1>4, Kinds
  <2> QED
    BY <1>2, <2>1 DEF SaveOK
<1>8. WindowOK
  <2>1. Done = {} /\ Busy = {}
    BY <1>2, <1>4, Kinds DEF Done, Busy
  <2> QED
    BY <1>2, <2>1, FS_EmptySet, UploadAssumption DEF WindowOK
<1> QED
  BY <1>4, <1>5, <1>6, <1>7, <1>8 DEF IInv

\* No step of the task, of the node or of the caller breaks it.
LEMMA StepOK == IInv /\ [Next]_vars => IInv'
<1> SUFFICES ASSUME IInv, [Next]_vars PROVE IInv'
  OBVIOUS
<1>1. CASE TaskStep
  BY <1>1, StartEntryOK, PushChunkOK, FinishEntryOK, StartSaveOK, SaveStepOK, SentOK, HarvestOK
     DEF TaskStep
<1>2. CASE \E r \in Requests : NodeStores(r) \/ Answer(r)
  BY <1>2, NodeStoresOK, SentOK
<1>3. CASE DropUpload
  BY <1>3, AbortOK DEF DropUpload
<1>4. CASE UNCHANGED vars
  <2>1. /\ lens' = lens /\ website' = website /\ phase' = phase /\ file' = file
        /\ next' = next /\ stored' = stored /\ req' = req /\ forks' = forks
        /\ processed' = processed
    BY <1>4 DEF vars
  <2>2. /\ ShapeOK /\ StoredOK /\ FilesOK /\ SaveOK /\ WindowOK
        /\ Requests' = Requests /\ FirstFork' = FirstFork /\ \A f : Count(f)' = Count(f)
    BY <2>1, Same DEF IInv
  <2>3. ShapeOK' /\ StoredOK' /\ FilesOK' /\ SaveOK'
    BY <2>1, <2>2 DEF ShapeOK, StoredOK, FilesOK, SaveOK
  <2> QED
    BY <2>1, <2>2, <2>3, WindowKept DEF IInv
<1> QED
  BY <1>1, <1>2, <1>3, <1>4 DEF Next, Finished

\* The inductive invariant of an upload.
THEOREM InductiveInvariant == Spec => []IInv
  BY InitOK, StepOK, PTL DEF Spec

\* A file whose chunks are all done is held by the node.
LEMMA HeldOnceDone ==
  ASSUME IInv, NEW f \in 1..Len(lens), f < file
  PROVE  ChunksOf(f) \subseteq stored
<1>1. ShapeOK /\ StoredOK /\ FilesOK
  BY DEF IInv
<1>2. \A i \in 1..Count(f) : Chunk(f, i) \in Requests /\ req[Chunk(f, i)] = "done"
  BY <1>1, Kinds DEF FilesOK
<1> QED
  BY <1>1, <1>2 DEF StoredOK, ChunksOf

\* Whatever the node refuses or answers late, and wherever the upload is dropped: a manifest
\* node is never held without everything it refers to, for any window and collection.
THEOREM NothingDangles == Spec => []ManifestNeverDangles
<1>1. IInv => ManifestNeverDangles
  <2> SUFFICES ASSUME IInv PROVE ManifestNeverDangles
    OBVIOUS
  <2>1. ShapeOK /\ StoredOK /\ SaveOK /\ Len(lens) \in Nat /\ DOMAIN lens = 1..Len(lens)
        /\ FirstFork \in {0, 1}
    BY Kinds DEF IInv
  <2>2. ASSUME NEW f \in DOMAIN lens, Fork(f) \in stored PROVE ChunksOf(f) \subseteq stored
    <3>1. f \in 1..Len(lens) /\ f \in FirstFork..Len(lens)
      BY <2>1
    <3>2. Fork(f) \in Requests
      BY <2>1, <3>1, Kinds
    <3>3. file = Len(lens) + 1
      BY <2>1, <2>2, <3>1, <3>2 DEF StoredOK, SaveOK
    <3>4. f < file
      BY <2>1, <3>1, <3>3
    <3> QED
      BY <3>1, <3>4, HeldOnceDone
  <2>3. ASSUME RootNode \in stored PROVE AllForks \subseteq stored
    <3>1. \A f \in FirstFork..Len(lens) : Fork(f) \in Requests /\ req[Fork(f)] = "done"
      BY <2>1, <2>3, Kinds DEF StoredOK, SaveOK
    <3> QED
      BY <2>1, <3>1 DEF StoredOK, AllForks
  <2>4. phase = "ok" => RootNode \in stored
    BY <2>1, Kinds DEF StoredOK, SaveOK
  <2> QED
    BY <2>2, <2>3, <2>4 DEF ManifestNeverDangles
<1> QED
  BY <1>1, InductiveInvariant, PTL

\* What the node holds beyond the progress told is at most one window of chunks, however the
\* upload ends, and it begins with the first files, none of them left out.
THEOREM OrphansAreFew == Spec => []OrphansWithinWindow
<1>1. IInv => OrphansWithinWindow
  <2> SUFFICES ASSUME IInv PROVE OrphansWithinWindow
    OBVIOUS
  <2>1. /\ ShapeOK /\ StoredOK /\ FilesOK /\ WindowOK /\ Len(lens) \in Nat
        /\ DOMAIN lens = 1..Len(lens) /\ AllChunks \subseteq Requests
        /\ processed \in Nat /\ STREAM_CONCURRENCY \in Nat
    BY Kinds, UploadAssumption DEF IInv, ShapeOK
  <2>2. Cardinality(stored \cap AllChunks) <= processed + STREAM_CONCURRENCY
    <3>1. stored \cap AllChunks \subseteq Done \cup Busy
      <4>1. \A r \in AllChunks : r \in stored => req[r] # "idle" /\ req[r] \in States
        BY <2>1 DEF StoredOK, ShapeOK
      <4> QED
        BY <4>1 DEF Done, Busy
    <3>2. IsFiniteSet(Done) /\ IsFiniteSet(Busy)
          /\ Cardinality(Done) \in Nat /\ Cardinality(Busy) \in Nat
      BY <2>1, FS_CardinalityType DEF WindowOK
    <3>3. /\ IsFiniteSet(Done \cup Busy)
          /\ Cardinality(Done \cup Busy) = Cardinality(Done) + Cardinality(Busy)
      <4>1. Done \cap Busy = {}
        BY DEF Done, Busy
      <4>2. /\ IsFiniteSet(Done \cup Busy)
            /\ Cardinality(Done \cup Busy) =
                 Cardinality(Done) + Cardinality(Busy) - Cardinality(Done \cap Busy)
        BY <3>2, FS_Union
      <4> QED
        BY <3>2, <4>1, <4>2, FS_EmptySet
    <3>4. /\ Cardinality(stored \cap AllChunks) <= Cardinality(Done \cup Busy)
          /\ Cardinality(stored \cap AllChunks) \in Nat
      BY <3>1, <3>3, FS_Subset, FS_CardinalityType
    <3> QED
      BY <2>1, <3>2, <3>3, <3>4 DEF WindowOK
  <2>3. ASSUME NEW f \in DOMAIN lens, NEW g \in DOMAIN lens, f < g,
               ChunksOf(g) \cap stored # {}
        PROVE  ChunksOf(f) \subseteq stored
    <3>1. PICK i \in 1..Count(g) : Chunk(g, i) \in stored
      BY <2>3 DEF ChunksOf
    <3>2. Chunk(g, i) \in Requests
      BY <2>1, Kinds
    <3>3. ~(g > file)
      BY <2>1, <3>1, <3>2 DEF StoredOK, FilesOK
    <3>4. f < file
      BY <2>1, <2>3, <3>3 DEF ShapeOK
    <3> QED
      BY <2>1, <3>4, HeldOnceDone
  <2> QED
    BY <2>2, <2>3 DEF OrphansWithinWindow
<1> QED
  BY <1>1, InductiveInvariant, PTL

-----------------------------------------------------------------------------
(* The announced total.                                                    *)

\* The chunks of the first n files.
UpTo(n) == UNION {ChunksOf(f) : f \in 1..n}

\* The sum that total_chunks forms.
Summed(sum, n) ==
  sum = [f \in 0..n |-> IF f = 0 THEN 0 ELSE sum[f - 1] + Count(f)]

\* A file has as many chunks as its count says.
LEMMA ChunksCounted ==
  ASSUME ShapeOK, NEW f \in 1..Len(lens)
  PROVE  IsFiniteSet(ChunksOf(f)) /\ Cardinality(ChunksOf(f)) = Count(f) /\ Count(f) \in Nat
<1> DEFINE n == Count(f)
           b == [i \in 1..n |-> Chunk(f, i)]
<1>1. n \in Nat
  BY Kinds
<1>2. ChunksOf(f) = {Chunk(f, i) : i \in 1..n}
  BY DEF ChunksOf
<1>3. \A i, j \in 1..n : b[i] = b[j] => i = j
  BY Differ
<1>4. b \in Bijection(1..n, ChunksOf(f))
  <2>1. b \in [1..n -> ChunksOf(f)]
    BY <1>2
  <2>2. \A r \in ChunksOf(f) : \E i \in 1..n : b[i] = r
    BY <1>2
  <2> QED
    BY <1>3, <2>1, <2>2 DEF Bijection, Injection, Surjection, IsInjective
<1>5. ExistsBijection(1..n, ChunksOf(f))
  BY <1>4 DEF ExistsBijection
<1> HIDE DEF b, n
<1>6. IsFiniteSet(1..n)
  BY <1>1, FS_Interval
<1>7. IsFiniteSet(ChunksOf(f)) /\ Cardinality(ChunksOf(f)) = n
  BY <1>1, <1>5, <1>6, FS_Bijection, FS_CountingElements
<1> QED
  BY <1>1, <1>7 DEF n

\* One more file adds its chunks to those of the files before it.
LEMMA OneMore ==
  ASSUME ShapeOK, NEW n \in 1..Len(lens), IsFiniteSet(UpTo(n - 1))
  PROVE  /\ IsFiniteSet(UpTo(n))
         /\ Cardinality(UpTo(n)) = Cardinality(UpTo(n - 1)) + Count(n)
<1>1. n \in Nat /\ Len(lens) \in Nat
  BY Kinds
<1>2. UpTo(n) = UpTo(n - 1) \cup ChunksOf(n)
  <2>1. \A f : f \in 1..n <=> f \in 1..(n - 1) \/ f = n
    BY <1>1
  <2> QED
    BY <2>1 DEF UpTo
<1>3. UpTo(n - 1) \cap ChunksOf(n) = {}
  <2>1. \A f \in 1..(n - 1) : ChunksOf(f) \cap ChunksOf(n) = {}
    <3> SUFFICES ASSUME NEW f \in 1..(n - 1), NEW r \in ChunksOf(f), r \in ChunksOf(n)
                 PROVE  FALSE
      OBVIOUS
    <3>1. f = n
      BY Differ DEF ChunksOf
    <3> QED
      BY <1>1, <3>1
  <2> QED
    BY <2>1 DEF UpTo
<1>4. /\ IsFiniteSet(ChunksOf(n)) /\ Cardinality(ChunksOf(n)) = Count(n) /\ Count(n) \in Nat
      /\ Cardinality(UpTo(n - 1)) \in Nat
  BY ChunksCounted, FS_CardinalityType
<1>5. /\ IsFiniteSet(UpTo(n - 1) \cup ChunksOf(n))
      /\ Cardinality(UpTo(n - 1) \cup ChunksOf(n)) =
           Cardinality(UpTo(n - 1)) + Cardinality(ChunksOf(n))
             - Cardinality(UpTo(n - 1) \cap ChunksOf(n))
  BY <1>4, FS_Union
<1>6. Cardinality({}) = 0
  BY FS_EmptySet
<1>7. Cardinality(UpTo(n)) = Cardinality(UpTo(n - 1)) + Cardinality(ChunksOf(n)) - 0
  BY <1>2, <1>3, <1>5, <1>6
<1>8. IsFiniteSet(UpTo(n))
  BY <1>2, <1>5
<1> QED
  BY <1>4, <1>7, <1>8

\* The first files have finitely many chunks.
LEMMA UpToFinite == ShapeOK => \A n \in 0..Len(lens) : IsFiniteSet(UpTo(n))
<1> SUFFICES ASSUME ShapeOK PROVE \A n \in 0..Len(lens) : IsFiniteSet(UpTo(n))
  OBVIOUS
<1> DEFINE S == {n \in 0..Len(lens) : ~ IsFiniteSet(UpTo(n))}
<1> SUFFICES ASSUME S # {} PROVE FALSE
  OBVIOUS
<1>1. PICK n \in S : \A m \in S : n <= m
  <2>1. S \in SUBSET Nat
    BY Kinds
  <2> HIDE DEF S
  <2> QED
    BY <2>1, LeastExists
<1>2. n \in 0..Len(lens) /\ Len(lens) \in Nat /\ ~ IsFiniteSet(UpTo(n))
  BY <1>1, Kinds
<1>3. n # 0
  <2>1. UpTo(0) = {}
    BY DEF UpTo
  <2> QED
    BY <1>2, <2>1, FS_EmptySet
<1>4. n - 1 \in 0..Len(lens) /\ n - 1 \notin S /\ n \in 1..Len(lens)
  BY <1>1, <1>2, <1>3
<1> QED
  BY <1>2, <1>4, OneMore

\* The announced total is the number of chunks of all files.
LEMMA TotalIsAll ==
  ASSUME ShapeOK
  PROVE  IsFiniteSet(AllChunks) /\ Cardinality(AllChunks) = total_chunks
<1> DEFINE N == Len(lens)
           sum[f \in 0..N] == IF f = 0 THEN 0 ELSE sum[f - 1] + Count(f)
           size == [n \in 0..N |-> Cardinality(UpTo(n))]
<1>1. N \in Nat /\ AllChunks = UpTo(N) /\ \A n \in 0..N : IsFiniteSet(UpTo(n))
  BY Kinds, UpToFinite DEF AllChunks, UpTo
<1>2. Cardinality(UpTo(0)) = 0
  BY FS_EmptySet DEF UpTo
<1>3. \A n \in 1..N : n - 1 \in 0..N /\ Cardinality(UpTo(n)) = Cardinality(UpTo(n - 1)) + Count(n)
  <2> SUFFICES ASSUME NEW n \in 1..N
               PROVE  n - 1 \in 0..N /\ Cardinality(UpTo(n)) = Cardinality(UpTo(n - 1)) + Count(n)
    OBVIOUS
  <2>1. n - 1 \in 0..N
    BY <1>1
  <2> QED
    BY <1>1, <2>1, OneMore
<1>4. Summed(size, N)
  <2>1. \A n \in 0..N : size[n] = IF n = 0 THEN 0 ELSE size[n - 1] + Count(n)
    BY <1>1, <1>2, <1>3
  <2>2. size = [n \in 0..N |-> size[n]]
    OBVIOUS
  <2> HIDE DEF size
  <2> QED
    BY <2>1, <2>2 DEF Summed
<1>5. Summed(sum, N)
  BY <1>4 DEF Summed
<1>6. total_chunks = sum[N]
  BY DEF total_chunks
<1> HIDE DEF sum, size
<1>7. \A n \in 0..N : sum[n] = IF n = 0 THEN 0 ELSE sum[n - 1] + Count(n)
  BY <1>5 DEF Summed
<1> DEFINE S == {n \in 0..N : sum[n] # Cardinality(UpTo(n))}
<1>8. S = {}
  <2> SUFFICES ASSUME S # {} PROVE FALSE
    OBVIOUS
  <2>1. PICK n \in S : \A m \in S : n <= m
    <3>1. S \in SUBSET Nat
      BY <1>1
    <3> HIDE DEF S
    <3> QED
      BY <3>1, LeastExists
  <2>2. n \in 0..N /\ sum[n] # Cardinality(UpTo(n)) /\ n # 0
    BY <1>1, <1>2, <1>7, <2>1
  <2>3. n \in 1..N /\ n - 1 \in 0..N /\ n - 1 \notin S
    BY <1>1, <2>1, <2>2
  <2> QED
    BY <1>3, <1>7, <2>2, <2>3
<1>9. sum[N] = Cardinality(UpTo(N))
  BY <1>1, <1>8
<1> QED
  BY <1>1, <1>6, <1>9

\* The progress told never passes the announced total, and has reached it when the manifest is
\* saved: what the callback is given is the number of chunks acknowledged, each once.
THEOREM ProgressIsTrue == Spec => []ProgressIsExact
<1>1. IInv => ProgressIsExact
  <2> SUFFICES ASSUME IInv PROVE ProgressIsExact
    OBVIOUS
  <2>1. ShapeOK /\ FilesOK /\ SaveOK /\ WindowOK
    BY DEF IInv
  <2>2. /\ IsFiniteSet(AllChunks) /\ Cardinality(AllChunks) = total_chunks
        /\ processed = Cardinality(Done)
    BY <2>1, TotalIsAll DEF WindowOK
  <2>3. Cardinality(Done) <= Cardinality(AllChunks)
    <3>1. Done \subseteq AllChunks
      BY DEF Done
    <3> QED
      BY <2>2, <3>1, FS_Subset
  <2>4. ASSUME phase \in {"save", "ok"} PROVE Done = AllChunks
    <3>1. file = Len(lens) + 1 /\ Len(lens) \in Nat
      BY <2>1, <2>4, Kinds DEF SaveOK
    <3>2. \A f \in 1..Len(lens) : f < file
      BY <3>1
    <3>3. \A f \in 1..Len(lens) : \A i \in 1..Count(f) : req[Chunk(f, i)] = "done"
      BY <2>1, <3>2 DEF FilesOK
    <3> QED
      BY <2>1, <3>3, Kinds DEF Done
  <2> QED
    BY <2>2, <2>3, <2>4 DEF ProgressIsExact, Done
<1> QED
  BY <1>1, InductiveInvariant, PTL
=============================================================================
