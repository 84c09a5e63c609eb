------------------------------ MODULE Manifest ------------------------------
(***************************************************************************)
(* The Mantaray trie (manifest/node.rs) and the addresses of its nodes     *)
(* (manifest/wire.rs, file/stream.rs).  A node is a record, its forks a    *)
(* function from the first byte of their prefix; the operations are the    *)
(* recursive functions of the code.  A path is a sequence of bytes, a      *)
(* target or metadata a value or None (the null address is None: no node   *)
(* is given it as a target).  The chunk address of a node is what is       *)
(* marshaled: two nodes have one address iff they marshal alike.           *)
(***************************************************************************)
EXTENDS Naturals, Sequences, SequencesExt

CONSTANTS
  Path,               \* the paths a program adds and removes
  Ref, Meta, None,    \* targets, metadata, and their absence
  Value,              \* the pairs <<target, metadata>> it adds
  MAX_PREFIX_LENGTH,  \* longest prefix of a fork (30)
  PATH_SEPARATOR,     \* the byte "/"
  MaxOps              \* bound: operations of a run

ASSUME ManifestAssumption ==
  /\ MAX_PREFIX_LENGTH \in Nat \ {0} /\ MaxOps \in Nat
  /\ \A p \in Path : p \in Seq(Nat) \ {<<>>}
  /\ Value \subseteq (Ref \cup {None}) \X (Meta \cup {None})

VARIABLES
  root,    \* the trie
  lagging, \* a fork was removed since the addresses were last computed anew
  ops      \* operations so far

vars == <<root, lagging, ops>>

NewNode == [self |-> None, target |-> None, meta |-> None,
            path |-> <<>>, forks |-> [k \in {} |-> None]]

Drop(s, n) == SubSeq(s, n + 1, Len(s))

CommonLen(s, t) ==
  LET len == IF Len(s) < Len(t) THEN Len(s) ELSE Len(t)
  IN  CHOOSE n \in 0..len : /\ n = len \/ s[n + 1] # t[n + 1]
                            /\ \A i \in 1..n : s[i] = t[i]

SetFork(n, f) ==
  [n EXCEPT !.forks = [k \in DOMAIN @ \cup {f.prefix[1]} |->
                         IF k = f.prefix[1] THEN f ELSE @[k]]]

Forked(p, n) == [prefix |-> p, node |-> [n EXCEPT !.path = p]]

-----------------------------------------------------------------------------
(* Lookups.                                                                *)

\* Mutant: a fork is entered when it shares a byte with the path.
EntersOnFirstByte(f, path) == CommonLen(f.prefix, path) > 0

Enters(f, path) == CommonLen(f.prefix, path) = Len(f.prefix)

\* find_closest: the deepest node reached and what is left of the path.
RECURSIVE FindClosest(_, _)
FindClosest(n, path) ==
  IF path # <<>> /\ path[1] \in DOMAIN n.forks /\ Enters(n.forks[path[1]], path)
  THEN LET f == n.forks[path[1]] IN FindClosest(f.node, Drop(path, Len(f.prefix)))
  ELSE [node |-> n, rest |-> path]

Found(n, path) == FindClosest(n, path).rest = <<>>
Find(n, path) == FindClosest(n, path).node

\* Every node below n with its full path.
RECURSIVE Descendants(_, _)
Descendants(n, prefix) ==
  UNION {LET f == n.forks[k]
             full == prefix \o f.prefix
         IN  {[path |-> full, node |-> f.node]} \cup Descendants(f.node, full)
         : k \in DOMAIN n.forks}

Collect(n) == {d \in Descendants(n, <<>>) : d.node.target # None}

-----------------------------------------------------------------------------
(* add_fork.                                                               *)

Assign(n, t, m) == [n EXCEPT !.target = IF t = None THEN @ ELSE t,
                             !.meta   = IF m = None THEN @ ELSE m]

\* Mutant: an address survives a change below it.
Untouched(n) == n

Touched(n) == [n EXCEPT !.self = None]

\* A fork moved down by n bytes.
Lowered(f, n) == Forked(Drop(f.prefix, n), f.node)

\* Mutant: where the path added ends on the way to an older one, the node that is
\* made for it is a bare branch.
SplitForksBare(a, b) ==
  LET n == CommonLen(a.prefix, b.prefix)
      branch == Forked(SubSeq(a.prefix, 1, n), NewNode)
  IN  IF n = Len(a.prefix) THEN [branch EXCEPT !.node = SetFork(@, Lowered(b, n))]
      ELSE IF n = Len(b.prefix) THEN [b EXCEPT !.node = SetFork(@, Lowered(a, n))]
      ELSE [branch EXCEPT !.node = SetFork(SetFork(@, Lowered(a, n)), Lowered(b, n))]

SplitForks(a, b) ==
  LET n == CommonLen(a.prefix, b.prefix)
      branch == Forked(SubSeq(a.prefix, 1, n), NewNode)
  IN  IF n = Len(a.prefix) THEN [a EXCEPT !.node = SetFork(@, Lowered(b, n))]
      ELSE IF n = Len(b.prefix) THEN [b EXCEPT !.node = SetFork(@, Lowered(a, n))]
      ELSE [branch EXCEPT !.node = SetFork(SetFork(@, Lowered(a, n)), Lowered(b, n))]

\* A long path is cut into chunks, one node each; the last one gets the values.
RECURSIVE AddForkInner(_, _, _, _)
AddForkInner(n, path, t, m) ==
  IF path = <<>> THEN Assign(n, t, m)
  ELSE
  LET chunk  == SubSeq(path, 1, IF Len(path) < MAX_PREFIX_LENGTH
                                THEN Len(path) ELSE MAX_PREFIX_LENGTH)
      after  == Drop(path, Len(chunk))
      leaf   == IF after = <<>> THEN Assign(NewNode, t, m) ELSE NewNode
      fork   == n.forks[chunk[1]]
      common == CommonLen(fork.prefix, chunk)
      merged == SplitForks(Forked(chunk, leaf), fork)
      Below(f, rest) == [f EXCEPT !.node = AddForkInner(@, rest, t, m)]
  IN  SetFork(n,
        IF chunk[1] \notin DOMAIN n.forks
        THEN Below(Forked(chunk, NewNode), after)
        ELSE IF common = Len(fork.prefix)
        THEN Below([fork EXCEPT !.node = Touched(@)], Drop(path, common))
        ELSE IF after = <<>> THEN merged
        ELSE IF merged.prefix = chunk THEN Below(merged, after)
        ELSE [merged EXCEPT !.node.forks[chunk[common + 1]] = Below(@, after)])

AddFork(r, path, t, m) == AddForkInner(Touched(r), path, t, m)

-----------------------------------------------------------------------------
(* remove_fork.                                                            *)

\* The fork at path is cut off; its parent, and no node above it, forgets its
\* address.
RECURSIVE Cut(_, _)
Cut(n, path) ==
  LET f == n.forks[path[1]]
  IN  IF Len(f.prefix) = Len(path)
      THEN [Touched(n) EXCEPT !.forks = [k \in DOMAIN @ \ {path[1]} |-> @[k]]]
      ELSE [n EXCEPT !.forks[path[1]].node = Cut(@, Drop(path, Len(f.prefix)))]

\* Does the node carry anything that has to be put back?
IsEntry(n) == n.target # None \/ n.meta # None

\* The forks of what was removed are added again, node by node, from the root.
RECURSIVE ReinsertForks(_, _, _)
ReinsertForks(r, prefix, forks) ==
  LET Reinsert(r0, k) ==
        LET n     == forks[k].node
            full  == prefix \o forks[k].prefix
            added == IF IsEntry(n) THEN AddFork(r0, full, n.target, n.meta) ELSE r0
        IN  ReinsertForks(added, full, n.forks)
  IN  FoldLeft(Reinsert, r, SetToSortSeq(DOMAIN forks, <))

RemoveFork(r, path) ==
  ReinsertForks(Cut(Touched(r), path), path, Find(r, path).forks)

-----------------------------------------------------------------------------
(* The addresses.                                                          *)

IsRootDir(n) == n.path = <<PATH_SEPARATOR>>

DetermineType(n) ==
  (IF n.target # None \/ IsRootDir(n) THEN {"value"} ELSE {})
    \cup (IF DOMAIN n.forks # {} THEN {"edge"} ELSE {})
    \cup (IF PATH_SEPARATOR \in Range(n.path) /\ ~IsRootDir(n)
          THEN {"with_path_separator"} ELSE {})
    \cup (IF n.meta # None THEN {"with_metadata"} ELSE {})

\* Mutant: no "/" node has room for a target.
MarshalRootDirBare(n) ==
  [target |-> IF IsRootDir(n) THEN <<>> ELSE <<n.target>>,
   forks  |-> [k \in DOMAIN n.forks |->
     [type |-> DetermineType(n.forks[k].node), prefix |-> n.forks[k].prefix,
      self |-> n.forks[k].node.self, meta |-> n.forks[k].node.meta]]]

\* The header of a "/" node without a target has no room for one.
Marshal(n) ==
  [target |-> IF n.target = None /\ IsRootDir(n) THEN <<>> ELSE <<n.target>>,
   forks  |-> [k \in DOMAIN n.forks |->
     [type |-> DetermineType(n.forks[k].node), prefix |-> n.forks[k].prefix,
      self |-> n.forks[k].node.self, meta |-> n.forks[k].node.meta]]]

Addressed(n) == [n EXCEPT !.self = Marshal(n)]

\* Mutant: known addresses are computed anew, also an unloaded child's.
RECURSIVE PopulatedAnew(_)
PopulatedAnew(n) ==
  Addressed([n EXCEPT !.forks =
    [k \in DOMAIN @ |-> [@[k] EXCEPT !.node = PopulatedAnew(@)]]])

\* populate_self_addresses: a node whose address is known keeps it.
RECURSIVE Populated(_)
Populated(n) ==
  IF n.self # None THEN n
  ELSE Addressed([n EXCEPT !.forks =
         [k \in DOMAIN @ |-> [@[k] EXCEPT !.node = Populated(@)]]])

\* save_manifest_recursively: every node is marshaled and uploaded anew.
RECURSIVE Saved(_)
Saved(n) ==
  Addressed([n EXCEPT !.forks =
    [k \in DOMAIN @ |-> [@[k] EXCEPT !.node = Saved(@)]]])

-----------------------------------------------------------------------------
Init == root = NewNode /\ lagging = FALSE /\ ops = 0

Count == ops < MaxOps /\ ops' = ops + 1

Insert(p, v) ==
  /\ Count
  /\ root' = AddFork(root, p, v[1], v[2])
  /\ UNCHANGED lagging

\* Refused when there is nothing at the path.
Delete(p) ==
  /\ Count
  /\ Found(root, p)
  /\ root' = RemoveFork(root, p)
  /\ lagging' = TRUE

Populate ==
  /\ Count
  /\ root' = Populated(root)
  /\ UNCHANGED lagging

Save ==
  /\ Count
  /\ root' = Saved(root)
  /\ lagging' = FALSE

Next ==
  \/ \E p \in Path, v \in Value : Insert(p, v)
  \/ \E p \in Path : Delete(p)
  \/ Populate
  \/ Save

Spec == Init /\ [][Next]_vars

-----------------------------------------------------------------------------
(* Correctness.                                                            *)

All == Descendants(root, <<>>) \cup {[path |-> <<>>, node |-> root]}

\* A fork is stored under the first byte of its prefix, no prefix is empty or too
\* long to be marshaled, and the edge label a node remembers is that prefix.
KeepsItsForks(n) ==
  \A k \in DOMAIN n.forks :
    LET f == n.forks[k]
    IN  /\ Len(f.prefix) \in 1..MAX_PREFIX_LENGTH
        /\ f.prefix[1] = k /\ f.node.path = f.prefix

Recorded == {d \in Descendants(root, <<>>) : IsEntry(d.node)}

Entries == [p \in {d.path : d \in Recorded} |->
  LET n == (CHOOSE d \in Recorded : d.path = p).node
  IN  [target |-> n.target, meta |-> n.meta]]

\* Whatever was split and put back, each node keeps the patricia shape, and so find
\* and collect see the same trie: a path is found with the target and the metadata
\* recorded for it, and a path without a record is not resolved.
LookupsAgree ==
  /\ \A d \in All : KeepsItsForks(d.node)
  /\ LET entries == Entries
         targets == {d.path : d \in Collect(root)}
     IN  \A p \in Path :
           LET node  == Find(root, p)
               found == Found(root, p) /\ IsEntry(node)
           IN  /\ found <=> p \in DOMAIN entries
               /\ found => /\ [target |-> node.target, meta |-> node.meta] = entries[p]
                           /\ node.target # None <=> p \in targets

\* The trie implements the map of EntryMap, and each operation its own step of it: an
\* add stores its value at its path, a removal takes out its path alone, whatever was
\* split, chained or put back; computing and saving addresses change no entry.
Map == INSTANCE EntryMap WITH entries <- Entries

ActsAsAMap ==
  /\ Map!Spec
  /\ [][/\ \A p \in Path, v \in Value : Insert(p, v) => Map!Add(p, v[1], v[2])
        /\ \A p \in Path : Delete(p) => Map!Remove(p)
        /\ Populate \/ Save => UNCHANGED Entries]_vars

\* Violated by the code.  populate_self_addresses: "Recursively populate
\* `self_address` on this node and every child"; calculate_self_address: "Return
\* this node's chunk address".
AddressIsTrue == root.self # None => root.self = Saved(root).self
=============================================================================
