---------------------------- MODULE ManifestWire ----------------------------
(***************************************************************************)
(* A trie read back from its address (manifest/wire.rs) and resolved       *)
(* offline (manifest/locator.rs).  unmarshal gives a node whose children   *)
(* are unloaded: an address, a prefix and metadata, neither target nor     *)
(* forks.  A second program fetches the last saved trie that way and adds  *)
(* to its copy while the first goes on.  An address is what is marshaled   *)
(* (Manifest), so to download a node is to unmarshal its address.          *)
(***************************************************************************)
EXTENDS Manifest

VARIABLES
  published, \* the address of the trie last saved, or None
  copy       \* None, or a read-back trie: [node, base, edits]

wireVars == <<root, lagging, ops, published, copy>>

-----------------------------------------------------------------------------
(* unmarshal.                                                              *)

\* The child of a fork: of its type only the metadata bit is looked at.
UnmarshalFork(f) ==
  [prefix |-> f.prefix,
   node |-> [NewNode EXCEPT !.self = f.self, !.path = f.prefix,
               !.meta = IF "with_metadata" \in f.type THEN f.meta ELSE None]]

\* A target of length 0 is no target; the node does not know its own path.
Unmarshal(addr) ==
  [NewNode EXCEPT !.self = addr,
     !.target = IF addr.target = <<>> THEN None ELSE addr.target[1],
     !.forks = [k \in DOMAIN addr.forks |-> UnmarshalFork(addr.forks[k])]]

\* Every target below an address, each child downloaded in its turn.
RECURSIVE WalkFrom(_, _)
WalkFrom(addr, path) ==
  LET n == Unmarshal(addr)
  IN  {[path |-> path, target |-> t] : t \in {n.target} \ {None}}
        \cup UNION {WalkFrom(f.node.self, path \o f.prefix)
                    : f \in {n.forks[k] : k \in DOMAIN n.forks}}

Walk(addr) == WalkFrom(addr, <<>>)

CollectAndMap(n) ==
  [p \in {d.path : d \in Collect(n)} |->
     (CHOOSE d \in Collect(n) : d.path = p).node.target]

(* resolve_path: leading separators are dropped, then the whole path must  *)
(* be matched and the node must have a target.                             *)
RECURSIVE Trimmed(_)
Trimmed(path) ==
  IF path # <<>> /\ path[1] = PATH_SEPARATOR THEN Trimmed(Tail(path)) ELSE path

ResolvePath(n, path) ==
  IF Found(n, Trimmed(path)) THEN Find(n, Trimmed(path)).target ELSE None

-----------------------------------------------------------------------------
WireInit == Init /\ published = None /\ copy = None

\* The first program builds; a save uploads every node and returns the root's
\* address.
Build ==
  /\ \/ \E p \in Path, v \in Value : Insert(p, v)
     \/ \E p \in Path : Delete(p)
     \/ Populate
  /\ UNCHANGED <<published, copy>>

Publish ==
  /\ Save
  /\ published' = root'.self
  /\ UNCHANGED copy

\* Download and unmarshal the root of what was last saved.
Fetch ==
  /\ Count
  /\ published # None
  /\ copy' = [node |-> Unmarshal(published), base |-> published, edits |-> {}]
  /\ UNCHANGED <<root, lagging, published>>

\* add_fork on the copy.
EditCopy(p, v) ==
  /\ Count
  /\ copy # None
  /\ copy' = [copy EXCEPT !.node = AddFork(@, p, v[1], v[2]), !.edits = @ \cup {p}]
  /\ UNCHANGED <<root, lagging, published>>

WireNext ==
  \/ Build
  \/ Publish
  \/ Fetch
  \/ \E p \in Path, v \in Value : EditCopy(p, v)

WireSpec == WireInit /\ [][WireNext]_wireVars

-----------------------------------------------------------------------------
(* Correctness.                                                            *)

\* What is recorded at and below an address, the metadata coming from the fork.
RECURSIVE Held(_, _, _)
Held(addr, path, meta) ==
  LET n == Unmarshal(addr)
  IN  {[path |-> path, target |-> n.target, meta |-> meta]}
        \cup UNION {Held(f.node.self, path \o f.prefix, f.node.meta)
                    : f \in {n.forks[k] : k \in DOMAIN n.forks}}

\* The same of a trie in memory.
InMemory(n) ==
  {[path |-> d.path, target |-> d.node.target, meta |-> d.node.meta]
   : d \in Descendants(n, <<>>) \cup {[path |-> <<>>, node |-> n]}}

Entry(e) == e.target # None \/ e.meta # None

\* Whatever trie is saved, it reads back: following the addresses finds the paths,
\* targets and metadata of the trie in memory, no more and no fewer, and of them the
\* walk gives what collect_and_map lists (a bare "/" node has no room for a target).
ReadBackExact ==
  LET addr == Saved(root).self
  IN  /\ Held(addr, <<>>, None) = InMemory(root)
      /\ LET map == CollectAndMap(root)
         IN  Walk(addr) = {[path |-> p, target |-> map[p]] : p \in DOMAIN map}

\* Adding a fork invalidates every address it makes untrue: until a fork is
\* removed, what an address still known leads to is what its node holds, also where
\* a split relabelled a node to the bare "/" that is marshaled otherwise.
KnownAddressesTrue ==
  ~lagging => \A d \in All : d.node.self # None =>
    Held(d.node.self, <<>>, None) = InMemory([d.node EXCEPT !.meta = None])

Under(paths, e) == \E p \in paths : p[1] = e.path[1]

\* A trie read back and edited is never wrong about what it does not hold: with its
\* addresses computed it still leads to every target whose first byte no edit
\* shares (the edited forks' unloaded children are lost, nothing else), and a path
\* resolved in it has a target the base has there or an edit gave it.
CopyKeepsTheRest ==
  copy # None =>
    LET was == Walk(copy.base)
        now == Walk(Populated(copy.node).self)
    IN  /\ {e \in was : ~Under(copy.edits, e)} = {e \in now : ~Under(copy.edits, e)}
        /\ \A p \in Path :
             LET t == ResolvePath(copy.node, p)
             IN  t # None => \/ [path |-> Trimmed(p), target |-> t] \in was
                             \/ Trimmed(p) \in copy.edits
=============================================================================
