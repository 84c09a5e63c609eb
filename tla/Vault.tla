------------------------------- MODULE Vault -------------------------------
(***************************************************************************)
(* swarm-vault: an index of encrypted files, uploaded anew with every      *)
(* change and published through a feed; the state file caches it.          *)
(***************************************************************************)
EXTENDS StateFile

CONSTANTS
  Name,  \* names of entries, paths of a staging tree
  Data   \* contents of local files

\* Entries under their names; a tree of staged files.
Index == UNION {[names -> Data] : names \in SUBSET Name}

\* That there is no file is not an index.
ASSUME VaultAssumption == Absent \notin Index

EmptyIndex == [n \in {} |-> n]

Unset(f, k) == [x \in DOMAIN f \ {k} |-> f[x]]

\* What a command makes of an index.
Edited(j, index) ==
  CASE j.cmd = "init" -> EmptyIndex
    [] j.cmd = "put"  -> Set(index, j.name, j.data)
    [] j.cmd = "rm"   -> Unset(index, j.name)

\* cmd_init: the feed manifest is created, then the file; it must not be there at
\* the start.
VaultInit(c) ==
  /\ file = Absent
  /\ Begin(c, [at |-> "manifest", cmd |-> "init", st |-> EmptyIndex])

VaultManifest(c) ==
  /\ job[c].at = "manifest"
  /\ Request(c, node, [job[c] EXCEPT !.at = "save"])

VaultPut(c, name, data) ==
  /\ Loads
  /\ Begin(c, [at |-> "data", cmd |-> "put", name |-> name, data |-> data, st |-> file])

VaultData(c) ==
  /\ job[c].at = "data"
  /\ Upload(c, job[c].data, [job[c] EXCEPT !.at = "index", !.st = Edited(job[c], @)])

\* Mutant: the entry is looked up, and stays.
VaultRmUnedited(c, name) ==
  /\ Loads /\ name \in DOMAIN file
  /\ Begin(c, [at |-> "index", cmd |-> "rm", name |-> name, st |-> file])

VaultRm(c, name) ==
  /\ Loads /\ name \in DOMAIN file
  /\ LET j == [at |-> "index", cmd |-> "rm", name |-> name, st |-> file]
     IN  Begin(c, [j EXCEPT !.st = Edited(j, @)])

\* Mutant: the feed is updated before what it points to is uploaded.
PublishUnuploaded(c) ==
  \/ /\ job[c].at = "index"
     /\ UpdateFeed(c, job[c].st, [job[c] EXCEPT !.at = "feed"])
  \/ /\ job[c].at = "feed"
     /\ Upload(c, job[c].st, [job[c] EXCEPT !.at = "save"])

\* publish_index: upload the index, point the feed at it, save.
PublishIndex(c) ==
  \/ /\ job[c].at = "index"
     /\ Upload(c, job[c].st, [job[c] EXCEPT !.at = "feed"])
  \/ /\ job[c].at = "feed"
     /\ UpdateFeed(c, job[c].st, [job[c] EXCEPT !.at = "save"])

VaultStep(c) ==
  /\ program = "vault"
  /\ \/ VaultInit(c) \/ VaultManifest(c) \/ VaultData(c) \/ PublishIndex(c)
     \/ \E n \in Name : VaultRm(c, n) \/ \E d \in Data : VaultPut(c, n, d)
     \/ Truncate(c) \/ Write(c, Edited(job[c], kept)) \/ Stop(c)

-----------------------------------------------------------------------------
(* swarm-fs stages a tree of paths and local files in the file alone.       *)

Tree(j, entries) ==
  CASE j.cmd = "init" -> EmptyIndex
    [] j.cmd = "add"  -> Set(entries, j.name, j.data)
    [] j.cmd = "rm"   -> Unset(entries, j.name)
    [] j.cmd = "mv"   -> Set(Unset(entries, j.name), j.to, entries[j.name])

\* Each command edits what it loaded and saves at once.
Staged(c, j) == Begin(c, [j EXCEPT !.st = Tree(j, @)])

TreeInit(c) ==
  /\ file = Absent
  /\ Staged(c, [at |-> "save", cmd |-> "init", st |-> EmptyIndex])

TreeAdd(c, path, data) ==
  /\ Loads
  /\ Staged(c, [at |-> "save", cmd |-> "add", name |-> path, data |-> data, st |-> file])

\* A path that is taken is overwritten.
TreeMv(c, old, new) ==
  /\ Loads /\ old \in DOMAIN file
  /\ Staged(c, [at |-> "save", cmd |-> "mv", name |-> old, to |-> new, st |-> file])

TreeRm(c, path) ==
  /\ Loads /\ path \in DOMAIN file
  /\ Staged(c, [at |-> "save", cmd |-> "rm", name |-> path, st |-> file])

\* publish uploads the staged files as a collection; the file stays as it is.
TreePublish(c) ==
  \/ /\ Loads /\ file # EmptyIndex
     /\ Begin(c, [at |-> "collection", cmd |-> "publish", st |-> file])
  \/ /\ job[c].at = "collection"
     /\ Upload(c, job[c].st, Idle)

TreeStep(c) ==
  /\ program = "fs"
  /\ \/ TreeInit(c) \/ TreePublish(c)
     \/ \E n \in Name : \/ TreeRm(c, n)
                        \/ \E d \in Data : TreeAdd(c, n, d)
                        \/ \E m \in Name : TreeMv(c, n, m)
     \/ Truncate(c) \/ Write(c, Tree(job[c], kept)) \/ Stop(c)
=============================================================================
