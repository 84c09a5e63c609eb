------------------------------- MODULE Share -------------------------------
(***************************************************************************)
(* swarm-share: files under an access control trie, each with a grantee    *)
(* list at the node that a revocation replaces by a new one.  A list is    *)
(* named by its position in the sequence of all lists the node has made.   *)
(***************************************************************************)
EXTENDS StateFile

CONSTANTS
  File,     \* contents shared
  Grantee,  \* public keys
  To,       \* the sets of grantees a file is shared to
  Second    \* times a share may be made at: they are its identifiers

\* A row of the file.
Row == [id : Second, file : File, grantees : SUBSET Grantee, list : Nat]

\* A file that does not parse is no list of shares.
ASSUME ShareAssumption ==
  /\ To \subseteq SUBSET Grantee
  /\ Torn \notin Seq(Row)

NoShares == <<>>

\* cmd_share: upload the file, create the list, then load and save.
ShareFile(c, f, to) ==
  Begin(c, [at |-> "upload", cmd |-> "share", share |-> [file |-> f, grantees |-> to]])

ShareUpload(c) ==
  /\ job[c].at = "upload"
  /\ Upload(c, job[c].share.file, [job[c] EXCEPT !.at = "create"])

CreateGrantees(c) ==
  LET s == job[c].share
  IN  /\ job[c].at = "create"
      /\ Request(c, [node EXCEPT !.lists = Append(@, s.grantees)],
           [at |-> "load", cmd |-> "share",
            share |-> [file |-> s.file, grantees |-> s.grantees, list |-> Len(node.lists) + 1]])

\* The file is loaded only now; the identifier is the second of the clock.
ShareLoad(c, id) ==
  LET row == [id       |-> id,
              file     |-> job[c].share.file,
              grantees |-> job[c].share.grantees,
              list     |-> job[c].share.list]
  IN  /\ job[c].at = "load"
      /\ Goto(c, [at |-> "save", cmd |-> "share", row |-> row,
                  st |-> Append(LoadedOr(NoShares), row)])
      /\ UNCHANGED <<program, file, node, dir, commands, kept, trouble>>

\* The first share with the identifier is taken.
Position(rows, id) ==
  CHOOSE i \in DOMAIN rows : rows[i].id = id /\ \A k \in DOMAIN rows : rows[k].id = id => i <= k

HasId(rows, id) == \E i \in DOMAIN rows : rows[i].id = id

\* cmd_revoke: load, patch the list, replace reference and cached grantees, save.
Revoke(c, id, gone) ==
  /\ HasId(LoadedOr(NoShares), id)
  /\ Begin(c, [at |-> "patch", cmd |-> "revoke", id |-> id, gone |-> gone,
               st |-> LoadedOr(NoShares)])

Without(rows, i, gone, list) ==
  [rows EXCEPT ![i].grantees = @ \ gone, ![i].list = list]

\* Mutant: the reference of the list that was patched stays.
PatchKeepingRef(c) ==
  LET j == job[c]
      i == Position(j.st, j.id)
  IN  /\ j.at = "patch"
      /\ Request(c, [node EXCEPT !.lists = Append(@, @[j.st[i].list] \ j.gone)],
           [at |-> "save", cmd |-> "revoke", id |-> j.id, gone |-> j.gone,
            list |-> j.st[i].list, st |-> Without(j.st, i, j.gone, j.st[i].list)])

PatchGrantees(c) ==
  LET j    == job[c]
      i    == Position(j.st, j.id)
      list == Len(node.lists) + 1
  IN  /\ j.at = "patch"
      /\ Request(c, [node EXCEPT !.lists = Append(@, @[j.st[i].list] \ j.gone)],
           [at |-> "save", cmd |-> "revoke", id |-> j.id, gone |-> j.gone,
            list |-> list, st |-> Without(j.st, i, j.gone, list)])

Shared(j, rows) ==
  IF j.cmd = "share" THEN Append(rows, j.row)
  ELSE Without(rows, Position(rows, j.id), j.gone, j.list)

ShareStep(c) ==
  /\ program = "share"
  /\ \/ \E f \in File, to \in To : ShareFile(c, f, to)
     \/ ShareUpload(c) \/ CreateGrantees(c) \/ PatchGrantees(c)
     \/ \E id \in Second : \/ ShareLoad(c, id)
                           \/ \E g \in Grantee : Revoke(c, id, {g})
     \/ Truncate(c)
     \/ Write(c, Shared(job[c], IF kept = Absent THEN NoShares ELSE kept))
     \/ Stop(c)

\* The grantees the program lists for a share are those of the list it would patch
\* next, whatever overlaps, fails, or is answered in vain: a key that is shown as
\* revoked is not in the list the program stands for.
CachedIsLive ==
  program = "share" /\ Loads =>
    \A i \in DOMAIN file : node.lists[file[i].list] = file[i].grantees
=============================================================================
