------------------------------ MODULE Keyring ------------------------------
(***************************************************************************)
(* swarm-keyring keeps encrypted keys, swarm-feed-rss feeds to follow, in  *)
(* the clear: an entry is added once under a name and never changed.  A    *)
(* ciphertext opens with the passphrase it was made with.                  *)
(***************************************************************************)
EXTENDS StateFile

CONSTANTS
  KeyName,  \* names of keys, of feeds
  Key,      \* private keys; owners and topics of feeds
  Passphrase,
  Clear     \* not encrypted

\* An entry of the file.
Entry == [name : KeyName, address : Key, cipher : [of : Key, pass : Passphrase \cup {Clear}]]

\* A file that does not parse is no list of entries.
ASSUME KeyringAssumption == Torn \notin Seq(Entry)

NoKeys == <<>>

Has(rows, name) == \E i \in DOMAIN rows : rows[i].name = name

\* insert: load (or start anew), refuse a name that is there, push, save.
Insert(c, name, key, pass) ==
  LET row == [name |-> name, address |-> key, cipher |-> [of |-> key, pass |-> pass]]
      st  == LoadedOr(NoKeys)
  IN  /\ ~Has(st, name)
      /\ Begin(c, [at |-> "save", cmd |-> "insert", row |-> row, st |-> Append(st, row)])

\* cmd_add of swarm-feed-rss does the same.
AddFeed(c, name, feed) == Insert(c, name, feed, Clear)

\* decrypt: the first entry of the name, if the passphrase is the right one.
Export(rows, name, pass) ==
  LET i == CHOOSE i \in DOMAIN rows :
             rows[i].name = name /\ \A k \in DOMAIN rows : rows[k].name = name => i <= k
  IN  IF Has(rows, name) /\ rows[i].cipher.pass = pass THEN {rows[i].cipher.of} ELSE {}

\* cmd_address answers without a passphrase.
Address(rows, name) == {rows[i].address : i \in {k \in DOMAIN rows : rows[k].name = name}}

KeyringStep(c) ==
  /\ program \in {"keyring", "rss"}
  /\ \/ \E n \in KeyName, k \in Key, p \in Passphrase : program = "keyring" /\ Insert(c, n, k, p)
     \/ \E n \in KeyName, k \in Key : program = "rss" /\ AddFeed(c, n, k)
     \/ Truncate(c)
     \/ Write(c, Append(IF kept = Absent THEN NoKeys ELSE kept, job[c].row))
     \/ Stop(c)

\* A name stands for one key: what a passphrase exports is the key whose address is
\* listed, under overlapping inserts of one name too.
OneKeyForAName ==
  program \in {"keyring", "rss"} /\ Loads =>
    \A n \in KeyName :
      /\ Cardinality(Address(file, n)) <= 1
      /\ \A p \in Passphrase \cup {Clear} : Export(file, n, p) \subseteq Address(file, n)
=============================================================================
