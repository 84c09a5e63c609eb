------------------------------ MODULE EntryMap ------------------------------
(***************************************************************************)
(* What a manifest promises: it maps paths to a target and metadata.  A    *)
(* target or metadata not given leaves what the path had; removing a path  *)
(* removes that entry and no other.                                        *)
(***************************************************************************)
CONSTANTS Path, Value, None

VARIABLE entries

Empty == [target |-> None, meta |-> None]

At(p) == IF p \in DOMAIN entries THEN entries[p] ELSE Empty

Merged(e, t, m) == [target |-> IF t = None THEN e.target ELSE t,
                    meta   |-> IF m = None THEN e.meta ELSE m]

\* The map holds no empty entry.
Init == entries = [p \in {} |-> Empty]

Add(p, t, m) ==
  /\ <<t, m>> # <<None, None>>
  /\ entries' = [q \in DOMAIN entries \cup {p} |->
                   IF q = p THEN Merged(At(p), t, m) ELSE entries[q]]

Remove(p) == entries' = [q \in DOMAIN entries \ {p} |-> entries[q]]

Next == \E p \in Path :
  \/ \E v \in Value : Add(p, v[1], v[2])
  \/ Remove(p)

Spec == Init /\ [][Next]_entries
=============================================================================
