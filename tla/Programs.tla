------------------------------ MODULE Programs ------------------------------
(***************************************************************************)
(* The programs of examples/ that keep a state file, over one node.        *)
(***************************************************************************)
EXTENDS Vault, Deploy, Share, Relay, Keyring, Pinner

all == <<vars, errors>>

Init ==
  /\ program \in Program
  /\ file = Absent /\ kept = Absent
  /\ node = [stored |-> {}, feed |-> <<>>, lists |-> <<>>]
  /\ dir = [p \in Path |-> NoFile]
  /\ job = [c \in Proc |-> Idle]
  /\ commands = 0 /\ errors = 0
  /\ trouble = {}

Next ==
  \E c \in Proc :
    \/ /\ \/ VaultStep(c) \/ TreeStep(c) \/ DeployStep(c)
          \/ ShareStep(c) \/ RelayStep(c) \/ KeyringStep(c)
       /\ UNCHANGED errors
    \/ PinnerStep(c)

\* The loop of a pinner that runs goes on.
Fairness == \A c \in Proc : WF_all(program = "pinner" /\ Pass(c))

Spec == Init /\ [][Next]_all /\ Fairness

-----------------------------------------------------------------------------
(* Correctness.                                                            *)

Held(content) == content \in node.stored

Listed(rows) == {rows[n] : n \in DOMAIN rows}

\* What is published, listed or entered is held by the node, however commands overlap
\* and wherever they stop: the site or index a feed shows, every file an index names,
\* shared, relayed and pinned files.
PublishedIsHeld ==
  /\ \A k \in DOMAIN node.feed :
       /\ Held(node.feed[k])
       /\ program = "vault" => \A d \in Listed(node.feed[k]) : Held(d)
  /\ Loads =>
       CASE program = "vault"  -> \A d \in Listed(file) : Held(d)
         [] program = "deploy" -> \A s \in ToSet(file) : Held(s)
         [] program = "share"  -> \A s \in ToSet(file) : Held(s.file)
         [] program = "relay"  -> \A f \in ToSet(file.uploaded) : Held(f)
         [] program = "pinner" -> \A e \in Listed(file) : Held(e.of)
         [] OTHER -> TRUE

\* As long as commands run in turn, those that returned Ok are what the file holds,
\* and one that failed has left it alone; and the feed shows just that, unless it is
\* ahead because its last update was never saved.
OkCommandsStay ==
  program # "pinner" =>
    /\ OkCommandsKept
    /\ program = "vault" /\ InTurn /\ "ahead" \notin trouble /\ Loads /\ node.feed # <<>> =>
         Last(node.feed) = file

\* What a state file repeats of what is elsewhere is true, however commands overlap
\* and wherever they stop: the grantees of a share, the counters of a batch, the
\* address beside an encrypted key.
CachesAreTrue == CachedIsLive /\ CountersMatchFiles /\ OneKeyForAName
=============================================================================
