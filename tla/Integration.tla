---------------------------- MODULE Integration -----------------------------
(***************************************************************************)
(* examples/integration-check.rs: a list of checks against a live node,    *)
(* each of which passes, fails or is skipped for want of what an earlier   *)
(* one should have given, and the exit code that sums them up.  A check    *)
(* that fails may have had its effect on the node all the same.            *)
(***************************************************************************)
EXTENDS Naturals, Sequences

CONSTANTS
  BATCH_TRIES,  \* polls for the mutable batch within its budget
  Gates         \* the ways the program is started: with a mutable batch, a signer

VARIABLES
  gates,   \* how it was started
  at,      \* the check it has come to
  left,    \* attempts left of a check that is tried again
  has,     \* what earlier checks have given
  tally,   \* checks passed, failed and skipped
  over,    \* "running", or how it ended: "success", "failure" or "panic"
  pinned,  \* the node pins the uploaded data for this program
  tagged   \* the node has the tag this program created

checkVars == <<gates, at, left, has, tally, over, pinned, tagged>>

-----------------------------------------------------------------------------
(* The checks in their order: what each needs, gives, does to the node, and *)
(* how often it is tried.                                                   *)

Check(needs, gives, does, tries) ==
  [needs |-> needs, gives |-> gives, does |-> does, tries |-> tries]

Plain(n)        == [i \in 1..n |-> Check("", "", "", 1)]
Needing(n, ref) == [i \in 1..n |-> Check(ref, "", "", 1)]

NodeChecks     == Plain(9)
OperatorChecks == Plain(20)
ObtainBatch    == <<Check("", "", "batch", 1)>>
PostageChecks  == Plain(3)
DataChecks     == <<Check("", "data", "", 1)>> \o Needing(2, "data")
BzzChecks      == <<Check("", "file", "", 1)>> \o Needing(1, "file") \o Plain(1)
StreamChecks   == Plain(1)
EncryptedCheck == Plain(1)
ChunkCheck     == Plain(1)
PinChecks      == <<Check("data", "", "pin", 1), Check("data", "", "", 1),
                    Check("data", "", "unpin", 1), Check("", "", "tag", 1)>>
FeedChecks     == <<Check("", "", "sign", 6), Check("", "", "owner", 1), Check("", "", "owner", 1),
                    Check("", "", "owner", 7)>> \o Needing(1, "data")
StewardChecks  == Needing(1, "data")
ActChecks      == Needing(1, "data") \o <<Check("key", "grantees", "", 1)>> \o Needing(1, "grantees")
PssChecks      == <<Check("", "", "", 3), Check("", "", "", 1)>>
GsocChecks     == <<Check("", "", "sign", 1), Check("", "", "sign", 1)>>

CheckList ==
  NodeChecks \o OperatorChecks \o ObtainBatch \o PostageChecks \o DataChecks \o BzzChecks
    \o StreamChecks \o EncryptedCheck \o ChunkCheck \o PinChecks \o FeedChecks
    \o StewardChecks \o ActChecks \o PssChecks \o GsocChecks

\* With a mutable batch: obtained, usable, topped up, diluted.
MutableChecks ==
  <<Check("", "", "mutable", 1), Check("", "", "mutable", BATCH_TRIES)>> \o Plain(2)

Checks == CheckList \o (IF "mutable" \in gates THEN MutableChecks ELSE <<>>)

-----------------------------------------------------------------------------
CheckInit ==
  /\ gates \in Gates
  /\ at = 1 /\ left = 1
  /\ has = (IF "signer" \in gates THEN {"", "key"} ELSE {""})
  /\ tally = [pass |-> 0, fail |-> 0, skip |-> 0]
  /\ over = "running" /\ pinned = FALSE /\ tagged = FALSE

Current == Checks[at]
Running == over = "running" /\ at <= Len(Checks)

GoOn ==
  /\ at' = at + 1
  /\ left' = IF at < Len(Checks) THEN Checks[at + 1].tries ELSE 1
  /\ UNCHANGED gates

CheckSkipped ==
  /\ Running /\ Current.needs \notin has
  /\ tally' = [tally EXCEPT !.skip = @ + 1]
  /\ GoOn
  /\ UNCHANGED <<has, over, pinned, tagged>>

\* Without a signing key nothing can be signed, and no owner is known.
Signable == Current.does \in {"sign", "owner"} => "key" \in has

\* What a check gives can be missing although it passes: a reference of the grantee
\* list that does not parse is skipped over.
CheckPasses ==
  /\ Running /\ Current.needs \in has /\ Signable
  /\ tally' = [tally EXCEPT !.pass = @ + 1]
  /\ \E given \in {Current.gives} \cup (IF Current.gives = "grantees" THEN {""} ELSE {}) :
       has' = has \cup {given}
  /\ pinned' = ((pinned \/ Current.does = "pin") /\ Current.does # "unpin")
  /\ GoOn
  /\ UNCHANGED <<over, tagged>>

\* The batch is waited for; a lookup or a send is tried again.
CheckRetries ==
  /\ Running /\ Current.needs \in has /\ Signable
  /\ left > 1
  /\ left' = left - 1
  /\ UNCHANGED <<gates, at, has, tally, over, pinned, tagged>>

Fatal == Current.does \in {"batch", "mutable"}

\* Mutant: a failure is told but not counted.
CheckFailsUncounted ==
  /\ Running /\ Current.needs \in has /\ Current.does # "owner"
  /\ left = 1 /\ GoOn
  /\ UNCHANGED <<has, tally, over, pinned, tagged>>

\* Without a batch the program sums up what it has; without a usable mutable one it
\* leaves out the rest, which comes last.
CheckFails ==
  /\ Running /\ Current.needs \in has
  /\ left = 1 \/ ~Signable
  /\ Current.does = "owner" => Signable
  /\ tally' = [tally EXCEPT !.fail = @ + 1]
  /\ over' = IF Fatal THEN "failure" ELSE over
  /\ pinned' \in IF Current.does \in {"pin", "unpin"} THEN {pinned, Current.does = "pin"} ELSE {pinned}
  /\ tagged' \in IF Current.does = "tag" THEN BOOLEAN ELSE {tagged}
  /\ GoOn
  /\ UNCHANGED has

\* create_feed_manifest and what follows expect the owner to be known.
CheckPanics ==
  /\ Running /\ Current.needs \in has /\ ~Signable /\ Current.does = "owner"
  /\ over' = "panic"
  /\ UNCHANGED <<gates, at, left, has, tally, pinned, tagged>>

\* The checks of the mutable batch count as one that is skipped.
CheckSums ==
  /\ over = "running" /\ at = Len(Checks) + 1
  /\ tally' = [tally EXCEPT !.skip = @ + (IF "mutable" \in gates THEN 0 ELSE 1)]
  /\ over' = IF tally.fail > 0 THEN "failure" ELSE "success"
  /\ UNCHANGED <<gates, at, left, has, pinned, tagged>>

CheckNext == \/ CheckSkipped \/ CheckPasses \/ CheckRetries \/ CheckFails \/ CheckPanics
             \/ CheckSums

-----------------------------------------------------------------------------
(* Correctness.                                                            *)

Counted == tally.pass + tally.fail + tally.skip

\* The exit code can be trusted: every check that was come to is counted once, as
\* passed, failed or skipped; success means that none failed, that the node keeps no
\* pin and no tag of the program, and that all that was skipped was the grantee list
\* (whose reference may not parse), what needs a signing key, and the mutable batch.
SuccessMeansChecked ==
  /\ over # "running" \/ Counted = at - 1
  /\ over = "success" =>
       /\ tally.fail = 0 /\ ~pinned /\ ~tagged
       /\ tally.skip <= 1 + (IF "mutable" \in gates THEN 0 ELSE 1)
=============================================================================
