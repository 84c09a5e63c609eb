----------------------------- MODULE MCPrograms -----------------------------
(* Either the programs with a state file run, or the integration check.     *)
(* Every file is shared to all grantees, to be revoked one by one.         *)
(* Files of no chunk, of chunks in one bucket or in two, sealed by write or *)
(* by finalize, and one that no batch of this depth can hold.               *)
EXTENDS Programs, Integration

Files ==
  {[chunks |-> <<>>, written |-> 0],
   [chunks |-> <<1>>, written |-> 0],
   [chunks |-> <<1, 2, 1>>, written |-> 2],
   [chunks |-> <<2, 2, 2>>, written |-> 3]}

Recipients == {Grantee}

Started == SUBSET {"signer", "mutable"}

\* The integration check runs in the place of the relay's processes.
VARIABLE checking

MCInit ==
  /\ checking \in BOOLEAN
  /\ Init /\ CheckInit
  /\ checking => program = "relay"
  /\ ~checking => gates = {}

MCNext ==
  /\ UNCHANGED checking
  /\ \/ ~checking /\ Next      /\ UNCHANGED checkVars
     \/ checking  /\ CheckNext /\ UNCHANGED all

MCSpec == MCInit /\ [][MCNext]_<<checking, all, checkVars>> /\ Fairness
=============================================================================
