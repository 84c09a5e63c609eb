------------------------------ MODULE MCFeeds -------------------------------
(* Either the feed is updated and read, or single-owner chunks, of which    *)
(* each of its updates is one, are made, stored, mixed up and read.         *)
EXTENDS Feeds, Soc

VARIABLE chunks

Bodies == {<<1>>, <<0, 1>>}

MCInit ==
  /\ chunks \in BOOLEAN
  /\ Init /\ SocInit

MCNext ==
  /\ UNCHANGED chunks
  /\ \/ ~chunks /\ Next    /\ UNCHANGED socVars
     \/ chunks  /\ SocNext /\ UNCHANGED vars

MCSpec == MCInit /\ [][MCNext]_<<chunks, vars, socVars>>
=============================================================================
