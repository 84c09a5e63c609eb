------------------------------ MODULE MCChunks ------------------------------
(* Either a chunker cuts its input into chunks, or the stampers of a batch  *)
(* stamp chunks of any bucket, of whatever input.                           *)
EXTENDS FileChunker, Stamper

VARIABLE stamping

MCInit ==
  /\ stamping \in BOOLEAN
  /\ Init /\ StamperInit

MCNext ==
  /\ UNCHANGED stamping
  /\ \/ ~stamping /\ Next        /\ UNCHANGED stamperVars
     \/ stamping  /\ StamperNext /\ UNCHANGED vars

MCSpec == MCInit /\ [][MCNext]_<<stamping, vars, stamperVars>> /\ WF_vars(Step)
=============================================================================
