------------------------------ MODULE Mailbox ------------------------------
(***************************************************************************)
(* What a websocket subscription promises its owner: the messages the node *)
(* publishes arrive in order, none twice and none left out, up to an end,  *)
(* and the end is final.  Message n is the n-th one published.             *)
(***************************************************************************)
EXTENDS Naturals, Sequences

VARIABLES
  published,  \* how many messages the node has published
  delivered,  \* the messages the owner was given
  over        \* the owner was told that nothing more comes

Init ==
  /\ published = 0
  /\ delivered = <<>>
  /\ over = FALSE

Publish ==
  /\ published' = published + 1
  /\ UNCHANGED <<delivered, over>>

Deliver ==
  /\ ~over
  /\ Len(delivered) < published
  /\ delivered' = Append(delivered, Len(delivered) + 1)
  /\ UNCHANGED <<published, over>>

End ==
  /\ ~over
  /\ over' = TRUE
  /\ UNCHANGED <<published, delivered>>

Next == Publish \/ Deliver \/ End

Spec == Init /\ [][Next]_<<published, delivered, over>>
=============================================================================
