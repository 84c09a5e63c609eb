--------------------------- MODULE MCSubscription ---------------------------
(* Either a subscription is served, or a key is mined for a neighbourhood   *)
(* and published under.  The window of keys may lie anywhere in relation to *)
(* the overlay, at any proximity up to one more than there are bits.        *)
EXTENDS Subscription, Gsoc

VARIABLE mining

subscribed == <<mining, vars, gsocVars>>

Overlays == {<<<<0, 1>>, <<1, 0>>>>}

MCInit ==
  /\ mining \in BOOLEAN
  /\ Init /\ (mining => ~oneshot)
  /\ search \in [overlay : Overlays, proximity : 0 .. ADDRESS_BYTES * BYTE_BITS + 1]
  /\ lies \in [Window -> Overlay]
  /\ GsocInit
  /\ ~mining => search.proximity = 0 /\ \A key \in Window : lies[key] = search.overlay

MCNext ==
  /\ UNCHANGED mining
  /\ \/ ~mining /\ Next     /\ UNCHANGED gsocVars
     \/ mining  /\ GsocNext /\ UNCHANGED vars

MCSpec == MCInit /\ [][MCNext]_subscribed /\ Fairness
=============================================================================
