------------------------------ MODULE FileDelivery -----------------------------
(***************************************************************************)
(* What a download promises (filestream.rs, stream_file): the chunks of    *)
(* the file one after the other, and the end only after the last.  It may  *)
(* break off at any time, and then says so.                                *)
(***************************************************************************)
EXTENDS Naturals, Sequences

CONSTANTS Downloads, ChunksOf(_)

VARIABLES got, end

deliveryVars == <<got, end>>

DeliveryInit ==
    /\ got = [d \in Downloads |-> <<>>]
    /\ end = [d \in Downloads |-> "open"]

Deliver(d) ==
    /\ end[d] = "open"
    /\ Len(got[d]) < Len(ChunksOf(d))
    /\ got' = [got EXCEPT ![d] = Append(@, ChunksOf(d)[Len(@) + 1])]
    /\ UNCHANGED end

Complete(d) ==
    /\ end[d] = "open" /\ got[d] = ChunksOf(d)
    /\ end' = [end EXCEPT ![d] = "complete"]
    /\ UNCHANGED got

\* Several may break at once, when the server dies.
Break(D) ==
    /\ \A d \in D : end[d] = "open"
    /\ end' = [d \in Downloads |-> IF d \in D THEN "broken" ELSE end[d]]
    /\ UNCHANGED got

DeliveryNext ==
    \/ \E d \in Downloads : Deliver(d) \/ Complete(d)
    \/ \E D \in SUBSET Downloads : Break(D)

DeliverySpec == DeliveryInit /\ [][DeliveryNext]_deliveryVars
================================================================================
