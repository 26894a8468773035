---------------------------- MODULE LossyStream ----------------------------
(***************************************************************************)
(* What a live feed promises each of its readers, and no more: items may be *)
(* missing, but what arrives was published before, arrives in the order of  *)
(* publication and never twice.  Items are named 1, 2, 3, ... as published. *)
(***************************************************************************)
EXTENDS Naturals, Sequences

VARIABLES sent,   \* items published so far
          got     \* what one reader has received, in the order of arrival

Init == sent = 0 /\ got = <<>>

Publish == sent' = sent + 1 /\ UNCHANGED got

Receive ==
  \E i \in 1..sent : /\ \A k \in DOMAIN got : got[k] < i
                     /\ got' = Append(got, i)
                     /\ UNCHANGED sent

Next == Publish \/ Receive

Spec == Init /\ [][Next]_<<sent, got>>
=============================================================================
