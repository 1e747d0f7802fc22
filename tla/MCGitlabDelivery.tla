------------------------- MODULE MCGitlabDelivery -------------------------
(* Values of the constants of GitlabDelivery for model checking.           *)
EXTENDS GitlabDelivery, TLC

CONSTANTS r1, r2, k1, k2, k3, s1

Issue(lead, members, places, anchored) ==
  [lead |-> lead, members |-> members, sites |-> places, anchored |-> anchored]

Nowhere == [k \in Key |-> {}]
At(k) == [Nowhere EXCEPT ![k] = {s1}]

(* k2 alone, and a finding without an anchor. *)
Alone == <<Issue(k2, {k2}, Nowhere, TRUE), Issue(k3, {k3}, Nowhere, FALSE)>>

(* k2 corroborates k1, and a further site of it was confirmed. *)
Regrouped == <<Issue(k1, {k1, k2}, At(k2), TRUE), Issue(k3, {k3}, Nowhere, FALSE)>>

(* k2 leads and a further site of it was confirmed. *)
Extended == <<Issue(k2, {k1, k2}, At(k2), TRUE), Issue(k3, {k3}, Nowhere, TRUE)>>

RewordedPlans == {Alone, Regrouped, Extended}
TwoPlans == {Alone, Regrouped}
NoKeys == {}
=============================================================================
