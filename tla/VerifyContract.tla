--------------------------- MODULE VerifyContract ---------------------------
(***************************************************************************)
(* What the verify stage promises of the findings it is given: each is     *)
(* decided once, in the order they came, and one is known only by what an  *)
(* executor computed from that finding's own record.  Executors may        *)
(* compute more than the stage ever uses.                                  *)
(***************************************************************************)
EXTENDS Naturals

VARIABLES
  fate,     \* fate[p]: how finding number p ended up
  computed  \* findings whose own record an executor has verified

Pending == {p \in DOMAIN fate : fate[p] = "pending"}

Init ==
  /\ fate = [p \in DOMAIN fate |-> "pending"]
  /\ computed = {}

(* The first findings still pending are decided together. *)
Decide(S) ==
  /\ S \subseteq Pending
  /\ \A p \in S, q \in Pending \ S : p < q
  /\ \E known \in SUBSET (S \cap computed') :
       \A p \in DOMAIN fate :
         fate'[p] \in IF p \in known THEN {"facts", "bare"}
                     ELSE IF p \in S THEN {"unknown"} ELSE {fate[p]}

Next ==
  /\ computed \subseteq computed'
  /\ DOMAIN fate' = DOMAIN fate
  /\ \E S \in SUBSET DOMAIN fate : Decide(S)

Spec == Init /\ [][Next]_<<fate, computed>>
=============================================================================
