-------------------------- MODULE MCVerifySlices --------------------------
(* Values of the constants of VerifySlices for model checking.             *)
EXTENDS VerifySlices

CONSTANTS i1, i2, i3

(* Against an envelope of 1, a copy budget of 4 and a hard limit of 6.     *)
Made(id, cost, safe) == [id |-> id, cost |-> cost, safe |-> safe]

Kinds(id) == {Made(id, 1, TRUE), Made(id, 1, FALSE), Made(id, 2, TRUE), Made(id, 4, TRUE),
              Made(id, 7, TRUE)}

(* Every cut of up to three findings, and findings whose ids collide.      *)
SmallInputs ==
  {<<>>}
  \cup {<<f>> : f \in Kinds(i1) \cup Kinds(NoId)}
  \cup {<<f, g>> : f \in Kinds(i1), g \in Kinds(i2) \cup Kinds(i1)}
  \cup {<<f, g, h>> : f \in Kinds(i1), g \in Kinds(i2), h \in {Made(i3, 1, TRUE), Made(i3, 2, TRUE)}}
=============================================================================
