---------------------------- MODULE Measurement ----------------------------
(***************************************************************************)
(* What a measurement tells of a review: the stage at which a missed bug   *)
(* was lost (LossFunnel), and what a score counts of what was posted       *)
(* (ScoreEvidence).  The two are computed from different files of a run    *)
(* and share no state.                                                     *)
(***************************************************************************)
EXTENDS LossFunnel, ScoreEvidence

MeasurementInit == LossInit /\ EvidenceInit
MeasurementNext == [LossNext]_lossVars /\ [EvidenceNext]_evidenceVars
MeasurementSpec == MeasurementInit /\ [][MeasurementNext]_<<lossVars, evidenceVars>>
-----------------------------------------------------------------------------
(* A measurement is true of the review: each missed bug is charged to the  *)
(* stage that lost it, and a published score counts what was posted, once. *)
MeasurementIsTrue == LossesAreTrue /\ CreditIsCounted
=============================================================================
