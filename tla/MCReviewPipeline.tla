------------------------- MODULE MCReviewPipeline -------------------------
(* Values of the constants of ReviewPipeline for model checking.           *)
EXTENDS ReviewPipeline, TLC

CONSTANTS f1, f2, a1, a2

(* One reviewer per finding; f2 is the loss of a removed-test audit.       *)
MCRaises == a1 :> {f1} @@ a2 :> {f2}

(* A single reviewer, for the runs about resuming. *)
MCOneReviewer == a1 :> {f1}

NoFindings == {}
AuditLoss == {f2}
SameAnchor == {<<f1, f2>>}
=============================================================================
