------------------------- MODULE MCArtifactHandover -------------------------
(* The return channel, and the writer path a return over budget falls back *)
(* to.                                                                     *)
EXTENDS ArtifactHandover

ReturnInputs == [script : {TRUE}, returns : {TRUE}, derivable : {TRUE}, fits : BOOLEAN]
=============================================================================
