----------------------- MODULE MCArtifactPersistence -----------------------
(* Every input writeArtifacts tells apart. *)
EXTENDS ArtifactPersistence

AnyInput == InputSpace
=============================================================================
