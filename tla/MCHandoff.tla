----------------------------- MODULE MCHandoff -----------------------------
(***************************************************************************)
(* How a review hands its artifacts to the host, in one run of TLC: the    *)
(* workflow persists them (topic "persist"), and the host's awaiter waits  *)
(* for them ("await").  Here they share no state: a behaviour about the    *)
(* one starts with the other at rest.                                      *)
(***************************************************************************)
EXTENDS MCArtifactPersistence, MCWorkflowAwaiter

VARIABLE topic

handoffVars == <<pvars, avars, topic>>

NoArtifacts == disk = [f \in File |-> Blank("absent")]

(* A chain whose first attempt was interrupted before anything was written. *)
NoChain ==
  /\ pc = "exited" /\ outcome = "error"
  /\ nth = 1 /\ now = Launch /\ since = now /\ deadline = now + Timeout
  /\ mtime = [f \in Files |-> 0] /\ hollow = {} /\ channel = "files" /\ task = "none"
  /\ resolved = FALSE /\ completeAt = Never /\ whole = Never

MCInit ==
  /\ topic \in {"persist", "await"}
  /\ IF topic = "persist" THEN NoChain ELSE NoArtifacts /\ Init
  /\ PInit

MCNext ==
  /\ UNCHANGED topic
  /\ \/ topic = "persist" /\ PNext /\ UNCHANGED avars
     \/ topic = "await" /\ Next /\ UNCHANGED pvars

(* The fairness of PLiveSpec and of LiveSpec. *)
MCSpec ==
  /\ MCInit /\ [][MCNext]_handoffVars
  /\ WF_handoffVars(topic = "persist" /\ PersistStep /\ UNCHANGED <<avars, topic>>)
  /\ WF_handoffVars(topic = "await" /\ Awaiter /\ UNCHANGED <<pvars, topic>>)
  /\ WF_handoffVars(topic = "await" /\ Tick /\ UNCHANGED <<pvars, topic>>)
=============================================================================
