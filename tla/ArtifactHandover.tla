-------------------------- MODULE ArtifactHandover --------------------------
(***************************************************************************)
(* The host side of a review's artifacts, composed with the workflow side  *)
(* (ArtifactPersistence): before a run the host truncates what an earlier  *)
(* review of the commit left (scripts/gauntlet/stale.py); when a run       *)
(* returned its primaries as text, the host materializes them              *)
(* (scripts/gauntlet/materialize.py): every entry is written, then the     *)
(* assembler derives the rest.  Truncations and writes may fail one by one.*)
(*                                                                         *)
(* The host works between runs: it stops a run before it resumes it.       *)
(***************************************************************************)
EXTENDS ArtifactPersistence

VARIABLES
  payloads,  \* runs whose return, entries included, lies in a task file
  host,      \* away, writing, done
  source,    \* the payload being materialized, or the last one
  todo,      \* entries not yet attempted
  landed,    \* the receipt's "materialized"
  exit       \* status of the last host command

hostVars == <<payloads, host, source, todo, landed, exit>>
hvars == <<pvars, hostVars>>

HInit ==
  /\ PInit
  /\ payloads = {}
  /\ host = "away"
  /\ source = 0
  /\ todo = {}
  /\ landed = {}
  /\ exit = 0

HostFree == host \in {"away", "done"}

(* A step of the workflow; the task file keeps what a run returns.         *)
Workflow ==
  /\ HostFree
  /\ PNext
  /\ payloads' = IF result'.channel = "return" THEN payloads \cup {run'} ELSE payloads
  /\ host' = "away"
  /\ UNCHANGED <<source, todo, landed, exit>>

Present == {f \in File : disk[f].kind # "absent"}

(* Every matching file is emptied in the order the directory lists them;   *)
(* the first that cannot be ends the command.                              *)
Truncate ==
  /\ HostFree
  /\ stage \in {"idle", "returned"}
  /\ \E gone \in SUBSET Present :
       /\ disk' = [f \in File |-> IF f \in gone THEN Blank("empty") ELSE disk[f]]
       /\ exit' = IF gone = Present THEN 0 ELSE 2
  /\ stage' = "idle"
  /\ host' = "away"
  /\ UNCHANGED <<run, attempt, due, printed, first, notes, result, payloads, source, todo, landed>>

-----------------------------------------------------------------------------
(* Materialization. *)

(* select_source: the task's own payload, else the newest of the nonce,    *)
(* which a resumed run shares with the runs before it.                     *)
Select == CHOOSE q \in payloads : \A p \in payloads : p <= q

Materialize ==
  /\ HostFree
  /\ stage = "returned"
  /\ payloads # {}
  /\ host' = "writing"
  /\ source' = Select
  /\ todo' = Primary
  /\ landed' = {}
  /\ UNCHANGED <<pvars, payloads, exit>>

(* write_entries: a failed entry does not stop the others. *)
WriteEntry(f) ==
  /\ host = "writing"
  /\ f \in todo
  /\ todo' = todo \ {f}
  /\ \/ disk' = [disk EXCEPT ![f] = Exact(source)] /\ landed' = landed \cup {f}
     \/ UNCHANGED <<disk, landed>>
  /\ UNCHANGED <<run, stage, attempt, due, printed, first, notes, result, payloads, host, source, exit>>

(* Mutant: one entry written is enough to derive from. *)
MutantAllWritten == landed # {}

AllWritten == landed = Primary

(* After a partial write there is nothing coherent to derive from. *)
PartialWrite ==
  /\ host = "writing" /\ todo = {} /\ ~AllWritten
  /\ host' = "done"
  /\ exit' = 1
  /\ UNCHANGED <<pvars, payloads, source, todo, landed>>

(* proof_gaps, against the plan of the payload. *)
ProofGaps(receipt) ==
  {f \in Checked : receipt.verified[f] = "differs"}
    \cup {f \in Derived : receipt.written[f] = "differs"}

(* Mutant: whatever the assembler could not write is not a gap. *)
MutantSucceeds(receipt) == ProofGaps(receipt) = {}

Succeeds(receipt) == receipt.ok /\ ProofGaps(receipt) = {}

Derive ==
  /\ host = "writing" /\ todo = {} /\ AllWritten
  /\ \E outcome \in Assemblies(disk) :
       /\ disk' = outcome.disk
       /\ exit' = IF Succeeds(outcome.receipt) THEN 0 ELSE 1
  /\ host' = "done"
  /\ UNCHANGED <<run, stage, attempt, due, printed, first, notes, result, payloads, source, todo, landed>>

MaterializeStep ==
  \/ Materialize
  \/ \E f \in Primary : WriteEntry(f)
  \/ PartialWrite
  \/ Derive

HNext == Workflow \/ Truncate \/ MaterializeStep

HSpec == HInit /\ [][HNext]_hvars
-----------------------------------------------------------------------------
HTypeOK ==
  /\ PTypeOK
  /\ payloads \subseteq Run
  /\ host \in {"away", "writing", "done"}
  /\ source \in AnyRun
  /\ todo \subseteq Primary
  /\ landed \subseteq Primary
  /\ exit \in 0..2

(* Exit 0 of the materializer: every artifact on disk is byte for byte     *)
(* what one and the same run returned.  Any other exit: at least the       *)
(* entries its receipt lists are.                                          *)
MaterializeTellsTruth ==
  host = "done" =>
     /\ exit = 0 => \A f \in Artifact : disk[f] = Exact(source)
     /\ \A f \in landed : disk[f] = Exact(source)

(* Materializing never leaves a derived document that mixes two runs: a    *)
(* projection of findings other than those it is filed with.               *)
NoMixedDerivation ==
  host = "writing" => \A f \in Derived : disk'[f] \in {disk[f], Exact(source)}

(* Whatever fails while the host writes, no document of another run passes *)
(* for one of this run, by the exit status or by what was derived.         *)
HandoverTellsTruth == [][MaterializeTellsTruth' /\ NoMixedDerivation]_hvars

(* skills/code-gauntlet/references/phase2-preparation.md: "An exit 2       *)
(* truncated nothing".                                                     *)
ExitTwoTruncatedNothing == [][Truncate /\ exit' = 2 => disk' = disk]_hvars
=============================================================================
