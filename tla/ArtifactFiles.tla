--------------------------- MODULE ArtifactFiles ---------------------------
(***************************************************************************)
(* The files of a review and what scripts/gauntlet/artifacts.py makes of   *)
(* them: from the persist plan on disk it checks the two primaries against *)
(* the plan's expectations, projects the post-review document out of the   *)
(* findings, writes the checkpoint the plan carries, and prints a receipt  *)
(* of what it saw and wrote.                                               *)
(*                                                                         *)
(* A file is told apart by whose bytes it holds: exactly those the         *)
(* pipeline of a run derived, other bytes meant for that run that still    *)
(* parse, or something no run can use.                                     *)
(***************************************************************************)
EXTENDS Naturals

CONSTANT MaxRuns  \* bound on the runs of the workflow for one commit

ASSUME MaxRunsAssumption == MaxRuns \in Nat

(* Run 0 stands for an earlier review of the same commit. *)
Run == 1..MaxRuns
AnyRun == 0..MaxRuns

File == {"findings", "report", "plan", "postReview", "checkpoints"}
Primary == {"findings", "report", "plan"}
Derived == {"postReview", "checkpoints"}
Artifact == File \ {"plan"}
Checked == {"findings", "report"}

Content == [kind : {"absent", "empty", "broken", "other", "exact"}, of : AnyRun]
Exact(r) == [kind |-> "exact", of |-> r]
Other(r) == [kind |-> "other", of |-> r]
Blank(kind) == [kind |-> kind, of |-> 0]

Disk == [File -> Content]

Receipt == [ok : BOOLEAN,
            echo : SUBSET AnyRun,  \* the plan it names, if any
            verified : [Checked -> {"missing", "match", "differs"}],
            written : [Derived -> {"missing", "same", "differs"}]]

Unverified == [f \in Checked |-> "missing"]
Unwritten == [f \in Derived |-> "missing"]
NoReceipt == [ok |-> FALSE, echo |-> {}, verified |-> Unverified, written |-> Unwritten]
-----------------------------------------------------------------------------
(* The plan proves itself by its own checksum, so only an exact one runs,  *)
(* and any exact one does, whichever run it belongs to.                    *)
Executable(disk) == disk["plan"].kind = "exact"

(* Findings must parse as JSON; the report is read as it is. *)
Readable(f, content) ==
  /\ content.kind # "absent"
  /\ f = "findings" => content.kind \notin {"empty", "broken"}

(* The expect loop, for a plan of run p. *)
Verify(disk, p) ==
  [f \in Checked |-> IF ~Readable(f, disk[f]) THEN "missing"
                     ELSE IF disk[f] = Exact(p) THEN "match" ELSE "differs"]

(* _project: out of other findings the selected ones may still be whole. *)
Projections(findings, p) == IF findings = Exact(p) THEN {Exact(p)} ELSE {Exact(p), Other(p)}

Refused(disk, echo, rows) ==
  [disk |-> disk,
   receipt |-> [ok |-> FALSE, echo |-> echo, verified |-> rows, written |-> Unwritten]]

(* Both documents are built before either is written; each write is atomic *)
(* and may fail, and a failed one does not stop the other.                 *)
Assembled(disk, p, post, done) ==
  LET document(f) == IF f = "postReview" THEN post ELSE Exact(p)
  IN [disk |-> [f \in File |-> IF f \in done THEN document(f) ELSE disk[f]],
      receipt |-> [ok |-> done = Derived, echo |-> {p}, verified |-> Verify(disk, p),
                   written |-> [f \in Derived |-> IF f \notin done THEN "missing"
                                                  ELSE IF document(f) = Exact(p) THEN "same"
                                                  ELSE "differs"]]]

(* What running the assembler on this disk may leave and print. *)
Assemblies(disk) ==
  LET p == disk["plan"].of
      rows == Verify(disk, p)
  IN IF ~Executable(disk) THEN {Refused(disk, {}, Unverified)}
     ELSE IF \E f \in Checked : rows[f] = "missing" THEN {Refused(disk, {p}, rows)}
     ELSE {Assembled(disk, p, post, done) :
             post \in Projections(disk["findings"], p), done \in SUBSET Derived}
          \cup (IF disk["findings"] = Exact(p) THEN {} ELSE {Refused(disk, {p}, rows)})
=============================================================================
