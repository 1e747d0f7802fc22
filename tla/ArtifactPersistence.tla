------------------------ MODULE ArtifactPersistence ------------------------
(***************************************************************************)
(* writeArtifacts of workflows/src/persist.js.  A run hands its artifacts  *)
(* over in one of three ways: as text in its own return value, through a   *)
(* writer agent that transcribes the primaries and an executor that runs   *)
(* the assembler on them, or, by value, through the writer agent alone.    *)
(* Only the assembler's receipt proves bytes; a refused one earns a single *)
(* retry, which overwrites what the first attempt left.                    *)
(*                                                                         *)
(* The writer may write any of its files wrongly or not at all, and claims *)
(* what it likes.  The executor may run the script or not, and may lose    *)
(* any part of the receipt; it does not turn a mismatch into a match.      *)
(***************************************************************************)
EXTENDS ArtifactFiles

CONSTANT Inputs  \* what the run's input and its findings allow (InputSpace)

InputSpace == [script : BOOLEAN,     \* the assembler script is at hand
               returns : BOOLEAN,    \* persist.returnPrimaries
               derivable : BOOLEAN,  \* persistDerivable
               fits : BOOLEAN]       \* the return stays under its budget

ASSUME InputAssumption == Inputs \subseteq InputSpace

VARIABLES
  disk,     \* the files of this commit's review
  run,      \* the run of the workflow under way, or the last one
  stage,    \* idle, write, assemble, answer, byvalue, returned
  attempt,  \* of derived persistence: 1 or 2
  due,      \* files the writer dispatch under way has not touched yet
  printed,  \* the receipt the assembler printed, if it ran
  first,    \* the primaries a refused first attempt proved
  notes,    \* gaps gathered before the outcome
  result    \* what writeArtifacts returned

pvars == <<disk, run, stage, attempt, due, printed, first, notes, result>>

Gap == Checked \cup {"postReview", "retried", "over-budget", "not-derivable", "partial"}

Result == [channel : {"none", "return", "derived", "byvalue"}, partial : BOOLEAN,
           paths : SUBSET Artifact, gaps : SUBSET Gap]
NoResult == [channel |-> "none", partial |-> FALSE, paths |-> {}, gaps |-> {}]
-----------------------------------------------------------------------------
(* The trust decision. *)

(* Mutant: the receipt's own account of the plan is enough. *)
MutantTrusted(receipt, r) ==
  /\ receipt.ok
  /\ \A f \in Checked : receipt.verified[f] # "missing"
  /\ receipt.written["checkpoints"] = "same"
  /\ \/ receipt.written["postReview"] = "same"
     \/ receipt.written["postReview"] = "differs" /\ receipt.verified["findings"] = "differs"

(* trustAssembleReceipt: this run's plan, both primaries read, both        *)
(* documents written, and each as the pipeline derives it, unless the      *)
(* post-review document follows findings that differ themselves.           *)
Trusted(receipt, r) ==
  /\ receipt.ok
  /\ receipt.echo = {r}
  /\ \A f \in Checked : receipt.verified[f] # "missing"
  /\ receipt.written["checkpoints"] = "same"
  /\ \/ receipt.written["postReview"] = "same"
     \/ receipt.written["postReview"] = "differs" /\ receipt.verified["findings"] = "differs"

(* provenPrimaryPaths *)
Proven(receipt, r) ==
  IF receipt.echo # {r} THEN {} ELSE {f \in Checked : receipt.verified[f] = "match"}

(* Mutant: what differs is usable and needs no mention. *)
MutantContentGaps(receipt) == {}

(* The content gaps of a trusted receipt. *)
ContentGaps(receipt) ==
  {f \in Checked : receipt.verified[f] = "differs"}
    \cup {f \in {"postReview"} : receipt.written[f] = "differs"}

(* An executor may drop any part of what the script printed. *)
Relays(receipt) ==
  {receipt, NoReceipt, [receipt EXCEPT !.ok = FALSE], [receipt EXCEPT !.echo = {}]}
    \cup {[receipt EXCEPT !.verified[f] = "missing"] : f \in Checked}
    \cup {[receipt EXCEPT !.written[f] = "missing"] : f \in Derived}
-----------------------------------------------------------------------------
PInit ==
  /\ disk \in [File -> {Blank("absent"), Exact(0)}]
  /\ run = 0
  /\ stage = "idle"
  /\ attempt = 1
  /\ due = {}
  /\ printed = NoReceipt
  /\ first = {}
  /\ notes = {}
  /\ result = NoResult

Return(channel, partial, paths, gaps) ==
  /\ result' = [channel |-> channel, partial |-> partial, paths |-> paths, gaps |-> gaps]
  /\ stage' = "returned"
  /\ printed' = NoReceipt
  /\ due' = {}

(* writeArtifacts picks the way. *)
Persist(input) ==
  /\ stage \in {"idle", "returned"}
  /\ run < MaxRuns
  /\ run' = run + 1
  /\ attempt' = 1
  /\ first' = {}
  /\ LET wanted == input.script \/ input.returns
         derived == wanted /\ input.derivable
         overBudget == derived /\ input.returns /\ ~input.fits
         gaps == {g \in {"not-derivable"} : wanted /\ ~input.derivable}
                   \cup {g \in {"over-budget"} : overBudget}
     IN /\ notes' = gaps
        /\ \/ derived /\ input.returns /\ input.fits /\ Return("return", FALSE, Artifact, {})
           \/ /\ derived /\ input.script /\ (input.returns => ~input.fits)
              /\ stage' = "write" /\ due' = Primary
              /\ result' = NoResult /\ UNCHANGED printed
           \/ /\ ~derived \/ (overBudget /\ ~input.script)
              /\ stage' = "byvalue" /\ due' = Artifact
              /\ result' = NoResult /\ UNCHANGED printed
  /\ UNCHANGED disk

(* Serialization fails before any dispatch. *)
PersistThrows ==
  /\ stage \in {"idle", "returned"}
  /\ run < MaxRuns
  /\ run' = run + 1
  /\ attempt' = 1
  /\ first' = {}
  /\ notes' = {}
  /\ Return("none", TRUE, {}, {"partial"})
  /\ UNCHANGED disk

(* The writer writes a file of its payload, once, in any order. *)
WriterWrites(f) ==
  /\ stage \in {"write", "byvalue"}
  /\ f \in due
  /\ due' = due \ {f}
  /\ \E content \in {Exact(run), Other(run), Blank("broken")} : disk' = [disk EXCEPT ![f] = content]
  /\ UNCHANGED <<run, stage, attempt, printed, first, notes, result>>

(* Derived: an echo that covers the three primaries lets the assembler run *)
(* and any other answer, or none, ends the persist without a retry.        *)
WriterAnswers ==
  /\ stage = "write"
  /\ \/ stage' = "assemble" /\ due' = {} /\ UNCHANGED <<printed, result>>
     \/ Return("derived", TRUE, {}, notes \cup {"partial"})
  /\ UNCHANGED <<disk, run, attempt, first, notes>>

(* By value: an echo that covers the four artifacts is all there is. *)
ByValueAnswers ==
  /\ stage = "byvalue"
  /\ \/ Return("byvalue", FALSE, Artifact, notes)
     \/ Return("byvalue", TRUE, {}, notes \cup {"partial"})
  /\ UNCHANGED <<disk, run, attempt, first, notes>>

(* The executor runs the pinned command. *)
ExecutorRuns ==
  /\ stage = "assemble"
  /\ \E outcome \in Assemblies(disk) :
       disk' = outcome.disk /\ printed' = outcome.receipt
  /\ stage' = "answer"
  /\ UNCHANGED <<run, attempt, due, first, notes, result>>

(* It fails to answer at all, or names a path outside the directory. *)
ExecutorThrows ==
  /\ stage \in {"assemble", "answer"}
  /\ Return("derived", TRUE, {}, notes \cup {"partial"})
  /\ UNCHANGED <<disk, run, attempt, first, notes>>

(* Mutant: a retry that is not counted. *)
MutantNextAttempt == attempt

Retryable == attempt < 2
NextAttempt == attempt + 1

(* Mutant: what the first attempt proved is still counted after the retry. *)
MutantSalvage(receipt) == Proven(receipt, run) \cup first

(* Only the last attempt proves anything: the retry overwrote the rest. *)
Salvage(receipt) == Proven(receipt, run)

Deliver(receipt) ==
  /\ Trusted(receipt, run)
  /\ Return("derived", FALSE, Artifact, notes \cup ContentGaps(receipt))
  /\ UNCHANGED <<attempt, first, notes>>

Retry(receipt) ==
  /\ ~Trusted(receipt, run)
  /\ Retryable
  /\ attempt' = NextAttempt
  /\ first' = Proven(receipt, run)
  /\ stage' = "write"
  /\ due' = Primary
  /\ notes' = notes \cup {"retried"}
  /\ printed' = NoReceipt
  /\ UNCHANGED result

GiveUp(receipt) ==
  /\ ~Trusted(receipt, run)
  /\ ~Retryable
  /\ Return("derived", TRUE, Salvage(receipt), notes \cup {"partial"})
  /\ UNCHANGED <<attempt, first, notes>>

(* It answers: with the receipt, with part of it, or with nothing usable. *)
ExecutorAnswers ==
  /\ stage \in {"assemble", "answer"}
  /\ \E receipt \in Relays(printed) : Deliver(receipt) \/ Retry(receipt) \/ GiveUp(receipt)
  /\ UNCHANGED <<disk, run>>

PersistStep ==
  \/ \E f \in File : WriterWrites(f)
  \/ WriterAnswers \/ ByValueAnswers
  \/ ExecutorRuns \/ ExecutorThrows \/ ExecutorAnswers

PNext ==
  \/ \E input \in Inputs : Persist(input)
  \/ PersistThrows
  \/ PersistStep

PSpec == PInit /\ [][PNext]_pvars

(* Every dispatch is awaited and ends. *)
PLiveSpec == PSpec /\ WF_pvars(PersistStep)
-----------------------------------------------------------------------------
PTypeOK ==
  /\ disk \in Disk
  /\ run \in AnyRun
  /\ stage \in {"idle", "write", "assemble", "answer", "byvalue", "returned"}
  /\ attempt \in 1..2
  /\ due \subseteq File
  /\ printed \in Receipt
  /\ first \subseteq Checked
  /\ notes \subseteq Gap
  /\ result \in Result

(* What the derived channel reports as delivered is on disk: this run's    *)
(* checkpoint byte for byte, and every other artifact either byte for byte *)
(* or named in the gaps; the post-review document is only ever off because *)
(* the findings it projects are.                                           *)
DeliveredIsProven ==
  (stage = "returned" /\ result.channel = "derived" /\ ~result.partial) =>
     /\ \A f \in Artifact : disk[f] = Exact(run) \/ f \in result.gaps
     /\ disk["checkpoints"] = Exact(run)
     /\ "postReview" \in result.gaps => disk["findings"] # Exact(run)

(* A partial return still names only primaries that lie on disk byte for   *)
(* byte, whatever the attempts before the last one wrote or proved.        *)
SalvageIsProven ==
  (stage = "returned" /\ result.partial) => \A f \in result.paths : disk[f] = Exact(run)

(* What persist says of the disk, of all of it or of the part it could     *)
(* save, is what lies there. *)
HandedOverIsProven == DeliveredIsProven /\ SalvageIsProven

(* A persist that dispatched an agent returns, however it answers.         *)
EventuallyPersisted == (stage \notin {"idle", "returned"}) ~> (stage = "returned")
=============================================================================
