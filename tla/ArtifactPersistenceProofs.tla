--------------------- MODULE ArtifactPersistenceProofs ---------------------
(***************************************************************************)
(* Proofs about ArtifactPersistence, for any number of runs and any set of *)
(* inputs.  The invariant ties the receipt the assembler printed to the    *)
(* bytes on disk for as long as the receipt is not answered: no one writes *)
(* between the two.                                                        *)
(***************************************************************************)
EXTENDS ArtifactHandover, TLAPS

(* What a receipt that names this run's plan says of the disk is so. *)
Faithful(receipt) ==
  receipt.echo = {run} =>
    /\ \A f \in Checked : receipt.verified[f] = "match" => disk[f] = Exact(run)
    /\ \A f \in Checked : receipt.verified[f] = "differs" => disk[f] # Exact(run)
    /\ \A f \in Derived : receipt.written[f] = "same" => disk[f] = Exact(run)

ReceiptInv ==
  /\ stage # "answer" => printed = NoReceipt
  /\ stage = "answer" => Faithful(printed)

NotesInv == notes \subseteq {"retried", "over-budget", "not-derivable"}

IInv == PTypeOK /\ ReceiptInv /\ NotesInv /\ DeliveredIsProven /\ SalvageIsProven
-----------------------------------------------------------------------------
(* The algebra of files stays within its types. *)
LEMMA ContentTypes ==
  ASSUME NEW r \in AnyRun
  PROVE  Exact(r) \in Content /\ Other(r) \in Content
BY DEF Exact, Other, Content

(* Contents that belong to no run are contents. *)
LEMMA BlankTypes == Blank("absent") \in Content /\ Blank("empty") \in Content /\ Blank("broken") \in Content
BY MaxRunsAssumption DEF Blank, Content, AnyRun

(* The empty receipt is a receipt. *)
LEMMA NoReceiptType == NoReceipt \in Receipt
BY DEF NoReceipt, Receipt, Unverified, Unwritten

(* Reading the primaries yields one verdict each. *)
LEMMA VerifyType ==
  ASSUME NEW d \in Disk, NEW p \in AnyRun
  PROVE  Verify(d, p) \in [Checked -> {"missing", "match", "differs"}]
BY DEF Verify

(* What the assembler leaves and prints is well-typed, it leaves the       *)
(* primaries alone, and its receipt is truthful of the disk it leaves.     *)
LEMMA AssembliesSound ==
  ASSUME NEW d \in Disk, NEW outcome \in Assemblies(d)
  PROVE  /\ outcome.disk \in Disk
         /\ outcome.receipt \in Receipt
         /\ \A r \in AnyRun : outcome.receipt.echo = {r} =>
              /\ \A f \in Checked : outcome.receipt.verified[f] = "match" => outcome.disk[f] = Exact(r)
              /\ \A f \in Checked : outcome.receipt.verified[f] = "differs" => outcome.disk[f] # Exact(r)
              /\ \A f \in Derived : outcome.receipt.written[f] = "same" => outcome.disk[f] = Exact(r)
<1> DEFINE p == d["plan"].of
           rows == Verify(d, p)
<1>1. p \in AnyRun
  BY DEF Disk, File, Content
<1>2. rows \in [Checked -> {"missing", "match", "differs"}]
  BY <1>1, VerifyType
<1>3. /\ \A f \in Checked : rows[f] = "match" => d[f] = Exact(p)
      /\ \A f \in Checked : rows[f] = "differs" => d[f] # Exact(p)
  BY DEF Verify
<1>4. CASE outcome = Refused(d, {}, Unverified)
  <2>1. outcome.disk = d /\ outcome.receipt = [ok |-> FALSE, echo |-> {}, verified |-> Unverified, written |-> Unwritten]
    BY <1>4 DEF Refused
  <2> QED BY <2>1 DEF Receipt, Unverified, Unwritten
<1>5. CASE outcome = Refused(d, {p}, rows)
  <2>1. outcome.disk = d /\ outcome.receipt = [ok |-> FALSE, echo |-> {p}, verified |-> rows, written |-> Unwritten]
    BY <1>5 DEF Refused
  <2>2. outcome.receipt \in Receipt
    BY <2>1, <1>1, <1>2 DEF Receipt, Unwritten
  <2>3. \A f \in Derived : outcome.receipt.written[f] # "same"
    BY <2>1 DEF Unwritten
  <2> QED BY <2>1, <2>2, <2>3, <1>3
<1>6. CASE \E post \in Projections(d["findings"], p), done \in SUBSET Derived :
             outcome = Assembled(d, p, post, done)
  <2>1. PICK post \in Projections(d["findings"], p), done \in SUBSET Derived :
             outcome = Assembled(d, p, post, done)
    BY <1>6
  <2> DEFINE document(f) == IF f = "postReview" THEN post ELSE Exact(p)
  <2>2. post \in Content
    BY <1>1, ContentTypes DEF Projections
  <2>3. /\ outcome.disk = [f \in File |-> IF f \in done THEN document(f) ELSE d[f]]
        /\ outcome.receipt.echo = {p}
        /\ outcome.receipt.ok = (done = Derived)
        /\ outcome.receipt.verified = rows
        /\ outcome.receipt.written = [f \in Derived |-> IF f \notin done THEN "missing"
                                         ELSE IF document(f) = Exact(p) THEN "same" ELSE "differs"]
    BY <2>1 DEF Assembled
  <2>4. outcome.disk \in Disk
    <3>1. \A f \in File : (IF f \in done THEN document(f) ELSE d[f]) \in Content
      BY <2>2, <1>1, ContentTypes DEF Disk
    <3> QED BY <3>1, <2>3 DEF Disk
  <2>5. outcome.receipt \in Receipt
    <3> DEFINE w == [f \in Derived |-> IF f \notin done THEN "missing"
                                       ELSE IF document(f) = Exact(p) THEN "same" ELSE "differs"]
    <3>1. w \in [Derived -> {"missing", "same", "differs"}]
      OBVIOUS
    <3>2. outcome.receipt = [ok |-> (done = Derived), echo |-> {p}, verified |-> rows, written |-> w]
      BY <2>1 DEF Assembled
    <3>3. (done = Derived) \in BOOLEAN /\ {p} \in SUBSET AnyRun
      BY <1>1
    <3> HIDE DEF w, rows
    <3> QED BY <3>1, <3>2, <3>3, <1>2 DEF Receipt
  <2>6. \A f \in Checked : f \in File /\ f \notin done
    BY DEF Checked, Derived, File
  <2>7. \A f \in Checked : outcome.disk[f] = d[f]
    BY <2>3, <2>6
  <2>8. \A f \in Derived : outcome.receipt.written[f] = "same" => outcome.disk[f] = Exact(p)
    BY <2>3 DEF Derived, File
  <2> QED BY <2>3, <2>4, <2>5, <2>7, <2>8, <1>3
<1> QED BY <1>4, <1>5, <1>6 DEF Assemblies

(* Losing parts of a receipt keeps it a receipt and keeps it truthful. *)
LEMMA RelaysSound ==
  ASSUME PTypeOK, Faithful(printed), NEW receipt \in Relays(printed)
  PROVE  receipt \in Receipt /\ Faithful(receipt)
<1>1. CASE receipt = printed
  BY <1>1 DEF PTypeOK
<1>2. CASE receipt = NoReceipt
  <2>1. receipt.echo # {run}
    BY <1>2 DEF NoReceipt
  <2> QED BY <1>2, <2>1, NoReceiptType DEF Faithful
<1>3. CASE receipt = [printed EXCEPT !.ok = FALSE]
  BY <1>3 DEF PTypeOK, Receipt, Faithful
<1>4. CASE receipt = [printed EXCEPT !.echo = {}]
  <2>1. receipt.echo = {}
    BY <1>4 DEF PTypeOK, Receipt
  <2>2. receipt \in Receipt
    BY <1>4 DEF PTypeOK, Receipt
  <2> QED BY <2>1, <2>2 DEF Faithful
<1>5. CASE \E f \in Checked : receipt = [printed EXCEPT !.verified[f] = "missing"]
  <2>1. PICK g \in Checked : receipt = [printed EXCEPT !.verified[g] = "missing"]
    BY <1>5
  <2>2. /\ receipt.echo = printed.echo
        /\ receipt.written = printed.written
        /\ receipt.verified = [printed.verified EXCEPT ![g] = "missing"]
        /\ receipt \in Receipt
    BY <2>1 DEF PTypeOK, Receipt
  <2>3. \A f \in Checked : receipt.verified[f] \in {"missing", printed.verified[f]}
    BY <2>2 DEF PTypeOK, Receipt
  <2> QED BY <2>2, <2>3 DEF Faithful
<1>6. CASE \E f \in Derived : receipt = [printed EXCEPT !.written[f] = "missing"]
  <2>1. PICK g \in Derived : receipt = [printed EXCEPT !.written[g] = "missing"]
    BY <1>6
  <2>2. /\ receipt.echo = printed.echo
        /\ receipt.verified = printed.verified
        /\ receipt.written = [printed.written EXCEPT ![g] = "missing"]
        /\ receipt \in Receipt
    BY <2>1 DEF PTypeOK, Receipt
  <2>3. \A f \in Derived : receipt.written[f] \in {"missing", printed.written[f]}
    BY <2>2 DEF PTypeOK, Receipt
  <2> QED BY <2>2, <2>3 DEF Faithful
<1> QED BY <1>1, <1>2, <1>3, <1>4, <1>5, <1>6 DEF Relays
-----------------------------------------------------------------------------
(* Trusting a receipt, and salvaging from one that is refused. *)

(* A trusted truthful receipt leaves nothing off and unmentioned. *)
LEMMA TrustedMeansProven ==
  ASSUME NEW receipt \in Receipt, Faithful(receipt), Trusted(receipt, run)
  PROVE  /\ \A f \in Artifact : disk[f] = Exact(run) \/ f \in ContentGaps(receipt)
         /\ disk["checkpoints"] = Exact(run)
         /\ "postReview" \in ContentGaps(receipt) => disk["findings"] # Exact(run)
         /\ ContentGaps(receipt) \subseteq Gap
<1>1. /\ \A f \in Checked : receipt.verified[f] \in {"match", "differs"}
      /\ receipt.written["checkpoints"] = "same"
      /\ \/ receipt.written["postReview"] = "same"
         \/ receipt.written["postReview"] = "differs" /\ receipt.verified["findings"] = "differs"
  BY DEF Trusted, Receipt
<1>2. receipt.echo = {run}
  BY DEF Trusted
<1>3. Artifact = {"findings", "report", "postReview", "checkpoints"}
  BY DEF Artifact, File
<1>4. \A f \in Checked : disk[f] = Exact(run) \/ f \in ContentGaps(receipt)
  BY <1>1, <1>2 DEF Faithful, ContentGaps
<1>5. disk["checkpoints"] = Exact(run)
  BY <1>1, <1>2 DEF Faithful, Derived
<1>6. disk["postReview"] = Exact(run) \/ "postReview" \in ContentGaps(receipt)
  BY <1>1, <1>2 DEF Faithful, Derived, ContentGaps
<1>7. "postReview" \in ContentGaps(receipt) => disk["findings"] # Exact(run)
  BY <1>1, <1>2 DEF Faithful, Checked, ContentGaps
<1>8. ContentGaps(receipt) \subseteq Gap
  BY DEF ContentGaps, Gap
<1> QED BY <1>3, <1>4, <1>5, <1>6, <1>7, <1>8 DEF Checked

(* What a refused truthful receipt still proves is on disk. *)
LEMMA ProvenMeansOnDisk ==
  ASSUME NEW receipt \in Receipt, Faithful(receipt)
  PROVE  /\ Proven(receipt, run) \subseteq Checked
         /\ \A f \in Proven(receipt, run) : disk[f] = Exact(run)
BY DEF Proven, Faithful

(* A return is well-typed when its parts are. *)
LEMMA ReturnType ==
  ASSUME NEW channel \in {"none", "return", "derived", "byvalue"}, NEW partial \in BOOLEAN,
         NEW paths \in SUBSET Artifact, NEW gaps \in SUBSET Gap,
         Return(channel, partial, paths, gaps)
  PROVE  /\ result' \in Result /\ stage' = "returned"
         /\ printed' = NoReceipt /\ due' = {}
         /\ result'.channel = channel /\ result'.partial = partial
         /\ result'.paths = paths /\ result'.gaps = gaps
BY DEF Return, Result

(* Before the first run nothing is printed, noted or returned. *)
LEMMA InitInv == PInit => IInv
<1> SUFFICES ASSUME PInit PROVE IInv
  OBVIOUS
<1>1. disk \in Disk
  <2>1. Exact(0) \in Content /\ Blank("absent") \in Content
    BY MaxRunsAssumption DEF Exact, Blank, Content, AnyRun
  <2> QED BY <2>1 DEF PInit, Disk
<1>2. run \in AnyRun
  BY MaxRunsAssumption DEF PInit, AnyRun
<1>3. result \in Result
  BY DEF PInit, NoResult, Result
<1>4. PTypeOK
  BY <1>1, <1>2, <1>3, NoReceiptType DEF PInit, PTypeOK
<1>5. ReceiptInv /\ NotesInv /\ DeliveredIsProven /\ SalvageIsProven
  BY DEF PInit, ReceiptInv, NotesInv, DeliveredIsProven, SalvageIsProven
<1> QED BY <1>4, <1>5 DEF IInv

(* A new run, whichever way it persists. *)
LEMMA PersistInv ==
  ASSUME IInv, NEW input \in Inputs, Persist(input)
  PROVE  IInv'
<1> DEFINE wanted == input.script \/ input.returns
           derived == wanted /\ input.derivable
           overBudget == derived /\ input.returns /\ ~input.fits
           gaps == {g \in {"not-derivable"} : wanted /\ ~input.derivable}
                     \cup {g \in {"over-budget"} : overBudget}
<1>1. /\ run' \in AnyRun /\ attempt' = 1 /\ first' = {} /\ notes' = gaps /\ disk' = disk
      /\ stage \in {"idle", "returned"}
  BY MaxRunsAssumption DEF IInv, PTypeOK, Persist, AnyRun
<1>2. gaps \subseteq {"over-budget", "not-derivable"}
  OBVIOUS
<1>3. NotesInv' /\ notes' \subseteq Gap
  BY <1>1, <1>2 DEF NotesInv, Gap
<1>4. printed = NoReceipt
  BY <1>1 DEF IInv, ReceiptInv
<1>5. CASE Return("return", FALSE, Artifact, {})
  <2>1. /\ result' \in Result /\ stage' = "returned" /\ printed' = NoReceipt /\ due' = {}
        /\ result'.channel = "return" /\ result'.partial = FALSE
    <3>1. Artifact \in SUBSET Artifact /\ {} \in SUBSET Gap /\ FALSE \in BOOLEAN
      OBVIOUS
    <3>2. "return" \in {"none", "return", "derived", "byvalue"}
      OBVIOUS
    <3> QED BY <1>5, <3>1, <3>2, ReturnType
  <2>2. PTypeOK'
    BY <1>1, <1>3, <2>1, NoReceiptType DEF IInv, PTypeOK
  <2> QED BY <1>3, <2>1, <2>2 DEF IInv, ReceiptInv, DeliveredIsProven, SalvageIsProven
<1>6. CASE /\ stage' \in {"write", "byvalue"}
           /\ due' \in {Primary, Artifact} /\ result' = NoResult /\ printed' = printed
  <2>1. result' \in Result
    BY <1>6 DEF NoResult, Result
  <2>2. due' \subseteq File
    BY <1>6 DEF Primary, Artifact, File
  <2>3. PTypeOK'
    BY <1>1, <1>3, <1>4, <1>6, <2>1, <2>2, NoReceiptType DEF IInv, PTypeOK
  <2> QED BY <1>3, <1>4, <1>6, <2>3 DEF IInv, ReceiptInv, DeliveredIsProven, SalvageIsProven
<1> QED BY <1>5, <1>6 DEF Persist

(* Serialization fails: nothing is named. *)
LEMMA PersistThrowsInv ==
  ASSUME IInv, PersistThrows
  PROVE  IInv'
<1>1. /\ run' \in AnyRun /\ attempt' = 1 /\ first' = {} /\ notes' = {} /\ disk' = disk
  BY MaxRunsAssumption DEF IInv, PTypeOK, PersistThrows, AnyRun
<1>2. /\ result' \in Result /\ stage' = "returned" /\ printed' = NoReceipt /\ due' = {}
      /\ result'.channel = "none" /\ result'.paths = {}
  BY ReturnType DEF PersistThrows, Gap
<1>3. PTypeOK'
  BY <1>1, <1>2, NoReceiptType DEF IInv, PTypeOK
<1> QED BY <1>1, <1>2, <1>3 DEF IInv, ReceiptInv, NotesInv, DeliveredIsProven, SalvageIsProven

(* The writer writes while no receipt is out and nothing is returned. *)
LEMMA WriterWritesInv ==
  ASSUME IInv, NEW f \in File, WriterWrites(f)
  PROVE  IInv'
<1>1. disk' \in Disk
  <2>1. \A c \in {Exact(run), Other(run), Blank("broken")} : c \in Content
    BY ContentTypes, BlankTypes DEF IInv, PTypeOK
  <2> QED BY <2>1 DEF IInv, PTypeOK, WriterWrites, Disk
<1>2. PTypeOK'
  BY <1>1 DEF IInv, PTypeOK, WriterWrites
<1> QED BY <1>2 DEF IInv, WriterWrites, ReceiptInv, NotesInv, DeliveredIsProven, SalvageIsProven

(* An answer of the writer proves nothing. *)
LEMMA WriterAnswersInv ==
  ASSUME IInv, WriterAnswers \/ ByValueAnswers
  PROVE  IInv'
<1>1. UNCHANGED <<disk, run, attempt, first, notes>> /\ stage \in {"write", "byvalue"}
  BY DEF WriterAnswers, ByValueAnswers
<1>2. NotesInv' /\ notes' \subseteq Gap /\ notes \cup {"partial"} \in SUBSET Gap /\ notes \in SUBSET Gap
  BY <1>1 DEF IInv, NotesInv, PTypeOK, Gap
<1>3. CASE stage' = "assemble" /\ due' = {} /\ UNCHANGED <<printed, result>>
  <2>1. PTypeOK'
    BY <1>1, <1>2, <1>3 DEF IInv, PTypeOK
  <2> QED BY <1>1, <1>2, <1>3, <2>1 DEF IInv, ReceiptInv, DeliveredIsProven, SalvageIsProven
<1>4. CASE \/ Return("derived", TRUE, {}, notes \cup {"partial"})
           \/ Return("byvalue", FALSE, Artifact, notes)
           \/ Return("byvalue", TRUE, {}, notes \cup {"partial"})
  <2>1. /\ result' \in Result /\ stage' = "returned" /\ printed' = NoReceipt /\ due' = {}
        /\ result'.channel = "derived" => result'.partial
        /\ result'.partial => result'.paths = {}
    BY <1>2, <1>4, ReturnType
  <2>2. PTypeOK'
    BY <1>1, <1>2, <2>1, NoReceiptType DEF IInv, PTypeOK
  <2> QED BY <1>2, <2>1, <2>2 DEF IInv, ReceiptInv, DeliveredIsProven, SalvageIsProven
<1> QED BY <1>3, <1>4 DEF WriterAnswers, ByValueAnswers

(* The assembler's receipt is truthful of the disk it leaves. *)
LEMMA ExecutorRunsInv ==
  ASSUME IInv, ExecutorRuns
  PROVE  IInv'
<1>1. PICK outcome \in Assemblies(disk) : disk' = outcome.disk /\ printed' = outcome.receipt
  BY DEF ExecutorRuns
<1>2. stage' = "answer" /\ UNCHANGED <<run, attempt, due, first, notes, result>>
  BY DEF ExecutorRuns
<1>3. disk' \in Disk /\ printed' \in Receipt /\ Faithful(printed)'
  BY <1>1, <1>2, AssembliesSound DEF IInv, PTypeOK, Faithful
<1>4. PTypeOK'
  BY <1>2, <1>3 DEF IInv, PTypeOK
<1> QED BY <1>2, <1>3, <1>4 DEF IInv, ReceiptInv, NotesInv, DeliveredIsProven, SalvageIsProven

(* No answer, no proof. *)
LEMMA ExecutorThrowsInv ==
  ASSUME IInv, ExecutorThrows
  PROVE  IInv'
<1>1. UNCHANGED <<disk, run, attempt, first, notes>>
  BY DEF ExecutorThrows
<1>2. NotesInv' /\ notes' \subseteq Gap /\ notes \cup {"partial"} \in SUBSET Gap
  BY <1>1 DEF IInv, NotesInv, PTypeOK, Gap
<1>3. /\ result' \in Result /\ stage' = "returned" /\ printed' = NoReceipt /\ due' = {}
      /\ result'.partial = TRUE /\ result'.paths = {}
  BY <1>2, ReturnType DEF ExecutorThrows
<1>4. PTypeOK'
  BY <1>1, <1>2, <1>3, NoReceiptType DEF IInv, PTypeOK
<1> QED BY <1>2, <1>3, <1>4 DEF IInv, ReceiptInv, DeliveredIsProven, SalvageIsProven

(* An answer is trusted, earns the retry, or ends the persist. *)
LEMMA ExecutorAnswersInv ==
  ASSUME IInv, ExecutorAnswers
  PROVE  IInv'
<1>1. UNCHANGED <<disk, run>> /\ stage \in {"assemble", "answer"}
  BY DEF ExecutorAnswers
<1>2. Faithful(printed)
  <2>1. NoReceipt.echo # {run}
    BY DEF NoReceipt
  <2> QED BY <1>1, <2>1 DEF IInv, ReceiptInv, Faithful
<1>3. PICK receipt \in Relays(printed) : Deliver(receipt) \/ Retry(receipt) \/ GiveUp(receipt)
  BY DEF ExecutorAnswers
<1>4. receipt \in Receipt /\ Faithful(receipt)
  BY <1>2, <1>3, RelaysSound DEF IInv
<1>5. CASE Deliver(receipt)
  <2> DEFINE gaps == notes \cup ContentGaps(receipt)
  <2>1. Trusted(receipt, run) /\ Return("derived", FALSE, Artifact, gaps)
        /\ UNCHANGED <<attempt, first, notes>>
    BY <1>5 DEF Deliver
  <2>2. /\ \A f \in Artifact : disk[f] = Exact(run) \/ f \in ContentGaps(receipt)
        /\ disk["checkpoints"] = Exact(run)
        /\ "postReview" \in ContentGaps(receipt) => disk["findings"] # Exact(run)
        /\ ContentGaps(receipt) \subseteq Gap
    BY <1>4, <2>1, TrustedMeansProven
  <2>3. gaps \in SUBSET Gap /\ "postReview" \notin notes
    BY <2>2 DEF IInv, PTypeOK, NotesInv
  <2>4. /\ result' \in Result /\ stage' = "returned" /\ printed' = NoReceipt /\ due' = {}
        /\ result'.partial = FALSE /\ result'.gaps = gaps
    <3> HIDE DEF gaps
    <3>1. /\ stage' = "returned" /\ printed' = NoReceipt /\ due' = {}
          /\ result' = [channel |-> "derived", partial |-> FALSE, paths |-> Artifact, gaps |-> gaps]
      BY <2>1 DEF Return
    <3> QED BY <3>1, <2>3 DEF Result
  <2>5. PTypeOK'
    BY <1>1, <2>1, <2>4, NoReceiptType DEF IInv, PTypeOK
  <2>6. DeliveredIsProven' /\ SalvageIsProven'
    BY <1>1, <2>2, <2>3, <2>4 DEF DeliveredIsProven, SalvageIsProven, Exact
  <2> QED BY <2>1, <2>4, <2>5, <2>6 DEF IInv, ReceiptInv, NotesInv
<1>6. CASE Retry(receipt)
  <2>1. /\ attempt' = 2 /\ first' \subseteq Checked /\ stage' = "write" /\ due' = Primary
        /\ notes' = notes \cup {"retried"} /\ printed' = NoReceipt /\ result' = result
    BY <1>4, <1>6, ProvenMeansOnDisk DEF IInv, PTypeOK, Retry, Retryable, NextAttempt
  <2>2. NotesInv' /\ notes' \subseteq Gap /\ due' \subseteq File
    BY <2>1 DEF IInv, NotesInv, Gap, Primary, File
  <2>3. PTypeOK'
    BY <1>1, <2>1, <2>2, NoReceiptType DEF IInv, PTypeOK
  <2> QED BY <2>1, <2>2, <2>3 DEF IInv, ReceiptInv, DeliveredIsProven, SalvageIsProven
<1>7. CASE GiveUp(receipt)
  <2>1. Return("derived", TRUE, Salvage(receipt), notes \cup {"partial"})
        /\ UNCHANGED <<attempt, first, notes>>
    BY <1>7 DEF GiveUp
  <2>2. Salvage(receipt) \subseteq Checked /\ \A f \in Salvage(receipt) : disk[f] = Exact(run)
    BY <1>4, ProvenMeansOnDisk DEF Salvage
  <2>3. Salvage(receipt) \in SUBSET Artifact /\ notes \cup {"partial"} \in SUBSET Gap
    <3>1. Checked \subseteq Artifact /\ "partial" \in Gap
      BY DEF Checked, Artifact, File, Gap
    <3> QED BY <2>2, <3>1 DEF IInv, PTypeOK
  <2>4. /\ result' \in Result /\ stage' = "returned" /\ printed' = NoReceipt /\ due' = {}
        /\ result'.partial = TRUE /\ result'.paths = Salvage(receipt)
    BY <2>1, <2>3, ReturnType
  <2>5. PTypeOK'
    BY <1>1, <2>1, <2>4, NoReceiptType DEF IInv, PTypeOK
  <2>6. DeliveredIsProven' /\ SalvageIsProven'
    BY <1>1, <2>2, <2>4 DEF DeliveredIsProven, SalvageIsProven, Exact
  <2> QED BY <2>1, <2>4, <2>5, <2>6 DEF IInv, ReceiptInv, NotesInv
<1> QED BY <1>3, <1>5, <1>6, <1>7

(* Nothing changes when no variable does. *)
LEMMA StutterInv ==
  ASSUME IInv, UNCHANGED pvars
  PROVE  IInv'
BY DEF pvars, IInv, PTypeOK, ReceiptInv, Faithful, NotesInv, DeliveredIsProven, SalvageIsProven, Exact

(* The invariant holds throughout. *)
THEOREM Invariance == PSpec => []IInv
<1>1. PInit => IInv
  BY InitInv
<1>2. IInv /\ [PNext]_pvars => IInv'
  BY PersistInv, PersistThrowsInv, WriterWritesInv, WriterAnswersInv, ExecutorRunsInv,
     ExecutorThrowsInv, ExecutorAnswersInv, StutterInv DEF PNext, PersistStep
<1> QED BY <1>1, <1>2, PTL DEF PSpec
-----------------------------------------------------------------------------
(* Every reachable state is well-typed. *)
THEOREM PersistTypes == PSpec => []PTypeOK
<1>1. IInv => PTypeOK
  BY DEF IInv
<1> QED BY <1>1, Invariance, PTL

(* What the derived channel reports as delivered is on disk, byte for byte *)
(* or with its difference disclosed, however the writer and the executor   *)
(* behaved in either attempt and whatever earlier runs left.               *)
THEOREM DeliveryIsProven == PSpec => []DeliveredIsProven
<1>1. IInv => DeliveredIsProven
  BY DEF IInv
<1> QED BY <1>1, Invariance, PTL

(* A partial return names no file the last attempt did not prove.          *)
THEOREM SalvageIsSound == PSpec => []SalvageIsProven
<1>1. IInv => SalvageIsProven
  BY DEF IInv
<1> QED BY <1>1, Invariance, PTL

(* Both: what persist returns of the disk is what lies there.              *)
THEOREM ReturnIsProven == PSpec => []HandedOverIsProven
<1>1. DeliveredIsProven /\ SalvageIsProven => HandedOverIsProven
  BY DEF HandedOverIsProven
<1> QED BY <1>1, DeliveryIsProven, SalvageIsSound, PTL
-----------------------------------------------------------------------------
(* The host around the workflow (ArtifactHandover): while it writes, what  *)
(* it has landed is the payload it took, and nobody else writes.           *)
HandoverInv ==
  /\ disk = [f \in File |-> disk[f]]
  /\ host \in {"away", "writing", "done"}
  /\ host = "writing" =>
       todo \subseteq Primary /\ landed \subseteq Primary /\ \A f \in landed : disk[f] = Exact(source)
  /\ MaterializeTellsTruth

(* Whatever the assembler leaves, no file appears that has no name.        *)
LEMMA AssembliesShaped ==
  ASSUME NEW d, d = [f \in File |-> d[f]], NEW outcome \in Assemblies(d)
  PROVE  outcome.disk = [f \in File |-> outcome.disk[f]]
BY DEF Assemblies, Refused, Assembled

(* Out of one run's primaries, exactly as it returned them, the assembler  *)
(* derives that run's documents or leaves a file as it was.                *)
LEMMA OneRunAssembles ==
  ASSUME NEW d, NEW r, \A f \in Primary : d[f] = Exact(r),
         NEW outcome \in Assemblies(d)
  PROVE  \E done \in SUBSET Derived :
           /\ outcome.disk = [f \in File |-> IF f \in done THEN Exact(r) ELSE d[f]]
           /\ outcome.receipt.ok = (done = Derived)
<1>1. d["plan"] = Exact(r) /\ d["findings"] = Exact(r) /\ d["report"] = Exact(r)
  BY DEF Primary
<1>2. d["plan"].of = r /\ Executable(d)
  BY <1>1 DEF Exact, Executable
<1>3. \A f \in Checked : Verify(d, r)[f] = "match"
  BY <1>1 DEF Verify, Checked, Readable, Exact
<1>4. Projections(d["findings"], r) = {Exact(r)}
  BY <1>1 DEF Projections
<1>5. PICK done \in SUBSET Derived : outcome = Assembled(d, r, Exact(r), done)
  BY <1>1, <1>2, <1>3, <1>4 DEF Assemblies
<1>6. outcome.disk = [f \in File |-> IF f \in done THEN Exact(r) ELSE d[f]]
  BY <1>5 DEF Assembled
<1>7. outcome.receipt.ok = (done = Derived)
  BY <1>5 DEF Assembled
<1> QED BY <1>6, <1>7

(* A workflow step keeps the names of the files, whatever it writes.       *)
LEMMA WorkflowShaped ==
  ASSUME disk = [f \in File |-> disk[f]], PNext
  PROVE  disk' = [f \in File |-> disk'[f]]
<1>1. CASE UNCHANGED disk
  BY <1>1
<1>2. CASE \E f \in File : WriterWrites(f)
  BY <1>2 DEF WriterWrites
<1>3. CASE ExecutorRuns
  BY <1>3, AssembliesShaped DEF ExecutorRuns
<1>4. CASE \E input \in Inputs : Persist(input)
  BY <1>1, <1>4 DEF Persist
<1>5. CASE PersistThrows \/ WriterAnswers \/ ByValueAnswers \/ ExecutorThrows \/ ExecutorAnswers
  BY <1>1, <1>5 DEF PersistThrows, WriterAnswers, ByValueAnswers, ExecutorThrows, ExecutorAnswers
<1> QED BY <1>2, <1>3, <1>4, <1>5 DEF PNext, PersistStep

(* A step of the host's, or of the workflow between two of them.           *)
LEMMA HandoverStep ==
  ASSUME HandoverInv, HNext
  PROVE  HandoverInv' /\ NoMixedDerivation
<1>1. CASE Workflow
  <2>1. host' = "away" /\ host # "writing"
    BY <1>1 DEF Workflow, HostFree
  <2>2. disk' = [f \in File |-> disk'[f]]
    BY <1>1, WorkflowShaped DEF Workflow, HandoverInv
  <2> QED BY <2>1, <2>2 DEF HandoverInv, MaterializeTellsTruth, NoMixedDerivation
<1>2. CASE Truncate
  <2>1. host' = "away" /\ host # "writing" /\ disk' = [f \in File |-> disk'[f]]
    BY <1>2 DEF Truncate, HostFree
  <2> QED BY <2>1 DEF HandoverInv, MaterializeTellsTruth, NoMixedDerivation
<1>3. CASE Materialize
  <2>1. /\ host' = "writing" /\ host # "writing" /\ UNCHANGED disk
        /\ todo' = Primary /\ landed' = {}
    BY <1>3 DEF Materialize, HostFree, pvars
  <2> QED BY <2>1 DEF HandoverInv, MaterializeTellsTruth, NoMixedDerivation
<1>4. ASSUME NEW f \in Primary, WriteEntry(f)
      PROVE  HandoverInv' /\ NoMixedDerivation
  <2>1. host = "writing" /\ host' = "writing" /\ source' = source /\ todo' \subseteq todo
    BY <1>4 DEF WriteEntry
  <2>2. \/ disk' = [disk EXCEPT ![f] = Exact(source)] /\ landed' = landed \cup {f}
        \/ disk' = disk /\ landed' = landed
    BY <1>4 DEF WriteEntry
  <2>3. /\ disk' = [g \in File |-> disk'[g]]
        /\ f \in File /\ f \notin Derived
        /\ \A g \in File : disk'[g] = disk[g] \/ (g = f /\ disk'[g] = Exact(source))
    BY <2>2 DEF HandoverInv, Primary, File, Derived
  <2>4. /\ landed' \subseteq Primary
        /\ \A g \in landed' : disk'[g] = Exact(source)
    BY <2>1, <2>2, <2>3 DEF HandoverInv, Primary, File
  <2>5. NoMixedDerivation
    BY <2>3 DEF NoMixedDerivation, Derived, File
  <2> QED BY <2>1, <2>3, <2>4, <2>5 DEF HandoverInv, MaterializeTellsTruth, Exact
<1>5. CASE PartialWrite
  <2>1. /\ host = "writing" /\ host' = "done" /\ exit' = 1
        /\ UNCHANGED <<disk, source, landed>>
    BY <1>5 DEF PartialWrite, pvars
  <2> QED BY <2>1 DEF HandoverInv, MaterializeTellsTruth, NoMixedDerivation, Exact
<1>6. CASE Derive
  <2>1. /\ host = "writing" /\ host' = "done" /\ landed = Primary
        /\ UNCHANGED <<source, landed>>
    BY <1>6 DEF Derive, AllWritten
  <2>2. PICK outcome \in Assemblies(disk) :
          disk' = outcome.disk /\ exit' = IF Succeeds(outcome.receipt) THEN 0 ELSE 1
    BY <1>6 DEF Derive
  <2>3. \A f \in Primary : disk[f] = Exact(source)
    BY <2>1 DEF HandoverInv
  <2>4. PICK done \in SUBSET Derived :
          /\ disk' = [f \in File |-> IF f \in done THEN Exact(source) ELSE disk[f]]
          /\ outcome.receipt.ok = (done = Derived)
    BY <2>2, <2>3, OneRunAssembles
  <2>5. \A f \in File : disk'[f] \in {disk[f], Exact(source)}
    BY <2>4
  <2>6. exit' = 0 => done = Derived
    <3>1. Succeeds(outcome.receipt) => outcome.receipt.ok
      BY Zenon DEF Succeeds
    <3>2. exit' = 0 => Succeeds(outcome.receipt)
      BY <2>2
    <3> QED BY <3>1, <3>2, <2>4
  <2>7. \A f \in Primary : f \in File /\ disk'[f] = Exact(source)
    BY <2>3, <2>5 DEF Primary, File
  <2>8. exit' = 0 => \A f \in Artifact : disk'[f] = Exact(source)
    <3>1. Artifact \subseteq Primary \cup Derived /\ Derived \subseteq File
      BY DEF Artifact, Primary, Derived, File
    <3> QED BY <3>1, <2>4, <2>6, <2>7
  <2>9. MaterializeTellsTruth'
    BY <2>1, <2>7, <2>8 DEF MaterializeTellsTruth, Exact
  <2>10. NoMixedDerivation
    BY <2>5 DEF NoMixedDerivation, Derived, File
  <2> QED BY <2>1, <2>4, <2>9, <2>10 DEF HandoverInv
<1> QED BY <1>1, <1>2, <1>3, <1>4, <1>5, <1>6 DEF HNext, MaterializeStep

(* Exit 0 of the materializer means one run's artifacts, byte for byte, a  *)
(* receipt lists only what lies there, and no derived document mixes two   *)
(* runs, whatever was on disk and whichever writes and truncations failed. *)
THEOREM HandoverHolds == HSpec => HandoverTellsTruth
<1>1. HInit => HandoverInv
  BY DEF HInit, PInit, HandoverInv, MaterializeTellsTruth
<1>2. HandoverInv /\ [HNext]_hvars => HandoverInv'
  <2>1. HandoverInv /\ UNCHANGED hvars => HandoverInv'
    BY DEF hvars, pvars, hostVars, HandoverInv, MaterializeTellsTruth, Exact
  <2> QED BY <2>1, HandoverStep
<1>3. HandoverInv /\ [HNext]_hvars => [MaterializeTellsTruth' /\ NoMixedDerivation]_hvars
  BY <1>2, HandoverStep DEF HandoverInv
<1> QED BY <1>1, <1>2, <1>3, PTL DEF HSpec, HandoverTellsTruth
=============================================================================
