---------------------------- MODULE VerifySlices ----------------------------
(***************************************************************************)
(* The verify stage: verifyStage of workflows/src/verifyStage.js with the  *)
(* planner of capacity.js.  The findings are cut into slices that an       *)
(* executor can copy into a command line; each slice is dispatched, what   *)
(* comes back is trusted per finding by the proofs it carries, and what is *)
(* not trusted is dispatched once more, under a nonce of its own.  What is *)
(* still unresolved leaves the stage unverified.                           *)
(*                                                                         *)
(* A finding is its position in the input.  Checksums are taken to tell    *)
(* apart what they are taken of.                                           *)
(***************************************************************************)
EXTENDS Integers, Sequences, FiniteSets

CONSTANTS
  Inputs,    \* sequences of findings a stage may be given
  NoId,      \* an unusable finding id
  Envelope,  \* inline cost of a slice without findings
  Copy,      \* budgets.copy: the length an executor copies reliably
  Hard,      \* budgets.hard: the longest command line
  SliceSize, \* limits.verifySliceSize, 0 when it is not set
  Threshold  \* VERIFY_FANOUT_DISCLOSE_THRESHOLD

(* cost: its inline length.  safe: all its numbers have one spelling, so   *)
(* that a checksum of its record exists.                                   *)
ASSUME InputsAssumption ==
  \A list \in Inputs :
    /\ Len(list) \in Nat /\ DOMAIN list = 1..Len(list)
    /\ \A p \in DOMAIN list : list[p].cost \in Nat /\ list[p].safe \in BOOLEAN

ASSUME BudgetAssumption ==
  /\ {Envelope, Copy, Hard, SliceSize, Threshold} \subseteq Nat
  /\ Copy <= Hard

VARIABLES
  input,       \* the findings, in the order of the merge
  pc,          \* plan, first (dispatch of the next unit), retry, done
  next,        \* the planner's position in the input
  current,     \* the slice the planner is filling
  currentCost, \* currentFindingCost
  slices,      \* the slices it closed
  oversize,    \* findings no command line can carry
  fate,        \* pending, facts, bare (known without facts), unknown
  accepted,    \* of the slice at hand: trusted in its first dispatch
  matched,     \* those of them trusted by their own record proof
  fault,       \* of the slice at hand: the first dispatch's input fault
  gaps,        \* gaps disclosed: their kind and the findings they count
  verified,    \* the stage's flag: no slice degraded
  ledger,      \* inputProof: the columns each slice is counted in
  computed,    \* history: findings an executor really verified
  exact        \* history: slices an executor received whole and unchanged

plan == <<next, current, currentCost, slices, oversize>>
attempt == <<accepted, matched, fault>>
vars == <<input, pc, plan, fate, attempt, gaps, verified, ledger, computed, exact>>

Position == DOMAIN input
Pending == {p \in Position : fate[p] = "pending"}

Gap == [kind : {"fanout", "unverified", "retry"}, of : SUBSET Position]
Fault == {"none", "mismatch", "missing"}
Column == {"proven", "unprovable", "retried", "retriedMismatch", "retriedMissing",
           "mismatched", "missing"}

Init ==
  /\ input \in Inputs
  /\ pc = "plan"
  /\ next = 1
  /\ current = {} /\ currentCost = 0
  /\ slices = {} /\ oversize = {}
  /\ fate = [p \in Position |-> "pending"]
  /\ accepted = {} /\ matched = {} /\ fault = "none"
  /\ gaps = {} /\ verified = TRUE
  /\ ledger = <<>>
  /\ computed = {} /\ exact = {}
-----------------------------------------------------------------------------
(* planVerifySlices                                                        *)

(* The inline length of n findings of this total cost. *)
Cost(n, cost) == Envelope + cost + IF n = 0 THEN 0 ELSE n - 1

(* effectiveSliceSize *)
MaxFindings ==
  IF SliceSize # 0 THEN SliceSize ELSE IF input = <<>> THEN 1 ELSE Len(input)

(* flush *)
Closed == IF current = {} THEN slices ELSE slices \cup {current}

(* Mutant: the finding at hand is left out of the cost compared. *)
MutantOverfull(p) ==
  /\ current # {}
  /\ \/ Cardinality(current) >= MaxFindings
     \/ Cost(Cardinality(current), currentCost) > Copy

(* The finding at hand starts a slice of its own. *)
Overfull(p) ==
  /\ current # {}
  /\ \/ Cardinality(current) >= MaxFindings
     \/ Cost(Cardinality(current) + 1, currentCost + input[p].cost) > Copy

Fill(p) ==
  IF Overfull(p)
  THEN slices' = Closed /\ current' = {p} /\ currentCost' = input[p].cost
  ELSE /\ current' = current \cup {p} /\ currentCost' = currentCost + input[p].cost
       /\ UNCHANGED slices

(* Mutant: an oversize finding does not close the slice before it. *)
MutantPlanOversize(p) ==
  /\ Cost(1, input[p].cost) > Hard
  /\ oversize' = oversize \cup {p}
  /\ UNCHANGED <<slices, current, currentCost>>

PlanOversize(p) ==
  /\ Cost(1, input[p].cost) > Hard
  /\ oversize' = oversize \cup {p}
  /\ slices' = Closed /\ current' = {} /\ currentCost' = 0

(* Longer than an executor copies reliably: a slice of its own. *)
PlanLong(p) ==
  /\ Copy < Cost(1, input[p].cost) /\ Cost(1, input[p].cost) <= Hard
  /\ slices' = Closed \cup {{p}}
  /\ current' = {} /\ currentCost' = 0
  /\ UNCHANGED oversize

PlanShort(p) ==
  /\ Cost(1, input[p].cost) <= Copy
  /\ Fill(p)
  /\ UNCHANGED oversize

Plan ==
  /\ pc = "plan"
  /\ next \in Position
  /\ PlanOversize(next) \/ PlanLong(next) \/ PlanShort(next)
  /\ next' = next + 1
  /\ UNCHANGED <<input, pc, fate, attempt, gaps, verified, ledger, computed, exact>>

(* The last flush, and the gap that discloses a large fan-out. *)
Planned ==
  /\ pc = "plan"
  /\ next \notin Position
  /\ slices' = Closed
  /\ current' = {} /\ currentCost' = 0
  /\ gaps' = IF Cardinality(Closed) > Threshold
             THEN {[kind |-> "fanout", of |-> {}]} ELSE {}
  /\ pc' = "first"
  /\ UNCHANGED <<input, next, oversize, fate, attempt, verified, ledger, computed, exact>>
-----------------------------------------------------------------------------
(* What an executor answers, and what of it is trusted.                    *)

(***************************************************************************)
(* An executor copies the slice into the command line of verify_findings:  *)
(* a record may arrive changed, under another id, or not at all, and the   *)
(* token may spell the same document in another way.  It then copies the   *)
(* script's envelope back, and may lose a proof or alter a delta.  defect  *)
(* is what else is wrong with the answer: no usable envelope, the receipt  *)
(* of another dispatch, record proofs missing or malformed.                *)
(***************************************************************************)
Answer(S) ==
  [defect : {"none", "no envelope", "foreign", "no proofs", "bad proofs", "altered"},
   record : [S -> {"same", "changed", "renamed", "dropped"}],
   receipt : {"whole", "respelled", "no token proof", "no document proof"}]

Ids(a, S, how) == {p \in S : a.record[p] \in how}
Echoed(a, S) == Ids(a, S, {"same", "changed"})
Same(a, S) == Ids(a, S, {"same"})

(* The document the script decoded is the one that was dispatched. *)
Unchanged(a, S) == Same(a, S) = S

(* What the executor really verified of S, for this dispatch. *)
Computed(a, S) ==
  IF a.defect \in {"no envelope", "foreign", "altered"} THEN {} ELSE Same(a, S)

(* wholeSlice: a record without a checksum cannot be told apart by itself. *)
Whole(S) == \E p \in S : ~input[p].safe

(* The first of n_in, token and document proofs that fails. *)
Diagnostic(a, S) ==
  IF Ids(a, S, {"dropped"}) # {} THEN "mismatch"
  ELSE IF a.receipt = "no token proof" THEN "missing"
  ELSE IF a.receipt = "respelled" \/ ~Unchanged(a, S) THEN "mismatch"
  ELSE IF a.receipt = "no document proof" /\ ~Whole(S) THEN "missing" ELSE "none"

(* Mutant: the receipt of another dispatch is as good. *)
MutantVetoed(a, S) ==
  \/ a.defect \notin {"none", "foreign"}
  \/ Cardinality(Ids(a, S, {"renamed"})) > 1
  \/ Whole(S) /\ Diagnostic(a, S) # "none"

(* trustSlice turns the whole answer down. *)
Vetoed(a, S) ==
  \/ a.defect # "none"
  \/ Cardinality(Ids(a, S, {"renamed"})) > 1
  \/ Whole(S) /\ Diagnostic(a, S) # "none"

Accepted(a, S) ==
  IF Vetoed(a, S) THEN {} ELSE IF Whole(S) THEN Echoed(a, S) ELSE Same(a, S)

(* Mutant: the absent proof of a record matches an absent proof. *)
NullMatched(a, S) == {p \in Accepted(a, S) : a.record[p] = "same"}

(* matchedProofIds: facts are joined on a record proof of their own only. *)
Matched(a, S) == {p \in Accepted(a, S) : input[p].safe /\ a.record[p] = "same"}

Proven(a, S) == ~Vetoed(a, S) /\ Diagnostic(a, S) = "none" /\ Accepted(a, S) = S

(* inputFault *)
InputFault(a, S) ==
  IF a.defect = "no proofs" THEN "missing"
  ELSE IF a.defect = "bad proofs" THEN "mismatch"
  ELSE IF a.defect # "none" \/ Cardinality(Ids(a, S, {"renamed"})) > 1 THEN "none"
  ELSE IF Whole(S) \/ Accepted(a, S) = S THEN Diagnostic(a, S)
  ELSE IF Echoed(a, S) # S THEN "missing" ELSE "mismatch"
-----------------------------------------------------------------------------
(* verifyStage: the units in input order                                   *)

(* The next unit: the slice or oversize finding whose first position is    *)
(* the least still pending.                                                *)
Least(S) == \E p \in S \cap Pending : \A q \in Pending : p <= q

Slice(s) == s \in slices /\ Least(s)

(* dispatchableIds *)
Dispatchable(s) ==
  /\ \A p \in s : input[p].id # NoId
  /\ \A p, q \in s : input[p].id = input[q].id => p = q

(* Mutant: a slice that was dispatched twice is left out of the gaps. *)
MutantDegrades(S, again) ==
  /\ gaps' = IF S = {} \/ again # {} THEN gaps
             ELSE gaps \cup {[kind |-> "unverified", of |-> S]}
  /\ verified' = (verified /\ S = {})

(* Findings of a unit that stay unresolved are disclosed with their number *)
(* and leave the stage unverified; a repair by the second dispatch is      *)
(* disclosed too.                                                          *)
Degrades(S, again) ==
  /\ gaps' = IF S # {} THEN gaps \cup {[kind |-> "unverified", of |-> S]}
             ELSE IF again # {} THEN gaps \cup {[kind |-> "retry", of |-> again]}
             ELSE gaps
  /\ verified' = (verified /\ S = {})

Decide(S, known, facts) ==
  fate' = [p \in Position |-> IF p \notin S THEN fate[p]
                              ELSE IF p \in facts THEN "facts"
                              ELSE IF p \in known THEN "bare" ELSE "unknown"]

Oversize(p) ==
  /\ pc = "first"
  /\ p \in oversize /\ Least({p})
  /\ Decide({p}, {}, {})
  /\ Degrades({p}, {})
  /\ UNCHANGED <<input, pc, plan, attempt, ledger, computed, exact>>

(* Mutant: a slice that cannot be dispatched is passed over. *)
MutantUndispatchable(s) ==
  /\ pc = "first"
  /\ Slice(s) /\ ~Dispatchable(s)
  /\ UNCHANGED vars

(* No dispatch: a delta could not be told apart from its sibling's. *)
Undispatchable(s) ==
  /\ pc = "first"
  /\ Slice(s) /\ ~Dispatchable(s)
  /\ Decide(s, {}, {})
  /\ Degrades(s, {})
  /\ UNCHANGED <<input, pc, plan, attempt, ledger, computed, exact>>

FaultColumn(flaw, ofMismatch, ofMissing) ==
  IF flaw = "mismatch" THEN {ofMismatch} ELSE IF flaw = "missing" THEN {ofMissing} ELSE {}

(* Mutant: a retry that proved what it was given proves the slice. *)
MutantColumns(s, again, degraded, proven, flaw) ==
  (IF proven /\ ~Whole(s) THEN {"proven"} ELSE {}) \cup
  (IF degraded = {} /\ Whole(s) THEN {"unprovable"} ELSE {}) \cup
  (IF again # {} /\ degraded = {}
   THEN {"retried"} \cup FaultColumn(flaw, "retriedMismatch", "retriedMissing")
   ELSE FaultColumn(flaw, "mismatched", "missing"))

(* The columns of inputProof a slice is counted in.  again: what of it was *)
(* dispatched twice; degraded: what stayed unresolved; proven: whether the *)
(* last dispatch proved what it was given.                                 *)
Columns(s, again, degraded, proven, flaw) ==
  (IF proven /\ again \in {{}, s} /\ ~Whole(s) THEN {"proven"} ELSE {}) \cup
  (IF degraded = {} /\ Whole(s) THEN {"unprovable"} ELSE {}) \cup
  (IF again # {} /\ degraded = {}
   THEN {"retried"} \cup FaultColumn(flaw, "retriedMismatch", "retriedMissing")
   ELSE FaultColumn(flaw, "mismatched", "missing"))

(* The slice is through: what was accepted is joined, the rest degrades. *)
Close(s, known, facts, again, proven, flaw) ==
  /\ Decide(s, known, facts)
  /\ Degrades(s \ known, again)
  /\ ledger' = [t \in DOMAIN ledger \cup {s} |->
                  IF t = s THEN Columns(s, again, s \ known, proven, flaw) ELSE ledger[t]]
  /\ accepted' = {} /\ matched' = {} /\ fault' = "none"
  /\ pc' = "first"

Heard(a, S) ==
  /\ computed' = computed \cup Computed(a, S)
  /\ exact' = IF a.defect # "foreign" /\ a.defect # "no envelope" /\ Unchanged(a, S)
              THEN exact \cup {S} ELSE exact
  /\ UNCHANGED <<input, plan>>

FirstDispatch(s) ==
  /\ pc = "first"
  /\ Slice(s) /\ Dispatchable(s)
  /\ \E a \in Answer(s) :
       /\ Heard(a, s)
       /\ IF Accepted(a, s) = s
          THEN Close(s, s, Matched(a, s), {}, Proven(a, s), InputFault(a, s))
          ELSE /\ pc' = "retry"
               /\ accepted' = Accepted(a, s)
               /\ matched' = Matched(a, s)
               /\ fault' = InputFault(a, s)
               /\ UNCHANGED <<fate, gaps, verified, ledger>>

(* Only the unresolved findings, under the nonce of a retry. *)
RetryDispatch(s) ==
  /\ pc = "retry"
  /\ Slice(s)
  /\ LET again == s \ accepted
     IN \E a \in Answer(again) :
          /\ Heard(a, again)
          /\ Close(s, accepted \cup Accepted(a, again), matched \cup Matched(a, again),
                   again, Proven(a, again),
                   IF InputFault(a, again) # "none" THEN InputFault(a, again) ELSE fault)

Finish ==
  /\ pc = "first"
  /\ Pending = {}
  /\ pc' = "done"
  /\ UNCHANGED <<input, plan, fate, attempt, gaps, verified, ledger, computed, exact>>

Dispatch(s) == Undispatchable(s) \/ FirstDispatch(s) \/ RetryDispatch(s)

Next ==
  \/ Plan \/ Planned
  \/ \E p \in oversize : Oversize(p)
  \/ \E s \in slices : Dispatch(s)
  \/ Finish

(* Every dispatch is awaited, and an agent call ends. *)
Spec == Init /\ [][Next]_vars /\ WF_vars(Next)
-----------------------------------------------------------------------------
(* Properties *)

(* Every variable keeps the shape of its counterpart in verifyStage. *)
TypeOK ==
  /\ input \in Inputs
  /\ pc \in {"plan", "first", "retry", "done"}
  /\ next \in 1..(Len(input) + 1)
  /\ current \subseteq Position /\ currentCost \in Nat
  /\ slices \subseteq SUBSET Position /\ oversize \subseteq Position
  /\ fate \in [Position -> {"pending", "facts", "bare", "unknown"}]
  /\ accepted \subseteq Position /\ matched \subseteq accepted
  /\ fault \in Fault
  /\ gaps \subseteq Gap /\ verified \in BOOLEAN
  /\ DOMAIN ledger \subseteq slices /\ \A s \in DOMAIN ledger : ledger[s] \subseteq Column
  /\ computed \subseteq Position /\ exact \subseteq SUBSET Position

(* What the findings of s cost together. *)
TotalCost(list, s) ==
  LET sum[p \in 0..Len(list)] ==
        IF p = 0 THEN 0 ELSE sum[p - 1] + IF p \in s THEN list[p].cost ELSE 0
  IN sum[Len(list)]

(* What the dispatch of a slice asserts of the planner, which computed the *)
(* same lengths another way: no multi-finding slice is over the copy       *)
(* target, none is over the hard cap, and none is over the size limit.     *)
(* Between them the slices and the oversize findings are the input.        *)
PlannerInvariant ==
  /\ \A s \in slices :
       /\ Cost(Cardinality(s), TotalCost(input, s)) <= (IF Cardinality(s) > 1 THEN Copy ELSE Hard)
       /\ Cardinality(s) \in 1..MaxFindings
       /\ \A t \in slices : s # t => s \cap t = {}
       /\ s \cap oversize = {}
  /\ pc # "plan" => (UNION slices) \cup oversize = Position

(* The stage keeps its promise: each finding is decided once, in the order *)
(* of the input, and is known only when an executor verified that record   *)
(* for that dispatch, whatever it copied badly on the way there or back.   *)
Contract == INSTANCE VerifyContract WITH fate <- fate, computed <- computed
Promise == Contract!Spec

(* The path, blame and reference facts of a finding come from a record     *)
(* that carries a proof of its own.                                        *)
FactsNeedProof == \A p \in Position : fate[p] = "facts" => p \in computed /\ input[p].safe

(* The counters of inputProof: a slice is counted as proven only if one    *)
(* executor received all of it unchanged and nothing of it is unknown, and *)
(* no slice that was verified is missing from all the columns.             *)
LedgerTells ==
  \A s \in DOMAIN ledger :
    LET unknown == {p \in s : fate[p] = "unknown"}
    IN /\ "proven" \in ledger[s] => s \in exact /\ unknown = {}
       /\ unknown = {} => ledger[s] # {}
       /\ unknown # {} => ledger[s] \cap {"proven", "unprovable", "retried"} = {}

(* Neither a fact nor a counter speaks for a proof that there is not.      *)
ProofIsEarned == FactsNeedProof /\ LedgerTells

(* A stage that ends says so of each finding it could not verify.          *)
Disclosure ==
  pc = "done" =>
    LET unknown == {p \in Position : fate[p] = "unknown"}
    IN /\ verified <=> unknown = {}
       /\ unknown = UNION {g.of : g \in {h \in gaps : h.kind = "unverified"}}

(* Every stage ends with a decision on every finding. *)
EveryFindingDecided == <>(pc = "done" /\ Pending = {})
=============================================================================
