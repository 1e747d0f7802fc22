------------------------ MODULE VerifySlicesProofs ------------------------
(***************************************************************************)
(* Proofs about the verify stage.                                          *)
(*                                                                         *)
(* VerifySlices, for every input, budget and slice size.  The inductive    *)
(* invariant adds to the properties what the planner owes the dispatches:  *)
(* its slices are stretches of the input that no two share, so that the    *)
(* slice with the least pending finding is pending as a whole and          *)
(* everything else pending comes after it.                                 *)
(*                                                                         *)
(* DiffWalk, the diff that the stage and its executor read: for every      *)
(* change, reader and cut.  The counters of the walk are those of the      *)
(* place it has reached in the change (Fits), the paths of its block are   *)
(* those of the section (BlockFits), and so what was collected is that of  *)
(* the lines read (FactsFit, RecordFits).                                  *)
(***************************************************************************)
EXTENDS VerifySlices, DiffWalk, FiniteSetTheorems, NaturalsInduction, SequenceTheorems,
        WellFoundedInduction, TLAPS

(* The planner has placed the findings before next, each once; the slice   *)
(* it is filling reaches up to next.                                       *)
Planning ==
  /\ (UNION slices) \cup oversize \cup current = 1..(next - 1)
  /\ \A s \in slices : s \cap oversize = {} /\ s \cap current = {}
  /\ oversize \cap current = {}
  /\ \A p \in current, q \in Position : p <= q /\ q < next => q \in current
  /\ current # {} => pc = "plan"
  /\ pc # "plan" => next \notin Position

(* Slices are stretches of the input, and disjoint. *)
Stretches ==
  /\ \A s \in slices : s # {}
  /\ \A s, t \in slices : s # t => s \cap t = {}
  /\ \A s \in slices : \A p, r \in s, q \in Position : p <= q /\ q <= r => q \in s

(* A slice is decided as a whole. *)
Wholesale ==
  /\ \A s \in slices : s \subseteq Pending \/ s \cap Pending = {}
  /\ pc = "plan" => Pending = Position /\ gaps = {}
  /\ \A s \in DOMAIN ledger : s \cap Pending = {}

(* Between its two dispatches the slice at hand is accepted in part. *)
AtHand ==
  /\ pc # "retry" => accepted = {}
  /\ pc = "retry" => \A s \in slices : Least(s) => accepted \subseteq s /\ accepted # s
  /\ accepted \subseteq computed
  /\ \A p \in matched : input[p].safe

Known ==
  /\ \A p \in Position : fate[p] \in {"facts", "bare"} => p \in computed
  /\ \A p \in Position : fate[p] = "facts" => input[p].safe

Unknown == {p \in Position : fate[p] = "unknown"}

Told ==
  /\ verified <=> Unknown = {}
  /\ Unknown = UNION {g.of : g \in {h \in gaps : h.kind = "unverified"}}

IInv == TypeOK /\ Planning /\ Stretches /\ Wholesale /\ AtHand /\ Known /\ LedgerTells /\ Told
-----------------------------------------------------------------------------
(* Positions are the naturals up to the length of the input, and costs are *)
(* naturals.                                                               *)
LEMMA Positions ==
  ASSUME input \in Inputs
  PROVE /\ Len(input) \in Nat /\ Position = 1..Len(input) /\ Position \subseteq Nat
        /\ \A p \in Position : input[p].cost \in Nat /\ input[p].safe \in BOOLEAN
BY InputsAssumption DEF Position

(* The slice with the least pending finding is pending as a whole, and     *)
(* everything else pending comes after it.                                 *)
LEMMA LeastSlice ==
  ASSUME IInv, NEW s \in slices, Least(s)
  PROVE /\ s \subseteq Pending
        /\ \A p \in s, q \in Pending \ s : p < q
        /\ s # {} /\ s \subseteq Position
<1>1. input \in Inputs /\ s \subseteq Position
  BY DEF IInv, TypeOK
<1>2. PICK m \in s \cap Pending : \A q \in Pending : m <= q
  BY DEF Least
<1>3. s \subseteq Pending
  BY <1>2 DEF IInv, Wholesale
<1>4. ASSUME NEW p \in s, NEW q \in Pending \ s PROVE p < q
  <2>1. p \in Nat /\ q \in Nat /\ m \in Nat /\ q \in Position
    BY <1>1, <1>2, Positions DEF Pending
  <2>2. m <= q
    BY <1>2
  <2>3. ~(q <= p)
    BY <2>1, <2>2 DEF IInv, Stretches
  <2> QED BY <2>1, <2>3
<1> QED BY <1>1, <1>2, <1>3, <1>4

(* Only one slice is at hand. *)
LEMMA OneAtHand ==
  ASSUME IInv, NEW s \in slices, NEW t \in slices, Least(s), Least(t)
  PROVE s = t
<1>1. PICK m \in s \cap Pending : \A q \in Pending : m <= q
  BY DEF Least
<1>2. PICK n \in t \cap Pending : \A q \in Pending : n <= q
  BY DEF Least
<1>3. m \in Nat /\ n \in Nat
  BY <1>1, <1>2, Positions DEF IInv, TypeOK, Pending
<1>4. m = n
  BY <1>1, <1>2, <1>3
<1> QED BY <1>1, <1>2, <1>4 DEF IInv, Stretches
-----------------------------------------------------------------------------
(* What is trusted of an answer was verified from the findings' own        *)
(* records: the record proofs see to it, or the token of the whole slice.  *)
LEMMA TrustIsEarned ==
  ASSUME NEW S, NEW a \in Answer(S)
  PROVE /\ Accepted(a, S) \subseteq S
        /\ Accepted(a, S) \subseteq Computed(a, S)
        /\ Matched(a, S) \subseteq Accepted(a, S)
        /\ \A p \in Matched(a, S) : input[p].safe
<1>1. Computed(a, S) \subseteq S
  BY DEF Computed, Same, Ids
<1>2. CASE Vetoed(a, S)
  BY <1>1, <1>2 DEF Accepted, Matched
<1>3. CASE ~Vetoed(a, S) /\ ~Whole(S)
  BY <1>3 DEF Accepted, Matched, Computed, Same, Ids, Vetoed
<1>4. CASE ~Vetoed(a, S) /\ Whole(S)
  <2>1. a.defect = "none" /\ Diagnostic(a, S) = "none"
    BY <1>4 DEF Vetoed
  <2>2. Same(a, S) = S
    BY <2>1 DEF Diagnostic, Unchanged
  <2>3. Accepted(a, S) \subseteq S
    BY <1>4 DEF Accepted, Echoed, Ids
  <2>4. Computed(a, S) = S
    BY <2>1, <2>2 DEF Computed
  <2> QED BY <2>3, <2>4 DEF Matched
<1> QED BY <1>2, <1>3, <1>4

(* A dispatch that proved what it was given delivered it unchanged, and    *)
(* all of it was accepted.                                                 *)
LEMMA ProofIsExact ==
  ASSUME NEW S, NEW a \in Answer(S), Proven(a, S)
  PROVE Accepted(a, S) = S /\ Unchanged(a, S) /\ a.defect = "none"
<1>1. ~Vetoed(a, S) /\ Diagnostic(a, S) = "none" /\ Accepted(a, S) = S
  BY DEF Proven
<1>2. a.defect = "none"
  BY <1>1 DEF Vetoed
<1>3. Unchanged(a, S)
  BY <1>1 DEF Diagnostic
<1> QED BY <1>1, <1>2, <1>3

(* An answer accepted as a whole but not proven has an input fault. *)
LEMMA FaultIsFound ==
  ASSUME NEW S, NEW a \in Answer(S), S # {}, Accepted(a, S) = S, ~Proven(a, S)
  PROVE InputFault(a, S) \in {"mismatch", "missing"}
<1>1. ~Vetoed(a, S)
  BY DEF Accepted
<1>2. a.defect = "none" /\ ~(Cardinality(Ids(a, S, {"renamed"})) > 1)
  BY <1>1 DEF Vetoed
<1>3. Diagnostic(a, S) # "none"
  BY <1>1 DEF Proven
<1>4. Diagnostic(a, S) \in {"mismatch", "missing"}
  BY <1>3 DEF Diagnostic
<1>5. InputFault(a, S) = Diagnostic(a, S)
  BY <1>2 DEF InputFault
<1> QED BY <1>4, <1>5

LEMMA FaultType ==
  ASSUME NEW S, NEW a \in Answer(S)
  PROVE InputFault(a, S) \in Fault
<1>1. Diagnostic(a, S) \in Fault
  BY DEF Diagnostic, Fault
<1>2. a.defect \in {"none", "no envelope", "foreign", "no proofs", "bad proofs", "altered"}
  BY DEF Answer
<1> QED BY <1>1, <1>2 DEF InputFault, Fault
-----------------------------------------------------------------------------
(* Nothing is decided, told or counted at the start. *)
LEMMA InitInv == Init => IInv
<1> SUFFICES ASSUME Init PROVE IInv
  OBVIOUS
<1>1. input \in Inputs /\ Position = 1..Len(input) /\ Len(input) \in Nat
  BY Positions DEF Init
<1>2. Unknown = {} /\ Pending = Position
  BY DEF Init, Unknown, Pending
<1>3. TypeOK
  BY <1>1 DEF Init, TypeOK, Fault
<1>4. Planning
  BY DEF Init, Planning
<1>5. Stretches /\ Wholesale /\ AtHand /\ Known
  BY <1>2 DEF Init, Stretches, Wholesale, AtHand, Known
<1>6. LedgerTells /\ Told
  BY <1>2 DEF Init, LedgerTells, Told
<1> QED BY <1>3, <1>4, <1>5, <1>6 DEF IInv

(* A step of the planner that closes the slice before the finding at hand  *)
(* and puts the finding in a slice of its own, in the one it fills or among *)
(* the oversize keeps the slices apart.                                    *)
LEMMA PlanInv == IInv /\ Plan => IInv'
<1> SUFFICES ASSUME IInv, Plan PROVE IInv'
  OBVIOUS
<1>1. /\ input \in Inputs /\ input' = input /\ Position' = Position
      /\ Len(input) \in Nat /\ Position = 1..Len(input)
      /\ next \in Position /\ input[next].cost \in Nat /\ currentCost \in Nat
      /\ pc = "plan" /\ pc' = "plan" /\ next' = next + 1
  BY Positions DEF IInv, TypeOK, Plan, Position
<1>2. /\ fate' = fate /\ accepted' = accepted /\ matched' = matched /\ fault' = fault
      /\ gaps' = gaps /\ verified' = verified /\ ledger' = ledger
      /\ computed' = computed /\ exact' = exact
  BY DEF Plan, attempt
<1>3. Pending' = Pending /\ Unknown' = Unknown
  BY <1>1, <1>2 DEF Pending, Unknown
<1>4. /\ slices \subseteq slices'
      /\ \A s \in slices' : s \in slices \/ (s = current /\ current # {}) \/ s = {next}
      /\ \/ /\ current' = {} /\ (current # {} => current \in slices')
            /\ \/ oversize' = oversize \cup {next} /\ slices' = Closed
               \/ oversize' = oversize /\ slices' = Closed \cup {{next}}
         \/ /\ oversize' = oversize
            /\ \/ current' = {next} /\ slices' = Closed
               \/ current' = current \cup {next} /\ slices' = slices
      /\ currentCost' \in Nat
  <2>1. CASE PlanOversize(next)
    BY <2>1 DEF PlanOversize, Closed
  <2>2. CASE PlanLong(next)
    BY <2>2 DEF PlanLong, Closed
  <2>3. CASE PlanShort(next)
    BY <2>3, <1>1 DEF PlanShort, Fill, Closed
  <2> QED BY <2>1, <2>2, <2>3 DEF Plan
<1>5. /\ (UNION slices) \cup oversize \cup current = 1..(next - 1)
      /\ 1..(next' - 1) = 1..(next - 1) \cup {next} /\ next \notin 1..(next - 1)
  BY <1>1 DEF IInv, Planning
<1>6. /\ next \notin oversize /\ next \notin current
      /\ \A s \in slices : next \notin s /\ s \cap current = {} /\ s \cap oversize = {}
      /\ oversize \cap current = {}
  BY <1>5 DEF IInv, Planning
<1>7. TypeOK'
  <2>1. slices' \subseteq SUBSET Position /\ current' \subseteq Position
        /\ oversize' \subseteq Position
    BY <1>1, <1>4 DEF IInv, TypeOK
  <2>2. next' \in 1..(Len(input') + 1)
    BY <1>1
  <2>3. gaps \subseteq Gap' /\ gaps \subseteq Gap
    BY <1>1 DEF Gap, IInv, TypeOK
  <2> QED BY <1>1, <1>2, <1>4, <2>1, <2>2, <2>3 DEF IInv, TypeOK
<1>8. Planning'
  <2>1. (UNION slices') \cup oversize' \cup current' = 1..(next' - 1)
    <3>1. UNION Closed = (UNION slices) \cup current
      BY DEF Closed
    <3>2. (UNION slices') \cup oversize' \cup current'
            = (UNION slices) \cup oversize \cup current \cup {next}
      <4>1. CASE current' = {} /\ oversize' = oversize \cup {next} /\ slices' = Closed
        BY <3>1, <4>1
      <4>2. CASE current' = {} /\ oversize' = oversize /\ slices' = Closed \cup {{next}}
        <5>1. UNION slices' = (UNION Closed) \cup {next}
          BY <4>2
        <5> QED BY <3>1, <4>2, <5>1
      <4>3. CASE oversize' = oversize /\ current' = {next} /\ slices' = Closed
        BY <3>1, <4>3
      <4>4. CASE oversize' = oversize /\ current' = current \cup {next} /\ slices' = slices
        BY <4>4
      <4> QED BY <1>4, <4>1, <4>2, <4>3, <4>4
    <3> QED BY <1>5, <3>2
  <2>2. \A s \in slices' : s \cap oversize' = {} /\ s \cap current' = {}
    BY <1>4, <1>6 DEF Closed
  <2>3. oversize' \cap current' = {}
    BY <1>4, <1>6
  <2>4. ASSUME NEW p \in current', NEW q \in Position', p <= q, q < next'
        PROVE q \in current'
    <3>1. p \in Nat /\ q \in Nat /\ next \in Nat /\ (p \in current \/ p = next)
      <4>1. p \in current \/ p = next
        BY <1>4, <2>4
      <4>2. current \subseteq Position
        BY DEF IInv, TypeOK
      <4>3. Position \subseteq Nat /\ next \in Position
        BY <1>1
      <4>4. q \in Position
        BY <1>1
      <4> QED BY <4>1, <4>2, <4>3, <4>4
    <3>2. q = next \/ q < next
      BY <1>1, <2>4, <3>1
    <3>3. CASE p = next
      BY <1>1, <1>4, <1>6, <2>4, <3>1, <3>2, <3>3
    <3>4. CASE p \in current
      BY <1>1, <1>4, <1>6, <2>4, <3>1, <3>2, <3>4 DEF IInv, Planning
    <3> QED BY <3>1, <3>3, <3>4
  <2> QED BY <1>1, <2>1, <2>2, <2>3, <2>4 DEF Planning
<1>9. Stretches'
  <2>1. \A s \in slices' : s # {}
    BY <1>4 DEF IInv, Stretches
  <2>2. \A s, t \in slices' : s # t => s \cap t = {}
    <3> SUFFICES ASSUME NEW s \in slices', NEW t \in slices', s # t
                 PROVE s \cap t = {}
      OBVIOUS
    <3>1. /\ s \in slices \/ s = current \/ s = {next}
          /\ t \in slices \/ t = current \/ t = {next}
      BY <1>4
    <3>2. \A x, y \in slices : x # y => x \cap y = {}
      BY DEF IInv, Stretches
    <3> QED BY <1>6, <3>1, <3>2
  <2>3. ASSUME NEW s \in slices', NEW p \in s, NEW r \in s, NEW q \in Position',
               p <= q, q <= r
        PROVE q \in s
    <3>1. CASE s \in slices
      BY <3>1, <2>3, <1>1 DEF IInv, Stretches
    <3>2. CASE s = current
      <4>1. r < next
        BY <3>2, <2>3, <1>1, <1>5
      <4> QED BY <3>2, <4>1, <2>3, <1>1, <1>5 DEF IInv, Planning
    <3>3. CASE s = {next}
      BY <3>3, <2>3, <1>1
    <3> QED BY <1>4, <3>1, <3>2, <3>3
  <2> QED BY <2>1, <2>2, <2>3 DEF Stretches
<1>10. Wholesale'
  <2>1. slices' \subseteq SUBSET Position /\ Pending = Position
    BY <1>1, <1>7 DEF IInv, TypeOK, Wholesale
  <2> QED BY <1>1, <1>2, <1>3, <2>1 DEF IInv, Wholesale
<1>11. AtHand' /\ Known'
  BY <1>1, <1>2 DEF IInv, AtHand, Known
<1>12. LedgerTells' /\ Told'
  BY <1>1, <1>2, <1>3 DEF IInv, LedgerTells, Told
<1> QED BY <1>7, <1>8, <1>9, <1>10, <1>11, <1>12 DEF IInv

(* The last flush leaves the planner nothing to fill. *)
LEMMA PlannedInv == IInv /\ Planned => IInv'
<1> SUFFICES ASSUME IInv, Planned PROVE IInv'
  OBVIOUS
<1>1. /\ input \in Inputs /\ input' = input /\ Position' = Position
      /\ Len(input) \in Nat /\ Position = 1..Len(input)
      /\ next \in 1..(Len(input) + 1) /\ next \notin Position
      /\ next' = next /\ oversize' = oversize /\ pc = "plan" /\ pc' = "first"
  BY Positions DEF IInv, TypeOK, Planned, Position
<1>2. /\ fate' = fate /\ accepted' = accepted /\ matched' = matched /\ fault' = fault
      /\ verified' = verified /\ ledger' = ledger
      /\ computed' = computed /\ exact' = exact
      /\ slices' = Closed /\ current' = {} /\ currentCost' = 0
  BY DEF Planned, attempt
<1>3. Pending' = Pending /\ Unknown' = Unknown
  BY <1>1, <1>2 DEF Pending, Unknown
<1>4. /\ slices \subseteq slices'
      /\ \A s \in slices' : s \in slices \/ (s = current /\ current # {})
      /\ UNION slices' = (UNION slices) \cup current
  BY <1>2 DEF Closed
<1>5. /\ (UNION slices) \cup oversize \cup current = 1..(next - 1)
      /\ \A s \in slices : s \cap current = {} /\ s \cap oversize = {}
      /\ oversize \cap current = {}
  BY DEF IInv, Planning
<1>6. gaps = {} /\ gaps' \subseteq {[kind |-> "fanout", of |-> {}]}
  BY <1>1 DEF Planned, IInv, Wholesale
<1>7. TypeOK'
  <2>1. slices' \subseteq SUBSET Position
    BY <1>4 DEF IInv, TypeOK
  <2>2. gaps' \subseteq Gap'
    BY <1>6 DEF Gap
  <2> QED BY <1>1, <1>2, <1>4, <2>1, <2>2 DEF IInv, TypeOK
<1>8. Planning'
  <2>1. (UNION slices') \cup oversize' \cup current' = 1..(next' - 1)
    BY <1>1, <1>2, <1>4, <1>5
  <2>2. \A s \in slices' : s \cap oversize' = {} /\ s \cap current' = {}
    BY <1>1, <1>2, <1>4, <1>5
  <2> QED BY <1>1, <1>2, <2>1, <2>2 DEF Planning
<1>9. Stretches'
  <2>1. \A s \in slices' : s # {}
    BY <1>4 DEF IInv, Stretches
  <2>2. \A s, t \in slices' : s # t => s \cap t = {}
    BY <1>4, <1>5 DEF IInv, Stretches
  <2>3. ASSUME NEW s \in slices', NEW p \in s, NEW r \in s, NEW q \in Position',
               p <= q, q <= r
        PROVE q \in s
    <3>1. CASE s \in slices
      BY <3>1, <2>3, <1>1 DEF IInv, Stretches
    <3>2. CASE s = current
      <4>1. r < next
        BY <3>2, <2>3, <1>1, <1>5
      <4> QED BY <3>2, <4>1, <2>3, <1>1, <1>5 DEF IInv, Planning
    <3> QED BY <1>4, <3>1, <3>2
  <2> QED BY <2>1, <2>2, <2>3 DEF Stretches
<1>10. Wholesale'
  <2>1. slices' \subseteq SUBSET Position /\ Pending = Position
    BY <1>1, <1>7 DEF IInv, TypeOK, Wholesale
  <2> QED BY <1>1, <1>2, <1>3, <2>1 DEF IInv, Wholesale
<1>11. AtHand' /\ Known'
  BY <1>1, <1>2 DEF IInv, AtHand, Known
<1>12. LedgerTells'
  BY <1>1, <1>2, <1>3 DEF IInv, LedgerTells
<1>13. Told'
  <2>1. {g.of : g \in {h \in gaps' : h.kind = "unverified"}} = {}
    BY <1>6
  <2>2. Unknown = {}
    BY <1>6 DEF IInv, Told
  <2> QED BY <1>2, <1>3, <2>1, <2>2 DEF IInv, Told
<1> QED BY <1>7, <1>8, <1>9, <1>10, <1>11, <1>12, <1>13 DEF IInv
-----------------------------------------------------------------------------
(* The findings a set of gaps counts grow by those of the gap added. *)
LEMMA OneMoreGap ==
  ASSUME NEW G, NEW gap
  PROVE {g.of : g \in G \cup {gap}} = {g.of : g \in G} \cup {gap.of}
OBVIOUS

(* What deciding the unit S means for every dispatch that ends with it.    *)
Deciding(S, known, facts, again) ==
  /\ S \subseteq Pending
  /\ \A p \in S, q \in Pending \ S : p < q
  /\ known \subseteq S \cap computed' /\ facts \subseteq known
  /\ \A p \in facts : input[p].safe
  /\ again \subseteq Position
  /\ Decide(S, known, facts)
  /\ Degrades(S \ known, again)
  /\ computed \subseteq computed' /\ computed' \subseteq Position
  /\ input' = input /\ UNCHANGED plan

(* The unit leaves the pending findings, what is known of it was computed, *)
(* and what is unknown is disclosed.                                       *)
LEMMA Decided ==
  ASSUME IInv, NEW S, NEW known, NEW facts, NEW again, Deciding(S, known, facts, again)
  PROVE /\ fate' \in [Position -> {"pending", "facts", "bare", "unknown"}]
        /\ Pending' = Pending \ S
        /\ Unknown' = Unknown \cup (S \ known)
        /\ gaps' \subseteq Gap /\ verified' \in BOOLEAN
        /\ Known' /\ Told'
        /\ Contract!Decide(S)
<1>1. /\ input' = input /\ Position' = Position /\ S \subseteq Position
      /\ fate \in [Position -> {"pending", "facts", "bare", "unknown"}]
      /\ gaps \subseteq Gap /\ verified \in BOOLEAN
      /\ known \subseteq S /\ facts \subseteq known
  BY DEF Deciding, IInv, TypeOK, Pending, Position
<1>2. fate' = [p \in Position |-> IF p \notin S THEN fate[p]
                              ELSE IF p \in facts THEN "facts"
                              ELSE IF p \in known THEN "bare" ELSE "unknown"]
  BY DEF Deciding, Decide
<1>3. fate' \in [Position -> {"pending", "facts", "bare", "unknown"}]
  BY <1>1, <1>2
<1>4. Pending' = Pending \ S
  BY <1>1, <1>2 DEF Pending
<1>5. \A p \in S : fate[p] = "pending"
  BY DEF Deciding, Pending
<1>6. Unknown' = Unknown \cup (S \ known)
  BY <1>1, <1>2, <1>5 DEF Unknown
<1>7. Known'
  BY <1>1, <1>2 DEF IInv, Known, Deciding
<1>8. /\ gaps' = IF S \ known # {} THEN gaps \cup {[kind |-> "unverified", of |-> S \ known]}
                 ELSE IF again # {} THEN gaps \cup {[kind |-> "retry", of |-> again]}
                 ELSE gaps
      /\ verified' = (verified /\ S \ known = {})
      /\ again \subseteq Position
  BY DEF Deciding, Degrades
<1>9. gaps' \subseteq Gap /\ verified' \in BOOLEAN
  BY <1>1, <1>8 DEF Gap
<1>10. Told'
  <2>1. verified <=> Unknown = {}
    BY DEF IInv, Told
  <2>2. Unknown = UNION {g.of : g \in {h \in gaps : h.kind = "unverified"}}
    BY DEF IInv, Told
  <2>3. verified' <=> Unknown' = {}
    BY <1>1, <1>6, <1>8, <2>1
  <2>4. Unknown' = UNION {g.of : g \in {h \in gaps' : h.kind = "unverified"}}
    <3>1. CASE S \ known # {}
      <4> DEFINE old == {h \in gaps : h.kind = "unverified"}
                 new == {h \in gaps' : h.kind = "unverified"}
                 gap == [kind |-> "unverified", of |-> S \ known]
      <4>1. new = old \cup {gap}
        BY <1>8, <3>1
      <4>2. gap.of = S \ known
        OBVIOUS
      <4> HIDE DEF old, new, gap
      <4>3. {g.of : g \in new} = {g.of : g \in old} \cup {S \ known}
        BY <4>1, <4>2, OneMoreGap
      <4>4. UNION {g.of : g \in new} = (UNION {g.of : g \in old}) \cup (S \ known)
        BY <4>3
      <4> QED BY <4>4, <2>2, <1>6 DEF old, new
    <3>2. CASE S \ known = {}
      <4>1. {h \in gaps' : h.kind = "unverified"} = {h \in gaps : h.kind = "unverified"}
        BY <1>8, <3>2
      <4> QED BY <4>1, <2>2, <1>6, <3>2
    <3> QED BY <3>1, <3>2
  <2> QED BY <2>3, <2>4 DEF Told
<1>11. Contract!Decide(S)
  <2>1. DOMAIN fate = Position
    BY <1>1
  <2>2. Contract!Pending = Pending
    BY <2>1 DEF Contract!Pending, Pending
  <2>3. known \in SUBSET (S \cap computed')
    BY DEF Deciding
  <2>4. \A p \in DOMAIN fate :
          fate'[p] \in IF p \in known THEN {"facts", "bare"}
                      ELSE IF p \in S THEN {"unknown"} ELSE {fate[p]}
    BY <1>1, <1>2, <2>1
  <2> QED BY <2>2, <2>3, <2>4 DEF Contract!Decide, Deciding
<1> QED BY <1>3, <1>4, <1>6, <1>7, <1>9, <1>10, <1>11

(* What a slice is counted as when it is through.  tells: the columns say  *)
(* nothing of it that is not so.                                           *)
Tells(s, columns, unknown, whole) ==
  /\ columns \subseteq Column
  /\ "proven" \in columns => whole /\ unknown = {}
  /\ unknown = {} => columns # {}
  /\ unknown # {} => columns \cap {"proven", "unprovable", "retried"} = {}

(* A unit that is through leaves the invariant for the next one. *)
LEMMA UnitInv ==
  ASSUME IInv, NEW S, NEW known, NEW facts, NEW again, Deciding(S, known, facts, again),
         S \in slices \/ \E p \in oversize : S = {p},
         pc # "plan", pc' = "first",
         accepted' = {}, matched' = {}, fault' \in Fault,
         exact \subseteq exact', exact' \subseteq SUBSET Position,
         DOMAIN ledger' \subseteq slices,
         \A t \in DOMAIN ledger' :
           \/ t \in DOMAIN ledger /\ ledger'[t] = ledger[t]
           \/ t = S /\ Tells(S, ledger'[S], S \ known, S \in exact')
  PROVE IInv'
<1>1. /\ fate' \in [Position -> {"pending", "facts", "bare", "unknown"}]
      /\ Pending' = Pending \ S
      /\ gaps' \subseteq Gap /\ verified' \in BOOLEAN
      /\ Known' /\ Told'
  BY Decided
<1>2. /\ input' = input /\ Position' = Position /\ Gap' = Gap
      /\ next' = next /\ current' = current /\ currentCost' = currentCost
      /\ slices' = slices /\ oversize' = oversize
      /\ S \subseteq Pending /\ computed' \subseteq Position
      /\ fate' = [p \in Position |-> IF p \notin S THEN fate[p]
                                 ELSE IF p \in facts THEN "facts"
                                 ELSE IF p \in known THEN "bare" ELSE "unknown"]
      /\ facts \subseteq known /\ known \subseteq S
  BY DEF Deciding, Decide, plan, Position, Gap
<1>3. TypeOK'
  <2>1. \A t \in DOMAIN ledger' : ledger'[t] \subseteq Column
    BY DEF IInv, TypeOK, Tells
  <2> QED BY <1>1, <1>2, <2>1 DEF IInv, TypeOK
<1>4. Planning'
  BY <1>2 DEF IInv, Planning
<1>5. Stretches'
  BY <1>2 DEF IInv, Stretches
<1>6. \A t \in slices : t # S => t \cap S = {}
  BY DEF IInv, Stretches, Planning
<1>7. Wholesale'
  <2>1. \A t \in slices : t \subseteq Pending' \/ t \cap Pending' = {}
    BY <1>1, <1>6 DEF IInv, Wholesale
  <2>2. \A t \in DOMAIN ledger' : t \cap Pending' = {}
    BY <1>1 DEF IInv, Wholesale
  <2> QED BY <1>2, <2>1, <2>2 DEF Wholesale
<1>8. AtHand'
  BY DEF AtHand
<1>9. LedgerTells'
  <2> SUFFICES ASSUME NEW t \in DOMAIN ledger'
               PROVE Tells(t, ledger'[t], {p \in t : fate'[p] = "unknown"}, t \in exact')
    BY DEF LedgerTells, Tells
  <2>1. CASE t \in DOMAIN ledger /\ ledger'[t] = ledger[t]
    <3>1. t \cap Pending = {} /\ t \subseteq Position
      BY <2>1 DEF IInv, TypeOK, Wholesale
    <3>2. \A p \in t : fate'[p] = fate[p]
      BY <1>2, <3>1
    <3>3. {p \in t : fate'[p] = "unknown"} = {p \in t : fate[p] = "unknown"}
      BY <3>2
    <3> QED BY <2>1, <3>3 DEF IInv, TypeOK, LedgerTells, Tells
  <2>2. CASE t = S /\ Tells(S, ledger'[S], S \ known, S \in exact')
    <3>1. {p \in S : fate'[p] = "unknown"} = S \ known
      BY <1>2 DEF Pending
    <3> QED BY <2>2, <3>1
  <2> QED BY <2>1, <2>2
<1> QED BY <1>1, <1>3, <1>4, <1>5, <1>7, <1>8, <1>9 DEF IInv

(* Nothing known, nothing dispatched: the unit is disclosed as unverified. *)
LEMMA OversizeInv ==
  ASSUME IInv, NEW p \in oversize, Oversize(p)
  PROVE IInv' /\ Deciding({p}, {}, {}, {})
<1>1. p \in Pending /\ \A q \in Pending : p <= q
  BY DEF Oversize, Least
<1>2. \A q \in Pending \ {p} : p < q
  <2>1. Pending \subseteq Nat
    BY Positions DEF IInv, TypeOK, Pending
  <2> QED BY <1>1, <2>1
<1>3. Deciding({p}, {}, {}, {})
  BY <1>1, <1>2 DEF Deciding, Oversize, IInv, TypeOK
<1>4. /\ pc = "first" /\ pc' = "first" /\ accepted' = {} /\ matched' = {}
      /\ fault' \in Fault /\ exact' = exact /\ exact \subseteq SUBSET Position
      /\ ledger' = ledger /\ DOMAIN ledger \subseteq slices
  BY DEF Oversize, attempt, IInv, TypeOK, AtHand
<1> QED BY <1>3, <1>4, UnitInv

LEMMA UndispatchableInv ==
  ASSUME IInv, NEW s \in slices, Undispatchable(s)
  PROVE IInv' /\ Deciding(s, {}, {}, {})
<1>1. Least(s)
  BY DEF Undispatchable, Slice
<1>2. Deciding(s, {}, {}, {})
  BY <1>1, LeastSlice DEF Deciding, Undispatchable, IInv, TypeOK
<1>3. /\ pc = "first" /\ pc' = "first" /\ accepted' = {} /\ matched' = {}
      /\ fault' \in Fault /\ exact' = exact /\ exact \subseteq SUBSET Position
      /\ ledger' = ledger /\ DOMAIN ledger \subseteq slices
  BY DEF Undispatchable, attempt, IInv, TypeOK, AtHand
<1> QED BY <1>2, <1>3, UnitInv

(* A slice that comes through its last dispatch: known is what was         *)
(* accepted of it in both.                                                 *)
LEMMA CloseInv ==
  ASSUME IInv, NEW s \in slices, Slice(s), pc # "plan",
         NEW known \in SUBSET s, NEW facts \in SUBSET known, NEW again \in SUBSET s,
         NEW proven \in BOOLEAN, NEW flaw \in Fault,
         known \subseteq computed', \A p \in facts : input[p].safe,
         computed \subseteq computed', computed' \subseteq Position,
         exact \subseteq exact', exact' \subseteq SUBSET Position,
         input' = input, UNCHANGED plan,
         Close(s, known, facts, again, proven, flaw),
         (proven /\ again \in {{}, s}) => s \in exact' /\ known = s,
         (known = s /\ again = {} /\ ~proven) => flaw # "none"
  PROVE IInv' /\ Deciding(s, known, facts, again)
<1>1. Deciding(s, known, facts, again)
  BY LeastSlice DEF Deciding, Close, Slice, IInv, TypeOK
<1>2. /\ pc' = "first" /\ accepted' = {} /\ matched' = {} /\ fault' \in Fault
      /\ ledger' = [t \in DOMAIN ledger \cup {s} |->
                      IF t = s THEN Columns(s, again, s \ known, proven, flaw) ELSE ledger[t]]
  BY DEF Close, Fault
<1>3. DOMAIN ledger' \subseteq slices
  BY <1>2 DEF IInv, TypeOK
<1>4. Tells(s, Columns(s, again, s \ known, proven, flaw), s \ known, s \in exact')
  <2>1. Columns(s, again, s \ known, proven, flaw) \subseteq Column
    BY DEF Columns, FaultColumn, Column
  <2>2. "proven" \in Columns(s, again, s \ known, proven, flaw)
          => s \in exact' /\ s \ known = {}
    BY DEF Columns, FaultColumn
  <2>3. s \ known = {} => Columns(s, again, s \ known, proven, flaw) # {}
    <3> SUFFICES ASSUME s \ known = {} PROVE Columns(s, again, s \ known, proven, flaw) # {}
      OBVIOUS
    <3>1. CASE again # {}
      BY <3>1 DEF Columns
    <3>2. CASE again = {} /\ Whole(s)
      BY <3>2 DEF Columns
    <3>3. CASE again = {} /\ ~Whole(s) /\ proven
      BY <3>3 DEF Columns
    <3>4. CASE again = {} /\ ~proven
      <4>1. flaw \in {"mismatch", "missing"}
        BY <3>4 DEF Fault
      <4> QED BY <3>4, <4>1 DEF Columns, FaultColumn
    <3> QED BY <3>1, <3>2, <3>3, <3>4
  <2>4. s \ known # {} => Columns(s, again, s \ known, proven, flaw)
                             \cap {"proven", "unprovable", "retried"} = {}
    BY DEF Columns, FaultColumn
  <2> QED BY <2>1, <2>2, <2>3, <2>4 DEF Tells
<1>5. \A t \in DOMAIN ledger' :
        \/ t \in DOMAIN ledger /\ ledger'[t] = ledger[t]
        \/ t = s /\ Tells(s, ledger'[s], s \ known, s \in exact')
  BY <1>2, <1>4
<1> QED BY <1>1, <1>2, <1>3, <1>5, UnitInv

(* What an executor is heard to have verified and received. *)
LEMMA HeardTypes ==
  ASSUME IInv, NEW S \in SUBSET Position, NEW a \in Answer(S), Heard(a, S)
  PROVE /\ computed \subseteq computed' /\ computed' \subseteq Position
        /\ Accepted(a, S) \subseteq computed'
        /\ exact \subseteq exact' /\ exact' \subseteq SUBSET Position
        /\ Proven(a, S) => S \in exact'
        /\ input' = input /\ UNCHANGED plan
<1>1. computed' = computed \cup Computed(a, S) /\ Computed(a, S) \subseteq S
  BY DEF Heard, Computed, Same, Ids
<1>2. Accepted(a, S) \subseteq Computed(a, S)
  BY TrustIsEarned
<1>3. Proven(a, S) => S \in exact'
  BY ProofIsExact DEF Heard
<1> QED BY <1>1, <1>2, <1>3 DEF Heard, IInv, TypeOK

(* The first dispatch of a slice: accepted as a whole it closes the slice; *)
(* otherwise what is accepted waits for the second.                        *)
LEMMA FirstInv ==
  ASSUME IInv, NEW s \in slices, FirstDispatch(s)
  PROVE /\ IInv'
        /\ \/ \E known, facts : Deciding(s, known, facts, {})
           \/ fate' = fate /\ computed \subseteq computed'
<1>1. /\ pc = "first" /\ Slice(s) /\ Least(s) /\ s \in SUBSET Position /\ s # {}
      /\ s \subseteq Pending
  BY LeastSlice DEF FirstDispatch, Slice
<1>2. PICK a \in Answer(s) :
        /\ Heard(a, s)
        /\ IF Accepted(a, s) = s
           THEN Close(s, s, Matched(a, s), {}, Proven(a, s), InputFault(a, s))
           ELSE /\ pc' = "retry"
                /\ accepted' = Accepted(a, s)
                /\ matched' = Matched(a, s)
                /\ fault' = InputFault(a, s)
                /\ UNCHANGED <<fate, gaps, verified, ledger>>
  BY DEF FirstDispatch
<1>3. /\ computed \subseteq computed' /\ computed' \subseteq Position
      /\ Accepted(a, s) \subseteq computed'
      /\ exact \subseteq exact' /\ exact' \subseteq SUBSET Position
      /\ Proven(a, s) => s \in exact'
      /\ input' = input /\ UNCHANGED plan
  BY <1>1, <1>2, HeardTypes
<1>4. /\ Accepted(a, s) \subseteq s /\ Matched(a, s) \subseteq Accepted(a, s)
      /\ \A p \in Matched(a, s) : input[p].safe
  BY TrustIsEarned
<1>5. InputFault(a, s) \in Fault /\ Proven(a, s) \in BOOLEAN
  BY FaultType DEF Proven
<1>6. CASE Accepted(a, s) = s
  <2>1. Close(s, s, Matched(a, s), {}, Proven(a, s), InputFault(a, s))
    BY <1>2, <1>6
  <2>2. ~Proven(a, s) => InputFault(a, s) # "none"
    BY <1>1, <1>6, FaultIsFound
  <2>3. IInv' /\ Deciding(s, s, Matched(a, s), {})
    BY <1>1, <1>3, <1>4, <1>5, <1>6, <2>1, <2>2, CloseInv
  <2> QED BY <2>3
<1>7. CASE Accepted(a, s) # s
  <2>1. /\ pc' = "retry" /\ accepted' = Accepted(a, s) /\ matched' = Matched(a, s)
        /\ fault' = InputFault(a, s)
        /\ fate' = fate /\ gaps' = gaps /\ verified' = verified /\ ledger' = ledger
    BY <1>2, <1>7
  <2>2. /\ Position' = Position /\ Gap' = Gap /\ next' = next /\ current' = current
        /\ currentCost' = currentCost /\ slices' = slices /\ oversize' = oversize
    BY <1>3 DEF Position, Gap, plan
  <2>3. Pending' = Pending /\ Unknown' = Unknown
    BY <2>1, <2>2 DEF Pending, Unknown
  <2>4. TypeOK'
    BY <1>1, <1>3, <1>4, <1>5, <2>1, <2>2 DEF IInv, TypeOK
  <2>5. Planning' /\ Stretches' /\ Wholesale'
    BY <1>1, <2>1, <2>2, <2>3 DEF IInv, Planning, Stretches, Wholesale
  <2>6. AtHand'
    <3>1. ASSUME NEW t \in slices', Least(t)' PROVE t = s
      BY <1>1, <2>2, <2>3, <3>1, OneAtHand DEF Least
    <3>2. \A p \in matched' : input'[p].safe
      BY <1>3, <1>4, <2>1
    <3> QED BY <1>3, <1>4, <1>7, <2>1, <3>1, <3>2 DEF AtHand
  <2>7. Known'
    BY <1>3, <2>1, <2>2 DEF IInv, Known
  <2>8. LedgerTells' /\ Told'
    BY <1>3, <2>1, <2>3 DEF IInv, LedgerTells, Told
  <2> QED BY <1>3, <2>1, <2>4, <2>5, <2>6, <2>7, <2>8 DEF IInv
<1> QED BY <1>6, <1>7

(* The second dispatch closes the slice whatever comes back. *)
LEMMA RetryInv ==
  ASSUME IInv, NEW s \in slices, RetryDispatch(s)
  PROVE IInv' /\ \E known, facts, again : Deciding(s, known, facts, again)
<1> DEFINE again == s \ accepted
<1>1. /\ pc = "retry" /\ Slice(s) /\ Least(s) /\ s \in SUBSET Position
      /\ accepted \subseteq s /\ accepted # s /\ accepted \subseteq computed
      /\ matched \subseteq accepted /\ \A p \in matched : input[p].safe
  BY LeastSlice DEF RetryDispatch, Slice, IInv, TypeOK, AtHand
<1>2. PICK a \in Answer(again) :
        /\ Heard(a, again)
        /\ Close(s, accepted \cup Accepted(a, again), matched \cup Matched(a, again),
                 again, Proven(a, again),
                 IF InputFault(a, again) # "none" THEN InputFault(a, again) ELSE fault)
  BY DEF RetryDispatch
<1>3. again \in SUBSET Position /\ again \in SUBSET s /\ again # {}
  BY <1>1
<1> HIDE DEF again
<1>4. /\ computed \subseteq computed' /\ computed' \subseteq Position
      /\ Accepted(a, again) \subseteq computed'
      /\ exact \subseteq exact' /\ exact' \subseteq SUBSET Position
      /\ Proven(a, again) => again \in exact'
      /\ input' = input /\ UNCHANGED plan
  BY <1>2, <1>3, HeardTypes
<1>5. /\ Accepted(a, again) \subseteq again /\ Matched(a, again) \subseteq Accepted(a, again)
      /\ \A p \in Matched(a, again) : input[p].safe
  BY TrustIsEarned
<1>6. /\ InputFault(a, again) \in Fault /\ fault \in Fault
      /\ Proven(a, again) \in BOOLEAN
  BY FaultType DEF Proven, IInv, TypeOK
<1> DEFINE known == accepted \cup Accepted(a, again)
           facts == matched \cup Matched(a, again)
           flaw == IF InputFault(a, again) # "none" THEN InputFault(a, again) ELSE fault
<1>7. /\ known \in SUBSET s /\ facts \in SUBSET known /\ flaw \in Fault
      /\ known \subseteq computed' /\ \A p \in facts : input[p].safe
  BY <1>1, <1>3, <1>4, <1>5, <1>6
<1>8. (Proven(a, again) /\ again \in {{}, s}) => s \in exact' /\ known = s
  <2>1. Proven(a, again) => Accepted(a, again) = again
    BY ProofIsExact
  <2> QED BY <1>3, <1>4, <1>7, <2>1
<1>9. Close(s, known, facts, again, Proven(a, again), flaw)
  BY <1>2
<1> HIDE DEF known, facts, flaw
<1>10. IInv' /\ Deciding(s, known, facts, again)
  BY <1>1, <1>3, <1>4, <1>6, <1>7, <1>8, <1>9, CloseInv
<1> QED BY <1>10

LEMMA FinishInv == IInv /\ Finish => IInv'
<1> SUFFICES ASSUME IInv, Finish PROVE IInv'
  OBVIOUS
<1>1. /\ input' = input /\ Position' = Position /\ Gap' = Gap
      /\ next' = next /\ current' = current /\ currentCost' = currentCost
      /\ slices' = slices /\ oversize' = oversize
      /\ fate' = fate /\ accepted' = accepted /\ matched' = matched /\ fault' = fault
      /\ gaps' = gaps /\ verified' = verified /\ ledger' = ledger
      /\ computed' = computed /\ exact' = exact /\ pc = "first" /\ pc' = "done"
  BY DEF Finish, plan, attempt, Position, Gap
<1>2. Pending' = Pending /\ Unknown' = Unknown
  BY <1>1 DEF Pending, Unknown
<1>3. TypeOK' /\ Planning' /\ Stretches'
  BY <1>1 DEF IInv, TypeOK, Planning, Stretches
<1>4. Wholesale' /\ AtHand' /\ Known' /\ LedgerTells' /\ Told'
  BY <1>1, <1>2 DEF IInv, Wholesale, AtHand, Known, LedgerTells, Told
<1> QED BY <1>3, <1>4 DEF IInv
-----------------------------------------------------------------------------
(* A step that changes nothing keeps the invariant. *)
LEMMA StutterInv == IInv /\ UNCHANGED vars => IInv'
<1> SUFFICES ASSUME IInv, UNCHANGED vars PROVE IInv'
  OBVIOUS
<1>1. /\ input' = input /\ Position' = Position /\ Gap' = Gap /\ pc' = pc
      /\ next' = next /\ current' = current /\ currentCost' = currentCost
      /\ slices' = slices /\ oversize' = oversize
      /\ fate' = fate /\ accepted' = accepted /\ matched' = matched /\ fault' = fault
      /\ gaps' = gaps /\ verified' = verified /\ ledger' = ledger
      /\ computed' = computed /\ exact' = exact
  BY DEF vars, plan, attempt, Position, Gap
<1>2. Pending' = Pending /\ Unknown' = Unknown
  BY <1>1 DEF Pending, Unknown
<1>3. TypeOK' /\ Planning' /\ Stretches'
  BY <1>1 DEF IInv, TypeOK, Planning, Stretches
<1>4. Wholesale' /\ Known' /\ LedgerTells' /\ Told'
  BY <1>1, <1>2 DEF IInv, Wholesale, Known, LedgerTells, Told
<1>5. AtHand'
  BY <1>1, <1>2 DEF IInv, AtHand, Least
<1> QED BY <1>3, <1>4, <1>5 DEF IInv

(* The inductive invariant: every step of the stage keeps it. *)
LEMMA NextInv == IInv /\ [Next]_vars => IInv'
<1> SUFFICES ASSUME IInv, [Next]_vars PROVE IInv'
  OBVIOUS
<1>1. CASE Plan
  BY <1>1, PlanInv
<1>2. CASE Planned
  BY <1>2, PlannedInv
<1>3. CASE \E p \in oversize : Oversize(p)
  BY <1>3, OversizeInv
<1>4. CASE \E s \in slices : Dispatch(s)
  <2> SUFFICES ASSUME NEW s \in slices, Dispatch(s) PROVE IInv'
    BY <1>4
  <2>1. CASE Undispatchable(s)
    BY <2>1, UndispatchableInv
  <2>2. CASE FirstDispatch(s)
    BY <2>2, FirstInv
  <2>3. CASE RetryDispatch(s)
    BY <2>3, RetryInv
  <2> QED BY <2>1, <2>2, <2>3 DEF Dispatch
<1>5. CASE Finish
  BY <1>5, FinishInv
<1>6. CASE UNCHANGED vars
  BY <1>6, StutterInv
<1> QED BY <1>1, <1>2, <1>3, <1>4, <1>5, <1>6 DEF Next

(* The invariant holds throughout the stage. *)
LEMMA Invariance == Spec => []IInv
<1>1. Init => IInv
  BY InitInv
<1>2. IInv /\ [Next]_vars => IInv'
  BY NextInv
<1> QED BY <1>1, <1>2, PTL DEF Spec

(* Every variable of the stage keeps its type. *)
THEOREM StageTypes == Spec => []TypeOK
<1>1. IInv => TypeOK
  BY DEF IInv
<1> QED BY <1>1, Invariance, PTL

(* The counters of inputProof claim no proof a slice does not have, and    *)
(* leave no verified slice out.                                            *)
THEOREM LedgerIsHonest == Spec => []LedgerTells
<1>1. IInv => LedgerTells
  BY DEF IInv
<1> QED BY <1>1, Invariance, PTL

(* Facts are joined on a finding only from a record with a proof of its    *)
(* own.                                                                    *)
THEOREM FactsAreProven == Spec => []FactsNeedProof
<1>1. IInv => FactsNeedProof
  BY DEF IInv, Known, FactsNeedProof
<1> QED BY <1>1, Invariance, PTL

(* Both: what the stage says is proven has its proof.                      *)
THEOREM ProofsAreReal == Spec => []ProofIsEarned
<1>1. FactsNeedProof /\ LedgerTells => ProofIsEarned
  BY DEF ProofIsEarned
<1> QED BY <1>1, LedgerIsHonest, FactsAreProven, PTL

(* A stage that ends is flagged unverified exactly when findings are       *)
(* unknown, and its gaps count exactly those.                              *)
THEOREM LossIsDisclosed == Spec => []Disclosure
<1>1. IInv => Disclosure
  BY DEF IInv, Told, Unknown, Disclosure
<1> QED BY <1>1, Invariance, PTL
-----------------------------------------------------------------------------
(* A step that decides a unit is a step of the contract, and one that      *)
(* decides nothing is the contract's step that decides no finding.         *)
LEMMA UnitIsPromised ==
  ASSUME IInv, NEW S, NEW known, NEW facts, NEW again, Deciding(S, known, facts, again)
  PROVE Contract!Next
<1>1. fate' \in [Position -> {"pending", "facts", "bare", "unknown"}] /\ Contract!Decide(S)
  BY Decided
<1>2. fate \in [Position -> {"pending", "facts", "bare", "unknown"}]
  BY DEF IInv, TypeOK
<1>3. S \subseteq Position /\ computed \subseteq computed'
  BY DEF Deciding, Pending
<1>4. DOMAIN fate' = DOMAIN fate /\ S \in SUBSET DOMAIN fate
  BY <1>1, <1>2, <1>3
<1> QED BY <1>1, <1>3, <1>4 DEF Contract!Next

LEMMA SilenceIsPromised ==
  ASSUME fate' = fate, computed \subseteq computed'
  PROVE Contract!Next
<1>1. {} \in SUBSET ({} \cap computed')
  OBVIOUS
<1>2. \A p \in DOMAIN fate :
        fate'[p] \in IF p \in {} THEN {"facts", "bare"}
                    ELSE IF p \in {} THEN {"unknown"} ELSE {fate[p]}
  OBVIOUS
<1>3. Contract!Decide({})
  BY <1>1, <1>2 DEF Contract!Decide
<1> QED BY <1>3 DEF Contract!Next

(* Every step of the stage is one the contract allows. *)
LEMMA StepIsPromised ==
  ASSUME IInv, [Next]_vars
  PROVE [Contract!Next]_<<fate, computed>>
<1>1. CASE Plan \/ Planned \/ Finish
  BY <1>1 DEF Plan, Planned, Finish
<1>2. CASE \E p \in oversize : Oversize(p)
  BY <1>2, OversizeInv, UnitIsPromised
<1>3. CASE \E s \in slices : Dispatch(s)
  <2> SUFFICES ASSUME NEW s \in slices, Dispatch(s) PROVE Contract!Next
    BY <1>3
  <2>1. CASE Undispatchable(s)
    BY <2>1, UndispatchableInv, UnitIsPromised
  <2>2. CASE FirstDispatch(s)
    BY <2>2, FirstInv, UnitIsPromised, SilenceIsPromised
  <2>3. CASE RetryDispatch(s)
    BY <2>3, RetryInv, UnitIsPromised
  <2> QED BY <2>1, <2>2, <2>3 DEF Dispatch
<1>4. CASE UNCHANGED vars
  BY <1>4 DEF vars
<1> QED BY <1>1, <1>2, <1>3, <1>4 DEF Next

(* The stage implements its contract: each finding is decided once, in     *)
(* input order, and is known only by what an executor computed from its    *)
(* own record.                                                             *)
THEOREM PromiseKept == Spec => Promise
<1>1. Init => Contract!Init
  BY DEF Init, Contract!Init
<1>2. IInv /\ [Next]_vars => [Contract!Next]_<<fate, computed>>
  BY StepIsPromised
<1> QED BY <1>1, <1>2, Invariance, PTL DEF Spec, Promise, Contract!Spec
-----------------------------------------------------------------------------
(* The cost of a set of findings is a sum over the input.                  *)
Summed(sum, n, list, s) ==
  sum = [p \in 0..n |-> IF p = 0 THEN 0 ELSE sum[p - 1] + IF p \in s THEN list[p].cost ELSE 0]

(* A set of naturals that is not empty has a least element. *)
LEMMA FirstOf ==
  ASSUME NEW T \in SUBSET Nat, T # {}
  PROVE  \E x \in T : \A y \in T : x <= y
<1>1. IsWellFoundedOn(OpToRel(<, Nat), Nat)
  BY NatLessThanWellFounded
<1>2. PICK x \in T : \A y \in T : ~ (<<y, x>> \in OpToRel(<, Nat))
  BY <1>1, WFMin, Zenon
<1>3. \A y \in T : ~(y < x)
  BY <1>2 DEF OpToRel
<1>4. \A y \in T : y \in Nat /\ x \in Nat
  BY <1>2
<1>5. \A y \in T : x <= y
  BY <1>3, <1>4
<1> QED BY <1>2, <1>5

(* There is such a sum: the least length without one would follow one      *)
(* that has it.                                                            *)
LEMMA SumExists ==
  ASSUME NEW n \in Nat, NEW list, NEW s
  PROVE  \E sum : Summed(sum, n, list, s)
<1> DEFINE S == {k \in 0..n : ~ \E sum : Summed(sum, k, list, s)}
<1>1. S = {}
  <2>1. SUFFICES ASSUME S # {} PROVE FALSE
    OBVIOUS
  <2>2. S \in SUBSET Nat
    OBVIOUS
  <2>3. PICK k \in S : \A y \in S : k <= y
    BY <2>1, <2>2, FirstOf
  <2>4. k \in Nat /\ k <= n /\ ~ \E sum : Summed(sum, k, list, s)
    BY <2>3
  <2> DEFINE add(d) == IF d \in s THEN list[d].cost ELSE 0
  <2>5. CASE k = 0
    <3> DEFINE g == [d \in 0..0 |-> 0]
    <3>1. g = [d \in 0..0 |-> IF d = 0 THEN 0 ELSE g[d - 1] + add(d)]
      <4>1. \A d \in 0..0 : d = 0
        OBVIOUS
      <4> QED BY <4>1, Zenon
    <3>2. Summed(g, 0, list, s)
      BY <3>1 DEF Summed
    <3> QED BY <2>4, <2>5, <3>2
  <2>6. CASE k # 0
    <3>1. k - 1 \in 0..n /\ ~(k <= k - 1)
      BY <2>4, <2>6
    <3>2. k - 1 \notin S
      BY <2>3, <3>1
    <3>3. PICK f : Summed(f, k - 1, list, s)
      BY <3>1, <3>2
    <3> DEFINE body(acc, d) == IF d = 0 THEN 0 ELSE acc[d - 1] + add(d)
               g == [d \in 0..k |-> body(f, d)]
    <3>4. f = [d \in 0..(k - 1) |-> body(f, d)]
      BY <3>3 DEF Summed
    <3>5. \A d \in 0..k : d # 0 => d - 1 \in 0..(k - 1) /\ d - 1 \in 0..k
      BY <2>4
    <3>6. \A d \in 0..(k - 1) : d \in 0..k
      BY <2>4
    <3> HIDE DEF body
    <3>7. \A d \in 0..(k - 1) : g[d] = f[d]
      BY <3>4, <3>6, Zenon
    <3>8. \A d \in 0..k : body(g, d) = body(f, d)
      BY <3>5, <3>7 DEF body
    <3>9. g = [d \in 0..k |-> body(g, d)]
      BY <3>8, Zenon
    <3> HIDE DEF g
    <3>10. Summed(g, k, list, s)
      BY <3>9 DEF Summed, body
    <3> QED BY <2>4, <3>10
  <2> QED BY <2>5, <2>6
<1> QED BY <1>1

(* What the sum is at each place.                                          *)
LEMMA SumSteps ==
  ASSUME NEW n \in Nat, NEW list, NEW s, NEW sum, Summed(sum, n, list, s)
  PROVE  /\ sum[0] = 0
         /\ \A p \in 1..n : sum[p] = sum[p - 1] + IF p \in s THEN list[p].cost ELSE 0
<1>1. \A p \in 0..n : sum[p] = IF p = 0 THEN 0 ELSE sum[p - 1] + IF p \in s THEN list[p].cost ELSE 0
  BY Zenon DEF Summed
<1>2. 0 \in 0..n /\ \A p \in 1..n : p \in 0..n /\ p # 0
  OBVIOUS
<1> QED BY <1>1, <1>2

(* With one finding more, the sum is more by its cost from there on.       *)
LEMMA SumsDiffer ==
  ASSUME NEW n \in Nat, NEW list, \A p \in 1..n : list[p].cost \in Nat,
         NEW s, NEW q \in 1..n, q \notin s,
         NEW a, NEW b, Summed(a, n, list, s), Summed(b, n, list, s \cup {q})
  PROVE  a[n] \in Nat /\ b[n] = a[n] + list[q].cost
<1> DEFINE cost == list[q].cost
           Good(p) == a[p] \in Nat /\ b[p] = a[p] + (IF q <= p THEN cost ELSE 0)
           S == {p \in 0..n : ~Good(p)}
<1>1. /\ a[0] = 0 /\ b[0] = 0
      /\ \A p \in 1..n : a[p] = a[p - 1] + IF p \in s THEN list[p].cost ELSE 0
      /\ \A p \in 1..n : b[p] = b[p - 1] + IF p \in s \cup {q} THEN list[p].cost ELSE 0
  BY SumSteps
<1>2. cost \in Nat
  OBVIOUS
<1>3. Good(0)
  BY <1>1
<1>4. ASSUME NEW p \in 1..n, Good(p - 1) PROVE Good(p)
  <2> DEFINE x == a[p - 1]  y == b[p - 1]  c == list[p].cost
  <2>1. x \in Nat /\ c \in Nat /\ y = x + (IF q <= p - 1 THEN cost ELSE 0)
    BY <1>4
  <2>2. a[p] = x + (IF p \in s THEN c ELSE 0)
    BY <1>1
  <2>3. b[p] = y + (IF p \in s \cup {q} THEN c ELSE 0)
    BY <1>1
  <2>4. p = q => c = cost
    OBVIOUS
  <2> HIDE DEF x, y, c, cost
  <2>5. CASE p = q
    <3>1. p \notin s /\ ~(q <= p - 1) /\ q <= p
      BY <2>5
    <3> QED BY <1>2, <2>1, <2>2, <2>3, <2>4, <2>5, <3>1
  <2>6. CASE p # q
    <3>1. q <= p <=> q <= p - 1
      BY <2>6
    <3>2. p \in s \cup {q} <=> p \in s
      BY <2>6
    <3> QED BY <1>2, <2>1, <2>2, <2>3, <3>1, <3>2
  <2> QED BY <2>5, <2>6
<1>5. S = {}
  <2> SUFFICES ASSUME S # {} PROVE FALSE
    OBVIOUS
  <2>1. S \in SUBSET Nat
    OBVIOUS
  <2>2. PICK p \in S : \A y \in S : p <= y
    BY <2>1, FirstOf
  <2> HIDE DEF Good
  <2>3. p \in 0..n /\ ~Good(p)
    BY <2>2
  <2>4. p # 0
    BY <1>3, <2>3
  <2>5. p \in 1..n /\ p - 1 \in 0..n /\ ~(p <= p - 1)
    BY <2>3, <2>4
  <2>6. Good(p - 1)
    BY <2>2, <2>5
  <2> QED BY <1>4, <2>3, <2>5, <2>6
<1>6. Good(n) /\ q <= n
  BY <1>5
<1> QED BY <1>6

LEMMA OneMoreCosts ==
  ASSUME NEW list \in Inputs, NEW s, NEW q \in DOMAIN list, q \notin s
  PROVE  /\ TotalCost(list, s) \in Nat
         /\ TotalCost(list, s \cup {q}) = TotalCost(list, s) + list[q].cost
<1> DEFINE n == Len(list)
           t == s \cup {q}
           a == CHOOSE sum : Summed(sum, n, list, s)
           b == CHOOSE sum : Summed(sum, n, list, t)
<1>1. n \in Nat /\ DOMAIN list = 1..n /\ \A p \in 1..n : list[p].cost \in Nat
  BY InputsAssumption
<1>2. Summed(a, n, list, s) /\ Summed(b, n, list, t)
  BY <1>1, SumExists
<1>3. TotalCost(list, s) = a[n] /\ TotalCost(list, t) = b[n]
  BY DEF TotalCost, Summed
<1> HIDE DEF a, b, n
<1>4. a[n] \in Nat /\ b[n] = a[n] + list[q].cost
  BY <1>1, <1>2, SumsDiffer
<1> QED BY <1>3, <1>4

LEMMA NothingCosts ==
  ASSUME NEW list \in Inputs
  PROVE  TotalCost(list, {}) = 0
<1> DEFINE n == Len(list)
           a == CHOOSE sum : Summed(sum, n, list, {})
           S == {p \in 0..n : a[p] # 0}
<1>1. n \in Nat
  BY InputsAssumption
<1>2. Summed(a, n, list, {})
  BY <1>1, SumExists
<1>3. TotalCost(list, {}) = a[n]
  BY DEF TotalCost, Summed
<1>4. a[0] = 0 /\ \A p \in 1..n : a[p] = a[p - 1] + 0
  <2>1. \A p \in 1..n : a[p] = a[p - 1] + IF p \in {} THEN list[p].cost ELSE 0
    BY <1>1, <1>2, SumSteps
  <2>2. a[0] = 0
    BY <1>1, <1>2, SumSteps
  <2> QED BY <2>1, <2>2
<1> HIDE DEF a, n
<1>5. S = {}
  <2> SUFFICES ASSUME S # {} PROVE FALSE
    OBVIOUS
  <2>0. S \in SUBSET Nat
    BY <1>1
  <2>1. PICK p \in S : \A y \in S : p <= y
    BY <2>0, FirstOf
  <2>2. p \in 1..n /\ p - 1 \in 0..n /\ ~(p <= p - 1)
    BY <1>1, <1>4, <2>1
  <2>3. a[p - 1] = 0
    BY <2>1, <2>2
  <2>4. a[p] = 0
    BY <1>4, <2>2, <2>3
  <2> QED BY <2>1, <2>4
<1> QED BY <1>1, <1>3, <1>5
-----------------------------------------------------------------------------
(* A slice the dispatch accepts: within its budget and the size limit.     *)
Within(s, budget) ==
  /\ Cost(Cardinality(s), TotalCost(input, s)) <= budget
  /\ Cardinality(s) \in 1..MaxFindings

Budget(s) == IF Cardinality(s) > 1 THEN Copy ELSE Hard

(* The planner's count of what it fills is the sum; what it fills is       *)
(* within the copy budget, and what it closed within the budget it has.    *)
FilledWith(filling, cost, made) ==
  /\ IsFiniteSet(filling) /\ cost = TotalCost(input, filling)
  /\ filling # {} => Within(filling, Copy)
  /\ \A s \in made : Within(s, Budget(s))
Filled == FilledWith(current, currentCost, slices)

LEMMA FilledAgain ==
  ASSUME input' = input, FilledWith(current', currentCost', slices')
  PROVE  Filled'
BY Zenon DEF Filled, FilledWith, Within, Budget, Cost, MaxFindings

(* A finding by itself. *)
LEMMA Single ==
  ASSUME input \in Inputs, NEW p \in Position
  PROVE  /\ IsFiniteSet({p}) /\ Cardinality({p}) = 1 /\ Cardinality({p}) \in 1..MaxFindings
         /\ TotalCost(input, {p}) = input[p].cost
         /\ Cost(Cardinality({p}), TotalCost(input, {p})) = Cost(1, input[p].cost)
<1>1. IsFiniteSet({p}) /\ Cardinality({p}) = 1
  BY FS_Singleton
<1>2. TotalCost(input, {} \cup {p}) = TotalCost(input, {}) + input[p].cost
  BY OneMoreCosts DEF Position
<1>3. input[p].cost \in Nat /\ Len(input) \in Nat /\ p \in 1..Len(input)
  BY Positions
<1>4. TotalCost(input, {p}) = input[p].cost
  BY <1>2, <1>3, NothingCosts
<1>5. MaxFindings \in Nat /\ MaxFindings >= 1
  BY <1>3, BudgetAssumption DEF MaxFindings
<1> QED BY <1>1, <1>4, <1>5

LEMMA FilledInit == Init => Filled
<1> SUFFICES ASSUME Init PROVE Filled
  OBVIOUS
<1>1. input \in Inputs /\ current = {} /\ currentCost = 0 /\ slices = {}
  BY DEF Init
<1>2. TotalCost(input, current) = 0
  BY <1>1, NothingCosts
<1> QED BY <1>1, <1>2, FS_EmptySet DEF Filled, FilledWith

(* What is closed keeps what it had when it was filled.                    *)
LEMMA ClosedWithin ==
  ASSUME IInv, Filled
  PROVE  \A s \in Closed : Within(s, Budget(s))
<1> SUFFICES ASSUME NEW s \in Closed PROVE Within(s, Budget(s))
  OBVIOUS
<1>1. CASE s \in slices
  BY <1>1 DEF Filled, FilledWith
<1>2. CASE s = current /\ current # {}
  <2>1. Within(s, Copy)
    BY <1>2 DEF Filled, FilledWith
  <2> DEFINE c == Cost(Cardinality(s), TotalCost(input, s))
  <2>2. c <= Copy /\ Cardinality(s) \in 1..MaxFindings
    BY <2>1 DEF Within
  <2>3. c \in Int
    <3>1. TotalCost(input, s) \in Nat
      BY <1>2 DEF Filled, FilledWith, IInv, TypeOK
    <3>2. Cardinality(s) \in Nat
      BY <1>2, FS_CardinalityType DEF Filled, FilledWith
    <3> QED BY <3>1, <3>2, BudgetAssumption DEF Cost
  <2>4. Budget(s) \in {Copy, Hard} /\ Copy <= Hard /\ Copy \in Nat /\ Hard \in Nat
    BY BudgetAssumption DEF Budget
  <2> HIDE DEF c
  <2>5. c <= Budget(s)
    BY <2>2, <2>3, <2>4
  <2> QED BY <2>2, <2>5 DEF Within, c
<1> QED BY <1>1, <1>2 DEF Closed

(* Each step of the planner keeps to the budgets.                          *)
LEMMA FilledPlan == IInv /\ Filled /\ Plan => Filled'
<1> SUFFICES ASSUME IInv, Filled, Plan PROVE Filled'
  OBVIOUS
<1>1. /\ input \in Inputs /\ input' = input /\ next \in Position /\ current \subseteq 1..(next - 1)
      /\ input[next].cost \in Nat /\ currentCost \in Nat /\ next \in Nat
  BY Positions DEF IInv, TypeOK, Planning, Plan
<1>2. MaxFindings \in Nat
  BY <1>1, Positions, BudgetAssumption DEF MaxFindings
<1>3. SUFFICES FilledWith(current', currentCost', slices')
  BY <1>1, FilledAgain
<1>4. \A s \in Closed : Within(s, Budget(s))
  BY ClosedWithin
<1>5. /\ IsFiniteSet({next}) /\ TotalCost(input, {next}) = input[next].cost
      /\ Cost(1, input[next].cost) <= Copy => Within({next}, Copy)
      /\ Cost(1, input[next].cost) <= Hard => Within({next}, Budget({next}))
  <2>1. /\ IsFiniteSet({next}) /\ Cardinality({next}) = 1 /\ Cardinality({next}) \in 1..MaxFindings
        /\ TotalCost(input, {next}) = input[next].cost
        /\ Cost(Cardinality({next}), TotalCost(input, {next})) = Cost(1, input[next].cost)
    BY <1>1, Single
  <2>2. Budget({next}) = Hard
    BY <2>1 DEF Budget
  <2>3. Cost(1, input[next].cost) <= Copy => Within({next}, Copy)
    BY <2>1 DEF Within
  <2>4. Cost(1, input[next].cost) <= Hard => Within({next}, Budget({next}))
    BY <2>1, <2>2 DEF Within
  <2> QED BY <2>1, <2>3, <2>4
<1>6. CASE PlanOversize(next)
  <2>1. slices' = Closed /\ current' = {} /\ currentCost' = 0
    BY <1>6 DEF PlanOversize
  <2>2. TotalCost(input, {}) = 0
    BY <1>1, NothingCosts
  <2> QED BY <1>4, <2>1, <2>2, FS_EmptySet DEF Filled, FilledWith
<1>7. CASE PlanLong(next)
  <2>1. slices' = Closed \cup {{next}} /\ current' = {} /\ currentCost' = 0
        /\ Cost(1, input[next].cost) <= Hard
    BY <1>7 DEF PlanLong
  <2>2. TotalCost(input, {}) = 0
    BY <1>1, NothingCosts
  <2>3. ASSUME NEW s \in slices' PROVE Within(s, Budget(s))
    <3>1. s \in Closed \/ s = {next}
      BY <2>1
    <3>2. CASE s = {next}
      BY <1>5, <2>1, <3>2
    <3> QED BY <1>4, <3>1, <3>2
  <2> QED BY <2>1, <2>2, <2>3, FS_EmptySet DEF Filled, FilledWith
<1>8. CASE PlanShort(next)
  <2>1. Cost(1, input[next].cost) <= Copy /\ Fill(next)
    BY <1>8 DEF PlanShort
  <2>2. CASE Overfull(next)
    <3>1. slices' = Closed /\ current' = {next} /\ currentCost' = input[next].cost
      BY <2>1, <2>2 DEF Fill
    <3> QED BY <1>1, <1>4, <1>5, <2>1, <3>1 DEF Filled, FilledWith
  <2>3. CASE ~Overfull(next)
    <3>1. slices' = slices /\ current' = current \cup {next}
          /\ currentCost' = currentCost + input[next].cost
      BY <2>1, <2>3 DEF Fill
    <3>2. next \notin current /\ IsFiniteSet(current)
      BY <1>1 DEF Filled, FilledWith
    <3>3. IsFiniteSet(current') /\ Cardinality(current') = Cardinality(current) + 1
      BY <3>1, <3>2, FS_AddElement
    <3>4. TotalCost(input, current) = currentCost
          /\ TotalCost(input, current') = currentCost'
      <4>1. TotalCost(input, current \cup {next}) = TotalCost(input, current) + input[next].cost
        BY <1>1, <3>2, OneMoreCosts DEF Position
      <4> QED BY <1>1, <3>1, <4>1 DEF Filled, FilledWith
    <3>5. Within(current', Copy)
      <4>1. CASE current = {}
        BY <1>5, <2>1, <3>1, <4>1
      <4>2. CASE current # {}
        <5>1. /\ ~(Cardinality(current) >= MaxFindings)
              /\ ~(Cost(Cardinality(current) + 1, currentCost + input[next].cost) > Copy)
          BY <2>3, <4>2 DEF Overfull
        <5>2. Cardinality(current) \in Nat
          BY <3>2, FS_CardinalityType
        <5>3. Cardinality(current') \in 1..MaxFindings
          BY <1>2, <3>3, <5>1, <5>2
        <5>4. Cost(Cardinality(current) + 1, currentCost + input[next].cost) \in Int
          BY <1>1, <5>2, BudgetAssumption DEF Cost
        <5>5. Cost(Cardinality(current) + 1, currentCost + input[next].cost) <= Copy
          BY <5>1, <5>4, BudgetAssumption
        <5>6. Cost(Cardinality(current'), TotalCost(input, current')) <= Copy
          BY <3>1, <3>3, <3>4, <5>5
        <5> QED BY <1>2, <5>3, <5>6 DEF Within
      <4> QED BY <4>1, <4>2
    <3>6. \A s \in slices' : Within(s, Budget(s))
      BY <1>4, <3>1 DEF Closed
    <3> QED BY <3>3, <3>4, <3>5, <3>6 DEF Filled, FilledWith
  <2> QED BY <2>2, <2>3
<1> QED BY <1>6, <1>7, <1>8 DEF Plan

LEMMA FilledPlanned == IInv /\ Filled /\ Planned => Filled'
<1> SUFFICES ASSUME IInv, Filled, Planned PROVE Filled'
  OBVIOUS
<1>1. input' = input /\ slices' = Closed /\ current' = {} /\ currentCost' = 0 /\ input \in Inputs
  BY DEF IInv, TypeOK, Planned
<1>2. \A s \in slices' : Within(s, Budget(s))
  BY <1>1, ClosedWithin
<1>3. TotalCost(input, {}) = 0
  BY <1>1, NothingCosts
<1>4. FilledWith(current', currentCost', slices')
  BY <1>1, <1>2, <1>3, FS_EmptySet DEF FilledWith
<1> QED BY <1>1, <1>4, FilledAgain

(* The dispatches do not touch the plan.                                   *)
LEMMA FilledStays == Filled /\ UNCHANGED <<input, plan>> => Filled'
<1> SUFFICES ASSUME Filled, UNCHANGED <<input, plan>> PROVE Filled'
  OBVIOUS
<1>1. input' = input /\ slices' = slices /\ current' = current /\ currentCost' = currentCost
  BY DEF plan
<1>2. FilledWith(current', currentCost', slices')
  BY <1>1 DEF Filled
<1> QED BY <1>1, <1>2, FilledAgain

LEMMA FilledNext == IInv /\ Filled /\ [Next]_vars => Filled'
<1> SUFFICES ASSUME IInv, Filled, [Next]_vars PROVE Filled'
  OBVIOUS
<1>1. CASE Plan
  BY <1>1, FilledPlan
<1>2. CASE Planned
  BY <1>2, FilledPlanned
<1>3. CASE \E p \in oversize : Oversize(p)
  <2>1. UNCHANGED <<input, plan>>
    BY <1>3 DEF Oversize
  <2> QED BY <2>1, FilledStays
<1>4. CASE \E s \in slices : Dispatch(s)
  <2>1. UNCHANGED <<input, plan>>
    BY <1>4 DEF Dispatch, Undispatchable, FirstDispatch, RetryDispatch, Heard
  <2> QED BY <2>1, FilledStays
<1>5. CASE Finish \/ UNCHANGED vars
  <2>1. UNCHANGED <<input, plan>>
    BY <1>5 DEF Finish, vars
  <2> QED BY <2>1, FilledStays
<1> QED BY <1>1, <1>2, <1>3, <1>4, <1>5 DEF Next

(* Every slice the planner makes is one its dispatch accepts, and nothing  *)
(* of the input is left out or in two slices: the count that is kept while *)
(* filling is the length the dispatch computes (capacity.js).              *)
THEOREM PlanIsAccepted == Spec => []PlannerInvariant
<1>1. IInv /\ Filled => PlannerInvariant
  <2> SUFFICES ASSUME IInv, Filled PROVE PlannerInvariant
    OBVIOUS
  <2>1. \A s \in slices : Within(s, Budget(s))
    BY DEF Filled, FilledWith
  <2>2. \A s, t \in slices : s # t => s \cap t = {}
    BY DEF IInv, Stretches
  <2>3. \A s \in slices : s \cap oversize = {}
    BY DEF IInv, Planning
  <2>4. pc # "plan" => (UNION slices) \cup oversize = Position
    <3> SUFFICES ASSUME pc # "plan" PROVE (UNION slices) \cup oversize = Position
      OBVIOUS
    <3>1. /\ (UNION slices) \cup oversize \cup current = 1..(next - 1)
          /\ current = {} /\ next \notin Position
      BY DEF IInv, Planning
    <3>2. next \in 1..(Len(input) + 1) /\ Position = 1..Len(input) /\ Len(input) \in Nat
      BY Positions DEF IInv, TypeOK
    <3>3. next = Len(input) + 1
      BY <3>1, <3>2
    <3>4. next - 1 = Len(input)
      BY <3>2, <3>3
    <3> QED BY <3>1, <3>2, <3>4
  <2> QED BY <2>1, <2>2, <2>3, <2>4 DEF PlannerInvariant, Within, Budget
<1>2. Init => Filled
  BY FilledInit
<1>3. IInv /\ Filled /\ [Next]_vars => Filled'
  BY FilledNext
<1> QED BY <1>1, <1>2, <1>3, Invariance, PTL DEF Spec
-----------------------------------------------------------------------------
(* The walk over a diff.                                                   *)

(* What a change is made of. *)
LEMMA SectionFacts ==
  ASSUME change \in Patches
  PROVE  /\ change.shape \in {"git", "plain"}
         /\ change.files \in Seq(Section)
         /\ DOMAIN change.files = 1..Len(change.files)
         /\ Len(change.files) \in Nat
         /\ \A s \in DOMAIN change.files : change.files[s] \in Section /\ SoundSection(change.files[s])
         /\ \A s, t \in DOMAIN change.files :
              s # t => change.files[s].new = Null \/ change.files[s].new # change.files[t].new
<1>1. change \in PatchSpace
  BY PatchAssumption
<1>2. change.shape \in {"git", "plain"} /\ change.files \in Seq(Section)
  BY <1>1 DEF PatchSpace
<1>3. DOMAIN change.files = 1..Len(change.files) /\ Len(change.files) \in Nat
      /\ \A s \in DOMAIN change.files : change.files[s] \in Section
  BY <1>2
<1> QED BY <1>2, <1>3, PatchAssumption

LEMMA HunkFacts ==
  ASSUME NEW file \in Section
  PROVE  /\ file.old \in Path /\ file.new \in Path
         /\ DOMAIN file.hunks = 1..Len(file.hunks) /\ Len(file.hunks) \in Nat
         /\ \A h \in DOMAIN file.hunks : file.hunks[h] \in Hunk
<1>1. file.old \in Path /\ file.new \in Path /\ file.hunks \in Seq(Hunk)
  BY DEF Section
<1> QED BY <1>1

LEMMA BodyFacts ==
  ASSUME NEW hunk \in Hunk
  PROVE  /\ hunk.old \in Nat /\ hunk.new \in Nat
         /\ hunk.body \in Seq(BodyLine)
         /\ DOMAIN hunk.body = 1..Len(hunk.body) /\ Len(hunk.body) \in Nat
         /\ \A k \in DOMAIN hunk.body : /\ hunk.body[k].sign \in {"+", "-", " "}
                                        /\ hunk.body[k].open \in BOOLEAN
                                        /\ hunk.body[k].bare \in BOOLEAN
                                        /\ k \in Nat \ {0} /\ k <= Len(hunk.body)
<1>1. hunk.old \in Nat /\ hunk.new \in Nat /\ hunk.body \in Seq(BodyLine)
  BY DEF Hunk
<1>2. DOMAIN hunk.body = 1..Len(hunk.body) /\ Len(hunk.body) \in Nat
      /\ \A k \in DOMAIN hunk.body : hunk.body[k] \in BodyLine
  BY <1>1
<1>3. \A k \in DOMAIN hunk.body : k \in Nat \ {0} /\ k <= Len(hunk.body)
  BY <1>2
<1>4. \A k \in DOMAIN hunk.body : /\ hunk.body[k].sign \in {"+", "-", " "}
                                  /\ hunk.body[k].open \in BOOLEAN
                                  /\ hunk.body[k].bare \in BOOLEAN
  BY <1>2 DEF BodyLine
<1> QED BY <1>1, <1>2, <1>3, <1>4

(* Counting the lines of a side. *)
LEMMA CountIsNat ==
  ASSUME NEW body, NEW S, NEW n \in Nat
  PROVE  /\ IsFiniteSet({k \in 1..n : body[k].sign \in S})
         /\ Count(body, n, S) \in Nat
<1>1. IsFiniteSet(1..n)
  BY FS_Interval
<1>2. IsFiniteSet({k \in 1..n : body[k].sign \in S})
  BY <1>1, FS_Subset
<1> QED BY <1>2, FS_CardinalityType DEF Count

LEMMA OneLess ==
  ASSUME NEW k \in Nat \ {0}
  PROVE  k - 1 \in Nat /\ (k - 1) + 1 = k /\ k + 1 \in Nat \ {0}
  OBVIOUS

LEMMA CountZero ==
  ASSUME NEW body, NEW S
  PROVE  Count(body, 0, S) = 0
<1>1. {k \in 1..0 : body[k].sign \in S} = {}
  OBVIOUS
<1> QED BY <1>1, FS_EmptySet DEF Count

LEMMA CountStep ==
  ASSUME NEW body, NEW S, NEW n \in Nat
  PROVE  Count(body, n + 1, S) =
           IF body[n + 1].sign \in S THEN Count(body, n, S) + 1 ELSE Count(body, n, S)
<1> DEFINE T == {k \in 1..n : body[k].sign \in S}
           U == {k \in 1..(n + 1) : body[k].sign \in S}
<1>1. IsFiniteSet(T)
  BY CountIsNat
<1>2. CASE body[n + 1].sign \in S
  <2>1. U = T \cup {n + 1} /\ n + 1 \notin T
    BY <1>2
  <2>2. Cardinality(U) = Cardinality(T) + 1
    BY <2>1, <1>1, FS_AddElement
  <2> QED BY <2>2, <1>2 DEF Count
<1>3. CASE body[n + 1].sign \notin S
  <2>1. U = T
    BY <1>3
  <2> QED BY <2>1, <1>3 DEF Count
<1> QED BY <1>2, <1>3

LEMMA CountMonotone ==
  ASSUME NEW body, NEW S, NEW m \in Nat, NEW n \in Nat, m <= n
  PROVE  Count(body, m, S) <= Count(body, n, S)
<1> DEFINE T == {k \in 1..m : body[k].sign \in S}
           U == {k \in 1..n : body[k].sign \in S}
<1>1. T \in SUBSET U
  OBVIOUS
<1>2. IsFiniteSet(U)
  BY CountIsNat
<1>3. Cardinality(T) <= Cardinality(U)
  BY <1>1, <1>2, FS_Subset
<1> QED BY <1>3 DEF Count

(* A line of a side is counted before any later one.                       *)
LEMMA CountBefore ==
  ASSUME NEW body, NEW S, NEW m \in Nat, NEW n \in Nat, m + 1 <= n, body[m + 1].sign \in S
  PROVE  Count(body, m, S) + 1 <= Count(body, n, S)
<1>1. Count(body, m + 1, S) = Count(body, m, S) + 1
  BY CountStep
<1>2. Count(body, m + 1, S) <= Count(body, n, S)
  BY CountMonotone
<1> QED BY <1>1, <1>2
-----------------------------------------------------------------------------
(* Places.                                                                 *)

Heading == {"git", "old", "new", "rename"}

(* A place of the diff of the change, or its end. *)
IsPlace(p) ==
  /\ p = Place(p.is, p.s, p.h, p.k)
  /\ p.is \in Heading \cup {"hunk", "body", "note", "end"}
  /\ p.s \in Nat \ {0}
  /\ p.is = "end" <=> p.s \notin DOMAIN change.files
  /\ p.is \in Heading \cup {"end"} => p.h = 0 /\ p.k = 0
  /\ p.is \in {"git", "rename"} => change.shape = "git"
  /\ p.is \in {"old", "new"} => change.shape = "plain" \/ FileAt(p).hunks # <<>>
  /\ p.is = "rename" => FileAt(p).hunks = <<>>
  /\ p.is \in {"hunk", "body", "note"} => p.h \in DOMAIN FileAt(p).hunks
  /\ p.is = "hunk" => p.k = 0
  /\ p.is \in {"body", "note"} => p.k \in DOMAIN HunkAt(p).body

(* How many body lines of its hunk are read before a place. *)
LinesRead(p) == IF p.is \in {"body", "hunk"} THEN p.k - 1 ELSE p.k

(* A body line before a place. *)
Behind(q, p) ==
  \/ q.s < p.s
  \/ q.s = p.s /\ q.h < p.h
  \/ q.s = p.s /\ q.h = p.h /\ q.k <= LinesRead(p)

LEMMA FromSection ==
  ASSUME change \in Patches, NEW s \in Nat \ {0}
  PROVE  /\ IsPlace(SectionFrom(s))
         /\ SectionFrom(s).s = s
         /\ SectionFrom(s).h = 0
         /\ SectionFrom(s).k = 0
         /\ SectionFrom(s).is \in {"git", "old", "end"}
         /\ SectionFrom(s).is = "old" => change.shape = "plain"
  BY SectionFacts DEF SectionFrom, IsPlace, Place, Heading

LEMMA FromHunk ==
  ASSUME change \in Patches, NEW s \in DOMAIN change.files, NEW h \in Nat \ {0}
  PROVE  /\ IsPlace(HunkFrom(s, h))
         /\ \/ /\ h \in DOMAIN change.files[s].hunks
               /\ HunkFrom(s, h) = Place("hunk", s, h, 0)
            \/ /\ h \notin DOMAIN change.files[s].hunks
               /\ HunkFrom(s, h) = SectionFrom(s + 1)
<1>1. s \in Nat \ {0}
  BY SectionFacts
<1>2. CASE h \in DOMAIN change.files[s].hunks
  BY <1>1, <1>2 DEF HunkFrom, IsPlace, Place, Heading, FileAt
<1>3. CASE h \notin DOMAIN change.files[s].hunks
  <2>1. s + 1 \in Nat \ {0}
    BY <1>1
  <2>2. IsPlace(SectionFrom(s + 1))
    BY <2>1, FromSection
  <2> QED BY <2>2, <1>3 DEF HunkFrom
<1> QED BY <1>2, <1>3

LEMMA FromLine ==
  ASSUME change \in Patches, NEW s \in DOMAIN change.files,
         NEW h \in DOMAIN change.files[s].hunks, NEW k \in Nat \ {0}
  PROVE  /\ IsPlace(LineFrom(s, h, k))
         /\ \/ /\ k \in DOMAIN change.files[s].hunks[h].body
               /\ LineFrom(s, h, k) = Place("body", s, h, k)
            \/ /\ k \notin DOMAIN change.files[s].hunks[h].body
               /\ LineFrom(s, h, k) = HunkFrom(s, h + 1)
<1>1. s \in Nat \ {0} /\ h \in Nat \ {0}
  BY SectionFacts, HunkFacts
<1>2. CASE k \in DOMAIN change.files[s].hunks[h].body
  BY <1>1, <1>2 DEF LineFrom, IsPlace, Place, Heading, FileAt, HunkAt
<1>3. CASE k \notin DOMAIN change.files[s].hunks[h].body
  <2>1. h + 1 \in Nat \ {0}
    BY <1>1
  <2>2. IsPlace(HunkFrom(s, h + 1))
    BY <2>1, FromHunk
  <2> QED BY <2>2, <1>3 DEF LineFrom
<1> QED BY <1>2, <1>3

(* The line at a place. *)
LEMMA RawFacts ==
  ASSUME NEW p, p.is \in Heading \cup {"hunk", "body", "note"}
  PROVE  /\ RawAt(p).at = p
         /\ p.is = "git" => RawAt(p).like = "git" /\ RawAt(p).sign = "d"
         /\ p.is = "old" => /\ RawAt(p).like = "path" /\ RawAt(p).sign = "-"
                            /\ RawAt(p).path = Prefixed("a", FileAt(p).old)
         /\ p.is = "new" => /\ RawAt(p).like = "path" /\ RawAt(p).sign = "+"
                            /\ RawAt(p).path = Prefixed("b", FileAt(p).new)
         /\ p.is = "rename" => RawAt(p).like = "note" /\ RawAt(p).sign = "r"
         /\ p.is = "hunk" => RawAt(p).like = "hunk" /\ RawAt(p).sign = "@"
         /\ p.is = "note" => RawAt(p).like = "note" /\ RawAt(p).sign = "\\"
         /\ p.is = "body" => /\ RawAt(p).like \in {"path", "text"}
                             /\ RawAt(p).sign = IF LineAt(p).bare THEN "" ELSE LineAt(p).sign
                             /\ RawAt(p).text = LineAt(p).text
<1>1. CASE p.is = "git"
  BY <1>1 DEF RawAt, Raw
<1>2. CASE p.is = "old"
  BY <1>2 DEF RawAt, Raw
<1>3. CASE p.is = "new"
  BY <1>3 DEF RawAt, Raw
<1>4. CASE p.is = "rename"
  BY <1>4 DEF RawAt, Raw
<1>5. CASE p.is = "hunk"
  BY <1>5 DEF RawAt, Raw
<1>6. CASE p.is = "note"
  BY <1>6 DEF RawAt, Raw
<1>7. CASE p.is = "body"
  BY <1>7 DEF RawAt, Raw
<1> QED BY <1>1, <1>2, <1>3, <1>4, <1>5, <1>6, <1>7 DEF Heading

(* What a place of a body line stands for. *)
LEMMA LineFacts ==
  ASSUME change \in Patches, NEW p, IsPlace(p), p.is \in {"hunk", "body", "note"}
  PROVE  /\ p.s \in DOMAIN change.files /\ p.s \in Nat
         /\ FileAt(p) \in Section
         /\ SoundHunk(FileAt(p), p.h)
         /\ p.h \in DOMAIN FileAt(p).hunks /\ p.h \in Nat \ {0}
         /\ HunkAt(p) \in Hunk
         /\ p.is # "hunk" =>
              /\ p.k \in DOMAIN HunkAt(p).body
              /\ p.k \in Nat \ {0} /\ Len(HunkAt(p).body) \in Nat /\ p.k <= Len(HunkAt(p).body)
              /\ LineAt(p).sign \in {"+", "-", " "}
              /\ LineAt(p).bare \in BOOLEAN
              /\ LineAt(p).open \in BOOLEAN
              /\ LineAt(p).bare => LineAt(p).sign = " "
<1>1. p.s \in DOMAIN change.files /\ p.h \in DOMAIN FileAt(p).hunks
  BY DEF IsPlace
<1>2. FileAt(p) \in Section /\ SoundSection(FileAt(p)) /\ p.s \in Nat
  BY <1>1, SectionFacts DEF FileAt
<1>3. HunkAt(p) \in Hunk /\ p.h \in Nat \ {0}
  BY <1>1, <1>2, HunkFacts DEF HunkAt
<1>4. SoundHunk(FileAt(p), p.h)
  BY <1>1, <1>2 DEF SoundSection
<1>5. ASSUME p.is # "hunk"
      PROVE  /\ p.k \in DOMAIN HunkAt(p).body
             /\ p.k \in Nat \ {0} /\ Len(HunkAt(p).body) \in Nat /\ p.k <= Len(HunkAt(p).body)
             /\ LineAt(p).sign \in {"+", "-", " "}
             /\ LineAt(p).bare \in BOOLEAN
             /\ LineAt(p).open \in BOOLEAN
             /\ LineAt(p).bare => LineAt(p).sign = " "
  <2>1. p.k \in DOMAIN HunkAt(p).body
    BY <1>5 DEF IsPlace
  <2>2. /\ p.k \in Nat \ {0} /\ Len(HunkAt(p).body) \in Nat /\ p.k <= Len(HunkAt(p).body)
        /\ LineAt(p).sign \in {"+", "-", " "}
        /\ LineAt(p).bare \in BOOLEAN
        /\ LineAt(p).open \in BOOLEAN
    BY <2>1, <1>3, BodyFacts, Zenon DEF LineAt
  <2>3. LineAt(p).bare => LineAt(p).sign = " "
    BY <2>1, <1>4 DEF SoundHunk, LineAt, HunkAt
  <2> QED BY <2>1, <2>2, <2>3
<1> QED BY <1>1, <1>2, <1>3, <1>4, <1>5
-----------------------------------------------------------------------------
(* The walker's counters.                                                  *)

IsWalker(v) ==
  /\ v = [old |-> v.old, new |-> v.new, oldRem |-> v.oldRem, newRem |-> v.newRem,
          pending |-> v.pending]
  /\ v.old \in Nat /\ v.new \in Nat /\ v.oldRem \in Int /\ v.newRem \in Int
  /\ v.pending \in BOOLEAN

(* n lines of a hunk are drained. *)
Drained(hunk, n, v) ==
  /\ v.old = hunk.old + Count(hunk.body, n, OldSigns)
  /\ v.new = hunk.new + Count(hunk.body, n, NewSigns)
  /\ v.oldRem = OldCount(hunk) - Count(hunk.body, n, OldSigns)
  /\ v.newRem = NewCount(hunk) - Count(hunk.body, n, NewSigns)

Fits(p, v) ==
  /\ IsWalker(v)
  /\ v.pending <=> p.is = "new"
  /\ p.is \notin {"body", "note"} => v.oldRem = 0 /\ v.newRem = 0
  /\ p.is \in {"body", "note"} => Drained(HunkAt(p), LinesRead(p), v)

(* A side has lines left as long as a line of it comes.                    *)
LEMMA LinesLeft ==
  ASSUME NEW hunk \in Hunk, NEW n \in Nat, n + 1 <= Len(hunk.body), NEW v, Drained(hunk, n, v)
  PROVE  /\ v.oldRem \in Nat /\ v.newRem \in Nat
         /\ hunk.body[n + 1].sign \in OldSigns => v.oldRem >= 1
         /\ hunk.body[n + 1].sign \in NewSigns => v.newRem >= 1
<1>1. Len(hunk.body) \in Nat
  BY BodyFacts
<1>2. \A S : /\ Count(hunk.body, n, S) \in Nat
             /\ Count(hunk.body, Len(hunk.body), S) \in Nat
             /\ Count(hunk.body, n, S) <= Count(hunk.body, Len(hunk.body), S)
             /\ hunk.body[n + 1].sign \in S =>
                  Count(hunk.body, n, S) + 1 <= Count(hunk.body, Len(hunk.body), S)
  <2> TAKE S
  <2>1. /\ Count(hunk.body, n, S) \in Nat
        /\ Count(hunk.body, Len(hunk.body), S) \in Nat
    BY <1>1, CountIsNat
  <2>2. Count(hunk.body, n, S) <= Count(hunk.body, Len(hunk.body), S)
    BY <1>1, n <= Len(hunk.body), CountMonotone
  <2>3. hunk.body[n + 1].sign \in S =>
          Count(hunk.body, n, S) + 1 <= Count(hunk.body, Len(hunk.body), S)
    BY <1>1, CountBefore
  <2> QED BY <2>1, <2>2, <2>3
<1>3. /\ v.oldRem = Count(hunk.body, Len(hunk.body), OldSigns) - Count(hunk.body, n, OldSigns)
      /\ v.newRem = Count(hunk.body, Len(hunk.body), NewSigns) - Count(hunk.body, n, NewSigns)
  BY DEF Drained, OldCount, NewCount
<1> QED BY <1>2, <1>3

LEMMA NoneLeft ==
  ASSUME NEW hunk \in Hunk, NEW v, Drained(hunk, Len(hunk.body), v)
  PROVE  v.oldRem = 0 /\ v.newRem = 0
<1>1. Len(hunk.body) \in Nat
  BY BodyFacts
<1>2. \A S : Count(hunk.body, Len(hunk.body), S) \in Nat
  BY <1>1, CountIsNat
<1>3. /\ v.oldRem = Count(hunk.body, Len(hunk.body), OldSigns) - Count(hunk.body, Len(hunk.body), OldSigns)
      /\ v.newRem = Count(hunk.body, Len(hunk.body), NewSigns) - Count(hunk.body, Len(hunk.body), NewSigns)
  BY DEF Drained, OldCount, NewCount
<1> QED BY <1>2, <1>3

LEMMA FitsAfterLines ==
  ASSUME change \in Patches, NEW s \in DOMAIN change.files,
         NEW h \in DOMAIN change.files[s].hunks,
         NEW n \in Nat, n <= Len(change.files[s].hunks[h].body),
         NEW v, IsWalker(v), v.pending = FALSE, Drained(change.files[s].hunks[h], n, v)
  PROVE  Fits(LineFrom(s, h, n + 1), v)
<1> DEFINE hunk == change.files[s].hunks[h]
           following == LineFrom(s, h, n + 1)
<1>1. s \in Nat \ {0} /\ h \in Nat \ {0} /\ hunk \in Hunk
  BY SectionFacts, HunkFacts
<1>2. DOMAIN hunk.body = 1..Len(hunk.body) /\ Len(hunk.body) \in Nat
  BY <1>1, BodyFacts
<1>3. CASE n + 1 \in DOMAIN hunk.body
  <2>1. following = Place("body", s, h, n + 1)
    BY <1>3 DEF LineFrom
  <2>2. HunkAt(following) = hunk /\ LinesRead(following) = n /\ following.is = "body"
    BY <2>1 DEF HunkAt, FileAt, Place, LinesRead
  <2> QED BY <2>2 DEF Fits
<1>4. CASE n + 1 \notin DOMAIN hunk.body
  <2>1. n = Len(hunk.body)
    BY <1>2, <1>4
  <2>2. v.oldRem = 0 /\ v.newRem = 0
    BY <2>1, <1>1, NoneLeft
  <2>3. following = HunkFrom(s, h + 1)
    BY <1>4 DEF LineFrom
  <2>4. following.is \in {"hunk", "git", "old", "end"}
    <3>1. h + 1 \in Nat \ {0} /\ s + 1 \in Nat \ {0}
      BY <1>1
    <3>2. following = Place("hunk", s, h + 1, 0) \/ following = SectionFrom(s + 1)
      BY <3>1, <2>3, FromHunk
    <3>3. SectionFrom(s + 1).is \in {"git", "old", "end"}
      BY <3>1, FromSection
    <3> QED BY <3>2, <3>3 DEF Place
  <2> QED BY <2>2, <2>4 DEF Fits
<1> QED BY <1>3, <1>4

(* What the walk takes a line for is what it is: text that reads like a    *)
(* header is in a body, where the counters are not used up.                *)
LEMMA Kinds ==
  ASSUME change \in Patches, IsPlace(at), Fits(at, w), at.is # "end"
  PROVE  /\ IsGit(RawAt(at)) <=> at.is = "git"
         /\ IsPath(RawAt(at)) <=> at.is \in {"old", "new"}
         /\ IsHunk(RawAt(at)) <=> at.is = "hunk"
         /\ IsBody(RawAt(at)) <=> at.is = "body"
<1> DEFINE raw == RawAt(at)
<1>1. at.is \in Heading \cup {"hunk", "body", "note"}
  BY DEF IsPlace
<1>2. CASE at.is = "body"
  <2>1. /\ HunkAt(at) \in Hunk /\ LineAt(at).sign \in {"+", "-", " "}
        /\ at.k \in Nat \ {0} /\ Len(HunkAt(at).body) \in Nat /\ at.k <= Len(HunkAt(at).body)
    BY <1>2, LineFacts
  <2>2. at.k = (at.k - 1) + 1 /\ LineAt(at) = HunkAt(at).body[(at.k - 1) + 1]
    BY <2>1, OneLess DEF LineAt
  <2>3. Drained(HunkAt(at), at.k - 1, w)
    BY <1>2 DEF Fits, LinesRead
  <2>4. at.k - 1 \in Nat /\ (at.k - 1) + 1 <= Len(HunkAt(at).body)
    BY <2>1, <2>2, OneLess
  <2>5. /\ w.oldRem \in Nat /\ w.newRem \in Nat
        /\ LineAt(at).sign \in OldSigns => w.oldRem >= 1
        /\ LineAt(at).sign \in NewSigns => w.newRem >= 1
    BY <2>1, <2>2, <2>3, <2>4, LinesLeft
  <2>6. ~InHeaders
    <3>1. LineAt(at).sign \in OldSigns \/ LineAt(at).sign \in NewSigns
      BY <2>1 DEF OldSigns, NewSigns
    <3> QED BY <3>1, <2>5 DEF InHeaders
  <2>7. raw.sign # "\\"
    BY <1>1, <1>2, <2>1, RawFacts
  <2> QED BY <1>2, <2>6, <2>7 DEF IsGit, IsPath, IsHunk, IsBody
<1>3. CASE at.is = "note"
  <2>1. raw.like = "note" /\ raw.sign = "\\"
    BY <1>1, <1>3, RawFacts
  <2> QED BY <1>3, <2>1 DEF IsGit, IsPath, IsHunk, IsBody
<1>4. CASE at.is \in Heading \cup {"hunk"}
  <2>1. InHeaders
    BY <1>4 DEF Fits, InHeaders, Heading
  <2>2. /\ raw.like = "git" <=> at.is = "git"
        /\ raw.like = "path" <=> at.is \in {"old", "new"}
        /\ raw.like = "hunk" <=> at.is = "hunk"
    BY <1>1, <1>4, RawFacts DEF Heading
  <2> QED BY <1>4, <2>1, <2>2 DEF IsGit, IsPath, IsHunk, IsBody, Heading
<1> QED BY <1>1, <1>2, <1>3, <1>4

(* Which sides a body line is on. *)
LEMMA Sides ==
  ASSUME change \in Patches, NEW p, IsPlace(p), p.is = "body"
  PROVE  /\ OnOld(RawAt(p)) <=> LineAt(p).sign \in OldSigns
         /\ OnNew(RawAt(p)) <=> LineAt(p).sign \in NewSigns
         /\ OnNew(RawAt(p)) <=> LineAt(p).sign # "-"
         /\ OnOld(RawAt(p)) <=> LineAt(p).sign # "+"
<1>1. /\ LineAt(p).sign \in {"+", "-", " "}
      /\ LineAt(p).bare \in BOOLEAN
      /\ LineAt(p).bare => LineAt(p).sign = " "
  BY LineFacts
<1>2. RawAt(p).sign = IF LineAt(p).bare THEN "" ELSE LineAt(p).sign
  BY RawFacts
<1> QED BY <1>1, <1>2 DEF OnOld, OnNew, OldSigns, NewSigns

(* The next place, by the kind of this one. *)
LEMMA Next1 ==
  ASSUME NEW p
  PROVE  /\ p.is = "git" => After(p) = Place(IF FileAt(p).hunks = <<>> THEN "rename" ELSE "old", p.s, 0, 0)
         /\ p.is = "old" => After(p) = Place("new", p.s, 0, 0)
         /\ p.is \in {"rename", "new"} => After(p) = HunkFrom(p.s, 1)
         /\ p.is = "hunk" => After(p) = LineFrom(p.s, p.h, p.k + 1)
         /\ p.is = "body" /\ LineAt(p).open => After(p) = Place("note", p.s, p.h, p.k)
         /\ p.is = "body" /\ ~LineAt(p).open => After(p) = LineFrom(p.s, p.h, p.k + 1)
         /\ p.is = "note" => After(p) = LineFrom(p.s, p.h, p.k + 1)
  BY DEF After

(* What follows the headers of a section. *)
LEMMA AfterHeading ==
  ASSUME change \in Patches, NEW p, IsPlace(p), p.is \in {"rename", "new"}
  PROVE  \/ /\ 1 \in DOMAIN FileAt(p).hunks
            /\ After(p) = Place("hunk", p.s, 1, 0)
            /\ After(p).is = "hunk"
         \/ /\ 1 \notin DOMAIN FileAt(p).hunks
            /\ After(p) = SectionFrom(p.s + 1)
            /\ After(p).is \in {"git", "old", "end"}
<1>1. p.s \in DOMAIN change.files /\ p.s \in Nat \ {0} /\ p.s + 1 \in Nat \ {0}
  <2>1. p.s \in DOMAIN change.files /\ p.s \in Nat \ {0}
    BY DEF IsPlace
  <2> QED BY <2>1, OneLess
<1>2. After(p) = HunkFrom(p.s, 1)
  BY Next1
<1>3. SectionFrom(p.s + 1).is \in {"git", "old", "end"}
  BY <1>1, FromSection
<1> QED BY <1>1, <1>2, <1>3, FromHunk DEF FileAt, Place

LEMMA NextPlace ==
  ASSUME change \in Patches, NEW p, IsPlace(p), p.is # "end"
  PROVE  IsPlace(After(p))
<1>1. p.is \in Heading \cup {"hunk", "body", "note"} /\ p.s \in DOMAIN change.files /\ p.s \in Nat \ {0}
  BY DEF IsPlace
<1>2. CASE p.is = "git"
  BY <1>1, <1>2, Next1 DEF IsPlace, Place, Heading, FileAt
<1>3. CASE p.is = "old"
  BY <1>1, <1>3, Next1 DEF IsPlace, Place, Heading, FileAt
<1>4. CASE p.is \in {"rename", "new"}
  BY <1>1, <1>4, Next1, FromHunk
<1>5. CASE p.is \in {"hunk", "body", "note"}
  <2>1. p.h \in DOMAIN change.files[p.s].hunks
    BY <1>5, LineFacts DEF FileAt
  <2>2. p.k + 1 \in Nat \ {0}
    <3>1. CASE p.is = "hunk"
      BY <3>1 DEF IsPlace
    <3>2. CASE p.is \in {"body", "note"}
      <4>1. p.k \in Nat \ {0}
        BY <3>2, LineFacts
      <4> QED BY <4>1
    <3> QED BY <1>5, <3>1, <3>2
  <2>3. IsPlace(LineFrom(p.s, p.h, p.k + 1))
    BY <1>1, <2>1, <2>2, FromLine
  <2>4. CASE p.is = "body" /\ LineAt(p).open
    BY <1>1, <2>4, Next1 DEF IsPlace, Place, Heading, FileAt, HunkAt
  <2>5. CASE ~(p.is = "body" /\ LineAt(p).open)
    BY <1>5, <2>3, <2>5, Next1
  <2> QED BY <2>4, <2>5
<1> QED BY <1>1, <1>2, <1>3, <1>4, <1>5 DEF Heading

(* A body line is drained from the sides it is on.                         *)
Drain(v, o, e) == [old |-> v.old + o, new |-> v.new + e, oldRem |-> v.oldRem - o,
                   newRem |-> v.newRem - e, pending |-> v.pending]

LEMMA Draining ==
  ASSUME NEW hunk \in Hunk, NEW n \in Nat, NEW v, IsWalker(v), Drained(hunk, n, v),
         NEW o, o = (IF hunk.body[n + 1].sign \in OldSigns THEN 1 ELSE 0),
         NEW e, e = (IF hunk.body[n + 1].sign \in NewSigns THEN 1 ELSE 0)
  PROVE  /\ IsWalker(Drain(v, o, e))
         /\ Drained(hunk, n + 1, Drain(v, o, e))
         /\ Drain(v, o, e).pending = v.pending
<1> DEFINE u == Drain(v, o, e)
<1>1. /\ u.old = v.old + o /\ u.new = v.new + e
      /\ u.oldRem = v.oldRem - o /\ u.newRem = v.newRem - e
      /\ u.pending = v.pending
      /\ u = [old |-> u.old, new |-> u.new, oldRem |-> u.oldRem, newRem |-> u.newRem,
              pending |-> u.pending]
  BY DEF Drain
<1> HIDE DEF u
<1>2. o \in {0, 1} /\ e \in {0, 1}
  OBVIOUS
<1>3. /\ v.old \in Nat /\ v.new \in Nat /\ v.oldRem \in Int /\ v.newRem \in Int
      /\ v.pending \in BOOLEAN
  BY DEF IsWalker
<1>4. /\ Count(hunk.body, n + 1, OldSigns) = Count(hunk.body, n, OldSigns) + o
      /\ Count(hunk.body, n + 1, NewSigns) = Count(hunk.body, n, NewSigns) + e
      /\ Count(hunk.body, n, OldSigns) \in Nat /\ Count(hunk.body, n, NewSigns) \in Nat
  <2>1. Count(hunk.body, n, OldSigns) \in Nat /\ Count(hunk.body, n, NewSigns) \in Nat
    BY CountIsNat
  <2>2. Count(hunk.body, n + 1, OldSigns) = Count(hunk.body, n, OldSigns) + o
    BY CountStep, <2>1
  <2>3. Count(hunk.body, n + 1, NewSigns) = Count(hunk.body, n, NewSigns) + e
    BY CountStep, <2>1
  <2> QED BY <2>1, <2>2, <2>3
<1>5. /\ hunk.old \in Nat /\ hunk.new \in Nat
      /\ OldCount(hunk) \in Nat /\ NewCount(hunk) \in Nat
  BY BodyFacts, CountIsNat DEF OldCount, NewCount
<1>6. IsWalker(u)
  <2>1. v.old + o \in Nat /\ v.new + e \in Nat /\ v.oldRem - o \in Int /\ v.newRem - e \in Int
    BY <1>2, <1>3
  <2> QED BY <2>1, <1>1, <1>3 DEF IsWalker
<1>7. Drained(hunk, n + 1, u)
  <2> DEFINE a == Count(hunk.body, n, OldSigns)
             b == Count(hunk.body, n, NewSigns)
             c == OldCount(hunk)
             d == NewCount(hunk)
  <2>1. /\ v.old = hunk.old + a /\ v.new = hunk.new + b
        /\ v.oldRem = c - a /\ v.newRem = d - b
    BY DEF Drained
  <2>2. a \in Nat /\ b \in Nat /\ c \in Nat /\ d \in Nat
    BY <1>4, <1>5
  <2> HIDE DEF a, b, c, d
  <2>3. /\ v.old + o = hunk.old + (a + o) /\ v.new + e = hunk.new + (b + e)
        /\ v.oldRem - o = c - (a + o) /\ v.newRem - e = d - (b + e)
    BY <2>1, <2>2, <1>2, <1>5
  <2>4. Count(hunk.body, n + 1, OldSigns) = a + o /\ Count(hunk.body, n + 1, NewSigns) = b + e
    BY <1>4 DEF a, b
  <2>5. OldCount(hunk) = c /\ NewCount(hunk) = d
    BY DEF c, d
  <2> QED BY <2>3, <2>4, <2>5, <1>1 DEF Drained
<1> QED BY <1>1, <1>6, <1>7 DEF u

(* Whatever line is read, the counters fit the place after it. *)
LEMMA WalkerStep ==
  ASSUME change \in Patches, IsPlace(at), Fits(at, w), at.is # "end"
  PROVE  Fits(After(at), Walked(RawAt(at)))
<1> DEFINE raw == RawAt(at)
<1>1. at.is \in Heading \cup {"hunk", "body", "note"}
  BY DEF IsPlace
<1>2. /\ IsPath(raw) <=> at.is \in {"old", "new"}
      /\ IsHunk(raw) <=> at.is = "hunk"
      /\ IsBody(raw) <=> at.is = "body"
      /\ raw.at = at
  BY <1>1, Kinds, RawFacts
<1>3. IsWalker(w) /\ (w.pending <=> at.is = "new")
  BY DEF Fits
<1>4. CASE at.is \in {"git", "rename"}
  <2>1. Walked(raw) = w /\ w.oldRem = 0 /\ w.newRem = 0 /\ w.pending = FALSE
    BY <1>2, <1>3, <1>4 DEF Walked, Fits, IsWalker
  <2>2. After(at).is \notin {"body", "note", "new"}
    <3>1. CASE at.is = "git"
      BY <3>1, Next1 DEF Place
    <3>2. CASE at.is = "rename"
      BY <3>2, AfterHeading, Next1
    <3> QED BY <1>4, <3>1, <3>2
  <2> QED BY <2>1, <2>2, <1>3 DEF Fits
<1>5. CASE at.is \in {"old", "new"}
  <2>1. w.oldRem = 0 /\ w.newRem = 0
    BY <1>5 DEF Fits
  <2>2. raw.sign = "-" <=> at.is = "old"
    BY <1>1, <1>5, RawFacts
  <2>3. Walked(raw) = [w EXCEPT !.pending = raw.sign = "-"]
    BY <1>2, <1>5 DEF Walked
  <2>4. /\ IsWalker(Walked(raw)) /\ Walked(raw).oldRem = 0 /\ Walked(raw).newRem = 0
        /\ Walked(raw).pending <=> at.is = "old"
    BY <2>1, <2>2, <2>3, <1>3 DEF IsWalker
  <2>5. After(at).is \notin {"body", "note"} /\ (After(at).is = "new" <=> at.is = "old")
    <3>1. CASE at.is = "old"
      BY <3>1, Next1 DEF Place
    <3>2. CASE at.is = "new"
      BY <3>2, AfterHeading, Next1
    <3> QED BY <1>5, <3>1, <3>2
  <2> QED BY <2>4, <2>5 DEF Fits
<1>6. CASE at.is \in {"hunk", "body", "note"}
  <2>1. /\ at.s \in DOMAIN change.files /\ at.h \in DOMAIN change.files[at.s].hunks
        /\ HunkAt(at) = change.files[at.s].hunks[at.h]
        /\ HunkAt(at) \in Hunk
    BY <1>6, LineFacts DEF HunkAt, FileAt
  <2>2. w.pending = FALSE
    BY <1>3, <1>6 DEF IsWalker
  <2>3. CASE at.is = "hunk"
    <3>1. /\ HunkAt(at).old \in Nat /\ HunkAt(at).new \in Nat
          /\ OldCount(HunkAt(at)) \in Nat /\ NewCount(HunkAt(at)) \in Nat
          /\ Len(HunkAt(at).body) \in Nat
      BY <2>1, BodyFacts, CountIsNat DEF OldCount, NewCount
    <3> DEFINE v == Walked(raw)
    <3>2. v = [old |-> HunkAt(at).old, new |-> HunkAt(at).new, oldRem |-> OldCount(HunkAt(at)),
               newRem |-> NewCount(HunkAt(at)), pending |-> w.pending]
      BY <1>2, <2>3 DEF Walked
    <3>3. /\ v.old = HunkAt(at).old /\ v.new = HunkAt(at).new
          /\ v.oldRem = OldCount(HunkAt(at)) /\ v.newRem = NewCount(HunkAt(at))
          /\ v.pending = FALSE
      BY <3>2, <2>2
    <3>4. IsWalker(v)
      <4> HIDE DEF v
      <4>1. v = [old |-> v.old, new |-> v.new, oldRem |-> v.oldRem, newRem |-> v.newRem,
                 pending |-> v.pending]
        BY <3>2, <3>3, <2>2
      <4>2. v.old \in Nat /\ v.new \in Nat /\ v.oldRem \in Int /\ v.newRem \in Int
        BY <3>1, <3>3
      <4>3. v.pending \in BOOLEAN
        BY <3>3
      <4> QED BY <4>1, <4>2, <4>3, Zenon DEF IsWalker
    <3> HIDE DEF v
    <3>5. PICK n \in Nat : n = 0
      OBVIOUS
    <3>6. Drained(HunkAt(at), n, v)
      BY <3>1, <3>3, <3>5, CountZero DEF Drained
    <3>7. After(at) = LineFrom(at.s, at.h, n + 1) /\ n <= Len(HunkAt(at).body)
      BY <2>3, <3>1, <3>5, Next1 DEF IsPlace
    <3>8. Fits(After(at), v)
      BY <3>3, <3>4, <3>6, <3>7, <2>1, FitsAfterLines
    <3> QED BY <3>8 DEF v
  <2>4. CASE at.is = "body"
    <3>1. /\ at.k \in Nat \ {0} /\ Len(HunkAt(at).body) \in Nat /\ at.k <= Len(HunkAt(at).body)
          /\ at.k - 1 \in Nat /\ (at.k - 1) + 1 = at.k
      BY <2>4, LineFacts, OneLess
    <3>2. Drained(HunkAt(at), at.k - 1, w)
      BY <2>4 DEF Fits, LinesRead
    <3> DEFINE o == IF OnOld(raw) THEN 1 ELSE 0
               e == IF OnNew(raw) THEN 1 ELSE 0
               v == Walked(raw)
    <3>3. v = Drain(w, o, e)
      BY <1>2, <2>4 DEF Walked, Drain
    <3>4. /\ o = (IF HunkAt(at).body[(at.k - 1) + 1].sign \in OldSigns THEN 1 ELSE 0)
          /\ e = (IF HunkAt(at).body[(at.k - 1) + 1].sign \in NewSigns THEN 1 ELSE 0)
      BY <2>4, <3>1, Sides DEF LineAt
    <3>5. IsWalker(v) /\ Drained(HunkAt(at), (at.k - 1) + 1, v) /\ v.pending = w.pending
      <4> HIDE DEF o, e, v
      <4>1. PICK n \in Nat : n = at.k - 1
        BY <3>1
      <4>2. /\ o = (IF HunkAt(at).body[n + 1].sign \in OldSigns THEN 1 ELSE 0)
            /\ e = (IF HunkAt(at).body[n + 1].sign \in NewSigns THEN 1 ELSE 0)
            /\ Drained(HunkAt(at), n, w)
        BY <4>1, <3>2, <3>4
      <4>3. IsWalker(v) /\ Drained(HunkAt(at), n + 1, v) /\ v.pending = w.pending
        BY <4>2, <3>3, <1>3, <2>1, Draining, Zenon
      <4> QED BY <4>1, <4>3
    <3>6. Drained(HunkAt(at), at.k, v)
      BY <3>1, <3>5
    <3>7. CASE LineAt(at).open
      <4>1. After(at) = Place("note", at.s, at.h, at.k)
        BY <2>4, <3>7, Next1
      <4>2. HunkAt(After(at)) = HunkAt(at) /\ LinesRead(After(at)) = at.k /\ After(at).is = "note"
        BY <4>1 DEF HunkAt, FileAt, LinesRead, Place
      <4> QED BY <4>2, <3>5, <3>6, <2>2 DEF Fits
    <3>8. CASE ~LineAt(at).open
      <4>1. After(at) = LineFrom(at.s, at.h, at.k + 1)
        BY <2>4, <3>8, Next1
      <4> QED BY <4>1, <3>1, <3>5, <3>6, <2>1, <2>2, FitsAfterLines
    <3> QED BY <3>7, <3>8
  <2>5. CASE at.is = "note"
    <3>1. /\ at.k \in Nat \ {0} /\ Len(HunkAt(at).body) \in Nat /\ at.k <= Len(HunkAt(at).body)
      BY <2>5, LineFacts
    <3>2. Drained(HunkAt(at), at.k, w)
      BY <2>5 DEF Fits, LinesRead
    <3>3. Walked(raw) = w
      BY <1>2, <2>5 DEF Walked
    <3>4. After(at) = LineFrom(at.s, at.h, at.k + 1)
      BY <2>5, Next1
    <3> QED BY <3>1, <3>2, <3>3, <3>4, <1>3, <2>1, <2>2, FitsAfterLines
  <2> QED BY <1>6, <2>3, <2>4, <2>5
<1> QED BY <1>1, <1>4, <1>5, <1>6 DEF Heading
-----------------------------------------------------------------------------
(* The lines read are behind the next one.                                 *)

(* What follows a place in a hunk: a line of it, the next hunk, or the     *)
(* next section when no line, and no hunk, is left.                        *)
LEMMA NextInHunk ==
  ASSUME change \in Patches, NEW p, IsPlace(p), p.is \in {"hunk", "body", "note"}
  PROVE  \/ /\ After(p).s = p.s /\ After(p).h = p.h /\ After(p).is \in {"body", "note"}
            /\ LinesRead(After(p)) = p.k
            /\ p.is = "hunk" => After(p) = Place("body", p.s, p.h, 1)
         \/ /\ p.h + 1 \in DOMAIN FileAt(p).hunks
            /\ After(p) = Place("hunk", p.s, p.h + 1, 0)
            /\ p.k = Len(HunkAt(p).body)
         \/ /\ p.h + 1 \notin DOMAIN FileAt(p).hunks
            /\ After(p) = SectionFrom(p.s + 1)
            /\ p.k = Len(HunkAt(p).body)
<1>1. /\ p.s \in DOMAIN change.files /\ p.h \in DOMAIN change.files[p.s].hunks
      /\ HunkAt(p) = change.files[p.s].hunks[p.h] /\ FileAt(p) = change.files[p.s]
      /\ HunkAt(p) \in Hunk /\ p.h \in Nat \ {0}
  BY LineFacts DEF HunkAt, FileAt
<1>2. DOMAIN HunkAt(p).body = 1..Len(HunkAt(p).body) /\ Len(HunkAt(p).body) \in Nat
  BY <1>1, BodyFacts
<1>3. p.k \in Nat /\ p.k <= Len(HunkAt(p).body) /\ (p.is = "hunk" => p.k = 0)
  <2>1. CASE p.is = "hunk"
    <3>1. p.k = 0
      BY <2>1 DEF IsPlace
    <3> QED BY <3>1, <1>2
  <2>2. CASE p.is # "hunk"
    BY <2>2, LineFacts
  <2> QED BY <2>1, <2>2
<1>4. CASE p.is = "body" /\ LineAt(p).open
  <2>1. After(p) = Place("note", p.s, p.h, p.k)
    BY <1>4, Next1
  <2> QED BY <2>1, <1>4 DEF Place, LinesRead
<1>5. CASE ~(p.is = "body" /\ LineAt(p).open)
  <2>1. After(p) = LineFrom(p.s, p.h, p.k + 1)
    BY <1>5, Next1
  <2>2. p.k + 1 \in Nat \ {0} /\ p.h + 1 \in Nat \ {0}
    BY <1>1, <1>3
  <2>3. CASE p.k + 1 \in DOMAIN HunkAt(p).body
    <3>1. After(p) = Place("body", p.s, p.h, p.k + 1)
      BY <2>1, <2>3, <1>1 DEF LineFrom
    <3>2. LinesRead(After(p)) = p.k
      <4>1. LinesRead(After(p)) = (p.k + 1) - 1
        BY <3>1 DEF Place, LinesRead
      <4>2. \A n \in Nat : (n + 1) - 1 = n
        OBVIOUS
      <4> QED BY <4>1, <4>2, <1>3
    <3> QED BY <3>1, <3>2, <1>3 DEF Place
  <2>4. CASE p.k + 1 \notin DOMAIN HunkAt(p).body
    <3>1. p.k = Len(HunkAt(p).body)
      <4>1. \A k, n \in Nat : k <= n /\ ~(k + 1 \in 1..n) => k = n
        OBVIOUS
      <4> QED BY <4>1, <2>4, <1>2, <1>3
    <3>2. After(p) = HunkFrom(p.s, p.h + 1)
      BY <2>1, <2>4, <1>1 DEF LineFrom
    <3> QED BY <3>1, <3>2, <2>2, <1>1, FromHunk
  <2> QED BY <2>3, <2>4
<1> QED BY <1>4, <1>5

(* What follows a header of a section. *)
LEMMA NextHeading ==
  ASSUME change \in Patches, NEW p, IsPlace(p), p.is \in Heading
  PROVE  \/ /\ p.is \in {"git", "old"}
            /\ After(p).is \in {"old", "new", "rename"}
            /\ After(p).s = p.s /\ After(p).h = 0
         \/ p.is \in {"rename", "new"} /\ After(p) = Place("hunk", p.s, 1, 0)
         \/ /\ p.is \in {"rename", "new"} /\ After(p) = SectionFrom(p.s + 1)
            /\ 1 \notin DOMAIN FileAt(p).hunks
  BY Next1, AfterHeading DEF Place, Heading

LEMMA PlaceNumbers ==
  ASSUME change \in Patches, NEW p, IsPlace(p)
  PROVE  /\ p.s \in Nat \ {0} /\ p.s + 1 \in Nat \ {0}
         /\ p.h \in Nat /\ p.k \in Nat
         /\ p.is \in Heading \cup {"end"} => p.h = 0
         /\ p.is \notin Heading \cup {"end"} => p.h \in Nat \ {0}
         /\ LinesRead(p) \in Int
<1>1. p.s \in Nat \ {0} /\ p.is \in Heading \cup {"hunk", "body", "note", "end"}
  BY DEF IsPlace
<1>2. p.s + 1 \in Nat \ {0}
  BY <1>1, OneLess
<1>3. CASE p.is \in Heading \cup {"end"}
  BY <1>1, <1>2, <1>3 DEF IsPlace, LinesRead, Heading
<1>4. CASE p.is \in {"hunk", "body", "note"}
  <2>1. p.h \in Nat \ {0} /\ p.k \in Nat
    <3>1. p.h \in Nat \ {0} /\ (p.is # "hunk" => p.k \in Nat)
      BY <1>4, LineFacts
    <3>2. p.is = "hunk" => p.k = 0
      BY DEF IsPlace
    <3> QED BY <3>1, <3>2
  <2>2. LinesRead(p) \in Int
    BY <2>1 DEF LinesRead
  <2> QED BY <1>1, <1>2, <1>4, <2>1, <2>2 DEF Heading
<1> QED BY <1>1, <1>3, <1>4

LEMMA SectionsPass ==
  ASSUME change \in Patches, NEW p, IsPlace(p), p.is # "end"
  PROVE  After(p).s = p.s \/ (After(p).s = p.s + 1 /\ After(p).h = 0)
<1>1. SectionFrom(p.s + 1).s = p.s + 1 /\ SectionFrom(p.s + 1).h = 0
  BY PlaceNumbers, FromSection
<1>2. CASE p.is \in Heading
  BY <1>1, <1>2, NextHeading DEF Place
<1>3. CASE p.is \notin Heading
  <2>1. p.is \in {"hunk", "body", "note"}
    BY <1>3 DEF IsPlace
  <2> QED BY <1>1, <2>1, NextInHunk DEF Place
<1> QED BY <1>2, <1>3

LEMMA BehindStep ==
  ASSUME change \in Patches, NEW p, IsPlace(p), p.is # "end",
         NEW q, IsPlace(q), q.is = "body", Behind(q, p) \/ q = p
  PROVE  Behind(q, After(p))
<1>1. /\ p.s \in Nat \ {0} /\ p.h \in Nat /\ LinesRead(p) \in Int /\ p.k \in Nat
      /\ q.s \in Nat \ {0} /\ q.h \in Nat \ {0} /\ q.k \in Nat
  BY PlaceNumbers DEF Heading
<1>2. SectionFrom(p.s + 1).s = p.s + 1
  BY PlaceNumbers, FromSection
<1>3. CASE p.is \in Heading
  <2>1. p.h = 0 /\ q # p
    BY <1>3, PlaceNumbers DEF Heading
  <2>2. q.s < p.s
    BY <2>1, <1>1 DEF Behind
  <2>3. After(p).s = p.s \/ After(p).s = p.s + 1
    BY SectionsPass
  <2> QED BY <1>1, <2>2, <2>3 DEF Behind
<1>4. CASE p.is \in {"hunk", "body", "note"}
  <2>1. q.s < p.s \/ (q.s = p.s /\ q.h < p.h) \/ (q.s = p.s /\ q.h = p.h /\ q.k <= p.k)
    <3>1. LinesRead(p) <= p.k
      BY <1>1 DEF LinesRead
    <3> QED BY <1>1, <3>1 DEF Behind
  <2>2. CASE /\ After(p).s = p.s /\ After(p).h = p.h
             /\ LinesRead(After(p)) = p.k
    BY <2>1, <2>2 DEF Behind
  <2>3. CASE After(p) = Place("hunk", p.s, p.h + 1, 0)
    <3>1. After(p).s = p.s /\ After(p).h = p.h + 1
      BY <2>3 DEF Place
    <3> QED BY <3>1, <2>1, <1>1 DEF Behind
  <2>4. CASE After(p) = SectionFrom(p.s + 1)
    BY <2>1, <2>4, <1>1, <1>2 DEF Behind
  <2> QED BY <1>4, <2>2, <2>3, <2>4, NextInHunk
<1> QED BY <1>3, <1>4 DEF IsPlace
-----------------------------------------------------------------------------
(* What is read.                                                           *)

IsSequence(q) == \E S : q \in Seq(S)

LEMMA Appended ==
  ASSUME NEW q, IsSequence(q), NEW x
  PROVE  /\ IsSequence(Append(q, x))
         /\ Len(q) \in Nat
         /\ DOMAIN q = 1..Len(q)
         /\ DOMAIN Append(q, x) = DOMAIN q \cup {Len(q) + 1}
         /\ Len(q) + 1 \notin DOMAIN q
         /\ \A i \in DOMAIN q : Append(q, x)[i] = q[i]
         /\ Append(q, x)[Len(q) + 1] = x
<1>1. PICK S : q \in Seq(S)
  BY DEF IsSequence
<1> DEFINE T == S \cup {x}
<1>2. q \in Seq(T) /\ x \in T
  BY <1>1
<1>3. Append(q, x) \in Seq(T)
  BY <1>2
<1>4. Len(q) \in Nat /\ DOMAIN q = 1..Len(q)
  BY <1>2
<1>5. DOMAIN Append(q, x) = 1..(Len(q) + 1)
  BY <1>2
<1>6. /\ \A i \in 1..Len(q) : Append(q, x)[i] = q[i]
      /\ Append(q, x)[Len(q) + 1] = x
  BY <1>2
<1>7. 1..(Len(q) + 1) = 1..Len(q) \cup {Len(q) + 1} /\ Len(q) + 1 \notin 1..Len(q)
  BY <1>4
<1> QED BY <1>3, <1>4, <1>5, <1>6, <1>7 DEF IsSequence

(* The change stays, and what is said of its places with it. *)
LEMMA Still ==
  ASSUME change' = change, reader' = reader
  PROVE  /\ Strict' = Strict /\ Verbatim' = Verbatim
         /\ \A p : /\ FileAt(p)' = FileAt(p) /\ HunkAt(p)' = HunkAt(p) /\ LineAt(p)' = LineAt(p)
                   /\ OldAt(p)' = OldAt(p) /\ NewAt(p)' = NewAt(p)
                   /\ RawAt(p)' = RawAt(p)
                   /\ IsPlace(p)' <=> IsPlace(p)
         /\ \A p, v : Fits(p, v)' <=> Fits(p, v)
         /\ \A prefix, path : Prefixed(prefix, path)' = Prefixed(prefix, path)
<1>1. Strict' = Strict /\ Verbatim' = Verbatim
  BY DEF Strict, Verbatim
<1>2. \A p : FileAt(p)' = FileAt(p) /\ HunkAt(p)' = HunkAt(p) /\ LineAt(p)' = LineAt(p)
  BY DEF FileAt, HunkAt, LineAt
<1>3. \A p : OldAt(p)' = OldAt(p) /\ NewAt(p)' = NewAt(p)
  BY <1>2 DEF OldAt, NewAt
<1>4. \A prefix, path : Prefixed(prefix, path)' = Prefixed(prefix, path)
  BY DEF Prefixed
<1>5. \A p : RawAt(p)' = RawAt(p)
  BY <1>2, <1>4 DEF RawAt
<1>6. \A p : IsPlace(p)' <=> IsPlace(p)
  BY <1>2 DEF IsPlace
<1>7. \A p, v : Fits(p, v)' <=> Fits(p, v)
  BY <1>2 DEF Fits
<1> QED BY <1>1, <1>2, <1>3, <1>4, <1>5, <1>6, <1>7

(* The lines read are the first of the diff. *)
HistoryFits ==
  /\ IsSequence(diff)
  /\ \A i \in DOMAIN diff : /\ IsPlace(diff[i].at) /\ diff[i].at.is # "end"
                            /\ diff[i] = RawAt(diff[i].at)
  /\ \A i \in Body : Behind(diff[i].at, at)

(* The next line is read, and the walk goes on. *)
ReadsOn ==
  /\ at.is # "end"
  /\ ~Raises(RawAt(at))
  /\ change' = change
  /\ reader' = reader
  /\ diff' = Append(diff, RawAt(at))
  /\ at' = After(at)
  /\ w' = Walked(RawAt(at))
  /\ block' = IF Strict THEN BlockAnnotated(RawAt(at)) ELSE BlockParsed(RawAt(at))
  /\ parsed' = IF Strict THEN parsed ELSE Parsed(RawAt(at))
  /\ annotated' = IF Strict THEN Annotated(RawAt(at)) ELSE annotated

LEMMA BodyStep ==
  ASSUME change \in Patches, IsPlace(at), HistoryFits, ReadsOn
  PROVE  /\ Len(diff) + 1 \notin DOMAIN diff
         /\ DOMAIN diff' = DOMAIN diff \cup {Len(diff) + 1}
         /\ \A i \in DOMAIN diff : diff'[i] = diff[i]
         /\ diff'[Len(diff) + 1] = RawAt(at)
         /\ RawAt(at).at = at
         /\ Body' = IF at.is = "body" THEN Body \cup {Len(diff) + 1} ELSE Body
         /\ HeadLines' = IF at.is = "body" /\ LineAt(at).sign # "-" THEN HeadLines \cup {at}
                         ELSE HeadLines
<1>1. /\ Len(diff) + 1 \notin DOMAIN diff
      /\ DOMAIN diff' = DOMAIN diff \cup {Len(diff) + 1}
      /\ \A i \in DOMAIN diff : diff'[i] = diff[i]
      /\ diff'[Len(diff) + 1] = RawAt(at)
  BY Appended DEF HistoryFits, ReadsOn
<1>2. RawAt(at).at = at
  <2>1. at.is \in Heading \cup {"hunk", "body", "note"}
    BY DEF IsPlace, ReadsOn
  <2> QED BY <2>1, RawFacts
<1>3. Body' = {i \in DOMAIN diff' : diff'[i].at.is = "body"}
  BY DEF Body
<1>4. Body' = IF at.is = "body" THEN Body \cup {Len(diff) + 1} ELSE Body
  <2>1. CASE at.is = "body"
    BY <1>1, <1>2, <1>3, <2>1 DEF Body
  <2>2. CASE at.is # "body"
    BY <1>1, <1>2, <1>3, <2>2 DEF Body
  <2> QED BY <2>1, <2>2
<1>5. \A p : LineAt(p)' = LineAt(p)
  BY Still DEF ReadsOn
<1>6. HeadLines' = {diff'[i].at : i \in {j \in Body' : LineAt(diff'[j].at).sign # "-"}}
  <2>1. HeadLines' = {diff'[i].at : i \in {j \in Body' : LineAt(diff[j].at)'.sign # "-"}}
    BY DEF HeadLines
  <2> QED BY <2>1, <1>5
<1>7. \A i \in Body : i \in DOMAIN diff /\ diff'[i] = diff[i]
  BY <1>1 DEF Body
<1>8. /\ \A p : p \in HeadLines' <=> \E i \in Body' : diff'[i].at = p /\ LineAt(p).sign # "-"
      /\ \A p : p \in HeadLines <=> \E i \in Body : diff[i].at = p /\ LineAt(p).sign # "-"
  <2>1. \A p : p \in HeadLines' <=> \E i \in Body' : diff'[i].at = p /\ LineAt(p).sign # "-"
    BY <1>6
  <2>2. \A p : p \in HeadLines <=> \E i \in Body : diff[i].at = p /\ LineAt(p).sign # "-"
    BY DEF HeadLines
  <2> QED BY <2>1, <2>2
<1>9. HeadLines' = IF at.is = "body" /\ LineAt(at).sign # "-" THEN HeadLines \cup {at} ELSE HeadLines
  <2>1. CASE at.is = "body"
    <3>1. Body' = Body \cup {Len(diff) + 1} /\ diff'[Len(diff) + 1].at = at
      BY <2>1, <1>1, <1>2, <1>4
    <3>2. \A p : p \in HeadLines' <=> (p \in HeadLines \/ (p = at /\ LineAt(at).sign # "-"))
      BY <3>1, <1>7, <1>8
    <3>3. CASE LineAt(at).sign # "-"
      BY <2>1, <3>2, <3>3
    <3>4. CASE LineAt(at).sign = "-"
      BY <2>1, <3>2, <3>4
    <3> QED BY <3>3, <3>4
  <2>2. CASE at.is # "body"
    <3>1. Body' = Body
      BY <2>2, <1>4
    <3>2. \A p : p \in HeadLines' <=> p \in HeadLines
      BY <3>1, <1>7, <1>8
    <3> QED BY <2>2, <3>2
  <2> QED BY <2>1, <2>2
<1> QED BY <1>1, <1>2, <1>4, <1>9

LEMMA HistoryStep ==
  ASSUME change \in Patches, IsPlace(at), HistoryFits, ReadsOn
  PROVE  HistoryFits' /\ IsPlace(at)'
<1>1. /\ DOMAIN diff' = DOMAIN diff \cup {Len(diff) + 1}
      /\ \A i \in DOMAIN diff : diff'[i] = diff[i]
      /\ diff'[Len(diff) + 1] = RawAt(at)
      /\ RawAt(at).at = at
      /\ Body' = IF at.is = "body" THEN Body \cup {Len(diff) + 1} ELSE Body
  BY BodyStep
<1>2. \A p : (IsPlace(p)' <=> IsPlace(p)) /\ RawAt(p)' = RawAt(p)
  BY Still DEF ReadsOn
<1>3. IsPlace(at)'
  BY <1>2, NextPlace DEF ReadsOn
<1>4. IsSequence(diff)'
  BY Appended DEF HistoryFits, ReadsOn
<1>5. ASSUME NEW i \in DOMAIN diff'
      PROVE  IsPlace(diff'[i].at) /\ diff'[i].at.is # "end" /\ diff'[i] = RawAt(diff'[i].at)
  BY <1>1, <1>5 DEF HistoryFits, ReadsOn
<1>6. ASSUME NEW i \in Body' PROVE Behind(diff'[i].at, at')
  <2>1. at' = After(at) /\ at.is # "end"
    BY DEF ReadsOn
  <2>2. CASE i \in Body
    <3>1. i \in DOMAIN diff /\ diff'[i] = diff[i] /\ diff[i].at.is = "body"
      BY <2>2, <1>1 DEF Body
    <3>2. IsPlace(diff[i].at) /\ Behind(diff[i].at, at)
      BY <2>2, <3>1 DEF HistoryFits
    <3>3. Behind(diff[i].at, After(at))
      BY <2>1, <3>1, <3>2, BehindStep
    <3> QED BY <2>1, <3>1, <3>3
  <2>3. CASE i \notin Body
    <3>1. at.is = "body" /\ i = Len(diff) + 1
      BY <2>3, <1>1
    <3>2. diff'[i].at = at
      BY <3>1, <1>1
    <3>3. Behind(at, After(at))
      BY <2>1, <3>1, BehindStep
    <3> QED BY <2>1, <3>2, <3>3
  <2> QED BY <2>2, <2>3
<1>7. \A i \in DOMAIN diff' : /\ IsPlace(diff[i].at)' /\ diff'[i].at.is # "end"
                              /\ diff'[i] = RawAt(diff[i].at)'
  BY <1>2, <1>5
<1> QED BY <1>3, <1>4, <1>6, <1>7 DEF HistoryFits
-----------------------------------------------------------------------------
(* The paths of a block.                                                   *)

LEMMA PrefixedFacts ==
  ASSUME change.shape \in {"git", "plain"}, NEW x \in {"a", "b"},
         NEW path \in Path, path # <<"null">>
  PROVE  /\ Prefixed(x, path) # Null
         /\ IsNull(Prefixed(x, path)) <=> path = Null
         /\ path # Null /\ change.shape = "git" =>
              /\ Prefixed(x, path) = <<x>> \o path
              /\ StartsWith(x, Prefixed(x, path))
              /\ Tail(Prefixed(x, path)) = path
              /\ RemovePrefix(x, Prefixed(x, path)) = path
         /\ path # Null /\ change.shape = "plain" => Prefixed(x, path) = path
<1>1. path = Null => Prefixed(x, path) = <<"null">>
  BY DEF Prefixed
<1>2. <<"null">> # Null
  BY DEF Null
<1>3. ASSUME path # Null, change.shape = "git"
      PROVE  /\ Prefixed(x, path) = <<x>> \o path
             /\ Len(<<x>> \o path) > 1
             /\ Head(<<x>> \o path) = x
             /\ Tail(<<x>> \o path) = path
             /\ <<x>> \o path # <<"null">>
             /\ <<x>> \o path # Null
  <2>1. Prefixed(x, path) = <<x>> \o path
    BY <1>3 DEF Prefixed
  <2> DEFINE S == STRING \cup {x}
  <2>2. path \in Seq(S) /\ path # <<>> /\ <<x>> \in Seq(S) /\ x \in S
    <3>1. path \in Seq(STRING) /\ path # <<>>
      BY <1>3 DEF Path, Null
    <3> QED BY <3>1
  <2>3. Len(path) \in Nat /\ Len(path) > 0
    BY <2>2, EmptySeq, LenProperties
  <2>4. Len(<<x>> \o path) = 1 + Len(path) /\ <<x>> \o path \in Seq(S)
    BY <2>2
  <2>5. Len(<<x>> \o path) > 1
    BY <2>3, <2>4
  <2>6. (<<x>> \o path)[1] = x
    BY <2>2
  <2>7. Head(<<x>> \o path) = x
    BY <2>4, <2>6
  <2>8. Tail(<<x>> \o path) = path
    <3>1. Tail(<<x>> \o path) \in Seq(S)
      BY <2>4, <2>5
    <3>2. Len(Tail(<<x>> \o path)) = Len(path)
      BY <2>3, <2>4
    <3>3. ASSUME NEW i \in 1..Len(path) PROVE Tail(<<x>> \o path)[i] = path[i]
      <4>1. Tail(<<x>> \o path)[i] = (<<x>> \o path)[i + 1]
        BY <2>3, <2>4
      <4>2. (<<x>> \o path)[i + 1] = path[i]
        BY <2>2, <2>3
      <4> QED BY <4>1, <4>2
    <3> QED BY <3>1, <3>2, <3>3, <2>2, SeqEqual
  <2>9. Len(<<"null">>) = 1 /\ Len(<<>>) = 0
    OBVIOUS
  <2> QED BY <2>1, <2>5, <2>7, <2>8, <2>9 DEF Null
<1>4. path # Null /\ change.shape = "plain" => Prefixed(x, path) = path
  BY DEF Prefixed
<1>5. CASE path = Null
  BY <1>1, <1>2, <1>5 DEF IsNull
<1>6. CASE path # Null /\ change.shape = "plain"
  BY <1>4, <1>6 DEF IsNull
<1>7. CASE path # Null /\ change.shape = "git"
  <2>1. StartsWith(x, <<x>> \o path)
    BY <1>3, <1>7 DEF StartsWith
  <2> QED BY <1>3, <1>7, <2>1 DEF IsNull, RemovePrefix
<1> QED BY <1>5, <1>6, <1>7

(* Under which paths the lines of a section are known. *)
BlockPaths(file) ==
  IF Strict THEN {Named(file)}
  ELSE IF file.new = Null THEN {}
  ELSE IF Verbatim THEN {file.new}
  ELSE BothSpellings(Prefixed("b", file.new))

Tracked == change.shape = "git" /\ reader = "glab-verbatim"

BlockFits ==
  /\ block = [git |-> block.git, pending |-> block.pending, paths |-> block.paths,
              guess |-> block.guess]
  /\ change.shape = "plain" => block.git = <<>>
  /\ change.shape = "git" /\ at.is \in {"old", "new", "rename"} => block.git = GitPaths(FileAt(at))
  /\ at.is = "new" => block.pending = Prefixed("a", FileAt(at).old)
  /\ at.is \in {"hunk", "body", "note"} => block.paths = BlockPaths(FileAt(at))
  /\ Tracked /\ at.is \in {"hunk", "body", "note"} /\ FileAt(at).new # Null => block.guess = FALSE

(* A pair of path headers is read as the paths of its section: the git     *)
(* header proves the prefixes, or the shape does, and without either there *)
(* are none.                                                               *)
LEMMA PairRead ==
  ASSUME change \in Patches, reader \in ConsumersOf(change), IsPlace(at), at.is = "new", BlockFits,
         NEW old, old = Prefixed("a", FileAt(at).old),
         NEW new, new = Prefixed("b", FileAt(at).new)
  PROVE  /\ old # Null
         /\ IsNull(old) <=> FileAt(at).old = Null
         /\ IsNull(new) <=> FileAt(at).new = Null
         /\ ~Strict => PathsOf(old, new) = BlockPaths(FileAt(at))
         /\ Strict => PathAnnotated(old, new) = Named(FileAt(at))
         /\ Tracked /\ FileAt(at).new # Null =>
              /\ GitStyle(old, new)
              /\ FileAt(at).old # Null => OldSpelling(old, new) = FileAt(at).old
<1> DEFINE file == FileAt(at)
<1>1. at.s \in DOMAIN change.files
  BY DEF IsPlace
<1>2. file \in Section /\ SoundSection(file) /\ change.shape \in {"git", "plain"}
  BY <1>1, SectionFacts DEF FileAt
<1>3. /\ file.old \in Path /\ file.new \in Path
      /\ file.old # <<"null">> /\ file.new # <<"null">>
      /\ ~(file.old = Null /\ file.new = Null)
  BY <1>2, HunkFacts DEF SoundSection
<1> HIDE DEF file
<1>4. /\ old # Null /\ new # Null
      /\ IsNull(old) <=> file.old = Null
      /\ IsNull(new) <=> file.new = Null
      /\ file.old # Null /\ change.shape = "git" =>
           StartsWith("a", old) /\ Tail(old) = file.old /\ RemovePrefix("a", old) = file.old
      /\ file.new # Null /\ change.shape = "git" =>
           StartsWith("b", new) /\ Tail(new) = file.new /\ RemovePrefix("b", new) = file.new
      /\ file.old # Null /\ change.shape = "plain" => old = file.old
      /\ file.new # Null /\ change.shape = "plain" => new = file.new
  BY <1>2, <1>3, PrefixedFacts DEF file
<1>5. /\ Strict <=> reader = "annotate"
      /\ Verbatim <=> reader # "verify-both-spellings"
      /\ reader \in {"git-prefixed", "glab-verbatim", "verify-both-spellings", "annotate"}
      /\ change.shape = "plain" => reader # "git-prefixed"
  BY DEF Strict, Verbatim, ConsumersOf, Consumers
<1>6. CASE change.shape = "git"
  <2>1. block.git = << IF file.old = Null THEN file.new ELSE file.old,
                       IF file.new = Null THEN file.old ELSE file.new >>
    BY <1>6 DEF BlockFits, GitPaths, file
  <2>2. file.new # Null => GitHeaderAgrees(old, new)
    <3> SUFFICES ASSUME file.new # Null PROVE GitHeaderAgrees(old, new)
      OBVIOUS
    <3>1. block.git = << IF file.old = Null THEN file.new ELSE file.old, file.new >>
      BY <2>1
    <3>2. block.git # <<>>
      <4>1. \A a, b : <<a, b>> # <<>>
        OBVIOUS
      <4> QED BY <3>1, <4>1
    <3>3. StartsWith("b", new) /\ Tail(new) = file.new
      BY <1>4, <1>6
    <3>4. CASE file.old = Null
      BY <1>4, <3>1, <3>2, <3>3, <3>4 DEF GitHeaderAgrees
    <3>5. CASE file.old # Null
      <4>1. ~IsNull(old) /\ StartsWith("a", old) /\ Tail(old) = file.old
        BY <1>4, <1>6, <3>5
      <4> QED BY <3>1, <3>2, <3>3, <3>5, <4>1 DEF GitHeaderAgrees
    <3> QED BY <3>4, <3>5
  <2>3. Tracked /\ file.new # Null => GitStyle(old, new)
    BY <1>4, <2>2 DEF GitStyle, Tracked
  <2>4. file.new # Null /\ reader \in {"git-prefixed", "glab-verbatim", "annotate"} => Stripping(old, new)
    BY <1>5, <1>6, <2>3 DEF Stripping, Tracked
  <2>5. reader = "annotate" => Stripping(old, new)
    BY <1>6 DEF Stripping
  <2>6. ~Strict => PathsOf(old, new) = BlockPaths(file)
    <3>1. CASE file.new = Null
      BY <1>4, <3>1 DEF PathsOf, BlockPaths
    <3>2. CASE file.new # Null /\ reader = "verify-both-spellings"
      BY <1>4, <1>5, <3>2 DEF PathsOf, BlockPaths, file
    <3>3. CASE file.new # Null /\ reader \in {"git-prefixed", "glab-verbatim"}
      BY <1>4, <1>5, <1>6, <2>4, <3>3 DEF PathsOf, BlockPaths, NewSpelling
    <3> QED BY <1>5, <3>1, <3>2, <3>3
  <2>7. Strict => PathAnnotated(old, new) = Named(file)
    BY <1>3, <1>4, <1>5, <1>6, <2>5 DEF PathAnnotated, Named, OldSpelling, NewSpelling
  <2>8. Tracked /\ file.new # Null /\ file.old # Null => OldSpelling(old, new) = file.old
    BY <1>4, <1>6, <2>4 DEF Tracked, OldSpelling
  <2> QED BY <1>4, <2>3, <2>6, <2>7, <2>8 DEF file
<1>7. CASE change.shape = "plain"
  <2>1. ~GitHeaderAgrees(old, new)
    BY <1>7 DEF BlockFits, GitHeaderAgrees
  <2>2. ~Stripping(old, new)
    BY <1>5, <1>7, <2>1 DEF Stripping, GitStyle
  <2>3. ~Strict => PathsOf(old, new) = BlockPaths(file)
    BY <1>4, <1>5, <1>7, <2>2 DEF PathsOf, BlockPaths, NewSpelling, file
  <2>4. Strict => PathAnnotated(old, new) = Named(file)
    BY <1>3, <1>4, <1>7, <2>2 DEF PathAnnotated, Named, OldSpelling, NewSpelling
  <2> QED BY <1>4, <1>7, <2>3, <2>4 DEF file, Tracked
<1> QED BY <1>2, <1>6, <1>7

(* What a line does, by the kind of its place.                             *)
LEMMA BlockRead ==
  ASSUME change \in Patches, IsPlace(at), Fits(at, w), BlockFits, ReadsOn
  PROVE  /\ block'.guess = block.guess \/ at.is = "new"
         /\ at.is = "git" =>
              block' = [git |-> GitPaths(FileAt(at)), pending |-> Null,
                        paths |-> IF Strict THEN {} ELSE block.paths, guess |-> block.guess]
         /\ at.is = "old" =>
              block' = [git |-> block.git, pending |-> Prefixed("a", FileAt(at).old),
                        paths |-> IF Strict THEN {} ELSE block.paths, guess |-> block.guess]
         /\ at.is = "new" /\ ~Strict =>
              block' = [git |-> <<>>, pending |-> Null,
                        paths |-> PathsOf(block.pending, Prefixed("b", FileAt(at).new)),
                        guess |-> IF Verbatim
                                  THEN ~GitStyle(block.pending, Prefixed("b", FileAt(at).new))
                                  ELSE block.guess]
         /\ at.is = "new" /\ Strict =>
              block' = [git |-> <<>>,
                        pending |-> OldSpelling(block.pending, Prefixed("b", FileAt(at).new)),
                        paths |-> {PathAnnotated(block.pending, Prefixed("b", FileAt(at).new))},
                        guess |-> block.guess]
         /\ at.is \notin {"git", "old", "new"} => block' = block
<1> DEFINE raw == RawAt(at)
<1>1. at.is \in Heading \cup {"hunk", "body", "note"} /\ at.is # "end"
  BY DEF IsPlace, ReadsOn
<1>2. /\ IsGit(raw) <=> at.is = "git"
      /\ IsPath(raw) <=> at.is \in {"old", "new"}
      /\ raw.at = at
  BY <1>1, Kinds, RawFacts
<1>3. /\ at.is = "old" => raw.sign = "-" /\ raw.path = Prefixed("a", FileAt(at).old)
      /\ at.is = "new" => raw.sign # "-" /\ raw.path = Prefixed("b", FileAt(at).new)
  BY <1>1, RawFacts
<1>4. block' = IF Strict THEN BlockAnnotated(raw) ELSE BlockParsed(raw)
  BY DEF ReadsOn
<1>5. block = [git |-> block.git, pending |-> block.pending, paths |-> block.paths,
               guess |-> block.guess]
  BY DEF BlockFits
<1> HIDE DEF raw
<1>6. CASE at.is = "git"
  <2>1. Strict => block' = [git |-> GitPaths(FileAt(at)), pending |-> Null, paths |-> {}, guess |-> block.guess]
    BY <1>2, <1>4, <1>6 DEF BlockAnnotated
  <2>2. ~Strict => block' = [block EXCEPT !.git = GitPaths(FileAt(at)), !.pending = Null]
    BY <1>2, <1>4, <1>6 DEF BlockParsed
  <2>3. ~Strict => block' = [git |-> GitPaths(FileAt(at)), pending |-> Null, paths |-> block.paths, guess |-> block.guess]
    BY <2>2, <1>5
  <2> QED BY <2>1, <2>3, <1>6
<1>7. CASE at.is = "old"
  <2>1. Strict => block' = [block EXCEPT !.pending = Prefixed("a", FileAt(at).old), !.paths = {}]
    BY <1>2, <1>3, <1>4, <1>7 DEF BlockAnnotated
  <2>2. ~Strict => block' = [block EXCEPT !.pending = Prefixed("a", FileAt(at).old)]
    BY <1>2, <1>3, <1>4, <1>7 DEF BlockParsed
  <2>3. Strict => block' = [git |-> block.git, pending |-> Prefixed("a", FileAt(at).old), paths |-> {}, guess |-> block.guess]
    BY <2>1, <1>5
  <2>4. ~Strict => block' = [git |-> block.git, pending |-> Prefixed("a", FileAt(at).old), paths |-> block.paths, guess |-> block.guess]
    BY <2>2, <1>5
  <2> QED BY <2>3, <2>4, <1>7
<1>8. CASE at.is = "new"
  BY <1>2, <1>3, <1>4, <1>8 DEF BlockAnnotated, BlockParsed
<1>9. CASE at.is \notin {"git", "old", "new"}
  BY <1>2, <1>4, <1>9 DEF BlockAnnotated, BlockParsed
<1> QED BY <1>6, <1>7, <1>8, <1>9

LEMMA BlockStep ==
  ASSUME change \in Patches, reader \in ConsumersOf(change), IsPlace(at), Fits(at, w),
         BlockFits, ReadsOn
  PROVE  BlockFits'
<1>1. at.is \in Heading \cup {"hunk", "body", "note"} /\ at.is # "end"
  BY DEF IsPlace, ReadsOn
<1>2. /\ change' = change /\ reader' = reader /\ at' = After(at)
      /\ \A p : FileAt(p)' = FileAt(p)
      /\ Strict' = Strict /\ Verbatim' = Verbatim
      /\ \A x, path : Prefixed(x, path)' = Prefixed(x, path)
  BY Still DEF ReadsOn
<1>3. \A file : BlockPaths(file)' = BlockPaths(file)
  BY <1>2 DEF BlockPaths
<1>4. Tracked' = Tracked
  BY <1>2 DEF Tracked
<1>5. SUFFICES
        /\ block' = [git |-> block'.git, pending |-> block'.pending, paths |-> block'.paths,
                     guess |-> block'.guess]
        /\ change.shape = "plain" => block'.git = <<>>
        /\ change.shape = "git" /\ After(at).is \in {"old", "new", "rename"} =>
             block'.git = GitPaths(FileAt(After(at)))
        /\ After(at).is = "new" => block'.pending = Prefixed("a", FileAt(After(at)).old)
        /\ After(at).is \in {"hunk", "body", "note"} => block'.paths = BlockPaths(FileAt(After(at)))
        /\ Tracked /\ After(at).is \in {"hunk", "body", "note"} /\ FileAt(After(at)).new # Null =>
             block'.guess = FALSE
  <2>1. FileAt(at)' = FileAt(After(at))
    BY <1>2
  <2> QED BY <1>2, <1>3, <1>4, <2>1 DEF BlockFits
<1>6. block = [git |-> block.git, pending |-> block.pending, paths |-> block.paths,
               guess |-> block.guess]
  BY DEF BlockFits
<1>7. SectionFrom(at.s + 1).is \in {"git", "old", "end"} /\
      (SectionFrom(at.s + 1).is = "old" => change.shape = "plain")
  BY PlaceNumbers, FromSection
<1>8. CASE at.is = "git"
  <2>1. After(at).s = at.s /\ After(at).is \in {"rename", "old"}
    BY <1>8, Next1 DEF Place
  <2>2. FileAt(After(at)) = FileAt(at) /\ change.shape = "git"
    BY <2>1, <1>8 DEF FileAt, IsPlace
  <2>3. block' = [git |-> GitPaths(FileAt(at)), pending |-> Null,
                  paths |-> IF Strict THEN {} ELSE block.paths, guess |-> block.guess]
    BY <1>8, BlockRead
  <2> QED BY <2>1, <2>2, <2>3
<1>9. CASE at.is = "old"
  <2>1. After(at).s = at.s /\ After(at).is = "new"
    BY <1>9, Next1 DEF Place
  <2>2. FileAt(After(at)) = FileAt(at)
    BY <2>1 DEF FileAt
  <2>3. block' = [git |-> block.git, pending |-> Prefixed("a", FileAt(at).old),
                  paths |-> IF Strict THEN {} ELSE block.paths, guess |-> block.guess]
    BY <1>9, BlockRead
  <2>4. /\ change.shape = "plain" => block.git = <<>>
        /\ change.shape = "git" => block.git = GitPaths(FileAt(at))
    BY <1>9 DEF BlockFits
  <2> QED BY <2>1, <2>2, <2>3, <2>4
<1>10. CASE at.is = "new"
  <2> DEFINE old == Prefixed("a", FileAt(at).old)
             new == Prefixed("b", FileAt(at).new)
  <2>1. block.pending = old
    BY <1>10 DEF BlockFits
  <2>2. /\ ~Strict => PathsOf(old, new) = BlockPaths(FileAt(at))
        /\ Strict => PathAnnotated(old, new) = Named(FileAt(at))
        /\ Tracked /\ FileAt(at).new # Null => GitStyle(old, new)
    BY <1>10, PairRead
  <2>3. /\ block'.git = <<>>
        /\ block' = [git |-> block'.git, pending |-> block'.pending, paths |-> block'.paths,
                     guess |-> block'.guess]
    BY <1>10, BlockRead
  <2>4. block'.paths = BlockPaths(FileAt(at))
    <3>1. CASE Strict
      <4>1. block'.paths = {PathAnnotated(old, new)}
        BY <1>10, <2>1, <3>1, BlockRead
      <4> QED BY <4>1, <2>2, <3>1 DEF BlockPaths
    <3>2. CASE ~Strict
      <4>1. block'.paths = PathsOf(old, new)
        BY <1>10, <2>1, <3>2, BlockRead
      <4> QED BY <4>1, <2>2, <3>2
    <3> QED BY <3>1, <3>2
  <2>5. Tracked /\ FileAt(at).new # Null => block'.guess = FALSE
    <3>1. Tracked => ~Strict /\ Verbatim
      BY DEF Tracked, Strict, Verbatim
    <3>2. ~Strict /\ Verbatim => block'.guess = ~GitStyle(old, new)
      BY <1>10, <2>1, BlockRead
    <3> QED BY <3>1, <3>2, <2>2
  <2>6. CASE After(at) = Place("hunk", at.s, 1, 0)
    <3>1. FileAt(After(at)) = FileAt(at) /\ After(at).is = "hunk"
      BY <2>6 DEF FileAt, Place
    <3> QED BY <2>3, <2>4, <2>5, <3>1
  <2>7. CASE After(at) = SectionFrom(at.s + 1)
    BY <2>3, <2>7, <1>7
  <2> QED BY <1>10, <2>6, <2>7, AfterHeading
<1>11. CASE at.is = "rename"
  <2>1. 1 \notin DOMAIN FileAt(at).hunks
    <3>1. FileAt(at).hunks = <<>>
      BY <1>11 DEF IsPlace
    <3> QED BY <3>1
  <2>2. After(at) = SectionFrom(at.s + 1)
    BY <1>11, <2>1, AfterHeading
  <2>3. block' = block
    BY <1>11, BlockRead
  <2>4. change.shape = "plain" => block.git = <<>>
    BY DEF BlockFits
  <2> QED BY <1>6, <1>7, <2>2, <2>3, <2>4
<1>12. CASE at.is \in {"hunk", "body", "note"}
  <2>1. block' = block
    BY <1>12, BlockRead
  <2>2. /\ change.shape = "plain" => block.git = <<>>
        /\ block.paths = BlockPaths(FileAt(at))
        /\ Tracked /\ FileAt(at).new # Null => block.guess = FALSE
    BY <1>12 DEF BlockFits
  <2>3. CASE After(at).s = at.s /\ After(at).is \in {"hunk", "body", "note"}
    <3>1. FileAt(After(at)) = FileAt(at)
      BY <2>3 DEF FileAt
    <3> QED BY <1>6, <2>1, <2>2, <2>3, <3>1
  <2>4. CASE After(at) = SectionFrom(at.s + 1)
    BY <1>6, <1>7, <2>1, <2>2, <2>4
  <2>5. \/ After(at).s = at.s /\ After(at).is \in {"hunk", "body", "note"}
        \/ After(at) = SectionFrom(at.s + 1)
    BY <1>12, NextInHunk DEF Place
  <2> QED BY <2>3, <2>4, <2>5
<1> QED BY <1>1, <1>8, <1>9, <1>10, <1>11, <1>12 DEF Heading
-----------------------------------------------------------------------------
(* What parse_diff has collected.                                          *)

(* A line of the head has its number in a file that has a head.            *)
LEMMA HeadLine ==
  ASSUME change \in Patches, NEW p, IsPlace(p), p.is = "body", LineAt(p).sign # "-"
  PROVE  /\ FileAt(p).new # Null
         /\ HunkAt(p).new \in Nat /\ HunkAt(p).new >= 1
         /\ NewAt(p) \in Nat
         /\ HunkAt(p).new <= NewAt(p)
         /\ NewAt(p) + 1 <= HunkAt(p).new + NewCount(HunkAt(p))
         /\ NewCount(HunkAt(p)) \in Nat \ {0}
         /\ \A g \in 1..(p.h - 1) :
              FileAt(p).hunks[g].new + NewCount(FileAt(p).hunks[g]) <= HunkAt(p).new
<1>1. /\ HunkAt(p) \in Hunk /\ p.k \in Nat \ {0} /\ Len(HunkAt(p).body) \in Nat
      /\ p.k <= Len(HunkAt(p).body)
      /\ LineAt(p).sign \in {"+", "-", " "} /\ SoundHunk(FileAt(p), p.h)
  BY LineFacts
<1>2. HunkAt(p).new \in Nat
  BY <1>1, BodyFacts
<1>3. PICK n \in Nat : n + 1 = p.k /\ n = p.k - 1
  BY <1>1, OneLess
<1>4. HunkAt(p).body[n + 1].sign \in NewSigns
  BY <1>1, <1>3 DEF LineAt, NewSigns
<1>5. /\ Count(HunkAt(p).body, n, NewSigns) \in Nat
      /\ NewCount(HunkAt(p)) \in Nat
      /\ Count(HunkAt(p).body, n, NewSigns) + 1 <= NewCount(HunkAt(p))
  BY <1>1, <1>3, <1>4, CountIsNat, CountBefore DEF NewCount
<1>6. NewAt(p) = HunkAt(p).new + Count(HunkAt(p).body, n, NewSigns)
  BY <1>3 DEF NewAt
<1>7. NewCount(HunkAt(p)) # 0
  BY <1>5
<1>8. /\ HunkAt(p).new >= 1 /\ FileAt(p).new # Null
      /\ \A g \in 1..(p.h - 1) :
           FileAt(p).hunks[g].new + NewCount(FileAt(p).hunks[g]) <= HunkAt(p).new
  BY <1>1, <1>7 DEF SoundHunk, HunkAt
<1> QED BY <1>2, <1>5, <1>6, <1>7, <1>8

(* No two lines of the head have a file and a number in common.            *)
LEMMA Apart ==
  ASSUME change \in Patches,
         NEW p, IsPlace(p), p.is = "body", LineAt(p).sign # "-",
         NEW q, IsPlace(q), q.is = "body", LineAt(q).sign # "-", Behind(q, p)
  PROVE  FileAt(q).new # FileAt(p).new \/ NewAt(q) # NewAt(p)
<1>1. /\ p.s \in DOMAIN change.files /\ q.s \in DOMAIN change.files
      /\ p.s \in Nat /\ q.s \in Nat /\ p.h \in Nat /\ q.h \in Nat \ {0}
      /\ p.k \in Nat \ {0} /\ q.k \in Nat \ {0}
      /\ LineAt(q).sign \in {"+", "-", " "}
  BY LineFacts
<1>2. /\ FileAt(q).new # Null
      /\ NewAt(p) \in Nat /\ NewAt(q) \in Nat
      /\ HunkAt(p).new \in Nat /\ HunkAt(p).new <= NewAt(p)
      /\ NewCount(HunkAt(q)) \in Nat /\ HunkAt(q).new \in Nat
      /\ NewAt(q) + 1 <= HunkAt(q).new + NewCount(HunkAt(q))
      /\ \A g \in 1..(p.h - 1) :
           FileAt(p).hunks[g].new + NewCount(FileAt(p).hunks[g]) <= HunkAt(p).new
  BY HeadLine
<1>3. CASE q.s < p.s
  <2>1. q.s # p.s
    <3>1. \A a, b \in Nat : a < b => a # b
      OBVIOUS
    <3> QED BY <1>1, <1>3, <3>1
  <2>2. change.files[q.s].new = Null \/ change.files[q.s].new # change.files[p.s].new
    BY <2>1, <1>1, SectionFacts
  <2> QED BY <2>2, <1>2 DEF FileAt
<1>4. CASE q.s = p.s /\ q.h < p.h
  <2>1. q.h \in 1..(p.h - 1)
    <3>1. \A a \in Nat \ {0} : \A b \in Nat : a < b => a \in 1..(b - 1)
      OBVIOUS
    <3> QED BY <1>1, <1>4, <3>1
  <2>2. FileAt(p).hunks[q.h] = HunkAt(q)
    BY <1>4 DEF HunkAt, FileAt
  <2>3. HunkAt(q).new + NewCount(HunkAt(q)) <= HunkAt(p).new
    BY <1>2, <2>1, <2>2
  <2> HIDE DEF NewAt
  <2>4. NewAt(q) # NewAt(p)
    BY <2>3, <1>2
  <2> QED BY <2>4
<1>5. CASE q.s = p.s /\ q.h = p.h /\ q.k <= p.k - 1
  <2>1. HunkAt(q) = HunkAt(p)
    BY <1>5 DEF HunkAt, FileAt
  <2>2. PICK m \in Nat : m = q.k - 1 /\ m + 1 = q.k
    BY <1>1, OneLess
  <2>3. PICK n \in Nat : n = p.k - 1 /\ n + 1 = p.k
    BY <1>1, OneLess
  <2>4. m + 1 <= n
    BY <1>5, <2>2, <2>3
  <2>5. HunkAt(p).body[m + 1].sign \in NewSigns
    BY <1>1, <2>1, <2>2 DEF LineAt, NewSigns
  <2>6. Count(HunkAt(p).body, m, NewSigns) + 1 <= Count(HunkAt(p).body, n, NewSigns)
    BY <2>4, <2>5, CountBefore
  <2>7. Count(HunkAt(p).body, m, NewSigns) \in Nat /\ Count(HunkAt(p).body, n, NewSigns) \in Nat
    BY CountIsNat
  <2>8. /\ NewAt(q) = HunkAt(p).new + Count(HunkAt(p).body, m, NewSigns)
        /\ NewAt(p) = HunkAt(p).new + Count(HunkAt(p).body, n, NewSigns)
    BY <2>1, <2>2, <2>3 DEF NewAt
  <2> QED BY <2>6, <2>7, <2>8, <1>2
<1> QED BY <1>3, <1>4, <1>5 DEF Behind, LinesRead

(* The counters at a body line are its numbers. *)
LEMMA Numbers ==
  ASSUME IsPlace(at), Fits(at, w), at.is = "body"
  PROVE  w.old = OldAt(at) /\ w.new = NewAt(at)
<1>1. Drained(HunkAt(at), at.k - 1, w)
  BY DEF Fits, LinesRead
<1> QED BY <1>1 DEF Drained, OldAt, NewAt

LEMMA Overridden ==
  ASSUME NEW f, NEW g
  PROVE  /\ DOMAIN Override(f, g) = DOMAIN f \cup DOMAIN g
         /\ \A k \in DOMAIN g : Override(f, g)[k] = g[k]
         /\ \A k \in DOMAIN f : k \notin DOMAIN g => Override(f, g)[k] = f[k]
  BY DEF Override

(* The spellings of a path. *)
LEMMA Spellings ==
  ASSUME change.shape \in {"git", "plain"}, NEW path \in Path, path # Null, path # <<"null">>
  PROVE  /\ path \in BothSpellings(Prefixed("b", path))
         /\ BothSpellings(Prefixed("b", path)) \subseteq BothSpellings(path) \cup {<<"b">> \o path}
<1>1. CASE change.shape = "plain"
  <2>1. Prefixed("b", path) = path
    BY <1>1, PrefixedFacts
  <2> QED BY <2>1 DEF BothSpellings
<1>2. CASE change.shape = "git"
  <2> DEFINE new == Prefixed("b", path)
  <2>1. new = <<"b">> \o path /\ RemovePrefix("b", new) = path /\ StartsWith("b", new)
    BY <1>2, PrefixedFacts
  <2> HIDE DEF new
  <2>2. RemovePrefix("a", new) = new
    BY <2>1 DEF RemovePrefix, StartsWith
  <2>3. BothSpellings(new) = {new, path}
    BY <2>1, <2>2 DEF BothSpellings
  <2>4. path \in BothSpellings(path)
    BY DEF BothSpellings
  <2> QED BY <2>1, <2>3, <2>4 DEF new
<1> QED BY <1>1, <1>2

(* The paths under which a line of the head is known. *)
LEMMA KnownUnder ==
  ASSUME change \in Patches, IsPlace(at), at.is = "body", LineAt(at).sign # "-", BlockFits, ~Strict
  PROVE  /\ FileAt(at).new \in block.paths
         /\ Verbatim => block.paths = {FileAt(at).new}
         /\ block.paths \subseteq BothSpellings(FileAt(at).new) \cup {<<"b">> \o FileAt(at).new}
<1>1. at.s \in DOMAIN change.files
  BY DEF IsPlace
<1>2. FileAt(at) \in Section /\ SoundSection(FileAt(at)) /\ change.shape \in {"git", "plain"}
  BY <1>1, SectionFacts DEF FileAt
<1>3. FileAt(at).new \in Path /\ FileAt(at).new # <<"null">>
  BY <1>2, HunkFacts DEF SoundSection
<1>4. FileAt(at).new # Null
  BY HeadLine
<1>5. block.paths = BlockPaths(FileAt(at))
  BY DEF BlockFits
<1>6. CASE Verbatim
  <2>1. block.paths = {FileAt(at).new}
    BY <1>4, <1>5, <1>6 DEF BlockPaths
  <2> QED BY <2>1, <1>6 DEF BothSpellings
<1>7. CASE ~Verbatim
  <2>1. block.paths = BothSpellings(Prefixed("b", FileAt(at).new))
    BY <1>4, <1>5, <1>7 DEF BlockPaths
  <2> QED BY <2>1, <1>2, <1>3, <1>4, <1>7, Spellings
<1> QED BY <1>6, <1>7

(* What a line adds to the facts, by the kind of its place. *)
LEMMA ParsedRead ==
  ASSUME change \in Patches, IsPlace(at), Fits(at, w), BlockFits, ReadsOn, ~Strict,
         parsed = [valid |-> parsed.valid, newFiles |-> parsed.newFiles, oldPaths |-> parsed.oldPaths]
  PROVE  /\ at.is \in {"git", "old", "rename", "note"} => parsed' = parsed
         /\ at.is = "new" =>
              parsed' = PathsParsed(Prefixed("a", FileAt(at).old), Prefixed("b", FileAt(at).new))
         /\ at.is = "hunk" =>
              /\ parsed'.valid = parsed.valid /\ parsed'.oldPaths = parsed.oldPaths
              /\ \/ parsed'.newFiles = parsed.newFiles
                 \/ block.guess /\ parsed'.newFiles = parsed.newFiles \cup block.paths
              /\ parsed' = [valid |-> parsed'.valid, newFiles |-> parsed'.newFiles,
                            oldPaths |-> parsed'.oldPaths]
         /\ at.is = "body" /\ LineAt(at).sign = "-" => parsed' = parsed
         /\ at.is = "body" /\ LineAt(at).sign # "-" =>
              parsed' = [valid |-> Override(parsed.valid,
                                     [k \in block.paths \X {w.new} |->
                                        [old |-> IF LineAt(at).sign # "+" THEN w.old ELSE 0,
                                         text |-> LineAt(at).text]]),
                         newFiles |-> parsed.newFiles, oldPaths |-> parsed.oldPaths]
<1> DEFINE raw == RawAt(at)
<1>1. at.is \in Heading \cup {"hunk", "body", "note"} /\ at.is # "end"
  BY DEF IsPlace, ReadsOn
<1>2. /\ IsGit(raw) <=> at.is = "git"
      /\ IsPath(raw) <=> at.is \in {"old", "new"}
      /\ IsHunk(raw) <=> at.is = "hunk"
      /\ IsBody(raw) <=> at.is = "body"
      /\ raw.at = at
  BY <1>1, Kinds, RawFacts
<1>3. /\ at.is = "old" => raw.sign = "-"
      /\ at.is = "new" => raw.sign # "-" /\ raw.path = Prefixed("b", FileAt(at).new)
      /\ at.is = "body" => raw.text = LineAt(at).text
  BY <1>1, RawFacts
<1>4. at.is = "body" => /\ OnNew(raw) <=> LineAt(at).sign # "-"
                        /\ OnOld(raw) <=> LineAt(at).sign # "+"
  BY Sides
<1>5. parsed' = Parsed(raw)
  BY DEF ReadsOn
<1>6. at.is = "new" => block.pending = Prefixed("a", FileAt(at).old)
  BY DEF BlockFits
<1> HIDE DEF raw
<1>7. CASE at.is \in {"git", "old", "rename", "note"}
  BY <1>2, <1>3, <1>5, <1>7 DEF Parsed
<1>8. CASE at.is = "new"
  BY <1>2, <1>3, <1>5, <1>6, <1>8 DEF Parsed
<1>9. CASE at.is = "hunk"
  <2>1. \/ parsed' = parsed
        \/ block.guess /\ parsed' = [parsed EXCEPT !.newFiles = @ \cup block.paths]
    BY <1>2, <1>5, <1>9 DEF Parsed
  <2>2. CASE parsed' = parsed
    BY <1>9, <2>2
  <2>3. CASE block.guess /\ parsed' = [parsed EXCEPT !.newFiles = @ \cup block.paths]
    <3>1. parsed' = [valid |-> parsed.valid, newFiles |-> parsed.newFiles \cup block.paths,
                     oldPaths |-> parsed.oldPaths]
      BY <2>3
    <3> QED BY <1>9, <2>3, <3>1
  <2> QED BY <2>1, <2>2, <2>3
<1>10. CASE at.is = "body" /\ LineAt(at).sign = "-"
  BY <1>2, <1>4, <1>5, <1>10 DEF Parsed
<1>11. CASE at.is = "body" /\ LineAt(at).sign # "-"
  <2> DEFINE added == [k \in block.paths \X {w.new} |->
                         [old |-> IF LineAt(at).sign # "+" THEN w.old ELSE 0, text |-> LineAt(at).text]]
  <2>1. parsed' = [parsed EXCEPT !.valid = Override(@, [k \in block.paths \X {w.new} |->
                     [old |-> IF OnOld(raw) THEN w.old ELSE 0, text |-> raw.text]])]
    BY <1>2, <1>4, <1>5, <1>11 DEF Parsed
  <2>2. parsed' = [parsed EXCEPT !.valid = Override(@, added)]
    BY <2>1, <1>3, <1>4, <1>11
  <2> HIDE DEF added
  <2>3. parsed' = [valid |-> Override(parsed.valid, added), newFiles |-> parsed.newFiles,
                   oldPaths |-> parsed.oldPaths]
    BY <2>2
  <2> QED BY <2>3, <1>11 DEF added
<1> QED BY <1>1, <1>7, <1>8, <1>9, <1>10, <1>11 DEF Heading

(* A body line is known where it is read, and stays known.                 *)
LEMMA LinesStep ==
  ASSUME change \in Patches, IsPlace(at), Fits(at, w), HistoryFits, BlockFits, ReadsOn, ~Strict,
         parsed = [valid |-> parsed.valid, newFiles |-> parsed.newFiles, oldPaths |-> parsed.oldPaths],
         LinesAreKnown, KnownAreLines
  PROVE  LinesAreKnown' /\ KnownAreLines'
<1>1. /\ \A p : FileAt(p)' = FileAt(p) /\ LineAt(p)' = LineAt(p)
              /\ OldAt(p)' = OldAt(p) /\ NewAt(p)' = NewAt(p)
      /\ Verbatim' = Verbatim
  BY Still DEF ReadsOn
<1>2. HeadLines' = IF at.is = "body" /\ LineAt(at).sign # "-" THEN HeadLines \cup {at} ELSE HeadLines
  BY BodyStep
<1>3. \A path : BothSpellings(path)' = BothSpellings(path)
  BY DEF BothSpellings
<1> DEFINE Is(p, valid) ==
             /\ <<FileAt(p).new, NewAt(p)>> \in DOMAIN valid
             /\ Verbatim => valid[<<FileAt(p).new, NewAt(p)>>] =
                  [old |-> IF LineAt(p).sign = "+" THEN 0 ELSE OldAt(p), text |-> LineAt(p).text]
           Of(p, k) ==
             /\ k[2] = NewAt(p)
             /\ IF Verbatim THEN k[1] = FileAt(p).new
                ELSE k[1] \in BothSpellings(FileAt(p).new) \cup {<<"b">> \o FileAt(p).new}
<1>4. SUFFICES /\ \A p \in HeadLines' : Is(p, parsed'.valid)
               /\ \A k \in DOMAIN parsed'.valid : \E p \in HeadLines' : Of(p, k)
  BY <1>1, <1>3 DEF LinesAreKnown, KnownAreLines
<1>5. /\ \A p \in HeadLines : Is(p, parsed.valid)
      /\ \A k \in DOMAIN parsed.valid : \E p \in HeadLines : Of(p, k)
  BY DEF LinesAreKnown, KnownAreLines
<1>6. CASE ~(at.is = "body" /\ LineAt(at).sign # "-")
  <2>1. parsed'.valid = parsed.valid
    <3>1. at.is \in Heading \cup {"hunk", "body", "note"}
      BY DEF IsPlace, ReadsOn
    <3>2. at.is = "new" => parsed'.valid = parsed.valid
      BY ParsedRead DEF PathsParsed
    <3> QED BY <1>6, <3>1, <3>2, ParsedRead DEF Heading
  <2> QED BY <1>2, <1>5, <1>6, <2>1
<1>7. CASE at.is = "body" /\ LineAt(at).sign # "-"
  <2> DEFINE key == <<FileAt(at).new, NewAt(at)>>
             entry == [old |-> IF LineAt(at).sign = "+" THEN 0 ELSE OldAt(at), text |-> LineAt(at).text]
             added == [k \in block.paths \X {NewAt(at)} |-> entry]
  <2>1. w.old = OldAt(at) /\ w.new = NewAt(at)
    BY <1>7, Numbers
  <2>2. parsed'.valid = Override(parsed.valid, [k \in block.paths \X {w.new} |->
                                   [old |-> IF LineAt(at).sign # "+" THEN w.old ELSE 0,
                                    text |-> LineAt(at).text]])
    BY <1>7, ParsedRead
  <2>3. [old |-> IF LineAt(at).sign # "+" THEN w.old ELSE 0, text |-> LineAt(at).text] = entry
    BY <2>1
  <2>4. parsed'.valid = Override(parsed.valid, added)
    BY <2>1, <2>2, <2>3
  <2>5. /\ DOMAIN added = block.paths \X {NewAt(at)}
        /\ \A k \in DOMAIN added : added[k] = entry
    OBVIOUS
  <2> HIDE DEF added, entry
  <2>6. /\ DOMAIN parsed'.valid = DOMAIN parsed.valid \cup DOMAIN added
        /\ \A k \in DOMAIN added : parsed'.valid[k] = entry
        /\ \A k \in DOMAIN parsed.valid : k \notin DOMAIN added => parsed'.valid[k] = parsed.valid[k]
    <3> DEFINE all == Override(parsed.valid, added)
    <3>1. /\ DOMAIN all = DOMAIN parsed.valid \cup DOMAIN added
          /\ \A k \in DOMAIN added : all[k] = added[k]
          /\ \A k \in DOMAIN parsed.valid : k \notin DOMAIN added => all[k] = parsed.valid[k]
      BY Overridden
    <3>2. parsed'.valid = all
      BY <2>4
    <3> HIDE DEF all
    <3> QED BY <2>5, <3>1, <3>2
  <2>7. /\ FileAt(at).new \in block.paths
        /\ Verbatim => block.paths = {FileAt(at).new}
        /\ block.paths \subseteq BothSpellings(FileAt(at).new) \cup {<<"b">> \o FileAt(at).new}
    BY <1>7, KnownUnder
  <2>8. key \in DOMAIN added
    BY <2>5, <2>7
  <2>9. Is(at, parsed'.valid)
    BY <2>6, <2>8 DEF entry
  <2>10. ASSUME NEW p \in HeadLines PROVE Is(p, parsed'.valid)
    <3>1. <<FileAt(p).new, NewAt(p)>> \in DOMAIN parsed'.valid
      BY <1>5, <2>6
    <3>2. ASSUME Verbatim
          PROVE  parsed'.valid[<<FileAt(p).new, NewAt(p)>>] = parsed.valid[<<FileAt(p).new, NewAt(p)>>]
      <4>1. PICK i \in Body : diff[i].at = p /\ LineAt(p).sign # "-"
        BY DEF HeadLines
      <4>2. i \in DOMAIN diff /\ p.is = "body"
        BY <4>1 DEF Body
      <4>3. IsPlace(p) /\ Behind(p, at)
        BY <4>1, <4>2 DEF HistoryFits
      <4>4. FileAt(p).new # FileAt(at).new \/ NewAt(p) # NewAt(at)
        BY <1>7, <4>1, <4>2, <4>3, Apart
      <4>5. <<FileAt(p).new, NewAt(p)>> \notin DOMAIN added
        BY <2>5, <2>7, <3>2, <4>4
      <4> QED BY <1>5, <2>6, <4>5
    <3> QED BY <1>5, <3>1, <3>2
  <2>11. ASSUME NEW k \in DOMAIN parsed'.valid PROVE \E p \in HeadLines' : Of(p, k)
    <3>1. CASE k \in DOMAIN parsed.valid
      BY <1>2, <1>5, <1>7, <3>1
    <3>2. CASE k \in DOMAIN added
      <4>1. k[1] \in block.paths /\ k[2] = NewAt(at)
        BY <2>5, <3>2
      <4>2. Of(at, k)
        BY <2>7, <4>1
      <4> QED BY <1>2, <1>7, <4>2
    <3> QED BY <2>6, <3>1, <3>2
  <2> QED BY <1>2, <1>7, <2>9, <2>10, <2>11
<1> QED BY <1>6, <1>7

(* The sections of which the paths are read. *)
Opened(p, s) ==
  \/ s < p.s /\ change.files[s].hunks # <<>>
  \/ s = p.s /\ p.is \in {"hunk", "body", "note"}

LEMMA OpenedStep ==
  ASSUME change \in Patches, NEW p, IsPlace(p), p.is # "end", change.shape = "git",
         NEW s \in DOMAIN change.files
  PROVE  /\ Opened(After(p), s) <=> Opened(p, s) \/ (p.is = "new" /\ s = p.s)
         /\ p.is = "new" => ~Opened(p, p.s)
<1>1. s \in Nat /\ p.s \in Nat \ {0} /\ p.s \in DOMAIN change.files
  BY SectionFacts DEF IsPlace
<1>2. FileAt(p) = change.files[p.s] /\ DOMAIN <<>> = {}
  BY DEF FileAt
<1>3. /\ SectionFrom(p.s + 1).s = p.s + 1
      /\ SectionFrom(p.s + 1).is \in {"git", "old", "end"}
  BY PlaceNumbers, FromSection
<1>4. s < p.s + 1 <=> (s < p.s \/ s = p.s)
  <2>1. \A a, b \in Nat : a < b + 1 <=> (a < b \/ a = b)
    OBVIOUS
  <2> QED BY <1>1, <2>1
<1>5. s = p.s => ~(s < p.s)
  <2>1. \A a \in Nat : ~(a < a)
    OBVIOUS
  <2> QED BY <1>1, <2>1
<1>6. s = p.s + 1 => ~(s < p.s) /\ s # p.s
  <2>1. \A a \in Nat : ~(a + 1 < a) /\ a + 1 # a
    OBVIOUS
  <2> QED BY <1>1, <2>1
<1>7. ~(p.s < p.s)
  <2>1. \A a \in Nat : ~(a < a)
    OBVIOUS
  <2> QED BY <1>1, <2>1
<1>8. CASE p.is \in {"git", "old"}
  <2>1. After(p).s = p.s /\ After(p).is \notin {"hunk", "body", "note"}
    BY <1>8, Next1 DEF Place
  <2> QED BY <2>1, <1>8 DEF Opened
<1>9. CASE p.is = "rename"
  <2>1. FileAt(p).hunks = <<>>
    BY <1>9 DEF IsPlace
  <2>2. After(p) = SectionFrom(p.s + 1)
    BY <1>2, <1>9, <2>1, AfterHeading
  <2> QED BY <1>2, <1>3, <1>4, <1>5, <1>6, <1>9, <2>1, <2>2 DEF Opened
<1>10. CASE p.is = "new"
  <2>1. FileAt(p).hunks # <<>>
    BY <1>10 DEF IsPlace
  <2>2. 1 \in DOMAIN FileAt(p).hunks
    <3>1. FileAt(p).hunks \in Seq(Hunk)
      BY <1>1, <1>2, SectionFacts DEF Section
    <3> QED BY <2>1, <3>1
  <2>3. After(p) = Place("hunk", p.s, 1, 0)
    BY <1>10, <2>2, AfterHeading
  <2>4. After(p).s = p.s /\ After(p).is = "hunk"
    BY <2>3 DEF Place
  <2> QED BY <1>7, <1>10, <2>4 DEF Opened
<1>11. CASE p.is \in {"hunk", "body", "note"}
  <2>1. p.h \in DOMAIN FileAt(p).hunks
    BY <1>11 DEF IsPlace
  <2>2. FileAt(p).hunks # <<>>
    BY <1>2, <2>1
  <2>3. CASE After(p).s = p.s /\ After(p).is \in {"hunk", "body", "note"}
    BY <1>11, <2>3 DEF Opened
  <2>4. CASE After(p) = SectionFrom(p.s + 1)
    BY <1>2, <1>3, <1>4, <1>5, <1>6, <1>11, <2>2, <2>4 DEF Opened
  <2>5. \/ After(p).s = p.s /\ After(p).is \in {"hunk", "body", "note"}
        \/ After(p) = SectionFrom(p.s + 1)
    BY <1>11, NextInHunk DEF Place
  <2> QED BY <2>3, <2>4, <2>5
<1> QED BY <1>8, <1>9, <1>10, <1>11 DEF IsPlace, Heading

(* What is known of a file. *)
KnownFile(file) ==
  /\ file.new \in parsed.newFiles <=> file.old = Null
  /\ file.old # Null => file.new \in DOMAIN parsed.oldPaths /\ parsed.oldPaths[file.new] = file.old

FilesFit ==
  /\ \A s \in DOMAIN change.files :
       Opened(at, s) /\ change.files[s].new # Null => KnownFile(change.files[s])
  /\ \A path \in parsed.newFiles :
       \E s \in DOMAIN change.files : Opened(at, s) /\ path = change.files[s].new

(* The files of the sections read are known, and no others.                *)
LEMMA FilesStep ==
  ASSUME change \in Patches, reader \in ConsumersOf(change), IsPlace(at), Fits(at, w),
         BlockFits, ReadsOn, Tracked, FilesFit,
         parsed = [valid |-> parsed.valid, newFiles |-> parsed.newFiles, oldPaths |-> parsed.oldPaths]
  PROVE  FilesFit'
<1>1. ~Strict /\ Verbatim /\ change.shape = "git"
  BY DEF Tracked, Strict, Verbatim
<1>2. at.is \in Heading \cup {"hunk", "body", "note"} /\ at.is # "end" /\ at.s \in DOMAIN change.files
  BY DEF IsPlace, ReadsOn
<1>3. change' = change /\ at' = After(at)
  BY DEF ReadsOn
<1>4. ASSUME NEW s \in DOMAIN change.files
      PROVE  Opened(at', s) <=> Opened(at, s) \/ (at.is = "new" /\ s = at.s)
  BY <1>1, <1>2, <1>3, OpenedStep
<1>5. \A p, s : Opened(p, s)' <=> Opened(p, s)
  BY <1>3 DEF Opened
<1> DEFINE Knows(file, new, old) ==
             /\ file.new \in new <=> file.old = Null
             /\ file.old # Null => file.new \in DOMAIN old /\ old[file.new] = file.old
<1>6. SUFFICES
        /\ \A s \in DOMAIN change.files :
             (Opened(at, s) \/ (at.is = "new" /\ s = at.s)) /\ change.files[s].new # Null =>
               Knows(change.files[s], parsed'.newFiles, parsed'.oldPaths)
        /\ \A path \in parsed'.newFiles :
             \E s \in DOMAIN change.files :
               (Opened(at, s) \/ (at.is = "new" /\ s = at.s)) /\ path = change.files[s].new
  <2>1. \A s \in DOMAIN change.files : Opened(at, s)' <=> Opened(at', s)
    BY <1>5
  <2> QED BY <1>3, <1>4, <2>1 DEF FilesFit, KnownFile
<1>7. /\ \A s \in DOMAIN change.files : Opened(at, s) /\ change.files[s].new # Null =>
           Knows(change.files[s], parsed.newFiles, parsed.oldPaths)
      /\ \A path \in parsed.newFiles :
           \E s \in DOMAIN change.files : Opened(at, s) /\ path = change.files[s].new
  BY DEF FilesFit, KnownFile
<1>8. CASE at.is # "new"
  <2>1. parsed'.newFiles = parsed.newFiles /\ parsed'.oldPaths = parsed.oldPaths
    <3>1. CASE at.is \in {"git", "old", "rename", "note"}
      BY <1>1, <3>1, ParsedRead
    <3>2. CASE at.is = "body"
      BY <1>1, <3>2, ParsedRead
    <3>3. CASE at.is = "hunk"
      <4>1. /\ parsed'.oldPaths = parsed.oldPaths
            /\ \/ parsed'.newFiles = parsed.newFiles
               \/ block.guess /\ parsed'.newFiles = parsed.newFiles \cup block.paths
        BY <1>1, <3>3, ParsedRead
      <4>2. block.paths = BlockPaths(FileAt(at)) /\ (FileAt(at).new # Null => block.guess = FALSE)
        BY <3>3 DEF BlockFits
      <4>3. FileAt(at).new = Null => block.paths = {}
        BY <1>1, <4>2 DEF BlockPaths
      <4> QED BY <4>1, <4>2, <4>3
    <3> QED BY <1>2, <1>8, <3>1, <3>2, <3>3 DEF Heading
  <2> QED BY <1>7, <1>8, <2>1
<1>9. CASE at.is = "new"
  <2> DEFINE file == FileAt(at)
             old == Prefixed("a", file.old)
             new == Prefixed("b", file.new)
             added == [p \in PathsOf(old, new) |-> OldSpelling(old, new)]
  <2>1. file = change.files[at.s] /\ ~Opened(at, at.s)
    BY <1>1, <1>2, <1>9, OpenedStep DEF FileAt
  <2>2. /\ old # Null
        /\ IsNull(old) <=> file.old = Null
        /\ PathsOf(old, new) = BlockPaths(file)
        /\ file.new # Null /\ file.old # Null => OldSpelling(old, new) = file.old
    BY <1>1, <1>9, PairRead
  <2>3. PathsOf(old, new) = IF file.new = Null THEN {} ELSE {file.new}
    BY <1>1, <2>2 DEF BlockPaths
  <2>4. parsed' = PathsParsed(old, new)
    BY <1>1, <1>9, ParsedRead
  <2>5. /\ parsed'.newFiles = IF IsNull(old) THEN parsed.newFiles \cup PathsOf(old, new)
                              ELSE parsed.newFiles
        /\ parsed'.oldPaths = IF ~IsNull(old) THEN Override(parsed.oldPaths, added) ELSE parsed.oldPaths
    BY <1>1, <2>2, <2>4 DEF PathsParsed
  <2>6. DOMAIN added = PathsOf(old, new) /\ \A p \in DOMAIN added : added[p] = OldSpelling(old, new)
    OBVIOUS
  <2> HIDE DEF file, old, new, added
  <2>7. /\ parsed'.newFiles = IF file.old = Null /\ file.new # Null
                              THEN parsed.newFiles \cup {file.new} ELSE parsed.newFiles
        /\ file.old = Null => parsed'.oldPaths = parsed.oldPaths
        /\ file.old # Null =>
             /\ DOMAIN parsed.oldPaths \subseteq DOMAIN parsed'.oldPaths
             /\ \A p \in DOMAIN parsed.oldPaths : p # file.new => parsed'.oldPaths[p] = parsed.oldPaths[p]
             /\ file.new # Null => /\ file.new \in DOMAIN parsed'.oldPaths
                                   /\ parsed'.oldPaths[file.new] = file.old
    <3>1. CASE file.old = Null
      BY <2>2, <2>3, <2>5, <3>1
    <3>2. CASE file.old # Null
      <4> DEFINE all == Override(parsed.oldPaths, added)
      <4>1. /\ DOMAIN all = DOMAIN parsed.oldPaths \cup DOMAIN added
            /\ \A k \in DOMAIN added : all[k] = added[k]
            /\ \A k \in DOMAIN parsed.oldPaths : k \notin DOMAIN added => all[k] = parsed.oldPaths[k]
        BY Overridden
      <4>2. parsed'.oldPaths = all /\ parsed'.newFiles = parsed.newFiles
        BY <2>2, <2>5, <3>2
      <4> HIDE DEF all
      <4> QED BY <2>2, <2>3, <2>6, <3>2, <4>1, <4>2
    <3> QED BY <3>1, <3>2
  <2>8. ASSUME NEW s \in DOMAIN change.files, Opened(at, s), change.files[s].new # Null
        PROVE  Knows(change.files[s], parsed'.newFiles, parsed'.oldPaths)
    <3>1. change.files[s].new # file.new
      BY <1>2, <2>1, <2>8, SectionFacts
    <3>2. Knows(change.files[s], parsed.newFiles, parsed.oldPaths)
      BY <1>7, <2>8
    <3> QED BY <2>7, <3>1, <3>2
  <2>9. ASSUME file.new # Null PROVE Knows(file, parsed'.newFiles, parsed'.oldPaths)
    <3>1. file.new \notin parsed.newFiles
      <4> SUFFICES ASSUME file.new \in parsed.newFiles PROVE FALSE
        OBVIOUS
      <4>1. PICK s \in DOMAIN change.files : Opened(at, s) /\ file.new = change.files[s].new
        BY <1>7
      <4>2. s # at.s
        BY <2>1, <4>1
      <4> QED BY <1>2, <2>1, <2>9, <4>1, <4>2, SectionFacts
    <3> QED BY <2>7, <2>9, <3>1
  <2>10. ASSUME NEW path \in parsed'.newFiles
         PROVE  \E s \in DOMAIN change.files :
                  (Opened(at, s) \/ (at.is = "new" /\ s = at.s)) /\ path = change.files[s].new
    BY <1>2, <1>7, <1>9, <2>1, <2>7
  <2> QED BY <1>9, <2>1, <2>8, <2>9, <2>10
<1> QED BY <1>8, <1>9
-----------------------------------------------------------------------------
(* What annotate_diff has collected.                                       *)

(* A removed line has its number. *)
LEMMA OldLine ==
  ASSUME change \in Patches, NEW p, IsPlace(p), p.is = "body", LineAt(p).sign = "-"
  PROVE  OldAt(p) \in Nat /\ OldAt(p) >= 1
<1>1. /\ HunkAt(p) \in Hunk /\ p.k \in Nat \ {0} /\ Len(HunkAt(p).body) \in Nat
      /\ p.k <= Len(HunkAt(p).body)
      /\ SoundHunk(FileAt(p), p.h)
  BY LineFacts
<1>2. HunkAt(p).old \in Nat
  BY <1>1, BodyFacts
<1>3. PICK n \in Nat : n + 1 = p.k /\ n = p.k - 1
  BY <1>1, OneLess
<1>4. HunkAt(p).body[n + 1].sign \in OldSigns
  BY <1>3 DEF LineAt, OldSigns
<1>5. /\ Count(HunkAt(p).body, n, OldSigns) \in Nat
      /\ OldCount(HunkAt(p)) \in Nat
      /\ Count(HunkAt(p).body, n, OldSigns) + 1 <= OldCount(HunkAt(p))
  BY <1>1, <1>3, <1>4, CountIsNat, CountBefore DEF OldCount
<1>6. OldAt(p) = HunkAt(p).old + Count(HunkAt(p).body, n, OldSigns)
  BY <1>3 DEF OldAt
<1>7. OldCount(HunkAt(p)) # 0
  BY <1>5
<1>8. HunkAt(p).old >= 1
  BY <1>1, <1>7 DEF SoundHunk, HunkAt
<1> QED BY <1>2, <1>5, <1>6, <1>8

LEMMA NamedFacts ==
  ASSUME change \in Patches, NEW s \in DOMAIN change.files
  PROVE  LET file == change.files[s] IN
         /\ Named(file) # <<"null">>
         /\ GitPaths(file)[1] = GitPaths(file)[2] => GitPaths(file)[2] = Named(file)
         /\ GitPaths(file)[1] # GitPaths(file)[2] => file.new = Named(file)
<1>1. SoundSection(change.files[s])
  BY SectionFacts
<1> QED BY <1>1 DEF SoundSection, Named, GitPaths

(* A strict walk gives up at a line that lost its blank, and at no other.  *)
LEMMA WhyRaised ==
  ASSUME change \in Patches, IsPlace(at), Fits(at, w), BlockFits, Strict, at.is # "end",
         Raises(RawAt(at))
  PROVE  at.is = "body" /\ LineAt(at).bare
<1> DEFINE raw == RawAt(at)
<1>1. at.is \in Heading \cup {"hunk", "body", "note"} /\ at.s \in DOMAIN change.files
  BY DEF IsPlace
<1>2. /\ IsGit(raw) <=> at.is = "git"
      /\ IsPath(raw) <=> at.is \in {"old", "new"}
      /\ IsHunk(raw) <=> at.is = "hunk"
      /\ IsBody(raw) <=> at.is = "body"
      /\ raw.at = at
  BY <1>1, Kinds, RawFacts
<1>3. /\ at.is = "old" => raw.sign = "-"
      /\ at.is = "new" => raw.sign = "+"
      /\ at.is = "rename" => raw.sign = "r"
      /\ at.is = "note" => raw.sign = "\\"
      /\ at.is = "body" => raw.sign = IF LineAt(at).bare THEN "" ELSE LineAt(at).sign
  BY <1>1, RawFacts
<1>4. (w.pending <=> at.is = "new") /\ w.pending \in BOOLEAN
  BY DEF Fits, IsWalker
<1>5. Broken(raw) \/ AnnotateRaises(raw)
  BY DEF Raises
<1> HIDE DEF raw
<1>6. CASE at.is \in Heading
  <2>1. ~Broken(raw)
    BY <1>2, <1>3, <1>4, <1>6 DEF Broken, Heading
  <2>2. at.is = "new" => block.pending # Null
    <3> SUFFICES ASSUME at.is = "new" PROVE block.pending # Null
      OBVIOUS
    <3>1. FileAt(at) \in Section /\ SoundSection(FileAt(at)) /\ change.shape \in {"git", "plain"}
      BY <1>1, SectionFacts DEF FileAt
    <3>2. FileAt(at).old \in Path /\ FileAt(at).old # <<"null">>
      BY <3>1, HunkFacts DEF SoundSection
    <3>3. block.pending = Prefixed("a", FileAt(at).old)
      BY DEF BlockFits
    <3> QED BY <3>1, <3>2, <3>3, PrefixedFacts
  <2>3. ~AnnotateRaises(raw)
    BY <1>2, <1>3, <1>6, <2>2 DEF AnnotateRaises, Heading
  <2> QED BY <1>5, <2>1, <2>3
<1>7. CASE at.is = "note"
  <2>1. ~Broken(raw) /\ ~AnnotateRaises(raw)
    BY <1>2, <1>3, <1>7 DEF Broken, AnnotateRaises
  <2> QED BY <1>5, <2>1
<1>8. CASE at.is = "hunk"
  <2>1. ~Broken(raw)
    BY <1>2, <1>4, <1>8 DEF Broken
  <2>2. /\ HunkAt(at) \in Hunk /\ SoundHunk(FileAt(at), at.h)
        /\ FileAt(at).hunks[at.h] = HunkAt(at)
    BY <1>8, LineFacts DEF HunkAt
  <2>3. HunkAt(at).old \in Nat /\ HunkAt(at).new \in Nat
    BY <2>2, BodyFacts
  <2>4. /\ ~(OldCount(HunkAt(at)) # 0 /\ HunkAt(at).old < 1)
        /\ ~(NewCount(HunkAt(at)) # 0 /\ HunkAt(at).new < 1)
    <3>1. /\ OldCount(HunkAt(at)) # 0 => HunkAt(at).old >= 1
          /\ NewCount(HunkAt(at)) # 0 => HunkAt(at).new >= 1
      BY <2>2 DEF SoundHunk
    <3>2. \A a \in Nat : a >= 1 => ~(a < 1)
      OBVIOUS
    <3> QED BY <2>3, <3>1, <3>2
  <2>5. block.paths = {Named(FileAt(at))} /\ Named(FileAt(at)) # <<"null">>
    BY <1>1, <1>8, NamedFacts DEF BlockFits, BlockPaths, FileAt
  <2>6. ~AnnotateRaises(raw)
    BY <1>2, <1>8, <2>4, <2>5 DEF AnnotateRaises
  <2> QED BY <1>5, <2>1, <2>6
<1>9. CASE at.is = "body" /\ ~LineAt(at).bare
  <2>1. /\ HunkAt(at) \in Hunk /\ at.k \in Nat \ {0} /\ Len(HunkAt(at).body) \in Nat
        /\ at.k <= Len(HunkAt(at).body)
        /\ LineAt(at).sign \in {"+", "-", " "}
    BY <1>9, LineFacts
  <2>2. PICK n \in Nat : n + 1 = at.k /\ n = at.k - 1
    BY <2>1, OneLess
  <2>3. Drained(HunkAt(at), n, w)
    BY <1>9, <2>2 DEF Fits, LinesRead
  <2>4. /\ w.oldRem \in Nat /\ w.newRem \in Nat
        /\ LineAt(at).sign \in OldSigns => w.oldRem >= 1
        /\ LineAt(at).sign \in NewSigns => w.newRem >= 1
    BY <2>1, <2>2, <2>3, LinesLeft DEF LineAt
  <2>5. raw.sign = LineAt(at).sign
    BY <1>3, <1>9
  <2>6. ~(raw.sign \in {"+", " "} /\ w.newRem <= 0) /\ ~(raw.sign \in {"-", " "} /\ w.oldRem <= 0)
    <3>1. /\ LineAt(at).sign \in {"+", " "} => w.newRem >= 1
          /\ LineAt(at).sign \in {"-", " "} => w.oldRem >= 1
      BY <2>4 DEF OldSigns, NewSigns
    <3>2. \A a \in Nat : a >= 1 => ~(a <= 0)
      OBVIOUS
    <3> QED BY <2>4, <2>5, <3>1, <3>2
  <2>7. ~InHeaders
    <3>1. raw.sign \in {"+", " "} \/ raw.sign \in {"-", " "}
      BY <2>1, <2>5
    <3> QED BY <2>6, <3>1 DEF InHeaders
  <2>8. ~Broken(raw)
    BY <1>2, <1>9, <2>1, <2>5, <2>6, <2>7 DEF Broken
  <2>9. block.paths # {}
    BY <1>9 DEF BlockFits, BlockPaths
  <2>10. w.old = OldAt(at) /\ w.new = NewAt(at)
    BY <1>9, Numbers
  <2>11. ~((IF OnNew(raw) THEN w.new ELSE w.old) <= 0)
    <3>1. CASE LineAt(at).sign = "-"
      <4>1. OldAt(at) \in Nat /\ OldAt(at) >= 1
        BY <1>9, <3>1, OldLine
      <4>2. ~OnNew(raw)
        BY <2>5, <3>1 DEF OnNew
      <4> QED BY <2>10, <4>1, <4>2
    <3>2. CASE LineAt(at).sign # "-"
      <4>1. NewAt(at) \in Nat /\ HunkAt(at).new \in Nat /\ HunkAt(at).new >= 1 /\ HunkAt(at).new <= NewAt(at)
        BY <1>9, <3>2, HeadLine
      <4>2. OnNew(raw)
        BY <2>5, <3>2 DEF OnNew
      <4>3. ~(NewAt(at) <= 0)
        BY <4>1
      <4> QED BY <2>10, <4>2, <4>3
    <3> QED BY <3>1, <3>2
  <2>12. ~AnnotateRaises(raw)
    BY <1>2, <1>9, <2>9, <2>11 DEF AnnotateRaises
  <2> QED BY <1>5, <2>8, <2>12
<1>10. at.is = "body" => LineAt(at).bare \in BOOLEAN
  BY LineFacts
<1> QED BY <1>1, <1>6, <1>7, <1>8, <1>9, <1>10 DEF Heading

(* The entries are those of the body lines read.                           *)
EntriesFit == annotated.entries = {EntryOf(i) : i \in Body}

LEMMA EntriesStep ==
  ASSUME change \in Patches, IsPlace(at), Fits(at, w), HistoryFits, BlockFits, ReadsOn, Strict,
         EntriesFit
  PROVE  EntriesFit'
<1> DEFINE raw == RawAt(at)
           n == Len(diff) + 1
<1>1. /\ n \notin DOMAIN diff
      /\ \A i \in DOMAIN diff : diff'[i] = diff[i]
      /\ diff'[n].at = at
      /\ Body' = IF at.is = "body" THEN Body \cup {n} ELSE Body
      /\ raw.at = at
  BY BodyStep
<1>2. /\ \A p : FileAt(p)' = FileAt(p) /\ LineAt(p)' = LineAt(p)
              /\ OldAt(p)' = OldAt(p) /\ NewAt(p)' = NewAt(p)
  BY Still DEF ReadsOn
<1>3. annotated'.entries = annotated.entries \cup Entries(raw)
  BY DEF ReadsOn, Annotated
<1> DEFINE Entry(i, p) ==
      [index |-> i, path |-> Named(FileAt(p)), side |-> IF LineAt(p).sign = "-" THEN "old" ELSE "head",
       line |-> IF LineAt(p).sign = "-" THEN OldAt(p) ELSE NewAt(p)]
<1>4. \A i : EntryOf(i) = Entry(i, diff[i].at) /\ EntryOf(i)' = Entry(i, diff'[i].at)
  BY <1>2 DEF EntryOf
<1>5. Entries(raw) = IF at.is = "body" THEN {Entry(n, at)} ELSE {}
  <2>1. IsBody(raw) <=> at.is = "body"
    BY Kinds DEF ReadsOn
  <2>2. CASE at.is = "body"
    <3>1. w.old = OldAt(at) /\ w.new = NewAt(at)
      BY <2>2, Numbers
    <3>2. OnNew(raw) <=> LineAt(at).sign # "-"
      BY <2>2, Sides
    <3>3. block.paths = {Named(FileAt(at))}
      BY <2>2 DEF BlockFits, BlockPaths
    <3>4. Entries(raw) = {[index |-> n, path |-> p, side |-> IF OnNew(raw) THEN "head" ELSE "old",
                           line |-> IF OnNew(raw) THEN w.new ELSE w.old] : p \in block.paths}
      BY <2>1, <2>2 DEF Entries
    <3> HIDE DEF raw, n
    <3> QED BY <2>2, <3>1, <3>2, <3>3, <3>4
  <2>3. CASE at.is # "body"
    BY <2>1, <2>3 DEF Entries
  <2> QED BY <2>2, <2>3
<1> HIDE DEF raw, n, Entry
<1>6. annotated.entries = {Entry(i, diff[i].at) : i \in Body}
  BY <1>4 DEF EntriesFit
<1>7. \A i \in Body : diff'[i] = diff[i]
  BY <1>1 DEF Body
<1>8. annotated'.entries = {Entry(i, diff'[i].at) : i \in Body'}
  <2>1. CASE at.is = "body"
    <3>1. Body' = Body \cup {n} /\ Entries(raw) = {Entry(n, at)}
      BY <1>1, <1>5, <2>1
    <3> QED BY <1>1, <1>3, <1>6, <1>7, <3>1
  <2>2. CASE at.is # "body"
    <3>1. Body' = Body /\ Entries(raw) = {}
      BY <1>1, <1>5, <2>2
    <3> QED BY <1>3, <1>6, <1>7, <3>1
  <2> QED BY <2>1, <2>2
<1> QED BY <1>4, <1>8 DEF EntriesFit

(* The hunk headers, and the body lines, that are read. *)
Headers == {diff[i].at : i \in {j \in DOMAIN diff : diff[j].at.is = "hunk"}}
Bodies == {diff[i].at : i \in Body}

Shown(p) == <<FileAt(p).new, HunkAt(p).new, HunkAt(p).new + NewCount(HunkAt(p)) - 1>>

HunksFit ==
  /\ annotated.hunks = {Shown(p) : p \in {q \in Headers : NewCount(HunkAt(q)) # 0}}
  /\ \A q \in Headers : HunkAt(q).body # <<>> =>
       at = Place("body", q.s, q.h, 1) \/ \E p \in Bodies : p.s = q.s /\ p.h = q.h
  /\ \A p \in Bodies : Place("hunk", p.s, p.h, 0) \in Headers
  /\ at.is \in {"body", "note"} => Place("hunk", at.s, at.h, 0) \in Headers

LEMMA PlacesRead ==
  ASSUME change \in Patches, IsPlace(at), HistoryFits, ReadsOn
  PROVE  /\ Headers' = IF at.is = "hunk" THEN Headers \cup {at} ELSE Headers
         /\ Bodies' = IF at.is = "body" THEN Bodies \cup {at} ELSE Bodies
<1> DEFINE n == Len(diff) + 1
<1>1. /\ n \notin DOMAIN diff
      /\ DOMAIN diff' = DOMAIN diff \cup {n}
      /\ \A i \in DOMAIN diff : diff'[i] = diff[i]
      /\ diff'[n].at = at
      /\ Body' = IF at.is = "body" THEN Body \cup {n} ELSE Body
  BY BodyStep
<1> HIDE DEF n
<1>2. Headers' = {diff'[i].at : i \in {j \in DOMAIN diff' : diff'[j].at.is = "hunk"}}
      /\ Bodies' = {diff'[i].at : i \in Body'}
  BY DEF Headers, Bodies
<1>3. \A p : p \in Headers' <=> p \in Headers \/ (p = at /\ at.is = "hunk")
  <2>1. \A p : p \in Headers <=> \E i \in DOMAIN diff : diff[i].at = p /\ p.is = "hunk"
    BY DEF Headers
  <2>2. \A p : p \in Headers' <=> \E i \in DOMAIN diff' : diff'[i].at = p /\ p.is = "hunk"
    BY <1>2
  <2> QED BY <2>1, <2>2, <1>1
<1>4. \A p : p \in Bodies' <=> p \in Bodies \/ (p = at /\ at.is = "body")
  <2>1. \A i \in Body : i \in DOMAIN diff
    BY DEF Body
  <2>2. \A p : p \in Bodies <=> \E i \in Body : diff[i].at = p
    BY DEF Bodies
  <2>3. \A p : p \in Bodies' <=> \E i \in Body' : diff'[i].at = p
    BY <1>2
  <2>4. CASE at.is = "body"
    BY <1>1, <2>1, <2>2, <2>3, <2>4
  <2>5. CASE at.is # "body"
    BY <1>1, <2>1, <2>2, <2>3, <2>5
  <2> QED BY <2>4, <2>5
<1>5. Headers' = IF at.is = "hunk" THEN Headers \cup {at} ELSE Headers
  <2>1. CASE at.is = "hunk"
    BY <1>3, <2>1
  <2>2. CASE at.is # "hunk"
    BY <1>3, <2>2
  <2> QED BY <2>1, <2>2
<1>6. Bodies' = IF at.is = "body" THEN Bodies \cup {at} ELSE Bodies
  <2>1. CASE at.is = "body"
    BY <1>4, <2>1
  <2>2. CASE at.is # "body"
    BY <1>4, <2>2
  <2> QED BY <2>1, <2>2
<1> QED BY <1>5, <1>6

(* A hunk is shown when its header is read, and its body follows.          *)
LEMMA HunksStep ==
  ASSUME change \in Patches, IsPlace(at), Fits(at, w), HistoryFits, BlockFits, ReadsOn, Strict,
         HunksFit
  PROVE  HunksFit'
<1>1. /\ \A p : FileAt(p)' = FileAt(p) /\ HunkAt(p)' = HunkAt(p)
      /\ at' = After(at) /\ at.is # "end"
  BY Still DEF ReadsOn
<1>2. \A p : Shown(p)' = Shown(p)
  BY <1>1 DEF Shown
<1>3. /\ Headers' = IF at.is = "hunk" THEN Headers \cup {at} ELSE Headers
      /\ Bodies' = IF at.is = "body" THEN Bodies \cup {at} ELSE Bodies
  BY PlacesRead
<1>4. at.is \in Heading \cup {"hunk", "body", "note"} /\ at = Place(at.is, at.s, at.h, at.k)
  BY <1>1 DEF IsPlace
<1>5. SUFFICES
        /\ annotated'.hunks = {Shown(p) : p \in {q \in Headers' : NewCount(HunkAt(q)) # 0}}
        /\ \A q \in Headers' : HunkAt(q).body # <<>> =>
             After(at) = Place("body", q.s, q.h, 1) \/ \E p \in Bodies' : p.s = q.s /\ p.h = q.h
        /\ \A p \in Bodies' : Place("hunk", p.s, p.h, 0) \in Headers'
        /\ After(at).is \in {"body", "note"} => Place("hunk", After(at).s, After(at).h, 0) \in Headers'
  BY <1>1, <1>2 DEF HunksFit
<1>6. /\ annotated.hunks = {Shown(p) : p \in {q \in Headers : NewCount(HunkAt(q)) # 0}}
      /\ \A q \in Headers : HunkAt(q).body # <<>> =>
           at = Place("body", q.s, q.h, 1) \/ \E p \in Bodies : p.s = q.s /\ p.h = q.h
      /\ \A p \in Bodies : Place("hunk", p.s, p.h, 0) \in Headers
      /\ at.is \in {"body", "note"} => Place("hunk", at.s, at.h, 0) \in Headers
  BY DEF HunksFit
<1>7. at.is = "hunk" => at = Place("hunk", at.s, at.h, 0)
  BY <1>4 DEF IsPlace
<1>8. annotated'.hunks = {Shown(p) : p \in {q \in Headers' : NewCount(HunkAt(q)) # 0}}
  <2>1. annotated'.hunks = annotated.hunks \cup HunksShown(RawAt(at))
    BY DEF ReadsOn, Annotated
  <2>2. (IsHunk(RawAt(at)) <=> at.is = "hunk") /\ RawAt(at).at = at
    BY <1>1, <1>4, Kinds, RawFacts
  <2>3. HunksShown(RawAt(at)) =
          IF at.is = "hunk" /\ NewCount(HunkAt(at)) # 0
          THEN {<<p, HunkAt(at).new, HunkAt(at).new + NewCount(HunkAt(at)) - 1>> : p \in block.paths}
          ELSE {}
    BY <2>2 DEF HunksShown
  <2>4. CASE at.is = "hunk" /\ NewCount(HunkAt(at)) # 0
    <3>1. SoundHunk(FileAt(at), at.h) /\ FileAt(at).hunks[at.h] = HunkAt(at)
      BY <2>4, LineFacts DEF HunkAt
    <3>2. FileAt(at).new # Null
      BY <2>4, <3>1 DEF SoundHunk
    <3>3. block.paths = {FileAt(at).new}
      BY <2>4, <3>2 DEF BlockFits, BlockPaths, Named
    <3>4. HunksShown(RawAt(at)) = {Shown(at)}
      BY <2>3, <2>4, <3>3 DEF Shown
    <3> QED BY <1>3, <1>6, <2>1, <2>4, <3>4
  <2>5. CASE ~(at.is = "hunk" /\ NewCount(HunkAt(at)) # 0)
    <3>1. {q \in Headers' : NewCount(HunkAt(q)) # 0} = {q \in Headers : NewCount(HunkAt(q)) # 0}
      BY <1>3, <2>5
    <3> QED BY <1>6, <2>1, <2>3, <2>5, <3>1
  <2> QED BY <2>4, <2>5
<1>9. ASSUME NEW q \in Headers', HunkAt(q).body # <<>>
      PROVE  After(at) = Place("body", q.s, q.h, 1) \/ \E p \in Bodies' : p.s = q.s /\ p.h = q.h
  <2>1. CASE q \in Headers
    <3>1. CASE at = Place("body", q.s, q.h, 1)
      <4>1. at.is = "body" /\ at.s = q.s /\ at.h = q.h
        BY <3>1 DEF Place
      <4> QED BY <4>1, <1>3
    <3>2. CASE \E p \in Bodies : p.s = q.s /\ p.h = q.h
      BY <3>2, <1>3
    <3> QED BY <2>1, <3>1, <3>2, <1>6, <1>9
  <2>2. CASE q \notin Headers
    <3>1. q = at /\ at.is = "hunk"
      BY <2>2, <1>3
    <3>2. HunkAt(at) \in Hunk /\ at.k = 0
      BY <3>1, LineFacts DEF IsPlace
    <3>3. Len(HunkAt(at).body) # 0
      <4>1. HunkAt(at).body \in Seq(BodyLine)
        BY <3>2, BodyFacts
      <4> QED BY <4>1, <3>1, <1>9, EmptySeq
    <3>4. at.k # Len(HunkAt(at).body)
      BY <3>2, <3>3
    <3> QED BY <3>1, <3>4, NextInHunk
  <2> QED BY <2>1, <2>2
<1>10. ASSUME NEW p \in Bodies' PROVE Place("hunk", p.s, p.h, 0) \in Headers'
  BY <1>3, <1>6
<1>11. ASSUME After(at).is \in {"body", "note"}
       PROVE  Place("hunk", After(at).s, After(at).h, 0) \in Headers'
  <2>1. SectionFrom(at.s + 1).is \in {"git", "old", "end"}
    BY PlaceNumbers, FromSection
  <2>2. at.is \in {"hunk", "body", "note"}
    <3>1. at.is \notin Heading
      BY <1>11, <2>1, NextHeading DEF Place
    <3> QED BY <3>1, <1>4
  <2>3. After(at).s = at.s /\ After(at).h = at.h
    BY <1>11, <2>1, <2>2, NextInHunk DEF Place
  <2> QED BY <1>3, <1>6, <1>7, <2>2, <2>3
<1> QED BY <1>8, <1>9, <1>10, <1>11

(* Outside of a hunk the hunks shown are those of the body lines read.     *)
LEMMA HunksAreShown ==
  ASSUME change \in Patches, HistoryFits, HunksFit, at.is # "body"
  PROVE  annotated.hunks = {Shown(p) : p \in {q \in Bodies : NewCount(HunkAt(q)) # 0}}
<1>1. \A p, q : p.s = q.s /\ p.h = q.h => HunkAt(p) = HunkAt(q) /\ Shown(p) = Shown(q)
  BY DEF Shown, HunkAt, FileAt
<1>2. ASSUME NEW q \in Headers, NewCount(HunkAt(q)) # 0
      PROVE  \E p \in Bodies : NewCount(HunkAt(p)) # 0 /\ Shown(p) = Shown(q)
  <2>1. HunkAt(q).body # <<>>
    <3> SUFFICES ASSUME HunkAt(q).body = <<>> PROVE NewCount(HunkAt(q)) = 0
      BY <1>2
    <3>1. NewCount(HunkAt(q)) = Count(<<>>, 0, NewSigns)
      BY DEF NewCount
    <3> QED BY <3>1, CountZero
  <2>2. at # Place("body", q.s, q.h, 1)
    BY DEF Place
  <2>3. PICK p \in Bodies : p.s = q.s /\ p.h = q.h
    BY <2>1, <2>2 DEF HunksFit
  <2> QED BY <1>1, <1>2, <2>3
<1>3. ASSUME NEW p \in Bodies, NewCount(HunkAt(p)) # 0
      PROVE  \E q \in Headers : NewCount(HunkAt(q)) # 0 /\ Shown(p) = Shown(q)
  <2>1. Place("hunk", p.s, p.h, 0) \in Headers
    BY DEF HunksFit
  <2>2. Place("hunk", p.s, p.h, 0).s = p.s /\ Place("hunk", p.s, p.h, 0).h = p.h
    BY DEF Place
  <2> QED BY <1>1, <1>3, <2>1, <2>2
<1>4. annotated.hunks = {Shown(p) : p \in {q \in Headers : NewCount(HunkAt(q)) # 0}}
  BY DEF HunksFit
<1> QED BY <1>2, <1>3, <1>4

(* Every file is named by the time its section is left: by the header of   *)
(* its block, by its paths, or by its rename lines.                        *)
FileNames == {Named(change.files[s]) : s \in DOMAIN change.files}

NamesFit ==
  /\ annotated.files \subseteq FileNames
  /\ \A s \in DOMAIN change.files : s < at.s => Named(change.files[s]) \in annotated.files \cup Renamed
  /\ at.is \in {"hunk", "body", "note"} => Named(FileAt(at)) \in annotated.files
  /\ at.is = "rename" /\ GitPaths(FileAt(at))[1] = GitPaths(FileAt(at))[2] =>
       Named(FileAt(at)) \in annotated.files

(* A rename line gives a name where those of the header differ.            *)
Differs(p) == GitPaths(FileAt(p))[1] # GitPaths(FileAt(p))[2]

LEMMA RenamedRead ==
  ASSUME change \in Patches, IsPlace(at), HistoryFits, ReadsOn
  PROVE  /\ Renamed \subseteq Renamed'
         /\ at.is = "rename" /\ Differs(at) => FileAt(at).new \in Renamed'
<1> DEFINE n == Len(diff) + 1
<1>1. /\ DOMAIN diff' = DOMAIN diff \cup {n}
      /\ \A i \in DOMAIN diff : diff'[i] = diff[i]
      /\ diff'[n] = RawAt(at)
      /\ RawAt(at).at = at
  BY BodyStep
<1> HIDE DEF n
<1>2. \A p : FileAt(p)' = FileAt(p)
  BY Still DEF ReadsOn
<1>3. Renamed = {FileAt(diff[i].at).new : i \in {j \in DOMAIN diff :
                   diff[j].sign = "r" /\ Differs(diff[j].at)}}
  BY DEF Renamed, Differs
<1>4. Renamed' = {FileAt(diff'[i].at).new : i \in {j \in DOMAIN diff' :
                    diff'[j].sign = "r" /\ Differs(diff'[j].at)}}
  <2>1. Renamed' = {FileAt(diff[i].at)'.new : i \in {j \in DOMAIN diff' : diff'[j].sign = "r" /\
                      GitPaths(FileAt(diff[j].at)')[1] # GitPaths(FileAt(diff[j].at)')[2]}}
    BY DEF Renamed, GitPaths
  <2> QED BY <2>1, <1>2 DEF Differs
<1>5. Renamed \subseteq Renamed'
  BY <1>1, <1>3, <1>4
<1>6. ASSUME at.is = "rename", Differs(at) PROVE FileAt(at).new \in Renamed'
  <2>1. RawAt(at).sign = "r"
    BY <1>6, RawFacts DEF Heading
  <2> QED BY <1>1, <1>4, <1>6, <2>1
<1> QED BY <1>5, <1>6

LEMMA RenamedFacts ==
  ASSUME change \in Patches, HistoryFits
  PROVE  Renamed \subseteq FileNames
<1> SUFFICES ASSUME NEW x \in Renamed PROVE x \in FileNames
  OBVIOUS
<1>1. PICK i \in DOMAIN diff : diff[i].sign = "r" /\ Differs(diff[i].at) /\ x = FileAt(diff[i].at).new
  BY DEF Renamed, Differs
<1>2. diff[i].at.s \in DOMAIN change.files /\ FileAt(diff[i].at) = change.files[diff[i].at.s]
  BY DEF HistoryFits, IsPlace, FileAt
<1>3. x = Named(change.files[diff[i].at.s])
  BY <1>1, <1>2, NamedFacts DEF Differs
<1> QED BY <1>2, <1>3 DEF FileNames

LEMMA NamesStep ==
  ASSUME change \in Patches, reader \in ConsumersOf(change), IsPlace(at), Fits(at, w), HistoryFits,
         BlockFits, ReadsOn, Strict, NamesFit
  PROVE  NamesFit'
<1>1. /\ \A p : FileAt(p)' = FileAt(p)
      /\ at' = After(at) /\ at.is # "end" /\ change' = change
  BY Still DEF ReadsOn
<1>2. at.is \in Heading \cup {"hunk", "body", "note"} /\ at.s \in DOMAIN change.files
      /\ FileAt(at) = change.files[at.s]
  BY <1>1 DEF IsPlace, FileAt
<1>3. FileNames' = FileNames
  BY <1>1 DEF FileNames
<1>4. /\ annotated.files \subseteq FileNames
      /\ \A s \in DOMAIN change.files : s < at.s =>
           Named(change.files[s]) \in annotated.files \cup Renamed
      /\ at.is \in {"hunk", "body", "note"} => Named(FileAt(at)) \in annotated.files
      /\ at.is = "rename" /\ ~Differs(at) => Named(FileAt(at)) \in annotated.files
  BY DEF NamesFit, Differs
<1>5. Renamed \subseteq Renamed' /\ (at.is = "rename" /\ Differs(at) => FileAt(at).new \in Renamed')
  BY RenamedRead
<1>6. annotated'.files = annotated.files \cup FilesNamed(RawAt(at))
  BY DEF ReadsOn, Annotated
<1>7. Named(FileAt(at)) \in FileNames
  BY <1>2 DEF FileNames
<1>8. /\ FilesNamed(RawAt(at)) \subseteq {Named(FileAt(at))}
      /\ at.is = "git" /\ ~Differs(at) => Named(FileAt(at)) \in FilesNamed(RawAt(at))
      /\ at.is = "new" => Named(FileAt(at)) \in FilesNamed(RawAt(at))
  <2>1. /\ IsGit(RawAt(at)) <=> at.is = "git"
        /\ IsPath(RawAt(at)) <=> at.is \in {"old", "new"}
        /\ RawAt(at).at = at
        /\ at.is = "old" => RawAt(at).sign = "-"
        /\ at.is = "new" => RawAt(at).sign = "+" /\ RawAt(at).path = Prefixed("b", FileAt(at).new)
    BY <1>1, <1>2, Kinds, RawFacts
  <2>2. CASE at.is = "git"
    <3>1. FilesNamed(RawAt(at)) = IF ~Differs(at) THEN {GitPaths(FileAt(at))[2]} ELSE {}
      BY <2>1, <2>2 DEF FilesNamed, Differs
    <3>2. ~Differs(at) => GitPaths(FileAt(at))[2] = Named(FileAt(at))
      BY <1>2, NamedFacts DEF Differs
    <3> QED BY <2>2, <3>1, <3>2
  <2>3. CASE at.is = "new"
    <3>1. block.pending = Prefixed("a", FileAt(at).old)
      BY <2>3 DEF BlockFits
    <3>2. PathAnnotated(block.pending, Prefixed("b", FileAt(at).new)) = Named(FileAt(at))
      BY <2>3, <3>1, PairRead
    <3>3. FilesNamed(RawAt(at)) = {PathAnnotated(block.pending, Prefixed("b", FileAt(at).new))}
      BY <2>1, <2>3 DEF FilesNamed
    <3> QED BY <2>3, <3>2, <3>3
  <2>4. CASE at.is \notin {"git", "new"}
    BY <2>1, <2>4 DEF FilesNamed
  <2> QED BY <2>2, <2>3, <2>4
<1>9. Differs(at) => FileAt(at).new = Named(FileAt(at))
  BY <1>2, NamedFacts DEF Differs
<1>10. ASSUME NEW s \in DOMAIN change.files, s < at.s
       PROVE  Named(change.files[s]) \in annotated'.files \cup Renamed'
  BY <1>4, <1>5, <1>6, <1>10
<1>11. at.is \in {"hunk", "body", "note", "new", "rename"} =>
         Named(FileAt(at)) \in annotated'.files \cup Renamed'
  BY <1>4, <1>5, <1>6, <1>8, <1>9
<1>12. at.is \in {"hunk", "body", "note", "new"} => Named(FileAt(at)) \in annotated'.files
  BY <1>4, <1>6, <1>8
<1>13. SectionFrom(at.s + 1).is \in {"git", "old", "end"}
  BY PlaceNumbers, FromSection
<1>14. After(at).s = at.s \/ (After(at).s = at.s + 1 /\ at.is \in {"hunk", "body", "note", "new", "rename"})
  <2>1. After(at).s = at.s \/ After(at).s = at.s + 1
    BY <1>1, SectionsPass
  <2>2. at.is \in {"git", "old"} => After(at).s = at.s
    BY Next1 DEF Place
  <2> QED BY <1>2, <2>1, <2>2 DEF Heading
<1>15. ASSUME NEW s \in DOMAIN change.files, s < After(at).s
       PROVE  Named(change.files[s]) \in annotated'.files \cup Renamed'
  <2>1. CASE s < at.s
    BY <1>10, <2>1
  <2>2. CASE ~(s < at.s)
    <3>1. s \in Nat /\ at.s \in Nat
      BY <1>2, SectionFacts
    <3>2. After(at).s = at.s + 1 /\ at.is \in {"hunk", "body", "note", "new", "rename"}
      BY <1>14, <1>15, <2>2
    <3>3. \A a, b \in Nat : a < b + 1 /\ ~(a < b) => a = b
      OBVIOUS
    <3>4. s = at.s
      BY <1>15, <2>2, <3>1, <3>2, <3>3
    <3> QED BY <1>2, <1>11, <3>2, <3>4
  <2> QED BY <2>1, <2>2
<1>16. ASSUME After(at).is \in {"hunk", "body", "note"}
       PROVE  Named(FileAt(After(at))) \in annotated'.files
  <2>1. CASE at.is \in Heading
    <3>1. at.is \in {"rename", "new"} /\ After(at) = Place("hunk", at.s, 1, 0)
      BY <1>13, <1>16, <2>1, NextHeading
    <3>2. at.is # "rename"
      <4> SUFFICES ASSUME at.is = "rename" PROVE FALSE
        OBVIOUS
      <4>1. FileAt(at).hunks = <<>>
        BY DEF IsPlace
      <4>2. 1 \notin DOMAIN FileAt(at).hunks
        BY <4>1
      <4> QED BY <1>13, <1>16, <4>2, AfterHeading
    <3>3. FileAt(After(at)) = FileAt(at)
      BY <3>1 DEF FileAt, Place
    <3> QED BY <1>12, <3>1, <3>2, <3>3
  <2>2. CASE at.is \in {"hunk", "body", "note"}
    <3>1. After(at).s = at.s
      BY <1>13, <1>16, <2>2, NextInHunk DEF Place
    <3>2. FileAt(After(at)) = FileAt(at)
      BY <3>1 DEF FileAt
    <3> QED BY <1>12, <2>2, <3>2
  <2> QED BY <1>2, <2>1, <2>2
<1>17. ASSUME After(at).is = "rename", ~Differs(After(at))
       PROVE  Named(FileAt(After(at))) \in annotated'.files
  <2>1. at.is = "git"
    <3>1. CASE at.is \in {"hunk", "body", "note"}
      BY <1>13, <1>17, <3>1, NextInHunk DEF Place
    <3>2. CASE at.is \in {"rename", "new"}
      BY <1>13, <1>17, <3>2, AfterHeading
    <3>3. CASE at.is = "old"
      BY <1>17, <3>3, Next1 DEF Place
    <3> QED BY <1>2, <3>1, <3>2, <3>3 DEF Heading
  <2>2. FileAt(After(at)) = FileAt(at)
    BY <2>1, Next1 DEF FileAt, Place
  <2> QED BY <1>6, <1>8, <1>17, <2>1, <2>2 DEF Differs
<1>18. annotated'.files \subseteq FileNames
  BY <1>4, <1>6, <1>7, <1>8
<1>19. /\ \A s \in DOMAIN change'.files : s < at'.s =>
            Named(change'.files[s]) \in annotated'.files \cup Renamed'
       /\ at'.is \in {"hunk", "body", "note"} => Named(FileAt(at)') \in annotated'.files
       /\ at'.is = "rename" /\ ~Differs(at)' => Named(FileAt(at)') \in annotated'.files
  <2>1. FileAt(at)' = FileAt(After(at)) /\ (Differs(at)' <=> Differs(After(at)))
    <3>1. FileAt(at)' = FileAt(After(at))
      BY <1>1
    <3> QED BY <3>1 DEF Differs, GitPaths
  <2> QED BY <1>1, <1>15, <1>16, <1>17, <2>1
<1> QED BY <1>3, <1>18, <1>19 DEF NamesFit, Differs

(* No line read has lost its blank: a strict walk gives up there.          *)
NoBlank == \A i \in DOMAIN diff : diff[i].sign # ""

LEMMA BlankStep ==
  ASSUME change \in Patches, IsPlace(at), Fits(at, w), HistoryFits, ReadsOn, Strict, NoBlank
  PROVE  NoBlank' /\ (at.is = "body" => ~LineAt(at).bare)
<1> DEFINE n == Len(diff) + 1
<1>1. /\ DOMAIN diff' = DOMAIN diff \cup {n}
      /\ \A i \in DOMAIN diff : diff'[i] = diff[i]
      /\ diff'[n] = RawAt(at)
  BY BodyStep
<1> HIDE DEF n
<1>2. at.is \in Heading \cup {"hunk", "body", "note"} /\ at.is # "end"
  BY DEF IsPlace, ReadsOn
<1>3. at.is = "body" => RawAt(at).sign \in {"+", "-", " "}
  <2>1. ~Broken(RawAt(at))
    BY DEF ReadsOn, Raises
  <2> QED BY <2>1, <1>2, Kinds DEF Broken
<1>4. RawAt(at).sign # ""
  BY <1>2, <1>3, RawFacts DEF Heading
<1>5. at.is = "body" => ~LineAt(at).bare
  BY <1>4, RawFacts
<1> QED BY <1>1, <1>4, <1>5 DEF NoBlank

(* The counters tell a diff that ends inside of a hunk or a pair.          *)
LEMMA EndFacts ==
  ASSUME change \in Patches, IsPlace(at), Fits(at, w)
  PROVE  BrokenEnd <=> InHunk \/ InPair
<1>1. w.pending <=> InPair
  BY DEF Fits, IsWalker, InPair
<1>2. CASE at.is \notin {"body", "note"}
  BY <1>1, <1>2 DEF Fits, BrokenEnd, InHunk
<1>3. CASE at.is = "body"
  <2>1. /\ HunkAt(at) \in Hunk /\ at.k \in Nat \ {0} /\ Len(HunkAt(at).body) \in Nat
        /\ at.k <= Len(HunkAt(at).body)
        /\ LineAt(at).sign \in {"+", "-", " "}
    BY <1>3, LineFacts
  <2>2. PICK n \in Nat : n + 1 = at.k /\ n = at.k - 1
    BY <2>1, OneLess
  <2>3. Drained(HunkAt(at), n, w)
    BY <1>3, <2>2 DEF Fits, LinesRead
  <2>4. /\ w.oldRem \in Nat /\ w.newRem \in Nat
        /\ LineAt(at).sign \in OldSigns => w.oldRem >= 1
        /\ LineAt(at).sign \in NewSigns => w.newRem >= 1
    BY <2>1, <2>2, <2>3, LinesLeft DEF LineAt
  <2>5. LineAt(at).sign \in OldSigns \/ LineAt(at).sign \in NewSigns
    BY <2>1 DEF OldSigns, NewSigns
  <2>6. w.oldRem # 0 \/ w.newRem # 0
    BY <2>4, <2>5
  <2> QED BY <1>3, <2>6 DEF BrokenEnd, InHunk
<1>4. CASE at.is = "note"
  <2>1. /\ HunkAt(at) \in Hunk /\ at.k \in Nat \ {0} /\ Len(HunkAt(at).body) \in Nat
        /\ at.k <= Len(HunkAt(at).body)
    BY <1>4, LineFacts
  <2>2. Drained(HunkAt(at), at.k, w) /\ ~InPair
    BY <1>4 DEF Fits, LinesRead, InPair
  <2>3. CASE at.k = Len(HunkAt(at).body)
    <3>1. w.oldRem = 0 /\ w.newRem = 0
      BY <2>1, <2>2, <2>3, NoneLeft
    <3>2. ~(at.k < Len(HunkAt(at).body))
      <4>1. \A a \in Nat : ~(a < a)
        OBVIOUS
      <4> QED BY <4>1, <2>1, <2>3
    <3> QED BY <1>1, <1>4, <2>2, <3>1, <3>2 DEF BrokenEnd, InHunk
  <2>4. CASE at.k # Len(HunkAt(at).body)
    <3>1. at.k + 1 <= Len(HunkAt(at).body) /\ at.k < Len(HunkAt(at).body)
      <4>1. \A a, b \in Nat : a <= b /\ a # b => a + 1 <= b /\ a < b
        OBVIOUS
      <4> QED BY <4>1, <2>1, <2>4
    <3>2. at.k + 1 \in DOMAIN HunkAt(at).body
      <4>1. DOMAIN HunkAt(at).body = 1..Len(HunkAt(at).body)
        BY <2>1, BodyFacts
      <4> QED BY <4>1, <2>1, <3>1
    <3>3. HunkAt(at).body[at.k + 1].sign \in OldSigns \/ HunkAt(at).body[at.k + 1].sign \in NewSigns
      BY <2>1, <3>2, BodyFacts DEF OldSigns, NewSigns
    <3>4. /\ w.oldRem \in Nat /\ w.newRem \in Nat
          /\ HunkAt(at).body[at.k + 1].sign \in OldSigns => w.oldRem >= 1
          /\ HunkAt(at).body[at.k + 1].sign \in NewSigns => w.newRem >= 1
      BY <2>1, <2>2, <3>1, LinesLeft
    <3>5. w.oldRem # 0 \/ w.newRem # 0
      BY <3>3, <3>4
    <3> QED BY <1>4, <3>1, <3>5 DEF BrokenEnd, InHunk
  <2> QED BY <2>3, <2>4
<1> QED BY <1>2, <1>3, <1>4
-----------------------------------------------------------------------------
(* The walk tells the truth.                                               *)

(* What parse_diff, and what annotate_diff, has collected is that of the   *)
(* lines read.                                                             *)
FactsFit ==
  /\ parsed = [valid |-> parsed.valid, newFiles |-> parsed.newFiles, oldPaths |-> parsed.oldPaths]
  /\ LinesAreKnown
  /\ KnownAreLines
  /\ Tracked => FilesFit

RecordFits == EntriesFit /\ HunksFit /\ NamesFit /\ NoBlank

Working ==
  /\ change \in Patches
  /\ reader \in ConsumersOf(change)
  /\ IsPlace(at)
  /\ Fits(at, w)
  /\ HistoryFits
  /\ BlockFits
  /\ ~Strict => FactsFit
  /\ Strict => RecordFits

WalkInv ==
  /\ ended \in {"no", "done", "refused", "cut"}
  /\ ended = "no" => Working
  /\ ended # "no" => WalkTellsTruth

LEMMA StartWorks ==
  ASSUME DInit
  PROVE  Working
<1>1. /\ change \in Patches /\ reader \in ConsumersOf(change)
      /\ diff = <<>> /\ at = SectionFrom(1)
      /\ w = [old |-> 0, new |-> 0, oldRem |-> 0, newRem |-> 0, pending |-> FALSE]
      /\ block = [git |-> <<>>, pending |-> Null, paths |-> {}, guess |-> TRUE]
      /\ parsed = [valid |-> <<>>, newFiles |-> {}, oldPaths |-> <<>>]
      /\ annotated = [entries |-> {}, hunks |-> {}, files |-> {}, oldSpans |-> {},
                      oldStart |-> 0, oldLines |-> <<>>]
  BY DEF DInit
<1>2. /\ IsPlace(at) /\ at.s = 1 /\ at.is \in {"git", "old", "end"}
      /\ at.is = "old" => change.shape = "plain"
  BY <1>1, FromSection
<1>3. Fits(at, w)
  BY <1>1, <1>2 DEF Fits, IsWalker
<1>4. DOMAIN diff = {} /\ Body = {}
  BY <1>1 DEF Body
<1>5. HistoryFits
  <2>1. diff \in Seq({})
    BY <1>1
  <2> QED BY <1>4, <2>1 DEF HistoryFits, IsSequence
<1>6. BlockFits
  BY <1>1, <1>2, SectionFacts DEF BlockFits
<1>7. \A s \in DOMAIN change.files : ~(s < at.s)
  <2>1. \A s \in Nat : s < 1 => s = 0
    OBVIOUS
  <2>2. \A s \in DOMAIN change.files : s \in Nat /\ s # 0
    BY <1>1, SectionFacts
  <2> QED BY <1>2, <2>1, <2>2
<1>8. FactsFit
  <2>1. HeadLines = {}
    BY <1>4 DEF HeadLines
  <2>2. LinesAreKnown
    BY <2>1 DEF LinesAreKnown
  <2>3. DOMAIN parsed.valid = {}
    BY <1>1
  <2>4. KnownAreLines
    BY <2>3 DEF KnownAreLines
  <2>5. FilesFit
    <3>1. \A s \in DOMAIN change.files : ~Opened(at, s)
      BY <1>2, <1>7 DEF Opened
    <3> QED BY <1>1, <3>1 DEF FilesFit
  <2> QED BY <1>1, <2>2, <2>4, <2>5 DEF FactsFit
<1>9. RecordFits
  <2>1. EntriesFit
    BY <1>1, <1>4 DEF EntriesFit
  <2>2. Headers = {} /\ Bodies = {}
    BY <1>4 DEF Headers, Bodies
  <2>3. HunksFit
    BY <1>1, <1>2, <2>2 DEF HunksFit
  <2>4. NamesFit
    BY <1>1, <1>2, <1>7 DEF NamesFit
  <2>5. NoBlank
    BY <1>4 DEF NoBlank
  <2> QED BY <2>1, <2>3, <2>4, <2>5 DEF RecordFits
<1> QED BY <1>1, <1>2, <1>3, <1>5, <1>6, <1>8, <1>9 DEF Working

LEMMA WorkGoesOn ==
  ASSUME Working, ReadsOn
  PROVE  Working'
<1>1. /\ change \in Patches /\ reader \in ConsumersOf(change) /\ IsPlace(at) /\ Fits(at, w)
      /\ HistoryFits /\ BlockFits
  BY DEF Working
<1>2. /\ change' = change /\ reader' = reader /\ at' = After(at) /\ w' = Walked(RawAt(at))
      /\ at.is # "end"
  BY DEF ReadsOn
<1>3. /\ Strict' = Strict
      /\ \A p, v : Fits(p, v)' <=> Fits(p, v)
  BY <1>2, Still
<1>4. Fits(at, w)'
  <2>1. Fits(After(at), Walked(RawAt(at)))
    BY <1>1, <1>2, WalkerStep
  <2> QED BY <1>2, <1>3, <2>1
<1>5. HistoryFits' /\ IsPlace(at)'
  BY <1>1, HistoryStep
<1>6. BlockFits'
  BY <1>1, BlockStep
<1>7. ASSUME ~Strict PROVE FactsFit'
  <2>1. /\ parsed = [valid |-> parsed.valid, newFiles |-> parsed.newFiles, oldPaths |-> parsed.oldPaths]
        /\ LinesAreKnown /\ KnownAreLines /\ (Tracked => FilesFit)
    BY <1>7 DEF Working, FactsFit
  <2>2. parsed' = [valid |-> parsed'.valid, newFiles |-> parsed'.newFiles, oldPaths |-> parsed'.oldPaths]
    <3>1. at.is \in Heading \cup {"hunk", "body", "note"}
      BY <1>1, <1>2 DEF IsPlace
    <3>2. CASE at.is = "new"
      BY <1>1, <1>7, <2>1, <3>2, ParsedRead DEF PathsParsed
    <3>3. CASE at.is \in {"git", "old", "rename", "note"}
      <4>1. parsed' = parsed
        BY <1>1, <1>7, <2>1, <3>3, ParsedRead
      <4> QED BY <2>1, <4>1
    <3>4. CASE at.is = "hunk"
      BY <1>1, <1>7, <2>1, <3>4, ParsedRead
    <3>5. CASE at.is = "body" /\ LineAt(at).sign = "-"
      <4>1. parsed' = parsed
        BY <1>1, <1>7, <2>1, <3>5, ParsedRead
      <4> QED BY <2>1, <4>1
    <3>6. CASE at.is = "body" /\ LineAt(at).sign # "-"
      <4> DEFINE added == [k \in block.paths \X {w.new} |->
                             [old |-> IF LineAt(at).sign # "+" THEN w.old ELSE 0,
                              text |-> LineAt(at).text]]
                 all == Override(parsed.valid, added)
      <4>1. parsed' = [valid |-> all, newFiles |-> parsed.newFiles, oldPaths |-> parsed.oldPaths]
        BY <1>1, <1>7, <2>1, <3>6, ParsedRead
      <4> HIDE DEF all
      <4> QED BY <4>1
    <3> QED BY <3>1, <3>2, <3>3, <3>4, <3>5, <3>6 DEF Heading
  <2>3. LinesAreKnown' /\ KnownAreLines'
    BY <1>1, <1>7, <2>1, LinesStep
  <2>4. Tracked' => FilesFit'
    <3>1. Tracked' = Tracked
      BY <1>2 DEF Tracked
    <3> QED BY <1>1, <2>1, <3>1, FilesStep
  <2> QED BY <2>2, <2>3, <2>4 DEF FactsFit
<1>8. ASSUME Strict PROVE RecordFits'
  <2>1. EntriesFit /\ HunksFit /\ NamesFit /\ NoBlank
    BY <1>8 DEF Working, RecordFits
  <2> QED BY <1>1, <1>8, <2>1, EntriesStep, HunksStep, NamesStep, BlankStep DEF RecordFits
<1>9. (change \in Patches /\ reader \in ConsumersOf(change))'
  BY <1>1, <1>2 DEF ConsumersOf
<1> QED BY <1>3, <1>4, <1>5, <1>6, <1>7, <1>8, <1>9 DEF Working

(* What parse_diff has collected is true whenever the diff ends.           *)
LEMMA FactsHold ==
  ASSUME Working, ~Strict
  PROVE  FactsAreTrue
<1>1. /\ change \in Patches /\ IsPlace(at) /\ HistoryFits
      /\ LinesAreKnown /\ KnownAreLines /\ (Tracked => FilesFit)
  BY DEF Working, FactsFit
<1>2. ASSUME Tracked PROVE FilesAreKnown
  <2>1. Verbatim
    BY <1>2 DEF Tracked, Verbatim
  <2> SUFFICES ASSUME NEW k \in DOMAIN parsed.valid
               PROVE  \E s \in DOMAIN change.files :
                        /\ change.files[s].new = k[1]
                        /\ k[1] \in parsed.newFiles <=> change.files[s].old = Null
                        /\ change.files[s].old # Null => parsed.oldPaths[k[1]] = change.files[s].old
    BY DEF FilesAreKnown
  <2>2. PICK p \in HeadLines : k[1] = FileAt(p).new
    BY <1>1, <2>1 DEF KnownAreLines
  <2>3. PICK i \in Body : diff[i].at = p /\ LineAt(p).sign # "-"
    BY DEF HeadLines
  <2>4. p.is = "body" /\ IsPlace(p) /\ Behind(p, at)
    BY <1>1, <2>3 DEF HistoryFits, Body
  <2>5. p.s \in DOMAIN change.files /\ FileAt(p) = change.files[p.s] /\ FileAt(p).new # Null
        /\ p.h \in DOMAIN FileAt(p).hunks
    BY <1>1, <2>3, <2>4, LineFacts, HeadLine DEF FileAt
  <2>6. Opened(at, p.s)
    <3>1. FileAt(p).hunks # <<>>
      BY <2>5
    <3>2. CASE p.s < at.s
      BY <2>5, <3>1, <3>2 DEF Opened
    <3>3. CASE p.s = at.s /\ (p.h < at.h \/ p.h = at.h)
      <4>1. p.h \in Nat \ {0} /\ at.h \in Nat /\ (at.is \in Heading \cup {"end"} => at.h = 0)
        BY <1>1, <2>4, PlaceNumbers DEF Heading
      <4>2. \A a \in Nat \ {0} : ~(a < 0) /\ a # 0
        OBVIOUS
      <4>3. at.is \notin Heading \cup {"end"}
        BY <3>3, <4>1, <4>2
      <4>4. at.is \in {"hunk", "body", "note"}
        BY <1>1, <4>3 DEF IsPlace
      <4> QED BY <3>3, <4>4 DEF Opened
    <3> QED BY <2>4, <3>2, <3>3 DEF Behind
  <2>7. KnownFile(change.files[p.s])
    BY <1>1, <1>2, <2>5, <2>6 DEF FilesFit
  <2> QED BY <2>2, <2>5, <2>7 DEF KnownFile
<1> QED BY <1>1, <1>2 DEF FactsAreTrue, Tracked

LEMMA LinesStay ==
  ASSUME UNCHANGED <<change, reader, diff>>
  PROVE  HeadLines' = HeadLines
<1>1. \A p : LineAt(p)' = LineAt(p)
  BY Still
<1>2. Body' = Body
  BY DEF Body
<1>3. HeadLines' = {diff[i].at : i \in {j \in Body : LineAt(diff[j].at)'.sign # "-"}}
  BY <1>2 DEF HeadLines
<1>4. HeadLines' = {diff[i].at : i \in {j \in Body : LineAt(diff[j].at).sign # "-"}}
  BY <1>1, <1>3
<1> QED BY <1>4 DEF HeadLines

(* The facts are of what is collected, and of nothing that an end changes. *)
LEMMA FactsStay ==
  ASSUME FactsAreTrue, UNCHANGED <<change, reader, diff, parsed>>
  PROVE  FactsAreTrue'
<1>1. /\ \A p : FileAt(p)' = FileAt(p) /\ LineAt(p)' = LineAt(p)
              /\ OldAt(p)' = OldAt(p) /\ NewAt(p)' = NewAt(p)
      /\ Verbatim' = Verbatim
  BY Still
<1>2. Body' = Body
  BY DEF Body
<1>3. HeadLines' = HeadLines
  BY LinesStay
<1>4. LinesAreKnown'
  BY <1>1, <1>3 DEF FactsAreTrue, LinesAreKnown
<1>5. KnownAreLines'
  <2>1. \A path : BothSpellings(path)' = BothSpellings(path)
    BY DEF BothSpellings
  <2> QED BY <1>1, <1>3, <2>1 DEF FactsAreTrue, KnownAreLines
<1>6. (reader = "glab-verbatim" /\ change.shape = "git" => FilesAreKnown)'
  BY DEF FactsAreTrue, FilesAreKnown
<1> QED BY <1>4, <1>5, <1>6 DEF FactsAreTrue

(* A strict walk that ends in the middle of nothing has named everything.  *)
LEMMA RecordHolds ==
  ASSUME Working, Strict, at.is # "body"
  PROVE  /\ annotated.entries = {EntryOf(i) : i \in Body}
         /\ annotated.hunks =
              {<<FileAt(diff[i].at).new, HunkAt(diff[i].at).new,
                 HunkAt(diff[i].at).new + NewCount(HunkAt(diff[i].at)) - 1>> :
                   i \in {j \in Body : NewCount(HunkAt(diff[j].at)) # 0}}
         /\ at.is = "end" => annotated.files \cup Renamed = {Named(change.files[s]) : s \in DOMAIN change.files}
<1>1. /\ change \in Patches /\ IsPlace(at) /\ HistoryFits
      /\ EntriesFit /\ HunksFit /\ NamesFit
  BY DEF Working, RecordFits
<1>2. annotated.hunks =
        {<<FileAt(diff[i].at).new, HunkAt(diff[i].at).new,
           HunkAt(diff[i].at).new + NewCount(HunkAt(diff[i].at)) - 1>> :
             i \in {j \in Body : NewCount(HunkAt(diff[j].at)) # 0}}
  <2>1. annotated.hunks = {Shown(p) : p \in {q \in Bodies : NewCount(HunkAt(q)) # 0}}
    BY <1>1, HunksAreShown
  <2>2. {Shown(p) : p \in {q \in Bodies : NewCount(HunkAt(q)) # 0}}
          = {Shown(diff[i].at) : i \in {j \in Body : NewCount(HunkAt(diff[j].at)) # 0}}
    BY DEF Bodies
  <2> QED BY <2>1, <2>2 DEF Shown
<1>3. ASSUME at.is = "end" PROVE annotated.files \cup Renamed = FileNames
  <2>1. at.s \in Nat \ {0} /\ at.s \notin DOMAIN change.files
    BY <1>1, <1>3 DEF IsPlace
  <2>2. DOMAIN change.files = 1..Len(change.files) /\ Len(change.files) \in Nat
    BY <1>1, SectionFacts
  <2>3. \A s \in DOMAIN change.files : s < at.s
    <3>1. \A n \in Nat : \A a \in Nat \ {0} : a \notin 1..n => \A s \in 1..n : s < a
      OBVIOUS
    <3> QED BY <2>1, <2>2, <3>1
  <2>4. FileNames \subseteq annotated.files \cup Renamed
    BY <1>1, <2>3 DEF NamesFit, FileNames
  <2>5. annotated.files \subseteq FileNames /\ Renamed \subseteq FileNames
    BY <1>1, RenamedFacts DEF NamesFit
  <2> QED BY <2>4, <2>5
<1> QED BY <1>1, <1>2, <1>3 DEF EntriesFit, FileNames

LEMMA TruthAtEnd ==
  ASSUME Working, End, ended = "no"
  PROVE  WalkTellsTruth'
<1>1. /\ UNCHANGED <<change, reader, diff, at, w, block, parsed>>
      /\ ended' = IF Strict /\ BrokenEnd THEN "cut" ELSE "done"
  BY DEF End
<1>2. /\ Strict' = Strict
      /\ \A p : FileAt(p)' = FileAt(p) /\ HunkAt(p)' = HunkAt(p) /\ LineAt(p)' = LineAt(p)
             /\ OldAt(p)' = OldAt(p) /\ NewAt(p)' = NewAt(p)
  BY <1>1, Still
<1>3. (InHunk' <=> InHunk) /\ (InPair' <=> InPair)
  BY <1>1, <1>2 DEF InHunk, InPair
<1>4. BrokenEnd <=> InHunk \/ InPair
  BY EndFacts DEF Working
<1>5. CASE ~Strict
  <2>1. FactsAreTrue'
    BY <1>1, <1>5, FactsHold, FactsStay
  <2> QED BY <1>1, <1>2, <1>5, <2>1 DEF WalkTellsTruth, RaisesOnlyWhenBroken
<1>6. CASE Strict /\ BrokenEnd
  BY <1>1, <1>2, <1>3, <1>4, <1>6 DEF WalkTellsTruth, RaisesOnlyWhenBroken
<1>7. CASE Strict /\ ~BrokenEnd
  <2>1. ~InHunk /\ ~InPair /\ at.is # "body"
    BY <1>4, <1>7 DEF InHunk
  <2>2. \A i \in DOMAIN diff : diff[i].sign # ""
    BY <1>7, <2>1 DEF Working, RecordFits, NoBlank
  <2>3. /\ annotated'.entries = annotated.entries
        /\ annotated'.hunks = annotated.hunks
        /\ annotated'.files = annotated.files \cup Renamed
    BY <1>7 DEF End
  <2>4. Body' = Body
    BY <1>1 DEF Body
  <2>5. annotated'.entries = {EntryOf(i)' : i \in Body'}
    <3>1. \A i : EntryOf(i)' = EntryOf(i)
      BY <1>1, <1>2 DEF EntryOf
    <3>2. annotated.entries = {EntryOf(i) : i \in Body}
      BY <1>7, <2>1, RecordHolds
    <3> QED BY <2>3, <2>4, <3>1, <3>2
  <2>6. (annotated.hunks =
           {<<FileAt(diff[i].at).new, HunkAt(diff[i].at).new,
              HunkAt(diff[i].at).new + NewCount(HunkAt(diff[i].at)) - 1>> :
                i \in {j \in Body : NewCount(HunkAt(diff[j].at)) # 0}})'
    <3>1. annotated.hunks =
            {<<FileAt(diff[i].at).new, HunkAt(diff[i].at).new,
               HunkAt(diff[i].at).new + NewCount(HunkAt(diff[i].at)) - 1>> :
                 i \in {j \in Body : NewCount(HunkAt(diff[j].at)) # 0}}
      BY <1>7, <2>1, RecordHolds
    <3> QED BY <1>1, <1>2, <2>3, <2>4, <3>1
  <2>7. (at.is = "end" => annotated.files = {Named(change.files[s]) : s \in DOMAIN change.files})'
    <3>1. at.is = "end" => annotated.files \cup Renamed = {Named(change.files[s]) : s \in DOMAIN change.files}
      BY <1>7, <2>1, RecordHolds
    <3>2. {Named(change.files[s]) : s \in DOMAIN change.files}'
            = {Named(change.files[s]) : s \in DOMAIN change.files}
      BY <1>1
    <3> QED BY <1>1, <2>3, <3>1, <3>2
  <2>8. EntriesAreTrue'
    BY <2>5, <2>6, <2>7 DEF EntriesAreTrue
  <2> QED BY <1>1, <1>2, <1>3, <1>7, <2>1, <2>2, <2>8 DEF WalkTellsTruth, RaisesOnlyWhenBroken
<1> QED BY <1>5, <1>6, <1>7

LEMMA TruthWhileWorking ==
  ASSUME Working, ended = "no"
  PROVE  WalkTellsTruth
  BY FactsHold DEF WalkTellsTruth, RaisesOnlyWhenBroken

LEMMA NothingRead ==
  ASSUME UNCHANGED walkVars
  PROVE  (Working' <=> Working) /\ (WalkTellsTruth' <=> WalkTellsTruth)
<1>1. UNCHANGED <<change, reader, diff, at, w, block, parsed, annotated, ended>>
  BY DEF walkVars
<1>2. /\ Strict' = Strict /\ Verbatim' = Verbatim
      /\ \A p : /\ FileAt(p)' = FileAt(p) /\ HunkAt(p)' = HunkAt(p) /\ LineAt(p)' = LineAt(p)
                /\ OldAt(p)' = OldAt(p) /\ NewAt(p)' = NewAt(p)
                /\ RawAt(p)' = RawAt(p)
                /\ IsPlace(p)' <=> IsPlace(p)
      /\ \A p, v : Fits(p, v)' <=> Fits(p, v)
      /\ \A prefix, path : Prefixed(prefix, path)' = Prefixed(prefix, path)
  BY <1>1, Still
<1>3. Body' = Body
  BY <1>1 DEF Body
<1>4. HeadLines' = HeadLines
  BY <1>1, LinesStay
<1>5. (LinesAreKnown' <=> LinesAreKnown) /\ (FilesAreKnown' <=> FilesAreKnown)
  BY <1>1, <1>2, <1>4 DEF LinesAreKnown, FilesAreKnown
<1>6. KnownAreLines' <=> KnownAreLines
  <2>1. \A path : BothSpellings(path)' = BothSpellings(path)
    BY DEF BothSpellings
  <2> QED BY <1>1, <1>2, <1>4, <2>1 DEF KnownAreLines
<1>7. FactsAreTrue' <=> FactsAreTrue
  BY <1>1, <1>5, <1>6 DEF FactsAreTrue
<1>8. \A i : EntryOf(i)' = EntryOf(i)
  BY <1>1, <1>2 DEF EntryOf
<1>9. EntriesFit' <=> EntriesFit
  BY <1>1, <1>3, <1>8 DEF EntriesFit
<1>10. EntriesAreTrue' <=> EntriesAreTrue
  <2>1. (annotated.entries = {EntryOf(i) : i \in Body})' <=> annotated.entries = {EntryOf(i) : i \in Body}
    BY <1>1, <1>3, <1>8
  <2>2. (annotated.hunks =
           {<<FileAt(diff[i].at).new, HunkAt(diff[i].at).new,
              HunkAt(diff[i].at).new + NewCount(HunkAt(diff[i].at)) - 1>> :
                i \in {j \in Body : NewCount(HunkAt(diff[j].at)) # 0}})' <=>
         annotated.hunks =
           {<<FileAt(diff[i].at).new, HunkAt(diff[i].at).new,
              HunkAt(diff[i].at).new + NewCount(HunkAt(diff[i].at)) - 1>> :
                i \in {j \in Body : NewCount(HunkAt(diff[j].at)) # 0}}
    BY <1>1, <1>2, <1>3
  <2>3. (at.is = "end" => annotated.files = {Named(change.files[s]) : s \in DOMAIN change.files})' <=>
        (at.is = "end" => annotated.files = {Named(change.files[s]) : s \in DOMAIN change.files})
    BY <1>1
  <2> QED BY <2>1, <2>2, <2>3 DEF EntriesAreTrue
<1>11. RaisesOnlyWhenBroken' <=> RaisesOnlyWhenBroken
  BY <1>1, <1>2 DEF RaisesOnlyWhenBroken, InHunk, InPair
<1>12. WalkTellsTruth' <=> WalkTellsTruth
  BY <1>1, <1>2, <1>7, <1>10, <1>11 DEF WalkTellsTruth
<1>13. HistoryFits' <=> HistoryFits
  BY <1>1, <1>2, <1>3 DEF HistoryFits
<1>14. BlockFits' <=> BlockFits
  <2>1. \A file : BlockPaths(file)' = BlockPaths(file)
    BY <1>2 DEF BlockPaths
  <2>2. Tracked' = Tracked
    BY <1>1 DEF Tracked
  <2> QED BY <1>1, <1>2, <2>1, <2>2 DEF BlockFits
<1>15. FactsFit' <=> FactsFit
  <2>1. \A p, s : Opened(p, s)' <=> Opened(p, s)
    BY <1>1 DEF Opened
  <2>2. \A file : KnownFile(file)' <=> KnownFile(file)
    BY <1>1 DEF KnownFile
  <2>3. FilesFit' <=> FilesFit
    BY <1>1, <2>1, <2>2 DEF FilesFit
  <2>4. Tracked' = Tracked
    BY <1>1 DEF Tracked
  <2> QED BY <1>1, <1>5, <1>6, <2>3, <2>4 DEF FactsFit
<1>16. RecordFits' <=> RecordFits
  <2>1. /\ Headers' = Headers /\ Bodies' = Bodies /\ FileNames' = FileNames
        /\ \A p : Shown(p)' = Shown(p)
    BY <1>1, <1>2, <1>3 DEF Headers, Bodies, FileNames, Shown
  <2>2. HunksFit' <=> HunksFit
    BY <1>1, <1>2, <2>1 DEF HunksFit
  <2>3. Renamed' = Renamed
    BY <1>1, <1>2 DEF Renamed
  <2>4. NamesFit' <=> NamesFit
    BY <1>1, <1>2, <2>1, <2>3 DEF NamesFit
  <2>5. NoBlank' <=> NoBlank
    BY <1>1 DEF NoBlank
  <2> QED BY <1>9, <2>2, <2>4, <2>5 DEF RecordFits
<1>17. Working' <=> Working
  <2>1. (change \in Patches /\ reader \in ConsumersOf(change))' <=>
        change \in Patches /\ reader \in ConsumersOf(change)
    BY <1>1
  <2>2. (IsPlace(at)' <=> IsPlace(at)) /\ (Fits(at, w)' <=> Fits(at, w))
    BY <1>1, <1>2
  <2> QED BY <1>2, <1>13, <1>14, <1>15, <1>16, <2>1, <2>2 DEF Working
<1> QED BY <1>12, <1>17

(* DiffWalk.WalkTellsTruth: whatever the change and wherever its diff is   *)
(* cut, what parse_diff has collected is true of the lines it has read,    *)
(* and annotate_diff publishes the whole truth or raises: at a line, only  *)
(* when that line lost its blank, and at the end, only when the diff was   *)
(* cut inside a hunk or a pair of paths.                                   *)
THEOREM WalkAlwaysTellsTruth == DSpec => []WalkTellsTruth
<1>1. DInit => WalkInv
  <2> SUFFICES ASSUME DInit PROVE WalkInv
    OBVIOUS
  <2>1. ended = "no"
    BY DEF DInit
  <2> QED BY <2>1, StartWorks DEF WalkInv
<1>2. WalkInv /\ [DNext]_walkVars => WalkInv'
  <2> SUFFICES ASSUME WalkInv, [DNext]_walkVars PROVE WalkInv'
    OBVIOUS
  <2>1. CASE Read
    <3>1. Working /\ ended = "no" /\ at.is # "end" /\ change' = change /\ reader' = reader
      BY <2>1 DEF Read, WalkInv
    <3>2. CASE Raises(RawAt(at))
      <4>1. ended' = "refused" /\ UNCHANGED <<diff, at>>
        BY <2>1, <3>2 DEF Read
      <4>2. Strict
        BY <3>2 DEF Raises
      <4>3. at.is = "body" /\ LineAt(at).bare
        BY <3>1, <3>2, <4>2, WhyRaised DEF Working
      <4>4. (at.is = "body" /\ LineAt(at).bare)' /\ Strict'
        BY <3>1, <4>1, <4>2, <4>3 DEF LineAt, HunkAt, FileAt, Strict
      <4> QED BY <4>1, <4>4 DEF WalkInv, WalkTellsTruth, RaisesOnlyWhenBroken
    <3>3. CASE ~Raises(RawAt(at))
      <4>1. ReadsOn /\ ended' = ended
        BY <2>1, <3>3 DEF Read, ReadsOn
      <4>2. Working' /\ ended' = "no"
        BY <3>1, <4>1, WorkGoesOn
      <4> QED BY <4>2 DEF WalkInv
    <3> QED BY <3>2, <3>3
  <2>2. CASE End
    <3>1. Working /\ ended = "no"
      BY <2>2 DEF End, WalkInv
    <3>2. WalkTellsTruth'
      BY <2>2, <3>1, TruthAtEnd
    <3>3. ended' \in {"done", "cut"}
      BY <2>2 DEF End
    <3> QED BY <3>2, <3>3 DEF WalkInv
  <2>3. CASE UNCHANGED walkVars
    <3>1. (Working' <=> Working) /\ (WalkTellsTruth' <=> WalkTellsTruth)
      BY <2>3, NothingRead
    <3>2. ended' = ended
      BY <2>3 DEF walkVars
    <3> QED BY <3>1, <3>2 DEF WalkInv
  <2> QED BY <2>1, <2>2, <2>3 DEF DNext
<1>3. WalkInv => WalkTellsTruth
  BY TruthWhileWorking DEF WalkInv
<1> QED BY <1>1, <1>2, <1>3, PTL DEF DSpec
=============================================================================
