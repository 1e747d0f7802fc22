------------------------------ MODULE GateRules ------------------------------
(***************************************************************************)
(* The rules by which the benchmark judges a comparison, as operators:     *)
(* which bugs a population counts (bench/runner/populations.py), whether   *)
(* two arms were run interleaved (windows.py, validity.py), what two       *)
(* auditors and the owner say of a finding (audit.py) and how guards add   *)
(* up to a verdict (compare.py).  Recall, margins and interval bounds are  *)
(* small integers on one scale; bootstrap and Wilson bounds are inputs.    *)
(***************************************************************************)
EXTENDS Integers, Sequences, FiniteSets, FiniteSetsExt, SequencesExt

Judgement == {"pass", "fail", "inconclusive"}
Better == [fail |-> 0, inconclusive |-> 1, pass |-> 2]
-----------------------------------------------------------------------------
(* Populations.  An epoch gives the pull requests, the bugs of each, the   *)
(* gate, holdout and mini subsets; a disposition excludes a pull request   *)
(* or single bugs of one (scope "pr" or "bug").                            *)
CONSTANTS Url, PerUrl, SliceSize

ASSUME PopulationAssumption == PerUrl \in Nat /\ SliceSize \in Nat /\ Url \subseteq Int

Bug == Url \X (1..PerUrl)
Of(bugs, u) == {b \in bugs : b[1] = u}
Epoch == [core : SUBSET Bug, gate : SUBSET Url, holdout : SUBSET Url, mini : SUBSET Url]
Dispositions == [prs : SUBSET Url, bugs : SUBSET Bug]

Contaminated(b, d) == b[1] \in d.prs \/ b \in d.bugs

DevPool(e, d) == ((Url \ e.gate) \ e.holdout) \ d.prs

(* The pull requests with most clean core bugs; ties by address. *)
DevSlice(e, d) ==
  LET clean(u) == Cardinality(Of(e.core \ d.bugs, u))
      ahead(u, v) == clean(u) > clean(v) \/ (clean(u) = clean(v) /\ u < v)
  IN {u \in DevPool(e, d) : Cardinality({v \in DevPool(e, d) : ahead(v, u)}) < SliceSize}

(* resolve_population: the bugs a named population counts, in a profile *)
Population(name, e, d, profile) ==
  LET urls == CASE name = "holdout" -> e.holdout
                [] name = "mini" -> e.mini
                [] name = "dev-pool" -> DevPool(e, d)
                [] name = "dev-slice" -> DevSlice(e, d)
                [] name = "gate-uncontaminated" -> e.gate \ d.prs
                [] name = "gate-uncontaminated-non-mini" -> (e.gate \ e.mini) \ d.prs
                [] OTHER -> e.gate
      bugs == {b \in profile : b[1] \in urls}
  IN IF name \in {"gate", "holdout", "mini"} THEN bugs
     ELSE {b \in bugs : Contaminated(b, d) <=> name = "gate-contaminated"}

(* The gate splits into what the gate decides on and what leaked; the      *)
(* development set shares no bug with the gate, the holdout or the leaks.  *)
PopulationsPartition ==
  \A core \in SUBSET Bug, d \in Dispositions :
  \A gate \in SUBSET Url : \A holdout \in SUBSET (Url \ gate), mini \in SUBSET gate :
    LET e == [core |-> core, gate |-> gate, holdout |-> holdout, mini |-> mini]
        P(name) == Population(name, e, d, Bug)
    IN /\ P("gate-uncontaminated") \cap P("gate-contaminated") = {}
       /\ P("gate-uncontaminated") \cup P("gate-contaminated") = P("gate")
       /\ P("gate-uncontaminated-non-mini") = P("gate-uncontaminated") \ P("mini")
       /\ P("dev-slice") \subseteq P("dev-pool")
       /\ P("dev-pool") \cap (P("gate") \cup P("holdout")) = {}
       /\ \A b \in P("dev-pool") : ~Contaminated(b, d)
-----------------------------------------------------------------------------
(* Interleaving.  A window plans, for each index, the baseline before the  *)
(* candidate (create_window); attempts of a run have start times, and the  *)
(* run one of its own.  A pair may start together, within Tolerance.       *)
Arm == <<"baseline", "candidate">>
PlannedOrder(n) == [i \in 1..(2 * n) |-> <<Arm[1 + ((i - 1) % 2)], (i + 1) \div 2>>]
Tolerance == 1

Before(x, y) == Max(x.attempts) < Min(y.attempts)
Distance(a, b) == IF a < b THEN b - a ELSE a - b
Together(x, y) == Distance(x.start, y.start) <= Tolerance

(* validate_interleaving *)
Interleaved(run) ==
  LET n == Len(run) \div 2
      first(i) == run[2 * i - 1]
      second(i) == run[2 * i]
  IN /\ \A i \in DOMAIN run : Min(run[i].attempts) >= run[i].start
     /\ \A i \in 1..n : Before(first(i), second(i)) \/ Together(first(i), second(i))
     /\ \A i \in 1..(n - 1) : \A x \in {first(i), second(i)}, y \in {first(i + 1), second(i + 1)} :
          Before(x, y)

(* Runs one after the other in the planned order are accepted, also when   *)
(* some attempt was retried within its run; with the order of two pairs    *)
(* exchanged, or a retry after the next pair began, they are not.          *)
InterleavingIsOrder ==
  \A late \in 0..6 :
    LET run == [i \in 1..4 |-> [start |-> 2 * i, attempts |-> {2 * i, 2 * i + 1}]]
        retried == [run EXCEPT ![1].attempts = {2, 2 + late}]
        exchanged == <<run[3], run[4], run[1], run[2]>>
    IN /\ [i \in DOMAIN run |-> PlannedOrder(2)[i][1]] = <<Arm[1], Arm[2], Arm[1], Arm[2]>>
       /\ Interleaved(run) /\ ~Interleaved(exchanged)
       /\ Interleaved(retried) <=> 2 + late < 4
-----------------------------------------------------------------------------
(* Audit.  merge: two seats label every sample, the owner only disputes.   *)
Seat == {"Sol", "Opus"}
NoLabel == "none"
Label == {"correct", "wrong"}

Disputed(l) == l["Sol"] # l["Opus"]
Refused(labels, owner) == \E s \in DOMAIN labels : ~Disputed(labels[s]) /\ owner[s] # NoLabel
Agreed(l, owned) == IF Disputed(l) THEN owned ELSE l["Sol"]
OwnerQueue(labels, owner) == {s \in DOMAIN labels : Agreed(labels[s], owner[s]) = NoLabel}

(* A resolved receipt gives each finding the label most seats gave it. *)
AuditIsMajority ==
  \A labels \in [1..2 -> [Seat -> Label]], owner \in [1..2 -> Label \cup {NoLabel}] :
    (~Refused(labels, owner) /\ OwnerQueue(labels, owner) = {}) =>
      \A s \in 1..2, l \in Label :
        Agreed(labels[s], owner[s]) = l <=>
          Cardinality({x \in Seat : labels[s][x] = l}) + (IF owner[s] = l THEN 1 ELSE 0) >= 2
-----------------------------------------------------------------------------
(* Verdicts.  An interval is its bounds and its clusters (0, 1 or more).   *)
Interval == {i \in [lower : -2..2, upper : -2..2, clusters : {0, 2}] : i.lower <= i.upper}

(* noninferiority_verdict, for a margin of 1 *)
NonInferiority(i, margin) ==
  IF i.clusters < 2 THEN "inconclusive"
  ELSE IF i.lower > -margin THEN "pass"
  ELSE IF i.upper <= -margin THEN "fail" ELSE "inconclusive"

Harm(i, margin) ==
  IF i.clusters < 2 THEN "inconclusive" ELSE IF i.upper < -margin THEN "fail" ELSE "pass"

(* The primary guard of evaluate_promotion: a wave fails on the measured   *)
(* difference alone and never on the interval, a ship rule on the interval *)
Primary(kind, difference, i, margin) ==
  IF kind = "wave" /\ difference < -margin THEN "fail"
  ELSE IF i.clusters < 2 THEN "inconclusive"
  ELSE IF i.lower > -margin THEN "pass"
  ELSE IF kind = "ship" /\ i.upper <= -margin THEN "fail" ELSE "inconclusive"

(* evaluate_promotion: one primary guard, and guards against harm.  A wave *)
(* at its last look must pass its primary guard; harm fails it only on     *)
(* evidence.                                                               *)
Verdict(kind, primary, others, extended, extension) ==
  LET all == {primary} \cup others
      first == IF "fail" \in all THEN "fail"
               ELSE IF "inconclusive" \in all /\ (kind = "ship" \/ ~extended)
                    THEN "inconclusive" ELSE primary
      last == kind = "wave" /\ (extended \/ extension = 0)
  IN IF last /\ first # "pass" THEN "fail" ELSE first

ExtensionAllowed(kind, verdict, extended, extension) ==
  kind = "wave" /\ ~extended /\ verdict = "inconclusive" /\ extension > 0

(* A verdict is monotone: better bounds never turn a pass into a failure.  *)
(* No verdict rests on fewer than two clusters, a passing one has no guard *)
(* failing and, at a look that is not the last, none inconclusive; the     *)
(* last look of a wave decides.                                            *)
VerdictsAreMonotone ==
  \A kind \in {"wave", "ship"}, margin \in 0..1 :
    /\ \A i, j \in Interval, x, y \in -2..2 :
         (i.lower <= j.lower /\ i.upper <= j.upper /\ i.clusters = j.clusters /\ x <= y) =>
           /\ Better[Primary(kind, x, i, margin)] <= Better[Primary(kind, y, j, margin)]
           /\ Better[NonInferiority(i, margin)] <= Better[NonInferiority(j, margin)]
           /\ Better[Harm(i, margin)] <= Better[Harm(j, margin)]
    /\ \A p, q \in Judgement, others \in SUBSET Judgement, extended \in BOOLEAN, extension \in 0..1 :
         LET V(x) == Verdict(kind, x, others, extended, extension)
         IN /\ Better[p] <= Better[q] => Better[V(p)] <= Better[V(q)]
            /\ V(p) = "pass" => p = "pass" /\ "fail" \notin others
            /\ (V(p) = "pass" /\ (kind = "ship" \/ ~extended)) => "inconclusive" \notin others
            /\ (kind = "wave" /\ (extended \/ extension = 0)) => V(p) # "inconclusive"
            /\ ExtensionAllowed(kind, V(p), extended, extension) =>
                 "fail" \notin {p} \cup others

(* The rules say what the protocol of the gate relies on. *)
RulesOfTheGate ==
  PopulationsPartition /\ InterleavingIsOrder /\ AuditIsMajority /\ VerdictsAreMonotone
=============================================================================
