----------------------------- MODULE LossFunnel -----------------------------
(***************************************************************************)
(* Why a known bug was not delivered.  The workflow records, stage by      *)
(* stage, which claims live on and why others end (measurementTrace.js);   *)
(* the return cuts the record to its budget; the benchmark loads it, binds *)
(* it to what was posted, has the undelivered claims judged, and names the *)
(* stage at which each missed bug was lost (runner/stages.py,              *)
(* provenance.py).  One review of one pull request; a claim is one         *)
(* occurrence, the identity its trace_id gives it.                         *)
(***************************************************************************)
EXTENDS Integers, Sequences, FiniteSets, FiniteSetsExt, SequencesExt

CONSTANTS Claim, KnownBug

VARIABLES
  passing,    \* settings, the claims carried, those held back, the routes and groups
  recorded,  \* the snapshots so far
  fate,      \* history: where and why each claim ended
  trace,     \* what the return holds
  score      \* what was posted and what the judge said
lossVars == <<passing, recorded, fate, trace, score>>

TraceStages == <<"discover", "merge", "verify", "validate", "filter", "admission", "challenge",
                 "dispose", "select">>
AllStages == Append(TraceStages, "deliver")
StageOrder(s) == SelectInSeq(AllStages, LAMBDA x : x = s)
Absent == [kind |-> "absent"]

(* A resumed run takes findings from checkpoints, where no occurrence has  *)
(* its identity: stripTraceFields ran before they were written.            *)
LossInit ==
  /\ \E replayed \in BOOLEAN, partial \in {"none", "discover", "verify", "validate"} :
       /\ replayed => partial = "none"
       /\ passing = [replayed |-> replayed, partial |-> partial, carried |-> Claim, held |-> {},
                    route |-> [c \in Claim |-> "none"], lead |-> [c \in Claim |-> c]]
  /\ recorded = <<>> /\ trace = Absent /\ score = Absent
  /\ fate = [c \in Claim |-> <<"none", "none">>]
-----------------------------------------------------------------------------
Decision(c, kind, reason, related) == [id |-> c, kind |-> kind, reason |-> reason, related |-> related]
Seen(claims) == IF passing.replayed THEN {} ELSE claims

(* traceDecision is called for a finding with a trace_id only. *)
Snapshot(stage, ids, decisions, coverage) ==
  recorded' = Append(recorded,
    [stage |-> stage, ids |-> Seen(ids), decisions |-> {d \in decisions : ~passing.replayed},
     coverage |-> IF passing.replayed THEN "partial" ELSE coverage])
Due(stage) == trace = Absent /\ Len(recorded) + 1 = StageOrder(stage)
Ended(claims, stage, why) == fate' = [c \in Claim |-> IF c \in claims THEN <<stage, why[c]>> ELSE fate[c]]
Coverage(stage) == IF passing.partial = stage THEN "partial" ELSE "complete"

Discover ==
  /\ Due("discover")
  /\ \E found \in SUBSET Claim :
       /\ Snapshot("discover", found, {}, Coverage("discover"))
       /\ passing' = [passing EXCEPT !.carried = found]
  /\ UNCHANGED <<fate, trace, score>>

(* What each stage removes for.  A shape rejected at intake leaves a gap,  *)
(* so that discovery counts as partial; a path is rejected after it. *)
Removes(stage) ==
  CASE stage = "merge"     -> {"duplicate_id"} \cup (IF passing.partial = "discover" THEN {"invalid_shape"} ELSE {})
    [] stage = "verify"    -> {"verify_eliminated"}
    [] stage = "filter"    -> {"injection"}
    [] stage = "challenge" -> {"challenge_removed", "challenge_cap", "challenge_failed"}
    [] OTHER               -> {}

Stage(stage) ==
  /\ Due(stage)
  /\ \E gone \in SUBSET passing.carried : \E why \in [gone -> Removes(stage)] :
       LET held == {c \in gone : why[c] \in {"challenge_cap", "challenge_failed"}}
       IN /\ Snapshot(stage, passing.carried \ gone,
                      {Decision(c, IF c \in held THEN "held_back" ELSE "eliminated", why[c], {}) : c \in gone}
                        \cup (IF stage = "challenge"
                              THEN {Decision(c, passing.route[c], passing.route[c], {}) :
                                      c \in {x \in passing.carried \ gone : passing.route[x] # "none"}}
                              ELSE {}),
                      IF held # {} THEN "partial" ELSE Coverage(stage))
          /\ passing' = [passing EXCEPT !.carried = @ \ gone, !.held = held]
          /\ Ended(gone, stage, why)
  /\ UNCHANGED <<trace, score>>

(* The assessed predicates may leave a finding to the report, or hold it   *)
(* back: it is carried on to the disposal all the same. *)
Admit ==
  /\ Due("admission")
  /\ \E r \in [passing.carried -> {"none", "report_only", "held_back"}] :
       /\ Snapshot("admission", passing.carried,
                   {Decision(c, r[c], r[c], {}) : c \in {x \in passing.carried : r[x] # "none"}}, "complete")
       /\ passing' = [passing EXCEPT !.route = [c \in Claim |-> IF c \in passing.carried THEN r[c] ELSE @[c]]]
  /\ UNCHANGED <<fate, trace, score>>

(* disposeFindings: vetting that was not completed holds a finding back    *)
(* before its admission is looked at; the rest is delivered inline or in   *)
(* the body, claims of one issue behind a lead that is inline if one is. *)
DispositionsOf(c) ==
  (IF passing.partial = "verify" THEN {"verify_unproven"} ELSE {})
    \cup (IF passing.partial = "validate" THEN {"validation_skipped"} ELSE {})
    \cup (IF passing.route[c] # "none" THEN {passing.route[c]} ELSE {"deliver", "body_routed"})
Actionable(r) == {c \in DOMAIN r : r[c] \in {"deliver", "body_routed"}}
LeadChoices(acting, r) ==
  {f \in [Claim -> Claim] :
     \A c \in Claim :
       /\ c \notin acting => f[c] = c
       /\ f[f[c]] = f[c]
       /\ c \in acting => f[c] \in acting /\ (r[c] = "deliver" => r[f[c]] = "deliver")}
Fellows(c, lead) == {x \in Claim : lead[x] = lead[c]} \ {c}
Folded(acting, lead) == {Decision(c, "coalesced", "folded", Fellows(c, lead)) : c \in {x \in acting : lead[x] # x}}

Dispose ==
  /\ Due("dispose")
  /\ \E r \in [passing.carried -> UNION {DispositionsOf(c) : c \in Claim}] :
       /\ \A c \in passing.carried : r[c] \in DispositionsOf(c)
       /\ LET stay == {c \in passing.carried : r[c] \in {"deliver", "body_routed", "report_only"}}
              kind(c) == IF c \in stay THEN IF r[c] = "report_only" THEN "report_only" ELSE "body_routed"
                         ELSE "held_back"
              again == {d \in UNION {recorded[i].decisions : i \in 1..Len(recorded)} :
                          d.kind = "eliminated" /\ d.reason \in {"verify_eliminated", "injection", "challenge_removed"}}
              late == {Decision(c, "held_back", fate[c][2], {}) : c \in passing.held}
          IN \E lead \in LeadChoices(Actionable(r), r) :
               /\ Snapshot("dispose", stay,
                           {Decision(c, kind(c), r[c], {}) : c \in {x \in passing.carried : r[x] # "deliver"}}
                             \cup again \cup late \cup Folded(Actionable(r), lead), "complete")
               /\ passing' = [passing EXCEPT !.carried = stay, !.lead = lead,
                                           !.route = [c \in Claim |-> IF c \in stay THEN r[c] ELSE @[c]]]
               /\ Ended(passing.carried \ stay, "dispose", r)
  /\ UNCHANGED <<trace, score>>

(* The benchmark pins delivery_tier to all: groups are chosen whole. *)
Choose ==
  /\ Due("select")
  /\ LET open == {c \in passing.carried : passing.route[c] # "report_only"}
     IN \E chosen \in SUBSET {passing.lead[c] : c \in open} :
          LET ids == {c \in open : passing.lead[c] \in chosen}
              why == [c \in passing.carried \ ids |-> IF c \in open THEN "delivery_cap" ELSE "report_only"]
          IN /\ Snapshot("select", ids, {Decision(c, "not_selected", why[c], {}) : c \in DOMAIN why}, "complete")
             /\ passing' = [passing EXCEPT !.carried = ids]
             /\ Ended(DOMAIN why, "select", why)
  /\ UNCHANGED <<trace, score>>
-----------------------------------------------------------------------------
(* appendMeasurement: from the last stage back, what is cut is marked as   *)
(* unavailable, never an observed empty set.  When all of it is too much,  *)
(* nothing is returned. *)
MutantCut(snapshots, k) ==
  [i \in DOMAIN snapshots |->
     IF i + k <= Len(snapshots) THEN snapshots[i] ELSE [snapshots[i] EXCEPT !.ids = {}, !.decisions = {}]]
Cut(snapshots, k) ==
  [i \in DOMAIN snapshots |->
     IF i + k <= Len(snapshots) THEN snapshots[i]
     ELSE [snapshots[i] EXCEPT !.ids = {}, !.decisions = {}, !.coverage = "unavailable"]]
Referenced(snapshots) ==
  UNION {s.ids \cup UNION {{d.id} \cup d.related : d \in s.decisions} : s \in ToSet(snapshots)}
Identified == Seen(Claim)

Return ==
  /\ trace = Absent /\ Len(recorded) = Len(TraceStages)
  /\ \/ \E k \in 0..Len(recorded) :
          LET kept == Cut(recorded, k)
          IN trace' = [kind |-> "available", snapshots |-> kept,
                       dropped |-> {TraceStages[i] : i \in {n \in DOMAIN kept : n + k > Len(kept)}},
                       versions |-> IF k = 0 THEN Identified ELSE Referenced(kept) \cap Identified]
     \/ trace' = [kind |-> "unavailable"]
  /\ UNCHANGED <<passing, recorded, fate, score>>

(* load_trace: what it refuses to read. *)
Loads(t) ==
  /\ \A i \in DOMAIN t.snapshots :
       /\ t.snapshots[i].ids \subseteq t.versions
       /\ \A d \in t.snapshots[i].decisions :
            /\ {d.id} \cup d.related \subseteq t.versions
            /\ d.reason = "folded" => d.kind = "coalesced" /\ d.related # {}
       /\ t.snapshots[i].stage \in t.dropped =>
            t.snapshots[i].coverage = "unavailable" /\ t.snapshots[i].ids = {} /\ t.snapshots[i].decisions = {}
  /\ [i \in DOMAIN t.snapshots |-> t.snapshots[i].stage] = TraceStages
-----------------------------------------------------------------------------
(* trace_delivery and bind_delivery_trace: posted names the leads of the   *)
(* groups whose inline comments were posted; one reason, a missing anchor,  *)
(* stands for both that posting omits a group for. *)
CutShort == "select" \in trace.dropped
Delivered(posted) == {c \in passing.carried : passing.lead[c] \in posted}
DeliverSnapshot(posted) ==
  LET decisions == UNION {s.decisions : s \in ToSet(trace.snapshots)}
      coalesced == {d \in decisions : d.kind = "coalesced"}
      ids == Last(trace.snapshots).ids
      prior(c) == {d \in decisions : d.id = c /\ d.kind # "coalesced"}
  IN [stage |-> "deliver", ids |-> ids \cap Delivered(posted), coverage |-> Last(trace.snapshots).coverage,
      decisions |-> coalesced \cup
        UNION {IF prior(c) # {} THEN prior(c) ELSE {Decision(c, "not_selected", "unanchored", {})} :
                 c \in ids \ (Delivered(posted) \cup {d.id : d \in coalesced})}]

(* _collect_trace, and the load at scoring. *)
Usable == trace.kind = "available"

(* The selected findings of a resumed run have no version in the trace to  *)
(* agree with; a payload that differs from the plan binds nothing either. *)
Binds(faithful) == Usable /\ ~CutShort /\ Seen(passing.carried) = passing.carried /\ faithful

(* trace_errors leaves the record out of all that follows. *)
Errs(faithful) == ~Usable \/ (~CutShort /\ ~Binds(faithful))

(* discovery_inputs: the claims to judge one by one, those not delivered. *)
Asked(faithful, posted) ==
  IF Errs(faithful) THEN {}
  ELSE trace.snapshots[1].ids \ (IF Binds(faithful) THEN Delivered(posted) ELSE {})

(* _version_results: a delivered claim counts by the match of the comment  *)
(* it was posted in. *)
Credited(faithful, posted, hits) ==
  IF Binds(faithful) THEN {c \in Delivered(posted) \cap trace.snapshots[1].ids : passing.lead[c] \in hits} ELSE {}

Score ==
  /\ trace # Absent /\ score = Absent
  /\ \E posted \in SUBSET {passing.lead[c] : c \in passing.carried}, faithful \in BOOLEAN :
       /\ \A l \in posted : passing.route[l] = "deliver"
       /\ \E hits \in [KnownBug -> SUBSET posted],
            about \in [KnownBug -> SUBSET Asked(faithful, posted)],
            unjudged \in SUBSET Asked(faithful, posted) :
            /\ \A b \in KnownBug : about[b] \cap unjudged = {}
            /\ score' = [kind |-> "scored", failed |-> Errs(faithful), hits |-> hits, bound |-> Binds(faithful),
                         snapshots |-> IF Errs(faithful) THEN <<>>
                                       ELSE IF Binds(faithful) THEN Append(trace.snapshots, DeliverSnapshot(posted))
                                       ELSE trace.snapshots,
                         about |-> [b \in KnownBug |-> about[b] \cup Credited(faithful, posted, hits[b])],
                         unjudged |-> unjudged]
       /\ fate' = [c \in Claim |->
                    IF c \notin passing.carried THEN fate[c]
                    ELSE <<"deliver", IF c \in Delivered(posted) THEN "delivered"
                                      ELSE IF passing.route[passing.lead[c]] = "deliver" THEN "unanchored"
                                      ELSE "body_routed">>]
  /\ UNCHANGED <<passing, recorded, trace>>

LossNext ==
  \/ Discover \/ Admit \/ Dispose \/ Choose \/ Return \/ Score
  \/ \E s \in {"merge", "verify", "validate", "filter", "challenge"} : Stage(s)
LossSpec == LossInit /\ [][LossNext]_lossVars
-----------------------------------------------------------------------------
(* _bug_stage_rows and _trace_loss. *)
Missed(b) == score.hits[b] = {}
FullyJudged ==
  /\ ~score.failed
  /\ score.snapshots[1].coverage = "complete" /\ score.unjudged = {}

(* The claims about a bug, with those that each was folded into, and which *)
(* of them live on after each stage. *)
Trail(b) ==
  LET walk[i \in DOMAIN score.snapshots] ==
        LET s == score.snapshots[i] IN
        IF i = 1 THEN [ids |-> score.about[b], live |-> score.about[b]]
        ELSE LET grown == walk[i - 1].ids \cup
                   UNION {d.related : d \in {x \in s.decisions : x.kind = "coalesced" /\ x.id \in walk[i - 1].live}}
             IN [ids |-> grown, live |-> s.ids \cap grown]
  IN walk

Loss(stage, at, reason) == [stage |-> stage, at |-> at, reason |-> reason, established |-> TRUE]
NoLoss == [stage |-> "unknown", at |-> "none", reason |-> "none", established |-> FALSE]
LossStage(reason, at) ==
  CASE reason = "validation_skipped" -> "validate"
    [] reason = "verify_unproven" -> "verify"
    [] reason = "challenge_failed" -> "challenge"
    [] reason \in {"challenge_cap", "delivery_cap"} -> "cap"
    [] reason = "injection" -> "filter"
    [] reason \in {"report_only", "body_routed", "held_back"} -> "delivery"
    [] OTHER -> IF at \in {"select", "deliver"} THEN "delivery" ELSE at

(* Which of a stage's decisions comes first is left open. *)
Losses(b) ==
  LET n == Len(score.snapshots)
      trail == Trail(b)
      stops == {i \in 2..n : score.snapshots[i].coverage = "unavailable" \/ trail[i].live = {}}
  IN IF ~FullyJudged THEN {NoLoss}
     ELSE IF score.about[b] = {} THEN {Loss("not_found", "discover", "not_found")}
     ELSE IF stops = {} THEN {NoLoss}
     ELSE LET i == Min(stops)
              s == score.snapshots[i]
              told == {d \in s.decisions : d.id \in trail[i - 1].live /\ d.kind # "coalesced"}
          IN IF s.coverage = "unavailable" \/ told = {} THEN {NoLoss}
             ELSE {Loss(LossStage(d.reason, s.stage), s.stage, d.reason) : d \in told}

Bit(b, i) ==
  LET left == score.snapshots[i].ids \cap score.about[b]
      known == FullyJudged /\ score.snapshots[i].coverage = "complete"
  IN IF i = Len(AllStages) THEN IF Missed(b) THEN "gone" ELSE "lives"
     ELSE IF score.failed THEN "unknown"
     ELSE IF left # {} THEN "lives"
     ELSE IF known THEN "gone"
     ELSE "unknown"

(* loss_funnel: a delivered bug that an earlier stage has lost. *)
Disagrees(b) == ~Missed(b) /\ \E i \in 1..Len(TraceStages) : Bit(b, i) = "gone"
-----------------------------------------------------------------------------
(* A loss names the stage where the last claim about the bug ended, those  *)
(* it was folded into included, and the reason it ended for: no claim      *)
(* about it is delivered, none outlived that stage, and one ended there    *)
(* for that reason. *)
LossIsWhatHappened(b, loss) ==
  LET ids == UNION {Trail(b)[i].ids : i \in 1..StageOrder(loss.at)}
  IN IF loss.stage = "not_found"
     THEN score.unjudged = {} /\ recorded[1].coverage = "complete"
     ELSE /\ \A c \in ids : fate[c][2] # "delivered" /\ StageOrder(fate[c][1]) <= StageOrder(loss.at)
          /\ \E c \in ids : fate[c] = <<loss.at, loss.reason>>

(* The rows of a bug agree with its loss: no stage lives after one that it *)
(* is gone from, and the loss is not later than the first it is gone from. *)
RowsAgree(b) ==
  LET known == {i \in 1..Len(AllStages) : Bit(b, i) # "unknown"}
      gone == {i \in known : Bit(b, i) = "gone"}
  IN /\ score.bound => ~Disagrees(b) /\ \A i \in gone, j \in known : i < j => Bit(b, j) = "gone"
     /\ \A loss \in Losses(b) : Missed(b) /\ loss.established => \A i \in gone : i >= StageOrder(loss.at)

(* The loss of a bug (stages.py) is true of what the workflow did to the   *)
(* claims about it, whatever was cut, held back, folded or left unjudged;  *)
(* a record that the workflow returns can always be read; nothing is       *)
(* established about a resumed run; and when nothing was cut or left       *)
(* unjudged, a missed bug has an established loss. *)
LossesAreTrue ==
  /\ trace.kind = "available" => Loads(trace)
  /\ score.kind = "scored" => \A b \in KnownBug :
       /\ RowsAgree(b)
       /\ Missed(b) =>
            /\ \A loss \in Losses(b) : loss.established => LossIsWhatHappened(b, loss) /\ ~passing.replayed
            /\ FullyJudged /\ score.bound => \A loss \in Losses(b) : loss.established
=============================================================================
