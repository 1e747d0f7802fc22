------------------------- MODULE MeasurementProofs -------------------------
(***************************************************************************)
(* That a measurement is true of the review (MeasurementIsTrue), for any   *)
(* claims, known bugs, reviews and bounds.                                 *)
(*                                                                         *)
(* Losses: a record of the stages is sane (Sane) when each snapshot holds  *)
(* what lived then and a decision for what ended, whatever the cut left    *)
(* out; LossInv carries that from stage to stage, and what the benchmark   *)
(* walks in a loaded record is then the fate of the claim.                 *)
(*                                                                         *)
(* Credit: a population is what a review placed, in order, each group from *)
(* a position of its own (From, Surfaced); a judgement partitions it       *)
(* (JudgedFor); what is matched, sorted and counted follows from that.     *)
(* Folds and sums over sets are the functions that the library chooses,    *)
(* shown to exist by the least size at which one would not (GrownExists,   *)
(* SummedExists).                                                          *)
(***************************************************************************)
EXTENDS Measurement, FiniteSetTheorems, NaturalsInduction, SequenceTheorems, WellFoundedInduction, TLAPS

LEMMA FirstOf ==
  ASSUME NEW T \in SUBSET Nat, T # {}
  PROVE  \E x \in T : \A y \in T : x <= y
<1>1. IsWellFoundedOn(OpToRel(<, Nat), Nat)
  BY NatLessThanWellFounded
<1>2. PICK x \in T : \A y \in T : ~ (<<y, x>> \in OpToRel(<, Nat))
  BY <1>1, WFMin, Zenon
<1>3. \A y \in T : ~(y < x)
  BY <1>2 DEF OpToRel
<1>4. \A y \in T : y \in Nat /\ x \in Nat
  BY <1>2
<1>5. \A y \in T : x <= y
  BY <1>3, <1>4
<1> QED BY <1>2, <1>5
-----------------------------------------------------------------------------
(* Losses: what is recorded of a claim, stage by stage.                    *)
StageName == {"discover", "merge", "verify", "validate", "filter", "admission", "challenge",
              "dispose", "select", "deliver"}
Route == {"none", "report_only", "held_back", "deliver", "body_routed", "verify_unproven", "validation_skipped"}
Reason == Route \cup {"duplicate_id", "invalid_shape", "verify_eliminated", "injection", "challenge_removed",
                     "challenge_cap", "challenge_failed", "folded", "delivery_cap", "unanchored", "delivered"}
EndReason == Reason \ {"folded"}
DecisionKind == Route \cup {"eliminated", "coalesced", "not_selected"}
DecisionType == [id : Claim, kind : DecisionKind, reason : Reason, related : SUBSET Claim]
SnapshotType ==
  [stage : StageName, ids : SUBSET Claim, decisions : SUBSET DecisionType, coverage : {"complete", "partial"}]
PassingType ==
  [replayed : BOOLEAN, partial : {"none", "discover", "verify", "validate"},
   carried : SUBSET Claim, held : SUBSET Claim, route : [Claim -> Route], lead : [Claim -> Claim]]

Stages == 1..Len(recorded)
Told(i) == recorded[i].decisions
Acting == {c \in recorded[8].ids : passing.route[c] \in {"deliver", "body_routed"}}

LossTypes ==
  /\ passing \in PassingType
  /\ recorded \in Seq(SnapshotType) /\ Len(recorded) \in 0..9
  /\ \A i \in Stages : recorded[i].stage = AllStages[i]
  /\ fate \in [Claim -> (StageName \cup {"none"}) \X EndReason]

(* Of a resumed run nothing is recorded.                                   *)
Unseen ==
  passing.replayed =>
    \A i \in Stages : recorded[i].ids = {} /\ Told(i) = {} /\ recorded[i].coverage = "partial"

(* Claims only leave, and those of the last snapshot are carried.          *)
Shrinks ==
  /\ Len(recorded) = 0 => passing.carried = Claim
  /\ ~passing.replayed /\ Len(recorded) > 0 => passing.carried = recorded[Len(recorded)].ids
  /\ \A i, j \in Stages : i <= j => recorded[j].ids \subseteq recorded[i].ids

(* A claim that leaves at a stage has its fate there, and what the stage   *)
(* says of it is that. *)
Endings ==
  \A i \in Stages \ {1} : \A c \in recorded[i - 1].ids \ recorded[i].ids :
    /\ fate[c][1] = AllStages[i] /\ fate[c][2] # "delivered"
    /\ \E d \in Told(i) : d.id = c /\ d.kind # "coalesced"
    /\ \A d \in Told(i) : d.id = c /\ d.kind # "coalesced" => d.reason = fate[c][2]

(* What was eliminated or held back by the challenge is not carried.       *)
Gone ==
  /\ passing.held \cap passing.carried = {}
  /\ \A i \in Stages : \A d \in Told(i) : d.kind = "eliminated" => d.id \notin passing.carried

(* Before the disposal, what is said of a carried claim is its route.      *)
Undisposed ==
  Len(recorded) < 8 =>
    /\ \A c \in Claim : passing.route[c] \in {"none", "report_only", "held_back"}
    /\ Len(recorded) < 6 => \A c \in Claim : passing.route[c] = "none"
    /\ \A i \in Stages : \A d \in Told(i) :
         /\ d.kind # "coalesced" /\ d.reason # "folded"
         /\ d.id \in passing.carried => passing.route[d.id] # "none"

(* After it, of what may be delivered only that it goes to the body, and   *)
(* what it was folded into: groups, of which one leads. *)
Disposed ==
  Len(recorded) >= 8 =>
    /\ \A c \in recorded[8].ids : passing.route[c] \in {"deliver", "body_routed", "report_only"}
    /\ \A i \in Stages : \A d \in Told(i) :
         d.kind # "coalesced" /\ d.id \in Acting \cap passing.carried =>
           passing.route[d.id] = "body_routed" /\ d.reason = "body_routed"
    /\ \A c \in Acting : passing.route[c] = "body_routed" =>
         \E d \in Told(8) : d.id = c /\ d.kind # "coalesced"

Leads ==
  Len(recorded) >= 8 /\ ~passing.replayed =>
    /\ \A c \in Claim : /\ passing.lead[passing.lead[c]] = passing.lead[c]
                        /\ c \notin Acting => passing.lead[c] = c
                        /\ c \in Acting => passing.lead[c] \in Acting
    /\ \A c \in Acting : passing.lead[c] # c => \E d \in Told(8) : d.id = c /\ d.kind = "coalesced"
    /\ Len(recorded) = 9 =>
         /\ recorded[9].ids \subseteq Acting
         /\ \A c, x \in Acting : passing.lead[c] = passing.lead[x] /\ x \in recorded[9].ids => c \in recorded[9].ids

Coalescing ==
  \A i \in Stages : \A d \in Told(i) :
    /\ d.kind = "coalesced" <=> d.reason = "folded"
    /\ d.kind = "coalesced" =>
         /\ i = 8 /\ d.id \in Acting /\ passing.lead[d.id] # d.id
         /\ d.related = Fellows(d.id, passing.lead)

RecordInv ==
  LossTypes /\ Unseen /\ Shrinks /\ Endings /\ Gone /\ Undisposed /\ Disposed /\ Leads /\ Coalescing
-----------------------------------------------------------------------------
LEMMA Added ==
  ASSUME NEW S, NEW f \in Seq(S), NEW x \in S
  PROVE  /\ Len(Append(f, x)) = Len(f) + 1 /\ Append(f, x)[Len(f) + 1] = x
         /\ \A i \in 1..Len(f) : Append(f, x)[i] = f[i]
OBVIOUS

LEMMA StagesAre ==
  /\ Len(AllStages) = 10 /\ Len(TraceStages) = 9
  /\ AllStages[1] = "discover" /\ AllStages[2] = "merge" /\ AllStages[3] = "verify"
  /\ AllStages[4] = "validate" /\ AllStages[5] = "filter" /\ AllStages[6] = "admission"
  /\ AllStages[7] = "challenge" /\ AllStages[8] = "dispose" /\ AllStages[9] = "select"
  /\ AllStages[10] = "deliver"
  /\ \A i \in 1..9 : TraceStages[i] = AllStages[i]
  /\ DOMAIN TraceStages = 1..9
<1>1. Len(TraceStages) = 9
  BY DEF TraceStages
<1>2. DOMAIN TraceStages = 1..9
  BY DEF TraceStages
<1>3. /\ TraceStages[1] = "discover" /\ TraceStages[2] = "merge" /\ TraceStages[3] = "verify"
      /\ TraceStages[4] = "validate" /\ TraceStages[5] = "filter" /\ TraceStages[6] = "admission"
      /\ TraceStages[7] = "challenge" /\ TraceStages[8] = "dispose" /\ TraceStages[9] = "select"
  BY DEF TraceStages
<1>4. \A i \in 1..9 : TraceStages[i] \in StageName
  <2>1. \A i \in 1..9 : i \in {1, 2, 3, 4, 5, 6, 7, 8, 9}
    OBVIOUS
  <2>2. \A i \in {1, 2, 3, 4, 5, 6, 7, 8, 9} : TraceStages[i] \in StageName
    BY <1>3 DEF StageName
  <2> QED BY <2>1, <2>2
<1>5. TraceStages \in Seq(StageName)
  <2>1. TraceStages = [i \in DOMAIN TraceStages |-> TraceStages[i]]
    BY DEF TraceStages
  <2>2. TraceStages \in [1..9 -> StageName]
    BY <1>2, <1>4, <2>1
  <2> QED BY <2>2, SeqDef, 9 \in Nat, Zenon
<1>6. "deliver" \in StageName
  BY DEF StageName
<1>7. /\ Len(AllStages) = 10 /\ AllStages[10] = "deliver"
      /\ \A i \in 1..9 : TraceStages[i] = AllStages[i]
  <2>1. /\ Len(AllStages) = Len(TraceStages) + 1 /\ AllStages[Len(TraceStages) + 1] = "deliver"
        /\ \A i \in 1..Len(TraceStages) : AllStages[i] = TraceStages[i]
    BY <1>5, <1>6, Added, ZenonT(40) DEF AllStages
  <2> QED BY <1>1, <2>1
<1> QED BY <1>1, <1>2, <1>3, <1>7

LEMMA StagesDiffer ==
  \A i, j \in 1..10 : AllStages[i] = AllStages[j] => i = j
<1> SUFFICES ASSUME NEW i \in 1..10, NEW j \in 1..10, AllStages[i] = AllStages[j], i # j PROVE FALSE
  OBVIOUS
<1>1. i \in {1, 2, 3, 4, 5, 6, 7, 8, 9, 10} /\ j \in {1, 2, 3, 4, 5, 6, 7, 8, 9, 10}
  OBVIOUS
<1> QED BY <1>1, StagesAre

LEMMA OrderIs ==
  ASSUME NEW k \in 1..10
  PROVE  StageOrder(AllStages[k]) = k
<1> DEFINE s == AllStages[k]
           I == {i \in 1..Len(AllStages) : AllStages[i] = s}
<1>1. StageOrder(s) = IF I # {} THEN Min(I) ELSE 0
  BY DEF StageOrder, SelectInSeq
<1>2. I = {k}
  BY StagesAre, StagesDiffer
<1>3. Min({k}) = k
  BY DEF Min
<1> QED BY <1>1, <1>2, <1>3

LEMMA Orders ==
  /\ StageOrder("discover") = 1 /\ StageOrder("merge") = 2 /\ StageOrder("verify") = 3
  /\ StageOrder("validate") = 4 /\ StageOrder("filter") = 5 /\ StageOrder("admission") = 6
  /\ StageOrder("challenge") = 7 /\ StageOrder("dispose") = 8 /\ StageOrder("select") = 9
  /\ StageOrder("deliver") = 10
<1>1. \A k \in {1, 2, 3, 4, 5, 6, 7, 8, 9, 10} : k \in 1..10
  OBVIOUS
<1>2. \A k \in {1, 2, 3, 4, 5, 6, 7, 8, 9, 10} : StageOrder(AllStages[k]) = k
  BY <1>1, OrderIs, Zenon
<1> QED BY <1>2, StagesAre
-----------------------------------------------------------------------------
(* A stage adds its snapshot.                                              *)
Shot(stage, ids, decisions, coverage) ==
  [stage |-> stage, ids |-> IF passing.replayed THEN {} ELSE ids,
   decisions |-> IF passing.replayed THEN {} ELSE decisions,
   coverage |-> IF passing.replayed THEN "partial" ELSE coverage]

LEMMA ShotFields ==
  ASSUME NEW stage, NEW ids, NEW decisions, NEW coverage
  PROVE  /\ Shot(stage, ids, decisions, coverage).ids = IF passing.replayed THEN {} ELSE ids
         /\ Shot(stage, ids, decisions, coverage).decisions = IF passing.replayed THEN {} ELSE decisions
         /\ Shot(stage, ids, decisions, coverage).coverage = IF passing.replayed THEN "partial" ELSE coverage
         /\ passing.replayed => Shot(stage, ids, decisions, coverage).coverage = "partial"
BY DEF Shot

LEMMA RecordTyped ==
  ASSUME LossTypes, NEW i \in Stages
  PROVE  /\ recorded[i] \in SnapshotType /\ recorded[i].ids \subseteq Claim
         /\ Told(i) \subseteq DecisionType
         /\ \A d \in Told(i) : d.id \in Claim /\ d.related \subseteq Claim /\ d.kind \in DecisionKind
<1>1. recorded[i] \in SnapshotType
  BY DEF LossTypes, Stages
<1>2. recorded[i].ids \subseteq Claim /\ Told(i) \subseteq DecisionType
  BY <1>1 DEF SnapshotType, Told
<1> QED BY <1>1, <1>2 DEF DecisionType

LEMMA SnapshotIs ==
  ASSUME LossTypes, NEW stage, Due(stage), NEW ids, NEW decisions, NEW coverage,
         Snapshot(stage, ids, decisions, coverage),
         StageOrder(stage) \in 1..9, AllStages[StageOrder(stage)] = stage,
         ids \subseteq Claim, decisions \subseteq DecisionType, coverage \in {"complete", "partial"}
  PROVE  /\ Len(recorded') = Len(recorded) + 1 /\ Len(recorded') = StageOrder(stage)
         /\ \A i \in Stages : recorded'[i] = recorded[i]
         /\ Stages' = Stages \cup {Len(recorded')} /\ Len(recorded') \notin Stages
         /\ recorded'[Len(recorded')] = Shot(stage, ids, decisions, coverage)
         /\ recorded' \in Seq(SnapshotType) /\ Len(recorded') \in 0..9
         /\ \A i \in Stages' : recorded'[i].stage = AllStages[i]
<1> DEFINE snap == Shot(stage, ids, decisions, coverage)
<1>1. {d \in decisions : ~passing.replayed} = IF passing.replayed THEN {} ELSE decisions
  OBVIOUS
<1>2. recorded' = Append(recorded, snap)
  BY <1>1 DEF Snapshot, Seen, Shot
<1>3. stage \in StageName
  <2>1. \A k \in {1, 2, 3, 4, 5, 6, 7, 8, 9, 10} : AllStages[k] \in StageName
    BY StagesAre DEF StageName
  <2>2. StageOrder(stage) \in {1, 2, 3, 4, 5, 6, 7, 8, 9, 10}
    OBVIOUS
  <2> QED BY <2>1, <2>2
<1>4. snap \in SnapshotType
  BY <1>3 DEF SnapshotType, Shot
<1> HIDE DEF snap
<1>5. recorded \in Seq(SnapshotType) /\ Len(recorded) + 1 = StageOrder(stage)
  BY DEF LossTypes, Due
<1>6. /\ Len(recorded') = Len(recorded) + 1 /\ recorded' \in Seq(SnapshotType)
      /\ \A i \in 1..Len(recorded) : recorded'[i] = recorded[i]
      /\ recorded'[Len(recorded) + 1] = snap
  BY <1>2, <1>4, <1>5
<1>7. Stages' = Stages \cup {Len(recorded')} /\ Len(recorded') \notin Stages
  BY <1>5, <1>6 DEF Stages
<1>8. ASSUME NEW i \in Stages' PROVE recorded'[i].stage = AllStages[i]
  <2>1. CASE i \in Stages
    BY <1>6, <2>1 DEF LossTypes, Stages
  <2>2. CASE i = Len(recorded')
    BY <1>5, <1>6, <2>2 DEF snap, Shot
  <2> QED BY <1>7, <2>1, <2>2
<1> QED BY <1>5, <1>6, <1>7, <1>8 DEF Stages, snap
-----------------------------------------------------------------------------
CoreInv == LossTypes /\ Unseen /\ Shrinks /\ Endings /\ Gone

(* What a stage owes the record: claims only leave it, and of each that    *)
(* does it says why.                                                       *)
Owed(m, ids, decisions) ==
  /\ ids \subseteq passing.carried
  /\ passing' \in PassingType /\ passing'.replayed = passing.replayed
  /\ passing'.carried = ids /\ passing'.held \cap ids = {}
  /\ fate' \in [Claim -> (StageName \cup {"none"}) \X EndReason]
  /\ \A c \in Claim : c \in ids \/ c \notin passing.carried => fate'[c] = fate[c]
  /\ m # 1 => \A c \in passing.carried \ ids :
       /\ fate'[c][1] = AllStages[m] /\ fate'[c][2] # "delivered"
       /\ \E d \in decisions : d.id = c /\ d.kind # "coalesced"
       /\ \A d \in decisions : d.id = c /\ d.kind # "coalesced" => d.reason = fate'[c][2]
  /\ \A d \in decisions : d.kind = "eliminated" => d.id \notin ids

LEMMA CoreAdds ==
  ASSUME CoreInv, NEW stage, Due(stage), NEW ids, NEW decisions, NEW coverage,
         Snapshot(stage, ids, decisions, coverage),
         StageOrder(stage) \in 1..9, AllStages[StageOrder(stage)] = stage,
         decisions \subseteq DecisionType, coverage \in {"complete", "partial"},
         Owed(StageOrder(stage), ids, decisions)
  PROVE  CoreInv'
<1> DEFINE m == StageOrder(stage)
           n == Len(recorded)
           snap == recorded'[m]
<1>0. ids \subseteq Claim
  BY DEF Owed, CoreInv, LossTypes, PassingType
<1>1. /\ Len(recorded') = m /\ m = n + 1
      /\ \A i \in Stages : recorded'[i] = recorded[i]
      /\ Stages' = Stages \cup {m} /\ m \notin Stages
      /\ recorded' \in Seq(SnapshotType) /\ Len(recorded') \in 0..9
      /\ \A i \in Stages' : recorded'[i].stage = AllStages[i]
  BY <1>0, SnapshotIs DEF CoreInv
<1>2. /\ snap.ids = IF passing.replayed THEN {} ELSE ids
      /\ snap.decisions = IF passing.replayed THEN {} ELSE decisions
      /\ passing.replayed => snap.coverage = "partial"
  <2>1. recorded'[Len(recorded')] = Shot(stage, ids, decisions, coverage)
    BY <1>0, SnapshotIs DEF CoreInv
  <2> QED BY <1>1, <2>1, ShotFields
<1>3. n \in 0..9 /\ Stages = 1..n
  BY DEF CoreInv, LossTypes, Stages
<1> HIDE DEF m, n, snap
<1>4. LossTypes'
  BY <1>1 DEF LossTypes, Owed
<1>5. Unseen'
  <2>1. ASSUME NEW i \in Stages', passing.replayed
        PROVE recorded'[i].ids = {} /\ recorded'[i].decisions = {} /\ recorded'[i].coverage = "partial"
    <3>1. CASE i \in Stages
      BY <1>1, <2>1, <3>1 DEF CoreInv, Unseen, Told
    <3>2. CASE i = m
      BY <1>2, <2>1, <3>2 DEF snap
    <3> QED BY <1>1, <3>1, <3>2
  <2> QED BY <2>1 DEF Unseen, Owed, Told
<1>6. Shrinks'
  <2>1. ~passing.replayed => passing'.carried = snap.ids
    BY <1>2 DEF Owed
  <2>2. ASSUME NEW i \in Stages', NEW j \in Stages', i <= j
        PROVE  recorded'[j].ids \subseteq recorded'[i].ids
    <3>1. CASE i \in Stages /\ j \in Stages
      BY <1>1, <2>2, <3>1 DEF CoreInv, Shrinks
    <3>2. CASE i \in Stages /\ j = m
      <4>1. CASE passing.replayed
        BY <1>2, <3>2, <4>1 DEF snap
      <4>2. CASE ~passing.replayed
        <5>1. n \in Stages /\ i <= n
          BY <1>3, <3>2
        <5>2. passing.carried = recorded[n].ids /\ recorded[n].ids \subseteq recorded[i].ids
          BY <1>3, <3>2, <4>2, <5>1 DEF CoreInv, Shrinks, n
        <5> QED BY <1>1, <1>2, <3>2, <4>2, <5>2 DEF snap, Owed
      <4> QED BY <4>1, <4>2
    <3>3. CASE i = m /\ j \in Stages
      BY <1>1, <1>3, <2>2, <3>3
    <3> QED BY <1>1, <3>1, <3>2, <3>3
  <2>3. Len(recorded') # 0
    BY <1>1, <1>3
  <2> QED BY <1>1, <2>1, <2>2, <2>3 DEF Shrinks, Owed, snap
<1>7. Endings'
  <2> SUFFICES ASSUME NEW i \in Stages' \ {1}, NEW c \in recorded'[i - 1].ids \ recorded'[i].ids
               PROVE  /\ fate'[c][1] = AllStages[i] /\ fate'[c][2] # "delivered"
                      /\ \E d \in recorded'[i].decisions : d.id = c /\ d.kind # "coalesced"
                      /\ \A d \in recorded'[i].decisions :
                           d.id = c /\ d.kind # "coalesced" => d.reason = fate'[c][2]
    BY DEF Endings, Told
  <2>1. i - 1 \in Stages /\ recorded'[i - 1] = recorded[i - 1]
    BY <1>1, <1>3
  <2>2. ~passing.replayed
    BY <2>1 DEF CoreInv, Unseen
  <2>3. n \in Stages /\ passing.carried = recorded[n].ids
    BY <1>3, <2>1, <2>2 DEF CoreInv, Shrinks, n
  <2>4. c \in Claim
    BY <2>1, RecordTyped DEF CoreInv
  <2>5. CASE i \in Stages
    <3>1. recorded'[i] = recorded[i] /\ recorded[n].ids \subseteq recorded[i].ids
      BY <1>1, <1>3, <2>3, <2>5 DEF CoreInv, Shrinks
    <3>2. c \notin passing.carried
      BY <2>3, <3>1
    <3>3. fate'[c] = fate[c]
      BY <2>4, <3>2 DEF Owed
    <3>4. i \in Stages \ {1} /\ c \in recorded[i - 1].ids \ recorded[i].ids
      BY <2>1, <2>5, <3>1
    <3> QED BY <3>1, <3>3, <3>4 DEF CoreInv, Endings, Told
  <2>6. CASE i = m
    <3>1. i - 1 = n /\ m # 1
      BY <1>1, <1>3, <2>1, <2>6
    <3>2. c \in passing.carried \ ids /\ snap.decisions = decisions
      BY <1>2, <2>1, <2>2, <2>3, <2>6, <3>1 DEF snap
    <3> QED BY <2>6, <3>1, <3>2 DEF Owed, m, snap
  <2> QED BY <1>1, <2>5, <2>6
<1>8. Gone'
  <2>1. ASSUME NEW i \in Stages', NEW d \in recorded'[i].decisions, d.kind = "eliminated"
        PROVE  d.id \notin passing'.carried
    <3>1. CASE i \in Stages
      BY <1>1, <2>1, <3>1 DEF CoreInv, Gone, Told, Owed
    <3>2. CASE i = m
      <4>1. d \in decisions
        BY <1>2, <2>1, <3>2 DEF snap
      <4> QED BY <2>1, <4>1 DEF Owed
    <3> QED BY <1>1, <3>1, <3>2
  <2> QED BY <2>1 DEF Gone, Owed, Told
<1> QED BY <1>4, <1>5, <1>6, <1>7, <1>8 DEF CoreInv

(* The same for the part of the record that only the earlier stages make.  *)
LEMMA EarlyAdds ==
  ASSUME RecordInv, CoreInv', NEW stage, Due(stage), NEW ids, NEW decisions, NEW coverage,
         Snapshot(stage, ids, decisions, coverage),
         StageOrder(stage) \in 1..7, AllStages[StageOrder(stage)] = stage,
         decisions \subseteq DecisionType, coverage \in {"complete", "partial"},
         Owed(StageOrder(stage), ids, decisions),
         \A c \in Claim : passing'.route[c] \in {"none", "report_only", "held_back"},
         \A c \in Claim : passing.route[c] # "none" => passing'.route[c] # "none",
         StageOrder(stage) < 6 => passing'.route = passing.route,
         \A d \in decisions : /\ d.kind # "coalesced" /\ d.reason # "folded"
                              /\ d.id \in ids => passing'.route[d.id] # "none"
  PROVE  RecordInv'
<1>0. ids \subseteq Claim
  BY DEF Owed, RecordInv, LossTypes, PassingType
<1>a. /\ Len(recorded') = StageOrder(stage)
      /\ \A i \in Stages : recorded'[i] = recorded[i]
      /\ Stages' = Stages \cup {StageOrder(stage)}
      /\ recorded'[Len(recorded')] = Shot(stage, ids, decisions, coverage)
      /\ Len(recorded) + 1 = StageOrder(stage)
  BY <1>0, SnapshotIs DEF RecordInv
<1>1. /\ Len(recorded') = StageOrder(stage)
      /\ \A i \in Stages : recorded'[i] = recorded[i]
      /\ Stages' = Stages \cup {StageOrder(stage)}
      /\ recorded'[StageOrder(stage)].decisions = IF passing.replayed THEN {} ELSE decisions
      /\ Len(recorded) + 1 = StageOrder(stage)
  BY <1>a, ShotFields
<1>2. Len(recorded) < 8 /\ ~(Len(recorded') >= 8) /\ Len(recorded') < 8 /\ Len(recorded) \in 0..9
  BY <1>1 DEF RecordInv, LossTypes
<1>3. Undisposed'
  <2>1. ASSUME NEW i \in Stages', NEW d \in recorded'[i].decisions
        PROVE  /\ d.kind # "coalesced" /\ d.reason # "folded"
               /\ d.id \in passing'.carried => passing'.route[d.id] # "none"
    <3>1. CASE i \in Stages
      <4>1. recorded'[i] = recorded[i] /\ d \in Told(i)
        BY <1>1, <2>1, <3>1 DEF Told
      <4>2. /\ d.kind # "coalesced" /\ d.reason # "folded"
            /\ d.id \in passing.carried => passing.route[d.id] # "none"
        BY <1>2, <3>1, <4>1 DEF RecordInv, Undisposed
      <4>3. d.id \in Claim
        BY <3>1, <4>1, RecordTyped DEF RecordInv
      <4> QED BY <4>2, <4>3 DEF Owed
    <3>2. CASE i = StageOrder(stage)
      BY <1>1, <2>1, <3>2 DEF Owed
    <3> QED BY <1>1, <3>1, <3>2
  <2>2. Len(recorded') < 6 => \A c \in Claim : passing'.route[c] = "none"
    BY <1>1, <1>2 DEF RecordInv, Undisposed
  <2> QED BY <2>1, <2>2 DEF Undisposed, Told
<1>4. Disposed' /\ Leads'
  BY <1>2 DEF Disposed, Leads
<1>5. Coalescing'
  BY <1>2, <1>3 DEF Undisposed, Coalescing
<1> QED BY <1>3, <1>4, <1>5 DEF RecordInv, CoreInv
-----------------------------------------------------------------------------
LEMMA DecisionIs ==
  ASSUME NEW c, NEW kind, NEW reason, NEW related
  PROVE  /\ Decision(c, kind, reason, related).id = c /\ Decision(c, kind, reason, related).kind = kind
         /\ Decision(c, kind, reason, related).reason = reason
         /\ Decision(c, kind, reason, related).related = related
         /\ c \in Claim /\ kind \in DecisionKind /\ reason \in Reason /\ related \subseteq Claim
              => Decision(c, kind, reason, related) \in DecisionType
BY DEF Decision, DecisionType

LEMMA PassingIs ==
  ASSUME LossTypes
  PROVE  /\ passing \in PassingType /\ passing.replayed \in BOOLEAN
         /\ passing.partial \in {"none", "discover", "verify", "validate"}
         /\ passing.carried \subseteq Claim /\ passing.held \subseteq Claim
         /\ passing.route \in [Claim -> Route] /\ passing.lead \in [Claim -> Claim]
BY DEF LossTypes, PassingType

Becomes(ids, lead, routes) == passing' = [passing EXCEPT !.carried = ids, !.lead = lead, !.route = routes]

LEMMA PassingBecomes ==
  ASSUME LossTypes, NEW ids \in SUBSET Claim, NEW lead \in [Claim -> Claim], NEW routes \in [Claim -> Route],
         Becomes(ids, lead, routes)
  PROVE  /\ passing' \in PassingType /\ passing'.replayed = passing.replayed
         /\ passing'.carried = ids /\ passing'.held = passing.held /\ passing'.route = routes
         /\ passing'.lead = lead
BY PassingIs DEF PassingType, Becomes

LEMMA DueAt ==
  ASSUME LossTypes, NEW stage, Due(stage), NEW n \in 1..9, StageOrder(stage) = n
  PROVE  /\ n = 6 => Len(recorded) = 5 /\ Len(recorded) < 6 /\ Len(recorded) < 8
         /\ n = 8 => Len(recorded) = 7 /\ Len(recorded) < 8
         /\ n = 9 => Len(recorded) = 8 /\ Len(recorded) >= 8
<1>1. Len(recorded) \in Nat /\ Len(recorded) + 1 = n
  BY DEF LossTypes, Due
<1> DEFINE m == Len(recorded)
<1>2. m \in Nat /\ m + 1 = n
  BY <1>1
<1> HIDE DEF m
<1>3. /\ n = 6 => m = 5 /\ m < 6 /\ m < 8
      /\ n = 8 => m = 7 /\ m < 8
      /\ n = 9 => m = 8 /\ m >= 8
  BY <1>2
<1> QED BY <1>3 DEF m

EarlyStage == {"merge", "verify", "validate", "filter", "challenge"}

LEMMA RemovesAre ==
  ASSUME NEW s \in EarlyStage
  PROVE  \A r \in Removes(s) : r \in Reason /\ r # "delivered" /\ r # "folded"
<1>1. CASE s = "merge"
  BY <1>1 DEF Removes, Reason, Route
<1>2. CASE s = "verify"
  BY <1>2 DEF Removes, Reason, Route
<1>3. CASE s = "validate"
  BY <1>3 DEF Removes, Reason, Route
<1>4. CASE s = "filter"
  BY <1>4 DEF Removes, Reason, Route
<1>5. CASE s = "challenge"
  BY <1>5 DEF Removes, Reason, Route
<1> QED BY <1>1, <1>2, <1>3, <1>4, <1>5 DEF EarlyStage

LEMMA EndedIs ==
  ASSUME LossTypes, NEW claims, NEW stage \in StageName, NEW why, Ended(claims, stage, why),
         \A c \in claims : why[c] \in EndReason
  PROVE  /\ fate' \in [Claim -> (StageName \cup {"none"}) \X EndReason]
         /\ \A c \in Claim \ claims : fate'[c] = fate[c]
         /\ \A c \in Claim \cap claims : fate'[c][1] = stage /\ fate'[c][2] = why[c]
<1>1. fate' = [c \in Claim |-> IF c \in claims THEN <<stage, why[c]>> ELSE fate[c]]
  BY DEF Ended
<1>2. fate \in [Claim -> (StageName \cup {"none"}) \X EndReason]
  BY DEF LossTypes
<1>3. ASSUME NEW c \in Claim
      PROVE  (IF c \in claims THEN <<stage, why[c]>> ELSE fate[c]) \in (StageName \cup {"none"}) \X EndReason
  BY <1>2
<1> QED BY <1>1, <1>3

(* What a stage says of the claims it removes, and of those it routes. *)
LEMMA StageSteps ==
  ASSUME RecordInv, NEW s \in EarlyStage, Due(s),
         NEW gone \in SUBSET passing.carried, NEW why \in [gone -> Removes(s)],
         NEW held \in SUBSET gone, NEW decisions, NEW coverage \in {"complete", "partial"},
         decisions = {Decision(c, IF c \in held THEN "held_back" ELSE "eliminated", why[c], {}) : c \in gone}
                       \cup (IF s = "challenge"
                             THEN {Decision(c, passing.route[c], passing.route[c], {}) :
                                     c \in {x \in passing.carried \ gone : passing.route[x] # "none"}}
                             ELSE {}),
         Snapshot(s, passing.carried \ gone, decisions, coverage),
         passing' = [passing EXCEPT !.carried = @ \ gone, !.held = held],
         Ended(gone, s, why)
  PROVE  RecordInv'
<1> DEFINE ids == passing.carried \ gone
<1>1. StageOrder(s) \in 2..7 /\ AllStages[StageOrder(s)] = s /\ s \in StageName
  BY Orders, StagesAre DEF EarlyStage, StageName
<1>2. LossTypes /\ Len(recorded) < 8
  BY <1>1 DEF RecordInv, Due, LossTypes
<1>3. \A c \in Claim : passing.route[c] \in {"none", "report_only", "held_back"}
  BY <1>2 DEF RecordInv, Undisposed
<1>4. \A c \in gone : /\ why[c] \in Reason /\ why[c] # "delivered" /\ why[c] # "folded"
                    /\ why[c] \in EndReason
  BY RemovesAre DEF EndReason
<1>5. ASSUME NEW d \in decisions
      PROVE  \/ \E c \in gone : d = Decision(c, IF c \in held THEN "held_back" ELSE "eliminated", why[c], {})
             \/ \E c \in ids : passing.route[c] # "none" /\ d = Decision(c, passing.route[c], passing.route[c], {})
  <2>1. CASE d \in {Decision(c, IF c \in held THEN "held_back" ELSE "eliminated", why[c], {}) : c \in gone}
    BY <2>1
  <2>2. CASE d \in (IF s = "challenge"
                             THEN {Decision(c, passing.route[c], passing.route[c], {}) :
                                     c \in {x \in passing.carried \ gone : passing.route[x] # "none"}}
                             ELSE {})
    BY <2>2
  <2> QED BY <2>1, <2>2
<1>6. ASSUME NEW d \in decisions
      PROVE  /\ d \in DecisionType /\ d.kind # "coalesced" /\ d.reason # "folded"
             /\ \/ d.id \in gone /\ d.reason = why[d.id]
                \/ d.id \in ids /\ passing.route[d.id] # "none" /\ d.kind # "eliminated"
  <2>1. ASSUME NEW c \in gone,
               d = Decision(c, IF c \in held THEN "held_back" ELSE "eliminated", why[c], {})
        PROVE  /\ d \in DecisionType /\ d.kind # "coalesced" /\ d.reason # "folded"
               /\ d.id \in gone /\ d.reason = why[d.id]
    <3> DEFINE kind == IF c \in held THEN "held_back" ELSE "eliminated"
    <3>1. c \in Claim
      BY <1>2, PassingIs
    <3>2. kind \in DecisionKind /\ kind # "coalesced"
      BY DEF DecisionKind, Route
    <3> HIDE DEF kind
    <3>3. d = Decision(c, kind, why[c], {})
      BY <2>1 DEF kind
    <3>4. d.id = c /\ d.kind = kind /\ d.reason = why[c] /\ d \in DecisionType
      BY <1>4, <3>1, <3>2, <3>3, DecisionIs
    <3> QED BY <1>4, <3>2, <3>4
  <2>2. ASSUME NEW c \in ids, passing.route[c] # "none",
               d = Decision(c, passing.route[c], passing.route[c], {})
        PROVE  /\ d \in DecisionType /\ d.kind # "coalesced" /\ d.reason # "folded"
               /\ d.id \in ids /\ passing.route[d.id] # "none" /\ d.kind # "eliminated"
    <3> DEFINE r == passing.route[c]
    <3>1. c \in Claim
      BY <1>2, PassingIs
    <3>2. r \in DecisionKind /\ r \in Reason /\ r \notin {"coalesced", "folded", "eliminated"}
      BY <1>3, <3>1 DEF DecisionKind, Reason, Route
    <3> HIDE DEF r
    <3>3. d = Decision(c, r, r, {})
      BY <2>2 DEF r
    <3>4. d.id = c /\ d.kind = r /\ d.reason = r /\ d \in DecisionType
      BY <3>1, <3>2, <3>3, DecisionIs
    <3> QED BY <2>2, <3>2, <3>4
  <2> QED BY <1>5, <2>1, <2>2
<1>7. /\ fate' \in [Claim -> (StageName \cup {"none"}) \X EndReason]
      /\ \A c \in Claim \ gone : fate'[c] = fate[c]
      /\ \A c \in Claim \cap gone : fate'[c][1] = s /\ fate'[c][2] = why[c]
  BY <1>1, <1>2, <1>4, EndedIs
<1>8. /\ passing' \in PassingType /\ passing'.replayed = passing.replayed
      /\ passing'.carried = ids /\ passing'.held = held /\ passing'.route = passing.route
  BY <1>2, PassingIs DEF PassingType
<1>9. ASSUME NEW c \in gone
      PROVE  \E d \in decisions : d.id = c /\ d.kind # "coalesced"
  <2> DEFINE d == Decision(c, IF c \in held THEN "held_back" ELSE "eliminated", why[c], {})
  <2>1. d \in decisions
    OBVIOUS
  <2>2. d.id = c
    BY DecisionIs
  <2> HIDE DEF d
  <2> QED BY <1>6, <2>1, <2>2
<1> HIDE DEF ids
<1>10. Owed(StageOrder(s), ids, decisions)
  <2>1. ids \subseteq passing.carried /\ passing'.held \cap ids = {} /\ ids \cap gone = {}
    BY <1>8 DEF ids
  <2>2. \A c \in passing.carried \ ids : c \in gone /\ c \in Claim
    BY <1>2, PassingIs DEF ids
  <2>3. \A c \in Claim : c \in ids \/ c \notin passing.carried => c \notin gone
    BY DEF ids
  <2>4. \A d \in decisions : d.kind = "eliminated" => d.id \notin ids
    BY <1>6, <2>1
  <2>5. ASSUME NEW c \in passing.carried \ ids
        PROVE  /\ fate'[c][1] = AllStages[StageOrder(s)] /\ fate'[c][2] # "delivered"
               /\ \E d \in decisions : d.id = c /\ d.kind # "coalesced"
               /\ \A d \in decisions : d.id = c /\ d.kind # "coalesced" => d.reason = fate'[c][2]
    <3>1. c \in gone /\ fate'[c][1] = s /\ fate'[c][2] = why[c]
      BY <1>7, <2>2
    <3> QED BY <1>1, <1>4, <1>6, <1>9, <2>1, <3>1
  <2> QED BY <1>7, <1>8, <2>1, <2>3, <2>4, <2>5 DEF Owed
<1>11. decisions \subseteq DecisionType
  BY <1>6
<1>12. Snapshot(s, ids, decisions, coverage) /\ StageOrder(s) \in 1..9 /\ StageOrder(s) \in 1..7
  BY <1>1 DEF ids
<1>13. CoreInv'
  BY <1>1, <1>10, <1>11, <1>12, CoreAdds DEF RecordInv, CoreInv
<1>14. \A d \in decisions : /\ d.kind # "coalesced" /\ d.reason # "folded"
                            /\ d.id \in ids => passing'.route[d.id] # "none"
  BY <1>6, <1>8 DEF ids
<1> QED BY <1>1, <1>3, <1>8, <1>10, <1>11, <1>12, <1>13, <1>14, EarlyAdds

LEMMA StageKeeps ==
  ASSUME RecordInv, NEW s \in EarlyStage, Stage(s)
  PROVE  RecordInv'
<1>0. PICK gone \in SUBSET passing.carried : \E why \in [gone -> Removes(s)] :
        LET held == {c \in gone : why[c] \in {"challenge_cap", "challenge_failed"}}
        IN /\ Snapshot(s, passing.carried \ gone,
                      {Decision(c, IF c \in held THEN "held_back" ELSE "eliminated", why[c], {}) : c \in gone}
                        \cup (IF s = "challenge"
                              THEN {Decision(c, passing.route[c], passing.route[c], {}) :
                                      c \in {x \in passing.carried \ gone : passing.route[x] # "none"}}
                              ELSE {}),
                      IF held # {} THEN "partial" ELSE Coverage(s))
           /\ passing' = [passing EXCEPT !.carried = @ \ gone, !.held = held]
           /\ Ended(gone, s, why)
  BY Zenon DEF Stage
<1>1. PICK why \in [gone -> Removes(s)] :
        LET held == {c \in gone : why[c] \in {"challenge_cap", "challenge_failed"}}
        IN /\ Snapshot(s, passing.carried \ gone,
                      {Decision(c, IF c \in held THEN "held_back" ELSE "eliminated", why[c], {}) : c \in gone}
                        \cup (IF s = "challenge"
                              THEN {Decision(c, passing.route[c], passing.route[c], {}) :
                                      c \in {x \in passing.carried \ gone : passing.route[x] # "none"}}
                              ELSE {}),
                      IF held # {} THEN "partial" ELSE Coverage(s))
           /\ passing' = [passing EXCEPT !.carried = @ \ gone, !.held = held]
           /\ Ended(gone, s, why)
  BY <1>0
<1> DEFINE held == {c \in gone : why[c] \in {"challenge_cap", "challenge_failed"}}
           coverage == IF held # {} THEN "partial" ELSE Coverage(s)
<1>2. held \in SUBSET gone /\ coverage \in {"complete", "partial"}
  BY DEF Coverage
<1>3. Due(s)
  BY DEF Stage
<1> QED BY <1>1, <1>2, <1>3, StageSteps, Zenon

LEMMA DiscoverKeeps ==
  ASSUME RecordInv, Discover
  PROVE  RecordInv'
<1>1. PICK found \in SUBSET Claim :
        /\ Snapshot("discover", found, {}, Coverage("discover"))
        /\ passing' = [passing EXCEPT !.carried = found]
  BY DEF Discover
<1>2. Due("discover") /\ fate' = fate
  BY DEF Discover
<1>3. LossTypes /\ Len(recorded) = 0 /\ Len(recorded) < 8
  BY <1>2, Orders DEF RecordInv, LossTypes, Due
<1>4. passing.carried = Claim
  BY <1>3 DEF RecordInv, Shrinks
<1>5. /\ passing' \in PassingType /\ passing'.replayed = passing.replayed
      /\ passing'.carried = found /\ passing'.held = passing.held /\ passing'.route = passing.route
  BY <1>1, <1>3, PassingIs DEF PassingType
<1>6. passing.held = {}
  BY <1>3, <1>4, PassingIs DEF RecordInv, Gone
<1>7. fate' \in [Claim -> (StageName \cup {"none"}) \X EndReason]
  BY <1>2, <1>3 DEF LossTypes
<1>8. StageOrder("discover") = 1 /\ AllStages[1] = "discover"
  BY Orders, StagesAre
<1>9. Owed(StageOrder("discover"), found, {})
  BY <1>2, <1>4, <1>5, <1>6, <1>7, <1>8 DEF Owed
<1>10. Coverage("discover") \in {"complete", "partial"}
  BY DEF Coverage
<1>11. StageOrder("discover") \in 1..9 /\ StageOrder("discover") \in 1..7
       /\ AllStages[StageOrder("discover")] = "discover" /\ {} \subseteq DecisionType
  BY <1>8
<1>12. CoreInv'
  BY <1>1, <1>2, <1>9, <1>10, <1>11, CoreAdds DEF RecordInv, CoreInv
<1>13. \A c \in Claim : passing.route[c] \in {"none", "report_only", "held_back"}
  BY <1>3 DEF RecordInv, Undisposed
<1> QED BY <1>1, <1>2, <1>5, <1>9, <1>10, <1>11, <1>12, <1>13, EarlyAdds

LEMMA AdmitKeeps ==
  ASSUME RecordInv, Admit
  PROVE  RecordInv'
<1>1. PICK r \in [passing.carried -> {"none", "report_only", "held_back"}] :
        /\ Snapshot("admission", passing.carried,
                    {Decision(c, r[c], r[c], {}) : c \in {x \in passing.carried : r[x] # "none"}}, "complete")
        /\ passing' = [passing EXCEPT !.route = [c \in Claim |-> IF c \in passing.carried THEN r[c] ELSE @[c]]]
  BY DEF Admit
<1> DEFINE decisions == {Decision(c, r[c], r[c], {}) : c \in {x \in passing.carried : r[x] # "none"}}
           routes == [c \in Claim |-> IF c \in passing.carried THEN r[c] ELSE passing.route[c]]
<1>2. Due("admission") /\ fate' = fate
  BY DEF Admit
<1>a. LossTypes /\ StageOrder("admission") = 6 /\ 6 \in 1..9
  BY Orders DEF RecordInv
<1>3. LossTypes /\ Len(recorded) = 5 /\ Len(recorded) < 8 /\ Len(recorded) < 6
  BY <1>2, <1>a, DueAt, Zenon
<1>4. \A c \in Claim : passing.route[c] = "none"
  BY <1>3 DEF RecordInv, Undisposed
<1>5. \A c \in Claim : routes[c] \in {"none", "report_only", "held_back"}
  BY <1>4
<1>6. routes \in [Claim -> Route]
  BY <1>5 DEF Route
<1> HIDE DEF routes
<1>7. passing' = [passing EXCEPT !.route = routes]
  BY <1>1 DEF routes
<1>8. /\ passing' \in PassingType /\ passing'.replayed = passing.replayed
      /\ passing'.carried = passing.carried /\ passing'.held = passing.held /\ passing'.route = routes
  BY <1>3, <1>6, <1>7, PassingIs DEF PassingType
<1>9. fate' \in [Claim -> (StageName \cup {"none"}) \X EndReason]
  BY <1>2, <1>3 DEF LossTypes
<1>10. ASSUME NEW d \in decisions
       PROVE  /\ d \in DecisionType /\ d.kind # "coalesced" /\ d.reason # "folded" /\ d.kind # "eliminated"
              /\ d.id \in passing.carried /\ routes[d.id] # "none"
  <2>1. PICK c \in passing.carried : r[c] # "none" /\ d = Decision(c, r[c], r[c], {})
    OBVIOUS
  <2> DEFINE q == r[c]
  <2>2. c \in Claim /\ routes[c] = q
    BY <1>3, PassingIs DEF routes
  <2>3. q \in {"report_only", "held_back"}
    BY <2>1
  <2>4. q \in DecisionKind /\ q \in Reason /\ q \notin {"coalesced", "folded", "eliminated", "none"}
    BY <2>3 DEF DecisionKind, Reason, Route
  <2> HIDE DEF q
  <2>5. d = Decision(c, q, q, {})
    BY <2>1 DEF q
  <2>6. d.id = c /\ d.kind = q /\ d.reason = q /\ d \in DecisionType
    BY <2>2, <2>4, <2>5, DecisionIs
  <2> QED BY <2>2, <2>4, <2>6
<1> HIDE DEF decisions
<1>11. StageOrder("admission") = 6 /\ AllStages[6] = "admission"
  BY Orders, StagesAre
<1>12. passing.held \cap passing.carried = {}
  BY DEF RecordInv, Gone
<1>13. \A c \in passing.carried : ~(\E d \in decisions : d.kind = "eliminated" /\ d.id = c)
  BY <1>10
<1>14. Owed(StageOrder("admission"), passing.carried, decisions)
  BY <1>2, <1>8, <1>9, <1>12, <1>13 DEF Owed
<1>15. StageOrder("admission") \in 1..9 /\ StageOrder("admission") \in 1..7
       /\ AllStages[StageOrder("admission")] = "admission" /\ ~(StageOrder("admission") < 6)
  BY <1>11
<1>16. decisions \subseteq DecisionType
  BY <1>10
<1>17. Snapshot("admission", passing.carried, decisions, "complete")
  BY <1>1 DEF decisions
<1>18. CoreInv'
  BY <1>2, <1>14, <1>15, <1>16, <1>17, CoreAdds DEF RecordInv, CoreInv
<1> QED BY <1>2, <1>4, <1>5, <1>8, <1>10, <1>14, <1>15, <1>16, <1>17, <1>18, EarlyAdds

LEMMA DispositionsAre ==
  ASSUME NEW c, passing.route[c] \in {"none", "report_only", "held_back"}
  PROVE  /\ DispositionsOf(c) \subseteq {"verify_unproven", "validation_skipped", "report_only", "held_back",
                                         "deliver", "body_routed"}
         /\ \A x \in DispositionsOf(c) : x \in {"deliver", "body_routed"} => passing.route[c] = "none"
BY DEF DispositionsOf

Stay(r) == {c \in passing.carried : r[c] \in {"deliver", "body_routed", "report_only"}}
KindOf(c, r) ==
  IF c \in Stay(r) THEN IF r[c] = "report_only" THEN "report_only" ELSE "body_routed" ELSE "held_back"
ToldNow(r) == {Decision(c, KindOf(c, r), r[c], {}) : c \in {x \in passing.carried : r[x] # "deliver"}}
ToldAgain == {d \in UNION {recorded[i].decisions : i \in 1..Len(recorded)} :
                d.kind = "eliminated" /\ d.reason \in {"verify_eliminated", "injection", "challenge_removed"}}
ToldLate == {Decision(c, "held_back", fate[c][2], {}) : c \in passing.held}

LEMMA NowAre ==
  ASSUME RecordInv, Len(recorded) < 8, NEW r, \A c \in passing.carried : r[c] \in DispositionsOf(c),
         NEW d \in ToldNow(r)
  PROVE  /\ d \in DecisionType /\ d.kind \notin {"coalesced", "eliminated"} /\ d.reason # "folded"
         /\ d.id \in passing.carried /\ d.reason = r[d.id] /\ r[d.id] # "deliver"
<1>1. PICK c \in passing.carried : r[c] # "deliver" /\ d = Decision(c, KindOf(c, r), r[c], {})
  BY DEF ToldNow
<1> DEFINE kind == KindOf(c, r)
           x == r[c]
<1>2. c \in Claim /\ passing.route[c] \in {"none", "report_only", "held_back"}
  BY PassingIs DEF RecordInv, Undisposed
<1>3. x \in {"verify_unproven", "validation_skipped", "report_only", "held_back", "deliver", "body_routed"}
  BY <1>2, DispositionsAre
<1>4. x \in Reason /\ x # "folded"
  BY <1>3 DEF Reason, Route
<1>5. kind \in DecisionKind /\ kind \notin {"coalesced", "eliminated"}
  BY DEF KindOf, DecisionKind, Route
<1> HIDE DEF kind, x
<1>6. d = Decision(c, kind, x, {})
  BY <1>1 DEF kind, x
<1>7. d.id = c /\ d.kind = kind /\ d.reason = x /\ d \in DecisionType
  BY <1>2, <1>4, <1>5, <1>6, DecisionIs
<1> QED BY <1>1, <1>4, <1>5, <1>7 DEF x

LEMMA AgainAre ==
  ASSUME RecordInv, Len(recorded) < 8, NEW d \in ToldAgain
  PROVE  d \in DecisionType /\ d.id \notin passing.carried /\ d.kind # "coalesced" /\ d.reason # "folded"
<1>1. PICK i \in Stages : d \in Told(i)
  BY DEF ToldAgain, Stages, Told
<1>2. d \in DecisionType
  BY <1>1, RecordTyped DEF RecordInv
<1>3. d.id \notin passing.carried
  BY <1>1 DEF ToldAgain, RecordInv, Gone
<1>4. d.kind # "coalesced" /\ d.reason # "folded"
  BY <1>1 DEF RecordInv, Undisposed
<1> QED BY <1>2, <1>3, <1>4

LEMMA LateAre ==
  ASSUME RecordInv, NEW d \in ToldLate
  PROVE  /\ d \in DecisionType /\ d.id \notin passing.carried
         /\ d.kind \notin {"coalesced", "eliminated"} /\ d.reason # "folded"
<1>1. PICK c \in passing.held : d = Decision(c, "held_back", fate[c][2], {})
  BY DEF ToldLate
<1>2. c \in Claim /\ c \notin passing.carried
  BY PassingIs DEF RecordInv, Gone
<1>3. fate[c][2] \in EndReason
  BY <1>2 DEF RecordInv, LossTypes
<1> DEFINE x == fate[c][2]
<1>4. x \in Reason /\ x # "folded"
  BY <1>3 DEF EndReason
<1>5. "held_back" \in DecisionKind
  BY DEF DecisionKind, Route
<1> HIDE DEF x
<1>6. d = Decision(c, "held_back", x, {})
  BY <1>1 DEF x
<1>7. d.id = c /\ d.kind = "held_back" /\ d.reason = x /\ d \in DecisionType
  BY <1>2, <1>4, <1>5, <1>6, DecisionIs
<1> QED BY <1>2, <1>4, <1>7

LEMMA FoldedAre ==
  ASSUME NEW acting \in SUBSET Claim, NEW lead, NEW d \in Folded(acting, lead)
  PROVE  /\ d \in DecisionType /\ d.kind = "coalesced" /\ d.reason = "folded"
         /\ d.id \in acting /\ lead[d.id] # d.id /\ d.related = Fellows(d.id, lead)
<1>1. PICK c \in acting : lead[c] # c /\ d = Decision(c, "coalesced", "folded", Fellows(c, lead))
  BY DEF Folded
<1>2. c \in Claim /\ Fellows(c, lead) \subseteq Claim
  BY DEF Fellows
<1>3. "coalesced" \in DecisionKind /\ "folded" \in Reason
  BY DEF DecisionKind, Reason
<1> QED BY <1>1, <1>2, <1>3, DecisionIs

LEMMA DisposeSteps ==
  ASSUME RecordInv, Due("dispose"),
         NEW r, \A c \in passing.carried : r[c] \in DispositionsOf(c), DOMAIN r = passing.carried,
         NEW lead \in LeadChoices(Actionable(r), r), NEW decisions,
         decisions = ToldNow(r) \cup ToldAgain \cup ToldLate \cup Folded(Actionable(r), lead),
         Snapshot("dispose", Stay(r), decisions, "complete"),
         passing' = [passing EXCEPT !.carried = Stay(r), !.lead = lead,
                                    !.route = [c \in Claim |-> IF c \in Stay(r) THEN r[c] ELSE @[c]]],
         Ended(passing.carried \ Stay(r), "dispose", r)
  PROVE  RecordInv'
<1> DEFINE stay == Stay(r)
           acting == Actionable(r)
           routes == [c \in Claim |-> IF c \in stay THEN r[c] ELSE passing.route[c]]
<1>1. StageOrder("dispose") = 8 /\ AllStages[8] = "dispose" /\ "dispose" \in StageName
  BY Orders, StagesAre DEF StageName
<1>3. LossTypes /\ 8 \in 1..9
  BY DEF RecordInv
<1>2. Len(recorded) = 7 /\ Len(recorded) < 8
  BY <1>1, <1>3, DueAt, Zenon
<1>4. \A c \in passing.carried : c \in Claim /\ passing.route[c] \in {"none", "report_only", "held_back"}
  BY <1>2, <1>3, PassingIs DEF RecordInv, Undisposed
<1>5. ASSUME NEW c \in passing.carried
      PROVE  /\ r[c] \in {"verify_unproven", "validation_skipped", "report_only", "held_back",
                          "deliver", "body_routed"}
             /\ r[c] \in {"deliver", "body_routed"} => passing.route[c] = "none"
  BY <1>4, DispositionsAre
<1>6. /\ stay \subseteq passing.carried /\ acting \subseteq stay /\ stay \subseteq Claim /\ acting \subseteq Claim
      /\ \A c \in stay : r[c] \in {"deliver", "body_routed", "report_only"}
      /\ \A c \in stay : c \in acting <=> r[c] \in {"deliver", "body_routed"}
      /\ \A c \in passing.carried \ stay : r[c] \notin {"deliver", "body_routed", "report_only"}
  BY <1>4 DEF Stay, Actionable
<1>7. routes \in [Claim -> Route]
  <2>1. \A c \in stay : r[c] \in Route
    BY <1>6 DEF Route
  <2> QED BY <1>3, <2>1, PassingIs
<1>8. /\ lead \in [Claim -> Claim]
      /\ \A c \in Claim : /\ c \notin acting => lead[c] = c
                          /\ lead[lead[c]] = lead[c]
                          /\ c \in acting => lead[c] \in acting
  BY DEF LeadChoices
<1>9. \A c \in stay : routes[c] = r[c]
  BY <1>6
<1> HIDE DEF routes
<1>10. Becomes(stay, lead, routes)
  BY DEF routes, Becomes
<1> HIDE DEF stay, acting
<1>11. /\ passing' \in PassingType /\ passing'.replayed = passing.replayed
       /\ passing'.carried = stay /\ passing'.held = passing.held /\ passing'.route = routes
       /\ passing'.lead = lead
  <2>1. stay \in SUBSET Claim
    BY <1>6
  <2> QED BY <1>3, <1>7, <1>8, <1>10, <2>1, PassingBecomes, Zenon
<1>12. ASSUME NEW c \in passing.carried \ stay
       PROVE  r[c] \in EndReason /\ r[c] # "delivered"
  <2>1. r[c] \in {"verify_unproven", "validation_skipped", "held_back"}
    BY <1>5, <1>6
  <2> QED BY <2>1 DEF EndReason, Reason, Route
<1>13. /\ fate' \in [Claim -> (StageName \cup {"none"}) \X EndReason]
       /\ \A c \in Claim \ (passing.carried \ stay) : fate'[c] = fate[c]
       /\ \A c \in Claim \cap (passing.carried \ stay) : fate'[c][1] = "dispose" /\ fate'[c][2] = r[c]
  <2> DEFINE gone == passing.carried \ stay
  <2>1. Ended(gone, "dispose", r)
    BY DEF stay
  <2>2. \A c \in gone : r[c] \in EndReason
    BY <1>12
  <2> HIDE DEF gone
  <2>3. /\ fate' \in [Claim -> (StageName \cup {"none"}) \X EndReason]
        /\ \A c \in Claim \ gone : fate'[c] = fate[c]
        /\ \A c \in Claim \cap gone : fate'[c][1] = "dispose" /\ fate'[c][2] = r[c]
    BY <1>1, <1>3, <2>1, <2>2, EndedIs
  <2> QED BY <2>3 DEF gone
<1>14. ASSUME NEW d \in decisions
       PROVE  /\ d \in DecisionType
              /\ d.kind = "coalesced" =>
                   d.reason = "folded" /\ d.id \in acting /\ lead[d.id] # d.id /\ d.related = Fellows(d.id, lead)
              /\ d.kind # "coalesced" =>
                   /\ d.reason # "folded"
                   /\ d.id \in passing.carried => d.kind # "eliminated" /\ d.reason = r[d.id] /\ r[d.id] # "deliver"
  <2>1. CASE d \in ToldNow(r)
    BY <1>2, <2>1, NowAre
  <2>2. CASE d \in ToldAgain
    BY <1>2, <2>2, AgainAre
  <2>3. CASE d \in ToldLate
    BY <1>2, <2>3, LateAre
  <2>4. CASE d \in Folded(acting, lead)
    BY <1>6, <2>4, FoldedAre
  <2> QED BY <2>1, <2>2, <2>3, <2>4 DEF acting
<1>15. ASSUME NEW c \in passing.carried, r[c] # "deliver"
       PROVE  \E d \in decisions : d.id = c /\ d.kind # "coalesced"
  <2> DEFINE d == Decision(c, KindOf(c, r), r[c], {})
  <2>1. d \in ToldNow(r)
    BY <1>15 DEF ToldNow
  <2>2. d.id = c
    BY DecisionIs
  <2> HIDE DEF d
  <2> QED BY <1>2, <2>1, <2>2, NowAre
<1>16. ASSUME NEW c \in acting, lead[c] # c
       PROVE  \E d \in decisions : d.id = c /\ d.kind = "coalesced"
  <2> DEFINE d == Decision(c, "coalesced", "folded", Fellows(c, lead))
  <2>1. d \in Folded(acting, lead)
    BY <1>16 DEF Folded
  <2>2. d.id = c
    BY DecisionIs
  <2> HIDE DEF d
  <2> QED BY <1>6, <2>1, <2>2, FoldedAre DEF acting
<1>17. decisions \subseteq DecisionType
  BY <1>14
<1>18. Owed(8, stay, decisions)
  <2>1. passing'.held \cap stay = {}
    BY <1>6, <1>11 DEF RecordInv, Gone
  <2>2. \A c \in Claim : c \in stay \/ c \notin passing.carried => fate'[c] = fate[c]
    BY <1>13
  <2>3. ASSUME NEW c \in passing.carried \ stay
        PROVE  /\ fate'[c][1] = AllStages[8] /\ fate'[c][2] # "delivered"
               /\ \E d \in decisions : d.id = c /\ d.kind # "coalesced"
               /\ \A d \in decisions : d.id = c /\ d.kind # "coalesced" => d.reason = fate'[c][2]
    <3>1. fate'[c][1] = "dispose" /\ fate'[c][2] = r[c]
      BY <1>4, <1>13
    <3>2. r[c] # "deliver"
      BY <1>6
    <3> QED BY <1>1, <1>12, <1>14, <1>15, <3>1, <3>2
  <2>4. \A d \in decisions : d.kind = "eliminated" => d.id \notin stay
    BY <1>6, <1>14
  <2> QED BY <1>6, <1>11, <1>13, <2>1, <2>2, <2>3, <2>4 DEF Owed
<1>19. Snapshot("dispose", stay, decisions, "complete")
  BY DEF stay
<1>20. CoreInv'
  BY <1>1, <1>17, <1>18, <1>19, CoreAdds DEF RecordInv, CoreInv
<1>21. /\ Len(recorded') = 8 /\ \A i \in Stages : recorded'[i] = recorded[i]
       /\ Stages' = Stages \cup {8} /\ Stages = 1..7
       /\ recorded'[8] = Shot("dispose", stay, decisions, "complete")
  BY <1>1, <1>2, <1>3, <1>6, <1>17, <1>19, SnapshotIs DEF Stages
<1>22. /\ recorded'[8].ids = IF passing.replayed THEN {} ELSE stay
       /\ recorded'[8].decisions = IF passing.replayed THEN {} ELSE decisions
  BY <1>21, ShotFields
<1> DEFINE now == {c \in recorded'[8].ids : passing'.route[c] \in {"deliver", "body_routed"}}
<1>23. Acting' = now
  BY DEF Acting
<1>24. now = IF passing.replayed THEN {} ELSE acting
  BY <1>6, <1>9, <1>11, <1>22
<1> HIDE DEF now
<1>25. ASSUME NEW i \in Stages', NEW d \in recorded'[i].decisions
       PROVE  ~passing.replayed /\ ((i \in Stages /\ d \in Told(i)) \/ (i = 8 /\ d \in decisions))
  BY <1>20, <1>21, <1>22, <1>25, <1>11 DEF CoreInv, Unseen, Told
<1>26. Undisposed'
  BY <1>21 DEF Undisposed
<1>27. Disposed'
  <2>1. \A c \in recorded'[8].ids : passing'.route[c] \in {"deliver", "body_routed", "report_only"}
    BY <1>6, <1>9, <1>11, <1>22
  <2>2. ASSUME NEW i \in Stages', NEW d \in recorded'[i].decisions, d.kind # "coalesced",
               d.id \in now, d.id \in passing'.carried
        PROVE  passing'.route[d.id] = "body_routed" /\ d.reason = "body_routed"
    <3>1. d.id \in acting /\ d.id \in stay /\ d.id \in passing.carried
      BY <1>6, <1>24, <2>2
    <3>2. r[d.id] \in {"deliver", "body_routed"} /\ passing'.route[d.id] = r[d.id]
      BY <1>6, <1>9, <1>11, <3>1
    <3>3. CASE i \in Stages /\ d \in Told(i)
      <4>1. passing.route[d.id] # "none"
        BY <1>2, <3>1, <3>3 DEF RecordInv, Undisposed
      <4> QED BY <1>5, <3>1, <3>2, <4>1
    <3>4. CASE i = 8 /\ d \in decisions
      BY <1>14, <2>2, <3>1, <3>2, <3>4
    <3> QED BY <1>25, <3>3, <3>4
  <2>3. ASSUME NEW c \in now, passing'.route[c] = "body_routed"
        PROVE  \E d \in recorded'[8].decisions : d.id = c /\ d.kind # "coalesced"
    <3>1. ~passing.replayed /\ c \in acting /\ c \in stay /\ c \in passing.carried
      BY <1>6, <1>24, <2>3
    <3>2. r[c] = "body_routed"
      BY <1>9, <1>11, <2>3, <3>1
    <3> QED BY <1>15, <1>22, <3>1, <3>2
  <2> QED BY <1>23, <2>1, <2>2, <2>3 DEF Disposed, Told
<1>28. Leads'
  <2>1. ASSUME ~passing.replayed PROVE now = acting /\ recorded'[8].decisions = decisions
    BY <1>22, <1>24, <2>1
  <2>2. ~(Len(recorded') = 9)
    BY <1>21
  <2> QED BY <1>8, <1>11, <1>16, <1>23, <2>1, <2>2 DEF Leads, Told
<1>29. Coalescing'
  <2>1. ASSUME NEW i \in Stages', NEW d \in recorded'[i].decisions
        PROVE  /\ d.kind = "coalesced" <=> d.reason = "folded"
               /\ d.kind = "coalesced" =>
                    /\ i = 8 /\ d.id \in now /\ passing'.lead[d.id] # d.id
                    /\ d.related = Fellows(d.id, passing'.lead)
    <3>1. CASE i \in Stages /\ d \in Told(i)
      BY <1>2, <3>1 DEF RecordInv, Undisposed
    <3>2. CASE i = 8 /\ d \in decisions
      <4>1. now = acting
        BY <1>24, <1>25, <2>1
      <4> QED BY <1>11, <1>14, <3>2, <4>1
    <3> QED BY <1>25, <2>1, <3>1, <3>2
  <2> QED BY <1>23, <2>1 DEF Coalescing, Told, Fellows
<1> QED BY <1>20, <1>26, <1>27, <1>28, <1>29 DEF RecordInv, CoreInv

LEMMA DisposeKeeps ==
  ASSUME RecordInv, Dispose
  PROVE  RecordInv'
<1>1. PICK r \in [passing.carried -> UNION {DispositionsOf(c) : c \in Claim}] :
       /\ \A c \in passing.carried : r[c] \in DispositionsOf(c)
       /\ LET stay == {c \in passing.carried : r[c] \in {"deliver", "body_routed", "report_only"}}
              kind(c) == IF c \in stay THEN IF r[c] = "report_only" THEN "report_only" ELSE "body_routed"
                         ELSE "held_back"
              again == {d \in UNION {recorded[i].decisions : i \in 1..Len(recorded)} :
                          d.kind = "eliminated" /\ d.reason \in {"verify_eliminated", "injection", "challenge_removed"}}
              late == {Decision(c, "held_back", fate[c][2], {}) : c \in passing.held}
          IN \E lead \in LeadChoices(Actionable(r), r) :
               /\ Snapshot("dispose", stay,
                           {Decision(c, kind(c), r[c], {}) : c \in {x \in passing.carried : r[x] # "deliver"}}
                             \cup again \cup late \cup Folded(Actionable(r), lead), "complete")
               /\ passing' = [passing EXCEPT !.carried = stay, !.lead = lead,
                                           !.route = [c \in Claim |-> IF c \in stay THEN r[c] ELSE @[c]]]
               /\ Ended(passing.carried \ stay, "dispose", r)
  BY Zenon DEF Dispose
<1>2. PICK lead \in LeadChoices(Actionable(r), r) :
               /\ Snapshot("dispose", Stay(r),
                           ToldNow(r) \cup ToldAgain \cup ToldLate \cup Folded(Actionable(r), lead), "complete")
               /\ passing' = [passing EXCEPT !.carried = Stay(r), !.lead = lead,
                                           !.route = [c \in Claim |-> IF c \in Stay(r) THEN r[c] ELSE @[c]]]
               /\ Ended(passing.carried \ Stay(r), "dispose", r)
  BY <1>1, Zenon DEF Stay, ToldNow, KindOf, ToldAgain, ToldLate
<1>3. Due("dispose") /\ DOMAIN r = passing.carried
  BY DEF Dispose
<1> QED BY <1>1, <1>2, <1>3, DisposeSteps

LEMMA ChooseSteps ==
  ASSUME RecordInv, Due("select"),
         NEW open, open = {c \in passing.carried : passing.route[c] # "report_only"},
         NEW chosen, NEW ids, ids = {c \in open : passing.lead[c] \in chosen},
         NEW gone, gone = passing.carried \ ids, NEW why \in [gone -> {"delivery_cap", "report_only"}],
         NEW decisions, decisions = {Decision(c, "not_selected", why[c], {}) : c \in gone},
         Snapshot("select", ids, decisions, "complete"),
         passing' = [passing EXCEPT !.carried = ids],
         Ended(gone, "select", why)
  PROVE  RecordInv'
<1>1. StageOrder("select") = 9 /\ AllStages[9] = "select" /\ "select" \in StageName
  BY Orders, StagesAre DEF StageName
<1>2. LossTypes /\ 9 \in 1..9
  BY DEF RecordInv
<1>3. Len(recorded) = 8 /\ Len(recorded) >= 8
  BY <1>1, <1>2, DueAt, Zenon
<1>4. ids \subseteq passing.carried /\ ids \subseteq Claim /\ gone = passing.carried \ ids
  BY <1>2, PassingIs
<1>5. \A c \in gone : why[c] \in {"delivery_cap", "report_only"}
  OBVIOUS
<1>6. \A c \in gone : why[c] \in EndReason /\ why[c] \in Reason /\ why[c] \notin {"delivered", "folded"}
  BY <1>5 DEF EndReason, Reason, Route
<1>7. /\ fate' \in [Claim -> (StageName \cup {"none"}) \X EndReason]
      /\ \A c \in Claim \ gone : fate'[c] = fate[c]
      /\ \A c \in Claim \cap gone : fate'[c][1] = "select" /\ fate'[c][2] = why[c]
  <2>1. \A c \in gone : why[c] \in EndReason
    BY <1>6
  <2>2. "select" \in StageName /\ Ended(gone, "select", why) /\ LossTypes
    BY <1>1, <1>2
  <2> QED BY ONLY <2>1, <2>2, EndedIs
<1>8. /\ passing' \in PassingType /\ passing'.replayed = passing.replayed
      /\ passing'.carried = ids /\ passing'.held = passing.held /\ passing'.route = passing.route
      /\ passing'.lead = passing.lead
  BY <1>2, <1>4, PassingIs DEF PassingType
<1>9. ASSUME NEW d \in decisions
      PROVE  /\ d \in DecisionType /\ d.kind = "not_selected" /\ d.reason # "folded"
             /\ d.id \in passing.carried \ ids /\ d.reason = why[d.id]
  <2>1. PICK c \in gone : d = Decision(c, "not_selected", why[c], {})
    OBVIOUS
  <2>2. c \in Claim /\ "not_selected" \in DecisionKind
    BY <1>2, <1>4, PassingIs DEF DecisionKind
  <2> DEFINE q == why[c]
  <2>3. q \in Reason /\ q # "folded"
    BY <1>6
  <2> HIDE DEF q
  <2>4. d = Decision(c, "not_selected", q, {})
    BY <2>1 DEF q
  <2>5. d \in DecisionType /\ d.id = c /\ d.kind = "not_selected" /\ d.reason = q
    BY <2>2, <2>3, <2>4, DecisionIs
  <2> QED BY <1>4, <2>3, <2>5 DEF q
<1>10. ASSUME NEW c \in gone
       PROVE  \E d \in decisions : d.id = c
  <2>1. Decision(c, "not_selected", why[c], {}) \in decisions
    OBVIOUS
  <2> QED BY <2>1, DecisionIs
<1>11. Owed(9, ids, decisions)
  <2>1. passing'.held \cap ids = {}
    BY <1>4, <1>8 DEF RecordInv, Gone
  <2>2. \A c \in Claim : c \in ids \/ c \notin passing.carried => fate'[c] = fate[c]
    BY <1>4, <1>7
  <2>3. ASSUME NEW c \in passing.carried \ ids
        PROVE  /\ fate'[c][1] = AllStages[9] /\ fate'[c][2] # "delivered"
               /\ \E d \in decisions : d.id = c /\ d.kind # "coalesced"
               /\ \A d \in decisions : d.id = c /\ d.kind # "coalesced" => d.reason = fate'[c][2]
    <3>1. c \in gone /\ c \in Claim
      BY <1>2, <1>4, PassingIs
    <3>2. fate'[c][1] = "select" /\ fate'[c][2] = why[c]
      BY <1>7, <3>1
    <3>3. \E d \in decisions : d.id = c /\ d.kind # "coalesced"
      BY <1>9, <1>10, <3>1
    <3>4. \A d \in decisions : d.id = c => d.reason = why[c]
      BY <1>9
    <3>5. why[c] # "delivered"
      BY <1>6, <3>1
    <3> QED BY <1>1, <3>2, <3>3, <3>4, <3>5
  <2>4. \A d \in decisions : d.kind = "eliminated" => d.id \notin ids
    BY <1>9
  <2> QED BY <1>4, <1>7, <1>8, <2>1, <2>2, <2>3, <2>4 DEF Owed
<1>12. decisions \subseteq DecisionType
  BY <1>9
<1>13. CoreInv'
  BY <1>1, <1>11, <1>12, CoreAdds DEF RecordInv, CoreInv
<1>14. /\ Len(recorded') = 9 /\ \A i \in Stages : recorded'[i] = recorded[i]
       /\ Stages' = Stages \cup {9} /\ Stages = 1..8
       /\ recorded'[9] = Shot("select", ids, decisions, "complete")
  BY <1>1, <1>2, <1>3, <1>4, <1>12, SnapshotIs DEF Stages
<1>15. /\ recorded'[9].ids = IF passing.replayed THEN {} ELSE ids
       /\ recorded'[9].decisions = IF passing.replayed THEN {} ELSE decisions
       /\ 8 \in Stages /\ recorded'[8] = recorded[8] /\ Len(recorded') >= 8
  BY <1>14, ShotFields
<1>16. Acting' = Acting
  BY <1>8, <1>15 DEF Acting
<1>17. ASSUME NEW i \in Stages', NEW d \in recorded'[i].decisions
       PROVE  (i \in Stages /\ d \in Told(i)) \/ (i = 9 /\ d \in decisions)
  <2>1. CASE i \in Stages
    BY <1>14, <1>17, <2>1 DEF Told
  <2>2. CASE i = 9
    BY <1>15, <1>17, <2>2
  <2> QED BY <1>14, <2>1, <2>2
<1>18. Undisposed'
  BY <1>14 DEF Undisposed
<1>19. Disposed'
  <2>1. ASSUME NEW i \in Stages', NEW d \in recorded'[i].decisions, d.kind # "coalesced",
               d.id \in Acting, d.id \in ids
        PROVE  passing.route[d.id] = "body_routed" /\ d.reason = "body_routed"
    <3>1. CASE i \in Stages /\ d \in Told(i)
      BY <1>3, <1>4, <2>1, <3>1 DEF RecordInv, Disposed
    <3>2. CASE i = 9 /\ d \in decisions
      BY <1>9, <2>1, <3>2
    <3> QED BY <1>17, <3>1, <3>2
  <2>2. \A c \in recorded[8].ids : passing.route[c] \in {"deliver", "body_routed", "report_only"}
    BY <1>3 DEF RecordInv, Disposed
  <2>3. \A c \in Acting : passing.route[c] = "body_routed" => \E d \in recorded[8].decisions : d.id = c /\ d.kind # "coalesced"
    BY <1>3 DEF RecordInv, Disposed, Told
  <2> QED BY <1>8, <1>15, <1>16, <2>1, <2>2, <2>3 DEF Disposed, Told
<1>20. Leads'
  <2> SUFFICES ASSUME ~passing.replayed PROVE Leads'
    BY <1>8 DEF Leads
  <2>1. passing.carried = recorded[8].ids
    BY <1>3 DEF RecordInv, Shrinks
  <2>2. /\ \A c \in Claim : /\ passing.lead[passing.lead[c]] = passing.lead[c]
                            /\ c \notin Acting => passing.lead[c] = c
                            /\ c \in Acting => passing.lead[c] \in Acting
        /\ \A c \in Acting : passing.lead[c] # c => \E d \in recorded[8].decisions : d.id = c /\ d.kind = "coalesced"
    BY <1>3 DEF RecordInv, Leads, Told
  <2>3. open = Acting
    <3>1. \A c \in passing.carried : passing.route[c] \in {"deliver", "body_routed", "report_only"}
      BY <1>3, <2>1 DEF RecordInv, Disposed
    <3> QED BY <2>1, <3>1 DEF Acting
  <2>4. recorded'[9].ids = ids
    BY <1>15
  <2>5. ids \subseteq Acting
    BY <2>3
  <2>6. \A c, x \in Acting : passing.lead[c] = passing.lead[x] /\ x \in ids => c \in ids
    BY <2>3
  <2> QED BY <1>8, <1>15, <1>16, <2>2, <2>4, <2>5, <2>6 DEF Leads, Told
<1>21. Coalescing'
  <2>1. ASSUME NEW i \in Stages', NEW d \in recorded'[i].decisions
        PROVE  /\ d.kind = "coalesced" <=> d.reason = "folded"
               /\ d.kind = "coalesced" =>
                    /\ i = 8 /\ d.id \in Acting /\ passing.lead[d.id] # d.id
                    /\ d.related = Fellows(d.id, passing.lead)
    <3>1. CASE i \in Stages /\ d \in Told(i)
      BY <3>1 DEF RecordInv, Coalescing
    <3>2. CASE i = 9 /\ d \in decisions
      BY <1>9, <3>2
    <3> QED BY <1>17, <3>1, <3>2
  <2> QED BY <1>8, <1>16, <2>1 DEF Coalescing, Told, Fellows
<1> QED BY <1>13, <1>18, <1>19, <1>20, <1>21 DEF RecordInv, CoreInv

LEMMA ChooseKeeps ==
  ASSUME RecordInv, Choose
  PROVE  RecordInv'
<1> DEFINE open == {c \in passing.carried : passing.route[c] # "report_only"}
<1>1. PICK chosen \in SUBSET {passing.lead[c] : c \in open} :
          LET ids == {c \in open : passing.lead[c] \in chosen}
              why == [c \in passing.carried \ ids |-> IF c \in open THEN "delivery_cap" ELSE "report_only"]
          IN /\ Snapshot("select", ids, {Decision(c, "not_selected", why[c], {}) : c \in DOMAIN why}, "complete")
             /\ passing' = [passing EXCEPT !.carried = ids]
             /\ Ended(DOMAIN why, "select", why)
  BY Zenon DEF Choose
<1> DEFINE ids == {c \in open : passing.lead[c] \in chosen}
           gone == passing.carried \ ids
           why == [c \in gone |-> IF c \in open THEN "delivery_cap" ELSE "report_only"]
           decisions == {Decision(c, "not_selected", why[c], {}) : c \in gone}
<1>2. Due("select")
  BY DEF Choose
<1>3. why \in [gone -> {"delivery_cap", "report_only"}] /\ DOMAIN why = gone
  OBVIOUS
<1>4. /\ Snapshot("select", ids, decisions, "complete")
      /\ passing' = [passing EXCEPT !.carried = ids]
      /\ Ended(gone, "select", why)
  BY <1>1, <1>3, Zenon
<1> HIDE DEF why
<1> QED BY <1>2, <1>3, <1>4, ChooseSteps, ZenonT(40)
-----------------------------------------------------------------------------
(* What is returned is the record, cut from the end; what is scored is     *)
(* that, with what was posted and any answer of the judge.                 *)
TraceOf(snapshots, known, k) ==
  [kind |-> "available", snapshots |-> Cut(snapshots, k),
   dropped |-> {TraceStages[i] : i \in {n \in DOMAIN Cut(snapshots, k) : n + k > Len(Cut(snapshots, k))}},
   versions |-> IF k = 0 THEN known ELSE Referenced(Cut(snapshots, k)) \cap known]
ReturnedWith(t, snapshots, known) ==
  t # Absent =>
    /\ Len(snapshots) = 9
    /\ t = [kind |-> "unavailable"] \/ \E k \in 0..9 : t = TraceOf(snapshots, known, k)
Returned == ReturnedWith(trace, recorded, Identified)

ScoreOf(posted, faithful, hits, about, unjudged) ==
  [kind |-> "scored", failed |-> Errs(faithful), hits |-> hits, bound |-> Binds(faithful),
   snapshots |-> IF Errs(faithful) THEN <<>>
                 ELSE IF Binds(faithful) THEN Append(trace.snapshots, DeliverSnapshot(posted))
                 ELSE trace.snapshots,
   about |-> [b \in KnownBug |-> about[b] \cup Credited(faithful, posted, hits[b])],
   unjudged |-> unjudged]
Delivery(c, posted) ==
  <<"deliver", IF c \in Delivered(posted) THEN "delivered"
               ELSE IF passing.route[passing.lead[c]] = "deliver" THEN "unanchored"
               ELSE "body_routed">>
ScoredWith(posted, faithful, hits, about, unjudged) ==
  /\ \A l \in posted : passing.route[l] = "deliver"
  /\ \A b \in KnownBug : about[b] \cap unjudged = {}
  /\ score = ScoreOf(posted, faithful, hits, about, unjudged)
  /\ \A c \in passing.carried : fate[c] = Delivery(c, posted)
Scored ==
  score # Absent =>
    /\ trace # Absent
    /\ \E posted \in SUBSET {passing.lead[c] : c \in passing.carried}, faithful \in BOOLEAN :
       \E hits \in [KnownBug -> SUBSET posted],
          about \in [KnownBug -> SUBSET Asked(faithful, posted)],
          unjudged \in SUBSET Asked(faithful, posted) :
         ScoredWith(posted, faithful, hits, about, unjudged)

LossInv == RecordInv /\ Returned /\ Scored

LEMMA RecordStays ==
  ASSUME RecordInv, UNCHANGED <<passing, recorded>>,
         fate' \in [Claim -> (StageName \cup {"none"}) \X EndReason],
         \A c \in Claim \ passing.carried : fate'[c] = fate[c]
  PROVE  RecordInv'
<1>1. LossTypes' /\ Unseen' /\ Shrinks' /\ Gone' /\ Undisposed'
  BY DEF RecordInv, LossTypes, Unseen, Shrinks, Gone, Undisposed, Stages, Told
<1>2. Disposed' /\ Leads' /\ Coalescing'
  BY DEF RecordInv, Disposed, Leads, Coalescing, Stages, Told, Acting
<1>3. Endings'
  <2> SUFFICES ASSUME NEW i \in Stages \ {1}, NEW c \in recorded[i - 1].ids \ recorded[i].ids
               PROVE  /\ fate'[c][1] = AllStages[i] /\ fate'[c][2] # "delivered"
                      /\ \E d \in Told(i) : d.id = c /\ d.kind # "coalesced"
                      /\ \A d \in Told(i) : d.id = c /\ d.kind # "coalesced" => d.reason = fate'[c][2]
    BY DEF Endings, Told, Stages
  <2>1. LossTypes /\ Len(recorded) \in Nat /\ Stages = 1..Len(recorded)
    BY DEF RecordInv, LossTypes, Stages
  <2> DEFINE n == Len(recorded)
  <2>2. i - 1 \in 1..n /\ n \in 1..n /\ i <= n /\ n > 0
    BY <2>1
  <2>3. ~passing.replayed
    BY <2>1, <2>2 DEF RecordInv, Unseen
  <2>4. passing.carried = recorded[n].ids /\ recorded[n].ids \subseteq recorded[i].ids
    BY <2>1, <2>2, <2>3 DEF RecordInv, Shrinks
  <2>5. c \in Claim
    BY <2>1, <2>2, RecordTyped
  <2>6. fate'[c] = fate[c]
    BY <2>4, <2>5
  <2> QED BY <2>6 DEF RecordInv, Endings
<1> QED BY <1>1, <1>2, <1>3 DEF RecordInv

LEMMA RecordStarts ==
  LossInit => RecordInv
<1> SUFFICES ASSUME LossInit PROVE RecordInv
  OBVIOUS
<1>1. recorded = <<>> /\ fate = [c \in Claim |-> <<"none", "none">>]
  BY DEF LossInit
<1>2. PICK replayed \in BOOLEAN, partial \in {"none", "discover", "verify", "validate"} :
        passing = [replayed |-> replayed, partial |-> partial, carried |-> Claim, held |-> {},
                   route |-> [c \in Claim |-> "none"], lead |-> [c \in Claim |-> c]]
  BY DEF LossInit
<1>3. "none" \in Route /\ "none" \in EndReason
  BY DEF Route, EndReason, Reason
<1>4. passing \in PassingType
  BY <1>2, <1>3 DEF PassingType
<1>5. fate \in [Claim -> (StageName \cup {"none"}) \X EndReason]
  BY <1>1, <1>3
<1>6. recorded \in Seq(SnapshotType) /\ Len(recorded) = 0 /\ Stages = {}
  BY <1>1 DEF Stages
<1>7. LossTypes
  BY <1>4, <1>5, <1>6 DEF LossTypes
<1>8. Unseen /\ Shrinks /\ Endings /\ Gone /\ Coalescing
  BY <1>2, <1>6 DEF Unseen, Shrinks, Endings, Gone, Coalescing
<1>9. Undisposed
  BY <1>2, <1>6 DEF Undisposed
<1>10. Disposed /\ Leads
  BY <1>6 DEF Disposed, Leads
<1> QED BY <1>7, <1>8, <1>9, <1>10 DEF RecordInv

LEMMA AfterReturn ==
  ASSUME LossInv, UNCHANGED <<passing, recorded, trace>>
  PROVE  Returned'
<1>1. Identified' = Identified
  BY DEF Identified, Seen
<1>2. ReturnedWith(trace, recorded, Identified)
  BY DEF LossInv, Returned
<1>3. ReturnedWith(trace', recorded', Identified')
  BY <1>1, <1>2
<1> QED BY <1>3 DEF Returned

LEMMA ReturnKeeps ==
  ASSUME LossInv, Return
  PROVE  LossInv'
<1>1. /\ Len(recorded) = 9 /\ UNCHANGED <<passing, recorded, fate, score>> /\ trace = Absent
  BY StagesAre DEF Return
<1>2. RecordInv'
  <2>1. fate' \in [Claim -> (StageName \cup {"none"}) \X EndReason]
    BY <1>1 DEF LossInv, RecordInv, LossTypes
  <2> QED BY <1>1, <2>1, RecordStays DEF LossInv
<1>3. ReturnedWith(trace', recorded, Identified)
  <2>1. trace' = [kind |-> "unavailable"] \/ \E k \in 0..Len(recorded) : trace' = TraceOf(recorded, Identified, k)
    BY DEF Return, TraceOf
  <2>2. trace' = [kind |-> "unavailable"] \/ \E k \in 0..9 : trace' = TraceOf(recorded, Identified, k)
    BY <1>1, <2>1
  <2> QED BY <1>1, <2>2 DEF ReturnedWith
<1>4. Returned'
  <2>1. Identified' = Identified
    BY <1>1 DEF Identified, Seen
  <2>2. ReturnedWith(trace', recorded', Identified')
    BY <1>1, <1>3, <2>1
  <2> QED BY <2>2 DEF Returned
<1>5. Scored'
  BY <1>1 DEF LossInv, Scored
<1> QED BY <1>2, <1>4, <1>5 DEF LossInv

(* A stage comes before the return.                                        *)
LEMMA StageBefore ==
  ASSUME LossInv, trace = Absent, UNCHANGED <<trace, score>>
  PROVE  Returned' /\ Scored'
<1>1. score = Absent
  BY DEF LossInv, Scored
<1>2. ReturnedWith(trace', recorded', Identified')
  BY DEF ReturnedWith
<1> QED BY <1>1, <1>2 DEF Returned, Scored

LEMMA ScoreKeeps ==
  ASSUME LossInv, Score
  PROVE  LossInv'
<1>1. trace # Absent /\ score = Absent /\ UNCHANGED <<passing, recorded, trace>>
  BY DEF Score
<1>2. PICK posted \in SUBSET {passing.lead[c] : c \in passing.carried}, faithful \in BOOLEAN :
       /\ \A l \in posted : passing.route[l] = "deliver"
       /\ \E hits \in [KnownBug -> SUBSET posted],
            about \in [KnownBug -> SUBSET Asked(faithful, posted)],
            unjudged \in SUBSET Asked(faithful, posted) :
            /\ \A b \in KnownBug : about[b] \cap unjudged = {}
            /\ score' = ScoreOf(posted, faithful, hits, about, unjudged)
       /\ fate' = [c \in Claim |-> IF c \notin passing.carried THEN fate[c] ELSE Delivery(c, posted)]
  BY Zenon DEF Score, ScoreOf, Delivery
<1>3. PICK hits \in [KnownBug -> SUBSET posted],
           about \in [KnownBug -> SUBSET Asked(faithful, posted)],
           unjudged \in SUBSET Asked(faithful, posted) :
            /\ \A b \in KnownBug : about[b] \cap unjudged = {}
            /\ score' = ScoreOf(posted, faithful, hits, about, unjudged)
  BY <1>2
<1>4. fate \in [Claim -> (StageName \cup {"none"}) \X EndReason] /\ passing.carried \subseteq Claim
  BY PassingIs DEF LossInv, RecordInv, LossTypes
<1>5. \A c \in Claim : Delivery(c, posted) \in (StageName \cup {"none"}) \X EndReason
  BY DEF Delivery, StageName, EndReason, Reason, Route
<1>6. fate' \in [Claim -> (StageName \cup {"none"}) \X EndReason]
  BY <1>2, <1>4, <1>5
<1>7. /\ \A c \in Claim \ passing.carried : fate'[c] = fate[c]
      /\ \A c \in passing.carried : fate'[c] = Delivery(c, posted)
  BY <1>2, <1>4
<1>8. RecordInv'
  BY <1>1, <1>6, <1>7, RecordStays DEF LossInv
<1>9. Returned'
  BY <1>1, AfterReturn
<1>10. Scored'
  <2>1. /\ {passing'.lead[c] : c \in passing'.carried} = {passing.lead[c] : c \in passing.carried}
        /\ Asked(faithful, posted)' = Asked(faithful, posted)
    BY <1>1 DEF Asked, Errs, Usable, CutShort, Binds, Seen, Delivered
  <2>2. ScoredWith(posted, faithful, hits, about, unjudged)'
    <3>1. ScoreOf(posted, faithful, hits, about, unjudged)' = ScoreOf(posted, faithful, hits, about, unjudged)
      BY <1>1 DEF ScoreOf, Errs, Usable, CutShort, Binds, Seen, Delivered, DeliverSnapshot, Credited
    <3>2. \A c : Delivery(c, posted)' = Delivery(c, posted)
      BY <1>1 DEF Delivery, Delivered
    <3> QED BY <1>1, <1>2, <1>3, <1>7, <3>1, <3>2 DEF ScoredWith
  <2> QED BY <1>1, <2>1, <2>2 DEF Scored
<1> QED BY <1>8, <1>9, <1>10 DEF LossInv

LEMMA ScoredStays ==
  ASSUME Scored, UNCHANGED <<passing, fate, trace, score>>
  PROVE  Scored'
<1> SUFFICES ASSUME score # Absent PROVE Scored'
  BY DEF Scored
<1>1. PICK posted \in SUBSET {passing.lead[c] : c \in passing.carried}, faithful \in BOOLEAN :
       \E hits \in [KnownBug -> SUBSET posted],
          about \in [KnownBug -> SUBSET Asked(faithful, posted)],
          unjudged \in SUBSET Asked(faithful, posted) :
         ScoredWith(posted, faithful, hits, about, unjudged)
  BY DEF Scored
<1>2. PICK hits \in [KnownBug -> SUBSET posted],
           about \in [KnownBug -> SUBSET Asked(faithful, posted)],
           unjudged \in SUBSET Asked(faithful, posted) :
         ScoredWith(posted, faithful, hits, about, unjudged)
  BY <1>1
<1>3. /\ {passing'.lead[c] : c \in passing'.carried} = {passing.lead[c] : c \in passing.carried}
      /\ Asked(faithful, posted)' = Asked(faithful, posted)
  BY DEF Asked, Errs, Usable, CutShort, Binds, Seen, Delivered
<1>4. ScoreOf(posted, faithful, hits, about, unjudged)' = ScoreOf(posted, faithful, hits, about, unjudged)
  BY DEF ScoreOf, Errs, Usable, CutShort, Binds, Seen, Delivered, DeliverSnapshot, Credited
<1>5. \A c : Delivery(c, posted)' = Delivery(c, posted)
  BY DEF Delivery, Delivered
<1>6. ScoredWith(posted, faithful, hits, about, unjudged)'
  BY <1>2, <1>4, <1>5 DEF ScoredWith
<1>7. trace' # Absent
  BY DEF Scored
<1> QED BY <1>3, <1>6, <1>7 DEF Scored

LEMMA LossesAlways == LossSpec => []LossInv
<1>1. LossInit => LossInv
  <2> SUFFICES ASSUME LossInit PROVE LossInv
    OBVIOUS
  <2>1. trace = Absent /\ score = Absent
    BY DEF LossInit
  <2> QED BY <2>1, RecordStarts DEF LossInv, Returned, ReturnedWith, Scored
<1>2. LossInv /\ [LossNext]_lossVars => LossInv'
  <2> SUFFICES ASSUME LossInv, [LossNext]_lossVars PROVE LossInv'
    OBVIOUS
  <2>0. RecordInv
    BY DEF LossInv
  <2>1. CASE Discover
    <3>1. trace = Absent /\ UNCHANGED <<trace, score>>
      BY <2>1 DEF Discover, Due
    <3> QED BY <2>0, <2>1, <3>1, DiscoverKeeps, StageBefore DEF LossInv
  <2>2. CASE Admit
    <3>1. trace = Absent /\ UNCHANGED <<trace, score>>
      BY <2>2 DEF Admit, Due
    <3> QED BY <2>0, <2>2, <3>1, AdmitKeeps, StageBefore DEF LossInv
  <2>3. CASE Dispose
    <3>1. trace = Absent /\ UNCHANGED <<trace, score>>
      BY <2>3 DEF Dispose, Due
    <3> QED BY <2>0, <2>3, <3>1, DisposeKeeps, StageBefore DEF LossInv
  <2>4. CASE Choose
    <3>1. trace = Absent /\ UNCHANGED <<trace, score>>
      BY <2>4 DEF Choose, Due
    <3> QED BY <2>0, <2>4, <3>1, ChooseKeeps, StageBefore DEF LossInv
  <2>5. CASE Return
    BY <2>5, ReturnKeeps
  <2>6. CASE Score
    BY <2>6, ScoreKeeps
  <2>7. ASSUME NEW s \in EarlyStage, Stage(s) PROVE LossInv'
    <3>1. trace = Absent /\ UNCHANGED <<trace, score>>
      BY <2>7 DEF Stage, Due
    <3> QED BY <2>0, <2>7, <3>1, StageKeeps, StageBefore DEF LossInv
  <2>8. CASE UNCHANGED lossVars
    <3>1. UNCHANGED <<passing, recorded, fate, trace, score>>
      BY <2>8 DEF lossVars
    <3>2. RecordInv'
      <4>1. fate' \in [Claim -> (StageName \cup {"none"}) \X EndReason]
        BY <2>0, <3>1 DEF RecordInv, LossTypes
      <4> QED BY <2>0, <3>1, <4>1, RecordStays
    <3>3. Scored'
      BY <3>1, ScoredStays DEF LossInv
    <3> QED BY <3>1, <3>2, <3>3, AfterReturn DEF LossInv
  <2> QED BY <2>1, <2>2, <2>3, <2>4, <2>5, <2>6, <2>7, <2>8 DEF LossNext, EarlyStage
<1> QED BY <1>1, <1>2, PTL DEF LossSpec

-----------------------------------------------------------------------------
CutType ==
  [stage : StageName, ids : SUBSET Claim, decisions : SUBSET DecisionType,
   coverage : {"complete", "partial", "unavailable"}]

(* What is left of a stage, when k of them are cut.                        *)
Kept(kept, i, k) ==
  /\ kept.stage = AllStages[i] /\ kept.stage = TraceStages[i]
  /\ kept.ids \subseteq recorded[i].ids /\ kept.decisions \subseteq Told(i)
  /\ i + k <= 9 => kept = recorded[i] /\ kept.coverage # "unavailable"
  /\ ~(i + k <= 9) => kept.ids = {} /\ kept.decisions = {} /\ kept.coverage = "unavailable"

LEMMA NineLong ==
  ASSUME NEW S, NEW f \in [1..9 -> S]
  PROVE  f \in Seq(S) /\ Len(f) = 9
<1>1. f \in Seq(S)
  BY SeqDef, 9 \in Nat, Zenon
<1> QED BY <1>1

LEMMA CutIs ==
  ASSUME LossTypes, Len(recorded) = 9, NEW k \in 0..9
  PROVE  /\ DOMAIN Cut(recorded, k) = 1..9 /\ Len(Cut(recorded, k)) = 9 /\ Cut(recorded, k) \in Seq(CutType)
         /\ \A i \in 1..9 : Kept(Cut(recorded, k)[i], i, k)
<1>1. recorded \in Seq(SnapshotType) /\ DOMAIN recorded = 1..9 /\ Stages = 1..9
  BY DEF LossTypes, Stages
<1> DEFINE kept == Cut(recorded, k)
<1>2. DOMAIN kept = 1..9
  BY <1>1 DEF Cut
<1>3. ASSUME NEW i \in 1..9
      PROVE  Kept(kept[i], i, k) /\ kept[i] \in CutType
  <2>1. recorded[i] \in SnapshotType /\ recorded[i].stage = AllStages[i]
    BY <1>1, RecordTyped DEF LossTypes
  <2>2. AllStages[i] = TraceStages[i]
    BY StagesAre
  <2>3. CASE i + k <= 9
    <3>1. kept[i] = recorded[i]
      BY <1>1, <2>3 DEF Cut
    <3>2. recorded[i].coverage # "unavailable" /\ recorded[i] \in CutType
      BY <2>1 DEF SnapshotType, CutType
    <3> HIDE DEF kept
    <3> QED BY <2>1, <2>2, <2>3, <3>1, <3>2 DEF Kept, Told
  <2>4. CASE ~(i + k <= 9)
    <3>1. kept[i] = [recorded[i] EXCEPT !.ids = {}, !.decisions = {}, !.coverage = "unavailable"]
      BY <1>1, <2>4 DEF Cut
    <3> HIDE DEF kept
    <3>2. /\ kept[i].ids = {} /\ kept[i].decisions = {} /\ kept[i].coverage = "unavailable"
          /\ kept[i].stage = recorded[i].stage /\ kept[i] \in CutType
      BY <2>1, <3>1 DEF SnapshotType, CutType
    <3> QED BY <2>1, <2>2, <2>4, <3>2 DEF Kept
  <2> QED BY <2>3, <2>4
<1>4. kept \in [1..9 -> CutType]
  <2>1. kept = [i \in DOMAIN kept |-> kept[i]]
    BY DEF Cut
  <2> HIDE DEF kept
  <2> QED BY <1>2, <1>3, <2>1
<1> HIDE DEF kept
<1>5. kept \in Seq(CutType) /\ Len(kept) = 9
  BY <1>4, NineLong, Zenon
<1> QED BY <1>2, <1>3, <1>5 DEF kept

LEMMA ReturnedIs ==
  ASSUME LossInv, trace.kind = "available"
  PROVE  /\ LossTypes /\ Len(recorded) = 9 /\ Stages = 1..9
         /\ \E k \in 0..9 : trace = TraceOf(recorded, Identified, k)
<1>1. trace # Absent /\ trace # [kind |-> "unavailable"]
  BY DEF Absent
<1>2. Len(recorded) = 9 /\ \E k \in 0..9 : trace = TraceOf(recorded, Identified, k)
  BY <1>1 DEF LossInv, Returned, ReturnedWith
<1> QED BY <1>2 DEF LossInv, RecordInv, Stages

LEMMA TraceFields ==
  ASSUME NEW k, trace = TraceOf(recorded, Identified, k)
  PROVE  /\ trace.kind = "available" /\ trace.snapshots = Cut(recorded, k)
         /\ trace.dropped = {TraceStages[i] : i \in {n \in DOMAIN Cut(recorded, k) : n + k > Len(Cut(recorded, k))}}
         /\ trace.versions = IF k = 0 THEN Identified ELSE Referenced(Cut(recorded, k)) \cap Identified
BY DEF TraceOf

(* A record that the workflow returns can always be read.                  *)
LEMMA ReturnedLoads ==
  ASSUME LossInv, trace.kind = "available"
  PROVE  Loads(trace)
<1>1. LossTypes /\ Len(recorded) = 9 /\ Stages = 1..9
  BY ReturnedIs
<1>2. PICK k \in 0..9 : trace = TraceOf(recorded, Identified, k)
  BY ReturnedIs
<1> DEFINE kept == Cut(recorded, k)
<1>3. /\ DOMAIN kept = 1..9 /\ Len(kept) = 9 /\ kept \in Seq(CutType)
      /\ \A i \in 1..9 : Kept(kept[i], i, k)
  BY <1>1, CutIs
<1>4. /\ trace.snapshots = kept
      /\ trace.dropped = {TraceStages[i] : i \in {n \in 1..9 : n + k > 9}}
      /\ trace.versions = IF k = 0 THEN Identified ELSE Referenced(kept) \cap Identified
  <2>1. /\ trace.snapshots = kept
        /\ trace.dropped = {TraceStages[i] : i \in {n \in DOMAIN kept : n + k > Len(kept)}}
        /\ trace.versions = IF k = 0 THEN Identified ELSE Referenced(kept) \cap Identified
    BY <1>2, TraceFields, Zenon
  <2> HIDE DEF kept
  <2> QED BY <1>3, <2>1
<1> HIDE DEF kept
<1>5. ASSUME NEW i \in 1..9, NEW d \in kept[i].decisions
      PROVE  /\ {d.id} \cup d.related \subseteq Claim /\ ~passing.replayed
             /\ d.reason = "folded" => d.kind = "coalesced" /\ d.related # {}
  <2>1. d \in Told(i) /\ i \in Stages
    BY <1>1, <1>3 DEF Kept
  <2>2. ~passing.replayed
    BY <2>1 DEF LossInv, RecordInv, Unseen
  <2>3. {d.id} \cup d.related \subseteq Claim
    BY <1>1, <2>1, RecordTyped
  <2>4. ASSUME d.reason = "folded"
        PROVE  d.kind = "coalesced" /\ d.related # {}
    <3>1. d.kind = "coalesced" /\ passing.lead[d.id] # d.id /\ d.related = Fellows(d.id, passing.lead)
      BY <2>1, <2>4 DEF LossInv, RecordInv, Coalescing
    <3>2. passing.lead[d.id] \in Claim /\ passing.lead[passing.lead[d.id]] = passing.lead[d.id]
      BY <1>1, <2>2, <2>3, PassingIs DEF LossInv, RecordInv, Leads
    <3>3. passing.lead[d.id] \in Fellows(d.id, passing.lead)
      BY <3>1, <3>2 DEF Fellows
    <3> QED BY <3>1, <3>3
  <2> QED BY <2>2, <2>3, <2>4
<1>6. ASSUME NEW i \in 1..9
      PROVE  kept[i].ids \subseteq Identified
  <2>1. kept[i].ids \subseteq recorded[i].ids /\ recorded[i].ids \subseteq Claim /\ i \in Stages
    BY <1>1, <1>3, RecordTyped DEF Kept
  <2>2. passing.replayed => recorded[i].ids = {}
    BY <2>1 DEF LossInv, RecordInv, Unseen
  <2> QED BY <2>1, <2>2 DEF Identified, Seen
<1>7. ASSUME NEW i \in 1..9
      PROVE  /\ kept[i].ids \subseteq Referenced(kept)
             /\ \A d \in kept[i].decisions : {d.id} \cup d.related \subseteq Referenced(kept)
  <2>1. kept[i] \in ToSet(kept)
    BY <1>3 DEF ToSet
  <2> QED BY <2>1 DEF Referenced
<1>8. ASSUME NEW i \in 1..9
      PROVE  /\ kept[i].ids \subseteq trace.versions
             /\ \A d \in kept[i].decisions :
                  /\ {d.id} \cup d.related \subseteq trace.versions
                  /\ d.reason = "folded" => d.kind = "coalesced" /\ d.related # {}
  <2>1. \A d \in kept[i].decisions : {d.id} \cup d.related \subseteq Identified
    BY <1>5 DEF Identified, Seen
  <2> QED BY <1>4, <1>5, <1>6, <1>7, <2>1
<1>9. ASSUME NEW i \in 1..9, kept[i].stage \in trace.dropped
      PROVE  kept[i].coverage = "unavailable" /\ kept[i].ids = {} /\ kept[i].decisions = {}
  <2>1. PICK n \in 1..9 : n + k > 9 /\ kept[i].stage = TraceStages[n]
    BY <1>4, <1>9
  <2>2. AllStages[i] = AllStages[n] /\ i \in 1..10 /\ n \in 1..10
    BY <1>3, <2>1, StagesAre DEF Kept
  <2>3. i = n
    BY <2>2, StagesDiffer
  <2>4. ~(i + k <= 9)
    BY <2>1, <2>3
  <2> QED BY <1>3, <2>4 DEF Kept
<1>10. [i \in DOMAIN kept |-> kept[i].stage] = TraceStages
  <2>1. TraceStages = [i \in 1..9 |-> TraceStages[i]]
    BY StagesAre DEF TraceStages
  <2>2. \A i \in 1..9 : kept[i].stage = TraceStages[i]
    BY <1>3 DEF Kept
  <2>3. [i \in 1..9 |-> kept[i].stage] = [i \in 1..9 |-> TraceStages[i]]
    BY <2>2, Zenon
  <2> QED BY <1>3, <2>1, <2>3
<1> QED BY <1>3, <1>4, <1>8, <1>9, <1>10 DEF Loads

-----------------------------------------------------------------------------
(* What a score is of.                                                     *)
Decided == UNION {Told(i) : i \in 1..9}
Folds(c) == \E d \in Decided : d.id = c /\ d.kind = "coalesced"
Says(c) == \E d \in Decided : d.id = c /\ d.kind # "coalesced"

Deliveries(shot, posted) ==
  /\ shot.stage = "deliver" /\ shot.coverage # "unavailable"
  /\ shot.ids = recorded[9].ids \cap Delivered(posted)
  /\ \A d \in shot.decisions :
       /\ d.kind = "coalesced" => d \in Decided
       /\ d.kind # "coalesced" =>
            /\ d.id \in recorded[9].ids \ Delivered(posted) /\ ~Folds(d.id)
            /\ d \in Decided \/ (d.reason = "unanchored" /\ ~Says(d.id))
  /\ \A c \in recorded[9].ids \ Delivered(posted) :
       ~Folds(c) => \E d \in shot.decisions : d.id = c /\ d.kind # "coalesced"

DeliverOf(decisions, last, posted) ==
  LET coalesced == {d \in decisions : d.kind = "coalesced"}
      prior(c) == {d \in decisions : d.id = c /\ d.kind # "coalesced"}
  IN [stage |-> "deliver", ids |-> last.ids \cap Delivered(posted), coverage |-> last.coverage,
      decisions |-> coalesced \cup
        UNION {IF prior(c) # {} THEN prior(c) ELSE {Decision(c, "not_selected", "unanchored", {})} :
                 c \in last.ids \ (Delivered(posted) \cup {d.id : d \in coalesced})}]
Said(c) ==
  LET prior == {d \in Decided : d.id = c /\ d.kind # "coalesced"}
  IN IF prior # {} THEN prior ELSE {Decision(c, "not_selected", "unanchored", {})}

LEMMA SaidIs ==
  ASSUME NEW c
  PROVE  /\ \A d \in Said(c) : d.id = c /\ d.kind # "coalesced" /\ (d \in Decided \/ (d.reason = "unanchored" /\ ~Says(c)))
         /\ Said(c) # {}
<1>1. CASE Says(c)
  <2>1. Said(c) = {d \in Decided : d.id = c /\ d.kind # "coalesced"} /\ Said(c) # {}
    BY <1>1 DEF Says, Said
  <2> QED BY <2>1
<1>2. CASE ~Says(c)
  <2>1. Said(c) = {Decision(c, "not_selected", "unanchored", {})}
    BY <1>2 DEF Says, Said
  <2>2. \A d \in Said(c) : d.id = c /\ d.kind = "not_selected" /\ d.reason = "unanchored"
    BY <2>1 DEF Decision
  <2> QED BY <1>2, <2>1, <2>2
<1> QED BY <1>1, <1>2

LEMMA DeliverIs ==
  ASSUME LossTypes, NEW posted, DOMAIN trace.snapshots = 1..9, Len(trace.snapshots) = 9,
         \A i \in 1..9 : Kept(trace.snapshots[i], i, 0)
  PROVE  Deliveries(DeliverSnapshot(posted), posted)
<1> DEFINE coalesced == {d \in Decided : d.kind = "coalesced"}
           open == recorded[9].ids \ (Delivered(posted) \cup {d.id : d \in coalesced})
           decisions == coalesced \cup UNION {Said(c) : c \in open}
<1>1. \A i \in 1..9 : trace.snapshots[i] = recorded[i] /\ recorded[i].coverage # "unavailable"
  BY DEF Kept
<1>2. UNION {s.decisions : s \in ToSet(trace.snapshots)} = Decided
  BY <1>1 DEF ToSet, Decided, Told
<1>3. Last(trace.snapshots) = recorded[9]
  BY <1>1 DEF Last
<1>4. DeliverSnapshot(posted) = [stage |-> "deliver", ids |-> recorded[9].ids \cap Delivered(posted),
                                 coverage |-> recorded[9].coverage, decisions |-> decisions]
  <2>1. DeliverSnapshot(posted) = DeliverOf(UNION {s.decisions : s \in ToSet(trace.snapshots)}, Last(trace.snapshots), posted)
    BY Zenon DEF DeliverSnapshot, DeliverOf
  <2>2. DeliverSnapshot(posted) = DeliverOf(Decided, recorded[9], posted)
    BY <1>2, <1>3, <2>1, Zenon
  <2> QED BY <2>2 DEF DeliverOf, Said
<1>5. \A c : c \in open <=> c \in recorded[9].ids \ Delivered(posted) /\ ~Folds(c)
  BY DEF Folds
<1> HIDE DEF open
<1>7. ASSUME NEW d \in decisions
      PROVE  /\ d.kind = "coalesced" => d \in Decided
             /\ d.kind # "coalesced" =>
                  /\ d.id \in recorded[9].ids \ Delivered(posted) /\ ~Folds(d.id)
                  /\ d \in Decided \/ (d.reason = "unanchored" /\ ~Says(d.id))
  <2>1. CASE d \in coalesced
    BY <2>1
  <2>2. CASE \E c \in open : d \in Said(c)
    BY <1>5, SaidIs, <2>2
  <2> QED BY <2>1, <2>2
<1>8. ASSUME NEW c \in recorded[9].ids \ Delivered(posted), ~Folds(c)
      PROVE  \E d \in decisions : d.id = c /\ d.kind # "coalesced"
  <2>1. c \in open
    BY <1>5, <1>8
  <2>2. PICK d \in Said(c) : TRUE
    BY SaidIs
  <2>3. d \in decisions /\ d.id = c /\ d.kind # "coalesced"
    BY SaidIs, <2>1, <2>2
  <2> QED BY <2>3
<1> HIDE DEF decisions
<1> QED BY <1>1, <1>4, <1>7, <1>8 DEF Deliveries

Sane(k, posted) ==
  /\ Len(recorded) = 9 /\ Stages = 1..9
  /\ DOMAIN score.snapshots = 1..Len(score.snapshots)
  /\ Len(score.snapshots) = IF score.bound THEN 10 ELSE 9
  /\ \A i \in 1..9 : Kept(score.snapshots[i], i, k)
  /\ score.bound => /\ k = 0 /\ Deliveries(score.snapshots[10], posted)
                    /\ passing.carried = recorded[9].ids
  /\ \A b \in KnownBug :
       /\ score.about[b] \subseteq score.snapshots[1].ids
       /\ score.bound /\ Missed(b) => score.about[b] \cap Delivered(posted) = {}
       /\ score.bound /\ ~Missed(b) => score.about[b] \cap recorded[9].ids # {}
  /\ \A c \in passing.carried : fate[c] = Delivery(c, posted)

LEMMA NotCutShort ==
  ASSUME LossTypes, Len(recorded) = 9, NEW k \in 0..9, trace = TraceOf(recorded, Identified, k), ~CutShort
  PROVE  k = 0
<1> SUFFICES ASSUME k # 0 PROVE FALSE
  OBVIOUS
<1>1. DOMAIN Cut(recorded, k) = 1..9 /\ Len(Cut(recorded, k)) = 9
  BY CutIs
<1>2. trace.dropped = {TraceStages[i] : i \in {n \in DOMAIN Cut(recorded, k) : n + k > Len(Cut(recorded, k))}}
  BY TraceFields, Zenon
<1>3. TraceStages[9] \in trace.dropped
  BY <1>1, <1>2
<1> QED BY <1>3, StagesAre DEF CutShort

LEMMA ScoreFields ==
  ASSUME NEW posted, NEW faithful, NEW hits, NEW about, NEW unjudged,
         score = ScoreOf(posted, faithful, hits, about, unjudged)
  PROVE  /\ score.kind = "scored" /\ score.failed = Errs(faithful) /\ score.bound = Binds(faithful)
         /\ score.hits = hits /\ score.unjudged = unjudged
         /\ score.about = [b \in KnownBug |-> about[b] \cup Credited(faithful, posted, hits[b])]
         /\ score.snapshots = IF Errs(faithful) THEN <<>>
                              ELSE IF Binds(faithful) THEN Append(trace.snapshots, DeliverSnapshot(posted))
                              ELSE trace.snapshots
BY DEF ScoreOf

LEMMA Widened ==
  ASSUME NEW S, NEW x, NEW f \in Seq(S), Len(f) = 9
  PROVE  f \in Seq(S \cup {x})
<1>1. f \in [1..9 -> S]
  BY LenProperties
<1>2. f \in [1..9 -> S \cup {x}]
  BY <1>1
<1> QED BY <1>2, NineLong

LEMMA TenLong ==
  ASSUME NEW T, NEW f \in Seq(T), Len(f) = 9, NEW x \in T
  PROVE  /\ Len(Append(f, x)) = 10 /\ DOMAIN Append(f, x) = 1..10 /\ Append(f, x)[10] = x
         /\ \A i \in 1..9 : Append(f, x)[i] = f[i]
<1>1. /\ Len(Append(f, x)) = Len(f) + 1 /\ Append(f, x)[Len(f) + 1] = x
      /\ \A i \in 1..Len(f) : Append(f, x)[i] = f[i]
  BY ONLY f \in Seq(T), x \in T, Added
<1>2. DOMAIN Append(f, x) = 1..Len(Append(f, x))
  BY ONLY f \in Seq(T), x \in T
<1> QED BY <1>1, <1>2

NineOf(f, S) == f \in Seq(S) /\ Len(f) = 9
TenOf(g, f, x) ==
  /\ Len(g) = 10 /\ DOMAIN g = 1..10 /\ g[10] = x
  /\ \A i \in 1..9 : g[i] = f[i]

LEMMA AnyAdded ==
  ASSUME NEW S, NEW f, NineOf(f, S), NEW x
  PROVE  TenOf(Append(f, x), f, x)
<1>1. f \in Seq(S) /\ Len(f) = 9
  BY DEF NineOf
<1>2. f \in Seq(S \cup {x})
  BY <1>1, Widened
<1>3. \E T : f \in Seq(T) /\ x \in T
  BY <1>2
<1>4. PICK T : f \in Seq(T) /\ x \in T
  BY <1>3
<1> QED BY <1>1, <1>4, TenLong DEF TenOf

(* Of a record that is left out, nothing is bound.                         *)
LEMMA LeftOut ==
  ASSUME LossInv, score.kind = "scored", score.failed
  PROVE  ~score.bound
<1>1. score # Absent
  BY DEF Absent
<1>2. PICK posted, faithful, hits, about, unjudged : ScoredWith(posted, faithful, hits, about, unjudged)
  BY <1>1 DEF LossInv, Scored
<1>3. score.failed = Errs(faithful) /\ score.bound = Binds(faithful)
  BY <1>2, ScoreFields DEF ScoredWith
<1> QED BY <1>3 DEF Errs, Binds

LEMMA ScoredIs ==
  ASSUME LossInv, score.kind = "scored", ~score.failed
  PROVE  \E k \in 0..9 : \E posted : Sane(k, posted)
<1>1. score # Absent
  BY DEF Absent
<1>2. PICK posted \in SUBSET {passing.lead[c] : c \in passing.carried}, faithful \in BOOLEAN :
       \E hits \in [KnownBug -> SUBSET posted],
          about \in [KnownBug -> SUBSET Asked(faithful, posted)],
          unjudged \in SUBSET Asked(faithful, posted) :
         ScoredWith(posted, faithful, hits, about, unjudged)
  BY <1>1 DEF LossInv, Scored
<1>3. PICK hits \in [KnownBug -> SUBSET posted],
           about \in [KnownBug -> SUBSET Asked(faithful, posted)],
           unjudged \in SUBSET Asked(faithful, posted) :
         ScoredWith(posted, faithful, hits, about, unjudged)
  BY <1>2
<1>4. /\ score.failed = Errs(faithful) /\ score.bound = Binds(faithful) /\ score.hits = hits
      /\ score.about = [b \in KnownBug |-> about[b] \cup Credited(faithful, posted, hits[b])]
      /\ score.snapshots = IF Errs(faithful) THEN <<>>
                           ELSE IF Binds(faithful) THEN Append(trace.snapshots, DeliverSnapshot(posted))
                           ELSE trace.snapshots
  BY <1>3, ScoreFields DEF ScoredWith
<1>5. trace.kind = "available" /\ ~Errs(faithful)
  BY <1>4 DEF Errs, Usable
<1>6. LossTypes /\ Len(recorded) = 9 /\ Stages = 1..9 /\ RecordInv
  BY <1>5, ReturnedIs DEF LossInv
<1>7. PICK k \in 0..9 : trace = TraceOf(recorded, Identified, k)
  BY <1>5, ReturnedIs
<1>8. trace.snapshots = Cut(recorded, k)
  BY <1>7, TraceFields
<1>9. /\ DOMAIN trace.snapshots = 1..9 /\ Len(trace.snapshots) = 9 /\ trace.snapshots \in Seq(CutType)
      /\ \A i \in 1..9 : Kept(trace.snapshots[i], i, k)
  BY <1>6, <1>8, CutIs
<1>10. ASSUME score.bound
       PROVE  /\ k = 0 /\ Binds(faithful) /\ ~CutShort /\ Seen(passing.carried) = passing.carried
              /\ Deliveries(DeliverSnapshot(posted), posted)
              /\ score.snapshots = Append(trace.snapshots, DeliverSnapshot(posted))
  <2>1. Binds(faithful) /\ ~CutShort /\ Seen(passing.carried) = passing.carried
    BY <1>4, <1>10 DEF Binds
  <2>2. k = 0
    BY <1>6, <1>7, <2>1, NotCutShort
  <2>3. Deliveries(DeliverSnapshot(posted), posted)
    BY <1>6, <1>9, <2>2, DeliverIs
  <2> QED BY <1>4, <1>5, <2>1, <2>2, <2>3
<1>11. /\ DOMAIN score.snapshots = 1..Len(score.snapshots)
       /\ Len(score.snapshots) = IF score.bound THEN 10 ELSE 9
       /\ \A i \in 1..9 : score.snapshots[i] = trace.snapshots[i]
       /\ score.bound => score.snapshots[10] = DeliverSnapshot(posted)
  <2>1. CASE score.bound
    <3>1. score.snapshots = Append(trace.snapshots, DeliverSnapshot(posted))
      BY <1>10, <2>1
    <3>2. NineOf(trace.snapshots, CutType)
      BY <1>9 DEF NineOf
    <3>3. TenOf(score.snapshots, trace.snapshots, DeliverSnapshot(posted))
      BY <3>1, <3>2, AnyAdded, Zenon
    <3> QED BY <2>1, <3>3 DEF TenOf
  <2>2. CASE ~score.bound
    BY <1>4, <1>5, <1>9, <2>2
  <2> QED BY <2>1, <2>2
<1>12. score.bound => passing.carried = recorded[9].ids
  <2> SUFFICES ASSUME score.bound PROVE passing.carried = recorded[9].ids
    OBVIOUS
  <2>1. CASE passing.replayed
    <3>1. passing.carried = {}
      BY <1>10, <2>1 DEF Seen
    <3>2. recorded[9].ids = {}
      BY <1>6, <2>1 DEF RecordInv, Unseen
    <3> QED BY <3>1, <3>2
  <2>2. CASE ~passing.replayed
    BY <1>6, <2>2 DEF RecordInv, Shrinks
  <2> QED BY <2>1, <2>2
<1>13. trace.snapshots[1].ids \subseteq recorded[1].ids
  BY <1>9 DEF Kept
<1>14. Asked(faithful, posted) = trace.snapshots[1].ids \ (IF score.bound THEN Delivered(posted) ELSE {})
  BY <1>4, <1>5 DEF Asked
<1>15. ASSUME NEW b \in KnownBug
       PROVE  /\ score.about[b] \subseteq score.snapshots[1].ids
              /\ score.bound /\ Missed(b) => score.about[b] \cap Delivered(posted) = {}
              /\ score.bound /\ ~Missed(b) => score.about[b] \cap recorded[9].ids # {}
  <2> DEFINE credited == IF score.bound THEN {c \in Delivered(posted) \cap trace.snapshots[1].ids : passing.lead[c] \in hits[b]} ELSE {}
  <2>1. score.about[b] = about[b] \cup credited
    BY <1>4 DEF Credited
  <2>2. about[b] \subseteq trace.snapshots[1].ids /\ (score.bound => about[b] \cap Delivered(posted) = {})
    BY <1>14
  <2>3. credited \subseteq trace.snapshots[1].ids
    OBVIOUS
  <2>4. score.snapshots[1] = trace.snapshots[1]
    BY <1>11
  <2>5. ASSUME score.bound, Missed(b)
        PROVE  credited = {}
    BY <1>4, <2>5 DEF Missed
  <2>6. ASSUME score.bound, ~Missed(b)
        PROVE  credited \cap recorded[9].ids # {}
    <3>1. PICK l \in hits[b] : TRUE
      BY <1>4, <2>6 DEF Missed
    <3>2. l \in posted
      OBVIOUS
    <3>3. PICK x \in passing.carried : l = passing.lead[x]
      BY <3>2
    <3>4. x \in recorded[9].ids /\ x \in Delivered(posted)
      BY <1>12, <2>6, <3>2, <3>3 DEF Delivered
    <3>5. x \in recorded[1].ids
      BY <1>6, <3>4 DEF RecordInv, Shrinks
    <3>6. trace.snapshots[1].ids = recorded[1].ids
      BY <1>9, <1>10, <2>6, SMTT(30) DEF Kept
    <3> QED BY <2>6, <3>1, <3>3, <3>4, <3>5, <3>6
  <2> HIDE DEF credited
  <2> QED BY <2>1, <2>2, <2>3, <2>4, <2>5, <2>6
<1>16. \A c \in passing.carried : fate[c] = Delivery(c, posted)
  BY <1>3 DEF ScoredWith
<1>17. Sane(k, posted)
  BY <1>6, <1>9, <1>10, <1>11, <1>12, <1>15, <1>16 DEF Sane
<1> QED BY <1>17
-----------------------------------------------------------------------------
(* The claims about a bug, and those they were folded into.                *)
Grown(before, snapshot) ==
  before.ids \cup
    UNION {d.related : d \in {x \in snapshot.decisions : x.kind = "coalesced" /\ x.id \in before.live}}
TrailStep(snaps, about, w, i) ==
  IF i = 1 THEN [ids |-> about, live |-> about]
  ELSE [ids |-> Grown(w[i - 1], snaps[i]), live |-> snaps[i].ids \cap Grown(w[i - 1], snaps[i])]
Walked(w, places, snaps, about) == w = [i \in places |-> TrailStep(snaps, about, w, i)]

LEMMA WalkExists ==
  ASSUME NEW n \in Nat, NEW snaps, NEW about
  PROVE  \E w : Walked(w, 1..n, snaps, about)
<1> DEFINE S == {k \in 0..n : ~ \E w : Walked(w, 1..k, snaps, about)}
<1>1. S = {}
  <2>1. SUFFICES ASSUME S # {} PROVE FALSE
    OBVIOUS
  <2>2. S \in SUBSET Nat
    OBVIOUS
  <2>3. PICK k \in S : \A y \in S : k <= y
    BY <2>1, <2>2, FirstOf
  <2>4. k \in Nat /\ k <= n /\ ~ \E w : Walked(w, 1..k, snaps, about)
    BY <2>3
  <2>5. CASE k = 0
    <3> DEFINE g == [i \in 1..0 |-> 0]
    <3>1. g = [i \in 1..0 |-> TrailStep(snaps, about, g, i)]
      <4>1. \A i \in 1..0 : FALSE
        OBVIOUS
      <4> QED BY <4>1, Zenon
    <3>2. Walked(g, 1..0, snaps, about)
      BY <3>1 DEF Walked
    <3> QED BY <2>4, <2>5, <3>2
  <2>6. CASE k # 0
    <3>1. k - 1 \in 0..n /\ ~(k <= k - 1)
      BY <2>4, <2>6
    <3>2. k - 1 \notin S
      BY <2>3, <3>1
    <3>3. PICK f : Walked(f, 1..(k - 1), snaps, about)
      BY <3>1, <3>2
    <3> DEFINE g == [i \in 1..k |-> TrailStep(snaps, about, f, i)]
    <3>4. f = [i \in 1..(k - 1) |-> TrailStep(snaps, about, f, i)]
      BY <3>3 DEF Walked
    <3>5. \A i \in 1..k : i # 1 => i - 1 \in 1..(k - 1)
      BY <2>4
    <3>6. \A i \in 1..(k - 1) : i \in 1..k
      BY <2>4
    <3>7. \A i \in 1..(k - 1) : g[i] = f[i]
      BY <3>4, <3>6, Zenon
    <3>8. \A i \in 1..k : TrailStep(snaps, about, g, i) = TrailStep(snaps, about, f, i)
      <4> HIDE DEF g
      <4> QED BY <3>5, <3>7 DEF TrailStep
    <3>9. g = [i \in 1..k |-> TrailStep(snaps, about, g, i)]
      BY <3>8, Zenon
    <3> HIDE DEF g
    <3>10. Walked(g, 1..k, snaps, about)
      BY <3>9 DEF Walked
    <3> QED BY <2>4, <3>10
  <2> QED BY <2>5, <2>6
<1>2. n \notin S /\ n \in 0..n
  BY <1>1
<1> QED BY <1>2

LEMMA StepIs ==
  ASSUME NEW snaps, NEW about, NEW w, NEW i, i # 1
  PROVE  /\ TrailStep(snaps, about, w, i).ids = Grown(w[i - 1], snaps[i])
         /\ TrailStep(snaps, about, w, i).live = snaps[i].ids \cap TrailStep(snaps, about, w, i).ids
BY DEF TrailStep

LEMMA TrailIs ==
  ASSUME NEW b, NEW n \in Nat, n > 0, DOMAIN score.snapshots = 1..n
  PROVE  /\ DOMAIN Trail(b) = 1..n
         /\ Trail(b)[1].ids = score.about[b] /\ Trail(b)[1].live = score.about[b]
         /\ \A i \in 2..n : /\ Trail(b)[i].ids = Grown(Trail(b)[i - 1], score.snapshots[i])
                            /\ Trail(b)[i].live = score.snapshots[i].ids \cap Trail(b)[i].ids
<1> DEFINE snaps == score.snapshots
           about == score.about[b]
           T == CHOOSE w : Walked(w, DOMAIN snaps, snaps, about)
<1>1. Walked(T, 1..n, snaps, about)
  BY WalkExists
<1>2. Trail(b) = T
  BY DEF Trail, Walked, TrailStep, Grown
<1> HIDE DEF T, snaps, about
<1>3. DOMAIN T = 1..n /\ \A i \in 1..n : T[i] = TrailStep(snaps, about, T, i)
  BY <1>1, Zenon DEF Walked
<1>4. T[1] = [ids |-> about, live |-> about]
  BY <1>3 DEF TrailStep
<1>5. ASSUME NEW i \in 2..n
      PROVE  T[i].ids = Grown(T[i - 1], snaps[i]) /\ T[i].live = snaps[i].ids \cap T[i].ids
  <2>1. i \in 1..n /\ i # 1
    OBVIOUS
  <2>2. T[i] = TrailStep(snaps, about, T, i)
    BY <1>3, <2>1, Zenon
  <2>3. /\ TrailStep(snaps, about, T, i).ids = Grown(T[i - 1], snaps[i])
        /\ TrailStep(snaps, about, T, i).live = snaps[i].ids \cap TrailStep(snaps, about, T, i).ids
    BY <2>1, StepIs, Zenon
  <2> QED BY ONLY <2>2, <2>3
<1>6. \A i \in 2..n : T[i].ids = Grown(T[i - 1], snaps[i]) /\ T[i].live = snaps[i].ids \cap T[i].ids
  BY <1>5
<1> QED BY <1>2, <1>3, <1>4, <1>6 DEF snaps, about

LEMMA FoldedTogether ==
  ASSUME LossInv, Len(recorded) = 9, Stages = 1..9, NEW d \in Decided, d.kind = "coalesced"
  PROVE  /\ ~passing.replayed /\ d \in Told(8) /\ d.id \in Acting /\ passing.lead[d.id] # d.id
         /\ \A x \in d.related : x \in Acting /\ passing.lead[x] = passing.lead[d.id]
         /\ passing.lead[d.id] \in d.related
<1>1. LossTypes /\ Unseen /\ Leads /\ Coalescing
  BY DEF LossInv, RecordInv
<1>2. PICK i \in Stages : d \in Told(i)
  BY DEF Decided
<1>3. /\ i = 8 /\ d.id \in Acting /\ passing.lead[d.id] # d.id
      /\ d.related = Fellows(d.id, passing.lead)
  BY <1>1, <1>2 DEF Coalescing
<1>4. ~passing.replayed
  BY <1>1, <1>2 DEF Unseen
<1>5. /\ \A c \in Claim : /\ passing.lead[passing.lead[c]] = passing.lead[c]
                          /\ c \notin Acting => passing.lead[c] = c
      /\ \A c \in Acting : passing.lead[c] \in Acting
  <2>1. Acting \subseteq Claim
    BY <1>1, RecordTyped DEF Acting
  <2> QED BY <1>1, <1>4, <2>1 DEF Leads
<1>6. Acting \subseteq Claim
  BY <1>1, RecordTyped DEF Acting
<1>7. \A x \in d.related : x \in Acting /\ passing.lead[x] = passing.lead[d.id]
  <2> SUFFICES ASSUME NEW x \in d.related PROVE x \in Acting /\ passing.lead[x] = passing.lead[d.id]
    OBVIOUS
  <2>1. x \in Claim /\ passing.lead[x] = passing.lead[d.id]
    BY <1>3 DEF Fellows
  <2>2. x \notin Acting => passing.lead[x] = x
    BY <1>5, <2>1
  <2>3. passing.lead[d.id] \in Acting
    BY <1>3, <1>5
  <2> QED BY <2>1, <2>2, <2>3
<1>8. passing.lead[d.id] \in d.related
  BY <1>3, <1>5, <1>6 DEF Fellows
<1> QED BY <1>2, <1>3, <1>4, <1>7, <1>8

(* Of what happened to a score: the stages of its snapshots, in this order *)
Near(about) ==
  about \cup {x \in Acting : \E a \in about \cap Acting : passing.lead[a] # a /\ passing.lead[a] = passing.lead[x]}

LEMMA SaneFolds ==
  ASSUME NEW k \in 0..9, NEW posted, Sane(k, posted), NEW i \in 1..Len(score.snapshots),
         NEW d \in score.snapshots[i].decisions, d.kind = "coalesced"
  PROVE  d \in Decided
<1>1. CASE i \in 1..9
  BY <1>1, SMTT(30) DEF Sane, Kept, Decided
<1>2. CASE i \notin 1..9
  <2> DEFINE n == Len(score.snapshots)
  <2>0. n = (IF score.bound THEN 10 ELSE 9) /\ i \in 1..n
    BY Zenon DEF Sane
  <2> HIDE DEF n
  <2>1. score.bound /\ i = 10
    BY ONLY <2>0, <1>2
  <2> QED BY <2>1 DEF Sane, Deliveries
<1> QED BY <1>1, <1>2

LEMMA TrailHolds ==
  ASSUME LossInv, NEW b \in KnownBug, NEW k \in 0..9, NEW posted, Sane(k, posted)
  PROVE  \A i \in 1..Len(score.snapshots) :
           /\ score.about[b] \subseteq Trail(b)[i].ids /\ Trail(b)[i].ids \subseteq Near(score.about[b])
           /\ \A j \in 1..i : Trail(b)[j].ids \subseteq Trail(b)[i].ids
<1> DEFINE n == Len(score.snapshots)
           about == score.about[b]
           T == Trail(b)
           Good(i) == /\ about \subseteq T[i].ids /\ T[i].ids \subseteq Near(about)
                      /\ \A j \in 1..i : T[j].ids \subseteq T[i].ids
           S == {i \in 1..n : ~Good(i)}
<1>1. n \in Nat /\ n >= 9 /\ DOMAIN score.snapshots = 1..n /\ Len(recorded) = 9 /\ Stages = 1..9
  BY DEF Sane
<1>2. /\ T[1].ids = about /\ T[1].live = about
      /\ \A i \in 2..n : /\ T[i].ids = Grown(T[i - 1], score.snapshots[i])
                         /\ T[i].live = score.snapshots[i].ids \cap T[i].ids
  <2>1. n > 0 /\ n \in Nat /\ DOMAIN score.snapshots = 1..n
    BY <1>1
  <2> HIDE DEF n, T, about
  <2>2. /\ Trail(b)[1].ids = score.about[b] /\ Trail(b)[1].live = score.about[b]
        /\ \A i \in 2..n : /\ Trail(b)[i].ids = Grown(Trail(b)[i - 1], score.snapshots[i])
                           /\ Trail(b)[i].live = score.snapshots[i].ids \cap Trail(b)[i].ids
    BY <2>1, TrailIs
  <2> QED BY <2>2 DEF T, about
<1>3. \A i \in 1..n : T[i].live \subseteq T[i].ids
  <2>1. \A i \in 1..n : i = 1 \/ i \in 2..n
    BY <1>1
  <2> QED BY <1>2, <2>1
<1> HIDE DEF T, about, n
<1>4. Good(1)
  <2>1. \A j \in 1..1 : j = 1
    OBVIOUS
  <2> QED BY <1>2, <2>1 DEF Near
<1>5. ASSUME NEW i \in 2..n, Good(i - 1) PROVE Good(i)
  <2>1. i - 1 \in 1..n /\ i \in 1..n
    BY <1>1
  <2> DEFINE more == UNION {d.related : d \in {x \in score.snapshots[i].decisions : x.kind = "coalesced" /\ x.id \in T[i - 1].live}}
  <2>2. T[i].ids = T[i - 1].ids \cup more
    BY <1>2 DEF Grown
  <2>3. ASSUME NEW x \in more PROVE x \in Near(about)
    <3>1. PICK d \in score.snapshots[i].decisions : d.kind = "coalesced" /\ d.id \in T[i - 1].live /\ x \in d.related
      OBVIOUS
    <3>2. d \in Decided
      BY <2>1, <3>1, SaneFolds DEF n
    <3>3. d.id \in Acting /\ passing.lead[d.id] # d.id /\ x \in Acting /\ passing.lead[x] = passing.lead[d.id]
      BY <1>1, <3>1, <3>2, FoldedTogether
    <3>4. d.id \in Near(about)
      BY <1>3, <1>5, <2>1, <3>1
    <3> QED BY <3>3, <3>4 DEF Near
  <2> HIDE DEF more
  <2>4. ASSUME NEW j \in 1..i PROVE T[j].ids \subseteq T[i].ids
    <3>1. j = i \/ j \in 1..(i - 1)
      BY <2>1
    <3> QED BY <1>5, <2>2, <3>1
  <2> QED BY <1>5, <2>2, <2>3, <2>4
<1>6. S = {}
  <2> SUFFICES ASSUME S # {} PROVE FALSE
    OBVIOUS
  <2>1. S \in SUBSET Nat
    BY <1>1
  <2>2. PICK i \in S : \A y \in S : i <= y
    BY <2>1, FirstOf
  <2> HIDE DEF Good
  <2>3. i \in 1..n /\ ~Good(i)
    BY <2>2
  <2>4. i # 1
    BY <1>4, <2>3
  <2>5. i \in 2..n /\ i - 1 \in 1..n /\ ~(i <= i - 1)
    BY <1>1, <2>3, <2>4
  <2>6. Good(i - 1)
    BY <2>2, <2>5
  <2> QED BY <1>5, <2>3, <2>5, <2>6
<1> QED BY <1>6 DEF T, about, n
-----------------------------------------------------------------------------
(* What a loss is.                                                         *)
FirstStop(b, s) ==
  /\ Trail(b)[s].live = {} /\ score.snapshots[s].coverage # "unavailable"
  /\ \A i \in 2..(s - 1) : Trail(b)[i].live # {} /\ score.snapshots[i].coverage # "unavailable"
LostAt(b, s, loss) ==
  /\ FirstStop(b, s) /\ loss.at = AllStages[s]
  /\ \E d \in score.snapshots[s].decisions :
       d.id \in Trail(b)[s - 1].live /\ d.kind # "coalesced" /\ loss.reason = d.reason

LEMMA StageIs ==
  ASSUME NEW k \in 0..9, NEW posted, Sane(k, posted), NEW i \in 1..Len(score.snapshots)
  PROVE  score.snapshots[i].stage = AllStages[i] /\ i \in 1..10
<1>1. CASE i \in 1..9
  <2>1. Kept(score.snapshots[i], i, k)
    BY <1>1 DEF Sane
  <2> QED BY <1>1, <2>1 DEF Kept
<1>2. CASE i \notin 1..9
  <2> DEFINE n == Len(score.snapshots)
  <2>0. n = (IF score.bound THEN 10 ELSE 9) /\ i \in 1..n
    BY Zenon DEF Sane
  <2> HIDE DEF n
  <2>1. score.bound /\ i = 10
    BY ONLY <2>0, <1>2
  <2> QED BY <2>1, StagesAre DEF Sane, Deliveries
<1> QED BY <1>1, <1>2

LEMMA MinIs ==
  ASSUME NEW T \in SUBSET Nat, T # {}
  PROVE  Min(T) \in T /\ \A y \in T : Min(T) <= y
<1>1. \E x \in T : \A y \in T : x <= y
  BY FirstOf
<1> QED BY <1>1 DEF Min

LEMMA LossFields ==
  ASSUME NEW stage, NEW at, NEW reason
  PROVE  /\ Loss(stage, at, reason).stage = stage /\ Loss(stage, at, reason).at = at
         /\ Loss(stage, at, reason).reason = reason /\ Loss(stage, at, reason).established
         /\ ~NoLoss.established
BY DEF Loss, NoLoss

LEMMA LossIs ==
  ASSUME LossInv, NEW b \in KnownBug, NEW k \in 0..9, NEW posted, Sane(k, posted),
         NEW loss \in Losses(b), loss.established
  PROVE  /\ FullyJudged
         /\ \/ score.about[b] = {} /\ loss.stage = "not_found" /\ loss.at = "discover"
            \/ score.about[b] # {} /\ \E s \in 2..Len(score.snapshots) : LostAt(b, s, loss)
<1> DEFINE n == Len(score.snapshots)
           T == Trail(b)
           stops == {i \in 2..n : score.snapshots[i].coverage = "unavailable" \/ T[i].live = {}}
           i0 == Min(stops)
           told == {d \in score.snapshots[i0].decisions : d.id \in T[i0 - 1].live /\ d.kind # "coalesced"}
<1>1. Losses(b) = IF ~FullyJudged THEN {NoLoss}
                  ELSE IF score.about[b] = {} THEN {Loss("not_found", "discover", "not_found")}
                  ELSE IF stops = {} THEN {NoLoss}
                  ELSE IF score.snapshots[i0].coverage = "unavailable" \/ told = {} THEN {NoLoss}
                  ELSE {Loss(LossStage(d.reason, score.snapshots[i0].stage), score.snapshots[i0].stage, d.reason) : d \in told}
  BY Zenon DEF Losses
<1>2. n \in Nat
  BY DEF Sane
<1>3. stops # {} => i0 \in stops /\ \A y \in stops : i0 <= y
  <2>1. stops \in SUBSET Nat
    BY <1>2
  <2> HIDE DEF stops
  <2> QED BY <2>1, MinIs
<1>4. ASSUME FullyJudged, score.about[b] # {}, stops # {}, score.snapshots[i0].coverage # "unavailable", told # {}
      PROVE  \E s \in 2..n : LostAt(b, s, loss)
  <2> HIDE DEF i0
  <2>1. i0 \in 2..n /\ i0 \in Nat /\ score.snapshots[i0].coverage # "unavailable" /\ T[i0].live = {}
    <3>1. i0 \in stops
      BY <1>3, <1>4
    <3> QED BY <1>2, <1>4, <3>1
  <2>2. ASSUME NEW i \in 2..(i0 - 1) PROVE score.snapshots[i].coverage # "unavailable" /\ T[i].live # {}
    <3>1. i \in 2..n /\ ~(i0 <= i)
      BY <1>2, <2>1
    <3> QED BY <1>3, <1>4, <3>1
  <2>3. PICK d \in told : loss = Loss(LossStage(d.reason, score.snapshots[i0].stage), score.snapshots[i0].stage, d.reason)
    BY <1>1, <1>4, Zenon
  <2>4. loss.at = score.snapshots[i0].stage /\ loss.reason = d.reason
    <3> DEFINE stage == LossStage(d.reason, score.snapshots[i0].stage)
               at == score.snapshots[i0].stage
               reason == d.reason
    <3>1. loss = Loss(stage, at, reason)
      BY <2>3
    <3> HIDE DEF stage, at, reason
    <3>2. loss.at = at /\ loss.reason = reason
      BY <3>1, LossFields
    <3> QED BY <3>2 DEF at, reason
  <2>5. score.snapshots[i0].stage = AllStages[i0]
    <3>1. i0 \in 1..n
      BY <2>1
    <3> QED BY <3>1, StageIs
  <2> HIDE DEF T, n
  <2>6. d \in score.snapshots[i0].decisions /\ d.id \in T[i0 - 1].live /\ d.kind # "coalesced"
    OBVIOUS
  <2> HIDE DEF told
  <2> QED BY <2>1, <2>2, <2>4, <2>5, <2>6 DEF LostAt, FirstStop, T
<1> HIDE DEF stops, told, i0, n
<1>5. FullyJudged /\ (score.about[b] # {} => stops # {} /\ score.snapshots[i0].coverage # "unavailable" /\ told # {})
  BY <1>1, LossFields
<1>6. score.about[b] = {} => loss = Loss("not_found", "discover", "not_found")
  BY <1>1, <1>5
<1> QED BY <1>4, <1>5, <1>6, LossFields DEF n

(* A claim that left by a stage has an end no later.                       *)
LEMMA OutBy ==
  ASSUME LossInv, Len(recorded) = 9, Stages = 1..9, NEW s \in 1..9, NEW c \in recorded[1].ids, c \notin recorded[s].ids
  PROVE  fate[c][2] # "delivered" /\ StageOrder(fate[c][1]) <= s
<1> DEFINE S == {i \in 1..s : c \notin recorded[i].ids}
<1>1. s \in S /\ S \in SUBSET Nat
  OBVIOUS
<1>2. PICK i \in S : \A y \in S : i <= y
  BY <1>1, FirstOf
<1>3. i \in 1..9 /\ i <= s /\ i # 1 /\ c \notin recorded[i].ids
  BY <1>2
<1>4. i - 1 \in 1..s /\ ~(i <= i - 1)
  BY <1>3
<1>5. c \in recorded[i - 1].ids
  BY <1>2, <1>4
<1>6. fate[c][1] = AllStages[i] /\ fate[c][2] # "delivered"
  BY <1>3, <1>5 DEF LossInv, RecordInv, Endings
<1>7. StageOrder(AllStages[i]) = i
  BY <1>3, OrderIs
<1> QED BY <1>3, <1>6, <1>7

(* Of a missed bug, nothing near it is delivered.                          *)
LEMMA NothingDelivered ==
  ASSUME LossInv, NEW b \in KnownBug, NEW k \in 0..9, NEW posted, Sane(k, posted), score.bound, Missed(b),
         NEW c \in Near(score.about[b])
  PROVE  c \notin Delivered(posted)
<1> SUFFICES ASSUME c \in Delivered(posted) PROVE FALSE
  OBVIOUS
<1>1. score.about[b] \cap Delivered(posted) = {} /\ passing.carried = recorded[9].ids /\ Len(recorded) = 9
  BY DEF Sane
<1>2. c \notin score.about[b]
  BY <1>1
<1>3. c \in Acting /\ \E a \in score.about[b] \cap Acting : passing.lead[a] # a /\ passing.lead[a] = passing.lead[c]
  BY <1>2 DEF Near
<1>4. PICK a \in score.about[b] \cap Acting : passing.lead[a] = passing.lead[c]
  BY <1>3
<1>5. c \in recorded[9].ids /\ passing.lead[c] \in posted
  BY <1>1 DEF Delivered
<1>6. ~passing.replayed
  <2>1. 9 \in Stages
    BY <1>1 DEF Stages
  <2> QED BY <1>5, <2>1 DEF LossInv, RecordInv, Unseen
<1>7. a \in recorded[9].ids
  BY <1>1, <1>3, <1>4, <1>5, <1>6 DEF LossInv, RecordInv, Leads
<1>8. a \in Delivered(posted)
  BY <1>1, <1>4, <1>5, <1>7 DEF Delivered
<1> QED BY <1>1, <1>8

(* What is near a bug was found, if the record is read that far.           *)
LEMMA NearFound ==
  ASSUME LossInv, NEW b \in KnownBug, NEW k \in 0..9, NEW posted, Sane(k, posted), FullyJudged,
         NEW c \in Near(score.about[b])
  PROVE  c \in recorded[1].ids
<1>1. score.about[b] \subseteq score.snapshots[1].ids /\ Kept(score.snapshots[1], 1, k) /\ Stages = 1..9
  BY DEF Sane
<1>2. score.about[b] \subseteq recorded[1].ids
  BY <1>1 DEF Kept
<1>3. Acting \subseteq recorded[1].ids
  BY <1>1 DEF Acting, LossInv, RecordInv, Shrinks
<1> QED BY <1>2, <1>3 DEF Near

LEMMA KeptWhole ==
  ASSUME NEW k \in 0..9, NEW posted, Sane(k, posted), NEW i \in 1..9, score.snapshots[i].coverage # "unavailable",
         NEW j \in 1..i
  PROVE  score.snapshots[j] = recorded[j]
<1>0. \A x \in 1..9 : Kept(score.snapshots[x], x, k)
  BY DEF Sane
<1>1. Kept(score.snapshots[i], i, k) /\ Kept(score.snapshots[j], j, k)
  <2>1. j \in 1..9
    OBVIOUS
  <2> QED BY <1>0, <2>1
<1>2. i + k <= 9
  BY <1>1 DEF Kept
<1>3. j + k <= 9
  BY <1>2
<1> QED BY <1>1, <1>3 DEF Kept

LEMMA TrailStarts ==
  ASSUME LossInv, NEW b \in KnownBug, NEW k \in 0..9, NEW posted, Sane(k, posted)
  PROVE  /\ Trail(b)[1].ids = score.about[b] /\ Trail(b)[1].live = score.about[b]
         /\ \A i \in 2..Len(score.snapshots) :
              /\ Trail(b)[i].ids = Grown(Trail(b)[i - 1], score.snapshots[i])
              /\ Trail(b)[i].live = score.snapshots[i].ids \cap Trail(b)[i].ids
         /\ \A i \in 1..Len(score.snapshots) :
              /\ Trail(b)[i].live \subseteq Trail(b)[i].ids
              /\ Trail(b)[i].live \subseteq score.snapshots[i].ids
<1> DEFINE n == Len(score.snapshots)
<1>1. n \in Nat /\ n > 0 /\ DOMAIN score.snapshots = 1..n /\ score.about[b] \subseteq score.snapshots[1].ids
  BY DEF Sane
<1>2. /\ Trail(b)[1].ids = score.about[b] /\ Trail(b)[1].live = score.about[b]
      /\ \A i \in 2..n :
           /\ Trail(b)[i].ids = Grown(Trail(b)[i - 1], score.snapshots[i])
           /\ Trail(b)[i].live = score.snapshots[i].ids \cap Trail(b)[i].ids
  BY <1>1, TrailIs
<1>3. \A i \in 1..n : i = 1 \/ i \in 2..n
  BY <1>1
<1> HIDE DEF n
<1>4. \A i \in 1..n : Trail(b)[i].live \subseteq Trail(b)[i].ids /\ Trail(b)[i].live \subseteq score.snapshots[i].ids
  BY <1>1, <1>2, <1>3
<1> QED BY <1>2, <1>4 DEF n

(* The claim that a loss names left its stage, for its reason.             *)
LEMMA EndsThere ==
  ASSUME LossInv, NEW b \in KnownBug, NEW k \in 0..9, NEW posted, Sane(k, posted), FullyJudged, Missed(b),
         NEW s \in 2..Len(score.snapshots), NEW loss, LostAt(b, s, loss)
  PROVE  \E c \in Trail(b)[s].ids : fate[c] = <<AllStages[s], loss.reason>>
<1> DEFINE T == Trail(b)
           n == Len(score.snapshots)
<1>1. /\ T[s].live = {} /\ score.snapshots[s].coverage # "unavailable"
      /\ \E d \in score.snapshots[s].decisions :
           d.id \in T[s - 1].live /\ d.kind # "coalesced" /\ loss.reason = d.reason
  BY DEF LostAt, FirstStop
<1>2. PICK d \in score.snapshots[s].decisions :
        d.id \in T[s - 1].live /\ d.kind # "coalesced" /\ loss.reason = d.reason
  BY <1>1
<1>3. n \in 9..10 /\ s \in 1..n /\ s - 1 \in 1..n /\ s - 1 \in 1..s /\ s \in 2..10 /\ Len(recorded) = 9 /\ Stages = 1..9
  BY SMTT(30) DEF Sane
<1>4. d.id \in T[s].ids /\ d.id \in score.snapshots[s - 1].ids
  BY <1>2, <1>3, TrailHolds, TrailStarts, SMTT(30)
<1>5. LossTypes /\ Endings /\ Disposed /\ Leads /\ Shrinks
  BY DEF LossInv, RecordInv
<1>6. fate \in [Claim -> (StageName \cup {"none"}) \X EndReason]
  BY <1>5 DEF LossTypes
<1>7. CASE s \in 1..9
  <2>1. score.snapshots[s] = recorded[s] /\ score.snapshots[s - 1] = recorded[s - 1]
    <3>1. s \in 1..s
      BY <1>3
    <3> QED BY <1>1, <1>3, <1>7, <3>1, KeptWhole
  <2>2. d.id \notin recorded[s].ids
    <3>1. T[s].live = score.snapshots[s].ids \cap T[s].ids
      BY TrailStarts
    <3> QED BY <1>1, <1>4, <2>1, <3>1
  <2>3. d.id \in recorded[s - 1].ids \ recorded[s].ids /\ s \in Stages \ {1} /\ d \in Told(s)
    BY <1>2, <1>3, <1>4, <1>7, <2>1, <2>2 DEF Told
  <2>4. fate[d.id][1] = AllStages[s] /\ d.reason = fate[d.id][2]
    BY <1>2, <1>5, <2>3 DEF Endings
  <2>5. d.id \in Claim
    BY <1>3, <1>5, <1>7, <2>3, RecordTyped
  <2>6. fate[d.id] = <<fate[d.id][1], fate[d.id][2]>>
    BY <1>6, <2>5
  <2> QED BY <1>2, <1>4, <2>4, <2>6
<1>8. CASE s \notin 1..9
  <2>1. s = 10 /\ score.bound /\ n = 10
    BY <1>3, <1>8 DEF Sane
  <2>2. /\ k = 0 /\ Deliveries(score.snapshots[10], posted) /\ passing.carried = recorded[9].ids
        /\ \A c \in passing.carried : fate[c] = Delivery(c, posted)
    BY <2>1 DEF Sane
  <2> DEFINE c == d.id
  <2>3. c \in recorded[9].ids \ Delivered(posted) /\ ~Folds(c) /\ (d \in Decided \/ (d.reason = "unanchored" /\ ~Says(c)))
    BY <1>2, <2>1, <2>2 DEF Deliveries
  <2>4. ~passing.replayed
    BY <1>3, <2>3 DEF LossInv, RecordInv, Unseen
  <2>5. c \in Acting
    BY <1>3, <1>5, <2>3, <2>4 DEF Leads
  <2>6. passing.lead[c] = c
    <3>1. passing.lead[c] # c => \E e \in Told(8) : e.id = c /\ e.kind = "coalesced"
      BY <1>3, <1>5, <2>4, <2>5 DEF Leads
    <3>2. Told(8) \subseteq Decided
      BY DEF Decided
    <3> QED BY <2>3, <3>1, <3>2 DEF Folds
  <2>7. passing.route[c] \in {"deliver", "body_routed"}
    BY <2>5 DEF Acting
  <2>8. fate[c] = <<"deliver", IF passing.route[c] = "deliver" THEN "unanchored" ELSE "body_routed">>
    BY <2>2, <2>3, <2>6 DEF Delivery
  <2>9. CASE d \in Decided
    <3>1. PICK j \in Stages : d \in Told(j)
      BY <1>3, <2>9 DEF Decided
    <3>2. passing.route[c] = "body_routed" /\ d.reason = "body_routed"
      BY <1>2, <1>3, <1>5, <2>2, <2>3, <2>5, <3>1 DEF Disposed
    <3> QED BY <1>2, <1>4, <2>1, <2>8, <3>2, StagesAre
  <2>10. CASE d.reason = "unanchored" /\ ~Says(c)
    <3>1. passing.route[c] = "body_routed" => \E e \in Told(8) : e.id = c /\ e.kind # "coalesced"
      BY <1>3, <1>5, <2>5 DEF Disposed
    <3>2. Told(8) \subseteq Decided
      BY DEF Decided
    <3>3. passing.route[c] = "deliver"
      BY <2>7, <2>10, <3>1, <3>2 DEF Says
    <3> QED BY <1>2, <1>4, <2>1, <2>8, <2>10, <3>3, StagesAre
  <2> QED BY <2>3, <2>9, <2>10
<1> QED BY <1>7, <1>8

(* And no claim outlived it.                                               *)
LEMMA NoneLater ==
  ASSUME LossInv, NEW b \in KnownBug, NEW k \in 0..9, NEW posted, Sane(k, posted), FullyJudged, Missed(b),
         NEW s \in 2..Len(score.snapshots), FirstStop(b, s), NEW c \in Trail(b)[s].ids
  PROVE  fate[c][2] # "delivered" /\ StageOrder(fate[c][1]) <= s
<1>1. /\ s \in 2..10 /\ s \in 1..Len(score.snapshots) /\ Len(recorded) = 9 /\ Stages = 1..9
      /\ Trail(b)[s].live = {} /\ score.snapshots[s].coverage # "unavailable"
  BY DEF Sane, FirstStop
<1>2. c \in Near(score.about[b]) /\ c \in recorded[1].ids
  <2>1. c \in Near(score.about[b])
    BY <1>1, TrailHolds
  <2> QED BY <2>1, NearFound
<1>3. Trail(b)[s].live = score.snapshots[s].ids \cap Trail(b)[s].ids
  BY TrailStarts
<1>4. CASE s \in 1..9
  <2>1. s \in 1..s
    BY <1>4
  <2>2. score.snapshots[s] = recorded[s]
    BY <1>1, <1>4, <2>1, KeptWhole
  <2>3. c \notin recorded[s].ids
    BY <1>1, <1>3, <2>2
  <2> QED BY <1>1, <1>2, <1>4, <2>3, OutBy
<1>5. CASE s \notin 1..9
  <2>1. s = 10 /\ score.bound
    BY <1>1, <1>5 DEF Sane
  <2>2. CASE c \in recorded[9].ids
    <3>1. fate[c] = Delivery(c, posted)
      BY <2>1, <2>2 DEF Sane
    <3>2. c \notin Delivered(posted)
      BY <1>2, <2>1, NothingDelivered
    <3>3. fate[c][1] = "deliver" /\ fate[c][2] # "delivered"
      BY <3>1, <3>2 DEF Delivery
    <3> QED BY <2>1, <3>3, Orders
  <2>3. CASE c \notin recorded[9].ids
    <3>1. fate[c][2] # "delivered" /\ StageOrder(fate[c][1]) <= 9
      BY <1>1, <1>2, <2>3, OutBy
    <3>2. StageOrder(fate[c][1]) \in Int
      <4>1. c \in Claim
        BY <1>1, <1>2, RecordTyped DEF LossInv, RecordInv
      <4>2. fate[c][1] \in StageName \cup {"none"}
        BY <4>1 DEF LossInv, RecordInv, LossTypes
      <4>3. StageOrder("none") = 0
        <5> DEFINE I == {i \in 1..Len(AllStages) : AllStages[i] = "none"}
        <5>1. StageOrder("none") = IF I # {} THEN Min(I) ELSE 0
          BY DEF StageOrder, SelectInSeq
        <5>2. \A i \in 1..10 : i \in {1, 2, 3, 4, 5, 6, 7, 8, 9, 10}
          OBVIOUS
        <5>3. I = {}
          BY <5>2, StagesAre
        <5> QED BY <5>1, <5>3
      <4> QED BY <4>2, <4>3, Orders DEF StageName
    <3> QED BY <2>1, <3>1, <3>2
  <2> QED BY <2>2, <2>3
<1> QED BY <1>4, <1>5

(* A bug that is hit is never gone before, and what a stage is known to    *)
(* have lost no later one has. *)
LEMMA HitIsKept ==
  ASSUME LossInv, NEW b \in KnownBug, NEW k \in 0..9, NEW posted, Sane(k, posted), score.bound, ~Missed(b),
         NEW i \in 1..9
  PROVE  score.snapshots[i].ids \cap score.about[b] # {}
<1>1. /\ score.about[b] \cap recorded[9].ids # {} /\ k = 0 /\ Stages = 1..9
      /\ Kept(score.snapshots[i], i, k)
  BY DEF Sane
<1>2. score.snapshots[i] = recorded[i]
  BY <1>1 DEF Kept
<1>3. recorded[9].ids \subseteq recorded[i].ids
  BY <1>1 DEF LossInv, RecordInv, Shrinks
<1> QED BY <1>1, <1>2, <1>3

LEMMA StaysGone ==
  ASSUME LossInv, NEW b \in KnownBug, NEW k \in 0..9, NEW posted, Sane(k, posted), score.bound,
         NEW i \in 1..9, NEW j \in i..9, score.snapshots[i].ids \cap score.about[b] = {}
  PROVE  score.snapshots[j].ids \cap score.about[b] = {}
<1>1. k = 0 /\ Stages = 1..9 /\ \A x \in 1..9 : Kept(score.snapshots[x], x, k)
  BY DEF Sane
<1>2. i \in Stages /\ j \in Stages /\ i <= j /\ i + k <= 9 /\ j + k <= 9
  BY <1>1
<1>3. recorded[j].ids \subseteq recorded[i].ids
  BY <1>2 DEF LossInv, RecordInv, Shrinks
<1>4. score.snapshots[i] = recorded[i] /\ score.snapshots[j] = recorded[j]
  BY <1>1, <1>2 DEF Kept
<1> QED BY <1>3, <1>4

(* Where nothing about a bug is left, its trail has stopped.               *)
LEMMA GoneIsStopped ==
  ASSUME LossInv, NEW b \in KnownBug, NEW k \in 0..9, NEW posted, Sane(k, posted), FullyJudged,
         score.about[b] # {}, NEW i \in 1..9, score.snapshots[i].coverage # "unavailable",
         score.snapshots[i].ids \cap score.about[b] = {}
  PROVE  i \in 2..9 /\ Trail(b)[i].live = {}
<1>1. Stages = 1..9 /\ Len(recorded) = 9 /\ i \in 1..Len(score.snapshots) /\ score.about[b] \subseteq score.snapshots[1].ids
  BY DEF Sane
<1>2. i # 1
  BY <1>1
<1> SUFFICES ASSUME Trail(b)[i].live # {} PROVE FALSE
  BY <1>2
<1>3. PICK x \in Trail(b)[i].live : TRUE
  OBVIOUS
<1>4. x \in score.snapshots[i].ids /\ x \in Near(score.about[b])
  BY <1>1, <1>3, TrailStarts, TrailHolds
<1>5. score.snapshots[i] = recorded[i]
  <2>1. i \in 1..i
    OBVIOUS
  <2> QED BY <2>1, KeptWhole
<1>6. x \in recorded[i].ids /\ x \notin score.about[b]
  BY <1>4, <1>5
<1>7. PICK a \in score.about[b] \cap Acting : passing.lead[a] = passing.lead[x] /\ x \in Acting
  BY <1>4, <1>6 DEF Near
<1>8. a \in recorded[i].ids
  <2>1. CASE i <= 8
    <3>1. recorded[8].ids \subseteq recorded[i].ids
      BY <1>1, <2>1 DEF LossInv, RecordInv, Shrinks
    <3> QED BY <1>7, <3>1 DEF Acting
  <2>2. CASE ~(i <= 8)
    <3>1. i = 9
      BY <2>2
    <3>2. ~passing.replayed
      BY <1>1, <1>6 DEF LossInv, RecordInv, Unseen
    <3> QED BY <1>1, <1>6, <1>7, <3>1, <3>2 DEF LossInv, RecordInv, Leads
  <2> QED BY <2>1, <2>2
<1> QED BY <1>5, <1>7, <1>8

LEMMA RowsHold ==
  ASSUME LossInv, score.kind = "scored", NEW b \in KnownBug, ~score.failed
  PROVE  RowsAgree(b)
<1>1. PICK k \in 0..9 : \E posted : Sane(k, posted)
  BY ScoredIs
<1>2. PICK posted : Sane(k, posted)
  BY <1>1
<1> DEFINE left(i) == score.snapshots[i].ids \cap score.about[b]
           n == Len(score.snapshots)
<1>3. /\ Bit(b, 10) = IF Missed(b) THEN "gone" ELSE "lives"
      /\ \A i \in 1..9 : /\ Bit(b, i) = "gone" <=> left(i) = {} /\ FullyJudged /\ score.snapshots[i].coverage = "complete"
                         /\ Bit(b, i) # "gone" /\ Bit(b, i) # "unknown" => left(i) # {}
  BY StagesAre DEF Bit
<1>4. n \in 9..10
  BY <1>2 DEF Sane
<1> DEFINE known == {i \in 1..Len(AllStages) : Bit(b, i) # "unknown"}
           gone == {i \in known : Bit(b, i) = "gone"}
<1>5. /\ \A i \in known : i \in 1..10 /\ Bit(b, i) # "unknown"
      /\ \A i \in gone : i \in 1..10 /\ Bit(b, i) = "gone"
  BY StagesAre
<1> HIDE DEF left, n, known, gone
<1>6. ASSUME score.bound
      PROVE  ~Disagrees(b) /\ \A i \in gone, j \in known : i < j => Bit(b, j) = "gone"
  <2>1. ASSUME ~Missed(b), NEW i \in 1..9 PROVE Bit(b, i) # "gone"
    <3>1. left(i) # {}
      BY <1>2, <1>6, <2>1, HitIsKept DEF left
    <3> QED BY <1>3, <3>1
  <2>2. ASSUME NEW i \in gone, NEW j \in known, i < j PROVE Bit(b, j) = "gone"
    <3>1. i \in 1..9 /\ i \in 1..10 /\ j \in 1..10 /\ Bit(b, i) = "gone" /\ Bit(b, j) # "unknown"
      BY <1>5, <2>2
    <3>2. CASE j = 10
      <4>1. Missed(b)
        BY <2>1, <3>1
      <4> QED BY <1>3, <3>2, <4>1
    <3>3. CASE j # 10
      <4>1. j \in i..9 /\ j \in 1..9
        BY <2>2, <3>1, <3>3
      <4>2. left(i) = {}
        BY <1>3, <3>1
      <4>3. left(j) = {}
        BY <1>2, <1>6, <3>1, <4>1, <4>2, StaysGone DEF left
      <4> QED BY <1>3, <3>1, <4>1, <4>3
    <3> QED BY <3>2, <3>3
  <2> QED BY <2>1, <2>2, StagesAre DEF Disagrees
<1>7. ASSUME NEW loss \in Losses(b), Missed(b), loss.established, NEW i \in gone
      PROVE  i >= StageOrder(loss.at)
  <2>1. /\ FullyJudged
        /\ \/ score.about[b] = {} /\ loss.stage = "not_found" /\ loss.at = "discover"
           \/ score.about[b] # {} /\ \E s \in 2..n : LostAt(b, s, loss)
    BY <1>2, <1>7, LossIs DEF n
  <2>2. CASE loss.at = "discover"
    BY <1>5, <2>2, Orders
  <2>3. CASE score.about[b] # {} /\ \E s \in 2..n : LostAt(b, s, loss)
    <3>1. PICK s \in 2..n : LostAt(b, s, loss)
      BY <2>3
    <3>2. FirstStop(b, s) /\ loss.at = AllStages[s]
      BY <3>1 DEF LostAt
    <3>3. s \in 1..10
      BY <1>4
    <3>4. StageOrder(loss.at) = s
      BY <3>2, <3>3, OrderIs
    <3>5. CASE i = 10
      BY <3>3, <3>4, <3>5
    <3>6. CASE i # 10 /\ i < s
      <4>1. i \in 1..9 /\ left(i) = {} /\ score.snapshots[i].coverage = "complete"
        BY <1>3, <1>5, <3>6
      <4>2. i \in 2..9 /\ Trail(b)[i].live = {}
        BY <1>2, <2>1, <2>3, <4>1, GoneIsStopped DEF left
      <4>3. i \in 2..(s - 1)
        BY <3>3, <3>6, <4>2
      <4> QED BY <3>2, <4>2, <4>3 DEF FirstStop
    <3>7. i \in Int
      BY <1>5
    <3> QED BY <3>3, <3>4, <3>5, <3>6, <3>7
  <2> QED BY <2>1, <2>2, <2>3
<1> QED BY <1>6, <1>7 DEF RowsAgree, known, gone

(* Where the trail of a missed bug stops, something was said of it.        *)
LEMMA LeadFollows ==
  ASSUME LossInv, NEW b \in KnownBug, NEW k \in 0..9, NEW posted, Sane(k, posted), k = 0,
         NEW c \in Near(score.about[b]), c \in Acting, passing.lead[c] # c
  PROVE  passing.lead[c] \in Trail(b)[9].ids
<1> DEFINE about == score.about[b]
           T == Trail(b)
<1>1. /\ Stages = 1..9 /\ Len(recorded) = 9 /\ 7 \in 1..Len(score.snapshots) /\ 8 \in 2..Len(score.snapshots)
      /\ 8 \in 1..9 /\ 9 \in 1..Len(score.snapshots)
      /\ \A i \in 1..9 : Kept(score.snapshots[i], i, k)
  BY DEF Sane
<1>2. score.snapshots[7] = recorded[7] /\ score.snapshots[8] = recorded[8]
  BY <1>1 DEF Kept
<1>3. PICK a \in about \cap Acting : passing.lead[a] # a /\ passing.lead[a] = passing.lead[c]
  BY DEF Near
<1>4. a \in T[7].live
  <2>1. a \in recorded[7].ids
    <3>1. recorded[8].ids \subseteq recorded[7].ids
      BY <1>1 DEF LossInv, RecordInv, Shrinks
    <3> QED BY <1>3, <3>1 DEF Acting
  <2>2. about \subseteq T[7].ids
    BY <1>1, TrailHolds
  <2>3. T[7].live = score.snapshots[7].ids \cap T[7].ids
    <3>1. 7 \in 2..Len(score.snapshots)
      BY <1>1
    <3> QED BY <3>1, TrailStarts
  <2> QED BY <1>2, <1>3, <2>1, <2>2, <2>3
<1>5. ~passing.replayed
  BY <1>1, <1>3 DEF LossInv, RecordInv, Unseen, Acting
<1>6. PICK d \in Told(8) : d.id = a /\ d.kind = "coalesced"
  BY <1>1, <1>3, <1>5 DEF LossInv, RecordInv, Leads
<1>7. d \in Decided
  BY <1>1, <1>6 DEF Decided
<1>8. passing.lead[a] \in d.related
  BY <1>1, <1>6, <1>7, FoldedTogether
<1>9. T[8].ids = Grown(T[7], score.snapshots[8])
  <2>1. T[8].ids = Grown(T[8 - 1], score.snapshots[8])
    BY <1>1, TrailStarts
  <2> QED BY <2>1
<1>10. passing.lead[a] \in T[8].ids
  BY <1>2, <1>4, <1>6, <1>8, <1>9 DEF Grown, Told
<1>11. T[8].ids \subseteq T[9].ids
  <2>1. 8 \in 1..9
    OBVIOUS
  <2> QED BY <1>1, <2>1, TrailHolds
<1> QED BY <1>3, <1>10, <1>11

LEMMA StopIsTold ==
  ASSUME LossInv, NEW b \in KnownBug, NEW k \in 0..9, NEW posted, Sane(k, posted), score.bound, Missed(b),
         NEW s \in 2..10, Trail(b)[s].live = {}, NEW c \in Trail(b)[s - 1].live
  PROVE  \E d \in score.snapshots[s].decisions : d.id \in Trail(b)[s - 1].live /\ d.kind # "coalesced"
<1> DEFINE T == Trail(b)
           n == Len(score.snapshots)
<1>1. /\ Stages = 1..9 /\ Len(recorded) = 9 /\ n = 10 /\ k = 0
      /\ \A i \in 1..9 : Kept(score.snapshots[i], i, k)
      /\ Deliveries(score.snapshots[10], posted) /\ passing.carried = recorded[9].ids
  BY DEF Sane
<1>2. \A i \in 1..9 : score.snapshots[i] = recorded[i]
  BY <1>1 DEF Kept
<1>3. s \in 1..n /\ s - 1 \in 1..n /\ s - 1 \in 1..9 /\ s \in 2..n /\ s - 1 \in 1..s
  BY <1>1
<1>4. c \in T[s - 1].ids /\ c \in score.snapshots[s - 1].ids /\ c \in T[s].ids
  BY <1>3, TrailHolds, TrailStarts, SMTT(30)
<1>5. c \in recorded[s - 1].ids
  BY <1>2, <1>3, <1>4
<1>6. CASE s \in 1..9
  <2>1. T[s].live = score.snapshots[s].ids \cap T[s].ids
    BY <1>3, TrailStarts
  <2>2. c \notin recorded[s].ids
    BY <1>2, <1>4, <1>6, <2>1
  <2>3. s \in Stages \ {1} /\ c \in recorded[s - 1].ids \ recorded[s].ids
    BY <1>1, <1>5, <1>6, <2>2
  <2>4. \E d \in Told(s) : d.id = c /\ d.kind # "coalesced"
    BY <2>3 DEF LossInv, RecordInv, Endings
  <2> QED BY <1>2, <1>6, <2>4 DEF Told
<1>7. CASE s \notin 1..9
  <2>1. s = 10 /\ c \in recorded[9].ids /\ c \in T[9].live /\ c \in T[9].ids
    BY <1>4, <1>5, <1>7
  <2>2. \A x \in T[9].ids : x \in Near(score.about[b]) /\ x \notin Delivered(posted)
    <3>1. 9 \in 1..Len(score.snapshots)
      BY <1>1
    <3> QED BY <3>1, TrailHolds, NothingDelivered
  <2>3. \A x \in recorded[9].ids \ Delivered(posted) :
          ~Folds(x) => \E d \in score.snapshots[10].decisions : d.id = x /\ d.kind # "coalesced"
    BY <1>1 DEF Deliveries
  <2>4. CASE ~Folds(c)
    BY <2>1, <2>2, <2>3, <2>4
  <2>5. CASE Folds(c)
    <3>1. PICK e \in Decided : e.id = c /\ e.kind = "coalesced"
      BY <2>5 DEF Folds
    <3> DEFINE l == passing.lead[c]
    <3>2. ~passing.replayed /\ c \in Acting /\ l # c /\ l \in Acting /\ passing.lead[l] = l
      <4>1. ~passing.replayed /\ c \in Acting /\ l # c /\ l \in e.related
        BY <1>1, <3>1, FoldedTogether
      <4>2. l \in Acting /\ passing.lead[l] = passing.lead[c]
        BY <1>1, <3>1, <4>1, FoldedTogether
      <4> QED BY <4>1, <4>2
    <3>3. l \in recorded[9].ids
      BY <1>1, <2>1, <3>2 DEF LossInv, RecordInv, Leads
    <3>4. ~Folds(l)
      <4> SUFFICES ASSUME Folds(l) PROVE FALSE
        OBVIOUS
      <4>1. PICK f \in Decided : f.id = l /\ f.kind = "coalesced"
        BY DEF Folds
      <4>2. passing.lead[f.id] # f.id
        BY <1>1, <4>1, FoldedTogether
      <4> QED BY <3>2, <4>1, <4>2
    <3>5. l \in T[9].ids
      BY <1>1, <2>1, <2>2, <3>2, LeadFollows
    <3>6. l \in T[9].live
      <4>1. T[9].live = score.snapshots[9].ids \cap T[9].ids
        <5>1. 9 \in 2..Len(score.snapshots)
          BY <1>1
        <5> QED BY <5>1, TrailStarts
      <4>2. score.snapshots[9] = recorded[9]
        BY <1>2
      <4> QED BY <3>3, <3>5, <4>1, <4>2
    <3>7. l \notin Delivered(posted)
      BY <2>2, <3>5
    <3>8. PICK d \in score.snapshots[10].decisions : d.id = l /\ d.kind # "coalesced"
      BY <2>3, <3>3, <3>4, <3>7
    <3> HIDE DEF l
    <3> QED BY <2>1, <3>6, <3>8
  <2> QED BY <2>4, <2>5
<1> QED BY <1>6, <1>7

LEMMA BoundEstablishes ==
  ASSUME LossInv, NEW b \in KnownBug, NEW k \in 0..9, NEW posted, Sane(k, posted),
         FullyJudged, score.bound, Missed(b), NEW loss \in Losses(b)
  PROVE  loss.established
<1> DEFINE n == Len(score.snapshots)
           T == Trail(b)
           stops == {i \in 2..n : score.snapshots[i].coverage = "unavailable" \/ T[i].live = {}}
           i0 == Min(stops)
           told == {d \in score.snapshots[i0].decisions : d.id \in T[i0 - 1].live /\ d.kind # "coalesced"}
<1>1. Losses(b) = IF ~FullyJudged THEN {NoLoss}
                  ELSE IF score.about[b] = {} THEN {Loss("not_found", "discover", "not_found")}
                  ELSE IF stops = {} THEN {NoLoss}
                  ELSE IF score.snapshots[i0].coverage = "unavailable" \/ told = {} THEN {NoLoss}
                  ELSE {Loss(LossStage(d.reason, score.snapshots[i0].stage), score.snapshots[i0].stage, d.reason) : d \in told}
  BY Zenon DEF Losses
<1>2. /\ n = 10 /\ k = 0 /\ Deliveries(score.snapshots[10], posted)
      /\ \A i \in 1..9 : Kept(score.snapshots[i], i, k)
  BY DEF Sane
<1>3. \A i \in 1..10 : score.snapshots[i].coverage # "unavailable"
  <2>1. \A i \in 1..9 : score.snapshots[i].coverage # "unavailable"
    BY <1>2 DEF Kept
  <2>2. score.snapshots[10].coverage # "unavailable"
    BY <1>2 DEF Deliveries
  <2>3. \A i \in 1..10 : i \in 1..9 \/ i = 10
    OBVIOUS
  <2> QED BY <2>1, <2>2, <2>3
<1>4. T[10].live = {}
  <2> SUFFICES ASSUME T[10].live # {} PROVE FALSE
    OBVIOUS
  <2>1. PICK x \in T[10].live : TRUE
    OBVIOUS
  <2>2. 10 \in 1..Len(score.snapshots)
    BY <1>2
  <2>3. x \in T[10].ids /\ x \in score.snapshots[10].ids
    BY <2>1, <2>2, TrailStarts
  <2>4. x \in Near(score.about[b])
    <3>1. T[10].ids \subseteq Near(score.about[b])
      BY <2>2, TrailHolds
    <3> QED BY <2>3, <3>1
  <2>5. x \in Delivered(posted)
    BY <1>2, <2>3 DEF Deliveries
  <2> QED BY <2>4, <2>5, NothingDelivered
<1>5. 10 \in stops /\ stops \in SUBSET Nat
  BY <1>2, <1>4
<1>6. i0 \in stops /\ \A y \in stops : i0 <= y
  <2> HIDE DEF stops
  <2> QED BY <1>5, MinIs
<1> HIDE DEF i0
<1>7. i0 \in 2..10 /\ T[i0].live = {} /\ score.snapshots[i0].coverage # "unavailable"
  <2>1. i0 \in 2..10 /\ (score.snapshots[i0].coverage = "unavailable" \/ T[i0].live = {})
    BY <1>2, <1>6
  <2>2. i0 \in 1..10
    BY <2>1
  <2> QED BY <1>3, <2>1, <2>2
<1>8. ASSUME score.about[b] # {} PROVE told # {}
  <2>1. T[i0 - 1].live # {}
    <3>1. CASE i0 = 2
      <4>1. T[1].live = score.about[b]
        BY TrailStarts
      <4> QED BY <1>8, <3>1, <4>1
    <3>2. CASE i0 # 2
      <4>1. i0 - 1 \in 2..n /\ ~(i0 <= i0 - 1)
        BY <1>2, <1>7, <3>2
      <4> QED BY <1>6, <4>1
    <3> QED BY <3>1, <3>2
  <2>2. PICK c \in T[i0 - 1].live : TRUE
    BY <2>1
  <2>3. \E d \in score.snapshots[i0].decisions : d.id \in T[i0 - 1].live /\ d.kind # "coalesced"
    BY <1>7, <2>2, StopIsTold
  <2> QED BY <2>3
<1> HIDE DEF stops, told, n, T
<1>9. \A stage, at, reason : Loss(stage, at, reason).established
  BY LossFields
<1>10. CASE score.about[b] = {}
  BY <1>1, <1>9, <1>10
<1>11. CASE score.about[b] # {}
  <2>1. PICK d \in told : loss = Loss(LossStage(d.reason, score.snapshots[i0].stage), score.snapshots[i0].stage, d.reason)
    BY <1>1, <1>5, <1>7, <1>8, <1>11, Zenon
  <2> QED BY <1>9, <2>1
<1> QED BY <1>10, <1>11

LEMMA LossesHold ==
  LossInv => LossesAreTrue
<1> SUFFICES ASSUME LossInv PROVE LossesAreTrue
  OBVIOUS
<1>1. trace.kind = "available" => Loads(trace)
  BY ReturnedLoads
<1>2. ASSUME score.kind = "scored", NEW b \in KnownBug
      PROVE  /\ RowsAgree(b)
             /\ Missed(b) =>
                  /\ \A loss \in Losses(b) : loss.established => LossIsWhatHappened(b, loss) /\ ~passing.replayed
                  /\ FullyJudged /\ score.bound => \A loss \in Losses(b) : loss.established
  <2>1. CASE score.failed
    <3>1. ~score.bound /\ ~FullyJudged
      BY <1>2, <2>1, LeftOut DEF FullyJudged
    <3>2. \A loss \in Losses(b) : ~loss.established
      BY <3>1, LossFields DEF Losses
    <3>3. RowsAgree(b)
      BY <3>1, <3>2 DEF RowsAgree
    <3> QED BY <3>1, <3>2, <3>3
  <2>2. CASE ~score.failed
    <3>1. PICK k \in 0..9 : \E posted : Sane(k, posted)
      BY <1>2, <2>2, ScoredIs
    <3>2. PICK posted : Sane(k, posted)
      BY <3>1
    <3>3. RowsAgree(b)
      BY <1>2, <2>2, RowsHold
    <3>4. ASSUME Missed(b), NEW loss \in Losses(b), loss.established
          PROVE  LossIsWhatHappened(b, loss) /\ ~passing.replayed
      <4>1. /\ FullyJudged
            /\ \/ score.about[b] = {} /\ loss.stage = "not_found" /\ loss.at = "discover"
               \/ score.about[b] # {} /\ \E s \in 2..Len(score.snapshots) : LostAt(b, s, loss)
        BY <1>2, <3>2, <3>4, LossIs
      <4>2. score.snapshots[1] = recorded[1] /\ recorded[1].coverage = "complete" /\ score.unjudged = {} /\ Stages = 1..9
        <5>1. 1 \in 1..9 /\ 1 \in 1..1 /\ score.snapshots[1].coverage = "complete" /\ score.unjudged = {}
          BY <4>1 DEF FullyJudged
        <5>2. score.snapshots[1] = recorded[1]
          BY <3>2, <5>1, KeptWhole
        <5> QED BY <3>2, <5>1, <5>2 DEF Sane
      <4>3. ~passing.replayed
        BY <4>2 DEF LossInv, RecordInv, Unseen
      <4>4. CASE loss.stage = "not_found"
        BY <4>2, <4>3, <4>4 DEF LossIsWhatHappened
      <4>5. CASE loss.stage # "not_found"
        <5>1. PICK s \in 2..Len(score.snapshots) : LostAt(b, s, loss)
          BY <4>1, <4>5
        <5>2. FirstStop(b, s) /\ loss.at = AllStages[s] /\ s \in 1..Len(score.snapshots) /\ s \in 1..10
          BY <3>2, <5>1 DEF LostAt, Sane
        <5>3. StageOrder(loss.at) = s
          BY <5>2, OrderIs
        <5> DEFINE ids == UNION {Trail(b)[i].ids : i \in 1..s}
        <5>4. ids = Trail(b)[s].ids
          <6>1. \A j \in 1..s : Trail(b)[j].ids \subseteq Trail(b)[s].ids
            BY <1>2, <3>2, <5>2, TrailHolds
          <6>2. s \in 1..s
            BY <5>2
          <6> QED BY <6>1, <6>2
        <5>5. \E c \in ids : fate[c] = <<loss.at, loss.reason>>
          <6>1. \E c \in Trail(b)[s].ids : fate[c] = <<AllStages[s], loss.reason>>
            BY <1>2, <3>2, <3>4, <4>1, <5>1, EndsThere
          <6> HIDE DEF ids
          <6> QED BY <5>2, <5>4, <6>1
        <5>6. \A c \in ids : fate[c][2] # "delivered" /\ StageOrder(fate[c][1]) <= s
          BY <1>2, <3>2, <3>4, <4>1, <5>1, <5>2, <5>4, NoneLater
        <5> HIDE DEF ids
        <5>7. /\ \A c \in ids : fate[c][2] # "delivered" /\ StageOrder(fate[c][1]) <= StageOrder(loss.at)
              /\ \E c \in ids : fate[c] = <<loss.at, loss.reason>>
          BY <5>3, <5>5, <5>6
        <5>8. ids = UNION {Trail(b)[i].ids : i \in 1..StageOrder(loss.at)}
          BY <5>3 DEF ids
        <5> QED BY <4>3, <4>5, <5>7, <5>8, Zenon DEF LossIsWhatHappened
      <4> QED BY <4>4, <4>5
    <3>5. ASSUME Missed(b), FullyJudged, score.bound, NEW loss \in Losses(b) PROVE loss.established
      BY <1>2, <3>2, <3>5, BoundEstablishes
    <3> QED BY <3>3, <3>4, <3>5
  <2> QED BY <2>1, <2>2
<1> QED BY <1>1, <1>2 DEF LossesAreTrue

(* The losses that stages.py names are what the workflow did to the claims,*)
(* for any claims and bugs, whatever was cut, held back, folded, posted or *)
(* left unjudged. *)
THEOREM LossesAreAlwaysTrue == LossSpec => []LossesAreTrue
<1> QED BY LossesAlways, LossesHold, PTL
-----------------------------------------------------------------------------
(* A fold over a finite set: the function that MapThenFoldSet chooses.     *)
OneOf(s) == CHOOSE x \in s : TRUE

GrownBy(w, D) ==
  w = [s \in SUBSET D |-> IF s = {} THEN {} ELSE GrowWith(OneOf(s), w[s \ {OneOf(s)}])]
GrownTo(v, D, n) ==
  /\ v = [s \in {t \in SUBSET D : Cardinality(t) <= n} |-> v[s]]
  /\ \A s \in SUBSET D : Cardinality(s) <= n =>
       v[s] = IF s = {} THEN {} ELSE GrowWith(OneOf(s), v[s \ {OneOf(s)}])

LEMMA OneIsIn ==
  ASSUME NEW s, s # {}
  PROVE  OneOf(s) \in s
BY DEF OneOf

LEMMA OneLess ==
  ASSUME NEW D, IsFiniteSet(D), NEW s \in SUBSET D, s # {}
  PROVE  /\ s \ {OneOf(s)} \in SUBSET D
         /\ Cardinality(s \ {OneOf(s)}) = Cardinality(s) - 1 /\ Cardinality(s) \in Nat
         /\ IsFiniteSet(s)
<1>1. IsFiniteSet(s)
  BY FS_Subset
<1>2. OneOf(s) \in s
  BY OneIsIn
<1> QED BY <1>1, <1>2, FS_RemoveElement, FS_CardinalityType

LEMMA GrownStart ==
  ASSUME NEW D, IsFiniteSet(D)
  PROVE  \E v : GrownTo(v, D, 0)
<1> DEFINE z == [s \in {t \in SUBSET D : Cardinality(t) <= 0} |-> {}]
<1>1. \A s \in SUBSET D : Cardinality(s) <= 0 => s = {}
  BY FS_Subset, FS_EmptySet, FS_CardinalityType
<1>2. GrownTo(z, D, 0)
  BY <1>1 DEF GrownTo
<1> QED BY <1>2

LEMMA GrownOn ==
  ASSUME NEW D, IsFiniteSet(D), NEW n \in Nat, NEW v, GrownTo(v, D, n)
  PROVE  \E u : GrownTo(u, D, n + 1)
<1> DEFINE Small(t) == Cardinality(t) <= n
           u == [s \in {t \in SUBSET D : Cardinality(t) <= n + 1} |->
                   IF Small(s) THEN v[s] ELSE GrowWith(OneOf(s), v[s \ {OneOf(s)}])]
<1>1. \A s \in SUBSET D : Cardinality(s) \in Nat
  BY FS_Subset, FS_CardinalityType
<1>2. ASSUME NEW s \in SUBSET D, Cardinality(s) <= n + 1
      PROVE  u[s] = IF s = {} THEN {} ELSE GrowWith(OneOf(s), u[s \ {OneOf(s)}])
  <2>1. CASE s = {}
    <3>1. Small(s)
      BY <2>1, FS_EmptySet
    <3>2. u[s] = v[s] /\ v[s] = {}
      BY <2>1, <3>1, <1>2 DEF GrownTo
    <3> QED BY <3>2, <2>1
  <2>2. CASE s # {}
    <3> DEFINE r == s \ {OneOf(s)}
    <3>1. r \in SUBSET D /\ Cardinality(r) = Cardinality(s) - 1 /\ Cardinality(s) \in Nat
      BY <2>2, OneLess
    <3>2. Small(r) /\ Cardinality(r) <= n + 1
      BY <3>1, <1>2
    <3> HIDE DEF r
    <3>3. u[r] = v[r]
      BY <3>1, <3>2
    <3>4. CASE Small(s)
      <4>1. u[s] = v[s]
        BY <3>4, <1>2
      <4>2. v[s] = GrowWith(OneOf(s), v[r])
        BY <3>4, <2>2 DEF GrownTo, r
      <4> QED BY <4>1, <4>2, <3>3, <2>2 DEF r
    <3>5. CASE ~Small(s)
      <4>1. u[s] = GrowWith(OneOf(s), v[r])
        BY <3>5, <1>2 DEF r
      <4> QED BY <4>1, <3>3, <2>2 DEF r
    <3> QED BY <3>4, <3>5
  <2> QED BY <2>1, <2>2
<1>3. GrownTo(u, D, n + 1)
  <2> HIDE DEF u
  <2>1. u = [s \in {t \in SUBSET D : Cardinality(t) <= n + 1} |-> u[s]]
    BY DEF u
  <2> QED BY <2>1, <1>2 DEF GrownTo
<1> QED BY <1>3

LEMMA GrownExists ==
  ASSUME NEW D, IsFiniteSet(D)
  PROVE  \E w : GrownBy(w, D)
<1> DEFINE Bad == {n \in Nat : ~\E v : GrownTo(v, D, n)}
<1>1. Bad = {}
  <2> SUFFICES ASSUME Bad # {} PROVE FALSE
    OBVIOUS
  <2>1. PICK n \in Bad : \A m \in Bad : n <= m
    BY FirstOf, Bad \in SUBSET Nat, Zenon
  <2>2. n # 0 /\ n \in Nat
    BY GrownStart, <2>1
  <2>3. n - 1 \in Nat /\ n - 1 \notin Bad
    BY <2>1, <2>2
  <2>4. PICK v : GrownTo(v, D, n - 1)
    BY <2>3
  <2>5. \E u : GrownTo(u, D, (n - 1) + 1)
    BY <2>3, <2>4, GrownOn
  <2>6. (n - 1) + 1 = n
    BY <2>2
  <2> QED BY <2>5, <2>6, <2>1
<1>2. Cardinality(D) \in Nat
  BY FS_CardinalityType
<1>3. PICK v : GrownTo(v, D, Cardinality(D))
  BY <1>1, <1>2
<1>4. {t \in SUBSET D : Cardinality(t) <= Cardinality(D)} = SUBSET D
  BY FS_Subset
<1>5. GrownBy(v, D)
  <2>1. \A s \in SUBSET D : Cardinality(s) <= Cardinality(D)
    BY <1>4
  <2>2. v = [s \in SUBSET D |-> v[s]]
    BY <1>3, <1>4 DEF GrownTo
  <2>3. \A s \in SUBSET D : v[s] = IF s = {} THEN {} ELSE GrowWith(OneOf(s), v[s \ {OneOf(s)}])
    BY <1>3, <2>1 DEF GrownTo
  <2>4. [s \in SUBSET D |-> v[s]] = [s \in SUBSET D |-> IF s = {} THEN {} ELSE GrowWith(OneOf(s), v[s \ {OneOf(s)}])]
    BY <2>3, Zenon
  <2> QED BY <2>2, <2>4 DEF GrownBy
<1> QED BY <1>5

LEMMA CoalescedIsGrown ==
  ASSUME NEW D, IsFiniteSet(D)
  PROVE  \E w : GrownBy(w, D) /\ Coalesced(D) = w[D]
<1>1. Coalesced(D) = (CHOOSE w : GrownBy(w, D))[D]
  BY DEF Coalesced, FoldSet, MapThenFoldSet, GrownBy, OneOf
<1> QED BY <1>1, GrownExists
-----------------------------------------------------------------------------
(* Coalesced groups are what the decisions connect.                        *)
Closed(s, T) == \A d \in s : d \cap T # {} => d \subseteq T
Component(U, D, s) == {t \in U : \A T \in SUBSET U : s \in T /\ Closed(D, T) => t \in T}
AllComponents(G, U, D) == G = {Component(U, D, s) : s \in UNION D}
Connected(G, s) ==
  /\ UNION G = UNION s /\ {} \notin G
  /\ \A d \in s : \E g \in G : d \subseteq g
  /\ \A a, b \in G : a = b \/ a \cap b = {}
  /\ \A g \in G : \A T : Closed(s, T) /\ g \cap T # {} => g \subseteq T

LEMMA GrowConnects ==
  ASSUME NEW s, NEW d \in s, NEW r, r = s \ {d}, d # {}, NEW G, Connected(G, r)
  PROVE  Connected(GrowWith(d, G), s)
<1> DEFINE met == {g \in G : g \cap d # {}}
           new == (UNION met) \cup d
           H == (G \ met) \cup {new}
<1>0. GrowWith(d, G) = H
  BY DEF GrowWith
<1>1. UNION G = UNION r /\ {} \notin G
  BY DEF Connected
<1>2. UNION s = (UNION r) \cup d
  OBVIOUS
<1>3. UNION H = (UNION G) \cup d
  OBVIOUS
<1>4. {} \notin H
  BY <1>1
<1>5. \A e \in s : \E h \in H : e \subseteq h
  <2> TAKE e \in s
  <2>1. CASE e = d
    BY <2>1
  <2>2. CASE e # d
    <3>1. PICK g \in G : e \subseteq g
      BY <2>2 DEF Connected
    <3>2. CASE g \in met
      <4>1. g \subseteq new
        BY <3>2
      <4> QED BY <4>1, <3>1
    <3>3. CASE g \notin met
      BY <3>1, <3>3
    <3> QED BY <3>2, <3>3
  <2> QED BY <2>1, <2>2
<1>6. \A a, b \in H : a = b \/ a \cap b = {}
  <2>1. \A a, b \in G : a = b \/ a \cap b = {}
    BY DEF Connected
  <2>2. \A a \in G \ met : a \cap new = {}
    <3> TAKE a \in G \ met
    <3>1. a \cap d = {}
      OBVIOUS
    <3>2. \A g \in met : a \cap g = {}
      BY <2>1
    <3> QED BY <3>1, <3>2
  <2> QED BY <2>1, <2>2
<1>7. ASSUME NEW h \in H, NEW T, Closed(s, T), h \cap T # {}
      PROVE  h \subseteq T
  <2>1. Closed(r, T)
    BY <1>7 DEF Closed
  <2>2. \A g \in G : g \cap T # {} => g \subseteq T
    BY <2>1 DEF Connected
  <2>3. d \cap T # {} => d \subseteq T
    BY <1>7 DEF Closed
  <2>4. CASE h \in G
    BY <2>2, <2>4, <1>7
  <2>5. CASE h = new
    <3>1. d \cap T # {}
      <4>1. PICK x \in new : x \in T
        BY <2>5, <1>7
      <4>2. CASE x \in d
        BY <4>1, <4>2
      <4>3. CASE x \notin d
        <5>1. PICK g \in met : x \in g
          BY <4>1, <4>3
        <5>2. g \subseteq T /\ g \cap d # {}
          BY <5>1, <4>1, <2>2
        <5> QED BY <5>2
      <4> QED BY <4>2, <4>3
    <3>2. d \subseteq T
      BY <3>1, <2>3
    <3>3. \A g \in met : g \subseteq T
      <4> TAKE g \in met
      <4>1. g \cap T # {}
        BY <3>2
      <4> QED BY <4>1, <2>2
    <3> QED BY <3>2, <3>3, <2>5
  <2> QED BY <2>4, <2>5
<1> HIDE DEF H
<1>8. Connected(H, s)
  BY <1>1, <1>2, <1>3, <1>4, <1>5, <1>6, <1>7 DEF Connected
<1> QED BY <1>0, <1>8

LEMMA GrownConnects ==
  ASSUME NEW D, IsFiniteSet(D), {} \notin D, NEW w, GrownBy(w, D)
  PROVE  Connected(w[D], D)
<1> DEFINE Bad == {n \in Nat : \E s \in SUBSET D : Cardinality(s) = n /\ ~Connected(w[s], s)}
<1>1. Bad = {}
  <2> SUFFICES ASSUME Bad # {} PROVE FALSE
    OBVIOUS
  <2>1. PICK n \in Bad : \A m \in Bad : n <= m
    BY FirstOf, Bad \in SUBSET Nat, Zenon
  <2>2. PICK s \in SUBSET D : Cardinality(s) = n /\ ~Connected(w[s], s)
    BY <2>1
  <2>3. s # {}
    <3> SUFFICES ASSUME s = {} PROVE FALSE
      OBVIOUS
    <3>1. w[s] = {}
      BY DEF GrownBy
    <3>2. Connected(w[s], s)
      BY <3>1 DEF Connected
    <3> QED BY <3>2, <2>2
  <2> DEFINE d == OneOf(s)
             r == s \ {d}
  <2>4. r \in SUBSET D /\ Cardinality(r) = n - 1 /\ n \in Nat
    BY <2>2, <2>3, OneLess
  <2>5. d \in s /\ d # {}
    BY <2>3, OneIsIn
  <2>6. w[s] = GrowWith(d, w[r])
    BY <2>3 DEF GrownBy
  <2> HIDE DEF d
  <2>7. Cardinality(r) \in Nat
    BY <2>4, FS_Subset, FS_CardinalityType
  <2>8. n - 1 \in Nat
    BY <2>7, <2>4
  <2> DEFINE q == r
  <2> HIDE DEF r
  <2>9. Connected(w[r], r)
    <3> SUFFICES ASSUME ~Connected(w[r], r) PROVE FALSE
      OBVIOUS
    <3>1. n - 1 \in Bad
      BY <2>4, <2>8
    <3> HIDE DEF Bad
    <3> QED BY <3>1, <2>1, <2>4
  <2>10. Connected(GrowWith(d, w[r]), s)
    BY <2>5, <2>9, GrowConnects, r = s \ {d} DEF r
  <2> QED BY <2>10, <2>6, <2>2
<1>2. Cardinality(D) \in Nat
  BY FS_CardinalityType
<1> QED BY <1>1, <1>2

LEMMA CoalescedConnects ==
  ASSUME NEW D, IsFiniteSet(D), {} \notin D
  PROVE  Connected(Coalesced(D), D)
BY CoalescedIsGrown, GrownConnects

LEMMA ComponentsAreGroups ==
  ASSUME NEW U, NEW D \in SUBSET SUBSET U, NEW G, Connected(G, D)
  PROVE  AllComponents(G, U, D)
<1> DEFINE C(s) == Component(U, D, s)
<1>0. UNION G = UNION D /\ {} \notin G
  BY DEF Connected
<1>1. \A g \in G : g \in SUBSET U
  BY <1>0
<1>2. \A g \in G : Closed(D, g)
  <2> TAKE g \in G
  <2> SUFFICES ASSUME NEW d \in D, d \cap g # {} PROVE d \subseteq g
    BY DEF Closed
  <2>1. PICK h \in G : d \subseteq h
    BY DEF Connected
  <2>2. h \cap g # {}
    BY <2>1
  <2>3. h = g
    BY <2>2 DEF Connected
  <2> QED BY <2>1, <2>3
<1>3. ASSUME NEW g \in G, NEW s \in g
      PROVE  C(s) = g
  <2>1. C(s) \subseteq g
    BY <1>1, <1>2, <1>3 DEF Component
  <2>2. g \subseteq C(s)
    <3>1. \A T : s \in T /\ Closed(D, T) => g \subseteq T
      BY <1>3 DEF Connected
    <3> QED BY <3>1, <1>1 DEF Component
  <2> QED BY <2>1, <2>2
<1>4. \A g \in G : \E s \in UNION D : g = C(s)
  <2> TAKE g \in G
  <2>1. PICK s \in g : TRUE
    BY <1>0
  <2>2. s \in UNION D
    BY <2>1, <1>0
  <2> HIDE DEF C
  <2> QED BY <2>1, <2>2, <1>3
<1>5. \A s \in UNION D : C(s) \in G
  <2> TAKE s \in UNION D
  <2>1. PICK g \in G : s \in g
    BY <1>0
  <2> HIDE DEF C
  <2> QED BY <2>1, <1>3
<1>6. G = {C(s) : s \in UNION D}
  <2> HIDE DEF C
  <2> QED BY <1>4, <1>5
<1> QED BY <1>6 DEF AllComponents

LEMMA CoalescedComponents ==
  ASSUME NEW U, NEW D, D \in SUBSET SUBSET U, IsFiniteSet(D), {} \notin D
  PROVE  AllComponents(Coalesced(D), U, D)
<1> DEFINE G == Coalesced(D)
<1>1. Connected(G, D)
  BY CoalescedConnects
<1> HIDE DEF G
<1>2. AllComponents(G, U, D)
  BY <1>1, ComponentsAreGroups
<1> QED BY <1>2 DEF G

(* Evidence of coalescence is counted once (CoalescedOnce). *)
LEMMA CoalescedOnceHolds ==
  CoalescedOnce
<1> DEFINE U == DOMAIN Producer
           Pick == {s \in SUBSET U : Cardinality(s) \in 2..3}
<1>1. IsFiniteSet(U) /\ IsFiniteSet(Pick)
  <2>1. IsFiniteSet(U)
    BY EvidenceAssumption
  <2>2. IsFiniteSet(SUBSET U)
    BY <2>1, FS_SUBSET
  <2> QED BY <2>1, <2>2, FS_Subset, Pick \in SUBSET SUBSET U
<1>2. ASSUME NEW D \in SUBSET Pick
      PROVE  AllComponents(Coalesced(D), U, D)
  <2>1. IsFiniteSet(D)
    BY <1>1, FS_Subset
  <2>2. {} \notin D
    BY FS_EmptySet
  <2>3. D \in SUBSET SUBSET U
    OBVIOUS
  <2> HIDE DEF U, Pick
  <2> QED BY <2>1, <2>2, <2>3, CoalescedComponents
<1>3. \A D \in UNION {kSubset(k, Pick) : k \in 0..3} : D \in SUBSET Pick
  BY DEF kSubset
<1> QED BY <1>2, <1>3 DEF CoalescedOnce, Closed, Component, AllComponents
-----------------------------------------------------------------------------
(* The sum over a set of comments of the occurrences behind each.          *)
SourcesAt(pop, c) == pop[c[1]][c[2]].sources
SumOver(pop, D) == MapThenSumSet(LAMBDA c : Occurrences(pop, c), D)
SummedBy(w, S, pop) ==
  w = [s \in SUBSET S |-> IF s = {} THEN 0 ELSE Occurrences(pop, OneOf(s)) + w[s \ {OneOf(s)}]]
SummedTo(v, S, pop, n) ==
  /\ v = [s \in {t \in SUBSET S : Cardinality(t) <= n} |-> v[s]]
  /\ \A s \in SUBSET S : Cardinality(s) <= n =>
       v[s] = IF s = {} THEN 0 ELSE Occurrences(pop, OneOf(s)) + v[s \ {OneOf(s)}]

LEMMA SummedStart ==
  ASSUME NEW D, NEW pop, IsFiniteSet(D)
  PROVE  \E v : SummedTo(v, D, pop, 0)
<1> DEFINE z == [s \in {t \in SUBSET D : Cardinality(t) <= 0} |-> 0]
<1>1. \A s \in SUBSET D : Cardinality(s) <= 0 => s = {}
  BY FS_Subset, FS_EmptySet, FS_CardinalityType
<1>2. SummedTo(z, D, pop, 0)
  BY <1>1 DEF SummedTo
<1> QED BY <1>2

LEMMA SummedOn ==
  ASSUME NEW D, NEW pop, IsFiniteSet(D), NEW n \in Nat, NEW v, SummedTo(v, D, pop, n)
  PROVE  \E u : SummedTo(u, D, pop, n + 1)
<1> DEFINE Small(t) == Cardinality(t) <= n
           More(s, y) == Occurrences(pop, OneOf(s)) + y
           u == [s \in {t \in SUBSET D : Cardinality(t) <= n + 1} |->
                   IF Small(s) THEN v[s] ELSE More(s, v[s \ {OneOf(s)}])]
<1>1. \A s \in SUBSET D : Cardinality(s) \in Nat
  BY FS_Subset, FS_CardinalityType
<1>2. ASSUME NEW s \in SUBSET D, Cardinality(s) <= n + 1
      PROVE  u[s] = IF s = {} THEN 0 ELSE More(s, u[s \ {OneOf(s)}])
  <2>1. CASE s = {}
    <3>1. Small(s)
      BY <2>1, FS_EmptySet
    <3>2. u[s] = v[s] /\ v[s] = 0
      BY <2>1, <3>1, <1>2 DEF SummedTo
    <3> QED BY <3>2, <2>1
  <2>2. CASE s # {}
    <3> DEFINE r == s \ {OneOf(s)}
    <3>1. r \in SUBSET D /\ Cardinality(r) = Cardinality(s) - 1 /\ Cardinality(s) \in Nat
      BY <2>2, OneLess
    <3>2. Small(r) /\ Cardinality(r) <= n + 1
      BY <3>1, <1>2
    <3> HIDE DEF r
    <3>3. u[r] = v[r]
      BY <3>1, <3>2
    <3>4. CASE Small(s)
      <4>1. u[s] = v[s]
        BY <3>4, <1>2
      <4>2. v[s] = More(s, v[r])
        BY <3>4, <2>2 DEF SummedTo, r
      <4> QED BY <4>1, <4>2, <3>3, <2>2 DEF r
    <3>5. CASE ~Small(s)
      <4>1. u[s] = More(s, v[r])
        BY <3>5, <1>2 DEF r
      <4> QED BY <4>1, <3>3, <2>2 DEF r
    <3> QED BY <3>4, <3>5
  <2> QED BY <2>1, <2>2
<1>3. SummedTo(u, D, pop, n + 1)
  <2> HIDE DEF u
  <2>1. u = [s \in {t \in SUBSET D : Cardinality(t) <= n + 1} |-> u[s]]
    BY DEF u
  <2> QED BY <2>1, <1>2 DEF SummedTo
<1> QED BY <1>3

LEMMA SummedExists ==
  ASSUME NEW D, NEW pop, IsFiniteSet(D)
  PROVE  \E w : SummedBy(w, D, pop)
<1> DEFINE Bad == {n \in Nat : ~\E v : SummedTo(v, D, pop, n)}
<1>1. Bad = {}
  <2> SUFFICES ASSUME Bad # {} PROVE FALSE
    OBVIOUS
  <2>1. PICK n \in Bad : \A m \in Bad : n <= m
    BY FirstOf, Bad \in SUBSET Nat, Zenon
  <2>2. n # 0 /\ n \in Nat
    BY SummedStart, <2>1
  <2>3. n - 1 \in Nat /\ n - 1 \notin Bad
    BY <2>1, <2>2
  <2>4. PICK v : SummedTo(v, D, pop, n - 1)
    BY <2>3
  <2>5. \E u : SummedTo(u, D, pop, (n - 1) + 1)
    BY <2>3, <2>4, SummedOn
  <2>6. (n - 1) + 1 = n
    BY <2>2
  <2> QED BY <2>5, <2>6, <2>1
<1>2. Cardinality(D) \in Nat
  BY FS_CardinalityType
<1>3. PICK v : SummedTo(v, D, pop, Cardinality(D))
  BY <1>1, <1>2
<1>4. {t \in SUBSET D : Cardinality(t) <= Cardinality(D)} = SUBSET D
  BY FS_Subset
<1>5. SummedBy(v, D, pop)
  <2>1. \A s \in SUBSET D : Cardinality(s) <= Cardinality(D)
    BY <1>4
  <2>2. v = [s \in SUBSET D |-> v[s]]
    BY <1>3, <1>4 DEF SummedTo
  <2>3. \A s \in SUBSET D : v[s] = IF s = {} THEN 0 ELSE Occurrences(pop, OneOf(s)) + v[s \ {OneOf(s)}]
    BY <1>3, <2>1 DEF SummedTo
  <2>4. [s \in SUBSET D |-> v[s]] = [s \in SUBSET D |-> IF s = {} THEN 0 ELSE Occurrences(pop, OneOf(s)) + v[s \ {OneOf(s)}]]
    BY <2>3, Zenon
  <2> QED BY <2>2, <2>4 DEF SummedBy
<1> QED BY <1>5

LEMMA SumIsSummed ==
  ASSUME NEW D, NEW pop, IsFiniteSet(D)
  PROVE  \E w : SummedBy(w, D, pop) /\ SumOver(pop, D) = w[D]
<1>1. SumOver(pop, D) = (CHOOSE w : SummedBy(w, D, pop))[D]
  BY DEF SumOver, MapThenSumSet, MapThenFoldSet, SummedBy, OneOf
<1> QED BY <1>1, SummedExists

(* Disjoint sources add up. *)
AllSources(pop, s) == UNION {SourcesAt(pop, c) : c \in s}
Apart(pop, D) ==
  \A c, e \in D : c # e => SourcesAt(pop, c) \cap SourcesAt(pop, e) = {}

LEMMA SourcesSplit ==
  ASSUME NEW s, NEW x \in s, NEW pop
  PROVE  AllSources(pop, s) = SourcesAt(pop, x) \cup AllSources(pop, s \ {x})
BY DEF AllSources

LEMMA SourcesApart ==
  ASSUME NEW s, NEW x \in s, NEW pop, Apart(pop, s)
  PROVE  SourcesAt(pop, x) \cap AllSources(pop, s \ {x}) = {}
BY DEF AllSources, Apart

LEMMA SourcesJoin ==
  ASSUME NEW A, NEW B, IsFiniteSet(A), IsFiniteSet(B), A \cap B = {}
  PROVE  IsFiniteSet(A \cup B) /\ Cardinality(A \cup B) = Cardinality(A) + Cardinality(B)
<1>1. Cardinality(A) \in Nat /\ Cardinality(B) \in Nat
  BY FS_CardinalityType
<1>2. Cardinality(A \cap B) = 0
  BY FS_EmptySet
<1>3. IsFiniteSet(A \cup B) /\ Cardinality(A \cup B) = Cardinality(A) + Cardinality(B) - Cardinality(A \cap B)
  BY FS_Union, Zenon
<1> QED BY ONLY <1>1, <1>2, <1>3

SumsUp(w, pop, s) ==
  IsFiniteSet(AllSources(pop, s)) /\ Cardinality(AllSources(pop, s)) = w[s]

LEMMA SumsUpOn ==
  ASSUME NEW pop, NEW s, NEW x \in s, NEW w, Apart(pop, s), IsFiniteSet(SourcesAt(pop, x)),
         SumsUp(w, pop, s \ {x}), w[s] = Occurrences(pop, x) + w[s \ {x}]
  PROVE  SumsUp(w, pop, s)
<1>1. AllSources(pop, s) = SourcesAt(pop, x) \cup AllSources(pop, s \ {x})
  BY SourcesSplit
<1>2. SourcesAt(pop, x) \cap AllSources(pop, s \ {x}) = {}
  BY SourcesApart
<1>3. Cardinality(AllSources(pop, s)) = Cardinality(SourcesAt(pop, x)) + Cardinality(AllSources(pop, s \ {x}))
      /\ IsFiniteSet(AllSources(pop, s))
  BY <1>1, <1>2, SourcesJoin DEF SumsUp
<1>4. Occurrences(pop, x) = Cardinality(SourcesAt(pop, x))
  BY DEF Occurrences, SourcesAt
<1> QED BY <1>3, <1>4 DEF SumsUp

LEMMA SumOfSources ==
  ASSUME NEW D, NEW pop, IsFiniteSet(D), Apart(pop, D), \A c \in D : IsFiniteSet(SourcesAt(pop, c))
  PROVE  SumOver(pop, D) = Cardinality(AllSources(pop, D))
<1>1. PICK w : SummedBy(w, D, pop) /\ SumOver(pop, D) = w[D]
  BY SumIsSummed
<1> DEFINE Bad == {n \in Nat : \E s \in SUBSET D : Cardinality(s) = n /\ ~SumsUp(w, pop, s)}
<1>2. Bad = {}
  <2> SUFFICES ASSUME Bad # {} PROVE FALSE
    OBVIOUS
  <2>1. PICK n \in Bad : \A m \in Bad : n <= m
    BY FirstOf, Bad \in SUBSET Nat, Zenon
  <2>2. PICK s \in SUBSET D : Cardinality(s) = n /\ ~SumsUp(w, pop, s)
    BY <2>1
  <2>3. s # {}
    <3> SUFFICES ASSUME s = {} PROVE FALSE
      OBVIOUS
    <3>1. w[s] = 0
      BY <1>1 DEF SummedBy
    <3>2. AllSources(pop, s) = {}
      BY DEF AllSources
    <3>3. SumsUp(w, pop, s)
      BY <3>1, <3>2, FS_EmptySet DEF SumsUp
    <3> QED BY <3>3, <2>2
  <2> DEFINE d == OneOf(s)
             r == s \ {d}
  <2>4. r \in SUBSET D /\ Cardinality(r) = n - 1 /\ n \in Nat
    BY <2>2, <2>3, OneLess
  <2>5. d \in s
    BY <2>3, OneIsIn
  <2>6. w[s] = Occurrences(pop, d) + w[r]
    BY <2>3, <1>1 DEF SummedBy
  <2> HIDE DEF d
  <2>7. Cardinality(r) \in Nat
    BY <2>4, FS_Subset, FS_CardinalityType
  <2>8. n - 1 \in Nat
    BY <2>7, <2>4
  <2> HIDE DEF r
  <2>9. SumsUp(w, pop, r)
    <3> SUFFICES ASSUME ~SumsUp(w, pop, r) PROVE FALSE
      OBVIOUS
    <3>1. n - 1 \in Bad
      BY <2>4, <2>8
    <3> HIDE DEF Bad
    <3> QED BY <3>1, <2>1, <2>4
  <2>10. Apart(pop, s) /\ IsFiniteSet(SourcesAt(pop, d))
    BY <2>5 DEF Apart
  <2>11. SumsUp(w, pop, s)
    BY <2>5, <2>6, <2>9, <2>10, SumsUpOn DEF r
  <2> QED BY <2>11, <2>2
<1>3. Cardinality(D) \in Nat
  BY FS_CardinalityType
<1>4. SumsUp(w, pop, D)
  BY <1>2, <1>3
<1> QED BY <1>1, <1>4 DEF SumsUp

(* Comments with sources of their own are as many issues.                  *)
LEMMA IssuesAreCounted ==
  ASSUME NEW D, NEW pop, IsFiniteSet(D), Apart(pop, D), \A c \in D : SourcesAt(pop, c) # {}
  PROVE  Cardinality({SourcesAt(pop, c) : c \in D}) = Cardinality(D)
<1> DEFINE f == [c \in D |-> SourcesAt(pop, c)]
           T == {SourcesAt(pop, c) : c \in D}
<1>1. \A c, e \in D : SourcesAt(pop, c) = SourcesAt(pop, e) => c = e
  BY DEF Apart
<1>2. f \in [D -> T] /\ (\A t \in T : \E c \in D : f[c] = t)
  OBVIOUS
<1>3. \A c, e \in D : f[c] = f[e] => c = e
  BY <1>1
<1> HIDE DEF f, T
<1>4. f \in Injection(D, T)
  BY <1>2, <1>3 DEF Injection, IsInjective
<1>5. f \in Surjection(D, T)
  BY <1>2 DEF Surjection
<1>6. ExistsBijection(D, T)
  BY <1>4, <1>5 DEF ExistsBijection, Bijection
<1>7. Cardinality(T) = Cardinality(D)
  BY <1>6, FS_Bijection
<1> QED BY <1>7 DEF T
-----------------------------------------------------------------------------
(* What was posted at a place: its groups, in order, each from its own     *)
(* position. *)
GroupAt(s, groups, place, i) == IF groups[i].place = place THEN Append(s, groups[i]) ELSE s
PlacedBy(f, groups, place) ==
  f = [i \in 0..Len(groups) |-> IF i = 0 THEN <<>> ELSE GroupAt(f[i - 1], groups, place, i)]
PlacedUpto(v, groups, place, n) ==
  v = [i \in 0..n |-> IF i = 0 THEN <<>> ELSE GroupAt(v[i - 1], groups, place, i)]

LEMMA PlacedStart ==
  ASSUME NEW groups, NEW place
  PROVE  \E v : PlacedUpto(v, groups, place, 0)
<1> DEFINE v == [i \in 0..0 |-> <<>>]
<1>1. PlacedUpto(v, groups, place, 0)
  BY DEF PlacedUpto
<1> QED BY <1>1

LEMMA PlacedOn ==
  ASSUME NEW groups, NEW place, NEW n \in Nat, NEW v, PlacedUpto(v, groups, place, n)
  PROVE  \E u : PlacedUpto(u, groups, place, n + 1)
<1> DEFINE More(y, i) == GroupAt(y, groups, place, i)
           u == [i \in 0..n + 1 |-> IF i = n + 1 THEN More(v[n], n + 1) ELSE v[i]]
<1>1. \A i \in 0..n : v[i] = IF i = 0 THEN <<>> ELSE More(v[i - 1], i)
  BY DEF PlacedUpto
<1> HIDE DEF More
<1>2. \A i \in 0..n + 1 : u[i] = IF i = 0 THEN <<>> ELSE More(u[i - 1], i)
  <2> TAKE i \in 0..n + 1
  <2>1. CASE i = n + 1
    <3>1. u[i] = More(v[n], n + 1) /\ u[i - 1] = v[n]
      BY <2>1
    <3> QED BY <3>1, <2>1
  <2>2. CASE i # n + 1 /\ i # 0
    <3>1. i \in 0..n /\ i - 1 \in 0..n + 1 /\ i - 1 # n + 1
      BY <2>2
    <3>2. u[i] = v[i] /\ u[i - 1] = v[i - 1]
      BY <3>1
    <3> QED BY <3>1, <3>2, <1>1, <2>2
  <2>3. CASE i = 0
    BY <1>1, <2>3
  <2> QED BY <2>1, <2>2, <2>3
<1>3. u = [i \in 0..n + 1 |-> u[i]]
  OBVIOUS
<1> HIDE DEF u
<1>4. [i \in 0..n + 1 |-> u[i]] = [i \in 0..n + 1 |-> IF i = 0 THEN <<>> ELSE More(u[i - 1], i)]
  BY <1>2, Zenon
<1>5. PlacedUpto(u, groups, place, n + 1)
  BY <1>3, <1>4 DEF PlacedUpto, More
<1> QED BY <1>5

LEMMA PlacedExists ==
  ASSUME NEW groups, NEW place, Len(groups) \in Nat
  PROVE  \E f : PlacedBy(f, groups, place) /\ PlacedAt(groups, place) = f[Len(groups)]
<1> DEFINE Bad == {n \in Nat : ~\E v : PlacedUpto(v, groups, place, n)}
<1>1. Bad = {}
  <2> SUFFICES ASSUME Bad # {} PROVE FALSE
    OBVIOUS
  <2>1. PICK n \in Bad : \A m \in Bad : n <= m
    BY FirstOf, Bad \in SUBSET Nat, Zenon
  <2>2. n # 0 /\ n \in Nat
    BY PlacedStart, <2>1
  <2>3. n - 1 \in Nat /\ n - 1 \notin Bad
    BY <2>1, <2>2
  <2>4. PICK v : PlacedUpto(v, groups, place, n - 1)
    BY <2>3
  <2>5. \E u : PlacedUpto(u, groups, place, (n - 1) + 1)
    BY <2>3, <2>4, PlacedOn
  <2>6. (n - 1) + 1 = n
    BY <2>2
  <2> QED BY <2>5, <2>6, <2>1
<1>2. PICK v : PlacedUpto(v, groups, place, Len(groups))
  BY <1>1
<1>3. \E f : PlacedBy(f, groups, place)
  BY <1>2 DEF PlacedBy, PlacedUpto
<1>4. PlacedAt(groups, place) = (CHOOSE f : PlacedBy(f, groups, place))[Len(groups)]
  BY DEF PlacedAt, PlacedBy, GroupAt
<1> QED BY <1>3, <1>4

From(s, groups, place, n) ==
  /\ s \in Seq(Group)
  /\ \E at \in [1..Len(s) -> 1..n] :
       /\ \A k \in 1..Len(s) : s[k] = groups[at[k]] /\ groups[at[k]].place = place
       /\ \A j, k \in 1..Len(s) : j # k => at[j] # at[k]

LEMMA FromOn ==
  ASSUME NEW groups \in Seq(Group), NEW place, NEW s, NEW n \in Nat, From(s, groups, place, n),
         n + 1 <= Len(groups)
  PROVE  From(GroupAt(s, groups, place, n + 1), groups, place, n + 1)
<1> DEFINE g == groups[n + 1]
<1>0. g \in Group
  OBVIOUS
<1>1. PICK at \in [1..Len(s) -> 1..n] :
        /\ \A k \in 1..Len(s) : s[k] = groups[at[k]] /\ groups[at[k]].place = place
        /\ \A j, k \in 1..Len(s) : j # k => at[j] # at[k]
  BY DEF From
<1>2. s \in Seq(Group)
  BY DEF From
<1>3. CASE g.place # place
  <2>1. at \in [1..Len(s) -> 1..n + 1]
    BY <1>1
  <2>2. From(s, groups, place, n + 1)
    BY <1>1, <1>2, <2>1 DEF From
  <2> QED BY <1>3, <2>2 DEF GroupAt
<1>4. CASE g.place = place
  <2> DEFINE t == Append(s, g)
             to == [k \in 1..Len(t) |-> IF k = Len(s) + 1 THEN n + 1 ELSE at[k]]
  <2>1. t \in Seq(Group) /\ Len(t) = Len(s) + 1 /\ t[Len(s) + 1] = g /\ \A k \in 1..Len(s) : t[k] = s[k]
    BY <1>0, <1>2
  <2>2. Len(s) \in Nat
    BY <1>2
  <2> HIDE DEF t
  <2>3. \A k \in 1..Len(t) : k # Len(s) + 1 => k \in 1..Len(s)
    BY <2>1, <2>2
  <2>4. to \in [1..Len(t) -> 1..n + 1]
    BY <2>1, <2>3, <1>1
  <2>5. \A k \in 1..Len(t) : t[k] = groups[to[k]] /\ groups[to[k]].place = place
    BY <2>1, <2>3, <1>1, <1>4
  <2>6. \A j, k \in 1..Len(t) : j # k => to[j] # to[k]
    <3>1. \A k \in 1..Len(s) : at[k] # n + 1
      BY <1>1
    <3>2. \A k \in 1..Len(t) : to[k] = IF k = Len(s) + 1 THEN n + 1 ELSE at[k]
      OBVIOUS
    <3> HIDE DEF to
    <3>3. ASSUME NEW j \in 1..Len(t), NEW k \in 1..Len(t), j # k PROVE to[j] # to[k]
      <4>1. CASE j = Len(s) + 1
        BY <4>1, <3>1, <3>2, <3>3, <2>3
      <4>2. CASE k = Len(s) + 1
        BY <4>2, <3>1, <3>2, <3>3, <2>3
      <4>3. CASE j # Len(s) + 1 /\ k # Len(s) + 1
        <5>1. to[j] = at[j] /\ to[k] = at[k] /\ j \in 1..Len(s) /\ k \in 1..Len(s)
          BY <4>3, <3>2, <2>3
        <5> QED BY <5>1, <3>3, <1>1
      <4> QED BY <4>1, <4>2, <4>3
    <3> QED BY <3>3
  <2>7. From(t, groups, place, n + 1)
    BY <2>1, <2>4, <2>5, <2>6 DEF From
  <2> QED BY <1>4, <2>7 DEF GroupAt, t
<1> QED BY <1>3, <1>4

BothPlaced(f, h, groups, n) ==
  /\ From(f[n], groups, "inline", n) /\ From(h[n], groups, "body", n)
  /\ Len(f[n]) + Len(h[n]) <= n

LEMMA BothStart ==
  ASSUME NEW groups, NEW f, NEW h, f[0] = <<>>, h[0] = <<>>
  PROVE  BothPlaced(f, h, groups, 0)
<1>1. \A place : From(<<>>, groups, place, 0)
  <2> TAKE place
  <2> DEFINE e == <<>>
             z == [k \in 1..0 |-> 1]
  <2>1. z \in [1..Len(e) -> 1..0] /\ e \in Seq(Group) /\ \A k \in 1..Len(e) : FALSE
    OBVIOUS
  <2> HIDE DEF e, z
  <2>2. From(e, groups, place, 0)
    BY <2>1 DEF From
  <2> QED BY <2>2 DEF e
<1>2. Len(<<>>) + Len(<<>>) <= 0
  OBVIOUS
<1> QED BY <1>1, <1>2 DEF BothPlaced

Grew(a, b, x, y) ==
  \/ x = a + 1 /\ y = b
  \/ x = a /\ y = b + 1
  \/ x = a /\ y = b

OneAdded(a, b, g, x, y) ==
  \/ x = Append(a, g) /\ y = b
  \/ x = a /\ y = Append(b, g)
  \/ x = a /\ y = b

LEMMA GrewOn ==
  ASSUME NEW a \in Seq(Group), NEW b \in Seq(Group), NEW g, NEW x, NEW y, OneAdded(a, b, g, x, y)
  PROVE  Grew(Len(a), Len(b), Len(x), Len(y))
<1>1. Len(Append(a, g)) = Len(a) + 1 /\ Len(Append(b, g)) = Len(b) + 1
  OBVIOUS
<1> QED BY <1>1, Zenon DEF OneAdded, Grew

LEMMA OneMore ==
  ASSUME NEW n \in Nat, NEW a \in Nat, NEW b \in Nat, NEW x, NEW y, a + b <= n,
         Grew(a, b, x, y)
  PROVE  x + y <= n + 1
BY DEF Grew

LEMMA BothOn ==
  ASSUME NEW groups \in Seq(Group), NEW f, NEW h, NEW n \in Nat, n + 1 <= Len(groups),
         f[n + 1] = GroupAt(f[n], groups, "inline", n + 1),
         h[n + 1] = GroupAt(h[n], groups, "body", n + 1),
         BothPlaced(f, h, groups, n)
  PROVE  BothPlaced(f, h, groups, n + 1)
<1>1. From(f[n + 1], groups, "inline", n + 1) /\ From(h[n + 1], groups, "body", n + 1)
  BY FromOn DEF BothPlaced
<1>2. f[n] \in Seq(Group) /\ h[n] \in Seq(Group)
  BY DEF BothPlaced, From
<1>3. \A s \in Seq(Group) : Len(s) \in Nat
  OBVIOUS
<1>4. Len(f[n + 1]) + Len(h[n + 1]) <= n + 1
  <2> DEFINE a == f[n]
             b == h[n]
             g == groups[n + 1]
  <2>1. Len(a) + Len(b) <= n
    BY DEF BothPlaced
  <2>2. Len(a) \in Nat /\ Len(b) \in Nat
    BY <1>2, <1>3
  <2>3. OneAdded(a, b, g, f[n + 1], h[n + 1])
    <3>1. f[n + 1] = IF g.place = "inline" THEN Append(a, g) ELSE a
      BY DEF GroupAt
    <3>2. h[n + 1] = IF g.place = "body" THEN Append(b, g) ELSE b
      BY DEF GroupAt
    <3> HIDE DEF a, b, g
    <3>3. CASE g.place = "inline"
      BY ONLY <3>1, <3>2, <3>3 DEF OneAdded
    <3>4. CASE g.place # "inline"
      BY ONLY <3>1, <3>2, <3>4 DEF OneAdded
    <3> QED BY <3>3, <3>4
  <2>4. Grew(Len(a), Len(b), Len(f[n + 1]), Len(h[n + 1]))
    BY <1>2, <2>3, GrewOn, Zenon
  <2>5. Len(a) \in Nat /\ Len(b) \in Nat
    BY <2>2
  <2> QED BY <2>1, <2>4, <2>5, OneMore, Zenon
<1> QED BY <1>1, <1>4 DEF BothPlaced

LEMMA BothArePlaced ==
  ASSUME NEW groups \in Seq(Group)
  PROVE  /\ From(PlacedAt(groups, "inline"), groups, "inline", Len(groups))
         /\ From(PlacedAt(groups, "body"), groups, "body", Len(groups))
         /\ Len(PlacedAt(groups, "inline")) + Len(PlacedAt(groups, "body")) <= Len(groups)
<1>0. Len(groups) \in Nat
  OBVIOUS
<1>1. PICK f : PlacedBy(f, groups, "inline") /\ PlacedAt(groups, "inline") = f[Len(groups)]
  BY <1>0, PlacedExists
<1>2. PICK h : PlacedBy(h, groups, "body") /\ PlacedAt(groups, "body") = h[Len(groups)]
  BY <1>0, PlacedExists
<1> DEFINE Bad == {n \in Nat : n <= Len(groups) /\ ~BothPlaced(f, h, groups, n)}
<1>3. Bad = {}
  <2> SUFFICES ASSUME Bad # {} PROVE FALSE
    OBVIOUS
  <2>1. PICK n \in Bad : \A m \in Bad : n <= m
    BY FirstOf, Bad \in SUBSET Nat, Zenon
  <2>2. n # 0
    <3>1. f[0] = <<>> /\ h[0] = <<>>
      BY <1>0, <1>1, <1>2 DEF PlacedBy
    <3>2. BothPlaced(f, h, groups, 0)
      BY <3>1, BothStart
    <3> QED BY <2>1, <3>2
  <2> DEFINE m == n - 1
  <2>3. m \in Nat /\ n = m + 1 /\ m + 1 <= Len(groups) /\ n <= Len(groups)
    BY <2>1, <2>2
  <2>4. BothPlaced(f, h, groups, m)
    <3>1. m \notin Bad
      BY <2>1, <2>3
    <3>2. m <= Len(groups)
      BY <2>3, <1>0
    <3> QED BY <3>1, <3>2, <2>3
  <2>5. f[m + 1] = GroupAt(f[m], groups, "inline", m + 1)
    BY <1>0, <1>1, <2>3 DEF PlacedBy
  <2>6. h[m + 1] = GroupAt(h[m], groups, "body", m + 1)
    BY <1>0, <1>2, <2>3 DEF PlacedBy
  <2> HIDE DEF m
  <2>7. BothPlaced(f, h, groups, m + 1)
    BY <2>3, <2>4, <2>5, <2>6, BothOn
  <2> QED BY <2>1, <2>3, <2>7
<1>4. BothPlaced(f, h, groups, Len(groups))
  BY <1>0, <1>3
<1> QED BY <1>1, <1>2, <1>4 DEF BothPlaced
-----------------------------------------------------------------------------
(* The candidates of a review: comments, and comments with body entries.   *)
Joined(s, groups) ==
  /\ s \in Seq(Group)
  /\ \E at \in [1..Len(s) -> 1..Len(groups)] :
       /\ \A k \in 1..Len(s) : s[k] = groups[at[k]] /\ s[k].place \in {"inline", "body"}
       /\ \A j, k \in 1..Len(s) : j # k => at[j] # at[k]

LEMMA FromBothJoins ==
  ASSUME NEW groups \in Seq(Group), NEW a, NEW b,
         From(a, groups, "inline", Len(groups)), From(b, groups, "body", Len(groups))
  PROVE  /\ Joined(a \o b, groups)
         /\ \A k \in 1..Len(a) : (a \o b)[k] = a[k] /\ a[k].place = "inline"
         /\ Len(a \o b) = Len(a) + Len(b)
<1>1. PICK fa \in [1..Len(a) -> 1..Len(groups)] :
        /\ \A k \in 1..Len(a) : a[k] = groups[fa[k]] /\ groups[fa[k]].place = "inline"
        /\ \A j, k \in 1..Len(a) : j # k => fa[j] # fa[k]
  BY DEF From
<1>2. PICK fb \in [1..Len(b) -> 1..Len(groups)] :
        /\ \A k \in 1..Len(b) : b[k] = groups[fb[k]] /\ groups[fb[k]].place = "body"
        /\ \A j, k \in 1..Len(b) : j # k => fb[j] # fb[k]
  BY DEF From
<1>3. a \in Seq(Group) /\ b \in Seq(Group)
  BY DEF From
<1> DEFINE s == a \o b
           n == Len(a)
           at == [k \in 1..Len(s) |-> IF k <= n THEN fa[k] ELSE fb[k - n]]
<1>4. /\ s \in Seq(Group) /\ Len(s) = n + Len(b) /\ n \in Nat /\ Len(b) \in Nat
      /\ \A k \in 1..Len(s) : s[k] = IF k <= n THEN a[k] ELSE b[k - n]
  BY <1>3
<1> HIDE DEF s, n
<1>5. \A k \in 1..Len(s) : (k <= n => k \in 1..n) /\ (~(k <= n) => k - n \in 1..Len(b))
  BY <1>4
<1>6. \A k \in 1..Len(s) : at[k] = IF k <= n THEN fa[k] ELSE fb[k - n]
  OBVIOUS
<1>7. \A k \in 1..Len(s) : k <= n =>
        s[k] = groups[at[k]] /\ groups[at[k]].place = "inline" /\ at[k] \in 1..Len(groups)
  BY <1>1, <1>4, <1>5, <1>6 DEF n
<1>8. \A k \in 1..Len(s) : ~(k <= n) =>
        s[k] = groups[at[k]] /\ groups[at[k]].place = "body" /\ at[k] \in 1..Len(groups)
  BY <1>2, <1>4, <1>5, <1>6
<1>9. at \in [1..Len(s) -> 1..Len(groups)]
  <2>1. \A k \in 1..Len(s) : at[k] \in 1..Len(groups)
    BY <1>7, <1>8
  <2> QED BY <2>1
<1>10. ASSUME NEW j \in 1..Len(s), NEW k \in 1..Len(s), j # k
       PROVE  at[j] # at[k]
  <2> HIDE DEF at
  <2>1. CASE j <= n /\ k <= n
    <3>1. at[j] = fa[j] /\ at[k] = fa[k] /\ j \in 1..n /\ k \in 1..n
      BY <2>1, <1>5, <1>6
    <3> QED BY <3>1, <1>1, <1>10 DEF n
  <2>2. CASE ~(j <= n) /\ ~(k <= n)
    <3>1. at[j] = fb[j - n] /\ at[k] = fb[k - n] /\ j - n \in 1..Len(b) /\ k - n \in 1..Len(b)
      BY <2>2, <1>5, <1>6
    <3>2. j - n # k - n
      BY <1>10, <1>4
    <3> QED BY <3>1, <3>2, <1>2
  <2>3. CASE j <= n /\ ~(k <= n)
    BY <2>3, <1>7, <1>8
  <2>4. CASE ~(j <= n) /\ k <= n
    BY <2>4, <1>7, <1>8
  <2> QED BY <2>1, <2>2, <2>3, <2>4
<1>11. \A k \in 1..Len(s) : s[k] = groups[at[k]] /\ s[k].place \in {"inline", "body"}
  BY <1>7, <1>8
<1> HIDE DEF at
<1>12. Joined(s, groups)
  BY <1>4, <1>9, <1>10, <1>11 DEF Joined
<1>13. \A k \in 1..Len(a) : s[k] = a[k] /\ a[k].place = "inline"
  <2> TAKE k \in 1..Len(a)
  <2>1. k \in 1..Len(s) /\ k <= n
    BY <1>4 DEF n
  <2> QED BY <2>1, <1>4, <1>1
<1> QED BY <1>12, <1>13, <1>4 DEF s, n

Surfaced(p, i, s) ==
  /\ i \in Seq(Group) /\ s \in Seq(Group)
  /\ Len(i) <= Len(s) /\ Len(s) <= MaxPosted
  /\ reviewed[p].failed => Len(s) = 0
  /\ \A k \in 1..Len(i) : s[k] = i[k] /\ i[k].place = "inline"
  /\ \A k \in 1..Len(s) : s[k].place \in {"inline", "body"}
  /\ Bound(p) => \A j, k \in 1..Len(s) : j # k => s[j].sources \cap s[k].sources = {}

LEMMA ReviewIsTyped ==
  ASSUME reviewed \in PostedReviews, NEW p \in Reviewed
  PROVE  /\ reviewed[p].groups \in Seq(Group) /\ reviewed[p].failed \in BOOLEAN
         /\ Len(reviewed[p].groups) <= MaxPosted /\ MaxPosted \in Nat
         /\ Bound(p) => \A i, j \in 1..Len(reviewed[p].groups) :
              i # j => reviewed[p].groups[i].sources \cap reviewed[p].groups[j].sources = {}
BY EvidenceAssumption DEF ReviewRecord, Bound

LEMMA ReviewIsSurfaced ==
  ASSUME reviewed \in PostedReviews, NEW p \in Reviewed
  PROVE  Surfaced(p, InlineOf(p), SurfaceOf(p))
<1> DEFINE groups == reviewed[p].groups
<1>1. /\ groups \in Seq(Group) /\ reviewed[p].failed \in BOOLEAN
      /\ Len(groups) <= MaxPosted /\ MaxPosted \in Nat
  BY ReviewIsTyped
<1>2. CASE reviewed[p].failed
  <2> DEFINE e == <<>>
  <2>1. InlineOf(p) = e /\ SurfaceOf(p) = e
    BY <1>2 DEF InlineOf, SurfaceOf, PostedIn
  <2>2. e \in Seq(Group) /\ Len(e) = 0
    OBVIOUS
  <2> HIDE DEF e
  <2>3. Surfaced(p, e, e)
    BY <2>2, <1>1 DEF Surfaced
  <2> QED BY <2>1, <2>3
<1>3. CASE ~reviewed[p].failed
  <2> DEFINE a == PlacedAt(groups, "inline")
             b == PlacedAt(groups, "body")
             s == a \o b
  <2>1. InlineOf(p) = a /\ SurfaceOf(p) = s
    BY <1>3 DEF InlineOf, SurfaceOf, PostedIn
  <2>2. From(a, groups, "inline", Len(groups)) /\ From(b, groups, "body", Len(groups))
        /\ Len(a) + Len(b) <= Len(groups)
    BY <1>1, BothArePlaced
  <2>3. /\ Joined(s, groups)
        /\ \A k \in 1..Len(a) : s[k] = a[k] /\ a[k].place = "inline"
        /\ Len(s) = Len(a) + Len(b)
    BY <1>1, <2>2, FromBothJoins
  <2>4. a \in Seq(Group) /\ b \in Seq(Group)
    BY <2>2 DEF From
  <2>5. Len(a) \in Nat /\ Len(b) \in Nat /\ Len(groups) \in Nat
    BY <2>4, <1>1
  <2> HIDE DEF a, b, s, groups
  <2>6. Len(a) <= Len(s) /\ Len(s) <= MaxPosted
    BY <2>2, <2>3, <2>5, <1>1
  <2>7. PICK at \in [1..Len(s) -> 1..Len(groups)] :
          /\ \A k \in 1..Len(s) : s[k] = groups[at[k]] /\ s[k].place \in {"inline", "body"}
          /\ \A j, k \in 1..Len(s) : j # k => at[j] # at[k]
    BY <2>3 DEF Joined
  <2>8. ASSUME Bound(p), NEW j \in 1..Len(s), NEW k \in 1..Len(s), j # k
        PROVE  s[j].sources \cap s[k].sources = {}
    <3>1. \A x, y \in 1..Len(groups) : x # y => groups[x].sources \cap groups[y].sources = {}
      BY <2>8, ReviewIsTyped DEF groups
    <3>2. at[j] \in 1..Len(groups) /\ at[k] \in 1..Len(groups) /\ at[j] # at[k]
      BY <2>7, <2>8
    <3> QED BY <3>1, <3>2, <2>7
  <2>9. s \in Seq(Group)
    BY <2>3 DEF Joined
  <2>10. Surfaced(p, a, s)
    BY <2>3, <2>4, <2>6, <2>7, <2>8, <2>9, <1>3 DEF Surfaced
  <2> QED BY <2>1, <2>10
<1> QED BY <1>1, <1>2, <1>3
-----------------------------------------------------------------------------
(* Candidates of a population, and what the judge makes of them.           *)
OfReview(pop, p) == {c \in Candidates(pop) : c[1] = p}
Pop(view) == Population(view)

LEMMA PopulationsAre ==
  /\ \A p \in Reviewed : Population("inline")[p] = InlineOf(p) /\ Population("all")[p] = SurfaceOf(p)
BY DEF Population

LEMMA CandidatesAre ==
  ASSUME reviewed \in PostedReviews, NEW view \in {"inline", "all"}
  PROVE  \A p, i : <<p, i>> \in Candidates(Population(view))
                     <=> p \in Reviewed /\ i \in 1..Len(Population(view)[p])
<1> SUFFICES ASSUME NEW p, NEW i
             PROVE  <<p, i>> \in Candidates(Population(view))
                      <=> p \in Reviewed /\ i \in 1..Len(Population(view)[p])
  OBVIOUS
<1>1. p \in Reviewed => Len(Population(view)[p]) <= MaxPosted /\ Len(Population(view)[p]) \in Nat /\ MaxPosted \in Nat
  BY PopulationsAre, ReviewIsSurfaced, ReviewIsTyped DEF Surfaced
<1> DEFINE n == Len(Population(view)[p])
<1>2. <<p, i>> \in Candidates(Population(view)) <=> p \in Reviewed /\ i \in 1..MaxPosted /\ i <= n
  BY DEF Candidates
<1> HIDE DEF n
<1>3. p \in Reviewed => (i \in 1..MaxPosted /\ i <= n <=> i \in 1..n)
  BY <1>1 DEF n
<1> QED BY <1>2, <1>3 DEF n

LEMMA CandidatesArePairs ==
  ASSUME NEW pop, NEW c \in Candidates(pop)
  PROVE  c = <<c[1], c[2]>> /\ c[1] \in Reviewed
BY DEF Candidates

LEMMA CandidatesAreFinite ==
  ASSUME NEW pop
  PROVE  IsFiniteSet(Candidates(pop))
<1>1. IsFiniteSet(Reviewed) /\ MaxPosted \in Nat
  BY EvidenceAssumption
<1>2. IsFiniteSet(1..MaxPosted)
  BY <1>1, FS_Interval
<1>3. IsFiniteSet(Reviewed \X (1..MaxPosted))
  BY <1>1, <1>2, FS_Product
<1> QED BY <1>3, FS_Subset DEF Candidates

JudgedFor(judged, pop) ==
  \A p \in Reviewed :
    /\ UNION judged[p].groups = 1..Len(pop[p]) /\ {} \notin judged[p].groups
    /\ \A a, b \in judged[p].groups : a = b \/ a \cap b = {}
    /\ \A b \in Golden[p] :
         /\ judged[p].winner[b] \in 0..Len(pop[p])
         /\ reviewed[p].failed => judged[p].winner[b] = 0

LEMMA JudgementsAre ==
  ASSUME reviewed \in PostedReviews, NEW view \in {"inline", "all"},
         NEW judged \in Judgements(Population(view))
  PROVE  JudgedFor(judged, Population(view))
<1> SUFFICES ASSUME NEW p \in Reviewed
             PROVE  /\ UNION judged[p].groups = 1..Len(Population(view)[p]) /\ {} \notin judged[p].groups
                    /\ \A a, b \in judged[p].groups : a = b \/ a \cap b = {}
                    /\ \A b \in Golden[p] :
                         /\ judged[p].winner[b] \in 0..Len(Population(view)[p])
                         /\ reviewed[p].failed => judged[p].winner[b] = 0
  BY DEF JudgedFor
<1> DEFINE pop == Population(view)
           n == Len(pop[p])
<1>1. judged[p] \in Answers(p, pop)
  BY DEF Judgements, JudgeAll
<1>2. n \in 0..MaxPosted
  BY PopulationsAre, ReviewIsSurfaced, ReviewIsTyped DEF Surfaced
<1>3. judged[p].groups \in Groupings[n]
      /\ judged[p].winner \in [Golden[p] -> IF reviewed[p].failed THEN {0} ELSE 0..n]
  BY <1>1 DEF Answers
<1> HIDE DEF n, pop
<1>4. Groupings[n] = {P \in SUBSET ((SUBSET (1..n)) \ {{}}) :
                        UNION P = 1..n /\ \A a, b \in P : a = b \/ a \cap b = {}}
  BY <1>2 DEF Groupings
<1> DEFINE G == judged[p].groups
<1>5. UNION G = 1..n /\ {} \notin G /\ \A a, b \in G : a = b \/ a \cap b = {}
  <2>1. G \in {P \in SUBSET ((SUBSET (1..n)) \ {{}}) :
                        UNION P = 1..n /\ \A a, b \in P : a = b \/ a \cap b = {}}
    BY <1>3, <1>4
  <2> HIDE DEF G
  <2>2. UNION G = 1..n
    BY <2>1
  <2>3. {} \notin G
    <3>1. G \in SUBSET ((SUBSET (1..n)) \ {{}})
      BY <2>1
    <3> QED BY <3>1
  <2>4. \A a, b \in G : a = b \/ a \cap b = {}
    BY <2>1
  <2> QED BY <2>2, <2>3, <2>4
<1>6. \A b \in Golden[p] : judged[p].winner[b] \in 0..n /\ (reviewed[p].failed => judged[p].winner[b] = 0)
  BY <1>2, <1>3
<1> QED BY <1>5, <1>6 DEF n, pop

LEMMA MatchesAreCandidates ==
  ASSUME reviewed \in PostedReviews, NEW view \in {"inline", "all"},
         NEW judged \in Judgements(Population(view)), NEW p \in Reviewed, NEW b \in Golden[p]
  PROVE  /\ MatchesOf(judged, b, p) \subseteq OfReview(Population(view), p)
         /\ reviewed[p].failed => MatchesOf(judged, b, p) = {}
         /\ MatchedIn(judged)[p][b] = MatchesOf(judged, b, p)
<1> DEFINE pop == Population(view)
           w == judged[p].winner[b]
           g == CHOOSE g \in judged[p].groups : w \in g
<1>1. UNION judged[p].groups = 1..Len(pop[p]) /\ w \in 0..Len(pop[p]) /\ (reviewed[p].failed => w = 0)
  BY JudgementsAre DEF JudgedFor
<1>2. CASE w = 0
  BY <1>2 DEF MatchesOf, MatchedIn
<1>3. CASE w # 0
  <2>1. w \in 1..Len(pop[p])
    BY <1>1, <1>3
  <2>2. \E h \in judged[p].groups : w \in h
    BY <1>1, <2>1
  <2>3. g \in judged[p].groups
    BY <2>2
  <2>4. MatchesOf(judged, b, p) = {<<p, i>> : i \in g}
    BY <1>3 DEF MatchesOf
  <2> HIDE DEF g, w
  <2>5. \A i \in g : i \in 1..Len(pop[p])
    BY <1>1, <2>3
  <2>6. \A i \in g : <<p, i>> \in Candidates(pop)
    BY <2>5, CandidatesAre
  <2>7. \A i \in g : <<p, i>> \in OfReview(pop, p)
    BY <2>6 DEF OfReview
  <2>8. ~reviewed[p].failed
    BY <1>1, <1>3 DEF w
  <2> QED BY <2>4, <2>7, <2>8 DEF MatchedIn
<1> QED BY <1>2, <1>3
-----------------------------------------------------------------------------
(* What is known of a candidate.                                           *)
LEMMA GroupOfCandidate ==
  ASSUME reviewed \in PostedReviews, NEW view \in {"inline", "all"}, NEW c \in Candidates(Population(view))
  PROVE  /\ c[1] \in Reviewed /\ c[2] \in 1..Len(Population(view)[c[1]])
         /\ Population(view)[c[1]][c[2]] \in Group
         /\ c[2] \in 1..Len(SurfaceOf(c[1]))
         /\ Population(view)[c[1]][c[2]] = SurfaceOf(c[1])[c[2]]
         /\ view = "inline" => SurfaceOf(c[1])[c[2]].place = "inline"
<1> DEFINE p == c[1]
           k == c[2]
           i == InlineOf(p)
           s == SurfaceOf(p)
<1>1. c = <<p, k>> /\ p \in Reviewed
  BY CandidatesArePairs
<1>2. k \in 1..Len(Population(view)[p])
  BY <1>1, CandidatesAre
<1>3. Surfaced(p, i, s)
  BY <1>1, ReviewIsSurfaced
<1>4. Population("inline")[p] = i /\ Population("all")[p] = s
  BY <1>1, PopulationsAre
<1> HIDE DEF i, s, p, k
<1>5. CASE view = "inline"
  <2>1. k \in 1..Len(i) /\ i \in Seq(Group) /\ s \in Seq(Group)
    BY <1>2, <1>3, <1>4, <1>5 DEF Surfaced
  <2>2. s[k] = i[k] /\ i[k].place = "inline" /\ Len(i) <= Len(s)
    BY <2>1, <1>3 DEF Surfaced
  <2>3. Len(i) \in Nat /\ Len(s) \in Nat
    BY <2>1
  <2>4. k \in 1..Len(s)
    BY <2>1, <2>2, <2>3
  <2>5. i[k] \in Group
    BY <2>1
  <2> QED BY <1>1, <1>2, <1>4, <1>5, <2>2, <2>4, <2>5 DEF i, s, p, k
<1>6. CASE view = "all"
  <2>1. k \in 1..Len(s) /\ s \in Seq(Group)
    BY <1>2, <1>3, <1>4, <1>6 DEF Surfaced
  <2>2. s[k] \in Group
    BY <2>1
  <2> QED BY <1>1, <1>2, <1>4, <1>6, <2>1, <2>2 DEF i, s, p, k
<1> QED BY <1>5, <1>6

LEMMA SourcesOfCandidate ==
  ASSUME reviewed \in PostedReviews, NEW view \in {"inline", "all"}, NEW c \in Candidates(Population(view))
  PROVE  /\ SourcesAt(Population(view), c) # {} /\ IsFiniteSet(SourcesAt(Population(view), c))
         /\ SourcesAt(Population(view), c) = SurfaceOf(c[1])[c[2]].sources
         /\ IssueOf(Population(view), c) = IF Bound(c[1]) THEN SourcesAt(Population(view), c) ELSE {}
<1> DEFINE g == Population(view)[c[1]][c[2]]
<1>1. g \in Group /\ g = SurfaceOf(c[1])[c[2]]
  BY GroupOfCandidate
<1>2. SourcesAt(Population(view), c) = g.sources
  BY DEF SourcesAt
<1>3. IssueOf(Population(view), c) = IF Bound(c[1]) THEN g.sources ELSE {}
  BY DEF IssueOf, SourcesOf
<1> HIDE DEF g
<1>4. g.sources \in (SUBSET DOMAIN Producer) \ {{}}
  BY <1>1 DEF Group
<1>5. IsFiniteSet(DOMAIN Producer)
  BY EvidenceAssumption
<1>6. IsFiniteSet(g.sources)
  BY <1>4, <1>5, FS_Subset
<1> QED BY <1>1, <1>2, <1>3, <1>4, <1>6

LEMMA CandidatesApart ==
  ASSUME reviewed \in PostedReviews, NEW view \in {"inline", "all"}, NEW p \in Reviewed, Bound(p)
  PROVE  Apart(Population(view), OfReview(Population(view), p))
<1> DEFINE pop == Population(view)
           s == SurfaceOf(p)
<1> SUFFICES ASSUME NEW c \in OfReview(pop, p), NEW e \in OfReview(pop, p), c # e
             PROVE  SourcesAt(pop, c) \cap SourcesAt(pop, e) = {}
  BY DEF Apart
<1>1. c \in Candidates(pop) /\ e \in Candidates(pop) /\ c[1] = p /\ e[1] = p
  BY DEF OfReview
<1>2. c = <<p, c[2]>> /\ e = <<p, e[2]>>
  BY <1>1, CandidatesArePairs
<1>3. c[2] # e[2]
  BY <1>2
<1>4. c[2] \in 1..Len(s) /\ e[2] \in 1..Len(s)
  BY <1>1, GroupOfCandidate
<1>5. SourcesAt(pop, c) = s[c[2]].sources /\ SourcesAt(pop, e) = s[e[2]].sources
  BY <1>1, SourcesOfCandidate
<1>6. \A j, k \in 1..Len(s) : j # k => s[j].sources \cap s[k].sources = {}
  BY ReviewIsSurfaced DEF Surfaced
<1> HIDE DEF s, pop
<1> QED BY <1>3, <1>4, <1>5, <1>6

(* What matched are candidates of the review, none of one that failed.     *)
Matched(pop, matches) ==
  \A p \in Reviewed :
    /\ DOMAIN matches[p] = Golden[p]
    /\ \A b \in Golden[p] :
         /\ matches[p][b] \subseteq OfReview(pop, p)
         /\ reviewed[p].failed => matches[p][b] = {}

LEMMA CreditedAre ==
  ASSUME NEW matches, \A p \in Reviewed : DOMAIN matches[p] = Golden[p]
  PROVE  \A c : c \in CreditedIn(matches) <=> \E p \in Reviewed : \E b \in Golden[p] : c \in matches[p][b]
BY DEF CreditedIn, Range

LEMMA SortedOut ==
  ASSUME NEW pop, NEW view, Matched(pop, view.matches), DOMAIN view.verdicts = Unmatched(pop, view.matches)
  PROVE  AllSorted(pop, view)
<1>1. ASSUME NEW c \in CreditedIn(view.matches)
      PROVE  c \in Candidates(pop) /\ ~reviewed[c[1]].failed
  <2>0. \A p \in Reviewed : DOMAIN view.matches[p] = Golden[p]
    BY DEF Matched
  <2>1. PICK p \in Reviewed : \E b \in Golden[p] : c \in view.matches[p][b]
    BY <1>1, <2>0, CreditedAre
  <2>2. PICK b \in Golden[p] : c \in view.matches[p][b]
    BY <2>1
  <2>3. c \in OfReview(pop, p) /\ ~reviewed[p].failed
    BY <2>2 DEF Matched
  <2> QED BY <2>3 DEF OfReview
<1>2. CreditedIn(view.matches) \subseteq {c \in Candidates(pop) : ~reviewed[c[1]].failed}
  BY <1>1
<1> QED BY <1>2 DEF AllSorted, Unmatched

InlineMatched(said) ==
  \E judged \in Judgements(Population("inline")) : said.matches = MatchedIn(judged)

LEMMA InlineIsMatched ==
  ASSUME reviewed \in PostedReviews, InlineMatched(inlineScore)
  PROVE  Matched(Population("inline"), inlineScore.matches)
<1>1. PICK judged \in Judgements(Population("inline")) : inlineScore.matches = MatchedIn(judged)
  BY DEF InlineMatched
<1>2. \A p \in Reviewed : DOMAIN MatchedIn(judged)[p] = Golden[p]
  BY DEF MatchedIn
<1>3. \A p \in Reviewed : \A b \in Golden[p] :
        /\ MatchedIn(judged)[p][b] \subseteq OfReview(Population("inline"), p)
        /\ reviewed[p].failed => MatchedIn(judged)[p][b] = {}
  BY MatchesAreCandidates
<1> QED BY <1>1, <1>2, <1>3 DEF Matched
-----------------------------------------------------------------------------
(* Origins.                                                                *)
LEMMA KnownWhenBound ==
  ASSUME reviewed \in PostedReviews, NEW c \in Candidates(Population("inline"))
  PROVE  IssueOf(Population("inline"), c) # {} <=> Bound(c[1])
BY SourcesOfCandidate

LEMMA IssuesOfBound ==
  ASSUME reviewed \in PostedReviews, NEW p \in Reviewed,
         \A c \in OfReview(Population("inline"), p) : IssueOf(Population("inline"), c) # {}
  PROVE  /\ {IssueOf(Population("inline"), c) : c \in OfReview(Population("inline"), p)}
              = {SourcesAt(Population("inline"), c) : c \in OfReview(Population("inline"), p)}
         /\ IsFiniteSet(OfReview(Population("inline"), p))
         /\ Apart(Population("inline"), OfReview(Population("inline"), p))
         /\ \A c \in OfReview(Population("inline"), p) :
              SourcesAt(Population("inline"), c) # {} /\ IsFiniteSet(SourcesAt(Population("inline"), c))
<1> DEFINE pop == Population("inline")
           D == OfReview(pop, p)
<1>1. D \subseteq Candidates(pop) /\ \A c \in D : c[1] = p
  BY DEF OfReview
<1>2. IsFiniteSet(D)
  BY <1>1, CandidatesAreFinite, FS_Subset
<1>3. \A c \in D : Bound(p)
  BY <1>1, KnownWhenBound
<1>4. \A c \in D : SourcesAt(pop, c) # {} /\ IsFiniteSet(SourcesAt(pop, c))
  BY <1>1, SourcesOfCandidate
<1>5. \A c \in D : IssueOf(pop, c) = SourcesAt(pop, c)
  BY <1>1, <1>3, SourcesOfCandidate
<1>6. Apart(pop, D)
  <2>1. CASE D = {}
    BY <2>1 DEF Apart
  <2>2. CASE D # {}
    <3>1. Bound(p)
      BY <2>2, <1>3
    <3> QED BY <3>1, CandidatesApart
  <2> QED BY <2>1, <2>2
<1> HIDE DEF D, pop
<1>7. {IssueOf(pop, c) : c \in D} = {SourcesAt(pop, c) : c \in D}
  BY <1>5
<1> QED BY <1>2, <1>4, <1>6, <1>7 DEF D, pop

IssuesOf(pop, D) == {IssueOf(pop, c) : c \in D}
KnownTo(pop, D) == \A c \in D : IssueOf(pop, c) # {}
TracedTo(pop, D) == KnownTo(pop, D) /\ \A c \in D : "unknown" \notin OriginOf(pop, c)

LEMMA BurdenIs ==
  ASSUME NEW pop, NEW D
  PROVE  /\ Burden(pop, D).known = KnownTo(pop, D) /\ Burden(pop, D).traced = TracedTo(pop, D)
         /\ Burden(pop, D).records = Cardinality(D)
         /\ KnownTo(pop, D) => Burden(pop, D).issues = Cardinality(IssuesOf(pop, D))
         /\ TracedTo(pop, D) => Burden(pop, D).sources = Cardinality(UNION IssuesOf(pop, D))
BY DEF Burden, KnownTo, TracedTo, IssuesOf

LEMMA BurdenIsTold ==
  ASSUME reviewed \in PostedReviews, NEW p \in Reviewed
  PROVE  LET pop == Population("inline")
             D == OfReview(pop, p)
         IN /\ Burden(pop, D).known => Burden(pop, D).issues = Burden(pop, D).records
            /\ Burden(pop, D).traced => Burden(pop, D).sources = SumOver(pop, D)
<1> DEFINE pop == Population("inline")
           D == OfReview(pop, p)
<1>1. KnownTo(pop, D) =>
        /\ IssuesOf(pop, D) = {SourcesAt(pop, c) : c \in D}
        /\ IsFiniteSet(D) /\ Apart(pop, D)
        /\ \A c \in D : SourcesAt(pop, c) # {} /\ IsFiniteSet(SourcesAt(pop, c))
  BY IssuesOfBound DEF KnownTo, IssuesOf
<1> HIDE DEF D, pop
<1>2. KnownTo(pop, D) => Cardinality(IssuesOf(pop, D)) = Cardinality(D)
  BY <1>1, IssuesAreCounted
<1>3. KnownTo(pop, D) => SumOver(pop, D) = Cardinality(AllSources(pop, D))
  BY <1>1, SumOfSources
<1>4. KnownTo(pop, D) => UNION IssuesOf(pop, D) = AllSources(pop, D)
  BY <1>1 DEF AllSources
<1>5. TracedTo(pop, D) => KnownTo(pop, D)
  BY DEF TracedTo
<1>6. /\ Burden(pop, D).known => Burden(pop, D).issues = Burden(pop, D).records
      /\ Burden(pop, D).traced => Burden(pop, D).sources = SumOver(pop, D)
  BY <1>2, <1>3, <1>4, <1>5, BurdenIs
<1> QED BY <1>6 DEF D, pop

LEMMA CreditIsTold ==
  ASSUME reviewed \in PostedReviews, InlineMatched(inlineScore), RecallKnown,
         NEW p \in Reviewed, NEW b \in Golden[p], inlineScore.matches[p][b] # {}
  PROVE  CreditedTo(p, b) # {}
<1> DEFINE pop == Population("inline")
<1>1. PICK m \in inlineScore.matches[p][b] : TRUE
  OBVIOUS
<1>2. m \in OfReview(pop, p)
  BY <1>1, InlineIsMatched DEF Matched
<1>3. m \in Candidates(pop) /\ m[1] = p
  BY <1>2 DEF OfReview
<1>4. Bound(p)
  BY <1>3 DEF RecallKnown
<1>5. SourcesAt(pop, m) # {}
  BY <1>3, SourcesOfCandidate
<1>6. OriginOf(pop, m) = {Producer[s] : s \in SourcesAt(pop, m)}
  BY <1>3, <1>4 DEF OriginOf, DimensionsOf, SourcesAt
<1>7. OriginOf(pop, m) # {}
  BY <1>5, <1>6
<1> HIDE DEF pop
<1>8. OriginOf(pop, m) \subseteq CreditedTo(p, b)
  BY <1>1, <1>4 DEF CreditedTo, pop
<1> QED BY <1>7, <1>8

LEMMA OriginsHold ==
  ASSUME reviewed \in PostedReviews, InlineMatched(inlineScore)
  PROVE  OriginsAreTold
<1> DEFINE pop == Population("inline")
<1>1. (\A p \in Reviewed : Burden(pop, OfReview(pop, p)).known) <=> RecallKnown
  <2>1. \A p \in Reviewed : Burden(pop, OfReview(pop, p)).known <=> KnownTo(pop, OfReview(pop, p))
    BY BurdenIs
  <2>2. \A c \in Candidates(pop) : c[1] \in Reviewed /\ c \in OfReview(pop, c[1])
    BY CandidatesArePairs DEF OfReview
  <2>3. \A p \in Reviewed : \A c \in OfReview(pop, p) : c \in Candidates(pop)
    BY DEF OfReview
  <2>4. \A c \in Candidates(pop) : IssueOf(pop, c) # {} <=> Bound(c[1])
    BY KnownWhenBound
  <2> QED BY <2>1, <2>2, <2>3, <2>4 DEF KnownTo, RecallKnown
<1>2. \A p \in Reviewed :
        /\ Burden(pop, OfReview(pop, p)).known => Burden(pop, OfReview(pop, p)).issues = Burden(pop, OfReview(pop, p)).records
        /\ Burden(pop, OfReview(pop, p)).traced => Burden(pop, OfReview(pop, p)).sources = SumOver(pop, OfReview(pop, p))
  BY BurdenIsTold
<1>3. RecallKnown =>
        \A p \in Reviewed : \A b \in Golden[p] : inlineScore.matches[p][b] # {} => CreditedTo(p, b) # {}
  BY CreditIsTold
<1> QED BY <1>1, <1>2, <1>3 DEF OriginsAreTold, OfReview, SumOver
-----------------------------------------------------------------------------
(* The view of all surfaces.                                               *)
SurfaceMatched(view) ==
  \E judged \in Judgements(Population("all")) :
    /\ view.judged = judged
    /\ view.matches = [p \in Reviewed |-> [b \in Golden[p] |-> Carried(MatchedIn(judged)[p][b], p, b)]]

LEMMA CarriedAre ==
  ASSUME NEW judged \in Judgements(Population("all")), reviewed \in PostedReviews,
         NEW p \in Reviewed, NEW b \in Golden[p]
  PROVE  Carried(MatchedIn(judged)[p][b], p, b) \subseteq OfReview(Population("all"), p)
<1>1. MatchedIn(judged)[p][b] \subseteq OfReview(Population("all"), p)
  BY MatchesAreCandidates
<1> QED BY <1>1 DEF Carried, OfReview

LEMMA NoneOfFailed ==
  ASSUME reviewed \in PostedReviews, NEW p \in Reviewed, reviewed[p].failed
  PROVE  OfReview(Population("all"), p) = {}
<1> SUFFICES ASSUME NEW c \in OfReview(Population("all"), p) PROVE FALSE
  OBVIOUS
<1>1. c \in Candidates(Population("all")) /\ c[1] = p
  BY DEF OfReview
<1>2. c[2] \in 1..Len(SurfaceOf(p))
  BY <1>1, GroupOfCandidate
<1>3. Len(SurfaceOf(p)) = 0
  BY ReviewIsSurfaced DEF Surfaced
<1> QED BY <1>2, <1>3

LEMMA SurfaceIsMatched ==
  ASSUME reviewed \in PostedReviews, SurfaceMatched(surfaceView)
  PROVE  Matched(Population("all"), surfaceView.matches)
<1>1. PICK judged \in Judgements(Population("all")) :
        surfaceView.matches = [p \in Reviewed |-> [b \in Golden[p] |-> Carried(MatchedIn(judged)[p][b], p, b)]]
  BY DEF SurfaceMatched
<1>2. \A p \in Reviewed : \A b \in Golden[p] :
        surfaceView.matches[p][b] = Carried(MatchedIn(judged)[p][b], p, b)
  BY <1>1
<1>3. \A p \in Reviewed : DOMAIN surfaceView.matches[p] = Golden[p]
  BY <1>1
<1>4. \A p \in Reviewed : \A b \in Golden[p] :
        surfaceView.matches[p][b] \subseteq OfReview(Population("all"), p)
  BY <1>2, CarriedAre
<1>5. \A p \in Reviewed : reviewed[p].failed => OfReview(Population("all"), p) = {}
  BY NoneOfFailed
<1> QED BY <1>3, <1>4, <1>5 DEF Matched

LEMMA CommentsStay ==
  ASSUME reviewed \in PostedReviews, NEW m \in Candidates(Population("inline"))
  PROVE  /\ m \in Candidates(Population("all"))
         /\ IssueOf(Population("inline"), m) = IssueOf(Population("all"), m)
         /\ PlaceOf(Population("all"), m) = "inline"
<1>1. /\ m[1] \in Reviewed /\ m[2] \in 1..Len(SurfaceOf(m[1]))
      /\ Population("inline")[m[1]][m[2]] = SurfaceOf(m[1])[m[2]]
      /\ SurfaceOf(m[1])[m[2]].place = "inline"
  BY GroupOfCandidate
<1>2. m = <<m[1], m[2]>>
  BY CandidatesArePairs
<1>3. Population("all")[m[1]] = SurfaceOf(m[1])
  BY <1>1, PopulationsAre
<1>4. <<m[1], m[2]>> \in Candidates(Population("all"))
  BY <1>1, <1>3, CandidatesAre
<1> QED BY <1>1, <1>2, <1>3, <1>4 DEF IssueOf, PlaceOf

LEMMA HitsAreKept ==
  ASSUME reviewed \in PostedReviews, InlineMatched(inlineScore), SurfaceMatched(surfaceView),
         NEW p \in Reviewed, NEW b \in Golden[p], NEW m \in inlineScore.matches[p][b]
  PROVE  m \in surfaceView.matches[p][b] /\ PlaceOf(Population("all"), m) = "inline"
<1>1. m \in Candidates(Population("inline")) /\ m[1] = p
  <2>1. m \in OfReview(Population("inline"), p)
    BY InlineIsMatched DEF Matched
  <2> QED BY <2>1 DEF OfReview
<1>2. /\ m \in Candidates(Population("all"))
      /\ IssueOf(Population("inline"), m) = IssueOf(Population("all"), m)
      /\ PlaceOf(Population("all"), m) = "inline"
  BY <1>1, CommentsStay
<1>3. PICK judged \in Judgements(Population("all")) :
        surfaceView.matches = [q \in Reviewed |-> [a \in Golden[q] |-> Carried(MatchedIn(judged)[q][a], q, a)]]
  BY DEF SurfaceMatched
<1>4. surfaceView.matches[p][b] = Carried(MatchedIn(judged)[p][b], p, b)
  BY <1>3
<1>5. m \in Carried(MatchedIn(judged)[p][b], p, b)
  BY <1>1, <1>2 DEF Carried
<1> QED BY <1>2, <1>4, <1>5

LEMMA PlacesAre ==
  ASSUME reviewed \in PostedReviews, NEW c \in Candidates(Population("all"))
  PROVE  PlaceOf(Population("all"), c) \in {"inline", "body"}
<1>1. /\ c[1] \in Reviewed /\ c[2] \in 1..Len(SurfaceOf(c[1]))
      /\ Population("all")[c[1]][c[2]] = SurfaceOf(c[1])[c[2]]
  BY GroupOfCandidate
<1>2. SurfaceOf(c[1])[c[2]].place \in {"inline", "body"}
  BY <1>1, ReviewIsSurfaced DEF Surfaced
<1> QED BY <1>1, <1>2 DEF PlaceOf

LEMMA WantedAre ==
  ASSUME reviewed \in PostedReviews
  PROVE  /\ Wanted("all") = Candidates(Population("all"))
         /\ Wanted("inline") \cup Wanted("body") = Wanted("all")
         /\ Wanted("inline") \cap Wanted("body") = {}
         /\ \A c \in Candidates(Population("all")) :
              c \in Wanted("inline") <=> PlaceOf(Population("all"), c) = "inline"
<1> DEFINE C == Candidates(Population("all"))
           P(c) == PlaceOf(Population("all"), c)
<1>1. /\ Wanted("all") = {c \in C : "all" = "all" \/ P(c) = "all"}
      /\ Wanted("inline") = {c \in C : "inline" = "all" \/ P(c) = "inline"}
      /\ Wanted("body") = {c \in C : "body" = "all" \/ P(c) = "body"}
  BY DEF Wanted
<1>2. \A c \in C : P(c) \in {"inline", "body"}
  BY PlacesAre
<1> HIDE DEF C, P
<1>3. Wanted("all") = C /\ Wanted("inline") = {c \in C : P(c) = "inline"} /\ Wanted("body") = {c \in C : P(c) = "body"}
  BY <1>1
<1>4. /\ Wanted("inline") \cup Wanted("body") = C
      /\ Wanted("inline") \cap Wanted("body") = {}
      /\ \A c \in C : c \in Wanted("inline") <=> P(c) = "inline"
  BY <1>2, <1>3
<1> QED BY <1>3, <1>4 DEF C, P

(* A bug of one review is of no other.                                     *)
LEMMA BugsApart ==
  ASSUME NEW p \in Reviewed, NEW q \in Reviewed, NEW b, b \in Golden[p], b \in Golden[q]
  PROVE  p = q
BY EvidenceAssumption

LEMMA SoleAre ==
  ASSUME NEW place, NEW p \in Reviewed, NEW b \in Golden[p], b \in SoleOf(place)
  PROVE  surfaceView.matches[p][b] # {} /\ surfaceView.matches[p][b] \subseteq Wanted(place)
<1>1. PICK q \in Reviewed : b \in SoleMatches(q, Wanted(place))
  BY DEF SoleOf
<1>2. b \in Golden[q] /\ surfaceView.matches[q][b] # {} /\ surfaceView.matches[q][b] \subseteq Wanted(place)
  BY <1>1 DEF SoleMatches
<1>3. p = q
  BY <1>2, BugsApart
<1> QED BY <1>2, <1>3

LEMMA SoleOfKnown ==
  ASSUME NEW place, NEW b \in SoleOf(place)
  PROVE  \E p \in Reviewed : b \in Golden[p]
BY DEF SoleOf, SoleMatches

LEMMA BodyHitsWereMissed ==
  ASSUME reviewed \in PostedReviews, InlineMatched(inlineScore), SurfaceMatched(surfaceView),
         NEW p \in Reviewed, NEW b \in Golden[p]
  PROVE  /\ inlineScore.matches[p][b] # {} => surfaceView.matches[p][b] # {}
         /\ b \in SoleOf("body") => inlineScore.matches[p][b] = {}
<1>1. inlineScore.matches[p][b] # {} => surfaceView.matches[p][b] # {}
  BY HitsAreKept
<1>2. ASSUME b \in SoleOf("body"), NEW m \in inlineScore.matches[p][b]
      PROVE  FALSE
  <2>1. m \in surfaceView.matches[p][b] /\ PlaceOf(Population("all"), m) = "inline"
    BY HitsAreKept
  <2>2. m \in Wanted("body")
    BY <1>2, <2>1, SoleAre
  <2>3. m \in Wanted("inline")
    BY <2>1, <2>2, WantedAre
  <2> QED BY <2>2, <2>3, WantedAre
<1> QED BY <1>1, <1>2
LEMMA MatchesAreWanted ==
  ASSUME reviewed \in PostedReviews, SurfaceMatched(surfaceView), NEW p \in Reviewed, NEW b \in Golden[p]
  PROVE  surfaceView.matches[p][b] \subseteq Wanted("inline") \cup Wanted("body")
<1>1. surfaceView.matches[p][b] \subseteq OfReview(Population("all"), p)
  BY SurfaceIsMatched DEF Matched
<1>2. Wanted("inline") \cup Wanted("body") = Candidates(Population("all"))
  BY WantedAre
<1> QED BY <1>1, <1>2 DEF OfReview

LEMMA HitsAre ==
  ASSUME NEW wanted, NEW p \in Reviewed, NEW b \in Golden[p]
  PROVE  b \in Hits(surfaceView.matches, wanted)
           <=> b \in CoreGolden /\ surfaceView.matches[p][b] \cap wanted # {}
<1>1. \A q \in Reviewed : b \in Golden[q] => q = p
  BY BugsApart
<1> QED BY <1>1 DEF Hits

LEMMA SoleAreHits ==
  ASSUME NEW place, NEW p \in Reviewed, NEW b \in Golden[p]
  PROVE  b \in SoleOf(place)
           <=> surfaceView.matches[p][b] # {} /\ surfaceView.matches[p][b] \subseteq Wanted(place)
<1>1. surfaceView.matches[p][b] # {} /\ surfaceView.matches[p][b] \subseteq Wanted(place) => b \in SoleOf(place)
  BY DEF SoleOf, SoleMatches
<1> QED BY <1>1, SoleAre

LEMMA HitsDivide ==
  ASSUME reviewed \in PostedReviews, SurfaceMatched(surfaceView)
  PROVE  LET shared == Hits(surfaceView.matches, Wanted("inline")) \cap Hits(surfaceView.matches, Wanted("body"))
         IN /\ Precision("all").tp = shared \cup ((SoleOf("inline") \cup SoleOf("body")) \cap CoreGolden)
            /\ shared \cap (SoleOf("inline") \cup SoleOf("body")) = {}
            /\ SoleOf("inline") \cap SoleOf("body") = {}
<1> DEFINE H(w) == Hits(surfaceView.matches, Wanted(w))
           Known(b) == \E p \in Reviewed : b \in Golden[p]
<1>1. \A b : b \in H("inline") \/ b \in H("body") \/ b \in H("all") => Known(b)
  BY DEF Hits
<1>2. \A b : b \in SoleOf("inline") \/ b \in SoleOf("body") => Known(b)
  BY SoleOfKnown
<1>3. ASSUME NEW b, Known(b)
      PROVE  /\ b \in H("all") <=> \/ b \in H("inline") /\ b \in H("body")
                                   \/ b \in SoleOf("inline") /\ b \in CoreGolden
                                   \/ b \in SoleOf("body") /\ b \in CoreGolden
             /\ ~(b \in H("inline") /\ b \in H("body") /\ (b \in SoleOf("inline") \/ b \in SoleOf("body")))
             /\ ~(b \in SoleOf("inline") /\ b \in SoleOf("body"))
  <2>1. PICK p \in Reviewed : b \in Golden[p]
    BY <1>3
  <2> DEFINE m == surfaceView.matches[p][b]
             I == Wanted("inline")
             B == Wanted("body")
             A == Wanted("all")
  <2>2. m \subseteq I \cup B /\ I \cup B = A /\ I \cap B = {}
    BY <2>1, MatchesAreWanted, WantedAre
  <2>3. /\ b \in H("all") <=> b \in CoreGolden /\ m \cap A # {}
        /\ b \in H("inline") <=> b \in CoreGolden /\ m \cap I # {}
        /\ b \in H("body") <=> b \in CoreGolden /\ m \cap B # {}
    BY <2>1, HitsAre
  <2>4. /\ b \in SoleOf("inline") <=> m # {} /\ m \subseteq I
        /\ b \in SoleOf("body") <=> m # {} /\ m \subseteq B
    BY <2>1, SoleAreHits
  <2> HIDE DEF m, I, B, A, H
  <2>5. m \cap A # {} <=> m # {}
    BY <2>2
  <2>6. m # {} /\ m \subseteq I <=> m \cap I # {} /\ m \cap B = {}
    BY <2>2
  <2>7. m # {} /\ m \subseteq B <=> m \cap B # {} /\ m \cap I = {}
    BY <2>2
  <2>8. m # {} <=> m \cap I # {} \/ m \cap B # {}
    BY <2>2
  <2> QED BY <2>3, <2>4, <2>5, <2>6, <2>7, <2>8
<1>4. H("all") = (H("inline") \cap H("body")) \cup ((SoleOf("inline") \cup SoleOf("body")) \cap CoreGolden)
  <2> HIDE DEF H, Known
  <2>1. \A b : b \in H("all") <=> \/ b \in H("inline") /\ b \in H("body")
                                  \/ (b \in SoleOf("inline") \/ b \in SoleOf("body")) /\ b \in CoreGolden
    BY <1>1, <1>2, <1>3
  <2> QED BY <2>1
<1>5. (H("inline") \cap H("body")) \cap (SoleOf("inline") \cup SoleOf("body")) = {}
  <2> HIDE DEF H, Known
  <2> QED BY <1>2, <1>3
<1>6. SoleOf("inline") \cap SoleOf("body") = {}
  <2> HIDE DEF H, Known
  <2> QED BY <1>2, <1>3
<1>7. Precision("all").tp = H("all")
  BY DEF Precision
<1> QED BY <1>4, <1>5, <1>6, <1>7

LEMMA FalseDivide ==
  ASSUME reviewed \in PostedReviews
  PROVE  FalseGroups(surfaceView, Wanted("inline")) \cup FalseGroups(surfaceView, Wanted("body"))
           = FalseGroups(surfaceView, Wanted("all"))
<1> DEFINE I == Wanted("inline")
           B == Wanted("body")
           A == Wanted("all")
<1>1. I \cup B = A
  BY WantedAre
<1> HIDE DEF I, B, A
<1>2. \A g : g \cap A # {} <=> g \cap I # {} \/ g \cap B # {}
  BY <1>1
<1>3. FalseGroups(surfaceView, I) \cup FalseGroups(surfaceView, B) = FalseGroups(surfaceView, A)
  BY <1>2 DEF FalseGroups
<1> QED BY <1>3 DEF I, B, A

LEMMA GroupsAre ==
  ASSUME reviewed \in PostedReviews, SurfaceMatched(surfaceView)
  PROVE  \A g \in Groups(surfaceView) : g # {} /\ g \subseteq Candidates(Population("all"))
<1> SUFFICES ASSUME NEW g \in Groups(surfaceView)
             PROVE  g # {} /\ g \subseteq Candidates(Population("all"))
  OBVIOUS
<1>1. PICK judged \in Judgements(Population("all")) : surfaceView.judged = judged
  BY DEF SurfaceMatched
<1>2. PICK p \in Reviewed : g \in {{<<p, i>> : i \in h} : h \in judged[p].groups}
  BY <1>1 DEF Groups
<1>3. PICK h \in judged[p].groups : g = {<<p, i>> : i \in h}
  BY <1>2
<1>4. UNION judged[p].groups = 1..Len(Population("all")[p]) /\ {} \notin judged[p].groups
  BY JudgementsAre DEF JudgedFor
<1>5. h # {} /\ h \subseteq 1..Len(Population("all")[p])
  BY <1>3, <1>4
<1>6. \A i \in h : <<p, i>> \in Candidates(Population("all"))
  BY <1>5, CandidatesAre
<1> QED BY <1>3, <1>5, <1>6

LEMMA GroupsAreCounted ==
  ASSUME reviewed \in PostedReviews, SurfaceMatched(surfaceView)
  PROVE  Precision("all").fp + Cardinality({g \in Groups(surfaceView) : g \cap CreditedIn(surfaceView.matches) # {}})
           = Cardinality(Groups(surfaceView))
<1> DEFINE G == Groups(surfaceView)
           K == CreditedIn(surfaceView.matches)
           C == Candidates(Population("all"))
           F == FalseGroups(surfaceView, Wanted("all"))
           T == {g \in G : g \cap K # {}}
<1>1. \A g \in G : g # {} /\ g \subseteq C
  BY GroupsAre
<1>2. Wanted("all") = C
  BY WantedAre
<1>3. F = {g \in G : g \cap C # {} /\ g \cap K = {}}
  BY <1>2 DEF FalseGroups
<1>4. IsFiniteSet(C)
  BY CandidatesAreFinite
<1>5. Precision("all").fp = Cardinality(F)
  BY DEF Precision
<1> HIDE DEF G, K, C, F
<1>6. IsFiniteSet(SUBSET C)
  BY <1>4, FS_SUBSET
<1>7. IsFiniteSet(G)
  <2>1. G \in SUBSET SUBSET C
    BY <1>1
  <2> QED BY <2>1, <1>6, FS_Subset
<1>8. F \in SUBSET G /\ T \in SUBSET G
  BY <1>3
<1>9. F \cap T = {} /\ F \cup T = G
  BY <1>1, <1>3
<1> HIDE DEF T
<1>10. IsFiniteSet(F) /\ IsFiniteSet(T)
  BY <1>7, <1>8, FS_Subset
<1>11. Cardinality(F \cup T) = Cardinality(F) + Cardinality(T)
  BY <1>9, <1>10, SourcesJoin
<1>12. Cardinality(G) = Cardinality(F) + Cardinality(T)
  BY <1>9, <1>11
<1> QED BY <1>5, <1>12 DEF G, T, K

LEMMA SoleByAre ==
  ASSUME NEW d, NEW p \in Reviewed, NEW b \in Golden[p], b \in SoleBy(d)
  PROVE  /\ surfaceView.matches[p][b] # {}
         /\ \A c \in surfaceView.matches[p][b] : OriginOf(Population("all"), c) = {d}
<1>1. PICK q \in Reviewed : b \in SoleMatches(q, {c \in Candidates(Population("all")) : OriginOf(Population("all"), c) = {d}})
  BY DEF SoleBy
<1>2. /\ b \in Golden[q] /\ surfaceView.matches[q][b] # {}
      /\ surfaceView.matches[q][b] \subseteq {c \in Candidates(Population("all")) : OriginOf(Population("all"), c) = {d}}
  BY <1>1 DEF SoleMatches
<1>3. p = q
  BY <1>2, BugsApart
<1> QED BY <1>2, <1>3

LEMMA OriginsDivide ==
  ASSUME NEW d, NEW e, d # e
  PROVE  SoleBy(d) \cap SoleBy(e) = {}
<1> SUFFICES ASSUME NEW b \in SoleBy(d), b \in SoleBy(e) PROVE FALSE
  OBVIOUS
<1>1. PICK p \in Reviewed : b \in Golden[p]
  BY DEF SoleBy, SoleMatches
<1>2. PICK c \in surfaceView.matches[p][b] : TRUE
  BY <1>1, SoleByAre
<1>3. OriginOf(Population("all"), c) = {d} /\ OriginOf(Population("all"), c) = {e}
  BY <1>1, <1>2, SoleByAre
<1> QED BY <1>3

LEMMA SurfacesHold ==
  ASSUME reviewed \in PostedReviews, InlineMatched(inlineScore), SurfaceMatched(surfaceView)
  PROVE  SurfacesAddUp
BY BodyHitsWereMissed, HitsDivide, FalseDivide, GroupsAreCounted, OriginsDivide DEF SurfacesAddUp
-----------------------------------------------------------------------------
(* The invariant: what is judged is a judgement of what was posted.        *)
ScoreJudged(said) ==
  \E judged \in Judgements(Population("inline")) :
    said = [kind |-> "judged", judged |-> judged, matches |-> MatchedIn(judged), verdicts |-> said.verdicts]
Viewed(view) ==
  /\ SurfaceIsKnown /\ SurfaceMatched(view)
  /\ DOMAIN view.verdicts = Unmatched(Population("all"), view.matches)
InlineSorted(said) == DOMAIN said.verdicts = Unmatched(Population("inline"), said.matches)

EvidenceInv ==
  /\ reviewed \in PostedReviews
  /\ packet \in {"judged", "sorted", "viewed", "published"} => ScoreJudged(inlineScore)
  /\ packet \in {"sorted", "viewed", "published"} => InlineSorted(inlineScore)
  /\ packet \in {"assembled", "judged", "sorted"} => surfaceView = Unjudged
  /\ packet \in {"viewed", "published"} /\ surfaceView # Unjudged => Viewed(surfaceView)

LEMMA PopulationStays ==
  ASSUME reviewed' = reviewed
  PROVE  /\ Population("inline")' = Population("inline") /\ Population("all")' = Population("all")
         /\ SurfaceIsKnown' = SurfaceIsKnown
BY Zenon DEF Population, InlineOf, SurfaceOf, PostedIn, SurfaceIsKnown

AnswersOf(r, p, pop) ==
  [groups : Groupings[Len(pop[p])],
   winner : [Golden[p] -> IF r[p].failed THEN {0} ELSE 0..Len(pop[p])]]
JudgementsOf(r, pop) ==
  LET all == [p \in Reviewed |-> AnswersOf(r, p, pop)]
  IN {j \in [Reviewed -> UNION Range(all)] : \A p \in Reviewed : j[p] \in all[p]}

LEMMA JudgementsStay ==
  ASSUME reviewed' = reviewed
  PROVE  /\ Judgements(Population("inline"))' = Judgements(Population("inline"))
         /\ Judgements(Population("all"))' = Judgements(Population("all"))
<1>1. /\ Judgements(Population("inline")) = JudgementsOf(reviewed, Population("inline"))
      /\ Judgements(Population("all")) = JudgementsOf(reviewed, Population("all"))
  BY DEF Judgements, JudgeAll, Answers, JudgementsOf, AnswersOf
<1>2. /\ Judgements(Population("inline"))' = JudgementsOf(reviewed', Population("inline")')
      /\ Judgements(Population("all"))' = JudgementsOf(reviewed', Population("all")')
  BY DEF Judgements, JudgeAll, Answers, JudgementsOf, AnswersOf
<1> QED BY <1>1, <1>2, PopulationStays

LEMMA CarriedStays ==
  ASSUME reviewed' = reviewed, inlineScore' = inlineScore, NEW own, NEW p, NEW b
  PROVE  Carried(own, p, b)' = Carried(own, p, b)
<1> DEFINE Issue(r, pop, c) == IF Traceable(r[c[1]].evidence) THEN pop[c[1]][c[2]].sources ELSE {}
           Carry(r, said, before, after) ==
             own \cup {c \in Candidates(after) :
                        c[1] = p /\ \E m \in said.matches[p][b] : Issue(r, before, m) = Issue(r, after, c)}
<1>1. Carried(own, p, b) = Carry(reviewed, inlineScore, Population("inline"), Population("all"))
  BY DEF Carried, IssueOf, SourcesOf, Bound
<1>2. Carried(own, p, b)' = Carry(reviewed', inlineScore', Population("inline")', Population("all")')
  BY DEF Carried, IssueOf, SourcesOf, Bound
<1> HIDE DEF Carry
<1> QED BY <1>1, <1>2, PopulationStays

LEMMA JudgedScoreStays ==
  ASSUME reviewed' = reviewed, inlineScore' = inlineScore
  PROVE  /\ ScoreJudged(inlineScore)' <=> ScoreJudged(inlineScore)
         /\ InlineSorted(inlineScore)' <=> InlineSorted(inlineScore)
<1>1. ScoreJudged(inlineScore)' <=> ScoreJudged(inlineScore)
  BY JudgementsStay DEF ScoreJudged
<1>2. InlineSorted(inlineScore)' <=> InlineSorted(inlineScore)
  BY PopulationStays DEF InlineSorted
<1> QED BY <1>1, <1>2

LEMMA ViewedStays ==
  ASSUME reviewed' = reviewed, inlineScore' = inlineScore, surfaceView' = surfaceView, Viewed(surfaceView)
  PROVE  Viewed(surfaceView)'
<1>1. SurfaceMatched(surfaceView)'
  <2>1. PICK judged \in Judgements(Population("all")) :
          /\ surfaceView.judged = judged
          /\ surfaceView.matches = [p \in Reviewed |-> [b \in Golden[p] |-> Carried(MatchedIn(judged)[p][b], p, b)]]
    BY DEF Viewed, SurfaceMatched
  <2>2. \A own, p, b : Carried(own, p, b)' = Carried(own, p, b)
    BY CarriedStays
  <2>3. judged \in Judgements(Population("all"))'
    BY <2>1, JudgementsStay
  <2> QED BY <2>1, <2>2, <2>3 DEF SurfaceMatched
<1>2. SurfaceIsKnown'
  BY PopulationStays DEF Viewed
<1>3. DOMAIN surfaceView'.verdicts = Unmatched(Population("all")', surfaceView'.matches)
  BY PopulationStays DEF Viewed
<1> QED BY <1>1, <1>2, <1>3 DEF Viewed
LEMMA VerdictsAreOf ==
  ASSUME NEW rest, NEW v \in Verdicts(rest)
  PROVE  DOMAIN v = rest
BY DEF Verdicts

LEMMA JudgeKeeps ==
  ASSUME EvidenceInv, Judge
  PROVE  EvidenceInv'
<1>1. reviewed' = reviewed /\ surfaceView' = surfaceView /\ packet = "assembled" /\ surfaceView = Unjudged
  BY DEF EvidenceInv, Judge
<1>2. CASE packet' = "judged" /\ \E judged \in Judgements(Population("inline")) :
             inlineScore' = [kind |-> "judged", judged |-> judged, matches |-> MatchedIn(judged),
                             verdicts |-> <<>>]
  <2>1. PICK judged \in Judgements(Population("inline")) :
             inlineScore' = [kind |-> "judged", judged |-> judged, matches |-> MatchedIn(judged),
                             verdicts |-> <<>>]
    BY <1>2
  <2>2. judged \in Judgements(Population("inline"))'
    BY <1>1, JudgementsStay
  <2>3. inlineScore' = [kind |-> "judged", judged |-> judged, matches |-> MatchedIn(judged),
                        verdicts |-> inlineScore'.verdicts]
    BY <2>1
  <2>4. ScoreJudged(inlineScore)'
    BY <2>2, <2>3 DEF ScoreJudged
  <2> QED BY <1>1, <1>2, <2>4 DEF EvidenceInv, Unjudged
<1>3. CASE packet' = "raised"
  BY <1>1, <1>3 DEF EvidenceInv
<1> QED BY <1>2, <1>3 DEF Judge

LEMMA SortKeeps ==
  ASSUME EvidenceInv, Sort
  PROVE  EvidenceInv'
<1>1. /\ reviewed' = reviewed /\ surfaceView' = surfaceView /\ packet = "judged" /\ surfaceView = Unjudged
      /\ ScoreJudged(inlineScore)
  BY DEF EvidenceInv, Sort
<1>2. CASE packet' = "sorted" /\ \E v \in Verdicts(Unmatched(Population("inline"), inlineScore.matches)) :
             inlineScore' = [inlineScore EXCEPT !.verdicts = v]
  <2>1. PICK v \in Verdicts(Unmatched(Population("inline"), inlineScore.matches)) :
             inlineScore' = [inlineScore EXCEPT !.verdicts = v]
    BY <1>2
  <2>2. PICK judged \in Judgements(Population("inline")) :
          inlineScore = [kind |-> "judged", judged |-> judged, matches |-> MatchedIn(judged),
                         verdicts |-> inlineScore.verdicts]
    BY <1>1 DEF ScoreJudged
  <2>3. inlineScore' = [kind |-> "judged", judged |-> judged, matches |-> MatchedIn(judged), verdicts |-> v]
    BY <2>1, <2>2
  <2>4. judged \in Judgements(Population("inline"))'
    BY <1>1, JudgementsStay
  <2>5. inlineScore'.verdicts = v /\ inlineScore'.matches = inlineScore.matches
    BY <2>2, <2>3
  <2>6. ScoreJudged(inlineScore)'
    BY <2>3, <2>4, <2>5 DEF ScoreJudged
  <2>7. DOMAIN v = Unmatched(Population("inline"), inlineScore.matches)
    BY <2>1, VerdictsAreOf
  <2>8. InlineSorted(inlineScore)'
    BY <2>5, <2>7, <1>1, PopulationStays DEF InlineSorted
  <2> QED BY <1>1, <1>2, <2>6, <2>8 DEF EvidenceInv, Unjudged
<1>3. CASE packet' = "raised"
  BY <1>1, <1>3 DEF EvidenceInv
<1> QED BY <1>2, <1>3 DEF Sort

LEMMA ViewSurfaceKeeps ==
  ASSUME EvidenceInv, ViewSurface
  PROVE  EvidenceInv'
<1>1. /\ reviewed' = reviewed /\ inlineScore' = inlineScore /\ packet = "sorted" /\ surfaceView = Unjudged
      /\ ScoreJudged(inlineScore) /\ InlineSorted(inlineScore) /\ packet' = "viewed" /\ reviewed \in PostedReviews
  BY DEF EvidenceInv, ViewSurface
<1>2. ScoreJudged(inlineScore)' /\ InlineSorted(inlineScore)'
  BY <1>1, JudgedScoreStays
<1>3. surfaceView' # Unjudged => Viewed(surfaceView)'
  <2> SUFFICES ASSUME surfaceView' # surfaceView PROVE Viewed(surfaceView)'
    BY <1>1 DEF Unjudged
  <2>1. SurfaceIsKnown
    BY DEF ViewSurface
  <2> DEFINE matches(judged) == [p \in Reviewed |-> [b \in Golden[p] |-> Carried(MatchedIn(judged)[p][b], p, b)]]
  <2>2. PICK judged \in Judgements(Population("all")) :
          \E v \in Verdicts(Unmatched(Population("all"), matches(judged))) :
            surfaceView' = [kind |-> "judged", judged |-> judged, matches |-> matches(judged), verdicts |-> v]
    BY DEF ViewSurface
  <2>3. PICK v \in Verdicts(Unmatched(Population("all"), matches(judged))) :
            surfaceView' = [kind |-> "judged", judged |-> judged, matches |-> matches(judged), verdicts |-> v]
    BY <2>2
  <2>4. judged \in Judgements(Population("all"))'
    BY <1>1, JudgementsStay
  <2>5. \A own, p, b : Carried(own, p, b)' = Carried(own, p, b)
    BY <1>1, CarriedStays
  <2> HIDE DEF matches
  <2>6. surfaceView'.judged = judged /\ surfaceView'.matches = matches(judged) /\ surfaceView'.verdicts = v
    BY <2>3
  <2>7. SurfaceMatched(surfaceView)'
    BY <2>4, <2>5, <2>6 DEF SurfaceMatched, matches
  <2>8. DOMAIN v = Unmatched(Population("all"), matches(judged))
    BY <2>3, VerdictsAreOf
  <2>9. DOMAIN surfaceView'.verdicts = Unmatched(Population("all")', surfaceView'.matches)
    BY <2>6, <2>8, <1>1, PopulationStays
  <2> QED BY <2>1, <2>7, <2>9, <1>1, PopulationStays DEF Viewed
<1> QED BY <1>1, <1>2, <1>3 DEF EvidenceInv

LEMMA WriteKeeps ==
  ASSUME EvidenceInv, Write
  PROVE  EvidenceInv'
<1>1. /\ reviewed' = reviewed /\ inlineScore' = inlineScore /\ surfaceView' = surfaceView /\ packet = "viewed"
      /\ ScoreJudged(inlineScore) /\ InlineSorted(inlineScore) /\ reviewed \in PostedReviews
      /\ packet' \in {"published", "raised"}
      /\ surfaceView # Unjudged => Viewed(surfaceView)
  BY DEF EvidenceInv, Write
<1>2. ScoreJudged(inlineScore)' /\ InlineSorted(inlineScore)'
  BY <1>1, JudgedScoreStays
<1>3. surfaceView' # Unjudged => Viewed(surfaceView)'
  BY <1>1, ViewedStays DEF Unjudged
<1> QED BY <1>1, <1>2, <1>3 DEF EvidenceInv

LEMMA StillKeeps ==
  ASSUME EvidenceInv, UNCHANGED <<reviewed, inlineScore, surfaceView, packet>>
  PROVE  EvidenceInv'
<1>1. reviewed' = reviewed /\ inlineScore' = inlineScore /\ surfaceView' = surfaceView /\ packet' = packet
  OBVIOUS
<1>2. (ScoreJudged(inlineScore)' <=> ScoreJudged(inlineScore)) /\ (InlineSorted(inlineScore)' <=> InlineSorted(inlineScore))
  BY <1>1, JudgedScoreStays
<1>3. Viewed(surfaceView) => Viewed(surfaceView)'
  BY <1>1, ViewedStays
<1> QED BY <1>1, <1>2, <1>3 DEF EvidenceInv, Unjudged

LEMMA EvidenceKeeps ==
  ASSUME EvidenceInv, [EvidenceNext]_evidenceVars
  PROVE  EvidenceInv'
<1>1. CASE Judge
  BY <1>1, JudgeKeeps
<1>2. CASE Sort
  BY <1>2, SortKeeps
<1>3. CASE ViewSurface
  BY <1>3, ViewSurfaceKeeps
<1>4. CASE Write
  BY <1>4, WriteKeeps
<1>5. CASE TreeMoves
  BY <1>5, StillKeeps DEF TreeMoves
<1>6. CASE UNCHANGED evidenceVars
  BY <1>6, StillKeeps DEF evidenceVars
<1> QED BY <1>1, <1>2, <1>3, <1>4, <1>5, <1>6 DEF EvidenceNext

LEMMA EvidenceStarts ==
  ASSUME EvidenceInit
  PROVE  EvidenceInv
BY DEF EvidenceInit, EvidenceInv

LEMMA EvidenceAlways ==
  EvidenceSpec => []EvidenceInv
<1>1. EvidenceInit => EvidenceInv
  BY EvidenceStarts
<1>2. EvidenceInv /\ [EvidenceNext]_evidenceVars => EvidenceInv'
  BY EvidenceKeeps
<1> QED BY <1>1, <1>2, PTL DEF EvidenceSpec

LEMMA CreditHolds ==
  ASSUME EvidenceInv
  PROVE  CreditIsCounted
<1>1. CoalescedOnce
  BY CoalescedOnceHolds
<1>2. ASSUME packet = "published"
      PROVE  /\ AllSorted(Population("inline"), inlineScore) /\ OriginsAreTold
             /\ surfaceView # Unjudged =>
                  SurfaceIsKnown /\ AllSorted(Population("all"), surfaceView) /\ SurfacesAddUp
  <2>1. /\ reviewed \in PostedReviews /\ ScoreJudged(inlineScore) /\ InlineSorted(inlineScore)
        /\ surfaceView # Unjudged => Viewed(surfaceView)
    BY <1>2 DEF EvidenceInv
  <2>2. InlineMatched(inlineScore)
    <3>1. PICK judged \in Judgements(Population("inline")) :
          inlineScore = [kind |-> "judged", judged |-> judged, matches |-> MatchedIn(judged),
                         verdicts |-> inlineScore.verdicts]
      BY <2>1 DEF ScoreJudged
    <3>2. inlineScore.matches = MatchedIn(judged)
      BY <3>1
    <3> QED BY <3>2 DEF InlineMatched
  <2>3. AllSorted(Population("inline"), inlineScore)
    BY <2>1, <2>2, InlineIsMatched, SortedOut DEF InlineSorted
  <2>4. OriginsAreTold
    BY <2>1, <2>2, OriginsHold
  <2>5. ASSUME Viewed(surfaceView)
        PROVE  SurfaceIsKnown /\ AllSorted(Population("all"), surfaceView) /\ SurfacesAddUp
    <3>1. SurfaceIsKnown /\ SurfaceMatched(surfaceView)
          /\ DOMAIN surfaceView.verdicts = Unmatched(Population("all"), surfaceView.matches)
      BY <2>5 DEF Viewed
    <3>2. AllSorted(Population("all"), surfaceView)
      BY <2>1, <3>1, SurfaceIsMatched, SortedOut
    <3>3. SurfacesAddUp
      BY <2>1, <2>2, <3>1, SurfacesHold
    <3> QED BY <3>1, <3>2, <3>3
  <2> QED BY <2>1, <2>3, <2>4, <2>5
<1> QED BY <1>1, <1>2 DEF CreditIsCounted

(* A published score counts what was posted, once.                         *)
THEOREM CreditIsAlwaysCounted ==
  EvidenceSpec => []CreditIsCounted
<1>1. EvidenceInv => CreditIsCounted
  BY CreditHolds
<1> QED BY <1>1, EvidenceAlways, PTL
-----------------------------------------------------------------------------
(* Both hold of any interleaving of the two.                               *)
THEOREM MeasurementIsAlwaysTrue ==
  MeasurementSpec => []MeasurementIsTrue
<1>1. MeasurementSpec => LossSpec /\ EvidenceSpec
  <2>1. MeasurementInit => LossInit /\ EvidenceInit
    BY DEF MeasurementInit
  <2>2. [MeasurementNext]_<<lossVars, evidenceVars>> => [LossNext]_lossVars /\ [EvidenceNext]_evidenceVars
    BY DEF MeasurementNext
  <2> QED BY <2>1, <2>2, PTL DEF MeasurementSpec, LossSpec, EvidenceSpec
<1>2. LossesAreTrue /\ CreditIsCounted => MeasurementIsTrue
  BY DEF MeasurementIsTrue
<1> QED BY <1>1, <1>2, LossesAreAlwaysTrue, CreditIsAlwaysCounted, PTL
=============================================================================
