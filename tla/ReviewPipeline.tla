--------------------------- MODULE ReviewPipeline ---------------------------
(***************************************************************************)
(* The review workflow of workflows/src/run.js: one run of runWith drives  *)
(* eight phases in order, replays the phases a signed checkpoint carries,  *)
(* and ends with an envelope.  A failed run returns the outputs it has as  *)
(* a checkpoint; a delivered run leaves a slim checkpoint on disk that     *)
(* keeps the challenge output alone.  The host may start the next run from *)
(* nothing, from the returned checkpoint, from the slim one, or from a     *)
(* garbled copy.                                                           *)
(*                                                                         *)
(* A finding travels as a card: what each vetting stage stamped on it.     *)
(* Agents are the environment: any of them may fail, answer badly, or      *)
(* answer well, independently for each finding.                            *)
(***************************************************************************)
EXTENDS Naturals, FiniteSets

CONSTANTS
  Finding,      \* identities of the findings the agents may raise
  Agent,        \* active discovery agents
  Raises,       \* Raises[a]: the findings agent a may report
  Audit,        \* findings synthesised from a removed-test audit row
  Overlap,      \* pairs <<f, l>>: f may sit on the anchor of audit loss l
  ChallengeCap, \* limits.challengeCap
  DeliveryCap,  \* limits.deliveryCap
  MaxRuns,      \* bound on the number of runs of the workflow
  Nil           \* absence (an undefined map entry)

ASSUME RaisesAssumption == Raises \in [Agent -> SUBSET Finding]
ASSUME AuditAssumption == Audit \subseteq Finding /\ Overlap \subseteq Finding \X Audit
ASSUME CapAssumption == ChallengeCap \in Nat /\ DeliveryCap \in Nat /\ MaxRuns \in Nat

VARIABLES
  pc,       \* "host", or the phase the run attempts next
  runs,     \* runs started so far
  cp,       \* checkpoints supplied to the current run, by phase
  task,     \* the two concurrent dispatches: summarize and discover
  out,      \* phaseOutputs of the current run
  gaps,     \* gaps disclosed so far by the current run
  round,    \* validation round: 0 first batches, 1 the one retry round
  accepted, \* validator records accepted so far, by finding
  env,      \* the last envelope returned
  disk      \* checkpoint map the last delivered run persisted

vars == <<pc, runs, cp, task, out, gaps, round, accepted, env, disk>>
-----------------------------------------------------------------------------
(* Phases, in the order runWith attempts them.                             *)

(* The report is a phase too, but it is rendered anew in every run, so     *)
(* nothing a checkpoint says of it matters.                                *)
Phase == {"summarize", "discover", "merge", "verify", "validate", "filter",
          "challenge"}

Rank == [summarize |-> 1, discover |-> 2, merge |-> 3, verify |-> 4,
         validate |-> 5, filter |-> 6, challenge |-> 7]

After == [summarize |-> "discover", discover |-> "merge", merge |-> "verify",
          verify |-> "validate", validate |-> "filter", filter |-> "challenge",
          challenge |-> "report"]

(* Only these two dispatch before their turn and run concurrently.         *)
Eager == {"summarize", "discover"}

(***************************************************************************)
(* A card.  validation holds what the accepted validator record says:      *)
(* "partial" lacks a required admission assessment and earns a retry; the  *)
(* others are complete, "hold" with a predicate that stays unresolved.     *)
(* onLoss: it was reported on the anchor of an audit loss.                 *)
(* stripped: the filter removed evidence an admission predicate reads.     *)
(* heard is a history field: which agents really spoke for (or against)    *)
(* this card along the outputs it was copied through.                      *)
(***************************************************************************)
Reply == {"none", "partial", "hold", "reject", "admit"}
Card == [onLoss : BOOLEAN,
         origin : {"none", "proven", "unknown"},
         validation : Reply \cup {"skipped"},
         stripped : BOOLEAN,
         admission : {"none", "held_back", "report_only", "admitted"},
         challenge : {"none", "survived", "failed", "capped", "admission_terminal"},
         elim : {"none", "verify", "filter", "challenge", "injection"},
         heard : SUBSET {"delta", "score", "answer", "verdict"}]

NewCard(onLoss) ==
  [onLoss |-> onLoss, origin |-> "none", validation |-> "none", stripped |-> FALSE,
   admission |-> "none", challenge |-> "none", elim |-> "none", heard |-> {}]

(* Stages record what they lost; agents stand for their own dimensions.    *)
Gap == Agent \cup {"summarize", "verify", "validate", "challenge", "all-degraded",
                   "discarded", "replay-filter", "persist", "checkpoint"}

(***************************************************************************)
(* What a phase leaves in phaseOutputs.  lineage is a history field: the   *)
(* merged findings whose vetting this output belongs to, and the run that  *)
(* merged them (0 before there are any).                                   *)
(***************************************************************************)
Lineage == [entered : SUBSET Finding, run : Nat]
Output == [cards : [Finding -> Card \cup {Nil}], gaps : SUBSET Gap,
           degraded : SUBSET Agent, lineage : Lineage]

ASSUME NilAssumption == Nil \notin Output /\ Nil \notin Card

NoCards == [f \in Finding |-> Nil]
Empty == [p \in Phase |-> Nil]
PhaseMap == [Phase -> Output \cup {Nil}]

Present(cards) == {f \in Finding : cards[f] # Nil}
Live(cards) == {f \in Present(cards) : cards[f].elim = "none"}

NoLineage == [entered |-> {}, run |-> 0]

MakeOutput(cards, g, lineage) ==
  [cards |-> cards, gaps |-> g, degraded |-> {}, lineage |-> lineage]
-----------------------------------------------------------------------------
(* The judgements a phase makes on one card.                               *)

(* incompleteVetting: verification unproven, or the validator never scored *)
Unvetted(c) == c.origin = "unknown" \/ c.validation = "skipped"

(* evaluateAdmission *)
Admission(c) ==
  IF c.origin # "proven" \/ c.validation \notin {"admit", "reject"} THEN "held_back"
  ELSE IF c.validation = "reject" \/ c.stripped THEN "report_only" ELSE "admitted"

(* challengeStage spends the cap only on findings that can be delivered    *)
Actionable(c) == c.admission = "admitted" /\ ~Unvetted(c)

(* disposeFindings *)
Disposition(c) ==
  IF c.elim # "none" THEN "eliminate"
  ELSE IF Unvetted(c) \/ c.challenge \in {"failed", "capped"} THEN "held_back"
  ELSE IF c.admission # "admitted"
    THEN IF c.admission = "report_only" THEN "report_only" ELSE "held_back"
  ELSE IF c.challenge # "survived" THEN "held_back" ELSE "body"

(* The artifact section a disposition is filed under. *)
Section(c) ==
  CASE Disposition(c) = "eliminate" -> "eliminated"
    [] Disposition(c) = "held_back" -> "unverified"
    [] OTHER -> "finding"

(* suppressAuditOverlaps: a proven audit loss represents its anchor. *)
Suppressed(cards) ==
  {f \in Live(cards) : \E l \in Live(cards) :
     /\ <<f, l>> \in Overlap /\ cards[f].onLoss
     /\ f \notin Audit
     /\ cards[f].origin = "proven" /\ cards[l].origin = "proven"}

(* validateStage's consume: a retry may only complete an accepted record.  *)
Consume(previous, reply) == IF reply = "none" THEN previous ELSE reply

(* Mutant: the exemption for a resumed challenge is inverted. *)
MutantNothingReviewed(o) ==
  o.degraded = Agent /\ Present(o.cards) = {} /\ cp["challenge"] # Nil

(* allActiveDimensionsDegraded, with the two conditions runWith adds.      *)
NothingReviewed(o) == o.degraded = Agent /\ Present(o.cards) = {} /\ cp["challenge"] = Nil
-----------------------------------------------------------------------------
(* Checkpoints *)

(* buildResumeCheckpoints: the whole map, or names only when it is too big *)
Resume(outputs, truncated) == IF truncated THEN Empty ELSE outputs

(* slimPersistedCheckpoints *)
Slim(outputs) == [Empty EXCEPT !["challenge"] = outputs["challenge"]]

Failure(phase, outputs, g, truncated) ==
  [ok |-> FALSE, failing |-> phase, gaps |-> g,
   checkpoints |-> Resume(outputs, truncated), truncated |-> truncated,
   section |-> [f \in Finding |-> "none"], delivered |-> {}]

(* An envelope that names the completed phases and carries none of them.   *)
NamesOnly(e) == e.checkpoints = Empty /\ (e.ok \/ e.truncated \/ e.failing = "checkpoints")

NoRecord == [f \in Finding |-> "none"]
-----------------------------------------------------------------------------
Init ==
  /\ pc = "host"
  /\ runs = 0
  /\ cp = Empty
  /\ task = [p \in Eager |-> "idle"]
  /\ out = Empty
  /\ gaps = {}
  /\ round = 0
  /\ accepted = NoRecord
  /\ env = Nil
  /\ disk = Nil

Begin(checkpoints, g) ==
  /\ pc = "host"
  /\ runs < MaxRuns
  /\ runs' = runs + 1
  /\ pc' = "summarize"
  /\ cp' = checkpoints
  /\ task' = [p \in Eager |-> IF checkpoints[p] = Nil THEN "running" ELSE "idle"]
  /\ out' = Empty
  /\ gaps' = g
  /\ round' = 0
  /\ accepted' = NoRecord
  /\ UNCHANGED <<env, disk>>

(* A fresh review. *)
StartFresh == Begin(Empty, {})

(* Resume from the checkpoint the last run returned; one that carries      *)
(* names only resumes nothing, and checkpointDiscardGap says so.           *)
StartFromReturn ==
  /\ env # Nil
  /\ Begin(env.checkpoints, IF NamesOnly(env) THEN {"discarded"} ELSE {})

(* Resume from the slim checkpoint on disk. *)
StartFromDisk == disk # Nil /\ Begin(disk, {})

(* A copy that lost its checksum is refused before anything is dispatched. *)
StartGarbled ==
  /\ pc = "host"
  /\ runs < MaxRuns
  /\ \E copy \in {disk} \cup (IF env = Nil THEN {} ELSE {env.checkpoints}) :
       copy \notin {Nil, Empty}
  /\ runs' = runs + 1
  /\ env' = Failure("checkpoints", Empty, {"checkpoint"}, FALSE)
  /\ UNCHANGED <<pc, cp, task, out, gaps, round, accepted, disk>>
-----------------------------------------------------------------------------
(* The two eager dispatches settle in any order; runWith awaits them later *)

Settles(p) ==
  /\ task[p] = "running"
  /\ pc # "host"
  /\ \E outcome \in (IF p = "summarize" THEN {"settled"} ELSE {"settled", "threw"}) :
       task' = [task EXCEPT ![p] = outcome]
  /\ UNCHANGED <<pc, runs, cp, out, gaps, round, accepted, env, disk>>

(* Mutant: the gaps of a replayed phase are taken as already told. *)
MutantDisclosed(p, o) ==
  IF p = "challenge" \/ cp[p] # Nil THEN gaps ELSE gaps \cup o.gaps

(* Each phase's gaps join the run's, replayed or not; the challenge's do   *)
(* so when the report is delivered.                                        *)
Disclosed(p, o) == IF p = "challenge" THEN gaps ELSE gaps \cup o.gaps

(* Mutant: the discovery that found no reviewer stays resumable. *)
MutantLossCheckpoint(outputs) == outputs

(* Discovery's total loss returns everything but discovery. *)
LossCheckpoint(outputs) == [outputs EXCEPT !["discover"] = Nil]

(* runPhase stores the output and moves on, or discovery's total loss      *)
(* stops the run.                                                          *)
Complete(p, o) ==
  LET lost == p = "discover" /\ NothingReviewed(o)
  IN /\ out' = [out EXCEPT ![p] = o]
     /\ gaps' = Disclosed(p, o) \cup (IF lost THEN {"all-degraded"} ELSE {})
     /\ pc' = IF lost THEN "host" ELSE After[p]
     /\ IF lost
        THEN \E truncated \in BOOLEAN :
               env' = Failure("discover", LossCheckpoint(out'), gaps', truncated)
        ELSE UNCHANGED env

Fresh(p) == pc = p /\ cp[p] = Nil /\ (p \in Eager => task[p] = "settled")

Replay(p) ==
  /\ pc = p
  /\ cp[p] # Nil
  /\ Complete(p, cp[p])
  /\ UNCHANGED <<runs, cp, task, round, accepted, disk>>

Dispatch(p, o) ==
  /\ Fresh(p)
  /\ Complete(p, o)
  /\ UNCHANGED <<runs, cp, task, accepted, round, disk>>

Summarize ==
  \E lost \in BOOLEAN :
    Dispatch("summarize", MakeOutput(NoCards, IF lost THEN {"summarize"} ELSE {}, NoLineage))

(* A null or malformed agent degrades its dimensions; the audit rows of a  *)
(* malformed test-analyzer answer still count.                             *)
Discover ==
  \E degraded \in SUBSET Agent, reported \in [Agent -> SUBSET Finding],
     onLoss \in SUBSET {pair[1] : pair \in Overlap} :
    /\ \A a \in Agent : reported[a] \subseteq (IF a \in degraded THEN Raises[a] \cap Audit
                                                                 ELSE Raises[a])
    /\ Dispatch("discover",
         [cards |-> [f \in Finding |-> IF \E a \in Agent : f \in reported[a]
                                       THEN NewCard(f \in onLoss) ELSE Nil],
          gaps |-> degraded, degraded |-> degraded, lineage |-> NoLineage])

(* mergeStage: one finding per id, whoever raised it. *)
Merge ==
  Dispatch("merge", MakeOutput(out["discover"].cards, {},
    [entered |-> Present(out["discover"].cards), run |-> runs]))

(* verifyStage: after the retry each finding has a trusted delta that      *)
(* keeps it, a trusted delta that eliminates it, or no trusted delta.      *)
VerifyCard(c, verdict) ==
  CASE verdict = "keep" -> [c EXCEPT !.origin = "proven", !.heard = @ \cup {"delta"}]
    [] verdict = "eliminate" -> [c EXCEPT !.elim = "verify", !.heard = @ \cup {"verdict"}]
    [] OTHER -> [c EXCEPT !.origin = "unknown"]

Verify ==
  LET held == Live(out["merge"].cards)
  IN /\ Fresh("verify")
     /\ \E verdict \in [held -> {"keep", "eliminate", "unresolved"}] :
          Dispatch("verify", MakeOutput(
            [f \in Finding |-> IF f \in held THEN VerifyCard(out["merge"].cards[f], verdict[f])
                                             ELSE Nil],
            IF \E f \in held : verdict[f] = "unresolved" THEN {"verify"} ELSE {},
            out["merge"].lineage))

(* The findings the verify phase hands on: suppression runs on replay too. *)
Verified == Live(out["verify"].cards) \ Suppressed(out["verify"].cards)

(* validateStage's first round: batches in parallel, consumed after all.   *)
ValidateBatches ==
  /\ Fresh("validate")
  /\ round = 0
  /\ \E reply \in [Verified -> Reply] :
       accepted' = [f \in Finding |-> IF f \in Verified THEN reply[f] ELSE "none"]
  /\ round' = 1
  /\ UNCHANGED <<pc, runs, cp, task, out, gaps, env, disk>>

ValidateCard(c, record) ==
  IF record = "none" THEN [c EXCEPT !.validation = "skipped"]
  ELSE [c EXCEPT !.validation = record, !.heard = @ \cup {"score"}]

(* The one retry round, for the findings whose record is not complete,     *)
(* then the stamps.                                                        *)
ValidateRetry ==
  LET pending == {f \in Verified : accepted[f] \in {"none", "partial"}}
  IN /\ Fresh("validate")
     /\ round = 1
     /\ \E reply \in [pending -> Reply] :
          LET record(f) == IF f \in pending THEN Consume(accepted[f], reply[f]) ELSE accepted[f]
          IN Complete("validate", MakeOutput(
               [f \in Finding |-> IF f \in Verified
                  THEN ValidateCard(out["verify"].cards[f], record(f)) ELSE Nil],
               IF \E f \in Verified : record(f) = "none" THEN {"validate"} ELSE {},
               out["verify"].lineage))
     /\ accepted' = NoRecord
     /\ round' = 0
     /\ UNCHANGED <<runs, cp, task, disk>>

(* filterStage: admission is stamped on the way in; a rule may then remove *)
(* a finding, whatever its vetting, or strip a field the admission read.   *)
FilterCard(c, rule) ==
  CASE rule = "remove" -> [c EXCEPT !.admission = Admission(c), !.elim = "filter",
                                    !.heard = @ \cup {"verdict"}]
    [] rule = "strip" -> [c EXCEPT !.admission = Admission(c), !.stripped = TRUE]
    [] OTHER -> [c EXCEPT !.admission = Admission(c)]

Filter ==
  LET input == Live(out["validate"].cards)
  IN /\ Fresh("filter")
     /\ \E rule \in [input -> {"remove", "strip", "keep"}] :
          Dispatch("filter", MakeOutput(
            [f \in Finding |-> IF f \in input
               THEN FilterCard(out["validate"].cards[f], rule[f]) ELSE Nil],
            {}, out["validate"].lineage))

(* Mutant: a challenger that returned nothing let the finding pass. *)
MutantChallengeCard(c, answer) ==
  IF ~Actionable(c) THEN [c EXCEPT !.challenge = "admission_terminal"]
  ELSE IF answer = "capped" THEN [c EXCEPT !.challenge = "capped"]
  ELSE IF answer = "low" THEN [c EXCEPT !.challenge = "survived", !.elim = "challenge",
                                        !.heard = @ \cup {"verdict"}]
  ELSE [c EXCEPT !.challenge = "survived",
                 !.heard = IF answer = "ok" THEN @ \cup {"answer"} ELSE @]

(* challengeStage: candidates are the top of the ranking up to the cap; a  *)
(* null or unscored answer fails the finding, a low score removes it.      *)
(* runWith then appends what verify and filter eliminated.                 *)
ChallengeCard(c, answer) ==
  IF ~Actionable(c) THEN [c EXCEPT !.challenge = "admission_terminal"]
  ELSE CASE answer = "capped" -> [c EXCEPT !.challenge = "capped"]
         [] answer = "null" -> [c EXCEPT !.challenge = "failed"]
         [] answer = "low" -> [c EXCEPT !.challenge = "survived", !.elim = "challenge",
                                        !.heard = @ \cup {"verdict"}]
         [] OTHER -> [c EXCEPT !.challenge = "survived", !.heard = @ \cup {"answer"}]

Eliminated(p, f) == out[p].cards[f] # Nil /\ out[p].cards[f].elim # "none"

(* Mutant: only the filter's eliminations are appended. *)
MutantCarriedCard(f) == IF Eliminated("filter", f) THEN out["filter"].cards[f] ELSE Nil

(* The cards whose eliminations the run carries into the challenge output. *)
CarriedCard(f) ==
  IF Eliminated("verify", f) THEN out["verify"].cards[f]
  ELSE IF Eliminated("filter", f) THEN out["filter"].cards[f] ELSE Nil

(* Mutant: the verdict of before the filter is trusted. *)
MutantChallengeInput(f) == out["filter"].cards[f]

(* The verdict is evaluated again once the filter has changed its inputs.  *)
ChallengeInput(f) == [out["filter"].cards[f] EXCEPT !.admission = Admission(out["filter"].cards[f])]

(* Mutant: findings over the cap are not disclosed. *)
MutantChallengeGaps(stamps) == IF "failed" \in stamps THEN {"challenge"} ELSE {}

ChallengeGaps(stamps) == IF {"failed", "capped"} \cap stamps # {} THEN {"challenge"} ELSE {}

Challenge ==
  LET input == Live(out["filter"].cards)
      actionable == {f \in input : Actionable(ChallengeInput(f))}
  IN /\ Fresh("challenge")
     /\ \E candidates \in SUBSET actionable :
        \E answer \in [candidates -> {"null", "low", "ok"}] :
          LET card(f) == ChallengeCard(ChallengeInput(f),
                                       IF f \in candidates THEN answer[f] ELSE "capped")
          IN /\ Cardinality(candidates) <= ChallengeCap
             /\ candidates # actionable => Cardinality(candidates) = ChallengeCap
             /\ Dispatch("challenge", MakeOutput(
                  [f \in Finding |-> IF f \in input THEN card(f) ELSE CarriedCard(f)],
                  ChallengeGaps({card(f).challenge : f \in input}),
                  out["filter"].lineage))
-----------------------------------------------------------------------------
(* deliverFromCheckpoint: belt, dispositions, selection, persistence.      *)

(* applyChallengeReplayBelt: a hit becomes an elimination, on a copy.      *)
BeltCard(c) == [c EXCEPT !.elim = "injection", !.heard = @ \cup {"verdict"}]

(* selectDelivery cuts the ranking of delivery groups, and a group stays   *)
(* whole: a cut list holds at least as many findings as the cap.           *)
Selections(body) ==
  {s \in SUBSET body : /\ s # body => Cardinality(s) >= DeliveryCap
                       /\ DeliveryCap = 0 => s = {}}

Deliver ==
  LET challenged == out["challenge"]
  IN /\ pc = "report"
     /\ \E hits \in SUBSET Live(challenged.cards), persisted \in BOOLEAN, truncated \in BOOLEAN :
        LET card(f) == IF f \in hits THEN BeltCard(challenged.cards[f]) ELSE challenged.cards[f]
            body == {f \in Present(challenged.cards) : Disposition(card(f)) = "body"}
            disclosed == gaps \cup challenged.gaps
                              \cup (IF hits # {} THEN {"replay-filter"} ELSE {})
                              \cup (IF persisted THEN {} ELSE {"persist"})
        IN /\ persisted => ~truncated
           /\ \E selected \in Selections(body) :
                env' = [ok |-> TRUE, failing |-> "none", gaps |-> disclosed,
                        checkpoints |-> IF persisted THEN Empty ELSE Resume(out, truncated),
                        truncated |-> truncated,
                        section |-> [f \in Finding |->
                          IF f \in Present(challenged.cards) THEN Section(card(f)) ELSE "none"],
                        delivered |-> selected]
           /\ gaps' = disclosed
           /\ disk' \in {Slim(out)} \cup (IF persisted THEN {} ELSE {disk})
     /\ pc' = "host"
     /\ UNCHANGED <<runs, cp, task, out, round, accepted>>

(* Mutant: the rejection of an eager dispatch is handled and forgotten. *)
MutantThrow(p) ==
  /\ p \notin Eager /\ pc = p /\ cp[p] = Nil
  /\ \E truncated \in BOOLEAN : env' = Failure(p, out, gaps, truncated)
  /\ pc' = "host" /\ round' = 0 /\ accepted' = NoRecord
  /\ UNCHANGED <<runs, cp, task, out, gaps, disk>>

(* The catch of runWith: the attempted phase throws, or the settled eager  *)
(* dispatch rethrows when its turn comes.                                  *)
Throw(p) ==
  /\ pc = p
  /\ cp[p] = Nil
  /\ p \in Eager => task[p] = "threw"
  /\ \E truncated \in BOOLEAN : env' = Failure(p, out, gaps, truncated)
  /\ pc' = "host"
  /\ round' = 0
  /\ accepted' = NoRecord
  /\ UNCHANGED <<runs, cp, task, out, gaps, disk>>

(* writeArtifacts validates its roots outside its own guard, so a bad one  *)
(* throws after every phase has completed.                                 *)
ReportThrows ==
  /\ pc = "report"
  /\ \E truncated \in BOOLEAN :
       env' = Failure("report", out, gaps \cup out["challenge"].gaps, truncated)
  /\ gaps' = gaps \cup out["challenge"].gaps
  /\ pc' = "host"
  /\ UNCHANGED <<runs, cp, task, out, round, accepted, disk>>

Start == StartFresh \/ StartFromReturn \/ StartFromDisk \/ StartGarbled

Step ==
  \/ \E p \in Eager : Settles(p)
  \/ \E p \in Phase : Replay(p) \/ Throw(p)
  \/ Summarize \/ Discover \/ Merge \/ Verify
  \/ ValidateBatches \/ ValidateRetry
  \/ Filter \/ Challenge \/ Deliver \/ ReportThrows

Next == Start \/ Step

Spec == Init /\ [][Next]_vars

(* Every dispatch is awaited and every agent call ends, with an answer or  *)
(* without, so a run that can step does; nothing obliges the host to start *)
(* another.                                                                *)
LiveSpec == Spec /\ WF_vars(Step)
-----------------------------------------------------------------------------
(* Properties *)

Envelope == [ok : BOOLEAN, failing : Phase \cup {"none", "checkpoints", "report"},
             gaps : SUBSET Gap, checkpoints : PhaseMap, truncated : BOOLEAN,
             section : [Finding -> {"none", "finding", "unverified", "eliminated"}],
             delivered : SUBSET Finding]

(* Every variable keeps the shape of its counterpart in runWith.           *)
TypeOK ==
  /\ pc \in Phase \cup {"host", "report"}
  /\ runs \in Nat
  /\ cp \in PhaseMap
  /\ task \in [Eager -> {"idle", "running", "settled", "threw"}]
  /\ out \in PhaseMap
  /\ gaps \in SUBSET Gap
  /\ round \in {0, 1}
  /\ accepted \in [Finding -> Reply]
  /\ env \in Envelope \cup {Nil}
  /\ disk \in PhaseMap \cup {Nil}

(* The last run has just returned a delivery. *)
Delivered == pc = "host" /\ env # Nil /\ env.ok

FinalCard(f) == out["challenge"].cards[f]

(* What a section says of a finding was earned by agents that answered,    *)
(* through any number of failed and resumed runs: a posted finding has a   *)
(* verifier's delta, a validator's score and a challenger's answer behind  *)
(* it and evidence the filter left whole; a reported one a delta and a     *)
(* score; an eliminated one was judged, never lost to a failure.           *)
SectionsEarned ==
  Delivered => \A f \in Finding :
    /\ f \in env.delivered => /\ env.section[f] = "finding"
                              /\ {"delta", "score", "answer"} \subseteq FinalCard(f).heard
                              /\ ~FinalCard(f).stripped
    /\ env.section[f] = "finding" => {"delta", "score"} \subseteq FinalCard(f).heard
    /\ (env.section[f] = "eliminated" /\ FinalCard(f).elim # "none")
          => "verdict" \in FinalCard(f).heard

(* No finding that entered vetting leaves the report unaccounted for:      *)
(* it has a section, or an audit loss on the same anchor has one for it;   *)
(* and no section is given to a finding that did not enter.                *)
Conservation ==
  Delivered =>
    /\ \A f \in out["challenge"].lineage.entered :
         \/ env.section[f] # "none"
         \/ \E l \in Audit : <<f, l>> \in Overlap /\ env.section[l] # "none"
    /\ \A f \in Finding : env.section[f] # "none" => f \in out["challenge"].lineage.entered

(* A slim resume delivers findings that the verify and validate outputs    *)
(* beside them never saw, and so does whatever is resumed from it.         *)
WholeLineage == out["challenge"].lineage = out["verify"].lineage

(* Whatever a run lost is in the envelope it returns, also when the loss   *)
(* happened in an earlier run and was replayed: degraded dimensions,       *)
(* unresolved slices, unscored findings, unanswered challenges.            *)
Disclosure ==
  (pc = "host" /\ env # Nil /\ env.failing # "checkpoints") =>
    /\ out["discover"] # Nil => out["discover"].degraded \subseteq env.gaps
    /\ env.ok => \A f \in Present(out["challenge"].cards) :
         /\ FinalCard(f).challenge \in {"failed", "capped"} => "challenge" \in env.gaps
         /\ WholeLineage =>
              /\ FinalCard(f).origin = "unknown" => "verify" \in env.gaps
              /\ FinalCard(f).validation = "skipped" => "validate" \in env.gaps

(* No finding goes missing, and nothing is lost unsaid. *)
LossIsTold == Conservation /\ Disclosure

(* What was earned, lost and disclosed stays so over a failed run and      *)
(* every way of resuming it.                                               *)
VettingSurvivesResume == SectionsEarned /\ Disclosure

(* A failed run returns the outputs of the phases before the one that      *)
(* failed, all of them and no other: the next run neither skips the        *)
(* failed phase nor resumes from a hole.                                   *)
ResumePoint ==
  (env # Nil /\ ~env.ok /\ ~env.truncated /\ env.failing # "checkpoints") =>
    \A p \in Phase : env.checkpoints[p] # Nil <=>
      (env.failing = "report" \/ Rank[p] < Rank[env.failing])

(* An empty clean review is never the result of losing every reviewer.     *)
NoFalseClean ==
  (Delivered /\ cp["challenge"] = Nil) =>
    ~(out["discover"].degraded = Agent /\ \A f \in Finding : env.section[f] = "none")

(* A run the host starts returns an envelope. *)
EventuallyReturns == pc # "host" ~> pc = "host"

(* README.md, on broken verification or validation: the affected findings  *)
(* still face the blind challenge.                                         *)
BrokenVettingStillChallenged ==
  Delivered => \A f \in Live(out["challenge"].cards) :
    Unvetted(FinalCard(f)) => FinalCard(f).challenge # "admission_terminal"

(* The comment over slimPersistedCheckpoints: failure-path checkpoints let *)
(* recovery skip all completed work.  Discovery that lost every dimension  *)
(* is left out on purpose.                                                 *)
FailureKeepsCompletedWork ==
  (pc = "host" /\ env # Nil /\ ~env.ok /\ ~env.truncated /\ env.failing \in Phase) =>
    \A p \in Phase \ {"discover"} : cp[p] # Nil => env.checkpoints[p] # Nil
=============================================================================
