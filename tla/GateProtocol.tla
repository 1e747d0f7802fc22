---------------------------- MODULE GateProtocol ----------------------------
(***************************************************************************)
(* How the benchmark decides about a treatment (bench/runner/looks.py,     *)
(* compare.py, populations.py, audit.py and the hook of bench/run.py): a   *)
(* rule is registered and the contamination list frozen before the first   *)
(* candidate run, the gate is looked at once or, extended, twice, and the  *)
(* sealed holdout is opened for one treatment, one review, one audit and   *)
(* one comparison.  What happened is rows of one append-only ledger; its   *)
(* readers and writers are separate commands that may run beside each      *)
(* other and die between any two steps.                                    *)
(*                                                                         *)
(* One wave and its candidate arm are modelled: the guards that bind runs  *)
(* to times are about candidates only.  What a comparison measures is      *)
(* abstracted to the verdicts of its guards.                               *)
(***************************************************************************)
EXTENDS GateRules

CONSTANTS
  Desk,           \* the commands that may run at the same time
  Kind,           \* the kinds of rule to consider: "wave", "ship"
  InitialRuns, ExtensionRuns,
  Treatment,      \* treatments that may ask for the holdout
  Review,         \* identities of holdout runs
  MaxClock, MaxManifests, MaxCandidates, MaxReports, MaxReceipts  \* bounds

ASSUME GateAssumption ==
  /\ InitialRuns \in Nat \ {0} /\ ExtensionRuns \in Nat
  /\ MaxClock \in Nat /\ MaxManifests \in Nat /\ MaxCandidates \in Nat
  /\ MaxReports \in Nat /\ MaxReceipts \in Nat

VARIABLES
  time,
  rule,        \* the kind of the frozen rule
  ledger,      \* golden/looks.jsonl
  manifests,   \* frozen contamination lists: the time each claims, the time it was made
  candidates,  \* candidate runs: planned index, start, the manifest they bind
  reports,     \* comparison reports on disk
  receipts,    \* unseal receipts on disk
  reviews,     \* holdout reviews that ran: identity and treatment
  samples,     \* how many audit samples were drawn from the holdout
  desk         \* what each command holds

gateVars == <<time, rule, ledger, manifests, candidates, reports, receipts,
              reviews, samples, desk>>

Free == [pc |-> "free"]
AtDesk(d, pc) == desk[d].pc = pc
Moves(d, state) == desk' = [desk EXCEPT ![d] = state]

(* entries: where the rows of a kind are in the ledger *)
Rows(kind) == {i \in DOMAIN ledger : ledger[i].kind = kind}
Looks == Rows("look")
FirstLook == CHOOSE i \in Looks : \A j \in Looks : i <= j
Uses(use) == {i \in Rows("use") : ledger[i].use = use}

GInit ==
  /\ time = 0
  /\ rule \in Kind
  /\ ledger = <<>> /\ manifests = <<>> /\ candidates = <<>> /\ reports = <<>>
  /\ receipts = <<>> /\ reviews = {} /\ samples = 0
  /\ desk = [d \in Desk |-> Free]

Tick ==
  /\ time < MaxClock
  /\ time' = time + 1
  /\ UNCHANGED <<rule, ledger, manifests, candidates, reports, receipts, reviews, samples, desk>>

(* freeze_contamination: frozen_at is the operator's word, the file is new *)
Freeze ==
  /\ Len(manifests) < MaxManifests
  /\ \E at \in 0..MaxClock : manifests' = Append(manifests, [claims |-> at, made |-> time])
  /\ UNCHANGED <<time, rule, ledger, candidates, reports, receipts, reviews, samples, desk>>

(* register: one registration, checked under the lock that appends it *)
Register ==
  /\ manifests # <<>>
  /\ Rows("registration") = {} /\ Looks = {}
  /\ ledger' = Append(ledger, [kind |-> "registration", at |-> time])
  /\ UNCHANGED <<time, rule, manifests, candidates, reports, receipts, reviews, samples, desk>>

(* registration and check_freeze compare strictly. *)
Precedes(at, started) == at < started

(* The rule was registered, and before a run that started then. *)
Registered == Cardinality(Rows("registration")) = 1
RegisteredBefore(started) ==
  Registered /\ \A i \in Rows("registration") : Precedes(ledger[i].at, started)
FrozenBefore(m, started) == Precedes(manifests[m].claims, started)

(* run_hook "window": a candidate run is refused until both hold, and      *)
(* binds the digest of the list it was shown.                              *)
StartCandidate ==
  /\ Len(candidates) < MaxCandidates
  /\ RegisteredBefore(time)
  /\ \E m \in DOMAIN manifests, index \in 1..(InitialRuns + ExtensionRuns) :
       /\ FrozenBefore(m, time)
       /\ candidates' = Append(candidates, [index |-> index, started |-> time, bound |-> m])
  /\ UNCHANGED <<time, rule, ledger, manifests, reports, receipts, reviews, samples, desk>>
-----------------------------------------------------------------------------
(* next_look *)
LookLeft ==
  /\ Registered
  /\ Cardinality(Looks) < 2
  /\ Looks # {} => ledger[FirstLook].verdict \in {"fail", "inconclusive"}
NextLook == Cardinality(Looks) + 1

(* The runs a comparison names: a planned prefix, under one manifest. *)
RunCount(extended) == InitialRuns + IF extended THEN ExtensionRuns ELSE 0
NamedRuns(m, extended) ==
  {s \in [1..RunCount(extended) -> DOMAIN candidates] :
     \A i \in DOMAIN s : candidates[s[i]].index = i /\ candidates[s[i]].bound = m}

(* The extension must start from the very report of the first look. *)
Extends(s, base) ==
  /\ rule = "wave" /\ ~base.extended
  /\ \A i \in DOMAIN base.runs : s[i] = base.runs[i]
  /\ Looks # {} /\ reports[ledger[FirstLook].report] = base
  /\ base.allowed

(* compare_arms: reads the ledger and judges, holding no lock. *)
Compare(d) ==
  /\ AtDesk(d, "free")
  /\ Len(reports) < MaxReports
  /\ LookLeft
  /\ \E m \in DOMAIN manifests, base \in {0} \cup DOMAIN reports :
     \E s \in NamedRuns(m, base # 0) :
       /\ NextLook = 2 => base # 0
       /\ \A i \in DOMAIN s : LET started == candidates[s[i]].started
                              IN RegisteredBefore(started) /\ FrozenBefore(m, started)
       /\ base # 0 => Extends(s, reports[base])
       /\ \E primary \in Judgement, others \in SUBSET Judgement :
            LET v == Verdict(rule, primary, others, base # 0, ExtensionRuns)
            IN Moves(d, [pc |-> "judged", look |-> NextLook, runs |-> s, extended |-> base # 0,
                         verdict |-> v,
                         allowed |-> ExtensionAllowed(rule, v, base # 0, ExtensionRuns)])
  /\ UNCHANGED <<time, rule, ledger, manifests, candidates, reports, receipts, reviews, samples>>

(* main: the report is on disk before its look is in the ledger. *)
WriteReport(d) ==
  /\ AtDesk(d, "judged")
  /\ reports' = Append(reports, [look |-> desk[d].look, runs |-> desk[d].runs,
                                 extended |-> desk[d].extended, verdict |-> desk[d].verdict,
                                 allowed |-> desk[d].allowed])
  /\ Moves(d, [pc |-> "reported", report |-> Len(reports) + 1])
  /\ UNCHANGED <<time, rule, ledger, manifests, candidates, receipts, reviews, samples>>

(* Mutant: the look is appended without looking at the ledger again. *)
MutantStillNext(look) == TRUE

(* record: the look must still be the next one, under the lock. *)
StillNext(look) == LookLeft /\ NextLook = look

RecordLook(d) ==
  /\ AtDesk(d, "reported")
  /\ LET n == desk[d].report
         r == reports[n]
     IN ledger' = IF StillNext(r.look)
                  THEN Append(ledger, [kind |-> "look", look |-> r.look, report |-> n,
                                       verdict |-> r.verdict])
                  ELSE ledger
  /\ Moves(d, Free)
  /\ UNCHANGED <<time, rule, manifests, candidates, reports, receipts, reviews, samples>>
-----------------------------------------------------------------------------
(* unseal: one row, ever; the receipt is written before it is appended. *)
Sealed == Rows("unseal") = {}

Mint(d) ==
  /\ AtDesk(d, "free")
  /\ Len(receipts) < MaxReceipts
  /\ Sealed
  /\ \E sha \in Treatment :
       LET row == [kind |-> "unseal", sha |-> sha, at |-> time]
       IN receipts' = Append(receipts, row) /\ Moves(d, [pc |-> "minted", row |-> row])
  /\ UNCHANGED <<time, rule, ledger, manifests, candidates, reports, reviews, samples>>

Unseal(d) ==
  /\ AtDesk(d, "minted")
  /\ ledger' = IF Sealed THEN Append(ledger, desk[d].row) ELSE ledger
  /\ Moves(d, Free)
  /\ UNCHANGED <<time, rule, manifests, candidates, reports, receipts, reviews, samples>>

(* holdout: the receipt must be the row of the ledger, for this treatment. *)
Authorized(row, sha) == row.sha = sha /\ \E i \in DOMAIN ledger : ledger[i] = row

(* A review may repeat its own use; an audit and a comparison may not. *)
RefusedUse(use, run) == \E i \in Uses(use) : use # "run" \/ ledger[i].run # run

WithUse(use, run) ==
  IF Uses(use) # {} THEN ledger
  ELSE Append(ledger, [kind |-> "use", use |-> use, run |-> run])

(* run_hook "reserve", in a pass, a resume or a retry of a holdout run. *)
ReviewHoldout ==
  /\ \E i \in DOMAIN receipts, sha \in Treatment, run \in Review :
       /\ \A other \in reviews : other.run = run => other.sha = sha
       /\ Authorized(receipts[i], sha)
       /\ ~RefusedUse("run", run)
       /\ ledger' = WithUse("run", run)
       /\ reviews' = reviews \cup {[run |-> run, sha |-> sha]}
  /\ UNCHANGED <<time, rule, manifests, candidates, reports, receipts, samples, desk>>

(* audit.sample: the use is spent before the sample is written. *)
StartAudit(d) ==
  /\ AtDesk(d, "free")
  /\ \E i \in DOMAIN receipts, r \in reviews :
       Authorized(receipts[i], r.sha) /\ ~RefusedUse("audit", "none")
  /\ ledger' = WithUse("audit", "none")
  /\ Moves(d, [pc |-> "sampling"])
  /\ UNCHANGED <<time, rule, manifests, candidates, reports, receipts, reviews, samples>>

WriteSample(d) ==
  /\ AtDesk(d, "sampling")
  /\ samples' = samples + 1
  /\ Moves(d, Free)
  /\ UNCHANGED <<time, rule, ledger, manifests, candidates, reports, receipts, reviews>>

(* compare on the holdout: here the report comes first, the use second. *)
CompareHoldout(d) ==
  /\ AtDesk(d, "free")
  /\ \E i \in DOMAIN receipts, r \in reviews : Authorized(receipts[i], r.sha)
  /\ Moves(d, [pc |-> "compared"])
  /\ UNCHANGED <<time, rule, ledger, manifests, candidates, reports, receipts, reviews, samples>>

UseComparison(d) ==
  /\ AtDesk(d, "compared")
  /\ ledger' = IF RefusedUse("compare", "none") THEN ledger ELSE WithUse("compare", "none")
  /\ Moves(d, Free)
  /\ UNCHANGED <<time, rule, manifests, candidates, reports, receipts, reviews, samples>>

(* A command dies where it stands: what it held is gone. *)
DeskDies(d) ==
  /\ ~AtDesk(d, "free")
  /\ Moves(d, Free)
  /\ UNCHANGED <<time, rule, ledger, manifests, candidates, reports, receipts, reviews, samples>>
-----------------------------------------------------------------------------
GateNext == Tick \/ Freeze \/ Register \/ StartCandidate
            \/ \E d \in Desk : Compare(d) \/ WriteReport(d) \/ RecordLook(d) \/ DeskDies(d)
HoldoutNext == ReviewHoldout
               \/ \E d \in Desk : \/ Mint(d) \/ Unseal(d) \/ StartAudit(d) \/ WriteSample(d)
                                  \/ CompareHoldout(d) \/ UseComparison(d) \/ DeskDies(d)
GNext == GateNext \/ HoldoutNext
GSpec == GInit /\ [][GNext]_gateVars

LookRuns(i) == reports[ledger[i].report].runs

(* bench/README.md: a fail is final, only a permitted extension allows a   *)
(* second look, a third is refused.  The second look judges the runs of    *)
(* the first and new ones, all under the same contamination list, and      *)
(* every run of either started after the rule was registered and with the  *)
(* list already frozen - whichever commands raced or died on the way.      *)
LooksAreEarned ==
  /\ Cardinality(Looks) <= 2
  /\ \A i \in Looks :
       /\ ledger[i].look = Cardinality({j \in Looks : j <= i})
       /\ \A k \in DOMAIN LookRuns(i) :
            LET run == candidates[LookRuns(i)[k]]
            IN /\ Registered /\ \A r \in Rows("registration") : ledger[r].at < run.started
               /\ manifests[run.bound].made <= run.started
               /\ run.bound = candidates[LookRuns(i)[1]].bound
  /\ \A i, j \in Looks : i < j =>
       /\ ledger[i].verdict = "inconclusive" /\ ledger[j].verdict # "inconclusive"
       /\ DOMAIN LookRuns(j) # DOMAIN LookRuns(i)
       /\ \A k \in DOMAIN LookRuns(i) : k \in DOMAIN LookRuns(j) /\ LookRuns(j)[k] = LookRuns(i)[k]

(* The holdout is opened for one treatment and reviewed by one run of it,  *)
(* audited once, and not before its unsealing is in the ledger.            *)
HoldoutOnce ==
  LET opened == Rows("unseal")
  IN /\ Cardinality(opened) <= 1
     /\ reviews # {} \/ samples > 0 => opened # {}
     /\ \A r \in reviews, i \in opened : r.sha = ledger[i].sha
     /\ Cardinality({r.run : r \in reviews}) <= 1
     /\ samples <= 1
     /\ \A use \in {"run", "audit", "compare"} : Cardinality(Uses(use)) <= 1

(* The gate and the holdout stay what the ledger says of them, under rules *)
(* that divide the pull requests and order the verdicts (GateRules).       *)
GateKept == LooksAreEarned /\ HoldoutOnce /\ RulesOfTheGate
=============================================================================
