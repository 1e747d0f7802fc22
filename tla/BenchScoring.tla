---------------------------- MODULE BenchScoring ----------------------------
(***************************************************************************)
(* Scoring a run directory (bench/run.py --score-only, runner/score.py),   *)
(* composed with the passes over it (BenchSession).  A scorer loads the    *)
(* selected attempts, compares them with the index, judges into a pending  *)
(* packet, publishes it by a rename, moves the run's pointer to it and     *)
(* appends one row to the ledger (runner/ledger.py).  It may be killed     *)
(* between any two steps; a published packet's row can be replayed later.  *)
(* Nothing keeps a resume or a retry from running beside it.               *)
(***************************************************************************)
EXTENDS BenchSession

CONSTANT MaxScores  \* bound on the packets begun

ASSUME MaxScoresAssumption == MaxScores \in Nat

VARIABLES
  scoring,  \* the scorer's place: idle, selected, judging, published, pointed
  picked,   \* the attempts it loaded
  packets,  \* the score packets begun, in order
  latest,   \* latest-score.json: a packet, or 0
  rows      \* the ledger: the packets it has rows of

scoreVars == <<scoring, picked, packets, latest, rows>>
allVars == <<vars, scoreVars>>

Packet == [selection : [PR -> Nat], published : BOOLEAN]

SInit ==
  /\ Init
  /\ scoring = "idle"
  /\ picked = [p \in PR |-> 0]
  /\ packets = <<>>
  /\ latest = 0
  /\ rows = <<>>

Session == Next /\ UNCHANGED scoreVars

(* score_run takes a valid attempt with a payload or a confirmed failure.  *)
Scorable(p) ==
  /\ selected[p] # 0
  /\ \/ Selected(p).state = "valid" /\ Selected(p).payload # 0
     \/ Selected(p).state = "operational_failure"

(* scoring_selection; a selection that cannot score ends the command. *)
Select ==
  /\ scoring = "idle"
  /\ Len(packets) < MaxScores
  /\ \A p \in PR : Scorable(p)
  /\ picked' = selected
  /\ scoring' = "selected"
  /\ UNCHANGED <<vars, packets, latest, rows>>

(* The index is read again: it must select what was loaded. *)
Begin ==
  /\ scoring = "selected"
  /\ IF picked = selected
     THEN /\ packets' = Append(packets, [selection |-> picked, published |-> FALSE])
          /\ scoring' = "judging"
     ELSE /\ scoring' = "idle"
          /\ UNCHANGED packets
  /\ UNCHANGED <<vars, picked, latest, rows>>

(* publish_packet: the whole packet appears under its final name at once.  *)
Publish ==
  /\ scoring = "judging"
  /\ packets' = [packets EXCEPT ![Len(packets)].published = TRUE]
  /\ scoring' = "published"
  /\ UNCHANGED <<vars, picked, latest, rows>>

Point ==
  /\ scoring = "published"
  /\ latest' = Len(packets)
  /\ scoring' = "pointed"
  /\ UNCHANGED <<vars, picked, packets, rows>>

(* append_row: one row for each score identity. *)
WithRow(n) == IF \E i \in 1..Len(rows) : rows[i] = n THEN rows ELSE Append(rows, n)

AppendRow ==
  /\ scoring = "pointed"
  /\ rows' = WithRow(Len(packets))
  /\ scoring' = "idle"
  /\ UNCHANGED <<vars, picked, packets, latest>>

(* The judge fails, or the scorer is killed: what it published stays. *)
ScorerDies ==
  /\ scoring # "idle"
  /\ scoring' = "idle"
  /\ UNCHANGED <<vars, picked, packets, latest, rows>>

(* Mutant: a packet that was begun will do. *)
MutantLoadable(n) == n \in 1..Len(packets)

(* load_packet refuses what has not been published. *)
Loadable(n) == n \in 1..Len(packets) /\ packets[n].published

(* replay_packet *)
Replay(n) ==
  /\ scoring = "idle"
  /\ Loadable(n)
  /\ rows' = WithRow(n)
  /\ UNCHANGED <<vars, scoring, picked, packets, latest>>

Scorer ==
  \/ Select \/ Begin \/ Publish \/ Point \/ AppendRow \/ ScorerDies
  \/ \E n \in 1..MaxScores : Replay(n)

SNext == Session \/ Scorer

SSpec == SInit /\ [][SNext]_allVars

(* A pass goes on whatever is scored beside it. *)
SLiveSpec == SSpec /\ WF_allVars(PassStep /\ UNCHANGED scoreVars)
-----------------------------------------------------------------------------
(* The ledger holds at most one row of a score, and only rows of packets   *)
(* that were published whole, as does the pointer to the latest score,     *)
(* after any crash of the scorer and any replay.                           *)
LedgerTellsScores ==
  /\ \A i, j \in 1..Len(rows) : rows[i] = rows[j] => i = j
  /\ \A i \in 1..Len(rows) : rows[i] \in 1..Len(packets) /\ packets[rows[i]].published
  /\ latest # 0 => latest \in 1..Len(packets) /\ packets[latest].published

(* load_selected_attempt refuses a score that does not select the current  *)
(* attempts.  No pass makes a packet stale: what scored is final, so no    *)
(* resume or retry, before or after, runs it again.                        *)
ScoresStayCurrent ==
  \A n \in 1..Len(packets) : packets[n].selection = selected

(* What a reader takes from the run - its exit status, the latest score,   *)
(* the rows of the ledger - agrees with the attempts the run now selects.  *)
ScoresTellTruth == ExitZeroIsScorable /\ LedgerTellsScores /\ ScoresStayCurrent
=============================================================================
