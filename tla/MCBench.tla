------------------------------ MODULE MCBench ------------------------------
(***************************************************************************)
(* The benchmark's modules for model checking, in one run of TLC.  A run   *)
(* directory, the desk that decides about runs, the judgement of each      *)
(* child and the runs of two arms share no state: topic says which of them *)
(* a behaviour is about - the passes over a run directory under either     *)
(* credential, or with a scorer beside them under one; the looks at the    *)
(* gate or the holdout for the desk; the order, the blocks or the cells of *)
(* a matrix for the arms - and the others stay as they started. *)
(***************************************************************************)
EXTENDS BenchScoring, ArmMatrix, MeasuredReview, TLC

CONSTANTS p1, p2, d1, d2, t1, t2, h1, h2
TwoPRs == <<p1, p2>>

(* Children that deliver, stop early, run another bundle, end with a mixed *)
(* result or ask, and those that change the plugin: a file of its own, an  *)
(* untracked one, the ledger the controller writes. *)
Rec(bundle, place, result) == [bundle |-> bundle, output |-> place, result |-> result]
Kid(printed, result, transcript, vouches, delivers, records) ==
  [printed |-> printed, result |-> result, transcript |-> transcript, report |-> vouches,
   payload |-> delivers, records |-> records, asks |-> FALSE, backgrounded |-> FALSE,
   envelope |-> "ok", exit |-> 0, path |-> "skill", edit |-> "none"]
Good == Kid("none", "none", "none", "ours", TRUE, {Rec("ours", "this", "ok")})
McPaths == {"skill", "extra", "ledger"}
McChildren ==
  {Good, [Good EXCEPT !.asks = TRUE], [Good EXCEPT !.exit = 1],
   [Good EXCEPT !.backgrounded = TRUE], [Good EXCEPT !.payload = FALSE],
   Kid("none", "ours", "none", "none", TRUE, {}),
   Kid("none", "none", "ours", "none", FALSE, {}),
   Kid("ours", "none", "none", "other", TRUE, {Rec("other", "other", "ok")}),
   Kid("echo", "none", "none", "none", TRUE,
       {Rec("ours", "this", "failed"), Rec("ours", "this", "ok")}),
   Kid("ours", "ours", "none", "none", TRUE,
       {Rec("ours", "this", "degraded"), Rec("ours", "other", "ok")})}
    \cup {[Good EXCEPT !.path = p, !.edit = "edits"] : p \in McPaths}
    \cup {[Good EXCEPT !.edit = e] : e \in {"stages", "commits"}}

(* A window, and operators with changes of their own: in the tree, staged  *)
(* too, and staged but taken back in the tree. *)
Of3(s, x, l) == ("skill" :> s) @@ ("extra" :> x) @@ ("ledger" :> l)
Mine == [Unchanged EXCEPT !.work = {0}]
MineStaged == [Mine EXCEPT !.index = {0}]
TakenBack == [Unchanged EXCEPT !.index = {0}]
Setting(mode, ambient, dotenv, helper, window) ==
  [mode |-> mode, ambient |-> ambient, dotenv |-> dotenv, helper |-> helper, window |-> window]
McStarts ==
  {[plugin |-> Of3(Unchanged, Unchanged, Unchanged),
    settings |-> Setting("subscription", {"cloud", "api_key"}, {"oauth", "api_key"}, FALSE, w)] :
     w \in BOOLEAN}
    \cup {[plugin |-> l,
           settings |-> Setting("api", {"api_key", "oauth"}, {"api_key"}, TRUE, FALSE)] :
            l \in {Of3(Mine, Unchanged, Unchanged), Of3(MineStaged, Mine, Unchanged),
                   Of3(TakenBack, Unchanged, Unchanged)}}
-----------------------------------------------------------------------------
VARIABLE topic

(* Arms, three ways, since each alone has states enough.  Runs of a block  *)
(* in any order and at any times, where nothing fails or changes and no    *)
(* minute passes without a start, for only their order is compared; two    *)
(* blocks between which a checkout may change, where no time passes; and   *)
(* two runs beside each other whose tries fail, are killed or repeated,    *)
(* and meet a change of the host or the end of their window; of two tries  *)
(* under way, that of the first run is launched.  Runs started in the same *)
(* minute are named in one order, for an order of names means nothing. *)
Rank(r) == (IF runs[r].arm = Arm[1] THEN 0 ELSE MaxPlanned) + runs[r].index
LastIsNewCell ==
  LET q == Len(runs)
  IN \A r \in 1..(q - 1) :
       /\ runs[r].window = runs[q].window => Rank(r) # Rank(q)
       /\ (runs[r].started = runs[q].started /\ topic # "blocks") => Rank(r) < Rank(q)
Smooth ==
  /\ \A r \in DOMAIN runs : Running(r) => runs'[r] # runs[r]
  /\ (\A r \in DOMAIN runs :
        /\ Len(runs) * Cardinality(DOMAIN runs[r].tries) <= MaxRuns
        /\ \A pr \in DOMAIN runs[r].tries : \A i \in DOMAIN Tries(r, pr) :
             Tries(r, pr)[i].state \in {"checked", "running", "valid"})'
Eventful ==
  \E r \in DOMAIN runs :
    \/ runs[r].started = minute
    \/ \E pr \in DOMAIN runs[r].tries :
         Tries(r, pr) # <<>> /\ Last(Tries(r, pr)).began = minute
OrderStep ==
  /\ lab' = lab /\ minute' <= 2 /\ Len(windows') = 1 /\ windows'[1].opens = 0
  /\ minute' # minute => Eventful
  /\ Smooth
BlocksStep ==
  /\ lab'.cli = lab.cli /\ minute' = minute
  /\ (\A n \in DOMAIN windows : windows[n].plan = {1} /\ windows[n].opens = 0)'
  /\ Smooth
CellsStep ==
  /\ Len(windows') > Len(windows) => minute = 0
  /\ (\A n \in DOMAIN windows : n = 1 /\ windows[n].scope = {p1} /\ windows[n].plan = 1..2)'
  /\ (\A r \in DOMAIN runs : r <= 2 /\ runs[r].index = 1)' /\ TriesMade' <= 3
  /\ (lab.changes = 0 \/ minute < MaxMinute)'
  /\ (\A r, q \in DOMAIN runs : r < q /\ Running(r) /\ Running(q) =>
        Last(Tries(r, p1)).state = "running")'
  /\ lab'.trees[Arm[1]] = t1
ArmsStep ==
  /\ MatrixNext
  /\ CASE topic = "order" -> OrderStep [] topic = "blocks" -> BlocksStep [] OTHER -> CellsStep
  /\ Len(runs') > Len(runs) => LastIsNewCell'

(* A third candidate is there to extend a look. *)
LooksStep == Len(candidates') = 3 => reports # <<>>

NoReviews == plugin = Of3(Unchanged, Unchanged, Unchanged) /\ settings.window
TwoArms == lab.cli = 1 /\ lab.trees = (Arm[1] :> t1) @@ (Arm[2] :> t2)

MCInit ==
  /\ topic \in {"runs", "scores", "looks", "holdout", "reviews", "order", "blocks", "cells"}
  /\ SInit /\ GInit /\ MeasuredInit /\ MInit
  /\ (topic # "reviews" => NoReviews) /\ TwoArms
MCNext ==
  /\ UNCHANGED topic
  /\ \/ topic = "runs" /\ Session /\ UNCHANGED <<gateVars, matrixVars, measuredVars>>
     \/ topic = "scores" /\ SNext /\ pass'.mode = "api" /\ UNCHANGED <<gateVars, matrixVars, measuredVars>>
     \/ topic = "looks" /\ GateNext /\ LooksStep /\ UNCHANGED <<allVars, matrixVars, measuredVars>>
     \/ topic = "holdout" /\ HoldoutNext /\ UNCHANGED <<allVars, matrixVars, measuredVars>>
     \/ topic = "reviews" /\ MeasuredNext /\ UNCHANGED <<allVars, gateVars, matrixVars>>
     \/ topic \in {"order", "blocks", "cells"} /\ ArmsStep /\ UNCHANGED <<allVars, gateVars, measuredVars>>

mcVars == <<allVars, gateVars, measuredVars, matrixVars, topic>>
MCSpec == MCInit /\ [][MCNext]_mcVars
          /\ WF_allVars(PassStep /\ UNCHANGED <<scoreVars, gateVars, measuredVars, matrixVars, topic>>)
=============================================================================
