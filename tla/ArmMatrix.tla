------------------------------ MODULE ArmMatrix ------------------------------
(***************************************************************************)
(* The evidence a comparison of two arms rests on (bench/runner/windows.py *)
(* and validity.py, bench/run.py, compare.py).  A window fixes hours, the  *)
(* CLI, a treatment for each arm and the order of the runs; runs of both   *)
(* arms are then made by separate commands, beside each other or days      *)
(* apart, on a host whose CLI and checkouts may change.  A comparison      *)
(* names runs of one or more windows, its blocks, and takes them only as a *)
(* complete, interleaved matrix.  Confirmed usage limits, deliverables and *)
(* scores of a run are in BenchSession and BenchScoring.                   *)
(***************************************************************************)
EXTENDS GateProtocol

CONSTANTS
  Scope,        \* pull requests a window may ask for
  CLI,          \* versions of the CLI
  Hours,        \* how long a window may be open
  MaxMinute, MaxWindows, MaxPlanned, MaxRuns, MaxTries, MaxChanges  \* bounds

ASSUME MatrixAssumption ==
  /\ Hours \subseteq Nat \ {0}
  /\ {MaxMinute, MaxWindows, MaxPlanned, MaxRuns, MaxTries, MaxChanges} \subseteq Nat

VARIABLES
  minute,
  lab,      \* the CLI installed and the checkout of each arm, and how often they changed
  windows,  \* declarations on disk
  runs      \* run directories: what each was started as, and the tries of each pull request

matrixVars == <<minute, lab, windows, runs>>

Arms == {Arm[1], Arm[2]}

(* capture_fingerprint *)
Fingerprint(a) == [cli |-> lab.cli, tree |-> lab.trees[a]]

MInit ==
  /\ minute = 0
  /\ \E cli \in CLI, trees \in [Arms -> Treatment] : lab = [cli |-> cli, trees |-> trees, changes |-> 0]
  /\ windows = <<>> /\ runs = <<>>

MinutePasses == minute < MaxMinute /\ minute' = minute + 1 /\ UNCHANGED <<lab, windows, runs>>

(* The CLI updates, or one checkout is moved to another treatment. *)
HostChanges ==
  /\ lab.changes < MaxChanges
  /\ \/ \E cli \in CLI \ {lab.cli} : lab' = [lab EXCEPT !.cli = cli, !.changes = @ + 1]
     \/ \E a \in Arms : \E t \in Treatment \ {lab.trees[a]} :
          lab' = [lab EXCEPT !.trees[a] = t, !.changes = @ + 1]
  /\ UNCHANGED <<minute, windows, runs>>

(* create_window: both arms are captured, for hours that begin now or      *)
(* later; the order planned is baseline first, index by index. *)
OpenWindow ==
  /\ Len(windows) < MaxWindows
  /\ \E scope \in (SUBSET Scope) \ {{}}, n \in 1..MaxPlanned, opens \in {minute, minute + 1}, hours \in Hours :
       windows' = Append(windows, [opens |-> opens, closes |-> opens + hours, cli |-> lab.cli,
                                   trees |-> lab.trees, scope |-> scope, plan |-> 1..n])
  /\ UNCHANGED <<minute, lab, runs>>
-----------------------------------------------------------------------------
(* check_window *)
Conforms(w, a, saw, at) == saw = [cli |-> w.cli, tree |-> w.trees[a]] /\ at \in w.opens..w.closes

(* run.py main, before any spend; nothing keeps an index from being run    *)
(* again, by another run. *)
StartRun ==
  /\ Len(runs) < MaxRuns
  /\ \E n \in DOMAIN windows, a \in Arms :
       /\ Conforms(windows[n], a, Fingerprint(a), minute)
       /\ \E i \in windows[n].plan :
            runs' = Append(runs, [window |-> n, arm |-> a, index |-> i, started |-> minute,
                                  saw |-> Fingerprint(a),
                                  tries |-> [pr \in windows[n].scope |-> <<>>]])
  /\ UNCHANGED <<minute, lab, windows>>

WindowOf(r) == windows[runs[r].window]
Tries(r, pr) == runs[r].tries[pr]
Running(r) == \E pr \in DOMAIN runs[r].tries :
                Tries(r, pr) # <<>> /\ Last(Tries(r, pr)).state \in {"checked", "running"}
WithTries(r, pr, tries) == runs' = [runs EXCEPT ![r].tries[pr] = tries]
TriesMade == LET per(r) == MapThenSumSet(LAMBDA pr : Len(Tries(r, pr)), DOMAIN runs[r].tries)
             IN MapThenSumSet(per, DOMAIN runs)

(* Mutant: the run was checked when it started. *)
MutantUnchanged(r) == TRUE

(* _run_prs, before every child: the host is what the run was started on,  *)
(* and the window is still open. *)
SameContext(r) ==
  LET now == Fingerprint(runs[r].arm)
  IN now = runs[r].saw /\ Conforms(WindowOf(r), runs[r].arm, now, minute)

(* A pull request is due until it has a try, and again while its last is   *)
(* retryable; a run reviews one at a time.  A try starts with the check.   *)
BeginTry(r, pr) ==
  /\ ~Running(r) /\ SameContext(r) /\ TriesMade < MaxTries
  /\ Tries(r, pr) # <<>> => Last(Tries(r, pr)).state = "invalid"
  /\ WithTries(r, pr, Append(Tries(r, pr),
       [state |-> "checked", began |-> minute, ended |-> minute, ran |-> Fingerprint(runs[r].arm),
        checked |-> lab.changes, launched |-> lab.changes, ok |-> FALSE, left |-> lab.cli]))
  /\ UNCHANGED <<minute, lab, windows>>

(* Once there are a mirror and a worktree, pinned_cli looks at the CLI     *)
(* again and the child is launched; nothing looks at the checkout again.   *)
LaunchTry(r, pr) ==
  LET tries == Tries(r, pr)
      n == Len(tries)
  IN /\ n > 0 /\ tries[n].state = "checked" /\ lab.cli = runs[r].saw.cli
     /\ WithTries(r, pr, [tries EXCEPT ![n] = [@ EXCEPT !.state = "running",
                                                         !.ran = Fingerprint(runs[r].arm),
                                                         !.launched = lab.changes]])
     /\ UNCHANGED <<minute, lab, windows>>

(* collect_attempt: the window's hours, and the CLI once more; a failure   *)
(* that follows a failure is final.  started_at is from before the child.  *)
InOrder(r) == Conforms(WindowOf(r), runs[r].arm, runs[r].saw, minute) /\ lab.cli = runs[r].saw.cli
TryOutcome(r, pr, ok) ==
  LET tries == Tries(r, pr)
      n == Len(tries)
  IN IF ok /\ InOrder(r) THEN "valid"
     ELSE IF n > 1 /\ tries[n - 1].state = "invalid" /\ tries[n - 1].ended <= tries[n].began
     THEN "operational_failure" ELSE "invalid"

(* A try without a child - no mirror, inputs that drifted, another CLI -   *)
(* fails. *)
EndTry(r, pr) ==
  LET tries == Tries(r, pr)
      n == Len(tries)
  IN /\ n > 0 /\ tries[n].state \in {"checked", "running"}
     /\ \E ok \in {FALSE, tries[n].state = "running"} :
          WithTries(r, pr, [tries EXCEPT ![n] = [@ EXCEPT !.state = TryOutcome(r, pr, ok),
                                                          !.ended = minute, !.ok = ok,
                                                          !.left = lab.cli]])
     /\ UNCHANGED <<minute, lab, windows>>

(* A pass that is killed records no attempt: the pull request is as before *)
PassKilled(r, pr) ==
  /\ Tries(r, pr) # <<>> /\ Last(Tries(r, pr)).state \in {"checked", "running"}
  /\ WithTries(r, pr, Front(Tries(r, pr)))
  /\ UNCHANGED <<minute, lab, windows>>

MatrixNext ==
  \/ MinutePasses \/ HostChanges \/ OpenWindow \/ StartRun
  \/ \E r \in DOMAIN runs : \E pr \in DOMAIN runs[r].tries :
       BeginTry(r, pr) \/ LaunchTry(r, pr) \/ EndTry(r, pr) \/ PassKilled(r, pr)
MatrixSpec == MInit /\ [][MatrixNext]_matrixVars
-----------------------------------------------------------------------------
(* load_selected_attempt: the last try of a run that scores (BenchScoring) *)
SelectedTry(r, pr) == Last(Tries(r, pr))
Scores(r) == \A pr \in DOMAIN runs[r].tries :
               Tries(r, pr) # <<>> /\ SelectedTry(r, pr).state \in {"valid", "operational_failure"}

(* validate_matrix: a cell is in its window when its try began. *)
CellConforms(r, pr) ==
  Conforms(WindowOf(r), runs[r].arm, runs[r].saw, SelectedTry(r, pr).began)

(* matrix_for_arm, for one run of the arm *)
Fits(a, r) ==
  /\ runs[r].arm = a /\ Scores(r)
  /\ Conforms(WindowOf(r), a, runs[r].saw, runs[r].started)
  /\ \A pr \in DOMAIN runs[r].tries : CellConforms(r, pr)

(* A comparison names as many runs of each arm as its rule says, none      *)
(* twice, in an order of its own, and windows. *)
Listings(a, k) == {s \in [1..k -> {r \in DOMAIN runs : Fits(a, r)}] : IsInjective(s)}
Comparison ==
  UNION {[runs : {[a \in Arms |-> IF a = Arm[1] THEN s ELSE t] :
                    s \in Listings(Arm[1], RunCount(x)), t \in Listings(Arm[2], RunCount(x))},
          blocks : SUBSET DOMAIN windows] : x \in BOOLEAN}

(* resolve_blocks: the runs named of a window; those of each arm are, in   *)
(* the order listed, the same planned prefix. *)
Placed(c, b, a) == {i \in DOMAIN c.runs[a] : runs[c.runs[a][i]].window = b}
Length(c, b) == Cardinality(Placed(c, b, Arm[1]))
Balanced(c, b) ==
  \A a \in Arms :
    LET index(i) == runs[c.runs[a][i]].index
    IN /\ {index(i) : i \in Placed(c, b, a)} = 1..Length(c, b)
       /\ \A i, j \in Placed(c, b, a) : i < j => index(i) < index(j)

(* The run of an index, in a balanced block. *)
InBlock(c, b, a, i) ==
  c.runs[a][CHOOSE p \in Placed(c, b, a) : runs[c.runs[a][p]].index = i]
StartsOf(r) == [start |-> runs[r].started,
                attempts |-> {SelectedTry(r, pr).began : pr \in DOMAIN runs[r].tries}]
InOrderOf(c, b) ==
  [i \in 1..(2 * Length(c, b)) |-> StartsOf(InBlock(c, b, Arm[1 + ((i - 1) % 2)], (i + 1) \div 2))]

(* compare_arms, for a gate: windows with room for every run of the rule,  *)
(* that agree on treatments and pull requests; their CLI may differ.       *)
Accepts(c) ==
  /\ MapThenSumSet(LAMBDA b : Cardinality(windows[b].plan), c.blocks) >= RunCount(TRUE)
  /\ \A b, d \in c.blocks : windows[b].trees = windows[d].trees /\ windows[b].scope = windows[d].scope
  /\ \A a \in Arms : \A i \in DOMAIN c.runs[a] : runs[c.runs[a][i]].window \in c.blocks
  /\ \A b \in c.blocks : Balanced(c, b) /\ Interleaved(InOrderOf(c, b))
-----------------------------------------------------------------------------
(* Each cell was reviewed in its window's hours and, from start to end,    *)
(* with its CLI; it was launched under its arm's treatment, unless the     *)
(* host changed between the check and the launch, for nobody compares the  *)
(* checkout again.  A cell that counts as all missed has two tries that    *)
(* came to nothing, one after the other. *)
Steady(t) == t.launched = t.checked
TellsOf(w, a, t) ==
  /\ t.ran.cli = w.cli /\ t.began \in w.opens..w.closes
  /\ Steady(t) => t.ran.tree = w.trees[a]
CellIsEarned(a, r, pr) ==
  LET w == WindowOf(r)
      n == Len(Tries(r, pr))
      t == SelectedTry(r, pr)
      before == Tries(r, pr)[n - 1]
  IN /\ TellsOf(w, a, t)
     /\ t.state = "valid" => t.ok /\ t.ended <= w.closes /\ t.left = w.cli
     /\ t.state # "valid" => n > 1 /\ TellsOf(w, a, before) /\ before.state = "invalid"
                             /\ before.ended <= t.began

(* In each block, by any minute, no arm is more than one run ahead. *)
BegunBy(r, m) == \E pr \in DOMAIN runs[r].tries : SelectedTry(r, pr).began <= m
NoneAhead(c, b) ==
  \A a, o \in Arms, i \in 2..Length(c, b), m \in 0..minute :
    BegunBy(InBlock(c, b, a, i), m) => BegunBy(InBlock(c, b, o, i - 1), m)

(* bench/MEASUREMENT.md: a comparison is a complete matrix of independent  *)
(* runs, under one CLI for each block and one treatment for each arm, in   *)
(* an order that favours no arm - whichever runs were repeated, killed or  *)
(* retried, and however the host changed, but for a checkout that moves    *)
(* after it was checked for a child and before the child is launched.      *)
ArmsAreComparable ==
  \A c \in Comparison : Accepts(c) =>
    /\ \A a \in Arms : \A i, j \in DOMAIN c.runs[a] :
         \A pr \in DOMAIN runs[c.runs[a][i]].tries :
           /\ CellIsEarned(a, c.runs[a][i], pr)
           /\ pr \in DOMAIN runs[c.runs[a][j]].tries
           /\ LET t == SelectedTry(c.runs[a][i], pr)
                  u == SelectedTry(c.runs[a][j], pr)
              IN Steady(t) /\ Steady(u) => u.ran.tree = t.ran.tree
    /\ \A b \in c.blocks : NoneAhead(c, b)
=============================================================================
