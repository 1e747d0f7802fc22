--------------------------- MODULE MeasuredReview ---------------------------
(***************************************************************************)
(* What the benchmark makes of one child process that reviews a pull       *)
(* request (runner/invoke.py), over the attempts of a run: they share the  *)
(* checkout of the plugin, the home of the child with its records, and the *)
(* output directory.  A child may change the plugin that the next one      *)
(* runs; what an attempt is credited with must be its own.                 *)
(***************************************************************************)
EXTENDS Integers, Sequences, FiniteSets, FiniteSetsExt

CONSTANTS
  Reviewed,      \* pull requests of the run
  Paths,         \* of the plugin
  Tracked,       \* those that git knows
  Starts,        \* how the operator may start a run: plugin and settings
  ControllerOwned,
  Children,      \* what a child may do: what it prints, writes and records
  MaxReviews, MaxGitFaults

(* What the operator changed before a run counts as the work of attempt 0; *)
(* what was committed by then is the plugin under test.  Credentials of    *)
(* the environment are variables: a helper is a setting.                   *)
ASSUME MeasuredAssumption ==
  /\ {MaxReviews, MaxGitFaults} \subseteq Nat
  /\ \A s \in Starts :
       /\ s.plugin \in [Paths -> [head : {{}}, index : SUBSET {0}, work : SUBSET {0}]]
       /\ s.settings.ambient \subseteq {"cloud", "auth_token", "api_key", "oauth"}
  /\ \A c \in Children : c.path \in Paths /\ c.edit \in {"none", "edits", "stages", "commits"}

VARIABLES
  plugin,        \* whose changes each path has, committed, staged and in the tree
  output,        \* the shared output directory
  prDir,         \* of each pull request: what was collected, superseded or not
  wfRecords,     \* workflow records in the child's home
  attempt,       \* the attempt that runs: what was taken down before, what the child did
  judged,        \* the attempt that ended last: what it ran on, and the result
  done,          \* attempts that ended, and the pull requests settled
  settings,      \* who is to pay, the operator's credentials, and whether there is a window
  gitFaults
measuredVars == <<plugin, output, prDir, wfRecords, attempt, judged, done, settings, gitFaults>>

Resting == [at |-> "rest"]
(* The operator's changes are those of attempt 0. *)
Unchanged == [head |-> {}, index |-> {}, work |-> {}]

MeasuredInit ==
  /\ \E s \in Starts : plugin = s.plugin /\ settings = s.settings
  /\ output = {} /\ prDir = [pr \in Reviewed |-> {}] /\ wfRecords = {}
  /\ attempt = Resting /\ judged = Resting
  /\ done = [n |-> 0, settled |-> {}]
  /\ gitFaults = 0
-----------------------------------------------------------------------------
(* git status of the plugin: what is committed does not show. *)
DirtyPaths ==
  {p \in Paths : IF p \in Tracked THEN plugin[p].work # plugin[p].index \/ plugin[p].index # plugin[p].head
                 ELSE plugin[p].work # {}}

(* Before each attempt of a window: clean tracked files, and the index of  *)
(* the run's start. *)
CleanTreatment == \A p \in Tracked : p \notin DirtyPaths /\ plugin[p].index = {}

(* git may fail to tell.  Before an attempt that is as if nothing was      *)
(* dirty; after it, as if nothing was changed. *)
GitTells(told) ==
  /\ told \/ gitFaults < MaxGitFaults
  /\ gitFaults' = IF told THEN gitFaults ELSE gitFaults + 1

(* _plugin_mutations, and _reset_plugin_repo: checkout takes a file back   *)
(* to the index, and what is untracked is deleted. *)
MutantMutations == DirtyPaths \ ControllerOwned
Mutations == {p \in DirtyPaths : p \notin ControllerOwned \cup attempt.baseline}
ResetPlugin ==
  [p \in Paths |->
     IF p \notin Mutations THEN plugin[p]
     ELSE [plugin[p] EXCEPT !.work = IF p \in Tracked THEN plugin[p].index ELSE {}]]
-----------------------------------------------------------------------------
(* build_env: Claude Code takes the first of these; a subscription strips  *)
(* what outranks its token, and is refused where a settings file has a     *)
(* helper, which cannot be stripped. *)
Precedence == <<"cloud", "auth_token", "api_key", "helper", "oauth", "login">>
Outranking == {"cloud", "auth_token", "api_key"}
ChildEnv ==
  IF settings.mode = "subscription" THEN (settings.ambient \ Outranking) \cup {"oauth"}
  ELSE settings.ambient \cup IF "api_key" \in settings.dotenv THEN {"api_key"} ELSE {}
Startable ==
  settings.mode = "subscription" =>
    /\ "oauth" \in settings.ambient \cup settings.dotenv
    /\ ~settings.helper
Bills ==
  LET usable == ChildEnv \cup (IF settings.helper THEN {"helper"} ELSE {}) \cup {"login"}
  IN Precedence[Min({i \in DOMAIN Precedence : Precedence[i] \in usable})]
-----------------------------------------------------------------------------
(* supersede_attempt_artifacts: what an earlier attempt left no longer     *)
(* counts for this one. *)
Superseded(pr) == {[f EXCEPT !.superseded = TRUE] : f \in prDir[pr]}

(* An attempt starts with an empty output directory; what is there of the  *)
(* plugin and of the records is taken down. *)
BeginReview(pr) ==
  /\ attempt = Resting /\ done.n < MaxReviews /\ pr \notin done.settled /\ Startable
  /\ settings.window => CleanTreatment
  /\ \E told \in BOOLEAN :
       /\ GitTells(told)
       /\ attempt' = [at |-> "runs", pr |-> pr, nth |-> done.n + 1, known |-> wfRecords,
                      baseline |-> IF told THEN DirtyPaths ELSE {}, ranOn |-> plugin,
                      child |-> "none"]
  /\ prDir' = [prDir EXCEPT ![pr] = Superseded(pr)]
  /\ output' = {}
  /\ UNCHANGED <<plugin, wfRecords, judged, done, settings>>

(* The child writes where it likes, and may stage or commit it.            *)
Touched(c) ==
  LET work == plugin[c.path].work \cup {attempt.nth}
  IN CASE c.edit = "none" -> plugin
       [] c.edit = "edits" -> [plugin EXCEPT ![c.path].work = work]
       [] c.edit = "stages" -> [plugin EXCEPT ![c.path].work = work, ![c.path].index = work]
       [] c.edit = "commits" -> [plugin EXCEPT ![c.path] = [head |-> work, index |-> work, work |-> work]]
File(kind, says) == [kind |-> kind, says |-> says, nth |-> attempt.nth, superseded |-> FALSE]
ChildRuns ==
  /\ attempt.at = "runs"
  /\ \E c \in Children :
       /\ plugin' = Touched(c)
       /\ output' = (IF c.report # "none" THEN {File("report", c.report)} ELSE {})
                      \cup IF c.payload THEN {File("payload", "none")} ELSE {}
       /\ wfRecords' = wfRecords \cup {[r |-> r, nth |-> attempt.nth] : r \in c.records}
       /\ attempt' = [attempt EXCEPT !.at = "ended", !.child = c]
  /\ UNCHANGED <<prDir, judged, done, settings, gitFaults>>
-----------------------------------------------------------------------------
(* What the attempt is judged by. *)
Child == attempt.child
Reports == {f \in output \cup prDir[attempt.pr] : f.kind = "report" /\ ~f.superseded}
NewRecords == {w.r : w \in wfRecords \ attempt.known}

(* _echo_ok: the configuration is told in what was printed, in the result, *)
(* or in a report. *)
EchoOk ==
  \/ {Child.printed, Child.result} \cap {"echo", "ours", "other"} # {}
  \/ Reports # {}

(* extract_identity_receipt: a report is rendered by code, and goes before *)
(* what a model may have typed. *)
Identity ==
  IF \E f \in Reports : f.says \in {"ours", "other"}
  THEN (CHOOSE f \in Reports : f.says \in {"ours", "other"}).says
  ELSE IF Child.result \in {"ours", "other"} THEN Child.result ELSE Child.printed

(* _workflow_failure: of the records of this bundle and output, one that   *)
(* succeeded makes up for those that failed, whichever comes first. *)
Correlated == {r \in NewRecords : r.bundle = "ours" /\ r.output = "this"}
PipelineFailed ==
  /\ \E r \in Correlated : r.result \in {"failed", "degraded"}
  /\ \A r \in Correlated : r.result # "ok"
(* A receipt of a review that stopped before its workflow started.         *)
StoppedEarly == NewRecords = {} /\ Child.transcript = "ours"

IdentityWrong == Identity # "ours" \/ \E r \in NewRecords : r.bundle # "ours"

(* invoke_review, once the child has exited: the first that applies. *)
Ruling(mutated) ==
  LET checks ==
        <<<<mutated, "invalid", "plugin_mutated_by_child">>,
          <<Child.asks, "invalid", "askuserquestion_detected">>,
          <<Child.envelope # "ok" \/ Child.exit # 0, "failed", "process">>,
          <<Child.backgrounded, "invalid", "workflow_backgrounded">>,
          <<PipelineFailed, "failed", "pipeline_failed">>,
          <<~EchoOk /\ StoppedEarly, "failed", "pre_workflow_stop">>,
          <<~EchoOk, "invalid", "config_echo_mismatch">>,
          <<IdentityWrong, "invalid", "plugin_identity_mismatch">>,
          <<\A f \in output : f.kind # "payload", "failed", "no_payload">>,
          <<TRUE, "ok", "none">>>>
  IN checks[Min({i \in DOMAIN checks : checks[i][1]})]

(* _collect_artifacts *)
Collect ==
  /\ prDir' = [prDir EXCEPT ![attempt.pr] = @ \cup output]
  /\ output' = {}

Ends(status, reason) ==
  /\ judged' = [at |-> "judged", nth |-> attempt.nth, ranOn |-> attempt.ranOn, left |-> plugin,
                status |-> status, reason |-> reason,
                payload |-> {f.nth : f \in {f \in output : f.kind = "payload"}},
                vouched |-> {f.nth : f \in Reports}, records |-> NewRecords, says |-> Identity]
  /\ done' = [n |-> attempt.nth, settled |-> done.settled \cup IF status = "ok" THEN {attempt.pr} ELSE {}]
  /\ attempt' = Resting
  /\ Collect

(* What the child changed of the plugin is taken back before anything else *)
(* is asked. *)
TakesBack(told) ==
  /\ GitTells(told)
  /\ plugin' = IF told THEN ResetPlugin ELSE plugin

JudgeReview ==
  /\ attempt.at = "ended"
  /\ \E told \in BOOLEAN :
       /\ TakesBack(told)
       /\ LET verdict == Ruling(told /\ Mutations # {}) IN Ends(verdict[2], verdict[3])
  /\ UNCHANGED <<wfRecords, settings>>

ReviewTimesOut ==
  /\ attempt.at = "ended"
  /\ \E told \in BOOLEAN : TakesBack(told)
  /\ Ends("timeout", "watchdog_timeout")
  /\ UNCHANGED <<wfRecords, settings>>

MeasuredNext == (\E pr \in Reviewed : BeginReview(pr)) \/ ChildRuns \/ JudgeReview \/ ReviewTimesOut

MeasuredSpec == MeasuredInit /\ [][MeasuredNext]_measuredVars
-----------------------------------------------------------------------------
Scored == judged # Resting /\ judged.status = "ok"
Changed(p, layers) == {n \in layers[p].work : n > 0}

(* The plugin of a review that is scored is the one the run started with:  *)
(* a change of an earlier child is in it only in a file the operator had   *)
(* changed, too, and in a run without a window in one that an earlier      *)
(* child staged or committed. *)
RanOnOriginal ==
  Scored /\ gitFaults = 0 =>
    \A p \in Paths \ ControllerOwned : \A n \in Changed(p, judged.ranOn) :
      \/ 0 \in judged.ranOn[p].work \cup judged.ranOn[p].index
      \/ ~settings.window /\ Changed(p, judged.ranOn) \cap judged.ranOn[p].index # {}

(* No more did it change the plugin itself.                                *)
LeftOriginal ==
  Scored /\ gitFaults = 0 =>
    \A p \in Paths \ ControllerOwned :
      judged.nth \in judged.left[p].work =>
        judged.ranOn[p] # Unchanged \/ judged.nth \in judged.left[p].head

(* The operator's changes of the plugin outlive the run.                   *)
OperatorKeeps ==
  judged # Resting /\ gitFaults = 0 =>
    \A p \in Paths : 0 \in judged.ranOn[p].work => 0 \in plugin[p].work

(* What a review is scored by is its own: its report, its payload, and     *)
(* records of this plugin, which do not tell of a failure that was not     *)
(* made up for. *)
OwnEvidence ==
  Scored =>
    LET told == {r \in judged.records : r.output = "this"}
    IN /\ judged.vouched \subseteq {judged.nth} /\ judged.payload = {judged.nth} /\ judged.says = "ours"
       /\ \A r \in judged.records : r.bundle = "ours"
       /\ (\E r \in told : r.result \in {"failed", "degraded"}) => \E r \in told : r.result = "ok"

(* The account that pays is the one that was asked for. *)
BilledAsAsked ==
  Startable =>
    /\ settings.mode = "subscription" => Bills = "oauth"
    /\ /\ settings.mode = "api" /\ "api_key" \in settings.dotenv
       /\ settings.ambient \cap {"cloud", "auth_token"} = {}
       => Bills = "api_key"

(* Whatever the children of a run do to what they share, a review that is  *)
(* scored ran the plugin under test and is judged by what it did itself.   *)
CreditIsOwn ==
  RanOnOriginal /\ LeftOriginal /\ OperatorKeeps /\ OwnEvidence /\ BilledAsAsked
=============================================================================
