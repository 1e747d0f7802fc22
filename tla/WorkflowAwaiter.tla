-------------------------- MODULE WorkflowAwaiter --------------------------
(***************************************************************************)
(* scripts/gauntlet/awaiting.py: the host blocks on a background workflow  *)
(* through a chain of bounded attempts.  Each poll first looks for the     *)
(* workflow's return in its task file and then stats the artifacts, which  *)
(* count only if they were written since the floor the first attempt set   *)
(* and every retry command carries on.                                     *)
(*                                                                         *)
(* Time is a clock that ticks between polls and between the two halves of  *)
(* one; an awaiter may oversleep its deadline by up to Slack.              *)
(***************************************************************************)
EXTENDS Naturals

CONSTANTS
  Files,        \* the persisted artifacts
  MaxAttempts,  \* --max-attempts
  Timeout,      \* --timeout-seconds
  Grace,        \* --artifacts-grace-seconds
  Slack         \* bound on how late a poll may come after the deadline

ASSUME ClockAssumption ==
  MaxAttempts \in Nat \ {0} /\ Timeout \in Nat /\ Grace \in Nat /\ Slack \in Nat
ASSUME FilesAssumption == Files # {}

Launch == 1                                           \* earlier reviews lie before
Horizon == Launch + MaxAttempts * (Timeout + Slack)   \* no clock runs past it
Never == Horizon + 1

VARIABLES
  now,       \* the clock
  mtime,     \* per file
  hollow,    \* files of size zero
  channel,   \* how this run hands over: "files" or "return"
  task,      \* its task file: none, open, terminal
  pc,        \* the awaiter: start, observe, stat, sleep, exited
  nth,       \* the number of this attempt
  since,     \* --since-epoch of this attempt
  deadline,
  resolved,  \* the target was resolved by this poll's observation
  completeAt,\* artifacts_complete_at
  whole,     \* history: when every file first held this run's bytes
  outcome    \* of the last attempt: terminal, pending, artifacts_only, timeout, error

envVars == <<mtime, hollow, channel, task>>
avars == <<now, envVars, pc, nth, since, deadline, resolved, completeAt, whole, outcome>>

Init ==
  /\ now = Launch
  /\ mtime = [f \in Files |-> 0]
  /\ hollow \in SUBSET Files        \* absent, truncated, or left of an earlier review
  /\ channel \in {"files", "return"}
  /\ task = "none"
  /\ pc = "start" /\ nth = 1
  /\ since = 0 /\ deadline = 0
  /\ resolved = FALSE /\ completeAt = Never /\ whole = Never
  /\ outcome = "pending"
-----------------------------------------------------------------------------
(* The workflow. *)

(* Persist writes its files in any order, some more than once and some     *)
(* without content, all before it returns.                                 *)
WriteArtifact(f) ==
  /\ channel = "files"
  /\ task # "terminal"
  /\ mtime' = [mtime EXCEPT ![f] = now]
  /\ hollow' \in {hollow \ {f}, hollow \cup {f}}
  /\ whole' = IF whole = Never /\ \A g \in Files : g \notin hollow' /\ mtime'[g] >= Launch
              THEN now ELSE whole
  /\ UNCHANGED <<now, channel, task, pc, nth, since, deadline, resolved, completeAt, outcome>>

(* The task file appears, with or without the return. *)
TaskFile ==
  /\ task # "terminal"
  /\ task' \in {"open", "terminal"}
  /\ UNCHANGED <<now, mtime, hollow, channel, pc, nth, since, deadline, resolved, completeAt, whole, outcome>>

Tick ==
  /\ pc \in {"observe", "stat", "sleep"}
  /\ now < deadline + Slack
  /\ now' = now + 1
  /\ UNCHANGED <<envVars, pc, nth, since, deadline, resolved, completeAt, whole, outcome>>
-----------------------------------------------------------------------------
(* The awaiter. *)

(* Mutant: every attempt sets a floor of its own. *)
MutantFloor == now

(* Only the first attempt sets the floor; a retry is given it. *)
Floor == IF nth = 1 THEN now ELSE since

StartAttempt ==
  /\ pc = "start"
  /\ since' = Floor
  /\ deadline' = now + Timeout
  /\ completeAt' = Never
  /\ pc' = "observe"
  /\ UNCHANGED <<now, envVars, nth, resolved, whole, outcome>>

(* The exit status is printed as a receipt; when that fails it is an error. *)
Exit(kind) ==
  /\ pc' = "exited"
  /\ outcome' \in {kind, "error"}

Observe ==
  /\ pc = "observe"
  /\ resolved' = (task # "none")
  /\ IF task = "terminal" THEN Exit("terminal") ELSE pc' = "stat" /\ UNCHANGED outcome
  /\ UNCHANGED <<now, envVars, nth, since, deadline, completeAt, whole>>

(* Mutant: what lies there is there. *)
MutantFresh(f) == f \notin hollow

Fresh(f) == f \notin hollow /\ mtime[f] >= since
Complete == \A f \in Files : Fresh(f)

(* When this attempt first saw the artifacts complete, without a gap. *)
SeenSince == IF completeAt = Never THEN now ELSE completeAt

LastAttempt == nth >= MaxAttempts

(* Mutant: complete artifacts keep the attempt waiting for a return. *)
MutantExpired == now >= deadline /\ ~Complete

Expired == now >= deadline

(* Mutant: the deadline of any attempt is the last resort. *)
MutantUseArtifacts == (~resolved /\ now >= SeenSince + Grace) \/ Expired

(* A resolved target may still get its return, so it has until the end. *)
UseArtifacts == (~resolved /\ now >= SeenSince + Grace) \/ (LastAttempt /\ Expired)

Settle ==
  /\ Complete /\ UseArtifacts
  /\ Exit("artifacts_only")

StopWaiting ==
  /\ ~(Complete /\ UseArtifacts)
  /\ Expired
  /\ Exit(IF LastAttempt THEN "timeout" ELSE "pending")

Sleep ==
  /\ ~(Complete /\ UseArtifacts)
  /\ ~Expired
  /\ pc' = "sleep"
  /\ UNCHANGED outcome

Stat ==
  /\ pc = "stat"
  /\ completeAt' = IF Complete THEN SeenSince ELSE Never
  /\ Settle \/ StopWaiting \/ Sleep
  /\ UNCHANGED <<now, envVars, nth, since, deadline, resolved, whole>>

(* The poll interval, cut at the deadline. *)
Wake ==
  /\ pc = "sleep"
  /\ pc' = "observe"
  /\ UNCHANGED <<now, envVars, nth, since, deadline, resolved, completeAt, whole, outcome>>

(* The process is interrupted, or discovery of the task roots raises. *)
Fails ==
  /\ pc \in {"observe", "stat", "sleep"}
  /\ pc' = "exited"
  /\ outcome' = "error"
  /\ UNCHANGED <<now, envVars, nth, since, deadline, resolved, completeAt, whole>>

(* The host runs next_command. *)
NextCommand ==
  /\ pc = "exited" /\ outcome = "pending"
  /\ nth' = nth + 1
  /\ pc' = "start"
  /\ UNCHANGED <<now, envVars, since, deadline, resolved, completeAt, whole, outcome>>

Awaiter == StartAttempt \/ Observe \/ Stat \/ Wake \/ NextCommand

Next ==
  \/ \E f \in Files : WriteArtifact(f)
  \/ TaskFile \/ Tick \/ Fails
  \/ Awaiter

Spec == Init /\ [][Next]_avars

(* The awaiter runs, time passes, and the host follows the retry command;  *)
(* the workflow owes nothing.  Sleeping takes time, so a poll loop cannot  *)
(* starve the clock.                                                       *)
LiveSpec == Spec /\ WF_avars(Awaiter) /\ WF_avars(Tick)
-----------------------------------------------------------------------------
TypeOK ==
  /\ now \in Launch..Horizon
  /\ mtime \in [Files -> 0..Horizon]
  /\ hollow \subseteq Files
  /\ channel \in {"files", "return"}
  /\ task \in {"none", "open", "terminal"}
  /\ pc \in {"start", "observe", "stat", "sleep", "exited"}
  /\ nth \in 1..MaxAttempts
  /\ since \in 0..Horizon
  /\ deadline \in 0..Horizon
  /\ resolved \in BOOLEAN
  /\ completeAt \in 0..Never
  /\ whole \in 0..Never
  /\ outcome \in {"terminal", "pending", "artifacts_only", "timeout", "error"}

Gone == pc = "exited" /\ outcome # "pending"

(* Artifacts stand in for a return only if this run wrote every one.  A    *)
(* run on the return channel writes none, so it never ends that way.       *)
ArtifactsAreThisRuns ==
  (pc = "exited" /\ outcome = "artifacts_only") =>
     /\ channel = "files"
     /\ \A f \in Files : mtime[f] >= Launch

(* A timeout is declared only when, at the last poll, some artifact had    *)
(* not been written in all the time the chain of attempts has waited: one  *)
(* of the first attempt still counts in the last.                          *)
TimeoutMeansMissing ==
  [][outcome' = "timeout" /\ pc = "stat" =>
       \E f \in Files : f \in hollow \/ mtime[f] < Launch]_avars

(* With a live task file in sight, the awaiter settles for artifacts only  *)
(* when the whole chain's time is up; without one, no sooner than a grace  *)
(* period after this run had written them all.                             *)
Patience ==
  [][outcome' = "artifacts_only" /\ pc = "stat" =>
       \/ now >= Launch + MaxAttempts * Timeout
       \/ ~resolved /\ whole + Grace <= now]_avars

(* The chain ends, whatever the workflow does. *)
ChainEnds == <>Gone
=============================================================================
