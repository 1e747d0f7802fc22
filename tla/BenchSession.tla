---------------------------- MODULE BenchSession ----------------------------
(***************************************************************************)
(* One run directory of the benchmark (bench/run.py): a pass over its pull *)
(* requests, the resumes and retries that follow a killed or failed one,   *)
(* the immutable attempts a pass records (runner/validity.py) and the      *)
(* mutable index that selects one of them (runner/checkpoint.py).          *)
(*                                                                         *)
(* A pass may be killed between any two steps.  A child review runs in a   *)
(* session of its own and survives the pass that started it; it keeps      *)
(* writing to the one output directory all children of the run share.      *)
(* The operator is the environment: which pass to start, with which        *)
(* credential flag, and whether a usage limit is confirmed to be reset.    *)
(***************************************************************************)
EXTENDS Naturals, Sequences, FiniteSets, FiniteSetsExt

CONSTANTS
  Order,      \* the pull requests of the run, in the order a pass visits them
  Windowed,   \* BOOLEANs: may the run belong to a measurement window?
  MaxPasses,    \* bound on the passes over the run directory
  MaxAttempts,  \* bound on the attempts they may make in all
  MaxKills      \* bound on the passes killed

ASSUME OrderAssumption ==
  /\ Order \in Seq({Order[i] : i \in DOMAIN Order})
  /\ \A i, j \in DOMAIN Order : Order[i] = Order[j] => i = j
ASSUME BoundAssumption ==
  MaxPasses \in Nat /\ MaxAttempts \in Nat /\ MaxKills \in Nat /\ Windowed \subseteq BOOLEAN

VARIABLES
  manifest,  \* run.json
  reset,     \* reset-time.json: when a usage limit was confirmed to be reset
  attempts,  \* the immutable attempts of each pull request
  selected,  \* the attempt the index selects for each, 0 when pending
  pass,      \* the pass under way
  children,  \* the pull request of each child started
  alive,     \* children still running
  out,       \* the child whose payload lies in the shared output directory
  payload,   \* the child whose payload lies in each pull request's directory
  clock,     \* attempts completed so far
  passes, kills,
  exit,      \* status of the last pass
  charged,   \* history: credentials children were started with
  orphans    \* history: children that outlived their pass

vars == <<manifest, reset, attempts, selected, pass, children, alive, out, payload, clock,
          passes, kills, exit, charged, orphans>>
-----------------------------------------------------------------------------
PR == {Order[i] : i \in DOMAIN Order}
Mode == {"api", "subscription"}

(* What a review of one pull request came to.  Every status but ok is      *)
(* "failed" here, or "limited" where a usage limit may be the reason and   *)
(* the run is one that has to wait for its reset.                          *)
Outcome == {"ok", "failed", "limited"}

(* state "invalid" may be retried, and waits for a confirmed reset first   *)
(* when limited.  payload: whose payload the snapshot holds; child: the    *)
(* child the attempt itself started, if any.                               *)
Attempt == [state : {"valid", "invalid", "operational_failure"}, limited : BOOLEAN,
            prior : Nat, payload : Nat, child : Nat, done : Nat, reset : Nat]

NoManifest == [state |-> "none", auth |-> "api", windowed |-> FALSE]
Idle == [phase |-> "idle", kind |-> "new", mode |-> "api", windowed |-> FALSE,
         todo |-> {}, child |-> 0, outcome |-> "failed"]

Busy == pass.phase # "idle"
Current == Order[Min(pass.todo)]
Selected(p) == attempts[p][selected[p]]

(* Mutant: a resume starts the run over. *)
MutantPending(p) == TRUE

(* Checkpoint.pending and Checkpoint.failed, as places in the order of the *)
(* run. *)
Pending(p) == selected[p] = 0
Retryable(p) == selected[p] # 0 /\ Selected(p).state = "invalid"
Due(Test(_)) == {i \in DOMAIN Order : Test(Order[i])}

(* Mutant: no reset is asked for. *)
MutantCheckRetry(attempt, confirmed) == attempt.state = "invalid"

(* check_retry: an attempt that may have met the subscription's usage      *)
(* limit waits for a reset confirmed after it.                             *)
CheckRetry(attempt, confirmed) ==
  attempt.state = "invalid" /\ (attempt.limited => confirmed > attempt.done)

(* _usage_limit_possible, and the treatment that makes it matter. *)
MayBeLimited == IF manifest.windowed /\ manifest.auth = "subscription" THEN "limited" ELSE "failed"
-----------------------------------------------------------------------------
Init ==
  /\ manifest = NoManifest
  /\ reset = 0
  /\ attempts = [p \in PR |-> <<>>]
  /\ selected = [p \in PR |-> 0]
  /\ pass = Idle
  /\ children = <<>>
  /\ alive = {}
  /\ out = 0
  /\ payload = [p \in PR |-> 0]
  /\ clock = 1
  /\ passes = 0 /\ kills = 0
  /\ exit = 0
  /\ charged = {} /\ orphans = {}

Start(kind, mode, windowed, todo, first) ==
  /\ ~Busy
  /\ passes < MaxPasses
  /\ clock + Cardinality(todo) <= MaxAttempts + 1
  /\ passes' = passes + 1
  /\ exit' = 2
  /\ pass' = [Idle EXCEPT !.phase = first, !.kind = kind, !.mode = mode, !.windowed = windowed,
                          !.todo = todo]
  /\ UNCHANGED <<manifest, attempts, selected, children, alive, out, payload, clock, kills,
                 charged, orphans>>

(* A new run makes its directory first and writes run.json into it. *)
StartNew ==
  /\ passes = 0
  /\ \E mode \in Mode, windowed \in Windowed : Start("new", mode, windowed, DOMAIN Order, "manifest")
  /\ UNCHANGED reset

(* _child_auth_for: what the run recorded wins, a flag that contradicts it *)
(* is refused, and nothing recorded leaves the choice to the flag.         *)
Credential(flag) ==
  IF manifest.state \in {"stub", "full"} THEN manifest.auth
  ELSE IF flag = {} THEN "api" ELSE CHOOSE mode \in flag : TRUE

Flag == {{}} \cup {{mode} : mode \in Mode}

Again(kind, flag, todo) ==
  LET mode == Credential(flag)
  IN /\ passes > 0
     /\ manifest.state # "torn"
     /\ flag \subseteq {mode}
     /\ Start(kind, mode, manifest.windowed, todo,
              IF manifest.state = "none" THEN "manifest" ELSE "archive")

Resume == \E flag \in Flag : Again("resume", flag, Due(Pending)) /\ UNCHANGED reset

(* Every attempt to be retried is checked before anything is written. *)
Retry ==
  \E flag \in Flag, confirmed \in {0, clock} :
    /\ \A p \in PR : Retryable(p) =>
         CheckRetry(Selected(p), confirmed)
    /\ Again("retry", flag, Due(Retryable))
    /\ reset' = IF confirmed = 0 THEN reset ELSE confirmed

(* A torn run.json, a contradicting flag, an unconfirmed reset: exit 2     *)
(* before anything is spent.                                               *)
Refuse ==
  /\ ~Busy
  /\ \/ manifest.state = "torn"
     \/ manifest.state \in {"stub", "full"}
  /\ passes > 0
  /\ exit' = 2
  /\ UNCHANGED <<manifest, reset, attempts, selected, pass, children, alive, out, payload, clock,
                 passes, kills, charged, orphans>>

(* _write_manifest, or the stub of a run directory that has no manifest. *)
WriteManifest ==
  /\ pass.phase = "manifest"
  /\ manifest' = IF pass.kind = "new"
                 THEN [state |-> "full", auth |-> pass.mode, windowed |-> pass.windowed]
                 ELSE [state |-> "stub", auth |-> pass.mode, windowed |-> FALSE]
  /\ pass' = [pass EXCEPT !.phase = "archive", !.windowed = FALSE]
  /\ UNCHANGED <<reset, attempts, selected, children, alive, out, payload, clock, passes, kills,
                 exit, charged, orphans>>

(* Mutant: the last attempt's deliverables stay where they are. *)
MutantArchived(p) == payload[p]

(* supersede_attempt_artifacts moves what an earlier attempt delivered. *)
Archived(p) == 0

(* Every pull request to come is archived first; one that cannot be ends   *)
(* the pass with those before it archived.                                 *)
Archive ==
  /\ pass.phase = "archive"
  /\ \E n \in 0..Len(Order) :
       /\ payload' = [p \in PR |-> IF pass.kind # "new" /\ \E i \in pass.todo : i <= n /\ Order[i] = p
                                   THEN Archived(p) ELSE payload[p]]
       /\ pass' = IF \A i \in pass.todo : i <= n THEN [pass EXCEPT !.phase = "next"] ELSE Idle
  /\ UNCHANGED <<manifest, reset, attempts, selected, children, alive, out, clock, passes, kills,
                 exit, charged, orphans>>

Goto(phase) == pass' = [pass EXCEPT !.phase = phase]
-----------------------------------------------------------------------------
(* _run_prs, one pull request at a time. *)

(* _clear_dir of the shared output directory. *)
Cleared == 0

(* Setup fails before the output directory is touched: an incomplete entry *)
(* of shas.json, a mirror that cannot be cloned, drifted input, a diff     *)
(* that cannot be computed.                                                *)
SetupFails ==
  /\ pass.phase = "next" /\ pass.todo # {}
  /\ \E o \in {"failed", MayBeLimited} :
       pass' = [pass EXCEPT !.phase = "record", !.child = 0, !.outcome = o]
  /\ UNCHANGED <<manifest, reset, attempts, selected, children, alive, out, payload, clock,
                 passes, kills, exit, charged, orphans>>

(* No child can be started: no CLI, one too old, an unexpected error. *)
LaunchFails ==
  /\ pass.phase = "next" /\ pass.todo # {}
  /\ out' = Cleared
  /\ \E o \in {"failed", MayBeLimited} :
       pass' = [pass EXCEPT !.phase = "collect", !.child = 0, !.outcome = o]
  /\ UNCHANGED <<manifest, reset, attempts, selected, children, alive, payload, clock, passes,
                 kills, exit, charged, orphans>>

Launch ==
  /\ pass.phase = "next" /\ pass.todo # {}
  /\ out' = Cleared
  /\ children' = Append(children, Current)
  /\ alive' = alive \cup {Len(children')}
  /\ charged' = charged \cup {pass.mode}
  /\ pass' = [pass EXCEPT !.phase = "running", !.child = Len(children')]
  /\ UNCHANGED <<manifest, reset, attempts, selected, payload, clock, passes, kills, exit, orphans>>

(* Any child that still runs may deliver, whoever waits for it. *)
ChildDelivers(c) ==
  /\ c \in alive
  /\ out # c
  /\ out' = c
  /\ UNCHANGED <<manifest, reset, attempts, selected, pass, children, alive, payload, clock,
                 passes, kills, exit, charged, orphans>>

(* invoke_review's gates, once the child has exited: what counts as ok has *)
(* a payload in the output directory; a failure may be the usage limit.    *)
ChildExits ==
  /\ pass.phase = "running"
  /\ alive' = alive \ {pass.child}
  /\ \E o \in {"failed", MayBeLimited} \cup {x \in {"ok"} : out # 0} :
       pass' = [pass EXCEPT !.phase = "collect", !.outcome = o]
  /\ UNCHANGED <<manifest, reset, attempts, selected, children, out, payload, clock, passes,
                 kills, exit, charged, orphans>>

(* Mutant: a run directory without a full manifest has no timeout. *)
MutantTimed == manifest.state = "full"

(* _resume takes the recorded timeout, or the flag's where none is.        *)
Timed == manifest.state \in {"full", "stub"}

(* The watchdog kills the child's whole session. *)
Watchdog ==
  /\ pass.phase = "running"
  /\ Timed
  /\ alive' = alive \ {pass.child}
  /\ pass' = [pass EXCEPT !.phase = "collect", !.outcome = MayBeLimited]
  /\ UNCHANGED <<manifest, reset, attempts, selected, children, out, payload, clock, passes,
                 kills, exit, charged, orphans>>

OrphanExits(c) ==
  /\ c \in alive
  /\ ~(pass.phase = "running" /\ c = pass.child)
  /\ alive' = alive \ {c}
  /\ UNCHANGED <<manifest, reset, attempts, selected, pass, children, out, payload, clock,
                 passes, kills, exit, charged, orphans>>

(* _collect_artifacts moves what lies in the output directory; an error on *)
(* the way there, or after, fails this pull request alone.                 *)
Moved == [payload EXCEPT ![Current] = IF out # 0 THEN out ELSE @]

Collected ==
  CASE pass.phase = "record" ->
         {[payload |-> payload, out |-> out, outcome |-> pass.outcome]}
    [] pass.phase = "collect" ->
         {[payload |-> Moved, out |-> 0, outcome |-> o] : o \in {pass.outcome, MayBeLimited}}
           \cup {[payload |-> payload, out |-> out, outcome |-> MayBeLimited]}

(* collect_attempt: under a recorded treatment, a failure that follows an  *)
(* attempt whose retry was in order confirms it.                           *)
Confirms(p) == selected[p] # 0 /\ manifest.windowed /\ CheckRetry(Selected(p), reset)

(* The gates of collect_attempt: a whole pipeline, a payload, the model.   *)
Valid(c, gates) == c.outcome = "ok" /\ gates /\ c.payload[Current] # 0

(* Mutant: an attempt does not link the one it retries. *)
MutantPrior == 0

(* The attempt the index selected when this one was recorded. *)
Prior == selected[Current]

Recorded(c, gates) ==
  [state |-> IF Valid(c, gates) THEN "valid"
             ELSE IF Confirms(Current) THEN "operational_failure" ELSE "invalid",
   limited |-> c.outcome = "limited",
   prior |-> Prior, payload |-> c.payload[Current], child |-> pass.child,
   done |-> clock, reset |-> reset]

(* snapshot_attempt writes the attempt; the index still selects another. *)
Record ==
  /\ pass.phase \in {"collect", "record"}
  /\ \E c \in Collected, gates \in BOOLEAN :
       /\ attempts' = [attempts EXCEPT ![Current] = Append(@, Recorded(c, gates))]
       /\ payload' = c.payload
       /\ out' = c.out
  /\ clock' = clock + 1
  /\ Goto("mark")
  /\ UNCHANGED <<manifest, reset, selected, children, alive, passes, kills, exit, charged, orphans>>

(* Mutant: the index counts one more than was recorded. *)
MutantNewest(p) == Len(attempts[p]) + 1

Newest(p) == Len(attempts[p])

(* Checkpoint.mark replaces the index entry atomically. *)
Mark ==
  /\ pass.phase = "mark"
  /\ selected' = [selected EXCEPT ![Current] = Newest(Current)]
  /\ pass' = [pass EXCEPT !.phase = "next", !.todo = @ \ {Min(@)}, !.child = 0, !.outcome = "failed"]
  /\ UNCHANGED <<manifest, reset, attempts, children, alive, out, payload, clock, passes, kills,
                 exit, charged, orphans>>

(* _exit_code *)
ExitCode == IF \A p \in PR : selected[p] # 0 /\ Selected(p).state = "valid" THEN 0 ELSE 1

Finish ==
  /\ pass.phase = "next" /\ pass.todo = {}
  /\ exit' = ExitCode
  /\ pass' = Idle
  /\ UNCHANGED <<manifest, reset, attempts, selected, children, alive, out, payload, clock,
                 passes, kills, charged, orphans>>

(* Before each pull request the treatment is compared with the recorded    *)
(* one; a moved one ends the pass.                                         *)
Drift ==
  /\ pass.phase = "next" /\ pass.todo # {}
  /\ manifest.windowed
  /\ exit' = 2
  /\ pass' = Idle
  /\ UNCHANGED <<manifest, reset, attempts, selected, children, alive, out, payload, clock,
                 passes, kills, charged, orphans>>

(* The operator's interrupt, a crash, a snapshot that raises.  run.json is *)
(* created in place, so it may be left torn; a child goes on in its own    *)
(* session.                                                                *)
Kill ==
  /\ Busy
  /\ kills < MaxKills
  /\ kills' = kills + 1
  /\ IF pass.phase = "manifest"
     THEN manifest' \in {manifest, [manifest EXCEPT !.state = "torn"]}
     ELSE UNCHANGED manifest
  /\ orphans' = orphans \cup (IF pass.phase = "running" THEN {pass.child} ELSE {})
  /\ exit' = 2
  /\ pass' = Idle
  /\ UNCHANGED <<reset, attempts, selected, children, alive, out, payload, clock, passes, charged>>
-----------------------------------------------------------------------------
Operator == StartNew \/ Resume \/ Retry \/ Refuse

PassStep ==
  \/ WriteManifest \/ Archive
  \/ SetupFails \/ LaunchFails \/ Launch
  \/ Watchdog
  \/ Record \/ Mark \/ Finish \/ Drift

Outside == Kill \/ ChildExits \/ \E c \in 1..Len(children) : ChildDelivers(c) \/ OrphanExits(c)

Next == Operator \/ PassStep \/ Outside

Spec == Init /\ [][Next]_vars

(* The watchdog bounds every child, so a pass goes on; no operator is bound to come. *)
LiveSpec == Spec /\ WF_vars(PassStep)
-----------------------------------------------------------------------------
TypeOK ==
  /\ manifest \in [state : {"none", "torn", "stub", "full"}, auth : Mode, windowed : BOOLEAN]
  /\ attempts \in [PR -> Seq(Attempt)]
  /\ \A p \in PR : selected[p] \in 0..Len(attempts[p])
  /\ pass.phase \in {"idle", "manifest", "archive", "next", "running", "collect", "record", "mark"}
  /\ pass.todo \subseteq DOMAIN Order
  /\ children \in Seq(PR)
  /\ alive \subseteq 1..Len(children) /\ orphans \subseteq 1..Len(children)
  /\ out \in 0..Len(children)
  /\ payload \in [PR -> 0..Len(children)]
  /\ charged \subseteq Mode
  /\ exit \in 0..2

(* The comment over _child_auth_for: a run directory is one credential,    *)
(* whatever flags its passes were given and wherever one was killed, and   *)
(* the credential its children spent is the one the manifest names.        *)
OneCredential ==
  charged # {} => manifest.state \in {"stub", "full"} /\ charged = {manifest.auth}

(* A pull request whose selected attempt is valid, or confirmed to fail,   *)
(* is never run again by any resume or retry.                              *)
FinishedStaysFinished ==
  [][\A p \in PR : (selected[p] # 0 /\ Selected(p).state # "invalid") =>
       selected'[p] = selected[p] /\ attempts'[p] = attempts[p]]_vars

(* bench/README.md: a killed pass loses at most the one pull request that  *)
(* was mid-flight.  An attempt, or a child, that no later attempt and no   *)
(* index entry accounts for costs one kill each.                           *)
InFlight == IF Busy THEN {pass.child} ELSE {}
Forgotten ==
  {pi \in UNION {{p} \X (1..Len(attempts[p])) : p \in PR} :
     LET p == pi[1] i == pi[2]
     IN /\ i # selected[p]
        /\ \A j \in (i + 1)..Len(attempts[p]) : attempts[p][j].prior # i
        /\ ~(pass.phase = "mark" /\ p = Current /\ i = Len(attempts[p]))}
Unrecorded ==
  {c \in 1..Len(children) : /\ c \notin InFlight
                            /\ \A p \in PR : \A i \in 1..Len(attempts[p]) : attempts[p][i].child # c}
LossPerKill == Cardinality(Forgotten) + Cardinality(Unrecorded) <= kills

(* The deliverables an attempt snapshots are those of the child it ran:    *)
(* nothing of an earlier attempt, nothing of another pull request, unless  *)
(* a child outlived a killed pass.                                         *)
OwnDeliverables ==
  \A p \in PR : \A i \in 1..Len(attempts[p]) :
    attempts[p][i].payload \in {0, attempts[p][i].child} \cup orphans


(* bench/README.md, on usage limits: under a recorded treatment, what      *)
(* retries a failure of the subscription ran after a reset confirmed       *)
(* later than that failure, however many passes lie between.               *)
RetriesWait ==
  \A p \in PR : \A j \in 1..Len(attempts[p]) :
    LET a == attempts[p][j]
    IN (a.prior # 0 /\ attempts[p][a.prior].limited) => a.reset > attempts[p][a.prior].done

(* A terminal failure rests on two failures of the same pull request, the  *)
(* first of which was retried in order.                                    *)
TerminalIsConfirmed ==
  \A p \in PR : \A j \in 1..Len(attempts[p]) :
    attempts[p][j].state = "operational_failure" =>
      /\ manifest.windowed
      /\ attempts[p][j].prior \in 1..(j - 1)
      /\ attempts[p][attempts[p][j].prior].state = "invalid"

(* What is spent is accounted for, to one credential and to the attempt    *)
(* that spent it, and a retry or a terminal failure is earned by the       *)
(* failure before it, across any kills, resumes and flags in between.      *)
SpendIsAccounted ==
  OneCredential /\ LossPerKill /\ OwnDeliverables /\ RetriesWait /\ TerminalIsConfirmed

(* Exit 0 promises a run that scores: every pull request selects a valid   *)
(* attempt that holds a payload.                                           *)
ExitZeroIsScorable ==
  (~Busy /\ passes > 0 /\ exit = 0) =>
    \A p \in PR : selected[p] # 0 /\ Selected(p).state = "valid" /\ Selected(p).payload # 0

(* A pass that started ends, whatever its children do. *)
PassEnds == Busy ~> ~Busy
=============================================================================
