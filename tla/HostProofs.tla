----------------------------- MODULE HostProofs -----------------------------
(***************************************************************************)
(* Proofs about the host, on both sides of the workflow, and over the life *)
(* of a pull request.                                                      *)
(*                                                                         *)
(* WorkflowAwaiter, for any number of artifacts, attempts and seconds: the *)
(* invariant says where the clock stands in the chain of attempts          *)
(* (Budget), that every attempt works with the first one's floor           *)
(* (OneFloor), and what the file times tell (FilesInv, GraceInv).          *)
(*                                                                         *)
(* ContextPreparation, for any number of runs, commits and kills: who is   *)
(* about to make the output directory has seen it ignored (DirectoryInv),  *)
(* a map on disk or in hand is of one writing (OneWriting), and heads and  *)
(* deliveries are those of the tree as long as it stays (StillTree).       *)
(*                                                                         *)
(* ReviewRounds, for any number of commits, runs, notes and faults: what   *)
(* an unbroken review names was examined (ChainInv), a run that builds on  *)
(* one can point to it (BasedInv), and a steady run takes what is missing  *)
(* (DiffInv); an ancestor is one, by the tool's own hand (AncestorInv,     *)
(* OwnInv), and artifacts go and stay with the choice (LeftInv).           *)
(*                                                                         *)
(* ProjectRules, for any repository and any bounds: what a rule file that  *)
(* is shown points to is settled or still to be visited (PointersInv), a   *)
(* text that needs no second copy is shown or told of (TextsInv), and all  *)
(* that is left out is in the receipt once it is written (ReceiptInv).     *)
(***************************************************************************)
EXTENDS WorkflowAwaiter, ContextPreparation, ReviewRounds, ProjectRules,
        FiniteSetTheorems, NaturalsInduction, WellFoundedInduction, TLAPS

Shape ==
  /\ now \in Nat /\ now >= Launch
  /\ mtime \in [Files -> Nat]
  /\ \A f \in Files : mtime[f] <= now
  /\ hollow \subseteq Files
  /\ channel \in {"files", "return"}
  /\ task \in {"none", "open", "terminal"}
  /\ pc \in {"start", "observe", "stat", "sleep", "exited"}
  /\ nth \in 1..MaxAttempts
  /\ since \in Nat
  /\ deadline \in Nat
  /\ resolved \in BOOLEAN
  /\ completeAt \in Nat
  /\ whole \in Nat
  /\ outcome \in {"terminal", "pending", "artifacts_only", "timeout", "error"}
  /\ pc # "exited" => outcome = "pending"

(* An attempt starts after the time the earlier ones were given, and no    *)
(* later than they may oversleep.                                          *)
Budget ==
  /\ pc = "start" =>
       /\ Launch + (nth - 1) * Timeout <= now
       /\ now <= Launch + (nth - 1) * (Timeout + Slack)
       /\ deadline <= now
  /\ pc # "start" =>
       /\ Launch + nth * Timeout <= deadline
       /\ deadline + Slack <= Launch + nth * (Timeout + Slack)
       /\ now <= deadline + Slack
  /\ pc = "exited" /\ outcome = "pending" => now >= deadline /\ nth < MaxAttempts

OneFloor ==
  /\ since \in {0, Launch}
  /\ pc = "start" /\ nth = 1 => now = Launch
  /\ pc # "start" \/ nth # 1 => since = Launch

(* A run on the return channel writes nothing. *)
FilesInv == channel = "return" => \A f \in Files : mtime[f] = 0

AllWritten == \A f \in Files : f \notin hollow /\ mtime[f] >= Launch

(* What the awaiter saw complete had been written by then. *)
GraceInv ==
  /\ AllWritten => whole <= now
  /\ whole # Never => whole <= now
  /\ completeAt = Never \/ (whole <= completeAt /\ completeAt <= now)

IInv == Shape /\ Budget /\ OneFloor /\ FilesInv /\ GraceInv /\ ArtifactsAreThisRuns
-----------------------------------------------------------------------------
(* Arithmetic of attempts. *)
LEMMA OneMore ==
  ASSUME NEW a \in Nat, NEW x \in Nat
  PROVE  (a + 1) * x = a * x + x /\ a * x \in Nat
OBVIOUS

(* The same, counted from below. *)
LEMMA OneLess ==
  ASSUME NEW a \in Nat \ {0}, NEW x \in Nat
  PROVE  a * x = (a - 1) * x + x /\ (a - 1) * x \in Nat
OBVIOUS

(* Fewer attempts take no more time. *)
LEMMA FewerIsLess ==
  ASSUME NEW a \in Nat, NEW b \in Nat, NEW x \in Nat, a <= b
  PROVE  a * x <= b * x
OBVIOUS

(* No clock runs past the horizon. *)
LEMMA WithinHorizon ==
  ASSUME Shape, Budget
  PROVE  /\ now <= Horizon /\ Horizon \in Nat /\ Never \in Nat
         /\ pc # "start" => deadline <= Horizon
<1> DEFINE X == Timeout + Slack
<1>1. nth \in Nat \ {0} /\ nth - 1 \in Nat /\ MaxAttempts \in Nat /\ X \in Nat
      /\ nth <= MaxAttempts /\ nth - 1 <= MaxAttempts
  BY ClockAssumption DEF Shape
<1>2. nth * X <= MaxAttempts * X /\ (nth - 1) * X <= MaxAttempts * X
      /\ MaxAttempts * X \in Nat
  BY <1>1, FewerIsLess, OneMore
<1>3. Horizon = Launch + MaxAttempts * X /\ Never = Horizon + 1
  BY DEF Horizon, Never
<1>4. CASE pc = "start"
  <2>1. now <= Launch + (nth - 1) * X
    BY <1>4 DEF Budget
  <2> HIDE DEF X
  <2> QED BY <1>1, <1>2, <1>3, <1>4, <2>1 DEF Shape, Launch
<1>5. CASE pc # "start"
  <2>1. deadline + Slack <= Launch + nth * X /\ now <= deadline + Slack
    BY <1>5 DEF Budget
  <2>2. deadline \in Nat /\ Slack \in Nat /\ now \in Nat /\ nth * X \in Nat
    BY <1>1, OneMore, ClockAssumption DEF Shape
  <2> HIDE DEF X
  <2> QED BY <1>2, <1>3, <2>1, <2>2 DEF Launch
<1> QED BY <1>4, <1>5

(* The chain starts at launch with nothing written. *)
LEMMA InitInv == Init => IInv
<1> SUFFICES ASSUME Init PROVE IInv
  OBVIOUS
<1>1. Horizon \in Nat /\ Never \in Nat
  <2>1. MaxAttempts * (Timeout + Slack) \in Nat
    BY ClockAssumption, OneMore
  <2> QED BY <2>1 DEF Horizon, Never, Launch
<1>2. Shape
  <2>1. now \in Nat /\ now >= Launch /\ since \in Nat /\ deadline \in Nat
        /\ completeAt \in Nat /\ whole \in Nat /\ nth \in 1..MaxAttempts
    BY <1>1, ClockAssumption DEF Init, Launch
  <2>2. mtime \in [Files -> Nat] /\ \A f \in Files : mtime[f] <= now
    BY DEF Init, Launch
  <2> QED BY <2>1, <2>2 DEF Init, Shape
<1>3. Budget /\ OneFloor
  BY ClockAssumption DEF Init, Budget, OneFloor, Launch
<1>4. FilesInv /\ GraceInv /\ ArtifactsAreThisRuns
  BY FilesAssumption DEF Init, FilesInv, GraceInv, AllWritten, ArtifactsAreThisRuns, Launch
<1> QED BY <1>2, <1>3, <1>4 DEF IInv

(* Writes happen now, and only by a run that writes files. *)
LEMMA WriteInv ==
  ASSUME IInv, NEW f \in Files, WriteArtifact(f)
  PROVE  IInv'
<1>1. /\ mtime' = [mtime EXCEPT ![f] = now]
      /\ hollow' \subseteq Files
      /\ channel = "files"
      /\ UNCHANGED <<now, channel, task, pc, nth, since, deadline, resolved, completeAt, outcome>>
  BY DEF WriteArtifact, IInv, Shape
<1>2. whole' \in {whole, now}
  BY DEF WriteArtifact
<1>3. Shape'
  BY <1>1, <1>2 DEF IInv, Shape
<1>4. Budget' /\ OneFloor' /\ FilesInv'
  BY <1>1 DEF IInv, Budget, OneFloor, FilesInv
<1>5. GraceInv'
  <2>1. now <= Horizon /\ Never = Horizon + 1 /\ Horizon \in Nat
    BY WithinHorizon DEF IInv, Never
  <2>2. AllWritten' => whole' <= now'
    <3>1. AllWritten' => whole' = IF whole = Never THEN now ELSE whole
      BY DEF WriteArtifact, AllWritten
    <3> QED BY <3>1, <1>1, <2>1 DEF IInv, Shape, GraceInv
  <2>3. whole' # Never => whole' <= now'
    BY <1>1, <1>2, <2>1 DEF IInv, Shape, GraceInv
  <2>4. completeAt # Never => whole' = whole
    BY <2>1 DEF IInv, Shape, GraceInv, WriteArtifact
  <2> QED BY <1>1, <2>2, <2>3, <2>4 DEF IInv, GraceInv
<1>6. ArtifactsAreThisRuns'
  BY <1>1 DEF IInv, Shape, ArtifactsAreThisRuns
<1> QED BY <1>3, <1>4, <1>5, <1>6 DEF IInv

(* What the task file shows touches neither clock nor artifacts. *)
LEMMA TaskFileInv ==
  ASSUME IInv, TaskFile
  PROVE  IInv'
BY DEF TaskFile, IInv, Shape, Budget, OneFloor, FilesInv, GraceInv, AllWritten, ArtifactsAreThisRuns

(* Time passes up to the slack after the deadline. *)
LEMMA TickInv ==
  ASSUME IInv, Tick
  PROVE  IInv'
<1>1. /\ now' = now + 1 /\ pc \in {"observe", "stat", "sleep"} /\ now + 1 <= deadline + Slack
      /\ UNCHANGED <<envVars, pc, nth, since, deadline, resolved, completeAt, whole, outcome>>
  BY ClockAssumption DEF Tick, IInv, Shape
<1>2. Shape'
  BY <1>1 DEF IInv, Shape, envVars, Launch
<1>3. Budget' /\ OneFloor' /\ FilesInv' /\ ArtifactsAreThisRuns'
  BY <1>1 DEF IInv, Budget, OneFloor, FilesInv, ArtifactsAreThisRuns, envVars
<1>4. GraceInv'
  BY <1>1 DEF IInv, Shape, GraceInv, AllWritten, envVars
<1> QED BY <1>2, <1>3, <1>4 DEF IInv

(* The first attempt sets the floor at launch, the others keep it. *)
LEMMA StartAttemptInv ==
  ASSUME IInv, StartAttempt
  PROVE  IInv'
<1>1. /\ pc = "start" /\ pc' = "observe" /\ deadline' = now + Timeout /\ completeAt' = Never
      /\ since' = Floor
      /\ UNCHANGED <<now, envVars, nth, resolved, whole, outcome>>
  BY DEF StartAttempt
<1>2. since' = Launch
  BY <1>1 DEF IInv, OneFloor, Floor
<1>3. Never \in Nat
  BY WithinHorizon DEF IInv
<1>4. Shape'
  BY <1>1, <1>2, <1>3, ClockAssumption DEF IInv, Shape, envVars, Launch
<1>5. Budget'
  <2>1. /\ nth \in Nat \ {0} /\ Timeout \in Nat /\ Slack \in Nat /\ Timeout + Slack \in Nat
        /\ now \in Nat
    BY ClockAssumption DEF IInv, Shape
  <2>2. /\ nth * Timeout = (nth - 1) * Timeout + Timeout
        /\ (nth - 1) * Timeout \in Nat
        /\ nth * (Timeout + Slack) = (nth - 1) * (Timeout + Slack) + (Timeout + Slack)
        /\ (nth - 1) * (Timeout + Slack) \in Nat
    BY <2>1, OneLess
  <2>3. /\ Launch + (nth - 1) * Timeout <= now
        /\ now <= Launch + (nth - 1) * (Timeout + Slack)
    BY <1>1 DEF IInv, Budget
  <2>4. /\ Launch + nth * Timeout <= now + Timeout
        /\ (now + Timeout) + Slack <= Launch + nth * (Timeout + Slack)
        /\ now <= (now + Timeout) + Slack
    BY <2>1, <2>2, <2>3 DEF Launch
  <2> QED BY <1>1, <2>4 DEF Budget
<1>6. OneFloor' /\ FilesInv' /\ GraceInv' /\ ArtifactsAreThisRuns'
  BY <1>1, <1>2 DEF IInv, OneFloor, FilesInv, GraceInv, AllWritten, ArtifactsAreThisRuns, envVars
<1> QED BY <1>4, <1>5, <1>6 DEF IInv

(* Looking for the return changes no floor and no file. *)
LEMMA ObserveInv ==
  ASSUME IInv, Observe
  PROVE  IInv'
<1>1. /\ pc = "observe" /\ resolved' \in BOOLEAN
      /\ \/ pc' = "exited" /\ outcome' \in {"terminal", "error"}
         \/ pc' = "stat" /\ outcome' = outcome
      /\ UNCHANGED <<now, envVars, nth, since, deadline, completeAt, whole>>
  BY DEF Observe, Exit
<1> QED BY <1>1 DEF IInv, Shape, Budget, OneFloor, FilesInv, GraceInv, AllWritten,
           ArtifactsAreThisRuns, envVars

(* Seen complete means written since launch, every file of it. *)
LEMMA CompleteIsWritten ==
  ASSUME IInv, pc = "stat", Complete
  PROVE  AllWritten /\ channel = "files" /\ whole <= now
<1>1. since = Launch
  BY DEF IInv, OneFloor
<1>2. AllWritten
  BY <1>1 DEF Complete, Fresh, AllWritten
<1>3. channel = "files"
  BY <1>2, FilesAssumption DEF IInv, Shape, FilesInv, AllWritten, Launch
<1> QED BY <1>2, <1>3 DEF IInv, GraceInv

(* Stating the artifacts: the grace clock starts when all are written. *)
LEMMA StatInv ==
  ASSUME IInv, Stat
  PROVE  IInv'
<1>1. /\ pc = "stat"
      /\ completeAt' = IF Complete THEN SeenSince ELSE Never
      /\ UNCHANGED <<now, envVars, nth, since, deadline, resolved, whole>>
  BY DEF Stat
<1>2. /\ pc' \in {"exited", "sleep"}
      /\ outcome' \in {"artifacts_only", "pending", "timeout", "error", outcome}
      /\ pc' = "sleep" => outcome' = outcome
  BY DEF Stat, Settle, StopWaiting, Sleep, Exit
<1>3. pc' = "exited" /\ outcome' = "pending" => now >= deadline /\ nth < MaxAttempts
  BY ClockAssumption DEF Stat, Settle, StopWaiting, Sleep, Exit, Expired, LastAttempt, IInv, Shape
<1>4. pc' = "exited" /\ outcome' = "artifacts_only" => Complete
  BY DEF Stat, Settle, StopWaiting, Sleep, Exit
<1>5. Never \in Nat
  BY WithinHorizon DEF IInv
<1>6. completeAt' \in {completeAt, now, Never}
  BY <1>1 DEF SeenSince
<1>7. Shape'
  BY <1>1, <1>2, <1>5, <1>6 DEF IInv, Shape, envVars
<1>8. Budget' /\ OneFloor' /\ FilesInv'
  BY <1>1, <1>2, <1>3 DEF IInv, Budget, OneFloor, FilesInv, envVars
<1>9. GraceInv'
  <2>1. completeAt' = Never \/ (whole <= completeAt' /\ completeAt' <= now)
    BY <1>1, CompleteIsWritten DEF SeenSince, IInv, Shape, GraceInv
  <2> QED BY <1>1, <2>1 DEF IInv, GraceInv, AllWritten, envVars
<1>10. ArtifactsAreThisRuns'
  BY <1>1, <1>4, CompleteIsWritten DEF ArtifactsAreThisRuns, AllWritten, envVars
<1> QED BY <1>7, <1>8, <1>9, <1>10 DEF IInv

(* Waking changes the program counter only. *)
LEMMA WakeInv ==
  ASSUME IInv, Wake
  PROVE  IInv'
BY DEF Wake, IInv, Shape, Budget, OneFloor, FilesInv, GraceInv, AllWritten, ArtifactsAreThisRuns, envVars

(* An error ends the attempt and claims nothing. *)
LEMMA FailsInv ==
  ASSUME IInv, Fails
  PROVE  IInv'
BY DEF Fails, IInv, Shape, Budget, OneFloor, FilesInv, GraceInv, AllWritten, ArtifactsAreThisRuns, envVars

(* A retry starts within its budget and keeps the floor. *)
LEMMA NextCommandInv ==
  ASSUME IInv, NextCommand
  PROVE  IInv'
<1>1. /\ nth' = nth + 1 /\ pc' = "start" /\ pc = "exited" /\ outcome = "pending"
      /\ UNCHANGED <<now, envVars, since, deadline, resolved, completeAt, whole, outcome>>
  BY DEF NextCommand
<1>2. now >= deadline /\ nth < MaxAttempts /\ nth \in Nat \ {0}
  BY <1>1, ClockAssumption DEF IInv, Budget, Shape
<1>3. Shape'
  BY <1>1, <1>2, ClockAssumption DEF IInv, Shape, envVars
<1>4. Budget'
  <2>1. /\ Launch + nth * Timeout <= deadline
        /\ deadline + Slack <= Launch + nth * (Timeout + Slack)
        /\ now <= deadline + Slack
    BY <1>1 DEF IInv, Budget
  <2>2. nth' - 1 = nth
    BY <1>1, <1>2
  <2>3. nth * Timeout \in Nat /\ nth * (Timeout + Slack) \in Nat
    BY <1>2, ClockAssumption, OneMore
  <2>4. /\ Launch + nth * Timeout <= now /\ now <= Launch + nth * (Timeout + Slack)
        /\ deadline' <= now'
    BY <1>1, <1>2, <2>1, <2>3, ClockAssumption DEF IInv, Shape, Launch
  <2> QED BY <1>1, <2>2, <2>4 DEF Budget
<1>5. OneFloor' /\ FilesInv' /\ GraceInv' /\ ArtifactsAreThisRuns'
  BY <1>1, <1>2 DEF IInv, OneFloor, FilesInv, GraceInv, AllWritten, ArtifactsAreThisRuns, envVars
<1> QED BY <1>3, <1>4, <1>5 DEF IInv

(* Nothing changes when no variable does. *)
LEMMA StutterInv ==
  ASSUME IInv, UNCHANGED avars
  PROVE  IInv'
BY DEF avars, envVars, IInv, Shape, Budget, OneFloor, FilesInv, GraceInv, AllWritten, ArtifactsAreThisRuns

(* The invariant holds throughout. *)
THEOREM Invariance == Spec => []IInv
<1>1. Init => IInv
  BY InitInv
<1>2. IInv /\ [Next]_avars => IInv'
  BY WriteInv, TaskFileInv, TickInv, StartAttemptInv, ObserveInv, StatInv, WakeInv, FailsInv,
     NextCommandInv, StutterInv DEF Next, Awaiter
<1> QED BY <1>1, <1>2, PTL DEF Spec
-----------------------------------------------------------------------------
(* The chain settles for artifacts only when this run wrote every one of   *)
(* them, so never those of an earlier review and never on the return       *)
(* channel.                                                                *)
THEOREM SettlesForThisRun == Spec => []ArtifactsAreThisRuns
<1>1. IInv => ArtifactsAreThisRuns
  BY DEF IInv
<1> QED BY <1>1, Invariance, PTL

(* A timeout means that some artifact was not there at the last poll.      *)
THEOREM TimeoutIsTruthful == Spec => TimeoutMeansMissing
<1>1. ASSUME IInv, Next, pc = "stat", outcome' = "timeout"
      PROVE  \E f \in Files : f \in hollow \/ mtime[f] < Launch
  <2>1. outcome = "pending"
    BY <1>1 DEF IInv, Shape
  <2>2. Stat
    BY <1>1, <2>1 DEF Next, Awaiter, WriteArtifact, TaskFile, Tick, Fails, StartAttempt,
       Observe, Wake, NextCommand
  <2>3. Expired /\ LastAttempt /\ ~(Complete /\ UseArtifacts)
    BY <1>1, <2>1, <2>2 DEF Stat, Settle, StopWaiting, Sleep, Exit
  <2>4. ~Complete /\ since = Launch
    BY <1>1, <2>3 DEF UseArtifacts, IInv, OneFloor
  <2> QED BY <1>1, <2>4 DEF Complete, Fresh, IInv, Shape, Launch
<1>2. IInv /\ [Next]_avars =>
        [outcome' = "timeout" /\ pc = "stat" =>
           \E f \in Files : f \in hollow \/ mtime[f] < Launch]_avars
  BY <1>1
<1> QED BY <1>2, Invariance, PTL DEF Spec, TimeoutMeansMissing

(* Whoever settles for artifacts has waited: the whole chain's time, or,   *)
(* with no task file in sight, a grace period since they were all there.   *)
THEOREM PatienceHolds == Spec => Patience
<1>1. ASSUME IInv, Next, pc = "stat", outcome' = "artifacts_only"
      PROVE  \/ now >= Launch + MaxAttempts * Timeout
             \/ ~resolved /\ whole + Grace <= now
  <2>1. outcome = "pending"
    BY <1>1 DEF IInv, Shape
  <2>2. Stat
    BY <1>1, <2>1 DEF Next, Awaiter, WriteArtifact, TaskFile, Tick, Fails, StartAttempt,
       Observe, Wake, NextCommand
  <2>3. Complete /\ UseArtifacts
    BY <1>1, <2>1, <2>2 DEF Stat, Settle, StopWaiting, Sleep, Exit
  <2>4. CASE ~resolved /\ now >= SeenSince + Grace
    <3>1. whole <= SeenSince
      BY <1>1, <2>3, CompleteIsWritten DEF SeenSince, IInv, GraceInv
    <3>2. SeenSince \in Nat /\ whole \in Nat /\ now \in Nat /\ Grace \in Nat
      BY <1>1, ClockAssumption DEF SeenSince, IInv, Shape
    <3> QED BY <2>4, <3>1, <3>2
  <2>5. CASE LastAttempt /\ Expired
    <3>1. nth = MaxAttempts /\ now >= deadline
      BY <1>1, <2>5, ClockAssumption DEF LastAttempt, Expired, IInv, Shape
    <3>2. Launch + nth * Timeout <= deadline
      BY <1>1 DEF IInv, Budget
    <3>3. MaxAttempts * Timeout \in Nat /\ now \in Nat /\ deadline \in Nat
      BY <1>1, ClockAssumption, OneMore DEF IInv, Shape
    <3> QED BY <3>1, <3>2, <3>3 DEF Launch
  <2> QED BY <2>3, <2>4, <2>5 DEF UseArtifacts
<1>2. IInv /\ [Next]_avars =>
        [outcome' = "artifacts_only" /\ pc = "stat" =>
           \/ now >= Launch + MaxAttempts * Timeout
           \/ ~resolved /\ whole + Grace <= now]_avars
  BY <1>1
<1> QED BY <1>2, Invariance, PTL DEF Spec, Patience

(* Every reachable state is well-typed; no clock runs past the horizon the *)
(* attempts allow.                                                         *)
THEOREM AwaiterTypes == Spec => []TypeOK
<1>1. IInv => TypeOK
  <2> SUFFICES ASSUME IInv PROVE TypeOK
    OBVIOUS
  <2>1. /\ now <= Horizon /\ Horizon \in Nat /\ Never = Horizon + 1
        /\ pc # "start" => deadline <= Horizon
    BY WithinHorizon DEF IInv, Never
  <2>2. deadline <= Horizon
    BY <2>1 DEF IInv, Shape, Budget
  <2>3. since \in 0..Horizon
    BY <2>1 DEF IInv, Shape, OneFloor, Launch
  <2>4. completeAt \in 0..Never /\ whole \in 0..Never
    BY <2>1 DEF IInv, Shape, GraceInv
  <2>5. mtime \in [Files -> 0..Horizon]
    BY <2>1 DEF IInv, Shape
  <2>6. now \in Launch..Horizon /\ deadline \in 0..Horizon
    BY <2>1, <2>2 DEF IInv, Shape, Launch
  <2> QED BY <2>3, <2>4, <2>5, <2>6 DEF IInv, Shape, TypeOK
<1> QED BY <1>1, Invariance, PTL
-----------------------------------------------------------------------------
(* ContextPreparation: the host before the workflow. *)
Known == {"resolve", "probe", "append", "check", "mkdir", "status", "checkout", "sha", "diff", "rules",
          "context", "map", "review", "verify", "loaded", "done", "stopped"}
Heading == {"diff", "rules", "context", "map", "review", "verify", "loaded"}
IsRecord(g) ==
  g = [at |-> g.at, config |-> g.config, target |-> g.target,
       head |-> g.head, entries |-> g.entries]
HostShape ==
  /\ host = [r \in Hosts |-> host[r]]
  /\ \A r \in Hosts :
       /\ IsRecord(host[r])
       /\ host[r].at \in Known
       /\ host[r].head \in Commit \cup {0}
       /\ host[r].at \in Heading => host[r].head # 0
DiskShape ==
  /\ artifacts = [c \in Commit |-> artifacts[c]]
  /\ \A c \in Commit :
       artifacts[c] = [diff |-> artifacts[c].diff, rules |-> artifacts[c].rules,
                       context |-> artifacts[c].context, map |-> artifacts[c].map]
TreeShape ==
  /\ ignore \in [ignored : BOOLEAN, negated : BOOLEAN, writable : BOOLEAN, listed : BOOLEAN]
  /\ directory \in BOOLEAN
  /\ worktree \in Commit /\ pushed \in Commit /\ moved \in Nat

(* Whoever is about to make the directory has seen it ignored.             *)
DirectoryInv ==
  /\ OutputIgnored
  /\ \A r \in Hosts : At(r, "mkdir") /\ Inside(r) => Ignored

(* A map is of one writing; a host that is about to write one, or has read *)
(* one, holds one writing as well. *)
OneWriting(map, head) ==
  /\ map.of = head /\ map.lines = map.context
  /\ map.diff = map.context.diff /\ map.context.of = head
MapsInv == \A c \in Commit : artifacts[c].map \notin {Absent, Torn} => OneWriting(artifacts[c].map, c)
EntriesInv ==
  \A r \in Hosts :
    /\ At(r, "map") => host[r].entries.of = host[r].head
    /\ At(r, "loaded") => OneWriting(host[r].entries, host[r].head)

(* As long as the tree stays, heads and deliveries are those of the tree.  *)
StillTree ==
  moved = 0 =>
    \A r \in Hosts :
      /\ host[r].head # 0 => host[r].head = worktree
      /\ \A k \in DOMAIN host[r].config :
           host[r].config[k].source = "review_md" => host[r].config[k].value = Delivery[worktree]

PrepInv ==
  /\ HostShape /\ DiskShape /\ TreeShape
  /\ DirectoryInv /\ ContextOfHead /\ MapsInv /\ EntriesInv /\ MapOfContext /\ StillTree

(* A writing that a finished host holds, or none.                          *)
Finished(written, head) ==
  written # Absent =>
    /\ written.of = head /\ written.map.lines = written.context
    /\ written.context.diff = written.map.diff
FromTree(config) ==
  \A k \in DOMAIN config : config[k].source = "review_md" => config[k].value = Delivery[worktree]
Put(r, g) == host' = [host EXCEPT ![r] = g]

(* The record of a host with two fields replaced.                          *)
LEMMA NewConfig ==
  ASSUME NEW g, IsRecord(g), NEW x, NEW y
  PROVE  [g EXCEPT !.at = x, !.config = y] =
           [at |-> x, config |-> y, target |-> g.target,
            head |-> g.head, entries |-> g.entries]
<1>1. [g EXCEPT !.at = x] = [at |-> x, config |-> g.config, target |-> g.target,
                           head |-> g.head, entries |-> g.entries]
  BY DEF IsRecord
<1>2. [g EXCEPT !.at = x, !.config = y] = [[g EXCEPT !.at = x] EXCEPT !.config = y]
  OBVIOUS
<1>3. [[at |-> x, config |-> g.config, target |-> g.target,
        head |-> g.head, entries |-> g.entries]
         EXCEPT !.config = y] =
        [at |-> x, config |-> y, target |-> g.target,
         head |-> g.head, entries |-> g.entries]
  OBVIOUS
<1> QED BY <1>1, <1>2, <1>3
LEMMA NewTarget ==
  ASSUME NEW g, IsRecord(g), NEW x, NEW y
  PROVE  [g EXCEPT !.at = x, !.target = y] =
           [at |-> x, config |-> g.config, target |-> y,
            head |-> g.head, entries |-> g.entries]
<1>1. [g EXCEPT !.at = x] = [at |-> x, config |-> g.config, target |-> g.target,
                           head |-> g.head, entries |-> g.entries]
  BY DEF IsRecord
<1>2. [g EXCEPT !.at = x, !.target = y] = [[g EXCEPT !.at = x] EXCEPT !.target = y]
  OBVIOUS
<1>3. [[at |-> x, config |-> g.config, target |-> g.target,
        head |-> g.head, entries |-> g.entries]
         EXCEPT !.target = y] =
        [at |-> x, config |-> g.config, target |-> y,
         head |-> g.head, entries |-> g.entries]
  OBVIOUS
<1> QED BY <1>1, <1>2, <1>3
LEMMA NewHead ==
  ASSUME NEW g, IsRecord(g), NEW x, NEW y
  PROVE  [g EXCEPT !.at = x, !.head = y] =
           [at |-> x, config |-> g.config, target |-> g.target,
            head |-> y, entries |-> g.entries]
<1>1. [g EXCEPT !.at = x] = [at |-> x, config |-> g.config, target |-> g.target,
                           head |-> g.head, entries |-> g.entries]
  BY DEF IsRecord
<1>2. [g EXCEPT !.at = x, !.head = y] = [[g EXCEPT !.at = x] EXCEPT !.head = y]
  OBVIOUS
<1>3. [[at |-> x, config |-> g.config, target |-> g.target,
        head |-> g.head, entries |-> g.entries]
         EXCEPT !.head = y] =
        [at |-> x, config |-> g.config, target |-> g.target,
         head |-> y, entries |-> g.entries]
  OBVIOUS
<1> QED BY <1>1, <1>2, <1>3
LEMMA NewEntries ==
  ASSUME NEW g, IsRecord(g), NEW x, NEW y
  PROVE  [g EXCEPT !.at = x, !.entries = y] =
           [at |-> x, config |-> g.config, target |-> g.target,
            head |-> g.head, entries |-> y]
<1>1. [g EXCEPT !.at = x] = [at |-> x, config |-> g.config, target |-> g.target,
                           head |-> g.head, entries |-> g.entries]
  BY DEF IsRecord
<1>2. [g EXCEPT !.at = x, !.entries = y] = [[g EXCEPT !.at = x] EXCEPT !.entries = y]
  OBVIOUS
<1>3. [[at |-> x, config |-> g.config, target |-> g.target,
        head |-> g.head, entries |-> g.entries]
         EXCEPT !.entries = y] =
        [at |-> x, config |-> g.config, target |-> g.target,
         head |-> g.head, entries |-> y]
  OBVIOUS
<1> QED BY <1>1, <1>2, <1>3

(* A step of one host, by what it makes of its record.                     *)
LEMMA PutShape ==
  ASSUME HostShape, NEW r \in Hosts, NEW at \in Known, NEW config, NEW target,
         NEW head \in Commit \cup {0}, NEW written, at \in Heading => head # 0,
         Put(r, [at |-> at, config |-> config, target |-> target, head |-> head, entries |-> written])
  PROVE  /\ HostShape'
         /\ host'[r] = [at |-> at, config |-> config, target |-> target, head |-> head,
                        entries |-> written]
         /\ \A q \in Hosts : q # r => host'[q] = host[q]
<1> DEFINE g == [at |-> at, config |-> config, target |-> target, head |-> head, entries |-> written]
<1>1. host = [q \in Hosts |-> host[q]]
  BY DEF HostShape
<1>2. host' = [q \in Hosts |-> IF q = r THEN g ELSE host[q]]
  BY <1>1 DEF Put
<1>3. host'[r] = g /\ \A q \in Hosts : q # r => host'[q] = host[q]
  BY <1>2
<1>4. host' = [q \in Hosts |-> host'[q]]
  BY <1>2
<1>5. ASSUME NEW q \in Hosts
      PROVE  /\ IsRecord(host'[q])
             /\ host'[q].at \in Known
             /\ host'[q].head \in Commit \cup {0}
             /\ host'[q].at \in Heading => host'[q].head # 0
  <2>1. CASE q = r
    BY <2>1, <1>3 DEF IsRecord
  <2>2. CASE q # r
    BY <2>2, <1>3 DEF HostShape
  <2> QED BY <2>1, <2>2
<1>6. HostShape'
  BY <1>4, <1>5 DEF HostShape, IsRecord, Commit
<1> QED BY <1>3, <1>6

LEMMA OwnStep ==
  ASSUME PrepInv, NEW r \in Hosts, NEW at \in Known, NEW config, NEW target,
         NEW head \in Commit \cup {0}, NEW written, at \in Heading => head # 0,
         Put(r, [at |-> at, config |-> config, target |-> target, head |-> head, entries |-> written]),
         setting' = setting,
         Ignored => Ignored', directory' => directory \/ Ignored,
         at = "mkdir" /\ Inside(r) => Ignored',
         at = "map" => written.of = head,
         at = "loaded" => OneWriting(written, head),
         at = "done" => Finished(written, head),
         moved' = 0 => /\ moved = 0 /\ worktree' = worktree
                       /\ head # 0 => head = worktree
                       /\ FromTree(config)
  PROVE  HostShape' /\ DirectoryInv' /\ EntriesInv' /\ MapOfContext' /\ StillTree'
<1>1. HostShape'
  BY PutShape DEF PrepInv
<1>2. host'[r].at = at /\ host'[r].config = config /\ host'[r].head = head /\ host'[r].entries = written
  BY PutShape DEF PrepInv
<1>3. \A q \in Hosts : q # r => host'[q] = host[q]
  BY PutShape DEF PrepInv
<1>4. DirectoryInv'
  <2>1. OutputIgnored'
    BY DEF PrepInv, DirectoryInv, OutputIgnored
  <2>2. ASSUME NEW q \in Hosts, host'[q].at = "mkdir", setting[q].output = "inside"
        PROVE  Ignored'
    BY <2>2, <1>2, <1>3 DEF PrepInv, DirectoryInv, At, Inside
  <2> QED BY <2>1, <2>2 DEF DirectoryInv, At, Inside
<1>5. EntriesInv'
  <2>1. ASSUME NEW q \in Hosts
        PROVE  /\ host'[q].at = "map" => host'[q].entries.of = host'[q].head
               /\ host'[q].at = "loaded" => OneWriting(host'[q].entries, host'[q].head)
    BY <2>1, <1>2, <1>3 DEF PrepInv, EntriesInv, At
  <2> QED BY <2>1 DEF EntriesInv, At, OneWriting
<1>6. MapOfContext'
  <2>1. ASSUME NEW q \in Hosts, host'[q].at = "done"
        PROVE  Finished(host'[q].entries, host'[q].head)
    <3>1. CASE q = r
      BY <3>1, <2>1, <1>2
    <3>2. CASE q # r
      BY <3>2, <2>1, <1>3 DEF PrepInv, MapOfContext, At, Finished
    <3> QED BY <3>1, <3>2
  <2> QED BY <2>1 DEF MapOfContext, At, Finished, Absent
<1>7. StillTree'
  <2> SUFFICES ASSUME moved' = 0, NEW q \in Hosts
               PROVE  /\ host'[q].head # 0 => host'[q].head = worktree
                      /\ FromTree(host'[q].config)
    BY DEF StillTree, FromTree
  <2>1. CASE q = r
    BY <2>1, <1>2
  <2>2. CASE q # r
    BY <2>2, <1>3 DEF PrepInv, StillTree, FromTree
  <2> QED BY <2>1, <2>2
<1> QED BY <1>1, <1>4, <1>5, <1>6, <1>7

(* What is kept in a file of a head touches nothing else.                  *)
LEMMA KeptFile ==
  ASSUME DiskShape, ContextOfHead, MapsInv, NEW c \in Commit,
         NEW file \in {"diff", "rules", "context", "map"}, NEW content,
         artifacts' = [artifacts EXCEPT ![c][file] = content],
         file = "context" /\ content \notin {Absent, Torn} =>
           /\ content.description.of \in {0, c}
           /\ ~content.local => content.layout \in {0, c},
         file = "map" /\ content \notin {Absent, Torn} => OneWriting(content, c)
  PROVE  DiskShape' /\ ContextOfHead' /\ MapsInv'
<1> DEFINE New(d, f) == IF d = c /\ f = file THEN content ELSE artifacts[d][f]
<1>1. ASSUME NEW d \in Commit
      PROVE  artifacts'[d] = [diff |-> New(d, "diff"), rules |-> New(d, "rules"),
                              context |-> New(d, "context"), map |-> New(d, "map")]
  <2>1. artifacts[d] = [diff |-> artifacts[d].diff, rules |-> artifacts[d].rules,
                        context |-> artifacts[d].context, map |-> artifacts[d].map]
    BY DEF DiskShape
  <2>2. c \in DOMAIN artifacts /\ d \in DOMAIN artifacts
    BY Zenon DEF DiskShape
  <2>3. CASE d # c
    <3>1. artifacts'[d] = artifacts[d]
      BY <2>2, <2>3
    <3> QED BY <2>1, <2>3, <3>1
  <2>4. CASE d = c
    <3>1. artifacts'[d] = [artifacts[d] EXCEPT ![file] = content]
      BY <2>2, <2>4
    <3>2. CASE file = "diff"
      BY <3>1, <3>2, <2>1, <2>4
    <3>3. CASE file = "rules"
      BY <3>1, <3>3, <2>1, <2>4
    <3>4. CASE file = "context"
      BY <3>1, <3>4, <2>1, <2>4
    <3>5. CASE file = "map"
      BY <3>1, <3>5, <2>1, <2>4
    <3> QED BY <3>2, <3>3, <3>4, <3>5
  <2> QED BY <2>3, <2>4
<1>2. artifacts' = [d \in Commit |-> artifacts'[d]]
  BY DEF DiskShape
<1>3. DiskShape'
  BY <1>1, <1>2 DEF DiskShape, Commit
<1>4. \A d \in Commit : artifacts'[d].context = New(d, "context") /\ artifacts'[d].map = New(d, "map")
  <2> SUFFICES ASSUME NEW d \in Commit
               PROVE  artifacts'[d].context = New(d, "context") /\ artifacts'[d].map = New(d, "map")
    OBVIOUS
  <2>1. artifacts'[d] = [diff |-> New(d, "diff"), rules |-> New(d, "rules"),
                         context |-> New(d, "context"), map |-> New(d, "map")]
    BY <1>1
  <2> HIDE DEF New
  <2> QED BY <2>1
<1>5. ContextOfHead'
  <2>1. ASSUME NEW d \in Commit, artifacts'[d].context \notin {Absent, Torn}
        PROVE  /\ artifacts'[d].context.description.of \in {0, d}
               /\ ~artifacts'[d].context.local => artifacts'[d].context.layout \in {0, d}
    BY <2>1, <1>4 DEF ContextOfHead
  <2> QED BY <2>1 DEF ContextOfHead, Commit, Absent, Torn
<1>6. MapsInv'
  <2>1. ASSUME NEW d \in Commit, artifacts'[d].map \notin {Absent, Torn}
        PROVE  OneWriting(artifacts'[d].map, d)
    <3>1. CASE d = c /\ file = "map"
      BY <3>1, <2>1, <1>4
    <3>2. CASE ~(d = c /\ file = "map")
      BY <3>2, <2>1, <1>4 DEF MapsInv
    <3> QED BY <3>1, <3>2
  <2> QED BY <2>1 DEF MapsInv, OneWriting, Commit, Absent, Torn
<1> QED BY <1>3, <1>5, <1>6

(* Where the files of the heads are left alone.                            *)
LEMMA FilesStay ==
  ASSUME DiskShape, ContextOfHead, MapsInv, artifacts' = artifacts
  PROVE  DiskShape' /\ ContextOfHead' /\ MapsInv'
BY DEF DiskShape, ContextOfHead, MapsInv, Commit, OneWriting, Absent, Torn

LEMMA GoesPuts ==
  ASSUME HostShape, NEW r \in Hosts, NEW step, Goes(r, step)
  PROVE  Put(r, [at |-> step, config |-> host[r].config, target |-> host[r].target,
                 head |-> host[r].head, entries |-> host[r].entries])
<1>1. [host[r] EXCEPT !.at = step] =
        [at |-> step, config |-> host[r].config, target |-> host[r].target,
         head |-> host[r].head, entries |-> host[r].entries]
  BY DEF HostShape, IsRecord
<1>2. host' = [host EXCEPT ![r] = [host[r] EXCEPT !.at = step]]
  BY DEF Goes
<1> QED BY <1>1, <1>2 DEF Put

(* A step that only goes on.                                               *)
LEMMA PlainStep ==
  ASSUME PrepInv, NEW r \in Hosts, NEW step \in Known, Goes(r, step),
         step \in Heading => host[r].head # 0,
         step \notin {"map", "loaded", "done"},
         setting' = setting,
         Ignored => Ignored', directory' => directory \/ Ignored,
         step = "mkdir" /\ Inside(r) => Ignored',
         moved' = 0 => moved = 0 /\ worktree' = worktree
  PROVE  HostShape' /\ DirectoryInv' /\ EntriesInv' /\ MapOfContext' /\ StillTree'
<1>1. Put(r, [at |-> step, config |-> host[r].config, target |-> host[r].target,
              head |-> host[r].head, entries |-> host[r].entries])
  BY GoesPuts DEF PrepInv
<1>2. host[r].head \in Commit \cup {0}
  BY DEF PrepInv, HostShape
<1>3. moved' = 0 => /\ moved = 0 /\ worktree' = worktree
                    /\ host[r].head # 0 => host[r].head = worktree
                    /\ FromTree(host[r].config)
  BY DEF PrepInv, StillTree, FromTree
<1> QED BY <1>1, <1>2, <1>3, OwnStep

LEMMA Start == PrepInit => PrepInv
<1> SUFFICES ASSUME PrepInit PROVE PrepInv
  OBVIOUS
<1>1. \A r \in Hosts : host[r] = NewHost
  BY DEF PrepInit
<1>2. HostShape
  BY <1>1 DEF PrepInit, HostShape, IsRecord, NewHost, Known, Heading
<1>3. DiskShape
  BY DEF PrepInit, DiskShape, NoFiles
<1>4. TreeShape
  <2>1. worktree \in Commit /\ pushed \in Commit /\ moved \in Nat /\ directory \in BOOLEAN
    <3>1. MaxPushes \in Nat /\ BranchHead \in Commit
      BY PreparationAssumption DEF Commit
    <3>2. 1 \in Commit
      BY <3>1 DEF Commit
    <3> QED BY <3>1, <3>2 DEF PrepInit
  <2>2. ignore \in [ignored : BOOLEAN, negated : BOOLEAN, writable : BOOLEAN, listed : {FALSE}]
    BY DEF PrepInit
  <2>3. ignore \in [ignored : BOOLEAN, negated : BOOLEAN, writable : BOOLEAN, listed : BOOLEAN]
    BY <2>2
  <2> QED BY <2>1, <2>3 DEF TreeShape
<1>5. DirectoryInv
  BY <1>1 DEF PrepInit, DirectoryInv, OutputIgnored, At, NewHost
<1>6. ContextOfHead /\ MapsInv
  BY DEF PrepInit, ContextOfHead, MapsInv, NoFiles
<1>7. EntriesInv /\ MapOfContext
  BY <1>1 DEF EntriesInv, MapOfContext, At, NewHost
<1>8. StillTree
  BY <1>1 DEF StillTree, NewHost
<1> QED BY <1>2, <1>3, <1>4, <1>5, <1>6, <1>7, <1>8 DEF PrepInv

LEMMA ResolveConfigKeeps ==
  ASSUME PrepInv, NEW r \in Hosts, ResolveConfig(r)
  PROVE  PrepInv'
<1> DEFINE found == [k \in Rows(r) |-> Choice(r, k)]
<1>1. HostShape' /\ DirectoryInv' /\ EntriesInv' /\ MapOfContext' /\ StillTree'
  <2>1. Ignored' = Ignored
    BY DEF ResolveConfig, Ignored
  <2>2. CASE Goes(r, "stopped")
    BY <2>1, <2>2, PlainStep DEF ResolveConfig, Known, Heading
  <2>3. CASE host' = [host EXCEPT ![r] = [NewHost EXCEPT !.at = "probe", !.config = found]]
    <3>1. [NewHost EXCEPT !.at = "probe", !.config = found] =
            [at |-> "probe", config |-> found, target |-> 0, head |-> 0, entries |-> Absent]
      <4>1. IsRecord(NewHost)
        BY DEF IsRecord, NewHost
      <4>2. NewHost.target = 0 /\ NewHost.head = 0 /\ NewHost.entries = Absent
        BY DEF NewHost
      <4> HIDE DEF found
      <4>3. [NewHost EXCEPT !.at = "probe", !.config = found] =
              [at |-> "probe", config |-> found, target |-> NewHost.target,
               head |-> NewHost.head, entries |-> NewHost.entries]
        BY <4>1, NewConfig
      <4> QED BY <4>2, <4>3
    <3>2. Put(r, [at |-> "probe", config |-> found, target |-> 0, head |-> 0, entries |-> Absent])
      BY <2>3, <3>1 DEF Put
    <3>3. FromTree(found)
      <4>1. ASSUME NEW k \in Rows(r), Choice(r, k).source = "review_md"
            PROVE  Choice(r, k).value = Delivery[worktree]
        BY <4>1 DEF Choice
      <4> QED BY <4>1 DEF FromTree
    <3> HIDE DEF found
    <3> QED BY <2>1, <3>2, <3>3, OwnStep DEF ResolveConfig, Known, Heading
  <2> QED BY <2>2, <2>3 DEF ResolveConfig, Stops
<1>2. DiskShape' /\ ContextOfHead' /\ MapsInv'
  BY FilesStay DEF PrepInv, ResolveConfig
<1>3. TreeShape'
  BY DEF PrepInv, ResolveConfig, TreeShape, Commit
<1> QED BY <1>1, <1>2, <1>3 DEF PrepInv

LEMMA DirectoryKeeps ==
  ASSUME PrepInv, NEW r \in Hosts,
         ProbeIgnore(r) \/ AppendExclude(r) \/ VerifyIgnore(r) \/ MakeDirectory(r)
  PROVE  PrepInv'
<1>1. DiskShape' /\ ContextOfHead' /\ MapsInv'
  BY FilesStay DEF PrepInv, ProbeIgnore, AppendExclude, VerifyIgnore, MakeDirectory
<1>2. Ignored => Ignored'
  BY DEF ProbeIgnore, AppendExclude, VerifyIgnore, MakeDirectory, Ignored, PrepInv, TreeShape
<1>3. TreeShape'
  BY DEF PrepInv, ProbeIgnore, AppendExclude, VerifyIgnore, MakeDirectory, TreeShape, Commit
<1>4. setting' = setting /\ worktree' = worktree /\ moved' = moved
  BY DEF ProbeIgnore, AppendExclude, VerifyIgnore, MakeDirectory
<1>5. CASE ProbeIgnore(r)
  <2>1. \/ Goes(r, "stopped")
        \/ Goes(r, "mkdir") /\ (Inside(r) => Ignored)
        \/ Goes(r, "append")
    BY <1>5 DEF ProbeIgnore, Stops, Inside
  <2>2. directory' = directory
    BY <1>5 DEF ProbeIgnore
  <2>3. HostShape' /\ DirectoryInv' /\ EntriesInv' /\ MapOfContext' /\ StillTree'
    BY <2>1, <2>2, <1>2, <1>4, PlainStep DEF Known, Heading
  <2> QED BY <1>1, <1>3, <2>3 DEF PrepInv
<1>6. CASE AppendExclude(r)
  <2>1. Goes(r, "check") \/ Goes(r, "stopped")
    BY <1>6 DEF AppendExclude, Stops
  <2>2. directory' = directory
    BY <1>6 DEF AppendExclude
  <2>3. HostShape' /\ DirectoryInv' /\ EntriesInv' /\ MapOfContext' /\ StillTree'
    BY <2>1, <2>2, <1>2, <1>4, PlainStep DEF Known, Heading
  <2> QED BY <1>1, <1>3, <2>3 DEF PrepInv
<1>7. CASE VerifyIgnore(r)
  <2>1. (Goes(r, "mkdir") /\ Ignored) \/ Goes(r, "stopped")
    BY <1>7 DEF VerifyIgnore, Stops
  <2>2. directory' = directory
    BY <1>7 DEF VerifyIgnore
  <2>3. HostShape' /\ DirectoryInv' /\ EntriesInv' /\ MapOfContext' /\ StillTree'
    BY <2>1, <2>2, <1>2, <1>4, PlainStep DEF Known, Heading
  <2> QED BY <1>1, <1>3, <2>3 DEF PrepInv
<1>8. CASE MakeDirectory(r)
  <2>1. Goes(r, "status") \/ Goes(r, "checkout")
    BY <1>8 DEF MakeDirectory
  <2>2. directory' => directory \/ Ignored
    BY <1>8 DEF MakeDirectory, PrepInv, DirectoryInv
  <2>3. HostShape' /\ DirectoryInv' /\ EntriesInv' /\ MapOfContext' /\ StillTree'
    BY <2>1, <2>2, <1>2, <1>4, PlainStep DEF Known, Heading
  <2> QED BY <1>1, <1>3, <2>3 DEF PrepInv
<1> QED BY <1>5, <1>6, <1>7, <1>8

LEMMA HeadKeeps ==
  ASSUME PrepInv, NEW r \in Hosts, Status(r) \/ CheckOut(r) \/ ResolveSha(r)
  PROVE  PrepInv'
<1>1. DiskShape' /\ ContextOfHead' /\ MapsInv'
  BY FilesStay DEF PrepInv, Status, CheckOut, ResolveSha
<1>2. Ignored' = Ignored /\ setting' = setting /\ directory' = directory
  BY DEF Status, CheckOut, ResolveSha, Ignored
<1>3. TreeShape'
  BY PreparationAssumption DEF PrepInv, Status, CheckOut, ResolveSha, TreeShape, Commit
<1>4. IsRecord(host[r])
  BY DEF PrepInv, HostShape
<1>5. host[r].head \in Commit \cup {0}
  BY DEF PrepInv, HostShape
<1>6. moved = 0 => FromTree(host[r].config) /\ (host[r].head # 0 => host[r].head = worktree)
  BY DEF PrepInv, StillTree, FromTree
<1>7. CASE Status(r)
  <2>1. PICK target :
          host' = [host EXCEPT ![r] = [host[r] EXCEPT !.at = "checkout", !.target = target]]
    BY <1>7, <1>4 DEF Status
  <2>2. Put(r, [at |-> "checkout", config |-> host[r].config, target |-> target,
                head |-> host[r].head, entries |-> host[r].entries])
    <3>1. [host[r] EXCEPT !.at = "checkout", !.target = target] =
            [at |-> "checkout", config |-> host[r].config, target |-> target,
             head |-> host[r].head, entries |-> host[r].entries]
      BY <1>4, NewTarget
    <3> QED BY <2>1, <3>1 DEF Put
  <2>3. moved' = moved /\ worktree' = worktree
    BY <1>7 DEF Status
  <2>4. HostShape' /\ DirectoryInv' /\ EntriesInv' /\ MapOfContext' /\ StillTree'
    BY <2>2, <2>3, <1>2, <1>5, <1>6, OwnStep DEF Known, Heading
  <2> QED BY <1>1, <1>3, <2>4 DEF PrepInv
<1>8. CASE CheckOut(r)
  <2>1. Goes(r, "sha") \/ Goes(r, "stopped")
    BY <1>8 DEF CheckOut, Stops
  <2>2. moved' = 0 => moved = 0 /\ worktree' = worktree
    BY <1>8 DEF CheckOut, PrepInv, TreeShape
  <2>3. HostShape' /\ DirectoryInv' /\ EntriesInv' /\ MapOfContext' /\ StillTree'
    BY <2>1, <2>2, <1>2, PlainStep DEF Known, Heading
  <2> QED BY <1>1, <1>3, <2>3 DEF PrepInv
<1>9. CASE ResolveSha(r)
  <2>1. host' = [host EXCEPT ![r] = [host[r] EXCEPT !.at = "diff", !.head = worktree]]
    BY <1>9, <1>4 DEF ResolveSha
  <2>2. Put(r, [at |-> "diff", config |-> host[r].config, target |-> host[r].target,
                head |-> worktree, entries |-> host[r].entries])
    <3>1. [host[r] EXCEPT !.at = "diff", !.head = worktree] =
            [at |-> "diff", config |-> host[r].config, target |-> host[r].target,
             head |-> worktree, entries |-> host[r].entries]
      BY <1>4, NewHead
    <3> QED BY <2>1, <3>1 DEF Put
  <2>3. moved' = moved /\ worktree' = worktree
    BY <1>9 DEF ResolveSha
  <2>4. worktree \in Commit /\ worktree # 0
    BY PreparationAssumption DEF PrepInv, TreeShape, Commit
  <2>5. HostShape' /\ DirectoryInv' /\ EntriesInv' /\ MapOfContext' /\ StillTree'
    BY <2>2, <2>3, <2>4, <1>2, <1>6, OwnStep DEF Known, Heading
  <2> QED BY <1>1, <1>3, <2>5 DEF PrepInv
<1> QED BY <1>7, <1>8, <1>9

(* What the later steps have in common: the tree, the output directory and *)
(* the head stay. *)
Later(r) ==
  /\ setting' = setting /\ ignore' = ignore /\ directory' = directory
  /\ worktree' = worktree /\ pushed' = pushed /\ moved' = moved
  /\ host[r].at \in Heading

LEMMA LaterStep ==
  ASSUME PrepInv, NEW r \in Hosts, NEW at \in Known, NEW written, Later(r), at # "mkdir",
         Put(r, [at |-> at, config |-> host[r].config, target |-> host[r].target,
                 head |-> host[r].head, entries |-> written]),
         at = "map" => written.of = host[r].head,
         at = "loaded" => OneWriting(written, host[r].head),
         at = "done" => Finished(written, host[r].head)
  PROVE  /\ HostShape' /\ DirectoryInv' /\ EntriesInv' /\ MapOfContext' /\ StillTree' /\ TreeShape'
<1>1. host[r].head \in Commit \cup {0} /\ host[r].head # 0
  BY DEF PrepInv, HostShape, Later
<1>2. moved = 0 => FromTree(host[r].config) /\ host[r].head = worktree
  BY <1>1 DEF PrepInv, StillTree, FromTree
<1>3. (Ignored => Ignored') /\ (directory' => directory \/ Ignored)
  BY DEF Later, Ignored
<1>4. HostShape' /\ DirectoryInv' /\ EntriesInv' /\ MapOfContext' /\ StillTree'
  BY <1>1, <1>2, <1>3, OwnStep DEF Later
<1>5. TreeShape'
  BY DEF PrepInv, TreeShape, Later, Commit
<1> QED BY <1>4, <1>5

LEMMA HeadIsCommit ==
  ASSUME HostShape, NEW r \in Hosts, host[r].at \in Heading
  PROVE  host[r].head \in Commit
BY DEF HostShape

LEMMA GatheringKeeps ==
  ASSUME PrepInv, NEW r \in Hosts, SaveDiff(r) \/ CollectRules(r)
  PROVE  PrepInv'
<1>1. Later(r)
  BY DEF SaveDiff, CollectRules, Later, At, Heading
<1>2. Goes(r, "rules") \/ Goes(r, "context")
  BY DEF SaveDiff, CollectRules
<1>3. HostShape' /\ DirectoryInv' /\ EntriesInv' /\ MapOfContext' /\ StillTree' /\ TreeShape'
  BY <1>1, <1>2, GoesPuts, LaterStep DEF PrepInv, Known
<1>4. PICK file \in {"diff", "rules"} : \E content : Keep(r, file, content)
  BY DEF SaveDiff, CollectRules
<1>5. PICK content : Keep(r, file, content)
  BY <1>4
<1>6. DiskShape' /\ ContextOfHead' /\ MapsInv'
  BY <1>1, <1>5, HeadIsCommit, KeptFile DEF PrepInv, Later, Keep
<1> QED BY <1>3, <1>6 DEF PrepInv

LEMMA WriteContextKeeps ==
  ASSUME PrepInv, NEW r \in Hosts, WriteContext(r)
  PROVE  PrepInv'
<1>1. Later(r)
  BY DEF WriteContext, Later, At, Heading
<1>2. host[r].head \in Commit
  BY <1>1, HeadIsCommit DEF PrepInv, Later
<1>3. CASE Goes(r, "stopped") /\ (Keep(r, "context", Torn) \/ artifacts' = artifacts)
  <2>1. HostShape' /\ DirectoryInv' /\ EntriesInv' /\ MapOfContext' /\ StillTree' /\ TreeShape'
    BY <1>1, <1>3, GoesPuts, LaterStep DEF PrepInv, Known
  <2>2. DiskShape' /\ ContextOfHead' /\ MapsInv'
    BY <1>2, <1>3, KeptFile, FilesStay DEF PrepInv, Keep
  <2> QED BY <2>1, <2>2 DEF PrepInv
<1>4. CASE /\ DescriptionFits(r)
           /\ host' = [host EXCEPT ![r].at = "map", ![r].entries = ContextOf(r)]
           /\ Keep(r, "context", ContextOf(r))
  <2>1. PICK context : context = ContextOf(r)
    OBVIOUS
  <2>2. [host[r] EXCEPT !.at = "map", !.entries = context] =
          [at |-> "map", config |-> host[r].config, target |-> host[r].target,
           head |-> host[r].head, entries |-> context]
    BY NewEntries DEF PrepInv, HostShape
  <2>3. Put(r, [at |-> "map", config |-> host[r].config, target |-> host[r].target,
                head |-> host[r].head, entries |-> context])
    <3>1. host' = [host EXCEPT ![r] = [host[r] EXCEPT !.at = "map", !.entries = context]]
      BY <1>4, <2>1 DEF PrepInv, HostShape
    <3> QED BY <2>2, <3>1 DEF Put
  <2>4. /\ context.of = host[r].head
        /\ context.local = (setting[r].target = "local")
        /\ context.layout = Layout(r)
        /\ context.description = IF setting[r].target = "pr" THEN snapshots[r] ELSE Absent
    BY <2>1 DEF ContextOf
  <2>5. HostShape' /\ DirectoryInv' /\ EntriesInv' /\ MapOfContext' /\ StillTree' /\ TreeShape'
    BY <1>1, <2>3, <2>4, LaterStep DEF Known
  <2>6. context.description.of \in {0, host[r].head}
    BY <1>4, <2>4 DEF DescriptionFits, Absent
  <2>7. ~context.local => context.layout \in {0, host[r].head}
    BY <2>4 DEF Layout, Captured
  <2>8. DiskShape' /\ ContextOfHead' /\ MapsInv'
    BY <1>2, <1>4, <2>1, <2>6, <2>7, KeptFile DEF PrepInv, Keep
  <2> QED BY <2>5, <2>8 DEF PrepInv
<1> QED BY <1>3, <1>4 DEF WriteContext, Stops

LEMMA WriteMapKeeps ==
  ASSUME PrepInv, NEW r \in Hosts, WriteMap(r)
  PROVE  PrepInv'
<1>1. Later(r)
  BY DEF WriteMap, Later, At, Heading
<1>2. host[r].head \in Commit
  BY <1>1, HeadIsCommit DEF PrepInv, Later
<1>3. CASE Goes(r, "stopped") /\ Keep(r, "map", Torn)
  <2>1. HostShape' /\ DirectoryInv' /\ EntriesInv' /\ MapOfContext' /\ StillTree' /\ TreeShape'
    BY <1>1, <1>3, GoesPuts, LaterStep DEF PrepInv, Known
  <2>2. DiskShape' /\ ContextOfHead' /\ MapsInv'
    BY <1>2, <1>3, KeptFile DEF PrepInv, Keep
  <2> QED BY <2>1, <2>2 DEF PrepInv
<1>4. CASE /\ host' = [host EXCEPT ![r].at = "review", ![r].entries = Absent]
           /\ Keep(r, "map", WrittenMap(r))
  <2>1. [host[r] EXCEPT !.at = "review", !.entries = Absent] =
          [at |-> "review", config |-> host[r].config, target |-> host[r].target,
           head |-> host[r].head, entries |-> Absent]
    BY NewEntries DEF PrepInv, HostShape
  <2>2. Put(r, [at |-> "review", config |-> host[r].config, target |-> host[r].target,
                head |-> host[r].head, entries |-> Absent])
    <3>1. host' = [host EXCEPT ![r] = [host[r] EXCEPT !.at = "review", !.entries = Absent]]
      BY <1>4 DEF PrepInv, HostShape
    <3> QED BY <2>1, <3>1 DEF Put
  <2>3. HostShape' /\ DirectoryInv' /\ EntriesInv' /\ MapOfContext' /\ StillTree' /\ TreeShape'
    BY <1>1, <2>2, LaterStep DEF Known
  <2>4. host[r].entries.of = host[r].head
    BY DEF PrepInv, EntriesInv, WriteMap
  <2>5. OneWriting(WrittenMap(r), host[r].head)
    BY <2>4 DEF OneWriting, WrittenMap, MapOf
  <2>6. DiskShape' /\ ContextOfHead' /\ MapsInv'
    BY <1>2, <1>4, <2>5, KeptFile DEF PrepInv, Keep
  <2> QED BY <2>3, <2>6 DEF PrepInv
<1> QED BY <1>3, <1>4 DEF WriteMap, Stops

LEMMA ReadingKeeps ==
  ASSUME PrepInv, NEW r \in Hosts, ReadDiff(r) \/ ReadMap(r) \/ ReadContext(r)
  PROVE  PrepInv'
<1>1. Later(r)
  BY DEF ReadDiff, ReadMap, ReadContext, Later, At, Heading
<1>2. host[r].head \in Commit
  BY <1>1, HeadIsCommit DEF PrepInv, Later
<1>3. DiskShape' /\ ContextOfHead' /\ MapsInv'
  BY FilesStay DEF PrepInv, ReadDiff, ReadMap, ReadContext
<1>4. \A at, written :
        host' = [host EXCEPT ![r].at = at, ![r].entries = written] =>
          Put(r, [at |-> at, config |-> host[r].config, target |-> host[r].target,
                  head |-> host[r].head, entries |-> written])
  <2> SUFFICES ASSUME NEW at, NEW written,
                      host' = [host EXCEPT ![r].at = at, ![r].entries = written]
               PROVE  Put(r, [at |-> at, config |-> host[r].config, target |-> host[r].target,
                              head |-> host[r].head, entries |-> written])
    OBVIOUS
  <2>1. [host[r] EXCEPT !.at = at, !.entries = written] =
          [at |-> at, config |-> host[r].config, target |-> host[r].target,
           head |-> host[r].head, entries |-> written]
    BY NewEntries DEF PrepInv, HostShape
  <2>2. host' = [host EXCEPT ![r] = [host[r] EXCEPT !.at = at, !.entries = written]]
    BY DEF PrepInv, HostShape
  <2> QED BY <2>1, <2>2 DEF Put
<1>5. CASE ReadDiff(r)
  <2>1. HostShape' /\ DirectoryInv' /\ EntriesInv' /\ MapOfContext' /\ StillTree' /\ TreeShape'
    BY <1>1, <1>4, <1>5, LaterStep DEF ReadDiff, Known
  <2> QED BY <1>3, <2>1 DEF PrepInv
<1>6. CASE ReadMap(r)
  <2> DEFINE map == FilesOf(r).map
  <2>1. Identified(r, map) => OneWriting(map, host[r].head)
    BY <1>2 DEF Identified, FilesOf, PrepInv, MapsInv
  <2>2. \/ Identified(r, map) /\ host' = [host EXCEPT ![r].at = "loaded", ![r].entries = map]
        \/ host' = [host EXCEPT ![r].at = "done", ![r].entries = Absent]
    BY <1>6 DEF ReadMap
  <2> HIDE DEF map
  <2>3. HostShape' /\ DirectoryInv' /\ EntriesInv' /\ MapOfContext' /\ StillTree' /\ TreeShape'
    BY <1>1, <1>4, <2>1, <2>2, LaterStep DEF Known, Finished
  <2> QED BY <1>3, <2>3 DEF PrepInv
<1>7. CASE ReadContext(r)
  <2> DEFINE context == FilesOf(r).context
             loaded == IF context = host[r].entries.context
                       THEN [of |-> context.of, map |-> host[r].entries, context |-> context]
                       ELSE Absent
  <2>1. host' = [host EXCEPT ![r].at = "done", ![r].entries = loaded]
    BY <1>7 DEF ReadContext
  <2>2. OneWriting(host[r].entries, host[r].head)
    BY <1>7 DEF ReadContext, PrepInv, EntriesInv
  <2>3. Finished(loaded, host[r].head)
    <3> HIDE DEF context
    <3> QED BY <2>2 DEF Finished, OneWriting
  <2> HIDE DEF loaded
  <2>4. HostShape' /\ DirectoryInv' /\ EntriesInv' /\ MapOfContext' /\ StillTree' /\ TreeShape'
    BY <1>1, <1>4, <2>1, <2>3, LaterStep DEF Known
  <2> QED BY <1>3, <2>4 DEF PrepInv
<1> QED BY <1>5, <1>6, <1>7

LEMMA OutsideKeeps ==
  ASSUME PrepInv, PushHead \/ MoveTree
  PROVE  PrepInv'
<1>1. host' = host /\ setting' = setting /\ ignore' = ignore /\ directory' = directory
      /\ artifacts' = artifacts
  BY DEF PushHead, MoveTree
<1>2. DiskShape' /\ ContextOfHead' /\ MapsInv'
  BY <1>1, FilesStay DEF PrepInv
<1>3. TreeShape'
  BY PreparationAssumption DEF PrepInv, TreeShape, PushHead, MoveTree, Commit
<1>4. StillTree'
  BY <1>1 DEF PrepInv, StillTree, TreeShape, PushHead, MoveTree
<1>5. HostShape' /\ DirectoryInv' /\ EntriesInv' /\ MapOfContext'
  <2>1. HostShape'
    BY <1>1 DEF PrepInv, HostShape, IsRecord, Commit
  <2>2. DirectoryInv'
    BY <1>1 DEF PrepInv, DirectoryInv, OutputIgnored, Ignored, At, Inside
  <2>3. EntriesInv' /\ MapOfContext'
    BY <1>1 DEF PrepInv, EntriesInv, MapOfContext, At, OneWriting, Absent
  <2> QED BY <2>1, <2>2, <2>3
<1> QED BY <1>2, <1>3, <1>4, <1>5 DEF PrepInv

LEMMA KillKeeps ==
  ASSUME PrepInv, NEW r \in Hosts, Kill(r)
  PROVE  PrepInv'
<1>1. /\ setting' = setting /\ ignore' = ignore /\ directory' = directory
      /\ worktree' = worktree /\ pushed' = pushed /\ moved' = moved
  BY DEF Kill
<1>2. Put(r, [at |-> "resolve", config |-> <<>>, target |-> 0, head |-> 0, entries |-> Absent])
  BY DEF Kill, Put, NewHost
<1>3. FromTree(<<>>)
  BY DEF FromTree
<1>4. HostShape' /\ DirectoryInv' /\ EntriesInv' /\ MapOfContext' /\ StillTree'
  BY <1>1, <1>2, <1>3, OwnStep DEF Known, Heading, Ignored
<1>5. TreeShape'
  BY <1>1 DEF PrepInv, TreeShape, Commit
<1>6. DiskShape' /\ ContextOfHead' /\ MapsInv'
  <2>1. CASE artifacts' = artifacts
    BY <2>1, FilesStay DEF PrepInv
  <2>2. CASE \E f \in {"diff", "context", "map"} :
               At(r, f) /\ artifacts' = [artifacts EXCEPT ![host[r].head][f] = Torn]
    <3>1. PICK f \in {"diff", "context", "map"} :
             At(r, f) /\ artifacts' = [artifacts EXCEPT ![host[r].head][f] = Torn]
      BY <2>2
    <3>2. host[r].head \in Commit
      BY <3>1, HeadIsCommit DEF PrepInv, At, Heading
    <3> QED BY <3>1, <3>2, KeptFile DEF PrepInv
  <2> QED BY <2>1, <2>2 DEF Kill
<1> QED BY <1>4, <1>5, <1>6 DEF PrepInv

LEMMA Stutter == ASSUME PrepInv, UNCHANGED prepVars PROVE PrepInv'
<1>1. host' = host /\ setting' = setting /\ ignore' = ignore /\ directory' = directory
      /\ artifacts' = artifacts /\ worktree' = worktree /\ pushed' = pushed /\ moved' = moved
  BY DEF prepVars
<1>2. DiskShape' /\ ContextOfHead' /\ MapsInv'
  BY <1>1, FilesStay DEF PrepInv
<1>3. TreeShape' /\ StillTree' /\ HostShape'
  BY <1>1 DEF PrepInv, TreeShape, StillTree, HostShape, IsRecord, Commit
<1>4. DirectoryInv'
  BY <1>1 DEF PrepInv, DirectoryInv, OutputIgnored, Ignored, At, Inside
<1>5. EntriesInv' /\ MapOfContext'
  BY <1>1 DEF PrepInv, EntriesInv, MapOfContext, At, OneWriting, Absent
<1> QED BY <1>2, <1>3, <1>4, <1>5 DEF PrepInv

LEMMA PreparationInvariance == PrepSpec => []PrepInv
<1>1. PrepInit => PrepInv
  BY Start
<1>2. PrepInv /\ [PrepNext]_prepVars => PrepInv'
  <2> SUFFICES ASSUME PrepInv, [PrepNext]_prepVars PROVE PrepInv'
    OBVIOUS
  <2>1. ASSUME NEW r \in Hosts, HostStep(r) PROVE PrepInv'
    BY <2>1, ResolveConfigKeeps, DirectoryKeeps, HeadKeeps, GatheringKeeps, WriteContextKeeps,
       WriteMapKeeps, ReadingKeeps DEF HostStep
  <2>2. ASSUME NEW r \in Hosts, Kill(r) PROVE PrepInv'
    BY <2>2, KillKeeps
  <2>3. ASSUME PushHead \/ MoveTree PROVE PrepInv'
    BY <2>3, OutsideKeeps
  <2> QED BY <2>1, <2>2, <2>3, Stutter DEF PrepNext
<1> QED BY <1>1, <1>2, PTL DEF PrepSpec

(* Whoever pushes, works in the tree or is killed, and whatever other runs *)
(* write: the output is never among the repository's changes, a context    *)
(* is of one head, and lines are mapped by the map of the very context     *)
(* and diff that the executor has. *)
THEOREM ContextHolds == PrepSpec => []ContextTellsTruth
<1>1. PrepInv => ContextTellsTruth
  <2> SUFFICES ASSUME PrepInv PROVE ContextTellsTruth
    OBVIOUS
  <2>1. DeliveryOfHead
    BY DEF PrepInv, StillTree, DeliveryOfHead
  <2> QED BY <2>1 DEF PrepInv, DirectoryInv, ContextTellsTruth
<1> QED BY <1>1, PreparationInvariance, PTL
-----------------------------------------------------------------------------
(***************************************************************************)
(* The rounds of reviews, for any number of commits, runs, notes and       *)
(* faults.                                                                 *)
(***************************************************************************)
RoundsSpec == RInit /\ [][RNext]_roundVars

Contents == {<<f, t[f]>> : f \in Paths, t \in Trees}
RoundSteps == {"idle", "eligible", "checked out", "detected", "asking", "skipped",
               "chosen", "listed", "reviewing", "reviewed"}
Runs == [step : RoundSteps, nth : Nat, head : Nat, receipt : Receipt,
         kind : {"full", "incremental"}, files : SUBSET Paths, diff : SUBSET Contents,
         based : BOOLEAN, steady : BOOLEAN, found : BOOLEAN]

(* Commits come after the one they were made on.                           *)
Rooted ==
  /\ repo \in Seq([parent : Nat, tree : Trees]) /\ 1 \in DOMAIN repo
  /\ \A c \in DOMAIN repo : repo[c].parent < c

RoundTypes ==
  /\ Rooted
  /\ forge \in [tip : DOMAIN repo, state : {"open", "closed"}, draft : BOOLEAN]
  /\ entries \in Seq(Entry)
  /\ me \in Bots
  /\ clone \in [present : SUBSET DOMAIN repo, head : DOMAIN repo, deep : BOOLEAN]
  /\ snapshot \in DOMAIN repo \cup {0}
  /\ left \subseteq DOMAIN repo
  /\ run \in Runs
  /\ run.step \notin {"idle", "eligible"} => run.head \in DOMAIN repo
  /\ faults \in Nat

(* What an unbroken review names is there, and all of it was examined.     *)
ChainInv ==
  \A i \in DOMAIN entries :
    entries[i].unbroken =>
      entries[i].sha \in DOMAIN repo /\ Held(entries[i].sha, Changed(entries[i].sha)) \subseteq examined

(* What the accounts of the tool name, the tool did review.                *)
OwnInv ==
  \A i \in DOMAIN entries : entries[i].author \in Bots /\ entries[i].sha # 0 => entries[i].ours

(* A run that builds on an unbroken review can point to it.                *)
BasedInv ==
  run.based => \E i \in DOMAIN entries : entries[i].unbroken /\ entries[i].sha = run.receipt.last

(* An ancestor in the receipt is one, that the tool did review.            *)
AncestorInv ==
  /\ run.step = "skipped" => run.receipt.ancestor
  /\ run.step \in {"detected", "asking", "skipped"} /\ run.receipt.ancestor =>
       /\ run.receipt.resolvable /\ run.receipt.head = run.head
       /\ run.receipt.last \in History(run.head, clone.present)
       /\ \E i \in DOMAIN entries : entries[i].ours /\ entries[i].sha = run.receipt.last

(* What an earlier run left stays as long as the commit may be skipped,    *)
(* and is gone from the choice to the review.                              *)
LeftInv ==
  /\ run.step = "detected" => (run.head \in left) = run.found
  /\ run.step = "asking" /\ AtThisHead(run.receipt) => (run.head \in left) = run.found
  /\ run.step = "skipped" /\ run.receipt.last = run.head => (run.head \in left) = run.found
  /\ run.step \in {"chosen", "listed", "reviewing"} => run.head \notin left

(* A steady run lists all that its commit changes, and examines what no    *)
(* unbroken review examined before.                                        *)
DiffInv ==
  /\ run.step = "listed" /\ run.steady => run.files = Changed(run.head)
  /\ run.step \in {"reviewing", "reviewed"} /\ Unbroken =>
       Held(run.head, Changed(run.head)) \subseteq examined \cup run.diff

RoundsInv ==
  /\ RoundTypes /\ ChainInv /\ OwnInv /\ BasedInv /\ AncestorInv /\ LeftInv /\ DiffInv
-----------------------------------------------------------------------------
(* A set of naturals that is not empty has a least element. *)
LEMMA FirstOf ==
  ASSUME NEW T \in SUBSET Nat, T # {}
  PROVE  \E x \in T : \A y \in T : x <= y
<1>1. IsWellFoundedOn(OpToRel(<, Nat), Nat)
  BY NatLessThanWellFounded
<1>2. PICK x \in T : \A y \in T : ~ (<<y, x>> \in OpToRel(<, Nat))
  BY <1>1, WFMin, Zenon
<1>3. \A y \in T : ~(y < x)
  BY <1>2 DEF OpToRel
<1>4. \A y \in T : y \in Nat /\ x \in Nat
  BY <1>2
<1>5. \A y \in T : x <= y
  BY <1>3, <1>4
<1> QED BY <1>2, <1>5

Ancestry(back, k, present) ==
  back = [d \in 0..k |-> IF d \notin present THEN {} ELSE {d} \cup back[repo[d].parent]]

(* What is in a sequence, and in one that was extended or changed.         *)
LEMMA Elements ==
  ASSUME NEW S, NEW s \in Seq(S)
  PROVE  /\ Len(s) \in Nat /\ DOMAIN s = 1..Len(s)
         /\ \A i \in DOMAIN s : s[i] \in S
OBVIOUS

LEMMA Appended ==
  ASSUME NEW S, NEW s \in Seq(S), NEW x \in S
  PROVE  /\ Append(s, x) \in Seq(S)
         /\ DOMAIN Append(s, x) = DOMAIN s \cup {Len(s) + 1} /\ Len(s) + 1 \notin DOMAIN s
         /\ \A i \in DOMAIN s : Append(s, x)[i] = s[i]
         /\ Append(s, x)[Len(s) + 1] = x
OBVIOUS

LEMMA ParentsComeFirst ==
  ASSUME Rooted
  PROVE  /\ Len(repo) \in Nat /\ DOMAIN repo = 1..Len(repo)
         /\ \A d \in DOMAIN repo : repo[d] \in [parent : Nat, tree : Trees]
         /\ \A d \in DOMAIN repo : d \in Nat \ {0} /\ repo[d].parent \in 0..(d - 1)
<1>1. Len(repo) \in Nat /\ DOMAIN repo = 1..Len(repo)
  BY Elements DEF Rooted
<1>2. \A d \in DOMAIN repo : repo[d] \in [parent : Nat, tree : Trees]
  BY Elements DEF Rooted
<1>3. \A d \in DOMAIN repo : d \in Nat \ {0} /\ repo[d].parent \in Nat /\ repo[d].parent < d
  BY <1>1, <1>2 DEF Rooted
<1>4. \A d \in DOMAIN repo : repo[d].parent \in 0..(d - 1)
  BY <1>3
<1> QED BY <1>1, <1>2, <1>3, <1>4

(* History is well defined. *)
LEMMA AncestryExists ==
  ASSUME Rooted, NEW P \in SUBSET DOMAIN repo
  PROVE  \E back : Ancestry(back, Len(repo), P)
<1> DEFINE S == {k \in 0..Len(repo) : ~ \E back : Ancestry(back, k, P)}
<1>1. S = {}
  <2>1. SUFFICES ASSUME S # {} PROVE FALSE
    OBVIOUS
  <2>2. S \in SUBSET Nat
    BY ParentsComeFirst
  <2>3. PICK k \in S : \A y \in S : k <= y
    BY <2>1, <2>2, FirstOf
  <2>4. k \in 0..Len(repo) /\ k \in Nat /\ ~ \E back : Ancestry(back, k, P)
    BY <2>3, ParentsComeFirst
  <2>5. CASE k = 0
    <3>1. Ancestry([d \in 0..0 |-> {}], 0, P)
      <4>1. \A d \in 0..0 : d \notin P
        BY ParentsComeFirst
      <4> QED BY <4>1, Zenon DEF Ancestry
    <3> QED BY <2>4, <2>5, <3>1
  <2>6. CASE k # 0
    <3>1. k - 1 \in 0..Len(repo) /\ k - 1 \notin S
      BY <2>3, <2>4, <2>6, ParentsComeFirst
    <3>2. PICK f : Ancestry(f, k - 1, P)
      BY <3>1
    <3> DEFINE g == [d \in 0..k |-> IF d \notin P THEN {} ELSE {d} \cup f[repo[d].parent]]
    <3>3. \A d \in 0..(k - 1) : g[d] = f[d]
      <4>1. \A d \in 0..(k - 1) : d \in 0..k
        BY <2>4
      <4> QED BY <3>2, <4>1, Zenon DEF Ancestry
    <3>4. \A d \in 0..k : d \in P => repo[d].parent \in 0..(k - 1)
      BY <2>4, <2>6, ParentsComeFirst
    <3>5. \A d \in 0..k : g[d] = IF d \notin P THEN {} ELSE {d} \cup g[repo[d].parent]
      BY <3>3, <3>4, Zenon
    <3>6. g = [d \in 0..k |-> g[d]]
      BY Zenon
    <3> HIDE DEF g
    <3>7. Ancestry(g, k, P)
      BY <3>5, <3>6, Zenon DEF Ancestry
    <3> QED BY <2>4, <3>7
  <2> QED BY <2>5, <2>6
<1>2. Len(repo) \in 0..Len(repo)
  BY ParentsComeFirst
<1> QED BY <1>1, <1>2

LEMMA HistoryIsAncestry ==
  ASSUME Rooted, NEW P \in SUBSET DOMAIN repo
  PROVE  \E back : Ancestry(back, Len(repo), P) /\ \A c : History(c, P) = back[c]
<1> DEFINE b == CHOOSE back :
                  back = [d \in 0..Len(repo) |-> IF d \notin P THEN {} ELSE {d} \cup back[repo[d].parent]]
<1>1. Ancestry(b, Len(repo), P)
  BY AncestryExists DEF Ancestry
<1>2. \A c : History(c, P) = b[c]
  BY DEF History
<1> QED BY <1>1, <1>2

(* The commits of a history are present, and its own ancestors.            *)
LEMMA HistoryHolds ==
  ASSUME Rooted, NEW P \in SUBSET DOMAIN repo, NEW c \in DOMAIN repo
  PROVE  History(c, P) \subseteq P /\ History(c, P) \subseteq History(c, All)
<1>1. PICK f : Ancestry(f, Len(repo), P) /\ \A d : History(d, P) = f[d]
  BY HistoryIsAncestry
<1>2. PICK g : Ancestry(g, Len(repo), All) /\ \A d : History(d, All) = g[d]
  <2>1. All \in SUBSET DOMAIN repo
    BY DEF All
  <2> QED BY <2>1, HistoryIsAncestry
<1> DEFINE S == {d \in 0..Len(repo) : ~ (f[d] \subseteq P /\ f[d] \subseteq g[d])}
<1>3. S = {}
  <2>1. SUFFICES ASSUME S # {} PROVE FALSE
    OBVIOUS
  <2>2. S \in SUBSET Nat
    BY ParentsComeFirst
  <2>3. PICK k \in S : \A y \in S : k <= y
    BY <2>1, <2>2, FirstOf
  <2>4. k \in 0..Len(repo) /\ k \in Nat
    BY <2>3, <2>2
  <2>5. f[k] = (IF k \notin P THEN {} ELSE {k} \cup f[repo[k].parent])
    BY <1>1, <2>4, Zenon DEF Ancestry
  <2>6. g[k] = (IF k \notin All THEN {} ELSE {k} \cup g[repo[k].parent])
    BY <1>2, <2>4, Zenon DEF Ancestry
  <2>7. k \in P
    BY <2>3, <2>5
  <2>8. k \in All
    BY <2>7 DEF All
  <2>9. repo[k].parent \in 0..Len(repo) /\ repo[k].parent \notin S
    BY <2>3, <2>4, <2>7, ParentsComeFirst
  <2>10. f[repo[k].parent] \subseteq P /\ f[repo[k].parent] \subseteq g[repo[k].parent]
    BY <2>9
  <2>11. f[k] \subseteq P /\ f[k] \subseteq g[k]
    BY <2>5, <2>6, <2>7, <2>8, <2>10
  <2> QED BY <2>3, <2>11
<1>4. c \in 0..Len(repo)
  BY ParentsComeFirst
<1> QED BY <1>1, <1>2, <1>3, <1>4
-----------------------------------------------------------------------------
(* Types.                                                                  *)

LEMMA RootedStays == ASSUME Rooted, UNCHANGED repo PROVE Rooted'
BY DEF Rooted

LEMMA HeldIsContents ==
  ASSUME Rooted, NEW c \in DOMAIN repo, NEW S \in SUBSET Paths
  PROVE  Held(c, S) \subseteq Contents
<1>1. repo[c].tree \in Trees
  BY ParentsComeFirst
<1> QED BY <1>1 DEF Held, Contents

(* A commit more does not change those that were there.                    *)
LEMMA PushRoots ==
  ASSUME RoundTypes, Push
  PROVE  /\ Rooted' /\ DOMAIN repo \subseteq DOMAIN repo' /\ forge'.tip \in DOMAIN repo'
         /\ \A c \in DOMAIN repo : repo'[c] = repo[c]
         /\ forge' \in [tip : DOMAIN repo', state : {"open", "closed"}, draft : BOOLEAN]
<1>1. PICK p \in History(forge.tip, All), t \in Trees :
        /\ repo' = Append(repo, [parent |-> p, tree |-> t])
        /\ forge' = [forge EXCEPT !.tip = Len(repo) + 1]
  BY DEF Push
<1>2. Rooted /\ forge.tip \in DOMAIN repo
  BY DEF RoundTypes
<1>3. p \in DOMAIN repo
  <2>1. All \in SUBSET DOMAIN repo
    BY DEF All
  <2>2. History(forge.tip, All) \subseteq All
    BY <1>2, <2>1, HistoryHolds
  <2> QED BY <1>1, <2>1, <2>2
<1>4. p \in Nat /\ p <= Len(repo) /\ Len(repo) \in Nat /\ DOMAIN repo = 1..Len(repo)
  BY <1>2, <1>3, ParentsComeFirst
<1> DEFINE x == [parent |-> p, tree |-> t]
           C == [parent : Nat, tree : Trees]
<1>5. x \in C /\ x.parent = p /\ repo \in Seq(C)
  BY <1>2, <1>4 DEF Rooted
<1>6. repo' = Append(repo, x)
  BY <1>1
<1> HIDE DEF x, C
<1>7. /\ repo' \in Seq(C)
      /\ DOMAIN repo' = DOMAIN repo \cup {Len(repo) + 1}
      /\ \A i \in DOMAIN repo : repo'[i] = repo[i]
      /\ repo'[Len(repo) + 1] = x
  BY <1>5, <1>6, Appended
<1>8. Rooted'
  <2>1. \A c \in DOMAIN repo' : repo'[c].parent < c
    <3>1. \A c \in DOMAIN repo : repo'[c].parent < c
      BY <1>2, <1>7 DEF Rooted
    <3>2. repo'[Len(repo) + 1].parent < Len(repo) + 1
      BY <1>4, <1>5, <1>7
    <3> QED BY <1>7, <3>1, <3>2
  <2>2. 1 \in DOMAIN repo'
    BY <1>2, <1>7 DEF Rooted
  <2> QED BY <1>7, <2>1, <2>2 DEF Rooted, C
<1>9. forge' \in [tip : DOMAIN repo', state : {"open", "closed"}, draft : BOOLEAN]
  BY <1>1, <1>7 DEF RoundTypes
<1> QED BY <1>7, <1>8, <1>9

LEMMA PushTypes == ASSUME RoundTypes, Push PROVE RoundTypes'
<1>1. UNCHANGED <<entries, me, clone, snapshot, left, run, faults>>
  BY DEF Push
<1>2. DOMAIN repo \subseteq DOMAIN repo' /\ Rooted'
      /\ forge' \in [tip : DOMAIN repo', state : {"open", "closed"}, draft : BOOLEAN]
  BY PushRoots
<1>3. clone' \in [present : SUBSET DOMAIN repo', head : DOMAIN repo', deep : BOOLEAN]
  BY <1>1, <1>2 DEF RoundTypes
<1>4. snapshot' \in DOMAIN repo' \cup {0} /\ left' \subseteq DOMAIN repo'
  BY <1>1, <1>2 DEF RoundTypes
<1>5. run' \in Runs /\ (run'.step \notin {"idle", "eligible"} => run'.head \in DOMAIN repo')
  BY <1>1, <1>2 DEF RoundTypes
<1>6. entries' \in Seq(Entry) /\ me' \in Bots /\ faults' \in Nat
  BY <1>1 DEF RoundTypes
<1> QED BY <1>2, <1>3, <1>4, <1>5, <1>6 DEF RoundTypes

LEMMA ResetTypes == ASSUME RoundTypes, Reset PROVE RoundTypes'
<1>1. Rooted'
  BY RootedStays DEF RoundTypes, Reset
<1>2. forge' \in [tip : DOMAIN repo', state : {"open", "closed"}, draft : BOOLEAN]
  BY DEF RoundTypes, Reset, All
<1> QED BY <1>1, <1>2 DEF RoundTypes, Reset

LEMMA CommentTypes == ASSUME RoundTypes, Comment PROVE RoundTypes'
<1>1. Rooted'
  BY RootedStays DEF RoundTypes, Comment
<1>2. entries' \in Seq(Entry)
  <2>1. PICK n \in (Others \X All) \cup {<<me, 0>>} : entries' = Append(entries, Posted(n[1], n[2]))
    BY DEF Comment
  <2>2. All \subseteq Nat
    BY ParentsComeFirst DEF All, RoundTypes
  <2>3. n[1] \in Bots \cup Others /\ n[2] \in Nat
    <3>1. CASE n \in Others \X All
      BY <2>2, <3>1
    <3>2. CASE n = <<me, 0>>
      BY <3>2 DEF RoundTypes
    <3> QED BY <2>1, <3>1, <3>2
  <2>4. Posted(n[1], n[2]) \in Entry
    BY <2>3 DEF Posted, Entry
  <2> QED BY <2>1, <2>4, Appended DEF RoundTypes
<1> QED BY <1>1, <1>2 DEF RoundTypes, Comment

LEMMA OutsideTypes ==
  ASSUME RoundTypes, Conclude \/ Rotate
  PROVE  RoundTypes'
<1>1. Rooted' /\ UNCHANGED <<repo, entries, snapshot, run>>
  BY RootedStays DEF RoundTypes, Conclude, Rotate
<1>2. forge' \in [tip : DOMAIN repo', state : {"open", "closed"}, draft : BOOLEAN]
  BY DEF RoundTypes, Conclude, Rotate
<1>3. me' \in Bots /\ faults' \in Nat /\ left' \subseteq DOMAIN repo'
  BY DEF RoundTypes, Conclude, Rotate
<1>4. clone' \in [present : SUBSET DOMAIN repo', head : DOMAIN repo', deep : BOOLEAN]
  BY DEF RoundTypes, Conclude, Rotate, Rooted
<1> QED BY <1>1, <1>2, <1>3, <1>4 DEF RoundTypes

LEMMA FetchTypes ==
  ASSUME RoundTypes, Fetched, UNCHANGED repo
  PROVE  clone' \in [present : SUBSET DOMAIN repo', head : DOMAIN repo', deep : BOOLEAN]
<1>1. All \in SUBSET DOMAIN repo /\ Rooted /\ forge.tip \in DOMAIN repo
  BY DEF All, RoundTypes
<1>2. History(forge.tip, All) \subseteq DOMAIN repo
  BY <1>1, HistoryHolds
<1> DEFINE more == {c \in History(forge.tip, All) : clone.deep \/ c = forge.tip}
<1>3. more \subseteq DOMAIN repo
  BY <1>2
<1>4. clone' = [present |-> clone.present \cup more, head |-> forge.tip, deep |-> clone.deep]
  BY DEF Fetched
<1> HIDE DEF more
<1> QED BY <1>1, <1>3, <1>4 DEF RoundTypes

LEMMA RunnerTypes == ASSUME RoundTypes, RunnerCheckout PROVE RoundTypes'
<1>1. Rooted' /\ UNCHANGED <<repo, forge, entries, me, snapshot, left, run, faults>> /\ Fetched
  BY RootedStays DEF RoundTypes, RunnerCheckout
<1> QED BY <1>1, FetchTypes DEF RoundTypes

LEMMA IdleRun == Idle \in Runs /\ Idle.step = "idle" /\ ~Idle.based
BY DEF Idle, Runs, Receipt, RoundSteps

LEMMA StopRun ==
  ASSUME run \in Runs
  PROVE  Stop(run) \in Runs /\ Stop(run).step = "idle" /\ ~Stop(run).based
BY IdleRun DEF Stop, Runs

LEMMA BeginTypes == ASSUME RoundTypes, Begin PROVE RoundTypes'
<1>1. Rooted' /\ UNCHANGED <<repo, forge, entries, me, clone, left>>
  BY RootedStays DEF RoundTypes, Begin
<1>2. PICK st \in {"idle", "eligible"} : run' = [Idle EXCEPT !.step = st, !.nth = run.nth + 1]
  BY DEF Begin
<1>3. run' \in Runs /\ run'.step \in {"idle", "eligible"} /\ ~run'.based
  <2> DEFINE n == run.nth + 1
  <2>1. n \in Nat
    BY DEF RoundTypes, Runs
  <2>0. run' = [Idle EXCEPT !.step = st, !.nth = n]
    BY <1>2
  <2> HIDE DEF n
  <2>2. Idle \in [step : RoundSteps, nth : Nat, head : Nat, receipt : Receipt,
                  kind : {"full", "incremental"}, files : SUBSET Paths, diff : SUBSET Contents,
                  based : BOOLEAN, steady : BOOLEAN, found : BOOLEAN]
    BY IdleRun DEF Runs
  <2>3. st \in RoundSteps
    BY DEF RoundSteps
  <2>4. run' \in [step : RoundSteps, nth : Nat, head : Nat, receipt : Receipt,
                  kind : {"full", "incremental"}, files : SUBSET Paths, diff : SUBSET Contents,
                  based : BOOLEAN, steady : BOOLEAN, found : BOOLEAN]
    BY <2>0, <2>1, <2>2, <2>3
  <2>5. run'.step = st
    BY <2>0, <2>2
  <2>6. run'.based = Idle.based
    BY <2>0, <2>2
  <2> QED BY <2>4, <2>5, <2>6, IdleRun DEF Runs
<1>4. faults' \in Nat /\ snapshot' \in DOMAIN repo' \cup {0}
  BY <1>1 DEF RoundTypes, Begin
<1> QED BY <1>1, <1>3, <1>4 DEF RoundTypes

LEMMA CheckoutTypes == ASSUME RoundTypes, Checkout PROVE RoundTypes'
<1>1. Rooted' /\ UNCHANGED <<repo, forge, entries, me, left>>
  BY RootedStays DEF RoundTypes, Checkout
<1>2. snapshot' \in DOMAIN repo' \cup {0} /\ faults' \in Nat
  BY <1>1 DEF RoundTypes, Checkout
<1>3. clone' \in [present : SUBSET DOMAIN repo', head : DOMAIN repo', deep : BOOLEAN]
  <2>1. UNCHANGED clone \/ Fetched
    BY DEF Checkout
  <2> QED BY <1>1, <2>1, FetchTypes DEF RoundTypes
<1>4. \/ run' = Stop(run)
      \/ \E h \in DOMAIN repo : run' = [run EXCEPT !.step = "checked out", !.head = h]
  BY DEF Checkout, RoundTypes
<1>5. DOMAIN repo \subseteq Nat
  BY ParentsComeFirst DEF RoundTypes
<1>6. run' \in Runs /\ (run'.step \notin {"idle", "eligible"} => run'.head \in DOMAIN repo')
  BY <1>1, <1>4, <1>5, StopRun DEF RoundTypes, Runs, RoundSteps
<1> QED BY <1>1, <1>2, <1>3, <1>6 DEF RoundTypes

LEMMA HeadAt ==
  ASSUME RoundTypes, run.step \notin {"idle", "eligible"}
  PROVE  run.head \in DOMAIN repo /\ run.head \in Nat
BY ParentsComeFirst DEF RoundTypes

(* The latest of what was read is an entry of the account asked for.       *)
LEMMA LatestTold ==
  ASSUME RoundTypes, NEW read \in Scans, NEW poster, Told(read, poster) # {}
  PROVE  /\ Latest(read, poster) \in DOMAIN entries
         /\ Trusted(entries[Latest(read, poster)], poster)
         /\ Signals(entries[Latest(read, poster)])
<1>1. Len(entries) \in Nat /\ DOMAIN entries = 1..Len(entries)
  BY Elements DEF RoundTypes
<1>2. read \subseteq 1..Len(entries)
  BY <1>1 DEF Scans
<1> DEFINE n == Len(entries)
           T == Told(read, poster)
           D == {n - i : i \in T}
<1>3. T \subseteq 1..n /\ n \in Nat
  BY <1>1, <1>2 DEF Told
<1> HIDE DEF n, T
<1>4. D \in SUBSET Nat /\ D # {}
  <2>1. \A i \in T : i \in 1..n /\ n - i \in Nat
    BY <1>3
  <2>2. T # {}
    BY DEF T
  <2> QED BY <2>1, <2>2
<1>5. PICK x \in D : \A y \in D : x <= y
  BY <1>4, FirstOf
<1>6. PICK i \in T : x = n - i
  BY <1>5
<1>7. \A j \in T : j <= i
  <2>1. \A j \in T : n - i <= n - j /\ j \in 1..n /\ i \in 1..n
    BY <1>3, <1>5, <1>6
  <2> QED BY <1>3, <2>1
<1>8. Latest(read, poster) \in Told(read, poster)
  BY <1>6, <1>7 DEF Latest, T
<1> QED BY <1>1, <1>2, <1>8 DEF Told

LEMMA DetectTypes == ASSUME RoundTypes, Detect PROVE RoundTypes'
<1>1. Rooted' /\ UNCHANGED <<repo, forge, entries, me, clone, snapshot, left>>
  BY RootedStays DEF RoundTypes, Detect
<1>2. faults' \in Nat
  <2>1. faults' = faults + 1 \/ faults' = faults + 0
    BY DEF Detect
  <2> QED BY <2>1 DEF RoundTypes
<1>3. run.step = "checked out" /\ run \in Runs
  BY DEF Detect, RoundTypes
<1>4. PICK read \in Scans, poster \in {me, "none"} :
        LET known == Told(read, poster) # {}
            entry == entries[Latest(read, poster)]
        IN run' = [run EXCEPT !.step = "detected",
                     !.receipt = IF known THEN Facts(entry.sha) ELSE NotReviewed,
                     !.based = known /\ entry.unbroken,
                     !.found = run.head \in left]
  BY DEF Detect
<1> DEFINE known == Told(read, poster) # {}
           entry == entries[Latest(read, poster)]
           r == IF known THEN Facts(entry.sha) ELSE NotReviewed
           b == known /\ entry.unbroken
           f == run.head \in left
<1>5. known => entry.sha \in Nat /\ entry.unbroken \in BOOLEAN
  <2>1. ASSUME known PROVE Latest(read, poster) \in DOMAIN entries
    BY <1>4, <2>1, LatestTold
  <2>2. known => entries[Latest(read, poster)] \in Entry
    BY <2>1, Elements DEF RoundTypes
  <2> QED BY <2>2 DEF Entry
<1>6. r \in Receipt
  <2>1. run.head \in Nat
    BY <1>3, HeadAt
  <2>2. NotReviewed \in Receipt
    BY <2>1 DEF NotReviewed, Receipt
  <2>3. \A sha \in Nat : Facts(sha) \in Receipt
    BY <2>1 DEF Facts, Receipt
  <2> QED BY <1>5, <2>2, <2>3
<1>7. b \in BOOLEAN /\ f \in BOOLEAN
  BY <1>5
<1>8. run' = [run EXCEPT !.step = "detected", !.receipt = r, !.based = b, !.found = f]
  BY <1>4
<1> HIDE DEF known, entry, r, b, f
<1>9. run' \in Runs
  BY <1>3, <1>6, <1>7, <1>8 DEF Runs, RoundSteps
<1>10. run'.head \in DOMAIN repo'
  BY <1>1, <1>3, <1>8, HeadAt DEF Runs
<1> QED BY <1>1, <1>2, <1>9, <1>10 DEF RoundTypes

LEMMA DecidingTypes ==
  ASSUME RoundTypes, Truncate \/ Decide \/ Review
  PROVE  RoundTypes'
<1>1. Rooted' /\ UNCHANGED <<repo, forge, entries, me, clone, snapshot, faults>>
  BY RootedStays DEF RoundTypes, Truncate, Decide, Review
<1>2. run.step \notin {"idle", "eligible"}
  BY DEF Truncate, Decide, Review
<1>3. left' \subseteq DOMAIN repo'
  BY <1>1, <1>2, HeadAt DEF RoundTypes, Truncate, Decide, Review
<1>4. run' \in Runs /\ run'.head = run.head
  <2>1. run \in Runs
    BY DEF RoundTypes
  <2>2. \/ \E s \in RoundSteps : run' = [run EXCEPT !.step = s]
        \/ \E k \in {"full", "incremental"} :
             run' = [run EXCEPT !.step = "chosen", !.found = FALSE, !.kind = k]
    BY DEF Truncate, Decide, Review, RoundSteps
  <2> QED BY <2>1, <2>2 DEF Runs, RoundSteps
<1> QED BY <1>1, <1>2, <1>3, <1>4, HeadAt DEF RoundTypes

LEMMA SkippedTypes == ASSUME RoundTypes, Skipped PROVE RoundTypes'
<1>1. Rooted' /\ UNCHANGED <<repo, forge, entries, me, clone, snapshot, left, faults>>
      /\ run' = Stop(run)
  BY RootedStays DEF RoundTypes, Skipped
<1> QED BY <1>1, StopRun DEF RoundTypes

LEMMA ListedPaths ==
  ASSUME NEW listing \in Listings
  PROVE  listing.paths \subseteq Paths /\ (Whole(listing) => listing.paths = Changed(forge.tip))
<1>1. Changed(forge.tip) \subseteq Paths
  BY DEF Changed, Differ
<1> QED BY <1>1 DEF Listings, Whole

LEMMA ListTypes == ASSUME RoundTypes, ListFiles PROVE RoundTypes'
<1>1. Rooted' /\ UNCHANGED <<repo, forge, entries, me, clone, snapshot, left>> /\ run \in Runs
  BY RootedStays DEF RoundTypes, ListFiles
<1>2. run.step = "chosen" /\ faults' \in Nat
  BY DEF RoundTypes, ListFiles
<1>3. PICK listing \in Listings :
        run' = IF listing.failed THEN Stop(run)
               ELSE [run EXCEPT !.step = "listed", !.files = listing.paths,
                       !.steady = forge.tip = run.head /\ Whole(listing)]
  BY DEF ListFiles
<1> DEFINE s == forge.tip = run.head /\ Whole(listing)
           p == listing.paths
<1>4. s \in BOOLEAN /\ p \in SUBSET Paths
  BY ListedPaths DEF Listings, Whole
<1>5. run' = Stop(run) \/ run' = [run EXCEPT !.step = "listed", !.files = p, !.steady = s]
  BY <1>3
<1> HIDE DEF s, p
<1>6. run' \in Runs /\ (run'.step \notin {"idle", "eligible"} => run'.head = run.head)
  BY <1>1, <1>4, <1>5, StopRun DEF Runs, RoundSteps
<1> QED BY <1>1, <1>2, <1>6, HeadAt DEF RoundTypes

LEMMA ReceiptHolds ==
  ASSUME RoundTypes
  PROVE  /\ run.receipt.last \in Nat /\ run.receipt.ancestor \in BOOLEAN
         /\ run.receipt.reviewed \in BOOLEAN /\ run.receipt.resolvable \in BOOLEAN
BY DEF RoundTypes, Runs, Receipt

LEMMA TakeTypes == ASSUME RoundsAssumption, RoundTypes, TakeDiff PROVE RoundTypes'
<1>1. Rooted' /\ UNCHANGED <<repo, forge, entries, me, clone, snapshot, left>> /\ run \in Runs
  BY RootedStays DEF RoundTypes, TakeDiff
<1>2. run.step = "listed" /\ faults' \in Nat
  BY DEF RoundTypes, TakeDiff
<1>3. SinceDiff \in SUBSET Contents
  <2>1. Differ(run.receipt.last, run.head) \cap run.files \in SUBSET Paths
    BY DEF Differ
  <2> QED BY <1>2, <2>1, HeadAt, HeldIsContents DEF SinceDiff, RoundTypes
<1>4. Held(forge.tip, Changed(forge.tip)) \in SUBSET Contents
  <2>1. Changed(forge.tip) \in SUBSET Paths
    BY DEF Changed, Differ
  <2> QED BY <2>1, HeldIsContents DEF RoundTypes
<1> DEFINE d == SinceDiff
           h == Held(forge.tip, Changed(forge.tip))
           s == run.steady /\ forge.tip = run.head
<1>5. \/ run' = [run EXCEPT !.step = "reviewing", !.diff = d]
      \/ run' = [run EXCEPT !.step = "reviewing", !.kind = "full", !.diff = h, !.steady = s]
  BY <1>1 DEF TakeDiff, Runs
<1>6. s \in BOOLEAN /\ d \in SUBSET Contents /\ h \in SUBSET Contents
  BY <1>1, <1>3, <1>4 DEF Runs
<1> HIDE DEF d, h, s
<1>7. run' \in Runs /\ run'.head = run.head
  BY <1>1, <1>5, <1>6 DEF Runs, RoundSteps
<1> QED BY <1>1, <1>2, <1>7, HeadAt DEF RoundTypes

(* What a review that is posted makes of the entries.                      *)
LEMMA PostedEntries ==
  ASSUME RoundTypes, Post
  PROVE  /\ entries' \in Seq(Entry) /\ DOMAIN entries \subseteq DOMAIN entries'
         /\ \A i \in DOMAIN entries' :
              \/ i \in DOMAIN entries /\ entries'[i] = entries[i]
              \/ /\ entries'[i].sha = run.head /\ entries'[i].ours
                 /\ entries'[i].unbroken => Unbroken
                 /\ examined' = examined \cup run.diff
              \/ /\ i \in DOMAIN entries /\ OwnNote(entries[i])
                 /\ entries'[i].sha = run.head /\ entries'[i].author = entries[i].author
                 /\ entries'[i].ours = entries[i].ours
                 /\ entries'[i].unbroken => entries[i].unbroken \/ Unbroken
                 /\ examined' = examined \cup run.diff
<1> DEFINE new == [Posted(me, run.head) EXCEPT !.ours = TRUE, !.unbroken = Unbroken]
<1>1. run.step = "reviewed" /\ run \in Runs /\ entries \in Seq(Entry) /\ me \in Bots
  BY DEF Post, RoundTypes
<1>2. Unbroken \in BOOLEAN
  BY <1>1 DEF Unbroken, Runs
<1>3. new \in Entry /\ new.sha = run.head /\ new.ours /\ new.unbroken = Unbroken
  BY <1>1, <1>2, HeadAt DEF Posted, Entry
<1>4. CASE entries' = Append(entries, new) /\ examined' = examined \cup run.diff
  <2> HIDE DEF new
  <2>1. /\ Append(entries, new) \in Seq(Entry)
        /\ DOMAIN Append(entries, new) = DOMAIN entries \cup {Len(entries) + 1}
        /\ \A i \in DOMAIN entries : Append(entries, new)[i] = entries[i]
        /\ Append(entries, new)[Len(entries) + 1] = new
    BY <1>1, <1>3, Appended
  <2> QED BY <1>3, <1>4, <2>1, Zenon
<1>5. ASSUME NEW i \in DOMAIN entries, OwnNote(entries[i]),
             entries' = [entries EXCEPT ![i].unbroken = @ \/ Unbroken],
             examined' = examined \cup run.diff
      PROVE  /\ entries' \in Seq(Entry) /\ DOMAIN entries' = DOMAIN entries
             /\ \A j \in DOMAIN entries : j # i => entries'[j] = entries[j]
             /\ entries'[i].sha = run.head /\ entries'[i].author = entries[i].author
             /\ entries'[i].ours = entries[i].ours
             /\ entries'[i].unbroken => entries[i].unbroken \/ Unbroken
  <2> DEFINE e == [entries[i] EXCEPT !.unbroken = @ \/ Unbroken]
  <2>1. entries[i] \in Entry
    BY <1>1, Elements
  <2>2. /\ e \in Entry /\ e.sha = entries[i].sha /\ e.author = entries[i].author
        /\ e.ours = entries[i].ours /\ e.unbroken = (entries[i].unbroken \/ Unbroken)
    BY <1>2, <2>1 DEF Entry
  <2>3. entries' = [entries EXCEPT ![i] = e]
    BY <1>5
  <2> HIDE DEF e
  <2>4. entries' \in Seq(Entry) /\ DOMAIN entries' = DOMAIN entries
        /\ entries'[i] = e /\ \A j \in DOMAIN entries : j # i => entries'[j] = entries[j]
    BY <1>1, <2>2, <2>3
  <2> QED BY <1>5, <2>2, <2>4 DEF OwnNote
<1>6. CASE UNCHANGED <<entries, examined>>
  BY <1>1, <1>6
<1>7. CASE \E i \in DOMAIN entries :
             /\ OwnNote(entries[i])
             /\ entries' = [entries EXCEPT ![i].unbroken = @ \/ Unbroken]
             /\ examined' = examined \cup run.diff
  <2>1. PICK i \in DOMAIN entries :
          /\ OwnNote(entries[i])
          /\ entries' = [entries EXCEPT ![i].unbroken = @ \/ Unbroken]
          /\ examined' = examined \cup run.diff
    BY <1>7
  <2>2. /\ entries' \in Seq(Entry) /\ DOMAIN entries' = DOMAIN entries
        /\ \A j \in DOMAIN entries : j # i => entries'[j] = entries[j]
        /\ entries'[i].sha = run.head /\ entries'[i].author = entries[i].author
        /\ entries'[i].ours = entries[i].ours
        /\ entries'[i].unbroken => entries[i].unbroken \/ Unbroken
    BY <1>5, <2>1
  <2> QED BY <2>1, <2>2, Zenon
<1> QED BY <1>4, <1>6, <1>7 DEF Post

LEMMA PostTypes == ASSUME RoundTypes, Post PROVE RoundTypes'
<1>1. Rooted' /\ UNCHANGED <<repo, forge, me, clone, snapshot, left, faults>> /\ run' = Stop(run)
  BY RootedStays DEF RoundTypes, Post
<1> QED BY <1>1, StopRun, PostedEntries DEF RoundTypes

LEMMA RoundTypesKept == ASSUME RoundsAssumption, RoundTypes, [RNext]_roundVars PROVE RoundTypes'
<1>1. CASE UNCHANGED roundVars
  <2>1. Rooted'
    BY <1>1, RootedStays DEF RoundTypes, roundVars
  <2> QED BY <1>1, <2>1 DEF RoundTypes, roundVars
<1> QED
  BY <1>1, PushTypes, ResetTypes, CommentTypes, OutsideTypes, RunnerTypes, BeginTypes,
     CheckoutTypes, DetectTypes, DecidingTypes, SkippedTypes, ListTypes, TakeTypes, PostTypes
  DEF RNext
-----------------------------------------------------------------------------
(* What the commits that were there hold and change stays.                 *)
LEMMA TreesStay ==
  ASSUME RoundTypes, [RNext]_roundVars, NEW c \in DOMAIN repo
  PROVE  /\ c \in DOMAIN repo' /\ repo'[c] = repo[c] /\ repo'[1] = repo[1]
         /\ Changed(c)' = Changed(c)
         /\ Held(c, Changed(c))' = Held(c, Changed(c))
<1>1. DOMAIN repo \subseteq DOMAIN repo' /\ \A d \in DOMAIN repo : repo'[d] = repo[d]
  <2>1. Push \/ UNCHANGED repo
    BY DEF RNext, roundVars, Push, Reset, Comment, Conclude, Rotate, RunnerCheckout, Begin,
           Checkout, Detect, Truncate, Decide, Skipped, ListFiles, TakeDiff, Review, Post
  <2> QED BY <2>1, PushRoots
<1>2. 1 \in DOMAIN repo
  BY DEF RoundTypes, Rooted
<1>3. repo'[1] = repo[1] /\ repo'[c] = repo[c]
  BY <1>1, <1>2
<1>4. Changed(c)' = Changed(c)
  BY <1>3 DEF Changed, Differ
<1>5. Held(c, Changed(c))' = Held(c, Changed(c))
  BY <1>3, <1>4 DEF Held
<1> QED BY <1>1, <1>3, <1>4, <1>5

LEMMA CommentedEntries ==
  ASSUME RoundsAssumption, RoundTypes, Comment
  PROVE  \E x \in Entry :
           /\ entries' = Append(entries, x) /\ ~x.unbroken /\ ~x.ours
           /\ x.author \notin Bots \/ x.sha = 0
<1>1. PICK n \in (Others \X All) \cup {<<me, 0>>} : entries' = Append(entries, Posted(n[1], n[2]))
  BY DEF Comment
<1>2. All \subseteq Nat
  BY ParentsComeFirst DEF All, RoundTypes
<1>3. n[1] \in Bots \cup Others /\ n[2] \in Nat /\ (n[1] \notin Bots \/ n[2] = 0)
  <2>1. CASE n \in Others \X All
    BY <1>2, <2>1 DEF RoundsAssumption
  <2>2. CASE n = <<me, 0>>
    BY <2>2 DEF RoundTypes
  <2> QED BY <1>1, <2>1, <2>2
<1>4. Posted(n[1], n[2]) \in Entry /\ Posted(n[1], n[2]).sha = n[2]
      /\ Posted(n[1], n[2]).author = n[1]
      /\ ~Posted(n[1], n[2]).unbroken /\ ~Posted(n[1], n[2]).ours
  BY <1>3 DEF Posted, Entry
<1> QED BY <1>1, <1>3, <1>4

LEMMA ChainKept ==
  ASSUME RoundsAssumption, RoundsInv, [RNext]_roundVars
  PROVE  ChainInv'
<1>1. RoundTypes /\ ChainInv /\ DiffInv
  BY DEF RoundsInv
<1>2. examined \subseteq examined'
  BY <1>1 DEF RNext, roundVars, Push, Reset, Comment, Conclude, Rotate, RunnerCheckout, Begin,
           Checkout, Detect, Truncate, Decide, Skipped, ListFiles, TakeDiff, Review, Post
<1>3. ASSUME NEW c \in DOMAIN repo, Held(c, Changed(c)) \subseteq examined'
      PROVE  c \in DOMAIN repo' /\ Held(c, Changed(c))' \subseteq examined'
  BY <1>1, <1>3, TreesStay
<1>4. CASE UNCHANGED entries
  BY <1>1, <1>2, <1>3, <1>4 DEF ChainInv
<1>5. CASE Comment
  <2>1. PICK x \in Entry : entries' = Append(entries, x) /\ ~x.unbroken
    BY <1>1, <1>5, CommentedEntries
  <2>2. DOMAIN entries' = DOMAIN entries \cup {Len(entries) + 1}
        /\ entries'[Len(entries) + 1] = x
        /\ \A i \in DOMAIN entries : entries'[i] = entries[i]
    BY <1>1, <2>1, Appended DEF RoundTypes
  <2> QED BY <1>1, <1>2, <1>3, <2>1, <2>2 DEF ChainInv
<1>6. CASE Post
  <2>1. run.step = "reviewed"
    BY <1>6 DEF Post
  <2>2. run.head \in DOMAIN repo
    BY <1>1, <2>1, HeadAt
  <2>3. ASSUME NEW i \in DOMAIN entries', entries'[i].unbroken
        PROVE  /\ entries'[i].sha \in DOMAIN repo
               /\ Held(entries'[i].sha, Changed(entries'[i].sha)) \subseteq examined'
    <3>1. CASE i \in DOMAIN entries /\ entries'[i] = entries[i]
      BY <1>1, <1>2, <2>3, <3>1 DEF ChainInv
    <3>2. CASE entries'[i].sha = run.head /\ Unbroken /\ examined' = examined \cup run.diff
      BY <1>1, <2>1, <2>2, <3>2 DEF DiffInv
    <3>3. CASE /\ i \in DOMAIN entries /\ entries[i].unbroken
               /\ OwnNote(entries[i]) /\ entries'[i].sha = run.head
      BY <1>1, <1>2, <3>3 DEF ChainInv, OwnNote
    <3> QED BY <1>1, <1>6, <2>3, <3>1, <3>2, <3>3, PostedEntries
  <2> QED BY <1>3, <2>3 DEF ChainInv
<1> QED
  BY <1>4, <1>5, <1>6
  DEF RNext, roundVars, Push, Reset, Conclude, Rotate, RunnerCheckout, Begin,
      Checkout, Detect, Truncate, Decide, Skipped, ListFiles, TakeDiff, Review

LEMMA OwnKept ==
  ASSUME RoundsAssumption, RoundsInv, [RNext]_roundVars
  PROVE  OwnInv'
<1>1. RoundTypes /\ OwnInv
  BY DEF RoundsInv
<1>2. CASE UNCHANGED entries
  BY <1>1, <1>2 DEF OwnInv
<1>3. CASE Comment
  <2>1. PICK x \in Entry : entries' = Append(entries, x) /\ (x.author \notin Bots \/ x.sha = 0)
    BY <1>1, <1>3, CommentedEntries
  <2>2. DOMAIN entries' = DOMAIN entries \cup {Len(entries) + 1}
        /\ entries'[Len(entries) + 1] = x
        /\ \A i \in DOMAIN entries : entries'[i] = entries[i]
    BY <1>1, <2>1, Appended DEF RoundTypes
  <2> QED BY <1>1, <2>1, <2>2 DEF OwnInv
<1>4. CASE Post
  <2>1. run.step = "reviewed"
    BY <1>4 DEF Post
  <2>2. run.head # 0
    BY <1>1, <2>1, HeadAt, ParentsComeFirst DEF RoundTypes
  <2>3. ASSUME NEW i \in DOMAIN entries', entries'[i].author \in Bots, entries'[i].sha # 0
        PROVE  entries'[i].ours
    <3>1. CASE i \in DOMAIN entries /\ entries'[i] = entries[i]
      BY <1>1, <2>3, <3>1 DEF OwnInv
    <3>2. CASE /\ i \in DOMAIN entries /\ OwnNote(entries[i])
               /\ entries'[i].author = entries[i].author /\ entries'[i].ours = entries[i].ours
      BY <1>1, <2>2, <2>3, <3>2 DEF OwnInv, OwnNote
    <3> QED BY <1>1, <1>4, <3>1, <3>2, PostedEntries
  <2> QED BY <2>3 DEF OwnInv
<1> QED
  BY <1>2, <1>3, <1>4
  DEF RNext, roundVars, Push, Reset, Conclude, Rotate, RunnerCheckout, Begin,
      Checkout, Detect, Truncate, Decide, Skipped, ListFiles, TakeDiff, Review

(* Entries keep their place, their commit and what they stand for.         *)
LEMMA EntriesStay ==
  ASSUME RoundsAssumption, RoundTypes, [RNext]_roundVars, ~Post
  PROVE  \A i \in DOMAIN entries : i \in DOMAIN entries' /\ entries'[i] = entries[i]
<1>1. CASE UNCHANGED entries
  BY <1>1
<1>2. CASE Comment
  <2>1. PICK x \in Entry : entries' = Append(entries, x)
    BY <1>2, CommentedEntries
  <2> QED BY <2>1, Appended DEF RoundTypes
<1> QED
  BY <1>1, <1>2
  DEF RNext, roundVars, Push, Reset, Conclude, Rotate, RunnerCheckout, Begin,
      Checkout, Detect, Truncate, Decide, Skipped, ListFiles, TakeDiff, Review

LEMMA BasedKept ==
  ASSUME RoundsAssumption, RoundsInv, [RNext]_roundVars
  PROVE  BasedInv'
<1>1. RoundTypes /\ BasedInv /\ run \in Runs
  BY DEF RoundsInv, RoundTypes
<1>2. CASE Post
  BY <1>1, <1>2, StopRun DEF Post, BasedInv
<1>3. CASE Detect
  <2>1. PICK read \in Scans, poster \in {me, "none"} :
          LET known == Told(read, poster) # {}
              entry == entries[Latest(read, poster)]
          IN run' = [run EXCEPT !.step = "detected",
                       !.receipt = IF known THEN Facts(entry.sha) ELSE NotReviewed,
                       !.based = known /\ entry.unbroken,
                       !.found = run.head \in left]
    BY <1>3 DEF Detect
  <2>2. UNCHANGED entries
    BY <1>3 DEF Detect
  <2>3. run'.based = (Told(read, poster) # {} /\ entries[Latest(read, poster)].unbroken)
    BY <1>1, <2>1 DEF Runs
  <2>4. run'.receipt = IF Told(read, poster) # {} THEN Facts(entries[Latest(read, poster)].sha)
                       ELSE NotReviewed
    BY <1>1, <2>1 DEF Runs
  <2>5. ASSUME run'.based
        PROVE  /\ Latest(read, poster) \in DOMAIN entries'
               /\ entries'[Latest(read, poster)].unbroken
               /\ entries'[Latest(read, poster)].sha = run'.receipt.last
    <3>1. Told(read, poster) # {} /\ entries[Latest(read, poster)].unbroken
      BY <2>3, <2>5
    <3>2. Latest(read, poster) \in DOMAIN entries
      BY <1>1, <2>1, <3>1, LatestTold
    <3>3. run'.receipt = Facts(entries[Latest(read, poster)].sha)
      BY <2>4, <3>1
    <3>4. run'.receipt.last = entries[Latest(read, poster)].sha
      BY <3>3 DEF Facts
    <3> QED BY <2>2, <3>1, <3>2, <3>4
  <2> QED BY <2>5 DEF BasedInv
<1>4. CASE run'.based => run.based /\ run'.receipt = run.receipt
  <2>1. CASE ~Post
    BY <1>1, <1>4, <2>1, EntriesStay DEF BasedInv
  <2> QED BY <1>2, <2>1
<1>5. CASE Begin
  <2>1. ~run'.based
    BY <1>5, IdleRun DEF Begin, Runs
  <2> QED BY <2>1 DEF BasedInv
<1>6. CASE run' = Stop(run)
  BY <1>1, <1>6, StopRun DEF BasedInv
<1>7. CASE \/ Checkout \/ Truncate \/ Decide \/ ListFiles \/ TakeDiff \/ Review
  BY <1>1, <1>4, <1>6, <1>7 DEF Checkout, Truncate, Decide, ListFiles, TakeDiff, Review, Runs
<1>8. CASE UNCHANGED run
  BY <1>4, <1>8
<1> QED
  BY <1>2, <1>3, <1>5, <1>6, <1>7, <1>8
  DEF RNext, roundVars, Push, Reset, Comment, Conclude, Rotate, RunnerCheckout, Skipped

(* What detect_prior_review writes into the run.                           *)
LEMMA DetectedRun ==
  ASSUME RoundsAssumption, RoundTypes, OwnInv, Detect
  PROVE  /\ run'.step = "detected" /\ run'.head = run.head
         /\ UNCHANGED <<repo, clone, left, entries>>
         /\ run'.found = (run.head \in left)
         /\ run'.receipt.ancestor =>
              \E i \in DOMAIN entries :
                /\ entries[i].ours /\ entries[i].sha = run'.receipt.last
                /\ run'.receipt.resolvable = (run'.receipt.last \in clone.present)
                /\ run'.receipt.head = run.head
                /\ run'.receipt.last \in History(run.head, clone.present)
<1>1. PICK read \in Scans, poster \in {me, "none"} :
        /\ poster = "none" => Trouble
        /\ run' = [run EXCEPT !.step = "detected",
                     !.receipt = IF Told(read, poster) # {}
                                 THEN Facts(entries[Latest(read, poster)].sha) ELSE NotReviewed,
                     !.based = Told(read, poster) # {} /\ entries[Latest(read, poster)].unbroken,
                     !.found = run.head \in left]
  BY DEF Detect
<1>2. run \in Runs /\ me \in Bots
  BY DEF RoundTypes
<1>3. run'.step = "detected" /\ run'.head = run.head /\ run'.found = (run.head \in left)
  BY <1>1, <1>2 DEF Runs
<1>4. run'.receipt = IF Told(read, poster) # {} THEN Facts(entries[Latest(read, poster)].sha)
                     ELSE NotReviewed
  BY <1>1, <1>2 DEF Runs
<1>5. ASSUME run'.receipt.ancestor
      PROVE  /\ Latest(read, poster) \in DOMAIN entries
             /\ entries[Latest(read, poster)].ours
             /\ entries[Latest(read, poster)].sha = run'.receipt.last
             /\ run'.receipt.resolvable = (run'.receipt.last \in clone.present)
             /\ run'.receipt.head = run.head
             /\ run'.receipt.last \in History(run.head, clone.present)
  <2>1. Told(read, poster) # {}
    BY <1>4, <1>5 DEF NotReviewed
  <2>2. run'.receipt = Facts(entries[Latest(read, poster)].sha)
    BY <1>4, <2>1
  <2>3. /\ Latest(read, poster) \in DOMAIN entries
        /\ entries[Latest(read, poster)].author = poster
        /\ entries[Latest(read, poster)].sha # 0
    BY <1>1, <2>1, LatestTold DEF Trusted, Signals
  <2>4. poster \in Bots
    <3>1. entries[Latest(read, poster)] \in Entry
      BY <2>3, Elements DEF RoundTypes
    <3>2. poster \in Bots \cup Others
      BY <2>3, <3>1 DEF Entry
    <3> QED BY <1>1, <1>2, <3>2 DEF RoundsAssumption
  <2>5. entries[Latest(read, poster)].ours
    BY <2>3, <2>4 DEF OwnInv
  <2> DEFINE sha == entries[Latest(read, poster)].sha
  <2>6. /\ run'.receipt.last = sha /\ run'.receipt.head = run.head /\ run'.receipt.resolvable = (sha \in clone.present)
        /\ run'.receipt.ancestor = (sha \in History(run.head, clone.present))
    BY <2>2 DEF Facts
  <2> QED BY <1>5, <2>3, <2>5, <2>6
<1> QED BY <1>3, <1>5 DEF Detect

LEMMA AncestorKept ==
  ASSUME RoundsAssumption, RoundsInv, [RNext]_roundVars
  PROVE  AncestorInv'
<1>1. RoundTypes /\ OwnInv /\ AncestorInv /\ run \in Runs
  BY DEF RoundsInv, RoundTypes
<1>2. CASE Detect
  <2>1. run.step \notin {"idle", "eligible"}
    BY <1>2 DEF Detect
  <2>2. History(run.head, clone.present) \subseteq clone.present
    BY <1>1, <2>1, HeadAt, HistoryHolds DEF RoundTypes
  <2>3. run'.step = "detected" /\ run'.head = run.head /\ UNCHANGED <<repo, clone, entries>>
    BY <1>1, <1>2, DetectedRun
  <2>4. History(run.head, clone.present)' = History(run.head, clone.present)
    BY <2>3 DEF History
  <2>5. ASSUME run'.receipt.ancestor
        PROVE  /\ run'.receipt.resolvable /\ run'.receipt.head = run.head
               /\ run'.receipt.last \in History(run.head, clone.present)
               /\ \E i \in DOMAIN entries : entries[i].ours /\ entries[i].sha = run'.receipt.last
    <3>1. PICK i \in DOMAIN entries :
            /\ entries[i].ours /\ entries[i].sha = run'.receipt.last
            /\ run'.receipt.resolvable = (run'.receipt.last \in clone.present)
            /\ run'.receipt.head = run.head
            /\ run'.receipt.last \in History(run.head, clone.present)
      BY <1>1, <1>2, <2>5, DetectedRun
    <3> QED BY <2>2, <3>1
  <2> QED BY <2>3, <2>4, <2>5, Zenon DEF AncestorInv
<1>3. CASE /\ run.step \in {"detected", "asking", "skipped"}
           /\ UNCHANGED <<repo, clone, entries>>
           /\ run'.receipt = run.receipt /\ run'.head = run.head
           /\ run'.step = "skipped" => run.receipt.ancestor
  <2>1. History(run.head, clone.present)' = History(run.head, clone.present)
    BY <1>3 DEF History
  <2> QED BY <1>1, <1>3, <2>1, Zenon DEF AncestorInv
<1>4. CASE run'.step \notin {"detected", "asking", "skipped"}
  BY <1>4 DEF AncestorInv
<1>5. CASE Truncate \/ Decide
  <2>1. UNCHANGED <<repo, clone, entries>> /\ run.step \in {"detected", "asking", "skipped"}
    BY <1>5 DEF Truncate, Decide
  <2>2. /\ run'.receipt = run.receipt /\ run'.head = run.head
        /\ run'.step = "skipped" => run.receipt.ancestor
    BY <1>1, <1>5 DEF Truncate, Decide, Runs
  <2> QED BY <1>3, <2>1, <2>2
<1>6. CASE /\ UNCHANGED run
           /\ Looking
  BY <1>4, <1>6 DEF Looking
<1>7. CASE Skipped \/ Post
  BY <1>1, <1>4, <1>7, StopRun DEF Skipped, Post
<1>8. CASE Begin
  <2>1. PICK st \in {"idle", "eligible"} : run' = [Idle EXCEPT !.step = st, !.nth = run.nth + 1]
    BY <1>8 DEF Begin
  <2>2. run'.step = st
    BY <2>1, IdleRun DEF Runs
  <2> QED BY <1>4, <2>2
<1>9. CASE Checkout \/ ListFiles \/ TakeDiff \/ Review
  BY <1>1, <1>4, <1>9, StopRun DEF Checkout, ListFiles, TakeDiff, Review, Runs
<1>10. CASE UNCHANGED roundVars
  <2>1. UNCHANGED <<repo, clone, entries, run>>
    BY <1>10 DEF roundVars
  <2> QED BY <1>1, <1>3, <1>4, <2>1 DEF AncestorInv
<1>11. CASE Push \/ Reset \/ Comment \/ Conclude \/ Rotate \/ RunnerCheckout
  BY <1>6, <1>11 DEF Push, Reset, Comment, Conclude, Rotate, RunnerCheckout, Looking
<1> QED
  BY <1>2, <1>5, <1>7, <1>8, <1>9, <1>10, <1>11 DEF RNext

LEMMA LeftKept ==
  ASSUME RoundsAssumption, RoundsInv, [RNext]_roundVars
  PROVE  LeftInv'
<1>1. RoundTypes /\ OwnInv /\ AncestorInv /\ LeftInv /\ run \in Runs
  BY DEF RoundsInv, RoundTypes
<1>2. CASE UNCHANGED <<run, left>>
  BY <1>1, <1>2 DEF LeftInv, AtThisHead
<1>3. CASE run'.step \in {"idle", "eligible", "checked out", "reviewed"}
  BY <1>3 DEF LeftInv
<1>4. CASE Detect
  <2>1. run'.step = "detected" /\ run'.head = run.head /\ UNCHANGED left
        /\ run'.found = (run.head \in left)
    BY <1>1, <1>4, DetectedRun
  <2> QED BY <2>1 DEF LeftInv
<1>5. CASE Truncate
  <2>1. /\ run.step = "detected" /\ run'.step = "asking" /\ run'.head = run.head
        /\ run'.receipt = run.receipt /\ run'.found = run.found
        /\ AtThisHead(run.receipt) => left' = left
    BY <1>1, <1>5 DEF Truncate, Runs
  <2> QED BY <1>1, <2>1 DEF LeftInv
<1>6. CASE Decide
  <2>1. CASE run' = [run EXCEPT !.step = "skipped"] /\ UNCHANGED left
             /\ run.receipt.reviewed /\ run.receipt.ancestor
    <3>1. /\ run'.step = "skipped" /\ run'.head = run.head
          /\ run'.receipt = run.receipt /\ run'.found = run.found
      BY <1>1, <2>1 DEF Runs
    <3>2. run.step = "asking"
      BY <1>6 DEF Decide
    <3>3. run.receipt.last = run.head => AtThisHead(run.receipt)
      <4>1. run.receipt.resolvable
        BY <1>1, <2>1, <3>2 DEF AncestorInv
      <4>2. run.receipt.last = run.head => run.receipt.last = run.receipt.head
        BY <1>1, <2>1, <3>2 DEF AncestorInv
      <4> QED BY <2>1, <4>1, <4>2 DEF AtThisHead
    <3> QED BY <1>1, <2>1, <3>1, <3>2, <3>3 DEF LeftInv
  <2>2. CASE left' = left \ {run.head} /\ \E k \in {"full", "incremental"} :
               run' = [run EXCEPT !.step = "chosen", !.found = FALSE, !.kind = k]
    <3>1. run'.step = "chosen" /\ run'.head = run.head
      BY <1>1, <2>2 DEF Runs
    <3> QED BY <2>2, <3>1 DEF LeftInv
  <2> QED BY <1>6, <2>1, <2>2 DEF Decide
<1>7. CASE ListFiles \/ TakeDiff
  <2>1. /\ run.step \in {"chosen", "listed"} /\ UNCHANGED left
        /\ \/ run'.step = "idle"
           \/ run'.step \in {"listed", "reviewing"} /\ run'.head = run.head
    BY <1>1, <1>7, StopRun DEF ListFiles, TakeDiff, Runs
  <2> QED BY <1>1, <2>1 DEF LeftInv
<1>8. CASE Begin
  <2>1. PICK st \in {"idle", "eligible"} : run' = [Idle EXCEPT !.step = st, !.nth = run.nth + 1]
    BY <1>8 DEF Begin
  <2>2. run'.step = st
    BY <2>1, IdleRun DEF Runs
  <2> QED BY <1>3, <2>2
<1>9. CASE Checkout \/ Skipped \/ Review \/ Post
  BY <1>1, <1>3, <1>9, StopRun DEF Checkout, Skipped, Review, Post, Runs
<1>10. CASE Rotate
  BY <1>3, <1>10 DEF Rotate
<1>11. CASE Push \/ Reset \/ Comment \/ Conclude \/ RunnerCheckout
  BY <1>2, <1>11 DEF Push, Reset, Comment, Conclude, RunnerCheckout
<1>12. CASE UNCHANGED roundVars
  BY <1>2, <1>12 DEF roundVars
<1> QED
  BY <1>4, <1>5, <1>6, <1>7, <1>8, <1>9, <1>10, <1>11, <1>12 DEF RNext

(* What a steady run that starts over, or builds on an unbroken review,    *)
(* takes to be examined completes what was.                                *)
LEMMA DiffCompletes ==
  ASSUME RoundsAssumption, RoundsInv, run.step = "listed", run.steady, run.based
  PROVE  Held(run.head, Changed(run.head)) \subseteq examined \cup SinceDiff
<1>1. run.files = Changed(run.head) /\ run.head \in DOMAIN repo
  BY HeadAt DEF RoundsInv, DiffInv
<1> DEFINE last == run.receipt.last
<1>2. last \in DOMAIN repo /\ Held(last, Changed(last)) \subseteq examined
  BY DEF RoundsInv, BasedInv, ChainInv
<1>3. ASSUME NEW f \in Changed(run.head)
      PROVE  <<f, repo[run.head].tree[f]>> \in examined \cup SinceDiff
  <2>1. f \in Paths /\ repo[1].tree[f] # repo[run.head].tree[f]
    BY <1>3 DEF Changed, Differ
  <2>2. CASE repo[last].tree[f] # repo[run.head].tree[f]
    <3>1. f \in Differ(last, run.head) \cap run.files
      BY <1>1, <1>3, <2>1, <2>2 DEF Differ
    <3> QED BY <3>1 DEF SinceDiff, Held
  <2>3. CASE repo[last].tree[f] = repo[run.head].tree[f]
    <3>1. f \in Changed(last)
      BY <2>1, <2>3 DEF Changed, Differ
    <3>2. <<f, repo[last].tree[f]>> \in Held(last, Changed(last))
      BY <3>1 DEF Held
    <3> QED BY <1>2, <2>3, <3>2
  <2> QED BY <2>2, <2>3
<1> QED BY <1>3 DEF Held

LEMMA DiffKept ==
  ASSUME RoundsAssumption, RoundsInv, [RNext]_roundVars
  PROVE  DiffInv'
<1>1. RoundTypes /\ DiffInv /\ run \in Runs
  BY DEF RoundsInv, RoundTypes
<1>2. CASE run'.step \notin {"listed", "reviewing", "reviewed"}
  BY <1>2 DEF DiffInv
<1>3. CASE Looking /\ UNCHANGED <<run, examined>>
  <2>1. CASE run.step = "listed"
    <3>1. run.head \in DOMAIN repo
      BY <1>1, <2>1, HeadAt
    <3>2. Changed(run.head)' = Changed(run.head)
      <4>1. repo'[run.head] = repo[run.head] /\ repo'[1] = repo[1]
        BY <1>1, <3>1, TreesStay
      <4>2. run' = run
        BY <1>3
      <4> QED BY <4>1, <4>2 DEF Changed, Differ
    <3> QED BY <1>1, <1>3, <2>1, <3>2 DEF DiffInv
  <2>2. CASE run.step # "listed"
    BY <1>2, <1>3, <2>2 DEF Looking
  <2> QED BY <2>1, <2>2
<1>4. CASE Review
  <2>1. /\ run.step = "reviewing" /\ run'.step = "reviewed" /\ run'.head = run.head
        /\ run'.diff = run.diff /\ run'.steady = run.steady /\ run'.kind = run.kind
        /\ run'.based = run.based /\ UNCHANGED <<repo, examined>>
    BY <1>1, <1>4 DEF Review, Runs
  <2>2. Held(run.head, Changed(run.head))' = Held(run.head, Changed(run.head))
    BY <2>1 DEF Held, Changed, Differ
  <2>3. Unbroken' = Unbroken
    BY <2>1 DEF Unbroken
  <2> QED BY <1>1, <2>1, <2>2, <2>3 DEF DiffInv
<1>5. CASE ListFiles
  <2>1. PICK listing \in Listings :
          run' = IF listing.failed THEN Stop(run)
                 ELSE [run EXCEPT !.step = "listed", !.files = listing.paths,
                         !.steady = forge.tip = run.head /\ Whole(listing)]
    BY <1>5 DEF ListFiles
  <2>2. CASE listing.failed
    BY <1>1, <1>2, <2>1, <2>2, StopRun
  <2>3. CASE ~listing.failed
    <3>1. /\ run'.step = "listed" /\ run'.files = listing.paths /\ run'.head = run.head
          /\ run'.steady = (forge.tip = run.head /\ Whole(listing)) /\ UNCHANGED repo
      BY <1>1, <1>5, <2>1, <2>3 DEF Runs, ListFiles
    <3>2. run'.steady => run'.files = Changed(run.head)
      BY <2>1, <3>1, ListedPaths
    <3>3. Changed(run.head)' = Changed(run.head)
      BY <3>1 DEF Changed, Differ
    <3> QED BY <3>1, <3>2, <3>3 DEF DiffInv
  <2> QED BY <2>2, <2>3
<1>6. CASE TakeDiff
  <2>1. run.step = "listed" /\ UNCHANGED <<repo, examined>>
    BY <1>6 DEF TakeDiff
  <2>2. CASE run' = [run EXCEPT !.step = "reviewing", !.diff = SinceDiff] /\ run.kind = "incremental"
    <3>1. /\ run'.step = "reviewing" /\ run'.diff = SinceDiff /\ run'.head = run.head
          /\ run'.kind = run.kind /\ run'.steady = run.steady /\ run'.based = run.based
      BY <1>1, <2>2 DEF Runs
    <3>2. Unbroken' => run.steady /\ run.based
      BY <2>2, <3>1 DEF Unbroken
    <3>3. Held(run.head, Changed(run.head))' = Held(run.head, Changed(run.head))
      BY <2>1, <3>1 DEF Held, Changed, Differ
    <3> QED BY <2>1, <3>1, <3>2, <3>3, DiffCompletes DEF DiffInv
  <2> DEFINE tipDiff == Held(forge.tip, Changed(forge.tip))
             s == run.steady /\ forge.tip = run.head
  <2>3. CASE run' = [run EXCEPT !.step = "reviewing", !.kind = "full", !.diff = tipDiff, !.steady = s]
    <3>1. /\ run'.step = "reviewing" /\ run'.diff = tipDiff /\ run'.head = run.head
          /\ run'.steady = s
      BY <1>1, <2>3 DEF Runs
    <3>2. Unbroken' => forge.tip = run.head
      BY <3>1 DEF Unbroken
    <3>3. Held(run.head, Changed(run.head))' = Held(run.head, Changed(run.head))
      BY <2>1, <3>1 DEF Held, Changed, Differ
    <3> QED BY <2>1, <3>1, <3>2, <3>3 DEF DiffInv
  <2> QED BY <1>1, <1>6, <2>2, <2>3 DEF TakeDiff, Runs
<1>7. CASE Begin
  <2>1. PICK st \in {"idle", "eligible"} : run' = [Idle EXCEPT !.step = st, !.nth = run.nth + 1]
    BY <1>7 DEF Begin
  <2>2. run'.step = st
    BY <2>1, IdleRun DEF Runs
  <2> QED BY <1>2, <2>2
<1>8. CASE Checkout \/ Detect \/ Truncate \/ Decide \/ Skipped \/ Post
  <2>1. CASE Detect
    BY <1>1, <1>2, <2>1, DetectedRun DEF RoundsInv
  <2>2. CASE Checkout \/ Truncate \/ Decide \/ Skipped \/ Post
    BY <1>1, <1>2, <2>2, StopRun DEF Checkout, Truncate, Decide, Skipped, Post, Runs
  <2> QED BY <1>8, <2>1, <2>2
<1>9. CASE Push \/ Reset \/ Comment \/ Conclude \/ Rotate \/ RunnerCheckout
  BY <1>3, <1>9 DEF Push, Reset, Comment, Conclude, Rotate, RunnerCheckout, Looking
<1>10. CASE UNCHANGED roundVars
  <2>1. UNCHANGED <<repo, run, examined>>
    BY <1>10 DEF roundVars
  <2>2. Changed(run.head)' = Changed(run.head) /\ Unbroken' = Unbroken
        /\ Held(run.head, Changed(run.head))' = Held(run.head, Changed(run.head))
    BY <2>1 DEF Changed, Differ, Held, Unbroken
  <2> QED BY <1>1, <2>1, <2>2 DEF DiffInv
<1> QED
  BY <1>4, <1>5, <1>6, <1>7, <1>8, <1>9, <1>10 DEF RNext
-----------------------------------------------------------------------------
LEMMA RoundsStart == ASSUME RoundsAssumption, RInit PROVE RoundsInv
<1>1. PICK t \in Trees : repo = <<[parent |-> 0, tree |-> Base], [parent |-> 1, tree |-> t]>>
  BY DEF RInit
<1>2. repo \in Seq([parent : Nat, tree : Trees]) /\ DOMAIN repo = {1, 2}
  BY <1>1 DEF RoundsAssumption
<1>3. Rooted
  <2>1. repo[1].parent = 0 /\ repo[2].parent = 1
    BY <1>1
  <2> QED BY <1>2, <2>1 DEF Rooted
<1>4. me \in Bots
  BY DEF RInit, RoundsAssumption
<1>5. entries = <<>> /\ run = Idle /\ Idle \in Runs /\ Idle.step = "idle" /\ ~Idle.based
  BY IdleRun DEF RInit
<1>6. RoundTypes
  <2>1. forge \in [tip : DOMAIN repo, state : {"open", "closed"}, draft : BOOLEAN]
    BY <1>2 DEF RInit
  <2>2. clone \in [present : SUBSET DOMAIN repo, head : DOMAIN repo, deep : BOOLEAN]
    BY <1>2 DEF RInit
  <2>3. entries \in Seq(Entry)
    BY <1>5
  <2>4. snapshot = 0 /\ left = {} /\ faults = 0
    BY DEF RInit
  <2> QED BY <1>3, <1>4, <1>5, <2>1, <2>2, <2>3, <2>4 DEF RoundTypes
<1>7. DOMAIN entries = {}
  BY <1>5
<1>8. ChainInv /\ OwnInv
  BY <1>7 DEF ChainInv, OwnInv
<1>9. BasedInv /\ AncestorInv /\ LeftInv /\ DiffInv
  BY <1>5 DEF BasedInv, AncestorInv, LeftInv, DiffInv
<1> QED BY <1>6, <1>8, <1>9 DEF RoundsInv

LEMMA RoundsInvariance == RoundsSpec => []RoundsInv
<1>1. RInit => RoundsInv
  BY RoundsAssumption, RoundsStart
<1>2. RoundsInv /\ [RNext]_roundVars => RoundsInv'
  <2> SUFFICES ASSUME RoundsInv, [RNext]_roundVars PROVE RoundsInv'
    OBVIOUS
  <2>1. RoundTypes'
    BY RoundsAssumption, RoundTypesKept DEF RoundsInv
  <2>2. ChainInv' /\ OwnInv' /\ BasedInv'
    BY RoundsAssumption, ChainKept, OwnKept, BasedKept
  <2>3. AncestorInv' /\ LeftInv' /\ DiffInv'
    BY RoundsAssumption, AncestorKept, LeftKept, DiffKept
  <2> QED BY <2>1, <2>2, <2>3 DEF RoundsInv
<1> QED BY <1>1, <1>2, PTL DEF RoundsSpec

(* A chain of reviews leaves nothing of the commit it names unexamined, a  *)
(* review starts without the artifacts of an earlier run, and only what    *)
(* the tool reviewed itself is skipped, for any pushes, forced ones too,   *)
(* notes of others, rotated accounts, shallow clones and failed calls.     *)
THEOREM RoundsHold == RoundsSpec => []ReviewsAddUp
<1>1. RoundsInv => ReviewsAddUp
  <2> SUFFICES ASSUME RoundsInv PROVE ReviewsAddUp
    OBVIOUS
  <2>1. NothingUnseen
    BY DEF RoundsInv, ChainInv, NothingUnseen, ToSet
  <2>2. NothingStale
    BY DEF RoundsInv, LeftInv, NothingStale
  <2>3. SkipIsEarned
    <3> SUFFICES ASSUME run.step = "skipped"
                 PROVE  \E e \in ToSet(entries) : e.ours /\ e.sha \in History(run.head, All)
      BY DEF SkipIsEarned
    <3>1. run.receipt.ancestor
      BY DEF RoundsInv, AncestorInv
    <3>2. PICK i \in DOMAIN entries : entries[i].ours /\ entries[i].sha = run.receipt.last
      BY <3>1 DEF RoundsInv, AncestorInv
    <3>3. run.receipt.last \in History(run.head, clone.present)
      BY <3>1 DEF RoundsInv, AncestorInv
    <3>4. History(run.head, clone.present) \subseteq History(run.head, All)
      BY HeadAt, HistoryHolds DEF RoundsInv, RoundTypes
    <3> QED BY <3>2, <3>3, <3>4 DEF ToSet
  <2> QED BY <2>1, <2>2, <2>3 DEF ReviewsAddUp
<1> QED BY <1>1, RoundsInvariance, PTL
-----------------------------------------------------------------------------
Names == DOMAIN repository.files
VisitSpace == [what : {"review", "rules", "import"}, to : Names, absolute : BOOLEAN,
               depth : Nat, chain : SUBSET Names]

RulesTypes ==
  /\ repository \in Repos
  /\ agenda \in Seq(VisitSpace)
  /\ ruleSources \in Seq(Names) /\ reviewSources \in Seq(Names)
  /\ reviewMd \in Seq([name : Names, proven : BOOLEAN])
  /\ totalBytes \in Nat /\ digestBytes \in Nat /\ walked \in Nat /\ truncated \in BOOLEAN

(* A file is told of before the receipt is written, for a reason that will *)
(* be disclosed.                                                           *)
ToldOf(name) ==
  \E e \in skipped : e[1] = name /\ e[2] \notin {"duplicate_of", "review_rules_source"}

(* What becomes of a pointer: shown, told, or a copy of what is.           *)
Settled(name) ==
  \/ name \in Shown \/ ToldOf(name)
  \/ \E other \in Names : /\ other \in ToSet(ruleSources) \/ ToldOf(other)
                          /\ FileOf(other).text = FileOf(name).text

(* The bounds, and the texts that are known.                               *)
BytesInv ==
  /\ BytesOf(repository.files, ruleSources) \in Nat
  /\ BytesOf(repository.files, reviewSources) \in Nat
  /\ WithinCaps
TextsInv ==
  /\ \A f \in ToSet(ruleSources) : FileOf(f).text \in seenContent
  /\ \A t \in seenContent : \E other \in Names :
       FileOf(other).text = t /\ (other \in ToSet(ruleSources) \/ ToldOf(other))

(* A pointer of a rule file that is shown is settled or still to be        *)
(* followed.                                                               *)
PointersInv ==
  \A f \in ToSet(ruleSources) : \A p \in ToSet(FileOf(f).imports) :
    Settled(p.to) \/ \E v \in ToSet(agenda) : v.what = "import" /\ v.to = p.to

ReviewsInv ==
  /\ loadedReviews \subseteq ToSet(reviewSources)
  /\ \A r \in ToSet(reviewMd) : r.proven \/ ToldOf(r.name)

(* What there was no room for is known by its text, or is a review.        *)
RoomInv ==
  \A e \in skipped : e[2] = "total_cap_reached" =>
    \/ \E r \in ToSet(reviewMd) : r.name = e[1]
    \/ /\ FileOf(e[1]).text \in seenContent
       /\ \A f \in ToSet(ruleSources) : FileOf(f).text # FileOf(e[1]).text

Books == RulesTypes /\ BytesInv /\ TextsInv /\ PointersInv /\ ReviewsInv /\ RoomInv /\ TruncatedTold

(* The receipt comes last and discloses all that is to be.                 *)
ReceiptInv == Written => agenda = <<>> /\ {e \in skipped : Disclosed(e)} \subseteq gaps

RulesInv == Books /\ ReceiptInv
-----------------------------------------------------------------------------
LEMMA Items ==
  ASSUME NEW S, NEW s \in Seq(S)
  PROVE  Len(s) \in Nat /\ DOMAIN s = 1..Len(s) /\ \A i \in DOMAIN s : s[i] \in S
OBVIOUS

LEMMA Listed ==
  ASSUME NEW S, NEW n \in Nat, NEW s \in [1..n -> S]
  PROVE  s \in Seq(S) /\ DOMAIN s = 1..n /\ Len(s) = n
OBVIOUS

LEMMA Within == ASSUME NEW S, NEW s \in Seq(S) PROVE ToSet(s) \subseteq S
BY Items DEF ToSet

LEMMA AppendedSet ==
  ASSUME NEW S, NEW s \in Seq(S), NEW x \in S
  PROVE  Append(s, x) \in Seq(S) /\ ToSet(Append(s, x)) = ToSet(s) \cup {x}
<1>1. Append(s, x) \in Seq(S)
  OBVIOUS
<1>2. Len(Append(s, x)) = Len(s) + 1 /\ Append(s, x)[Len(s) + 1] = x
      /\ \A i \in 1..Len(s) : Append(s, x)[i] = s[i]
  OBVIOUS
<1>3. DOMAIN Append(s, x) = 1..(Len(s) + 1) /\ DOMAIN s = 1..Len(s) /\ Len(s) \in Nat
  BY <1>1, <1>2
<1>4. \A i \in 1..(Len(s) + 1) : i \in 1..Len(s) \/ i = Len(s) + 1
  BY <1>3
<1>5. \A i \in 1..Len(s) : i \in 1..(Len(s) + 1)
  BY <1>3
<1>6. Len(s) + 1 \in 1..(Len(s) + 1)
  BY <1>3
<1> QED BY <1>1, <1>2, <1>3, <1>4, <1>5, <1>6 DEF ToSet

LEMMA Joined ==
  ASSUME NEW S, NEW s \in Seq(S), NEW t \in Seq(S)
  PROVE  s \o t \in Seq(S) /\ ToSet(s \o t) = ToSet(s) \cup ToSet(t)
<1>1. s \o t \in Seq(S)
  OBVIOUS
<1>2. ToSet(s \o t) = ToSet(s) \cup ToSet(t)
  <2>1. Len(s \o t) = Len(s) + Len(t) /\ Len(s) \in Nat /\ Len(t) \in Nat
        /\ \A i \in 1..(Len(s) + Len(t)) :
             (s \o t)[i] = IF i <= Len(s) THEN s[i] ELSE t[i - Len(s)]
    OBVIOUS
  <2>2. DOMAIN (s \o t) = 1..(Len(s) + Len(t)) /\ DOMAIN s = 1..Len(s) /\ DOMAIN t = 1..Len(t)
    BY <1>1, <2>1
  <2>3. ASSUME NEW y \in ToSet(s \o t) PROVE y \in ToSet(s) \cup ToSet(t)
    <3>1. PICK i \in 1..(Len(s) + Len(t)) : y = (s \o t)[i]
      BY <2>2 DEF ToSet
    <3>2. CASE i <= Len(s)
      <4>1. i \in 1..Len(s) /\ y = s[i]
        BY <2>1, <3>1, <3>2
      <4> QED BY <2>2, <4>1 DEF ToSet
    <3>3. CASE ~(i <= Len(s))
      <4>1. i - Len(s) \in 1..Len(t) /\ y = t[i - Len(s)]
        BY <2>1, <3>1, <3>3
      <4> QED BY <2>2, <4>1 DEF ToSet
    <3> QED BY <3>2, <3>3
  <2>4. ASSUME NEW i \in 1..Len(s) PROVE s[i] \in ToSet(s \o t)
    <3>1. i \in 1..(Len(s) + Len(t)) /\ (s \o t)[i] = s[i]
      BY <2>1
    <3> QED BY <2>2, <3>1 DEF ToSet
  <2>5. ASSUME NEW i \in 1..Len(t) PROVE t[i] \in ToSet(s \o t)
    <3>1. Len(s) + i \in 1..(Len(s) + Len(t)) /\ ~(Len(s) + i <= Len(s)) /\ Len(s) + i - Len(s) = i
      BY <2>1
    <3>2. (s \o t)[Len(s) + i] = t[i]
      BY <2>1, <3>1
    <3> QED BY <2>2, <3>1, <3>2 DEF ToSet
  <2> QED BY <2>2, <2>3, <2>4, <2>5 DEF ToSet
<1> QED BY <1>1, <1>2

LEMMA HeadFirst ==
  ASSUME NEW S, NEW s \in Seq(S), s # <<>>
  PROVE  /\ Head(s) \in S /\ Tail(s) \in Seq(S)
         /\ ToSet(s) = {Head(s)} \cup ToSet(Tail(s))
<1>1. Len(s) \in Nat /\ Len(s) # 0 /\ DOMAIN s = 1..Len(s) /\ Head(s) = s[1]
  OBVIOUS
<1>2. DOMAIN Tail(s) = 1..(Len(s) - 1) /\ \A i \in 1..(Len(s) - 1) : Tail(s)[i] = s[i + 1]
  OBVIOUS
<1>3. 1 \in 1..Len(s) /\ \A i \in 1..(Len(s) - 1) : i + 1 \in 1..Len(s)
  BY <1>1
<1>4. ASSUME NEW y \in ToSet(s) PROVE y = Head(s) \/ y \in ToSet(Tail(s))
  <2>1. PICK i \in 1..Len(s) : y = s[i]
    BY <1>1 DEF ToSet
  <2>2. CASE i = 1
    BY <1>1, <2>1, <2>2
  <2>3. CASE i # 1
    <3>1. i - 1 \in 1..(Len(s) - 1) /\ i - 1 + 1 = i
      BY <1>1, <2>3
    <3>2. y = Tail(s)[i - 1]
      BY <1>2, <2>1, <3>1
    <3> QED BY <1>2, <3>1, <3>2 DEF ToSet
  <2> QED BY <2>2, <2>3
<1>5. Head(s) \in ToSet(s)
  BY <1>1, <1>3 DEF ToSet
<1>6. ASSUME NEW y \in ToSet(Tail(s)) PROVE y \in ToSet(s)
  <2>1. PICK i \in 1..(Len(s) - 1) : y = Tail(s)[i]
    BY <1>2 DEF ToSet
  <2>2. i + 1 \in DOMAIN s /\ y = s[i + 1]
    BY <1>1, <1>2, <1>3, <2>1
  <2> QED BY <2>2 DEF ToSet
<1>7. Head(s) \in S /\ Tail(s) \in Seq(S)
  OBVIOUS
<1> QED BY <1>4, <1>5, <1>6, <1>7
-----------------------------------------------------------------------------
(* The bytes of a sequence of files.                                       *)
Summed(sum, n, files, names) ==
  sum = [k \in 0..n |-> IF k = 0 THEN 0 ELSE sum[k - 1] + files[names[k]].size]

LEMMA SumExists ==
  ASSUME NEW n \in Nat, NEW files, NEW s
  PROVE  \E sum : Summed(sum, n, files, s)
<1> DEFINE S == {k \in 0..n : ~ \E sum : Summed(sum, k, files, s)}
<1>1. S = {}
  <2>1. SUFFICES ASSUME S # {} PROVE FALSE
    OBVIOUS
  <2>2. S \in SUBSET Nat
    OBVIOUS
  <2>3. PICK k \in S : \A y \in S : k <= y
    BY <2>1, <2>2, FirstOf
  <2>4. k \in Nat /\ k <= n /\ ~ \E sum : Summed(sum, k, files, s)
    BY <2>3
  <2>5. CASE k = 0
    <3> DEFINE g == [d \in 0..0 |-> 0]
    <3>1. g = [d \in 0..0 |-> IF d = 0 THEN 0 ELSE g[d - 1] + files[s[d]].size]
      <4>1. \A d \in 0..0 : d = 0
        OBVIOUS
      <4> QED BY <4>1, Zenon
    <3>2. Summed(g, 0, files, s)
      BY <3>1 DEF Summed
    <3> QED BY <2>4, <2>5, <3>2
  <2>6. CASE k # 0
    <3>1. k - 1 \in 0..n /\ ~(k <= k - 1)
      BY <2>4, <2>6
    <3>1a. k - 1 \notin S
      BY <2>3, <3>1
    <3>2. PICK f : Summed(f, k - 1, files, s)
      BY <3>1, <3>1a
    <3> DEFINE body(w, d) == IF d = 0 THEN 0 ELSE w[d - 1] + files[s[d]].size
               g == [d \in 0..k |-> body(f, d)]
    <3>3. f = [d \in 0..(k - 1) |-> body(f, d)]
      BY <3>2 DEF Summed
    <3>4. \A d \in 0..k : d # 0 => d - 1 \in 0..(k - 1) /\ d - 1 \in 0..k
      BY <2>4
    <3>5. \A d \in 0..(k - 1) : d \in 0..k
      BY <2>4
    <3> HIDE DEF body
    <3>6. \A d \in 0..(k - 1) : g[d] = f[d]
      BY <3>3, <3>5, Zenon
    <3>7. \A d \in 0..k : body(g, d) = body(f, d)
      BY <3>4, <3>6 DEF body
    <3>8. g = [d \in 0..k |-> body(g, d)]
      BY <3>7, Zenon
    <3> HIDE DEF g
    <3>9. Summed(g, k, files, s)
      BY <3>8 DEF Summed, body
    <3> QED BY <2>4, <3>9
  <2> QED BY <2>5, <2>6
<1> QED BY <1>1

LEMMA SumsAgree ==
  ASSUME NEW n \in Nat, NEW m \in Nat, n <= m, NEW files, NEW s, NEW t, NEW a, NEW b,
         Summed(a, n, files, s), Summed(b, m, files, t), \A k \in 1..n : s[k] = t[k]
  PROVE  a[n] = b[n]
<1> DEFINE S == {k \in 0..n : a[k] # b[k]}
<1>1. \A k \in 0..n : a[k] = (IF k = 0 THEN 0 ELSE a[k - 1] + files[s[k]].size)
  BY Zenon DEF Summed
<1>2. \A k \in 0..m : b[k] = (IF k = 0 THEN 0 ELSE b[k - 1] + files[t[k]].size)
  BY Zenon DEF Summed
<1>3. S = {}
  <2>1. SUFFICES ASSUME S # {} PROVE FALSE
    OBVIOUS
  <2>2. S \in SUBSET Nat
    OBVIOUS
  <2>3. PICK k \in S : \A y \in S : k <= y
    BY <2>1, <2>2, FirstOf
  <2>4. k \in 0..n /\ k \in 0..m /\ a[k] # b[k]
    BY <2>3
  <2>5. k # 0
    BY <1>1, <1>2, <2>4
  <2>6. k - 1 \in 0..n /\ ~(k <= k - 1) /\ k \in 1..n
    BY <2>4, <2>5
  <2>7. a[k - 1] = b[k - 1]
    BY <2>3, <2>6
  <2>8. a[k] = a[k - 1] + files[s[k]].size
    BY <1>1, <2>4, <2>5
  <2>9. b[k] = b[k - 1] + files[t[k]].size
    BY <1>2, <2>4, <2>5
  <2> QED BY <2>4, <2>6, <2>7, <2>8, <2>9
<1>4. n \in 0..n
  OBVIOUS
<1> QED BY <1>3, <1>4

LEMMA SizeGrows ==
  ASSUME NEW S, NEW s \in Seq(S), NEW x \in S, NEW files
  PROVE  BytesOf(files, Append(s, x)) = BytesOf(files, s) + files[x].size
<1> DEFINE n == Len(s)
           t == Append(s, x)
           a == CHOOSE sum : Summed(sum, n, files, s)
           b == CHOOSE sum : Summed(sum, n + 1, files, t)
<1>1. n \in Nat /\ n + 1 \in Nat /\ n <= n + 1 /\ Len(t) = n + 1 /\ t[n + 1] = x
      /\ (\A k \in 1..n : s[k] = t[k]) /\ n + 1 \in 0..(n + 1) /\ n + 1 # 0 /\ n + 1 - 1 = n
  OBVIOUS
<1>2. Summed(a, n, files, s) /\ Summed(b, n + 1, files, t)
  BY <1>1, SumExists
<1>3. BytesOf(files, s) = a[n]
  BY DEF BytesOf, Summed
<1>4. BytesOf(files, t) = b[n + 1]
  <2>1. BytesOf(files, t) = (CHOOSE sum : Summed(sum, Len(t), files, t))[Len(t)]
    BY DEF BytesOf, Summed
  <2> QED BY <1>1, <2>1
<1> HIDE DEF a, b, n, t
<1>6. b[n + 1] = b[n] + files[t[n + 1]].size
  <2>1. \A k \in 0..(n + 1) : b[k] = IF k = 0 THEN 0 ELSE b[k - 1] + files[t[k]].size
    BY <1>2, Zenon DEF Summed
  <2> QED BY <1>1, <2>1
<1>7. a[n] = b[n]
  BY <1>1, <1>2, SumsAgree
<1> QED BY <1>1, <1>3, <1>4, <1>6, <1>7 DEF t

LEMMA EmptySize == ASSUME NEW files PROVE BytesOf(files, <<>>) = 0
<1> DEFINE c == CHOOSE sum : Summed(sum, 0, files, <<>>)
<1>1. BytesOf(files, <<>>) = (CHOOSE sum : Summed(sum, Len(<<>>), files, <<>>))[Len(<<>>)]
  BY DEF BytesOf, Summed
<1>2. BytesOf(files, <<>>) = c[0]
  BY <1>1
<1>3. Summed(c, 0, files, <<>>)
  BY SumExists
<1> HIDE DEF c
<1>4. \A k \in 0..0 : c[k] = IF k = 0 THEN 0 ELSE c[k - 1] + files[<<>>[k]].size
  BY <1>3, Zenon DEF Summed
<1> QED BY <1>2, <1>4
-----------------------------------------------------------------------------
(* What a visit leaves as it is.                                           *)
Stays ==
  /\ repository' = repository /\ skipped \subseteq skipped'
  /\ ToSet(ruleSources) \subseteq ToSet(ruleSources')
  /\ ToSet(reviewSources) \subseteq ToSet(reviewSources')

LEMMA SettledStays ==
  ASSUME Stays
  PROVE  /\ Names' = Names /\ \A n : FileOf(n)' = FileOf(n)
         /\ \A n : ToldOf(n) => ToldOf(n)'
         /\ \A n : Settled(n) => Settled(n)'
<1>1. Names' = Names /\ \A n : FileOf(n)' = FileOf(n)
  BY DEF Stays, Names, FileOf
<1>2. \A n : ToldOf(n) => ToldOf(n)'
  BY DEF Stays, ToldOf
<1>3. \A n : n \in Shown => n \in Shown'
  BY DEF Stays, Shown
<1>4. \A n : n \in ToSet(ruleSources) => n \in ToSet(ruleSources)'
  BY DEF Stays
<1>5. ASSUME NEW n, Settled(n) PROVE Settled(n)'
  <2>1. CASE n \in Shown \/ ToldOf(n)
    BY <1>2, <1>3, <2>1 DEF Settled
  <2>2. CASE \E other \in Names : /\ other \in ToSet(ruleSources) \/ ToldOf(other)
                                  /\ FileOf(other).text = FileOf(n).text
    <3>1. PICK other \in Names : /\ other \in ToSet(ruleSources) \/ ToldOf(other)
                                 /\ FileOf(other).text = FileOf(n).text
      BY <2>2
    <3>2. other \in Names' /\ (other \in ToSet(ruleSources)' \/ ToldOf(other)')
          /\ FileOf(other)' = FileOf(other) /\ FileOf(n)' = FileOf(n)
      BY <1>1, <1>2, <1>4, <3>1
    <3> QED BY <3>1, <3>2 DEF Settled
  <2> QED BY <1>5, <2>1, <2>2 DEF Settled
<1> QED BY <1>1, <1>2, <1>5

(* A pointer that was followed is settled, the others still wait.          *)
LEMMA PointersStay ==
  ASSUME RulesTypes, PointersInv, Stays, agenda # <<>>,
         ToSet(Tail(agenda)) \subseteq ToSet(agenda'),
         NEW to, to = Current.to, Current.what = "import" => Settled(to)',
         NEW f \in ToSet(ruleSources), NEW p \in ToSet(FileOf(f).imports)
  PROVE  Settled(p.to)' \/ \E v \in ToSet(agenda') : v.what = "import" /\ v.to = p.to
<1>1. CASE Settled(p.to)
  BY <1>1, SettledStays
<1>2. CASE \E v \in ToSet(agenda) : v.what = "import" /\ v.to = p.to
  <2>1. PICK v \in ToSet(agenda) : v.what = "import" /\ v.to = p.to
    BY <1>2
  <2>2. ToSet(agenda) = {Current} \cup ToSet(Tail(agenda))
    BY HeadFirst DEF RulesTypes, Current
  <2>3. CASE v = Current
    BY <2>1, <2>3
  <2>4. CASE v \in ToSet(Tail(agenda))
    BY <2>1, <2>4
  <2> QED BY <2>1, <2>2, <2>3, <2>4
<1> QED BY <1>1, <1>2 DEF PointersInv

LEMMA VisitedIs ==
  ASSUME RulesTypes, agenda # <<>>
  PROVE  /\ Current \in VisitSpace /\ Tail(agenda) \in Seq(VisitSpace)
         /\ Current.to \in Names /\ FileOf(Current.to).size \in Nat
         /\ FileOf(Current.to).imports \in Seq([to : Names, absolute : BOOLEAN])
<1>1. Current \in VisitSpace /\ Tail(agenda) \in Seq(VisitSpace)
  BY HeadFirst DEF RulesTypes, Current
<1>2. Current.to \in Names
  BY <1>1 DEF VisitSpace
<1> QED BY <1>1, <1>2, RepoAssumption DEF RulesTypes, Names, FileOf

(* A visit that leaves the file out.                                       *)
LEMMA LeftOut ==
  ASSUME Books, agenda # <<>>, NEW n, n = Current.to, NEW reason,
         LeaveOut(n, reason), agenda' = Tail(agenda),
         UNCHANGED <<repository, ruleSources, totalBytes, reviewSources, reviewMd, digestBytes,
                     loadedReviews>>,
         walked' \in Nat, walked' <= MaxRuleFiles,
         reason # "total_cap_reached" => seenContent' = seenContent,
         reason = "total_cap_reached" =>
           /\ FileOf(n).text \notin seenContent
           /\ seenContent' = seenContent \cup {FileOf(n).text},
         Current.what = "import" /\ reason \in {"duplicate_of", "review_rules_source"} =>
           Settled(n)
  PROVE  Books'
<1>1. n \in Names /\ Tail(agenda) \in Seq(VisitSpace)
  BY VisitedIs DEF Books
<1>2. /\ skipped' = skipped \cup {<<n, reason>>}
      /\ truncated' = (truncated \/ reason \in {"file_cap_reached", "total_cap_reached"})
  BY DEF LeaveOut
<1>3. Stays
  BY <1>2 DEF Stays
<1>4. /\ repository' = repository /\ ruleSources' = ruleSources /\ totalBytes' = totalBytes
      /\ reviewSources' = reviewSources /\ reviewMd' = reviewMd /\ digestBytes' = digestBytes
      /\ loadedReviews' = loadedReviews /\ agenda' = Tail(agenda)
  OBVIOUS
<1>5. /\ Names' = Names /\ \A m : FileOf(m)' = FileOf(m)
      /\ \A m : (ToldOf(m) => ToldOf(m)') /\ (Settled(m) => Settled(m)')
  BY <1>3, SettledStays, Zenon
<1>6. reason \notin {"duplicate_of", "review_rules_source"} => ToldOf(n)'
  <2>1. <<n, reason>> \in skipped' /\ <<n, reason>>[1] = n /\ <<n, reason>>[2] = reason
    BY <1>2
  <2> QED BY <2>1, Zenon DEF ToldOf
<1>7. RulesTypes'
  <2>1. VisitSpace' = VisitSpace
    BY <1>5 DEF VisitSpace
  <2>2. truncated' \in BOOLEAN
    BY <1>2 DEF Books, RulesTypes
  <2> QED BY <1>1, <1>4, <1>5, <2>1, <2>2 DEF Books, RulesTypes
<1>8. BytesInv'
  BY <1>4, <1>5 DEF Books, BytesInv, WithinCaps
<1>9. TextsInv'
  <2>1. seenContent \subseteq seenContent'
    OBVIOUS
  <2>2. \A f \in ToSet(ruleSources') : FileOf(f)'.text \in seenContent'
    BY <1>4, <1>5, <2>1 DEF Books, TextsInv
  <2>3. ASSUME NEW t \in seenContent'
        PROVE  \E other \in Names' :
                 FileOf(other)'.text = t /\ (other \in ToSet(ruleSources') \/ ToldOf(other)')
    <3>1. CASE t \in seenContent
      <4>1. PICK other \in Names :
              FileOf(other).text = t /\ (other \in ToSet(ruleSources) \/ ToldOf(other))
        BY <3>1 DEF Books, TextsInv
      <4>2. FileOf(other)' = FileOf(other) /\ (ToldOf(other) => ToldOf(other)')
        BY <1>5
      <4> QED BY <1>4, <1>5, <4>1, <4>2
    <3>2. CASE t \notin seenContent
      <4>1. reason = "total_cap_reached" /\ t = FileOf(n).text
        BY <2>3, <3>2
      <4>2. ToldOf(n)' /\ FileOf(n)' = FileOf(n)
        BY <1>5, <1>6, <4>1
      <4> QED BY <1>1, <1>5, <4>1, <4>2
    <3> QED BY <3>1, <3>2
  <2> QED BY <2>2, <2>3 DEF TextsInv
<1>10. PointersInv'
  <2>1. Current.what = "import" => Settled(n)'
    <3>1. ToldOf(n)' => Settled(n)'
      BY DEF Settled
    <3> QED BY <1>5, <1>6, <3>1
  <2>2. \A f \in ToSet(ruleSources) : \A p \in ToSet(FileOf(f).imports) :
          Settled(p.to)' \/ \E v \in ToSet(agenda') : v.what = "import" /\ v.to = p.to
    BY <1>3, <1>4, <2>1, PointersStay DEF Books
  <2>3. \A f \in ToSet(ruleSources') : \A p \in ToSet(FileOf(f)'.imports) :
          Settled(p.to)' \/ \E v \in ToSet(agenda') : v.what = "import" /\ v.to = p.to
    BY <1>4, <1>5, <2>2
  <2> QED BY <2>3 DEF PointersInv
<1>11. ReviewsInv'
  BY <1>4, <1>5 DEF Books, ReviewsInv
<1>12. RoomInv'
  <2>1. ASSUME NEW e \in skipped', e[2] = "total_cap_reached"
        PROVE  \/ \E r \in ToSet(reviewMd') : r.name = e[1]
               \/ /\ FileOf(e[1])'.text \in seenContent'
                  /\ \A f \in ToSet(ruleSources') : FileOf(f)'.text # FileOf(e[1])'.text
    <3>1. CASE e \in skipped
      <4>1. \/ \E r \in ToSet(reviewMd) : r.name = e[1]
            \/ /\ FileOf(e[1]).text \in seenContent
               /\ \A f \in ToSet(ruleSources) : FileOf(f).text # FileOf(e[1]).text
        BY <2>1, <3>1 DEF Books, RoomInv
      <4>2. seenContent \subseteq seenContent'
        OBVIOUS
      <4> QED BY <1>4, <1>5, <4>1, <4>2
    <3>2. CASE e = <<n, reason>>
      <4>1. e[1] = n /\ reason = "total_cap_reached"
        BY <2>1, <3>2
      <4>2. FileOf(n).text \notin seenContent /\ FileOf(n).text \in seenContent'
        BY <4>1
      <4>3. \A f \in ToSet(ruleSources) : FileOf(f).text \in seenContent
        BY DEF Books, TextsInv
      <4> QED BY <1>4, <1>5, <4>1, <4>2, <4>3
    <3> QED BY <1>2, <3>1, <3>2
  <2> QED BY <2>1 DEF RoomInv
<1>13. TruncatedTold'
  <2>1. truncated = (\E e \in skipped : e[2] \in {"file_cap_reached", "total_cap_reached"})
    BY DEF Books, TruncatedTold
  <2>2. (\E e \in skipped' : e[2] \in {"file_cap_reached", "total_cap_reached"})
          <=> \/ \E e \in skipped : e[2] \in {"file_cap_reached", "total_cap_reached"}
              \/ reason \in {"file_cap_reached", "total_cap_reached"}
    <3>1. <<n, reason>>[2] = reason
      OBVIOUS
    <3>2. \A e : e \in skipped' <=> e \in skipped \/ e = <<n, reason>>
      BY <1>2
    <3> QED BY <3>1, <3>2, Zenon
  <2> QED BY <1>2, <2>1, <2>2, Zenon DEF TruncatedTold
<1> QED BY <1>7, <1>8, <1>9, <1>10, <1>11, <1>12, <1>13 DEF Books

LEMMA VisitsJoin ==
  ASSUME NEW first \in Seq(VisitSpace), NEW rest \in Seq(VisitSpace)
  PROVE  first \o rest \in Seq(VisitSpace) /\ ToSet(first \o rest) = ToSet(first) \cup ToSet(rest)
BY Joined

(* A visit that takes the file.                                            *)
LEMMA Taken ==
  ASSUME Books, agenda # <<>>, NEW n, n = Current.to, ~OverTotal(n),
         FileOf(n).text \notin seenContent,
         seenContent' = seenContent \cup {FileOf(n).text},
         ruleSources' = Append(ruleSources, n),
         totalBytes' = totalBytes + FileOf(n).size,
         agenda' = ImportsOf(Current) \o Tail(agenda),
         UNCHANGED <<repository, skipped, truncated, reviewSources, reviewMd, digestBytes,
                     loadedReviews>>,
         walked' \in Nat, walked' <= MaxRuleFiles
  PROVE  Books'
<1> DEFINE its == ImportsOf(Current)
<1>1. /\ n \in Names /\ Tail(agenda) \in Seq(VisitSpace) /\ FileOf(n).size \in Nat
      /\ FileOf(n).imports \in Seq([to : Names, absolute : BOOLEAN]) /\ Current \in VisitSpace
  BY VisitedIs DEF Books
<1>2. /\ repository' = repository /\ skipped' = skipped /\ truncated' = truncated
      /\ reviewSources' = reviewSources /\ reviewMd' = reviewMd /\ digestBytes' = digestBytes
      /\ loadedReviews' = loadedReviews
  OBVIOUS
<1>3. /\ ruleSources' \in Seq(Names)
      /\ ToSet(ruleSources') = ToSet(ruleSources) \cup {n}
  BY <1>1, AppendedSet DEF Books, RulesTypes
<1>4. Stays
  BY <1>2, <1>3 DEF Stays
<1>5. /\ Names' = Names /\ \A m : FileOf(m)' = FileOf(m)
      /\ \A m : (ToldOf(m) => ToldOf(m)') /\ (Settled(m) => Settled(m)')
  BY <1>4, SettledStays, Zenon
<1>6. its \in Seq(VisitSpace)
      /\ \A p \in ToSet(FileOf(n).imports) : \E v \in ToSet(its) : v.what = "import" /\ v.to = p.to
  <2> DEFINE s == FileOf(n).imports
             call(i) == Call("import", s[i], Current.depth + 1, Current.chain \cup {n})
  <2>1. Len(s) \in Nat /\ DOMAIN s = 1..Len(s)
        /\ \A i \in 1..Len(s) : s[i] \in [to : Names, absolute : BOOLEAN]
    BY <1>1, Items
  <2>2. Current.depth + 1 \in Nat /\ Current.chain \cup {n} \in SUBSET Names
    BY <1>1 DEF VisitSpace
  <2>3. \A i \in 1..Len(s) : call(i) \in VisitSpace /\ call(i).what = "import"
                             /\ call(i).to = s[i].to
    <3> DEFINE d == Current.depth + 1
               c == Current.chain \cup {n}
    <3>1. d \in Nat /\ c \in SUBSET Names
      BY <2>2
    <3> HIDE DEF d, c, s
    <3>2. \A i \in 1..Len(s) : LET x == Call("import", s[i], d, c) IN
            x \in VisitSpace /\ x.what = "import" /\ x.to = s[i].to
      BY <2>1, <3>1 DEF Call, VisitSpace
    <3> QED BY <3>2 DEF d, c, s
  <2>4. its = [i \in 1..Len(s) |-> call(i)]
    BY <2>1 DEF ImportsOf
  <2> HIDE DEF call, s, its
  <2>5. its \in [1..Len(s) -> VisitSpace] /\ \A i \in 1..Len(s) : its[i] = call(i)
    BY <2>3, <2>4
  <2>6. its \in Seq(VisitSpace) /\ DOMAIN its = 1..Len(s)
    BY <2>1, <2>5, Listed
  <2>7. ASSUME NEW p \in ToSet(s) PROVE \E v \in ToSet(its) : v.what = "import" /\ v.to = p.to
    <3>1. PICK i \in 1..Len(s) : p = s[i]
      BY <2>1 DEF ToSet
    <3>2. its[i] \in ToSet(its)
      BY <2>6 DEF ToSet
    <3> QED BY <2>3, <2>5, <3>1, <3>2
  <2> QED BY <2>6, <2>7 DEF s
<1>7. agenda' \in Seq(VisitSpace) /\ ToSet(agenda') = ToSet(its) \cup ToSet(Tail(agenda))
  <2> HIDE DEF its
  <2>1. agenda' = its \o Tail(agenda)
    BY DEF its
  <2>2. its \in Seq(VisitSpace) /\ Tail(agenda) \in Seq(VisitSpace)
    BY <1>1, <1>6
  <2>3. /\ its \o Tail(agenda) \in Seq(VisitSpace)
        /\ ToSet(its \o Tail(agenda)) = ToSet(its) \cup ToSet(Tail(agenda))
    BY <2>2, VisitsJoin, Zenon
  <2> QED BY <2>1, <2>3, Zenon
<1>8. RulesTypes'
  <2>1. VisitSpace' = VisitSpace
    BY <1>5 DEF VisitSpace
  <2>2. totalBytes' \in Nat
    BY <1>1 DEF Books, RulesTypes
  <2> QED BY <1>2, <1>3, <1>5, <1>7, <2>1, <2>2 DEF Books, RulesTypes
<1>9. n \notin ToSet(ruleSources)
  BY DEF Books, TextsInv
<1>10. BytesInv'
  <2>1. BytesOf(repository.files, ruleSources') = BytesOf(repository.files, ruleSources) + FileOf(n).size
    BY <1>1, SizeGrows DEF Books, RulesTypes, FileOf
  <2>2. totalBytes' <= MaxTotalBytes
    <3> DEFINE x == FileOf(n).size
               y == totalBytes + x
    <3>1. x \in Nat /\ totalBytes \in Nat /\ MaxTotalBytes \in Nat
      BY <1>1, RulesAssumption DEF Books, RulesTypes
    <3>2. ~(y > MaxTotalBytes) /\ totalBytes' = y
      BY DEF OverTotal
    <3>3. y \in Nat
      BY <3>1
    <3> HIDE DEF y, x
    <3> QED BY <3>1, <3>2, <3>3
  <2>3. ASSUME NEW i \in DOMAIN ruleSources', NEW j \in DOMAIN ruleSources', i # j
        PROVE  FileOf(ruleSources'[i]).text # FileOf(ruleSources'[j]).text
    <3>1. ruleSources \in Seq(Names)
      BY DEF Books, RulesTypes
    <3>2. /\ DOMAIN ruleSources' = 1..(Len(ruleSources) + 1) /\ Len(ruleSources) \in Nat
          /\ DOMAIN ruleSources = 1..Len(ruleSources)
          /\ ruleSources'[Len(ruleSources) + 1] = n
          /\ \A k \in 1..Len(ruleSources) : ruleSources'[k] = ruleSources[k]
      BY <1>1, <3>1
    <3>3. \A k \in 1..Len(ruleSources) : FileOf(ruleSources[k]).text \in seenContent
      BY <3>2 DEF Books, TextsInv, ToSet
    <3>4. \A k, l \in 1..Len(ruleSources) :
            k # l => FileOf(ruleSources[k]).text # FileOf(ruleSources[l]).text
      BY <3>2 DEF Books, BytesInv, WithinCaps
    <3>5. \A k \in 1..(Len(ruleSources) + 1) : k \in 1..Len(ruleSources) \/ k = Len(ruleSources) + 1
      BY <3>2
    <3>6. FileOf(n).text \notin seenContent
      OBVIOUS
    <3> QED BY <2>3, <3>2, <3>3, <3>4, <3>5, <3>6
  <2>4. \A i, j \in DOMAIN ruleSources' :
          i # j => FileOf(ruleSources[i])'.text # FileOf(ruleSources[j])'.text
    BY <1>5, <2>3
  <2>5. BytesOf(repository.files, ruleSources) \in Nat /\ BytesOf(repository.files, reviewSources) \in Nat
        /\ BytesOf(repository.files, ruleSources) + BytesOf(repository.files, reviewSources) = totalBytes
        /\ digestBytes <= MaxDigestTotalBytes
    BY DEF Books, BytesInv, WithinCaps
  <2>6. /\ BytesOf(repository'.files, ruleSources') \in Nat
        /\ BytesOf(repository'.files, reviewSources') \in Nat
        /\ BytesOf(repository'.files, ruleSources') + BytesOf(repository'.files, reviewSources')
             = totalBytes'
    <3> DEFINE a == BytesOf(repository.files, ruleSources)
               b == BytesOf(repository.files, reviewSources)
               c == BytesOf(repository.files, ruleSources')
    <3>1. a \in Nat /\ b \in Nat /\ a + b = totalBytes /\ c = a + FileOf(n).size
          /\ FileOf(n).size \in Nat
      BY <1>1, <2>1, <2>5
    <3> HIDE DEF a, b, c
    <3>2. c \in Nat /\ b \in Nat /\ c + b = totalBytes'
      BY <3>1
    <3> QED BY <1>2, <3>2 DEF b, c
  <2> QED BY <1>2, <2>2, <2>4, <2>5, <2>6 DEF BytesInv, WithinCaps
<1>11. TextsInv'
  <2>1. \A f \in ToSet(ruleSources') : FileOf(f)'.text \in seenContent'
    BY <1>3, <1>5 DEF Books, TextsInv
  <2>2. ASSUME NEW t \in seenContent'
        PROVE  \E other \in Names' :
                 FileOf(other)'.text = t /\ (other \in ToSet(ruleSources') \/ ToldOf(other)')
    <3>1. CASE t \in seenContent
      <4>1. PICK other \in Names :
              FileOf(other).text = t /\ (other \in ToSet(ruleSources) \/ ToldOf(other))
        BY <3>1 DEF Books, TextsInv
      <4>2. FileOf(other)' = FileOf(other) /\ (ToldOf(other) => ToldOf(other)')
        BY <1>5
      <4> QED BY <1>3, <1>5, <4>1, <4>2
    <3>2. CASE t = FileOf(n).text
      <4>1. FileOf(n)' = FileOf(n)
        BY <1>5
      <4> QED BY <1>1, <1>3, <1>5, <3>2, <4>1
    <3> QED BY <2>2, <3>1, <3>2
  <2> QED BY <2>1, <2>2 DEF TextsInv
<1>12. PointersInv'
  <2>1. Current.what = "import" => Settled(n)'
    <3>1. n \in Shown'
      BY <1>3 DEF Shown
    <3> QED BY <3>1 DEF Settled
  <2>2. ToSet(Tail(agenda)) \subseteq ToSet(agenda')
    BY <1>7
  <2>3. \A f \in ToSet(ruleSources) : \A p \in ToSet(FileOf(f).imports) :
          Settled(p.to)' \/ \E v \in ToSet(agenda') : v.what = "import" /\ v.to = p.to
    BY <1>4, <2>1, <2>2, PointersStay DEF Books
  <2>4. \A p \in ToSet(FileOf(n).imports) : \E v \in ToSet(agenda') : v.what = "import" /\ v.to = p.to
    BY <1>6, <1>7
  <2>5. \A f \in ToSet(ruleSources') : \A p \in ToSet(FileOf(f)'.imports) :
          Settled(p.to)' \/ \E v \in ToSet(agenda') : v.what = "import" /\ v.to = p.to
    <3> QED BY <1>3, <1>5, <2>3, <2>4
  <2> QED BY <2>5 DEF PointersInv
<1>13. ReviewsInv'
  BY <1>2, <1>5 DEF Books, ReviewsInv
<1>14. RoomInv'
  <2>1. ASSUME NEW e \in skipped', e[2] = "total_cap_reached"
        PROVE  \/ \E r \in ToSet(reviewMd') : r.name = e[1]
               \/ /\ FileOf(e[1])'.text \in seenContent'
                  /\ \A f \in ToSet(ruleSources') : FileOf(f)'.text # FileOf(e[1])'.text
    <3>1. \/ \E r \in ToSet(reviewMd) : r.name = e[1]
          \/ /\ FileOf(e[1]).text \in seenContent
             /\ \A f \in ToSet(ruleSources) : FileOf(f).text # FileOf(e[1]).text
      BY <1>2, <2>1 DEF Books, RoomInv
    <3>2. seenContent \subseteq seenContent' /\ FileOf(n).text \notin seenContent
      OBVIOUS
    <3> QED BY <1>2, <1>3, <1>5, <3>1, <3>2
  <2> QED BY <2>1 DEF RoomInv
<1>15. TruncatedTold'
  BY <1>2 DEF Books, TruncatedTold
<1> QED BY <1>8, <1>10, <1>11, <1>12, <1>13, <1>14, <1>15 DEF Books

LEMMA WalkCounts ==
  ASSUME Books, NEW name, Walks(name) \/ UNCHANGED walked
  PROVE  walked' \in Nat /\ walked' <= MaxRuleFiles
<1>1. walked \in Nat /\ walked <= MaxRuleFiles /\ MaxRuleFiles \in Nat
  BY RulesAssumption DEF Books, RulesTypes, BytesInv, WithinCaps
<1> QED BY <1>1 DEF Walks

(* A file is taken, or left out for a reason.                              *)
LEMMA FileVisited ==
  ASSUME Books, agenda # <<>>, VisitFile(Current),
         UNCHANGED <<repository, reviewSources, reviewMd, digestBytes, loadedReviews>>
  PROVE  Books'
<1>1. PICK v : v = Current
  OBVIOUS
<1>2. PICK n : n = v.to
  OBVIOUS
<1>3. PICK known : known = KnownFirst(v)
  OBVIOUS
<1>4. PICK reason : reason = Turned(v)
  OBVIOUS
<1>5. n = Current.to /\ VisitFile(v)
  BY <1>1, <1>2
<1>6. known \notin {"total_cap_reached", "review_rules_source"}
      /\ (known = "duplicate_of" => n \in ToSet(ruleSources))
  BY <1>2, <1>3 DEF KnownFirst, Unreadable
<1>7. /\ known # "none" => reason = known
      /\ known = "none" /\ FileOf(n).text \in seenContent => reason = "duplicate_of"
      /\ known = "none" /\ FileOf(n).text \notin seenContent /\ OverTotal(n) =>
           reason = "total_cap_reached"
      /\ known = "none" /\ FileOf(n).text \notin seenContent /\ ~OverTotal(n) => reason = "none"
  BY <1>2, <1>3, <1>4 DEF Turned
<1>8. walked' \in Nat /\ walked' <= MaxRuleFiles
  <2>1. Walks(n) \/ UNCHANGED walked
    BY <1>2, <1>5, Zenon DEF VisitFile
  <2> QED BY <2>1, WalkCounts
<1>9. seenContent' = seenContent \cup IF reason \in {"none", "total_cap_reached"}
                                      THEN {FileOf(n).text} ELSE {}
  BY <1>2, <1>4, <1>5, Zenon DEF VisitFile
<1>10. CASE reason = "none"
  <2>1. FileOf(n).text \notin seenContent /\ ~OverTotal(n)
    BY <1>7, <1>10
  <2>2. /\ ruleSources' = Append(ruleSources, n)
        /\ totalBytes' = totalBytes + FileOf(n).size
        /\ agenda' = ImportsOf(Current) \o Tail(agenda)
        /\ UNCHANGED <<skipped, truncated>>
    BY <1>1, <1>2, <1>4, <1>5, <1>10, Zenon DEF VisitFile
  <2>3. seenContent' = seenContent \cup {FileOf(n).text}
    BY <1>9, <1>10
  <2>4. UNCHANGED <<repository, skipped, truncated, reviewSources, reviewMd, digestBytes,
                    loadedReviews>>
    BY <2>2
  <2> QED BY <1>5, <1>8, <2>1, <2>2, <2>3, <2>4, Taken
<1>11. CASE reason # "none"
  <2>1. LeaveOut(n, reason) /\ agenda' = Tail(agenda) /\ UNCHANGED <<ruleSources, totalBytes>>
    BY <1>2, <1>4, <1>5, <1>11, Zenon DEF VisitFile
  <2>2. reason # "total_cap_reached" => seenContent' = seenContent
    BY <1>9, <1>11
  <2>3. reason = "total_cap_reached" =>
          /\ FileOf(n).text \notin seenContent
          /\ seenContent' = seenContent \cup {FileOf(n).text}
    BY <1>6, <1>7, <1>9
  <2>4. reason \in {"duplicate_of", "review_rules_source"} => Settled(n)
    <3>1. SUFFICES ASSUME reason \in {"duplicate_of", "review_rules_source"} PROVE Settled(n)
      OBVIOUS
    <3>2. n \in ToSet(ruleSources) \/ FileOf(n).text \in seenContent
      BY <1>6, <1>7, <3>1
    <3>3. FileOf(n).text \in seenContent => Settled(n)
      BY DEF Books, TextsInv, Settled
    <3> QED BY <3>2, <3>3 DEF Settled, Shown
  <2>5. UNCHANGED <<repository, ruleSources, totalBytes, reviewSources, reviewMd, digestBytes,
                    loadedReviews>>
    BY <2>1
  <2> QED BY <1>5, <1>8, <2>1, <2>2, <2>3, <2>4, <2>5, LeftOut
<1> QED BY <1>10, <1>11

(* A visit that reads nothing.                                             *)
LEMMA PassedOver ==
  ASSUME Books, agenda # <<>>, NEW n, n = Current.to, NEW reason, PassOver(n, reason),
         reason \notin {"total_cap_reached", "duplicate_of"},
         reason = "review_rules_source" => n \in loadedReviews,
         UNCHANGED <<repository, reviewSources, reviewMd, digestBytes, loadedReviews>>
  PROVE  Books'
<1>1. LeaveOut(n, reason) /\ agenda' = Tail(agenda)
      /\ UNCHANGED <<ruleSources, totalBytes, walked, seenContent>>
  BY DEF PassOver
<1>2. walked' \in Nat /\ walked' <= MaxRuleFiles
  BY <1>1, WalkCounts
<1>3. reason = "review_rules_source" => Settled(n)
  BY DEF Books, ReviewsInv, Settled, Shown
<1>4. UNCHANGED <<repository, ruleSources, totalBytes, reviewSources, reviewMd, digestBytes,
                  loadedReviews>> /\ seenContent' = seenContent
  BY <1>1
<1> QED BY <1>1, <1>2, <1>3, <1>4, LeftOut

LEMMA LeastOfThree ==
  ASSUME NEW a \in Nat, NEW b \in Nat, NEW c \in Nat
  PROVE  Min({a, b, c}) \in Nat /\ Min({a, b, c}) <= c
<1>1. {a, b, c} \in SUBSET Nat /\ {a, b, c} # {} /\ c \in {a, b, c}
  OBVIOUS
<1>2. \E x \in {a, b, c} : \A y \in {a, b, c} : x <= y
  BY <1>1, FirstOf
<1>3. Min({a, b, c}) \in {a, b, c} /\ \A y \in {a, b, c} : Min({a, b, c}) <= y
  BY <1>2 DEF Min
<1> QED BY <1>1, <1>3

LEMMA DigestCounts ==
  ASSUME Books, NEW name \in Names
  PROVE  DigestRead(name) \in Nat /\ digestBytes + DigestRead(name) <= MaxDigestTotalBytes
         /\ Proven(name) \in BOOLEAN
<1>1. digestBytes \in Nat /\ digestBytes <= MaxDigestTotalBytes /\ MaxDigestTotalBytes \in Nat
      /\ MaxDigestBytes \in Nat
  BY RulesAssumption DEF Books, RulesTypes, BytesInv, WithinCaps
<1>2. FileOf(name).size \in Nat
  BY RepoAssumption DEF Books, RulesTypes, Names, FileOf
<1> DEFINE s == FileOf(name).size
           m == Min({s, MaxDigestBytes + 1, MaxDigestTotalBytes - digestBytes})
<1>3. m \in Nat /\ m <= MaxDigestTotalBytes - digestBytes
  <2> DEFINE b == MaxDigestBytes + 1
             c == MaxDigestTotalBytes - digestBytes
  <2>1. b \in Nat /\ c \in Nat /\ s \in Nat
    BY <1>1, <1>2
  <2> HIDE DEF b, c, s
  <2>2. Min({s, b, c}) \in Nat /\ Min({s, b, c}) <= c
    BY <2>1, LeastOfThree
  <2> QED BY <2>2 DEF b, c
<1>4. DigestRead(name) = m \/ DigestRead(name) = 0
  BY DEF DigestRead
<1> HIDE DEF m
<1>5. DigestRead(name) \in Nat /\ digestBytes + DigestRead(name) <= MaxDigestTotalBytes
  BY <1>1, <1>3, <1>4
<1>6. Proven(name) \in BOOLEAN
  BY Zenon DEF Proven
<1> QED BY <1>5, <1>6

LEMMA ReviewsGrow ==
  ASSUME RulesTypes, NEW name \in Names, NEW entry \in [name : Names, proven : BOOLEAN]
  PROVE  /\ Append(reviewSources, name) \in Seq(Names)
         /\ ToSet(Append(reviewSources, name)) = ToSet(reviewSources) \cup {name}
         /\ Append(reviewMd, entry) \in Seq([name : Names, proven : BOOLEAN])
         /\ ToSet(Append(reviewMd, entry)) = ToSet(reviewMd) \cup {entry}
<1>1. reviewSources \in Seq(Names) /\ reviewMd \in Seq([name : Names, proven : BOOLEAN])
  BY DEF RulesTypes
<1> DEFINE E == [name : Names, proven : BOOLEAN]
<1>2. reviewMd \in Seq(E) /\ entry \in E
  BY <1>1
<1> HIDE DEF E
<1>3. /\ Append(reviewSources, name) \in Seq(Names)
      /\ ToSet(Append(reviewSources, name)) = ToSet(reviewSources) \cup {name}
  BY <1>1, AppendedSet
<1>4. Append(reviewMd, entry) \in Seq(E) /\ ToSet(Append(reviewMd, entry)) = ToSet(reviewMd) \cup {entry}
  BY <1>2, AppendedSet
<1> QED BY <1>3, <1>4 DEF E

(* A REVIEW.md is shown, or left out and told of.                          *)
LEMMA ReviewRead ==
  ASSUME Books, agenda # <<>>, NEW name, name = Current.to, Current.what = "review",
         agenda' = Tail(agenda), Walks(name),
         reviewMd' = Append(reviewMd, [name |-> name, proven |-> Proven(name)]),
         digestBytes' = digestBytes + DigestRead(name),
         IF Unreadable(name) # "none" \/ OverTotal(name)
         THEN /\ LeaveOut(name, IF Unreadable(name) = "none" THEN "total_cap_reached"
                                ELSE Unreadable(name))
              /\ UNCHANGED <<reviewSources, totalBytes>>
         ELSE /\ reviewSources' = Append(reviewSources, name)
              /\ totalBytes' = totalBytes + FileOf(name).size
              /\ UNCHANGED <<skipped, truncated>>,
         loadedReviews' =
           loadedReviews \cup IF Unreadable(name) = "none" /\ ~OverTotal(name) THEN {name} ELSE {},
         UNCHANGED <<repository, ruleSources, seenContent>>
  PROVE  Books'
<1> DEFINE shown == Unreadable(name) = "none" /\ ~OverTotal(name)
           reason == IF Unreadable(name) = "none" THEN "total_cap_reached" ELSE Unreadable(name)
           entry == [name |-> name, proven |-> Proven(name)]
<1>1. name \in Names /\ Tail(agenda) \in Seq(VisitSpace) /\ FileOf(name).size \in Nat
  BY VisitedIs DEF Books
<1>2. walked' \in Nat /\ walked' <= MaxRuleFiles
  BY WalkCounts
<1>3. DigestRead(name) \in Nat /\ digestBytes + DigestRead(name) <= MaxDigestTotalBytes
      /\ Proven(name) \in BOOLEAN
  BY <1>1, DigestCounts
<1>4. reason \notin {"duplicate_of", "review_rules_source"}
      /\ (~Proven(name) => ~shown)
  <2>1. Unreadable(name) \in {"file_cap_reached", "missing", "not_regular", "too_large", "none"}
    BY DEF Unreadable
  <2>2. Unreadable(name) = "none" => Proven(name)
    BY DEF Proven
  <2> QED BY <2>1, <2>2
<1>5. ~shown => /\ skipped' = skipped \cup {<<name, reason>>}
                /\ truncated' = (truncated \/ reason \in {"file_cap_reached", "total_cap_reached"})
                /\ reviewSources' = reviewSources /\ totalBytes' = totalBytes
                /\ loadedReviews' = loadedReviews
  BY DEF LeaveOut
<1>6. shown => /\ skipped' = skipped /\ truncated' = truncated
               /\ reviewSources' = Append(reviewSources, name)
               /\ totalBytes' = totalBytes + FileOf(name).size
               /\ loadedReviews' = loadedReviews \cup {name}
               /\ ~OverTotal(name)
  OBVIOUS
<1> HIDE DEF shown, reason
<1>8. entry \in [name : Names, proven : BOOLEAN] /\ entry.name = name /\ entry.proven = Proven(name)
  BY <1>1, <1>3
<1>a. reviewMd' = Append(reviewMd, entry)
  OBVIOUS
<1> HIDE DEF entry
<1>b. /\ Append(reviewSources, name) \in Seq(Names)
      /\ ToSet(Append(reviewSources, name)) = ToSet(reviewSources) \cup {name}
      /\ Append(reviewMd, entry) \in Seq([name : Names, proven : BOOLEAN])
      /\ ToSet(Append(reviewMd, entry)) = ToSet(reviewMd) \cup {entry}
  BY <1>1, <1>8, ReviewsGrow, Zenon DEF Books
<1>7. /\ reviewSources' \in Seq(Names) /\ ToSet(reviewSources) \subseteq ToSet(reviewSources')
      /\ shown => ToSet(reviewSources') = ToSet(reviewSources) \cup {name}
  <2>1. reviewSources \in Seq(Names)
    BY DEF Books, RulesTypes
  <2>2. CASE shown
    BY <1>6, <1>b, <2>2
  <2>3. CASE ~shown
    BY <1>5, <2>1, <2>3
  <2> QED BY <2>2, <2>3
<1>9. /\ reviewMd' \in Seq([name : Names, proven : BOOLEAN])
      /\ ToSet(reviewMd') = ToSet(reviewMd) \cup {entry}
  BY <1>a, <1>b, Zenon
<1>10. /\ repository' = repository /\ ruleSources' = ruleSources /\ seenContent' = seenContent
  OBVIOUS
<1>11. skipped \subseteq skipped' /\ Stays
  BY <1>5, <1>6, <1>7, <1>10 DEF Stays
<1>12. /\ Names' = Names /\ \A m : FileOf(m)' = FileOf(m)
       /\ \A m : (ToldOf(m) => ToldOf(m)') /\ (Settled(m) => Settled(m)')
  BY <1>11, SettledStays, Zenon
<1>13. RulesTypes'
  <2>1. VisitSpace' = VisitSpace
    BY <1>12 DEF VisitSpace
  <2>2. totalBytes' \in Nat /\ truncated' \in BOOLEAN /\ digestBytes' \in Nat
    <3>1. totalBytes \in Nat /\ truncated \in BOOLEAN /\ digestBytes \in Nat
      BY DEF Books, RulesTypes
    <3> DEFINE x == FileOf(name).size
               y == DigestRead(name)
    <3>2. x \in Nat /\ y \in Nat /\ digestBytes' = digestBytes + y
      BY <1>1, <1>3
    <3> HIDE DEF x, y
    <3>3. digestBytes' \in Nat
      BY <3>1, <3>2
    <3>4. truncated' \in BOOLEAN
      BY <1>5, <1>6, <3>1
    <3>5. totalBytes' \in Nat
      BY <1>5, <1>6, <3>1, <3>2 DEF x
    <3> QED BY <3>3, <3>4, <3>5
  <2> QED BY <1>1, <1>2, <1>7, <1>9, <1>10, <1>12, <2>1, <2>2 DEF Books, RulesTypes
<1>14. BytesInv'
  <2> DEFINE a == BytesOf(repository.files, ruleSources)
             b == BytesOf(repository.files, reviewSources)
             c == BytesOf(repository.files, reviewSources')
  <2>1. a \in Nat /\ b \in Nat /\ a + b = totalBytes /\ totalBytes <= MaxTotalBytes
    BY DEF Books, BytesInv, WithinCaps
  <2>2. shown => c = b + FileOf(name).size
    <3>1. reviewSources \in Seq(Names)
      BY DEF Books, RulesTypes
    <3>2. BytesOf(repository.files, Append(reviewSources, name))
            = BytesOf(repository.files, reviewSources) + repository.files[name].size
      BY <1>1, <3>1, SizeGrows, Zenon
    <3>3. shown => reviewSources' = Append(reviewSources, name)
      BY <1>6
    <3> QED BY <3>2, <3>3, Zenon DEF FileOf
  <2>3. ~shown => c = b
    BY <1>5
  <2> HIDE DEF a, b, c
  <2>4. c \in Nat /\ a + c = totalBytes' /\ totalBytes' <= MaxTotalBytes
    <3>1. CASE shown
      <4> DEFINE x == FileOf(name).size
                 y == totalBytes + x
      <4>1. x \in Nat /\ totalBytes \in Nat /\ MaxTotalBytes \in Nat
        BY <1>1, RulesAssumption DEF Books, RulesTypes
      <4>2. ~(y > MaxTotalBytes) /\ totalBytes' = y /\ c = b + x
        BY <1>6, <2>2, <3>1 DEF OverTotal
      <4>3. y \in Nat /\ y = totalBytes + x
        BY <4>1
      <4> HIDE DEF y, x
      <4>4. c \in Nat /\ a + c = y
        BY <2>1, <4>1, <4>2, <4>3
      <4> QED BY <4>1, <4>2, <4>3, <4>4
    <3>2. CASE ~shown
      BY <1>5, <2>1, <2>3, <3>2
    <3> QED BY <3>1, <3>2
  <2>5. /\ BytesOf(repository'.files, ruleSources') = a /\ BytesOf(repository'.files, reviewSources') = c
    BY <1>10 DEF a, c
  <2>6. \A i, j \in DOMAIN ruleSources' :
          i # j => FileOf(ruleSources[i])'.text # FileOf(ruleSources[j])'.text
    BY <1>10, <1>12 DEF Books, BytesInv, WithinCaps
  <2> QED BY <1>2, <1>3, <2>1, <2>4, <2>5, <2>6 DEF BytesInv, WithinCaps
<1>15. TextsInv'
  <2>1. \A f \in ToSet(ruleSources') : FileOf(f)'.text \in seenContent'
    BY <1>10, <1>12 DEF Books, TextsInv
  <2>2. ASSUME NEW t \in seenContent'
        PROVE  \E other \in Names' :
                 FileOf(other)'.text = t /\ (other \in ToSet(ruleSources') \/ ToldOf(other)')
    <3>1. PICK other \in Names :
            FileOf(other).text = t /\ (other \in ToSet(ruleSources) \/ ToldOf(other))
      BY <1>10, <2>2 DEF Books, TextsInv
    <3>2. FileOf(other)' = FileOf(other) /\ (ToldOf(other) => ToldOf(other)')
      BY <1>12
    <3> QED BY <1>10, <1>12, <3>1, <3>2
  <2> QED BY <2>1, <2>2 DEF TextsInv
<1>16. PointersInv'
  <2>1. \A f \in ToSet(ruleSources) : \A p \in ToSet(FileOf(f).imports) :
          Settled(p.to)' \/ \E v \in ToSet(agenda') : v.what = "import" /\ v.to = p.to
    <3>1. Current.what = "import" => Settled(name)'
      OBVIOUS
    <3>2. ToSet(Tail(agenda)) \subseteq ToSet(agenda')
      OBVIOUS
    <3> QED BY <1>11, <3>1, <3>2, PointersStay DEF Books
  <2>2. \A f \in ToSet(ruleSources') : \A p \in ToSet(FileOf(f)'.imports) :
          Settled(p.to)' \/ \E v \in ToSet(agenda') : v.what = "import" /\ v.to = p.to
    BY <1>10, <1>12, <2>1
  <2> QED BY <2>2 DEF PointersInv
<1>17. ReviewsInv'
  <2>1. loadedReviews' \subseteq ToSet(reviewSources')
    BY <1>5, <1>6, <1>7 DEF Books, ReviewsInv
  <2>2. ~Proven(name) => ToldOf(name)'
    <3>1. SUFFICES ASSUME ~Proven(name) PROVE ToldOf(name)'
      OBVIOUS
    <3>2. <<name, reason>> \in skipped'
      BY <1>4, <1>5, <3>1
    <3> QED BY <1>4, <3>2 DEF ToldOf
  <2>3. \A r \in ToSet(reviewMd') : r.proven \/ ToldOf(r.name)'
    BY <1>8, <1>9, <1>12, <2>2 DEF Books, ReviewsInv
  <2> QED BY <2>1, <2>3 DEF ReviewsInv
<1>18. RoomInv'
  <2>1. ASSUME NEW e \in skipped', e[2] = "total_cap_reached"
        PROVE  \/ \E r \in ToSet(reviewMd') : r.name = e[1]
               \/ /\ FileOf(e[1])'.text \in seenContent'
                  /\ \A f \in ToSet(ruleSources') : FileOf(f)'.text # FileOf(e[1])'.text
    <3>1. CASE e \in skipped
      <4>1. \/ \E r \in ToSet(reviewMd) : r.name = e[1]
            \/ /\ FileOf(e[1]).text \in seenContent
               /\ \A f \in ToSet(ruleSources) : FileOf(f).text # FileOf(e[1]).text
        BY <2>1, <3>1 DEF Books, RoomInv
      <4> QED BY <1>9, <1>10, <1>12, <4>1
    <3>2. CASE e = <<name, reason>>
      BY <1>8, <1>9, <3>2
    <3> QED BY <1>5, <1>6, <2>1, <3>1, <3>2
  <2> QED BY <2>1 DEF RoomInv
<1>19. TruncatedTold'
  <2>1. truncated = (\E e \in skipped : e[2] \in {"file_cap_reached", "total_cap_reached"})
    BY DEF Books, TruncatedTold
  <2>2. CASE shown
    BY <1>6, <2>1, <2>2, Zenon DEF TruncatedTold
  <2>3. CASE ~shown
    <3>1. (\E e \in skipped' : e[2] \in {"file_cap_reached", "total_cap_reached"})
            <=> \/ \E e \in skipped : e[2] \in {"file_cap_reached", "total_cap_reached"}
                \/ reason \in {"file_cap_reached", "total_cap_reached"}
      <4>1. <<name, reason>>[2] = reason
        OBVIOUS
      <4>2. \A e : e \in skipped' <=> e \in skipped \/ e = <<name, reason>>
        BY <1>5, <2>3
      <4> QED BY <4>1, <4>2, Zenon
    <3> QED BY <1>5, <2>1, <2>3, <3>1, Zenon DEF TruncatedTold
  <2> QED BY <2>2, <2>3
<1> QED BY <1>13, <1>14, <1>15, <1>16, <1>17, <1>18, <1>19 DEF Books

LEMMA VisitReviewKeeps == ASSUME Books, VisitReview PROVE Books'
<1>1. PICK name : name = Current.to
  OBVIOUS
<1>2. agenda # <<>> /\ Current.what = "review" /\ agenda' = Tail(agenda)
      /\ UNCHANGED <<repository, ruleSources, seenContent, gaps>>
  BY DEF VisitReview
<1>3. CASE Confinement(name) # "none" \/ FileOf(name).kind # "regular"
  <2>1. PICK reason : reason = IF Confinement(name) # "none" THEN Confinement(name)
                               ELSE IF FileOf(name).kind = "missing" THEN "missing"
                               ELSE "not_regular"
    OBVIOUS
  <2>2. LeaveOut(name, reason)
        /\ UNCHANGED <<reviewMd, reviewSources, loadedReviews, totalBytes, digestBytes, walked>>
    BY <1>1, <1>3, <2>1 DEF VisitReview
  <2>3. reason \notin {"total_cap_reached", "duplicate_of", "review_rules_source"}
    BY <2>1 DEF Confinement
  <2>4. walked' \in Nat /\ walked' <= MaxRuleFiles
    BY <2>2, WalkCounts
  <2>5. UNCHANGED <<repository, ruleSources, totalBytes, reviewSources, reviewMd, digestBytes,
                    loadedReviews>> /\ seenContent' = seenContent
    BY <1>2, <2>2
  <2> QED BY <1>1, <1>2, <2>2, <2>3, <2>4, <2>5, LeftOut
<1>4. CASE ~(Confinement(name) # "none" \/ FileOf(name).kind # "regular")
  <2>1. /\ Walks(name)
        /\ reviewMd' = Append(reviewMd, [name |-> name, proven |-> Proven(name)])
        /\ digestBytes' = digestBytes + DigestRead(name)
        /\ IF Unreadable(name) # "none" \/ OverTotal(name)
           THEN /\ LeaveOut(name, IF Unreadable(name) = "none" THEN "total_cap_reached"
                                  ELSE Unreadable(name))
                /\ UNCHANGED <<reviewSources, totalBytes>>
           ELSE /\ reviewSources' = Append(reviewSources, name)
                /\ totalBytes' = totalBytes + FileOf(name).size
                /\ UNCHANGED <<skipped, truncated>>
        /\ loadedReviews' =
             loadedReviews \cup IF Unreadable(name) = "none" /\ ~OverTotal(name) THEN {name} ELSE {}
    BY <1>1, <1>4, Zenon DEF VisitReview
  <2>2. UNCHANGED <<repository, ruleSources, seenContent>>
    BY <1>2
  <2> QED BY <1>1, <1>2, <2>1, <2>2, ReviewRead
<1> QED BY <1>3, <1>4

LEMMA VisitRulesKeeps == ASSUME Books, VisitRules PROVE Books'
<1>1. PICK n : n = Current.to
  OBVIOUS
<1>2. PICK reason : reason = Confinement(n)
  OBVIOUS
<1>3. agenda # <<>> /\ UNCHANGED <<repository, reviewSources, reviewMd, digestBytes, loadedReviews>>
  BY DEF VisitRules
<1>4. CASE reason # "none"
  <2>1. PassOver(n, reason)
    BY <1>1, <1>2, <1>4 DEF VisitRules
  <2>2. reason \notin {"total_cap_reached", "duplicate_of", "review_rules_source"}
    BY <1>2 DEF Confinement
  <2> QED BY <1>1, <1>3, <2>1, <2>2, PassedOver
<1>5. CASE reason = "none"
  <2>1. VisitFile(Current)
    BY <1>1, <1>2, <1>5 DEF VisitRules
  <2> QED BY <1>3, <2>1, FileVisited
<1> QED BY <1>4, <1>5

LEMMA FollowKeeps == ASSUME Books, FollowImport PROVE Books'
<1>1. PICK n : n = Current.to
  OBVIOUS
<1>2. PICK reason : reason = PointerRefusal(Current)
  OBVIOUS
<1>3. agenda # <<>> /\ UNCHANGED <<repository, reviewSources, reviewMd, digestBytes, loadedReviews>>
  BY DEF FollowImport
<1>4. CASE reason # "none"
  <2>1. PassOver(n, reason)
    BY <1>1, <1>2, <1>4 DEF FollowImport
  <2>2. /\ reason \notin {"total_cap_reached", "duplicate_of"}
        /\ reason = "review_rules_source" => n \in loadedReviews
    BY <1>1, <1>2 DEF PointerRefusal, Confinement
  <2> QED BY <1>1, <1>3, <2>1, <2>2, PassedOver
<1>5. CASE reason = "none"
  <2>1. VisitFile(Current)
    BY <1>2, <1>5 DEF FollowImport
  <2> QED BY <1>3, <2>1, FileVisited
<1> QED BY <1>4, <1>5

(* Visits come before the receipt, which changes nothing else.             *)
LEMMA ReceiptStays ==
  ASSUME RulesInv, agenda # <<>>, gaps' = gaps
  PROVE  ReceiptInv'
BY DEF RulesInv, ReceiptInv, Written

LEMMA BooksStay ==
  ASSUME Books, UNCHANGED <<repository, agenda, ruleSources, reviewSources, reviewMd, skipped,
                            totalBytes, digestBytes, walked, truncated, seenContent, loadedReviews>>
  PROVE  Books'
<1>1. /\ repository' = repository /\ agenda' = agenda /\ ruleSources' = ruleSources
      /\ reviewSources' = reviewSources /\ reviewMd' = reviewMd /\ skipped' = skipped
      /\ totalBytes' = totalBytes /\ digestBytes' = digestBytes /\ walked' = walked
      /\ truncated' = truncated /\ seenContent' = seenContent /\ loadedReviews' = loadedReviews
  OBVIOUS
<1>2. Stays
  BY <1>1 DEF Stays
<1>3. /\ Names' = Names /\ \A m : FileOf(m)' = FileOf(m)
      /\ \A m : (ToldOf(m) => ToldOf(m)') /\ (Settled(m) => Settled(m)')
  BY <1>2, SettledStays, Zenon
<1>4. RulesTypes'
  BY <1>1, <1>3 DEF Books, RulesTypes, VisitSpace
<1>5. BytesInv'
  BY <1>1, <1>3 DEF Books, BytesInv, WithinCaps
<1>6. TextsInv'
  BY <1>1, <1>3 DEF Books, TextsInv
<1>7. PointersInv'
  BY <1>1, <1>3 DEF Books, PointersInv
<1>8. ReviewsInv'
  BY <1>1, <1>3 DEF Books, ReviewsInv
<1>9. RoomInv' /\ TruncatedTold'
  BY <1>1, <1>3 DEF Books, RoomInv, TruncatedTold
<1> QED BY <1>4, <1>5, <1>6, <1>7, <1>8, <1>9 DEF Books

LEMMA ReceiptKeeps == ASSUME RulesInv, WriteReceipt PROVE RulesInv'
<1>1. Books'
  BY BooksStay DEF WriteReceipt, RulesInv
<1>2. agenda' = <<>> /\ {e \in skipped : Disclosed(e)} \subseteq gaps'
  BY DEF WriteReceipt
<1>3. \A e : Disclosed(e)' = Disclosed(e)
  BY DEF WriteReceipt, Disclosed, Unfollowed, FileOf, Confinement
<1>4. skipped' = skipped
  BY DEF WriteReceipt
<1>5. {e \in skipped' : Disclosed(e)'} \subseteq gaps'
  BY <1>2, <1>3, <1>4
<1>6. ReceiptInv'
  BY <1>2, <1>5 DEF ReceiptInv
<1> QED BY <1>1, <1>6 DEF RulesInv

LEMMA RulesStutter == ASSUME RulesInv, UNCHANGED rulesVars PROVE RulesInv'
<1>1. UNCHANGED <<repository, agenda, ruleSources, reviewSources, reviewMd, skipped,
                  totalBytes, digestBytes, walked, truncated, seenContent, loadedReviews>>
      /\ gaps' = gaps /\ skipped' = skipped /\ agenda' = agenda
  BY DEF rulesVars
<1>2. Books'
  BY <1>1, BooksStay DEF RulesInv
<1>3. \A e : Disclosed(e)' = Disclosed(e)
  BY <1>1 DEF Disclosed, Unfollowed, FileOf, Confinement
<1>4. ReceiptInv'
  BY <1>1, <1>3 DEF RulesInv, ReceiptInv, Written
<1> QED BY <1>2, <1>4 DEF RulesInv

(* What the invariant says once the receipt is written.                    *)
LEMMA RulesTold == ASSUME RulesInv PROVE RulesAreAccounted
<1>1. \A n : Written /\ ToldOf(n) => InReceipt(n)
  BY DEF RulesInv, ReceiptInv, ToldOf, InReceipt, Disclosed
<1>2. ASSUME Written, NEW f \in ToSet(ruleSources), NEW p \in ToSet(FileOf(f).imports)
      PROVE  Accounted(p.to)
  <2>1. ToSet(agenda) = {}
    BY <1>2 DEF RulesInv, ReceiptInv, ToSet
  <2>2. Settled(p.to)
    BY <2>1 DEF RulesInv, Books, PointersInv
  <2> QED BY <1>1, <1>2, <2>2 DEF Settled, Accounted, Names
<1>3. ASSUME Written, NEW e \in skipped, e[2] = "review_rules_source",
             NEW p \in ToSet(FileOf(e[1]).imports),
             Confinement(p.to) = "none" /\ ~p.absolute /\ FileOf(p.to).kind = "regular"
      PROVE  p.to \in Shown \/ InReceipt(e[1])
  <2>1. CASE Unfollowed(e[1]) # {}
    BY <1>3, <2>1 DEF RulesInv, ReceiptInv, InReceipt, Disclosed
  <2>2. CASE Unfollowed(e[1]) = {}
    <3>1. p.to \in ToSet(ruleSources) \cup loadedReviews
      BY <1>3, <2>2 DEF Unfollowed
    <3> QED BY <3>1 DEF RulesInv, Books, ReviewsInv, Shown
  <2> QED BY <2>1, <2>2
<1>4. WithinCaps /\ TruncatedTold
  BY DEF RulesInv, Books, BytesInv
<1>5. PointersAccounted
  BY <1>2 DEF PointersAccounted
<1>6. ReviewImportsTold
  BY <1>3 DEF ReviewImportsTold
<1>7. UnprovenTold
  BY <1>1 DEF UnprovenTold, RulesInv, Books, ReviewsInv
<1>8. NoFalseGap
  BY DEF NoFalseGap, RulesInv, Books, RoomInv
<1> QED BY <1>4, <1>5, <1>6, <1>7, <1>8 DEF RulesAreAccounted
-----------------------------------------------------------------------------
-----------------------------------------------------------------------------
(* What is concatenated, piece by piece.                                   *)
Flattened(f, n, pieces) ==
  f = [i \in 1..n |-> IF i = 1 THEN pieces[i] ELSE f[i - 1] \o pieces[i]]

LEMMA FlatExists ==
  ASSUME NEW n \in Nat, NEW pieces
  PROVE  \E f : Flattened(f, n, pieces)
<1> DEFINE S == {k \in 0..n : ~ \E f : Flattened(f, k, pieces)}
<1>1. S = {}
  <2>1. SUFFICES ASSUME S # {} PROVE FALSE
    OBVIOUS
  <2>2. S \in SUBSET Nat
    OBVIOUS
  <2>3. PICK k \in S : \A y \in S : k <= y
    BY <2>1, <2>2, FirstOf
  <2>4. k \in Nat /\ k <= n /\ ~ \E f : Flattened(f, k, pieces)
    BY <2>3
  <2>5. CASE k = 0
    <3> DEFINE g == [d \in 1..0 |-> 0]
    <3>1. g = [d \in 1..0 |-> IF d = 1 THEN pieces[d] ELSE g[d - 1] \o pieces[d]]
      <4>1. \A d \in 1..0 : FALSE
        OBVIOUS
      <4> QED BY <4>1, Zenon
    <3>2. Flattened(g, 0, pieces)
      BY <3>1 DEF Flattened
    <3> QED BY <2>4, <2>5, <3>2
  <2>6. CASE k # 0
    <3>1. k - 1 \in 0..n /\ ~(k <= k - 1)
      BY <2>4, <2>6
    <3>1a. k - 1 \notin S
      BY <2>3, <3>1
    <3>2. PICK f : Flattened(f, k - 1, pieces)
      BY <3>1, <3>1a
    <3> DEFINE body(w, d) == IF d = 1 THEN pieces[d] ELSE w[d - 1] \o pieces[d]
               g == [d \in 1..k |-> body(f, d)]
    <3>3. f = [d \in 1..(k - 1) |-> body(f, d)]
      BY <3>2 DEF Flattened
    <3>4. \A d \in 1..k : d # 1 => d - 1 \in 1..(k - 1) /\ d - 1 \in 1..k
      BY <2>4
    <3>5. \A d \in 1..(k - 1) : d \in 1..k
      BY <2>4
    <3> HIDE DEF body
    <3>6. \A d \in 1..(k - 1) : g[d] = f[d]
      BY <3>3, <3>5, Zenon
    <3>7. \A d \in 1..k : body(g, d) = body(f, d)
      BY <3>4, <3>6 DEF body
    <3>8. g = [d \in 1..k |-> body(g, d)]
      BY <3>7, Zenon
    <3> HIDE DEF g
    <3>9. Flattened(g, k, pieces)
      BY <3>8 DEF Flattened, body
    <3> QED BY <2>4, <3>9
  <2> QED BY <2>5, <2>6
<1> QED BY <1>1

LEMMA FlatTyped ==
  ASSUME NEW S, NEW n \in Nat, NEW pieces \in [1..n -> Seq(S)]
  PROVE  FlattenSeq(pieces) \in Seq(S)
<1>1. Len(pieces) = n
  BY Listed
<1>2. CASE n = 0
  <2>1. FlattenSeq(pieces) = pieces
    BY <1>1, <1>2 DEF FlattenSeq
  <2>2. pieces \in [1..0 -> S]
    <3>1. \A i \in 1..0 : FALSE
      OBVIOUS
    <3> QED BY <1>2, <3>1
  <2> QED BY <2>1, <2>2, Listed
<1>3. CASE n # 0
  <2> DEFINE f == CHOOSE g : Flattened(g, n, pieces)
             T == {k \in 1..n : f[k] \notin Seq(S)}
  <2>1. Flattened(f, n, pieces)
    BY FlatExists
  <2>2. FlattenSeq(pieces) = f[n]
    <3>1. FlattenSeq(pieces) = (CHOOSE g : Flattened(g, Len(pieces), pieces))[Len(pieces)]
      BY <1>1, <1>3 DEF FlattenSeq, Flattened
    <3> QED BY <1>1, <3>1
  <2> HIDE DEF f
  <2>3. \A k \in 1..n : f[k] = IF k = 1 THEN pieces[k] ELSE f[k - 1] \o pieces[k]
    BY <2>1, Zenon DEF Flattened
  <2>4. T = {}
    <3>1. SUFFICES ASSUME T # {} PROVE FALSE
      OBVIOUS
    <3>2. T \in SUBSET Nat
      OBVIOUS
    <3>3. PICK k \in T : \A y \in T : k <= y
      BY <3>1, <3>2, FirstOf
    <3>4. k \in 1..n /\ f[k] \notin Seq(S) /\ pieces[k] \in Seq(S)
      BY <3>3
    <3>5. k # 1
      BY <2>3, <3>4
    <3>6. k - 1 \in 1..n /\ ~(k <= k - 1)
      BY <3>4, <3>5
    <3>7. f[k - 1] \in Seq(S)
      BY <3>3, <3>6
    <3>8. f[k] = f[k - 1] \o pieces[k]
      BY <2>3, <3>4, <3>5
    <3>9. \A s, t \in Seq(S) : s \o t \in Seq(S)
      OBVIOUS
    <3> QED BY <3>4, <3>7, <3>8, <3>9
  <2>5. n \in 1..n
    BY <1>3
  <2> QED BY <2>2, <2>4, <2>5
<1> QED BY <1>2, <1>3

(* The visits a search begins with.                                        *)
LEMMA VisitsAre ==
  ASSUME NEW names, NEW what \in {"review", "rules", "import"},
         NEW n \in Nat, NEW pieces \in [1..n -> Seq(names)]
  PROVE  [i \in DOMAIN FlattenSeq(pieces) |-> Call(what, Relative(FlattenSeq(pieces)[i]), 0, {})]
           \in Seq([what : {"review", "rules", "import"}, to : names, absolute : BOOLEAN,
                    depth : Nat, chain : SUBSET names])
<1> DEFINE all == FlattenSeq(pieces)
           V == [what : {"review", "rules", "import"}, to : names, absolute : BOOLEAN,
                 depth : Nat, chain : SUBSET names]
<1>1. all \in Seq(names)
  BY FlatTyped
<1> HIDE DEF all
<1>2. Len(all) \in Nat /\ DOMAIN all = 1..Len(all) /\ \A i \in 1..Len(all) : all[i] \in names
  BY <1>1, Items
<1>3. \A x \in names : Call(what, Relative(x), 0, {}) \in V
  BY DEF Call, Relative
<1> DEFINE m == Len(all)
           visit(x) == Call(what, Relative(x), 0, {})
<1> HIDE DEF V, visit
<1>4. [i \in DOMAIN all |-> visit(all[i])] \in [1..m -> V]
  BY <1>2, <1>3 DEF visit
<1>5. [i \in DOMAIN all |-> visit(all[i])] \in Seq(V)
  BY <1>2, <1>4, Listed
<1> QED BY <1>5 DEF all, V, visit

LEMMA ImageFinite ==
  ASSUME NEW S, IsFiniteSet(S), NEW f
  PROVE  IsFiniteSet({f[x] : x \in S})
<1> DEFINE T == {f[x] : x \in S}
           g == [x \in S |-> f[x]]
<1>1. g \in Surjection(S, T)
  BY DEF Surjection
<1> QED BY <1>1, FS_Surjection

LEMMA RulesBegin == ASSUME RulesInit PROVE RulesInv
<1>1. repository \in Repos
  BY DEF RulesInit
<1>2. PICK n \in Nat : DOMAIN SearchDirs(repository) = 1..n
  <2> DEFINE dirs == Above(repository) \cup {<<>>}
  <2>1. IsFiniteSet(repository.changed) /\ repository.changed \subseteq Seq(Nat)
    BY <1>1, RepoAssumption
  <2>2. IsFiniteSet(dirs)
    <3>1. \A d \in repository.changed : IsFiniteSet({SubSeq(d, 1, k) : k \in 0..Len(d)})
      <4> TAKE d \in repository.changed
      <4>1. IsFiniteSet(0..Len(d))
        BY <2>1, FS_Interval
      <4> DEFINE f == [k \in 0..Len(d) |-> SubSeq(d, 1, k)]
      <4>2. {f[k] : k \in 0..Len(d)} = {SubSeq(d, 1, k) : k \in 0..Len(d)}
        BY Zenon
      <4> HIDE DEF f
      <4> QED BY <4>1, <4>2, ImageFinite, Zenon
    <3>2. \A X \in {{SubSeq(d, 1, k) : k \in 0..Len(d)} : d \in repository.changed} : IsFiniteSet(X)
      BY <3>1
    <3>3. IsFiniteSet({{SubSeq(d, 1, k) : k \in 0..Len(d)} : d \in repository.changed})
      <4> DEFINE f == [d \in repository.changed |-> {SubSeq(d, 1, k) : k \in 0..Len(d)}]
      <4>1. {f[d] : d \in repository.changed}
              = {{SubSeq(d, 1, k) : k \in 0..Len(d)} : d \in repository.changed}
        BY Zenon
      <4> HIDE DEF f
      <4>2. IsFiniteSet(repository.changed)
        BY <2>1
      <4>3. IsFiniteSet({f[d] : d \in repository.changed})
        BY <4>2, ImageFinite
      <4> QED BY <4>1, <4>3, Zenon
    <3>4. IsFiniteSet(Above(repository))
      BY <3>2, <3>3, FS_UNION DEF Above
    <3> QED BY <3>4, FS_AddElement
  <2>3. Cardinality(dirs) \in Nat
    BY <2>2, FS_CardinalityType
  <2>4. DOMAIN SearchDirs(repository) = 1..Cardinality(dirs)
    BY DEF SearchDirs
  <2> QED BY <2>3, <2>4
<1> DEFINE of(d) == IF d \in DOMAIN repository.reviews THEN <<repository.reviews[d]>> ELSE <<>>
           in(d) == IF d \in DOMAIN repository.rules THEN repository.rules[d] ELSE <<>>
           dirs == SearchDirs(repository)
           first == [i \in DOMAIN dirs |-> of(dirs[i])]
           second == [i \in DOMAIN dirs |-> in(dirs[i])]
           seen(all, what) == [i \in DOMAIN all |-> Call(what, Relative(all[i]), 0, {})]
<1>3. agenda = seen(FlattenSeq(first), "review") \o seen(FlattenSeq(second), "rules")
  BY DEF RulesInit, Found
<1>4. \A d : of(d) \in Seq(Names) /\ in(d) \in Seq(Names)
  <2>1. /\ \A d \in DOMAIN repository.reviews : repository.reviews[d] \in Names
        /\ \A d \in DOMAIN repository.rules : repository.rules[d] \in Seq(Names)
    BY <1>1, RepoAssumption, Zenon DEF Names
  <2>2. <<>> \in Seq(Names) /\ \A x \in Names : <<x>> \in Seq(Names)
    OBVIOUS
  <2> QED BY <2>1, <2>2, Zenon
<1> HIDE DEF of, in, dirs
<1>5. DOMAIN dirs = 1..n
  BY <1>2 DEF dirs
<1>6. first \in [1..n -> Seq(Names)] /\ second \in [1..n -> Seq(Names)]
  BY <1>4, <1>5
<1> HIDE DEF first, second
<1>7. seen(FlattenSeq(first), "review") \in Seq(VisitSpace)
  BY <1>6, VisitsAre DEF VisitSpace
<1>8. seen(FlattenSeq(second), "rules") \in Seq(VisitSpace)
  BY <1>6, VisitsAre DEF VisitSpace
<1> HIDE DEF seen
<1>9. agenda \in Seq(VisitSpace)
  BY <1>3, <1>7, <1>8, Joined
<1>10. /\ ruleSources = <<>> /\ reviewSources = <<>> /\ reviewMd = <<>> /\ skipped = {}
       /\ totalBytes = 0 /\ digestBytes = 0 /\ walked = 0 /\ truncated = FALSE
       /\ seenContent = {} /\ loadedReviews = {} /\ gaps = {<<"unwritten", "receipt">>}
  BY DEF RulesInit
<1>11. ToSet(<<>>) = {} /\ DOMAIN <<>> = {} /\ \A S : <<>> \in Seq(S)
  BY DEF ToSet
<1>12. RulesTypes
  BY <1>1, <1>9, <1>10, <1>11 DEF RulesTypes
<1>13. BytesInv
  <2>1. BytesOf(repository.files, <<>>) = 0
    BY EmptySize
  <2>2. MaxTotalBytes \in Nat /\ MaxRuleFiles \in Nat /\ MaxDigestTotalBytes \in Nat
    BY RulesAssumption
  <2> QED BY <1>10, <1>11, <2>1, <2>2 DEF BytesInv, WithinCaps
<1>14. TextsInv /\ PointersInv /\ ReviewsInv /\ RoomInv
  BY <1>10, <1>11 DEF TextsInv, PointersInv, ReviewsInv, RoomInv
<1>15. TruncatedTold
  BY <1>10 DEF TruncatedTold
<1>16. ReceiptInv
  BY <1>10 DEF ReceiptInv, Written
<1> QED BY <1>12, <1>13, <1>14, <1>15, <1>16 DEF RulesInv, Books

(* Rules are accounted for, however the imports of any repository are      *)
(* knotted and wherever its files lie: the reviewers get them within the   *)
(* bounds, no text twice, and the receipt tells of those they do not get.  *)
THEOREM RulesHold == RulesSpec => []RulesAreAccounted
<1>1. RulesInit => RulesInv
  BY RulesBegin
<1>2. RulesInv /\ [RulesNext]_rulesVars => RulesInv'
  <2>1. SUFFICES ASSUME RulesInv, [RulesNext]_rulesVars PROVE RulesInv'
    OBVIOUS
  <2>2. Books
    BY <2>1 DEF RulesInv
  <2>3. CASE VisitReview
    <3>1. agenda # <<>> /\ gaps' = gaps
      BY <2>3 DEF VisitReview
    <3> QED BY <2>1, <2>2, <2>3, <3>1, VisitReviewKeeps, ReceiptStays DEF RulesInv
  <2>4. CASE VisitRules
    <3>1. agenda # <<>> /\ gaps' = gaps
      BY <2>4 DEF VisitRules
    <3> QED BY <2>1, <2>2, <2>4, <3>1, VisitRulesKeeps, ReceiptStays DEF RulesInv
  <2>5. CASE FollowImport
    <3>1. agenda # <<>> /\ gaps' = gaps
      BY <2>5 DEF FollowImport
    <3> QED BY <2>1, <2>2, <2>5, <3>1, FollowKeeps, ReceiptStays DEF RulesInv
  <2>6. CASE WriteReceipt
    BY <2>1, <2>6, ReceiptKeeps
  <2>7. CASE UNCHANGED rulesVars
    BY <2>1, <2>7, RulesStutter
  <2> QED BY <2>1, <2>3, <2>4, <2>5, <2>6, <2>7 DEF RulesNext
<1>3. RulesInv => RulesAreAccounted
  BY RulesTold
<1> QED BY <1>1, <1>2, <1>3, PTL DEF RulesSpec
=============================================================================
