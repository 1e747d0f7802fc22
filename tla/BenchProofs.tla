---------------------------- MODULE BenchProofs ----------------------------
(***************************************************************************)
(* Proofs about the benchmark.  First a run directory and its scores, for  *)
(* every tier, every bound on passes, attempts, kills and scores:          *)
(* BenchSession and BenchScoring.  The inductive invariant adds to the     *)
(* properties what a pass knows of its work: which pull requests are still *)
(* due, whose payload lies where, how attempts link, and that nothing was  *)
(* spent or recorded before run.json names the credential.  Then what the  *)
(* benchmark concludes, for any number of commands, runs, reviews and      *)
(* crashes: how the gate is looked at and the holdout opened               *)
(* (GateProtocol, under the rules of GateRules), which runs of two arms it *)
(* compares (ArmMatrix), and what a review is credited with                *)
(* (MeasuredReview).                                                       *)
(***************************************************************************)
EXTENDS BenchScoring, ArmMatrix, MeasuredReview, FiniteSetTheorems, NaturalsInduction,
        WellFoundedInduction, TLAPS

Phases == {"idle", "manifest", "archive", "next", "running", "collect", "record", "mark"}
Named == manifest.state \in {"stub", "full"}
Final(p) == selected[p] # 0 /\ Selected(p).state # "invalid"

PassType ==
  [phase : Phases, kind : {"new", "resume", "retry"}, mode : Mode, windowed : BOOLEAN,
   todo : SUBSET DOMAIN Order, child : Nat, outcome : Outcome]

(* Types, as far as the proofs use them. *)
Types ==
  /\ manifest \in [state : {"none", "torn", "stub", "full"}, auth : Mode, windowed : BOOLEAN]
  /\ reset \in Nat /\ clock \in Nat \ {0} /\ passes \in Nat /\ kills \in Nat /\ exit \in 0..2
  /\ attempts \in [PR -> Seq(Attempt)]
  /\ selected \in [PR -> Nat]
  /\ \A p \in PR : selected[p] <= Len(attempts[p])
  /\ pass \in PassType
  /\ children \in Seq(PR)
  /\ alive \subseteq 1..Len(children) /\ orphans \subseteq 1..Len(children)
  /\ out \in 0..Len(children)
  /\ payload \in [PR -> 0..Len(children)]
  /\ charged \subseteq Mode

(* Before run.json names the run's credential nothing was spent or         *)
(* recorded under it; a pass that is past it runs under that credential.   *)
RunIsNamed ==
  /\ ~Named => charged = {} /\ \A p \in PR : attempts[p] = <<>>
  /\ Named => charged \subseteq {manifest.auth}
  /\ pass.phase \in Phases \ {"idle", "manifest"} => Named /\ pass.mode = manifest.auth
  /\ pass.phase = "manifest" => manifest.state = "none"
  /\ passes = 0 => manifest.state = "none" /\ pass = Idle /\ \A p \in PR : payload[p] = 0

(* A pass visits what is pending, or what failed and may be retried now.   *)
WorkIsDue ==
  /\ \A i \in pass.todo :
       /\ pass.kind = "retry" =>
            /\ Retryable(Order[i])
            /\ Selected(Order[i]).limited => reset > Selected(Order[i]).done
       /\ pass.kind # "retry" => Pending(Order[i])
  /\ pass.phase \in {"running", "collect", "record", "mark"} => pass.todo # {}

(* Whose payload lies where: an earlier attempt's only where no attempt is *)
(* to come, and in the output directory only the child's of this attempt   *)
(* or of a pass that was killed. *)
PlaceIsClean ==
  /\ pass.kind = "new" \/ pass.phase \in {"next", "running", "collect", "record", "mark"} =>
       \A i \in pass.todo : pass.phase # "mark" \/ i # Min(pass.todo) => payload[Order[i]] = 0
  /\ alive \subseteq orphans \cup (IF pass.phase = "running" THEN {pass.child} ELSE {})
  /\ pass.phase \in {"running", "collect"} => out \in {0, pass.child} \cup orphans
  /\ pass.phase \notin {"running", "collect", "record", "mark"} => pass.child = 0
  /\ pass.phase = "running" => pass.child \in 1..Len(children)

(* Attempts link backwards, and what is valid holds a payload; the one     *)
(* that the index does not select yet links the one it selects. *)
AttemptsLink ==
  /\ \A p \in PR : \A j \in 1..Len(attempts[p]) :
       /\ attempts[p][j].prior \in 0..(j - 1)
       /\ attempts[p][j].state = "valid" => attempts[p][j].payload # 0
  /\ pass.phase = "mark" =>
       LET a == attempts[Current]
       IN /\ selected[Current] < Len(a)
          /\ a[Len(a)].prior = selected[Current]
          /\ a[Len(a)].child = pass.child

ExitIsEarned == (Busy => exit = 2) /\ ExitZeroIsScorable

Books ==
  /\ IsFiniteSet(Forgotten) /\ IsFiniteSet(Unrecorded)
  /\ LossPerKill

SessionInv ==
  /\ Types /\ RunIsNamed /\ WorkIsDue /\ PlaceIsClean /\ AttemptsLink
  /\ OwnDeliverables /\ RetriesWait /\ TerminalIsConfirmed /\ ExitIsEarned

(* What was loaded to be scored is final, and stays what the index selects. *)
ScorerInv ==
  /\ scoring \in {"idle", "selected", "judging", "published", "pointed"}
  /\ picked \in [PR -> Nat] /\ packets \in Seq(Packet) /\ latest \in Nat /\ rows \in Seq(Nat)
  /\ scoring = "selected" \/ packets # <<>> => \A p \in PR : Final(p)
  /\ scoring \in {"judging", "published", "pointed"} => packets # <<>>
  /\ scoring \in {"published", "pointed"} => packets[Len(packets)].published
  /\ LedgerTellsScores /\ ScoresStayCurrent
-----------------------------------------------------------------------------
(* A set of naturals that is not empty has a least element. *)
LEMMA LeastOf ==
  ASSUME NEW T \in SUBSET Nat, T # {}
  PROVE  Min(T) \in T /\ \A y \in T : Min(T) <= y
<1>1. IsWellFoundedOn(OpToRel(<, Nat), Nat)
  BY NatLessThanWellFounded
<1>2. PICK x \in T : \A y \in T : ~ (<<y, x>> \in OpToRel(<, Nat))
  BY <1>1, WFMin, Zenon
<1>3. \A y \in T : ~(y < x)
  BY <1>2 DEF OpToRel
<1>4. \A y \in T : y \in Nat /\ x \in Nat
  BY <1>2
<1>5. \A y \in T : x <= y
  BY <1>3, <1>4
<1> QED BY <1>2, <1>5 DEF Min

(* Places in the order of a run are naturals, one for each pull request.   *)
LEMMA Places ==
  /\ DOMAIN Order = 1..Len(Order) /\ Len(Order) \in Nat /\ DOMAIN Order \subseteq Nat
  /\ \A i \in DOMAIN Order : Order[i] \in PR
  /\ \A i, j \in DOMAIN Order : Order[i] = Order[j] => i = j
BY OrderAssumption DEF PR

(* The pull request a pass is at is the one that comes first among those   *)
(* that are due. *)
LEMMA CurrentIsDue ==
  ASSUME pass.todo \subseteq DOMAIN Order, pass.todo # {}
  PROVE  /\ Min(pass.todo) \in pass.todo /\ Current = Order[Min(pass.todo)] /\ Current \in PR
         /\ \A i \in pass.todo : Order[i] = Current => i = Min(pass.todo)
<1>1. pass.todo \in SUBSET Nat
  BY Places
<1>2. Min(pass.todo) \in pass.todo
  BY <1>1, LeastOf
<1> QED BY <1>2, Places DEF Current
-----------------------------------------------------------------------------
(* A run directory that does not exist yet. *)
LEMMA InitOK == Init => SessionInv /\ Books
<1> SUFFICES ASSUME Init PROVE SessionInv /\ Books
  OBVIOUS
<1> USE DEF Init
<1>1. Types
  BY DEF Types, PassType, Phases, NoManifest, Idle, Mode, Outcome, Attempt
<1>2. RunIsNamed /\ WorkIsDue
  BY DEF RunIsNamed, WorkIsDue, Named, NoManifest, Idle
<1>3. PlaceIsClean /\ AttemptsLink
  BY DEF PlaceIsClean, AttemptsLink, Idle
<1>4. OwnDeliverables /\ RetriesWait /\ TerminalIsConfirmed
  BY DEF OwnDeliverables, RetriesWait, TerminalIsConfirmed
<1>5. ExitIsEarned
  BY DEF ExitIsEarned, ExitZeroIsScorable, Busy, Idle
<1>6. Forgotten = {} /\ Unrecorded = {}
  BY DEF Forgotten, Unrecorded
<1>7. Books
  BY <1>6, FS_EmptySet DEF Books, LossPerKill
<1> QED BY <1>1, <1>2, <1>3, <1>4, <1>5, <1>7 DEF SessionInv

(* The credential a pass runs under is one of the two, and the one that    *)
(* run.json names when it names one. *)
LEMMA CredentialIsOne ==
  ASSUME Types, NEW flag \in Flag
  PROVE  Credential(flag) \in Mode /\ (Named => Credential(flag) = manifest.auth)
<1>1. flag = {} \/ \E mode \in Mode : flag = {mode}
  BY DEF Flag
<1>2. "api" \in Mode /\ manifest.auth \in Mode
  BY DEF Types, Mode
<1> QED BY <1>1, <1>2 DEF Credential, Named

(* A pass that begins. *)
LEMMA StartTypes ==
  ASSUME Types, NEW kind \in {"new", "resume", "retry"}, NEW mode \in Mode, NEW windowed \in BOOLEAN,
         NEW todo \in SUBSET DOMAIN Order, NEW first \in Phases,
         Start(kind, mode, windowed, todo, first), reset' \in Nat
  PROVE  Types'
<1>1. /\ UNCHANGED <<manifest, attempts, selected, children, alive, out, payload, clock, orphans, charged, kills>>
      /\ passes' = passes + 1 /\ exit' = 2
  BY DEF Start
<1>2. pass' = [phase |-> first, kind |-> kind, mode |-> mode, windowed |-> windowed,
               todo |-> todo, child |-> 0, outcome |-> "failed"]
  BY DEF Start, Idle
<1>3. pass' \in PassType
  BY <1>2 DEF Outcome, PassType
<1>4. passes' \in Nat /\ exit' \in 0..2
  BY <1>1 DEF Types
<1> QED BY <1>1, <1>3, <1>4, Zenon DEF Types

(* The operator starts a pass, or is refused. *)
LEMMA OperatorTypes == ASSUME Types, Operator PROVE Types'
<1>1. CASE StartNew
  <2>1. PICK mode \in Mode, windowed \in Windowed : Start("new", mode, windowed, DOMAIN Order, "manifest")
    BY <1>1 DEF StartNew
  <2>2. windowed \in BOOLEAN /\ reset' \in Nat
    BY <1>1, BoundAssumption DEF StartNew, Types
  <2> QED BY <2>1, <2>2, StartTypes DEF Phases
<1>2. ASSUME NEW kind \in {"resume", "retry"}, NEW flag \in Flag, NEW todo \in SUBSET DOMAIN Order,
             Again(kind, flag, todo), reset' \in Nat
      PROVE  Types'
  <2> DEFINE first == IF manifest.state = "none" THEN "manifest" ELSE "archive"
  <2>1. Start(kind, Credential(flag), manifest.windowed, todo, first)
    BY <1>2 DEF Again
  <2>2. first \in Phases /\ manifest.windowed \in BOOLEAN
    BY DEF Phases, Types
  <2> QED BY <1>2, <2>1, <2>2, CredentialIsOne, StartTypes
<1>3. CASE Resume
  <2>1. PICK flag \in Flag : Again("resume", flag, Due(Pending)) /\ UNCHANGED reset
    BY <1>3 DEF Resume
  <2>2. Due(Pending) \in SUBSET DOMAIN Order
    BY DEF Due
  <2> QED BY <2>1, <2>2, <1>2 DEF Types
<1>4. CASE Retry
  <2>1. PICK flag \in Flag, confirmed \in {0, clock} :
          Again("retry", flag, Due(Retryable)) /\ reset' = IF confirmed = 0 THEN reset ELSE confirmed
    BY <1>4 DEF Retry
  <2>2. Due(Retryable) \in SUBSET DOMAIN Order /\ reset' \in Nat
    BY <2>1 DEF Due, Types
  <2> QED BY <2>1, <2>2, <1>2
<1>5. CASE Refuse
  BY <1>5 DEF Refuse, Types
<1> QED BY <1>1, <1>3, <1>4, <1>5 DEF Operator

(* The types once more, in the small pieces the proofs cite. *)
LEMMA TypeFacts ==
  ASSUME Types
  PROVE  /\ pass \in PassType
         /\ pass.phase \in Phases /\ pass.mode \in Mode /\ pass.windowed \in BOOLEAN
         /\ pass.todo \in SUBSET DOMAIN Order /\ pass.child \in Nat /\ pass.outcome \in Outcome
         /\ Len(children) \in Nat
         /\ \A p \in PR : attempts[p] \in Seq(Attempt) /\ Len(attempts[p]) \in Nat
         /\ selected \in [PR -> Nat] /\ payload \in [PR -> 0..Len(children)] /\ out \in 0..Len(children)
         /\ clock \in Nat /\ reset \in Nat
         /\ MayBeLimited \in Outcome /\ "failed" \in Outcome /\ "ok" \in Outcome
<1>1. pass \in PassType /\ children \in Seq(PR) /\ \A p \in PR : attempts[p] \in Seq(Attempt)
  BY DEF Types
<1>2. /\ pass.phase \in Phases /\ pass.mode \in Mode /\ pass.windowed \in BOOLEAN
      /\ pass.todo \in SUBSET DOMAIN Order /\ pass.child \in Nat /\ pass.outcome \in Outcome
  BY <1>1 DEF PassType
<1>3. Len(children) \in Nat /\ \A p \in PR : Len(attempts[p]) \in Nat
  BY <1>1
<1>4. MayBeLimited \in Outcome /\ "failed" \in Outcome /\ "ok" \in Outcome
  BY DEF Outcome, MayBeLimited
<1>5. /\ selected \in [PR -> Nat] /\ payload \in [PR -> 0..Len(children)] /\ out \in 0..Len(children)
      /\ clock \in Nat /\ reset \in Nat
  BY DEF Types
<1> QED BY <1>1, <1>2, <1>3, <1>4, <1>5

(* What is recorded of an attempt. *)
LEMMA WhatIsRecorded ==
  ASSUME Types, pass.phase \in {"collect", "record"}, pass.todo # {}, NEW c \in Collected, NEW gates \in BOOLEAN
  PROVE  /\ c.out \in 0..Len(children) /\ c.payload \in [PR -> 0..Len(children)]
         /\ c.payload = payload
              \/ (pass.phase = "collect" /\ out # 0 /\ c.payload = [payload EXCEPT ![Current] = out])
         /\ Recorded(c, gates) \in Attempt
<1>1. Current \in PR
  BY CurrentIsDue, TypeFacts
<1>2. Moved = payload \/ (out # 0 /\ Moved = [payload EXCEPT ![Current] = out])
  BY <1>1 DEF Moved, Types
<1>3. /\ c.payload = payload \/ (pass.phase = "collect" /\ c.payload = Moved)
      /\ c.out \in {0, out}
  <2>1. CASE pass.phase = "record"
    BY <2>1 DEF Collected
  <2>2. CASE pass.phase = "collect"
    BY <2>2 DEF Collected
  <2> QED BY <2>1, <2>2
<1>4. c.payload \in [PR -> 0..Len(children)]
  BY <1>1, <1>2, <1>3 DEF Types
<1>5. c.payload[Current] \in Nat /\ Prior \in Nat /\ pass.child \in Nat /\ clock \in Nat /\ reset \in Nat
  BY <1>1, <1>4, TypeFacts DEF Prior
<1>6. Recorded(c, gates) \in Attempt
  BY <1>5 DEF Recorded, Attempt
<1>7. c.out \in 0..Len(children)
  BY <1>3 DEF Types
<1> QED BY <1>2, <1>3, <1>4, <1>6, <1>7

(* No pass is a pass. *)
LEMMA IdleType == Idle \in PassType
<1>1. "idle" \in Phases /\ "new" \in {"new", "resume", "retry"} /\ "api" \in Mode /\ "failed" \in Outcome
  BY DEF Phases, Mode, Outcome
<1> QED BY <1>1 DEF Idle, PassType

(* A pass that moves on is a pass. *)
LEMMA PassMoves ==
  ASSUME Types, NEW f \in Phases, NEW c \in Nat, NEW o \in Outcome
  PROVE  /\ [pass EXCEPT !.phase = f, !.child = c, !.outcome = o] \in PassType
         /\ [pass EXCEPT !.phase = f, !.outcome = o] \in PassType
         /\ [pass EXCEPT !.phase = f, !.child = c] \in PassType
         /\ [pass EXCEPT !.phase = f] \in PassType
BY TypeFacts DEF PassType

(* A step of a pass keeps the types. *)
LEMMA StepTypes ==
  ASSUME Types, PassStep, pass.phase \in {"collect", "record", "mark"} => pass.todo # {}
  PROVE  Types'
<1> USE DEF Phases
<1>1. CASE WriteManifest
  <2>1. pass' \in PassType
    BY <1>1, TypeFacts DEF WriteManifest, PassType
  <2>2. manifest' \in [state : {"none", "torn", "stub", "full"}, auth : Mode, windowed : BOOLEAN]
    BY <1>1, TypeFacts DEF WriteManifest, Types
  <2> QED BY <1>1, <2>1, <2>2, Zenon DEF WriteManifest, Types
<1>2. CASE Archive
  <2>1. pass' \in PassType
    BY <1>2, PassMoves, IdleType, TypeFacts DEF Archive
  <2>2. payload' \in [PR -> 0..Len(children)]
    BY <1>2, TypeFacts DEF Archive, Archived
  <2> QED BY <1>2, <2>1, <2>2, Zenon DEF Archive, Types
<1>3. CASE SetupFails
  <2>1. pass' \in PassType
    <3>1. PICK o \in {"failed", MayBeLimited} : pass' = [pass EXCEPT !.phase = "record", !.child = 0, !.outcome = o]
      BY <1>3 DEF SetupFails
    <3> QED BY <3>1, PassMoves, TypeFacts
  <2> QED BY <1>3, <2>1, Zenon DEF SetupFails, Types
<1>4. CASE LaunchFails
  <2>1. pass' \in PassType
    <3>1. PICK o \in {"failed", MayBeLimited} : pass' = [pass EXCEPT !.phase = "collect", !.child = 0, !.outcome = o]
      BY <1>4 DEF LaunchFails
    <3> QED BY <3>1, PassMoves, TypeFacts
  <2>2. out' \in 0..Len(children)
    BY <1>4, TypeFacts DEF LaunchFails, Cleared
  <2> QED BY <1>4, <2>1, <2>2, Zenon DEF LaunchFails, Types
<1>5. CASE Launch
  <2>1. children' = Append(children, Current) /\ Current \in PR
    BY <1>5, CurrentIsDue, TypeFacts DEF Launch
  <2>2. children' \in Seq(PR) /\ Len(children') = Len(children) + 1 /\ Len(children) \in Nat
    BY <2>1 DEF Types
  <2>3. pass' \in PassType
    <3>1. pass' = [pass EXCEPT !.phase = "running", !.child = Len(children')] /\ Len(children') \in Nat
      BY <1>5, <2>2 DEF Launch
    <3> QED BY <3>1, PassMoves, TypeFacts
  <2>4. out' \in 0..Len(children') /\ alive' \subseteq 1..Len(children') /\ orphans' \subseteq 1..Len(children')
    <3>1. out' = 0 /\ alive' = alive \cup {Len(children')} /\ orphans' = orphans
      BY <1>5 DEF Launch, Cleared
    <3>2. alive \subseteq 1..Len(children) /\ orphans \subseteq 1..Len(children)
      BY DEF Types
    <3>3. out' \in 0..Len(children')
      BY <2>2, <3>1
    <3>4. alive' \subseteq 1..Len(children') /\ orphans' \subseteq 1..Len(children')
      <4>1. Len(children') \in 1..Len(children') /\ \A n \in 1..Len(children) : n \in 1..Len(children')
        BY <2>2
      <4> QED BY <3>1, <3>2, <4>1
    <3> QED BY <3>3, <3>4
  <2>5. payload' \in [PR -> 0..Len(children')]
    <3>1. payload' = payload /\ \A n \in 0..Len(children) : n \in 0..Len(children')
      BY <1>5, <2>2 DEF Launch
    <3> QED BY <3>1, TypeFacts
  <2>6. charged' \subseteq Mode
    BY <1>5, TypeFacts DEF Launch, Types
  <2> QED BY <1>5, <2>2, <2>3, <2>4, <2>5, <2>6, Zenon DEF Launch, Types
<1>6. CASE Watchdog
  <2>1. pass' \in PassType
    BY <1>6, TypeFacts DEF Watchdog, PassType
  <2> QED BY <1>6, <2>1, Zenon DEF Watchdog, Types
<1>7. CASE Record
  <2>1. PICK c \in Collected, gates \in BOOLEAN :
          /\ attempts' = [attempts EXCEPT ![Current] = Append(@, Recorded(c, gates))]
          /\ payload' = c.payload
          /\ out' = c.out
    BY <1>7 DEF Record
  <2>2. pass.phase \in {"collect", "record"} /\ Current \in PR
    BY <1>7, CurrentIsDue, TypeFacts DEF Record
  <2>3. out' \in 0..Len(children) /\ payload' \in [PR -> 0..Len(children)] /\ Recorded(c, gates) \in Attempt
    BY <1>7, <2>1, <2>2, WhatIsRecorded
  <2>4. attempts' \in [PR -> Seq(Attempt)]
        /\ \A p \in PR : Len(attempts[p]) \in Nat /\ Len(attempts[p]) <= Len(attempts'[p])
    <3> DEFINE a == Append(attempts[Current], Recorded(c, gates))
    <3>1. a \in Seq(Attempt) /\ Len(a) = Len(attempts[Current]) + 1
      BY <2>2, <2>3, TypeFacts
    <3>2. attempts \in [PR -> Seq(Attempt)] /\ attempts' = [attempts EXCEPT ![Current] = a]
      BY <2>1 DEF Types
    <3> HIDE DEF a
    <3>3. attempts' \in [PR -> Seq(Attempt)] /\ \A p \in PR : attempts'[p] = IF p = Current THEN a ELSE attempts[p]
      BY <2>2, <3>1, <3>2
    <3>4. ASSUME NEW p \in PR PROVE Len(attempts[p]) \in Nat /\ Len(attempts[p]) <= Len(attempts'[p])
      <4>1. CASE p = Current
        BY <3>1, <3>3, <4>1, TypeFacts
      <4>2. CASE p # Current
        BY <3>3, <4>2, TypeFacts
      <4> QED BY <4>1, <4>2
    <3> QED BY <3>3, <3>4
  <2>5. pass' \in PassType
    BY <1>7, TypeFacts DEF Record, Goto, PassType
  <2>7. clock' \in Nat \ {0}
    BY <1>7 DEF Record, Types
  <2>6. \A p \in PR : selected'[p] <= Len(attempts'[p])
    <3>1. selected' = selected /\ \A p \in PR : selected[p] \in Nat /\ selected[p] <= Len(attempts[p])
      BY <1>7 DEF Record, Types
    <3>2. \A p \in PR : Len(attempts'[p]) \in Nat
      BY <2>4
    <3> QED BY <2>4, <3>1, <3>2
  <2> QED BY <1>7, <2>3, <2>4, <2>5, <2>6, <2>7, Zenon DEF Record, Types
<1>8. CASE Mark
  <2>1. Current \in PR
    BY <1>8, CurrentIsDue, TypeFacts DEF Mark
  <2>2. selected' \in [PR -> Nat] /\ \A p \in PR : selected'[p] <= Len(attempts[p])
    <3>1. selected' = [selected EXCEPT ![Current] = Len(attempts[Current])]
      BY <1>8 DEF Mark, Newest
    <3>2. \A p \in PR : Len(attempts[p]) \in Nat /\ selected[p] <= Len(attempts[p])
      BY TypeFacts DEF Types
    <3> QED BY <2>1, <3>1, <3>2, TypeFacts
  <2>3. pass' \in PassType
    BY <1>8, TypeFacts DEF Mark, PassType
  <2> QED BY <1>8, <2>2, <2>3, Zenon DEF Mark, Types
<1>9. CASE Finish \/ Drift
  <2>1. exit' \in 0..2
    BY <1>9 DEF Finish, Drift, ExitCode
  <2>2. pass' \in PassType
    BY <1>9, IdleType DEF Finish, Drift
  <2> QED BY <1>9, <2>1, <2>2, Zenon DEF Finish, Drift, Types
<1> QED BY <1>1, <1>2, <1>3, <1>4, <1>5, <1>6, <1>7, <1>8, <1>9 DEF PassStep

(* So does what happens beside it: a kill, a child that ends or delivers. *)
LEMMA OutsideTypes ==
  ASSUME Types, Outside, pass.phase = "running" => pass.child \in 1..Len(children)
  PROVE  Types'
<1> USE DEF Phases
<1>1. CASE Kill
  <2>1. manifest' \in [state : {"none", "torn", "stub", "full"}, auth : Mode, windowed : BOOLEAN]
    BY <1>1 DEF Kill, Types
  <2>2. pass' \in PassType
    BY <1>1, IdleType DEF Kill
  <2>4. kills' \in Nat /\ exit' \in 0..2
    BY <1>1 DEF Kill, Types
  <2>3. orphans' \subseteq 1..Len(children)
    BY <1>1 DEF Kill, Types
  <2> QED BY <1>1, <2>1, <2>2, <2>3, <2>4, Zenon DEF Kill, Types
<1>2. CASE ChildExits
  <2>1. pass' \in PassType
    <3>1. PICK o \in {"ok", "failed", MayBeLimited} : pass' = [pass EXCEPT !.phase = "collect", !.outcome = o]
      BY <1>2 DEF ChildExits
    <3> QED BY <3>1, PassMoves, TypeFacts
  <2> QED BY <1>2, <2>1, Zenon DEF ChildExits, Types
<1>3. ASSUME NEW c \in 1..Len(children), ChildDelivers(c) PROVE Types'
  <2>1. out' \in 0..Len(children)
    BY <1>3, TypeFacts DEF ChildDelivers
  <2> QED BY <1>3, <2>1, Zenon DEF ChildDelivers, Types
<1>4. ASSUME NEW c \in 1..Len(children), OrphanExits(c) PROVE Types'
  BY <1>4, Zenon DEF OrphanExits, Types
<1> QED BY <1>1, <1>2, <1>3, <1>4 DEF Outside
-----------------------------------------------------------------------------
(* What a pass begins with, and what its start leaves alone. *)
Begun(kind, todo) ==
  /\ pass.phase = "idle"
  /\ UNCHANGED <<manifest, attempts, selected, children, alive, out, payload, clock, kills, charged, orphans>>
  /\ passes' = passes + 1 /\ exit' = 2
  /\ pass'.kind = kind /\ pass'.todo = todo /\ pass'.child = 0

(* Whatever starts a pass. *)
LEMMA Begins ==
  ASSUME NEW kind, NEW mode, NEW windowed, NEW todo, NEW first,
         Start(kind, mode, windowed, todo, first)
  PROVE  Begun(kind, todo) /\ pass'.phase = first /\ pass'.mode = mode
BY DEF Start, Begun, Idle, Busy

(* A new run takes every pull request, before it has a manifest. *)
LEMMA NewBegins ==
  ASSUME StartNew
  PROVE  /\ Begun("new", DOMAIN Order) /\ pass'.phase = "manifest"
         /\ passes = 0 /\ UNCHANGED reset
<1>1. PICK mode \in Mode, windowed \in Windowed : Start("new", mode, windowed, DOMAIN Order, "manifest")
  BY DEF StartNew
<1> QED BY <1>1, Begins DEF StartNew

(* A later pass keeps the credential of a manifest that names one. *)
LEMMA AgainBegins ==
  ASSUME Types, NEW kind, NEW flag \in Flag, NEW todo, Again(kind, flag, todo)
  PROVE  /\ Begun(kind, todo) /\ passes > 0 /\ manifest.state # "torn"
         /\ manifest.state = "none" => pass'.phase = "manifest"
         /\ manifest.state # "none" => pass'.phase = "archive"
         /\ Named => pass'.mode = manifest.auth
<1>1. Start(kind, Credential(flag), manifest.windowed, todo,
            IF manifest.state = "none" THEN "manifest" ELSE "archive")
      /\ passes > 0 /\ manifest.state # "torn"
  BY DEF Again
<1> QED BY <1>1, Begins, CredentialIsOne

(* A resume takes what is pending. *)
LEMMA ResumeBegins ==
  ASSUME Types, Resume
  PROVE  /\ Begun("resume", Due(Pending)) /\ passes > 0 /\ manifest.state # "torn" /\ UNCHANGED reset
         /\ manifest.state = "none" => pass'.phase = "manifest"
         /\ manifest.state # "none" => pass'.phase = "archive"
         /\ Named => pass'.mode = manifest.auth
<1>1. PICK flag \in Flag : Again("resume", flag, Due(Pending)) /\ UNCHANGED reset
  BY DEF Resume
<1> QED BY <1>1, AgainBegins

(* A retry takes what failed, each limited failure with a reset after it. *)
LEMMA RetryBegins ==
  ASSUME Types, Retry
  PROVE  /\ Begun("retry", Due(Retryable)) /\ passes > 0 /\ manifest.state # "torn"
         /\ manifest.state = "none" => pass'.phase = "manifest"
         /\ manifest.state # "none" => pass'.phase = "archive"
         /\ Named => pass'.mode = manifest.auth
         /\ \A p \in PR : Retryable(p) /\ Selected(p).limited /\ Selected(p).done \in Nat => reset' > Selected(p).done
<1>1. PICK flag \in Flag, confirmed \in {0, clock} :
        /\ \A p \in PR : Retryable(p) => CheckRetry(Selected(p), confirmed)
        /\ Again("retry", flag, Due(Retryable))
        /\ reset' = IF confirmed = 0 THEN reset ELSE confirmed
  BY DEF Retry
<1>2. ASSUME NEW p \in PR, Retryable(p), Selected(p).limited, Selected(p).done \in Nat
      PROVE  reset' > Selected(p).done
  <2>1. confirmed > Selected(p).done
    BY <1>1, <1>2 DEF CheckRetry
  <2>2. confirmed # 0
    BY <1>2, <2>1
  <2> QED BY <1>1, <2>1, <2>2
<1> QED BY <1>1, <1>2, AgainBegins

(* Only what records or selects an attempt touches attempts and index. *)
Records == Record \/ Mark

(* Every other step leaves both alone. *)
LEMMA OnlyRecords ==
  ASSUME Types, [Next]_vars
  PROVE  Records \/ UNCHANGED <<attempts, selected>>
<1>1. CASE Operator
  BY <1>1, NewBegins, ResumeBegins, RetryBegins DEF Operator, Refuse, Begun
<1>2. CASE PassStep
  BY <1>2 DEF PassStep, Records, WriteManifest, Archive, SetupFails, LaunchFails, Launch, Watchdog,
             Finish, Drift
<1>3. CASE Outside
  BY <1>3 DEF Outside, Kill, ChildExits, ChildDelivers, OrphanExits
<1>4. CASE UNCHANGED vars
  BY <1>4 DEF vars
<1> QED BY <1>1, <1>2, <1>3, <1>4 DEF Next

(* Where a step of a pass goes next, with the same work to do. *)
Goes(phase, child) ==
  /\ pass'.phase = phase /\ pass'.child = child
  /\ pass'.kind = pass.kind /\ pass'.mode = pass.mode /\ pass'.todo = pass.todo

(* The place each step of a pass moves it to. *)
LEMMA WhereStepsGo ==
  ASSUME Types
  PROVE  /\ WriteManifest => Goes("archive", pass.child)
         /\ Archive => pass' = Idle \/ Goes("next", pass.child)
         /\ SetupFails => Goes("record", 0)
         /\ LaunchFails => Goes("collect", 0)
         /\ Launch => Goes("running", Len(children'))
         /\ Watchdog => Goes("collect", pass.child)
         /\ ChildExits => Goes("collect", pass.child)
         /\ Record => Goes("mark", pass.child)
<1> USE TypeFacts DEF PassType, Goes
<1>1. WriteManifest => Goes("archive", pass.child)
  BY DEF WriteManifest
<1>2. Archive => pass' = Idle \/ Goes("next", pass.child)
  BY DEF Archive
<1>3. SetupFails => Goes("record", 0)
  BY DEF SetupFails
<1>4. LaunchFails => Goes("collect", 0)
  BY DEF LaunchFails
<1>5. Launch => Goes("running", Len(children'))
  BY DEF Launch
<1>6. Watchdog => Goes("collect", pass.child)
  BY DEF Watchdog
<1>7. ChildExits => Goes("collect", pass.child)
  BY DEF ChildExits
<1>8. Record => Goes("mark", pass.child)
  BY DEF Record, Goto
<1> QED BY <1>1, <1>2, <1>3, <1>4, <1>5, <1>6, <1>7, <1>8

(* Selecting an attempt takes its pull request off the work. *)
LEMMA MarkGoes ==
  ASSUME Types, Mark
  PROVE  /\ pass'.phase = "next" /\ pass'.kind = pass.kind /\ pass'.mode = pass.mode
         /\ pass'.todo = pass.todo \ {Min(pass.todo)} /\ pass'.child = 0
BY TypeFacts DEF Mark, PassType

(* What no pass looks like. *)
LEMMA IdleFacts ==
  Idle.phase = "idle" /\ Idle.todo = {} /\ Idle.child = 0 /\ Idle.kind = "new" /\ Idle.mode = "api"
BY DEF Idle

(* What the index selects is an attempt. *)
LEMMA SelectedIsAttempt ==
  ASSUME Types, NEW p \in PR, selected[p] # 0
  PROVE  /\ selected[p] \in 1..Len(attempts[p]) /\ Selected(p) \in Attempt
         /\ Selected(p).done \in Nat /\ Selected(p).prior \in Nat
<1>1. selected[p] \in Nat /\ selected[p] <= Len(attempts[p]) /\ attempts[p] \in Seq(Attempt)
  BY DEF Types
<1>2. selected[p] \in 1..Len(attempts[p])
  BY <1>1
<1>3. Selected(p) \in Attempt
  BY <1>1, <1>2 DEF Selected
<1> QED BY <1>2, <1>3 DEF Attempt

(* What was recorded of a pull request stays where it is. *)
LEMMA AttemptsGrow ==
  ASSUME Types, Record, pass.todo # {}
  PROVE  \E c \in Collected, gates \in BOOLEAN :
           /\ attempts' = [attempts EXCEPT ![Current] = Append(attempts[Current], Recorded(c, gates))]
           /\ payload' = c.payload /\ out' = c.out
           /\ Current \in PR /\ Recorded(c, gates) \in Attempt
           /\ Len(attempts'[Current]) = Len(attempts[Current]) + 1
           /\ attempts'[Current][Len(attempts[Current]) + 1] = Recorded(c, gates)
           /\ \A p \in PR : \A i \in 1..Len(attempts[p]) : attempts'[p][i] = attempts[p][i]
           /\ \A p \in PR : p # Current => attempts'[p] = attempts[p]
<1>1. PICK c \in Collected, gates \in BOOLEAN :
        /\ attempts' = [attempts EXCEPT ![Current] = Append(@, Recorded(c, gates))]
        /\ payload' = c.payload /\ out' = c.out
  BY DEF Record
<1>2. pass.phase \in {"collect", "record"} /\ Current \in PR
  BY CurrentIsDue, TypeFacts DEF Record
<1>3. Recorded(c, gates) \in Attempt
  BY <1>2, WhatIsRecorded
<1>4. attempts \in [PR -> Seq(Attempt)]
  BY DEF Types
<1>5. attempts'[Current] = Append(attempts[Current], Recorded(c, gates)) /\ attempts[Current] \in Seq(Attempt)
  BY <1>1, <1>2, <1>4
<1>6. /\ Len(attempts'[Current]) = Len(attempts[Current]) + 1
      /\ attempts'[Current][Len(attempts[Current]) + 1] = Recorded(c, gates)
      /\ \A i \in 1..Len(attempts[Current]) : attempts'[Current][i] = attempts[Current][i]
  BY <1>3, <1>5
<1>7. \A p \in PR : p # Current => attempts'[p] = attempts[p]
  BY <1>1, <1>4
<1> QED BY <1>1, <1>2, <1>3, <1>6, <1>7

(* Every step keeps the credential to what run.json names. *)
LEMMA NamedStep ==
  ASSUME Types, RunIsNamed, WorkIsDue, [Next]_vars, Types'
  PROVE  RunIsNamed'
<1> USE DEF RunIsNamed, Named
<1>1. CASE StartNew
  BY <1>1, NewBegins DEF Begun, Phases, Types
<1>2. CASE Resume \/ Retry
  <2>3. passes' # 0 /\ UNCHANGED <<manifest, attempts, charged>>
    <3>1. passes \in Nat
      BY DEF Types
    <3>2. \E kind, todo : Begun(kind, todo)
      BY <1>2, ResumeBegins, RetryBegins
    <3> QED BY <3>1, <3>2 DEF Begun
  <2>1. /\ UNCHANGED <<manifest, attempts, charged>> /\ passes' # 0
        /\ manifest.state # "torn"
        /\ manifest.state = "none" => pass'.phase = "manifest"
        /\ manifest.state # "none" => pass'.phase = "archive"
        /\ Named => pass'.mode = manifest.auth
    BY <1>2, <2>3, ResumeBegins, RetryBegins
  <2>2. manifest.state \in {"none", "torn", "stub", "full"}
    BY DEF Types
  <2> QED BY <2>1, <2>2
<1>3. CASE Refuse
  BY <1>3 DEF Refuse
<1>4. CASE WriteManifest
  BY <1>4, WhereStepsGo, IdleFacts DEF WriteManifest, Goes
<1>5. CASE Launch
  BY <1>5, WhereStepsGo, IdleFacts DEF Launch, Goes, Phases
<1>6. CASE Record
  BY <1>6, WhereStepsGo, IdleFacts DEF Record, Goes, Phases
<1>7. CASE Mark
  BY <1>7, MarkGoes, IdleFacts DEF Mark, Phases
<1>8. CASE Archive
  BY <1>8, WhereStepsGo, IdleFacts DEF Archive, Goes, Phases
<1>9. CASE Kill
  BY <1>9, IdleFacts DEF Kill, Busy, Types
<1>10. CASE SetupFails \/ LaunchFails \/ Watchdog \/ ChildExits
  BY <1>10, WhereStepsGo, IdleFacts DEF SetupFails, LaunchFails, Watchdog, ChildExits, Goes, Phases
<1>11. CASE Finish \/ Drift
  BY <1>11, IdleFacts DEF Finish, Drift
<1>12. CASE UNCHANGED <<manifest, attempts, pass, payload, charged, passes>>
  BY <1>12
<1>13. ASSUME NEW c \in 1..Len(children), ChildDelivers(c) \/ OrphanExits(c) PROVE RunIsNamed'
  BY <1>12, <1>13 DEF ChildDelivers, OrphanExits
<1> QED BY <1>1, <1>2, <1>3, <1>4, <1>5, <1>6, <1>7, <1>8, <1>9, <1>10, <1>11, <1>12, <1>13
        DEF Next, Operator, PassStep, Outside, vars

(* Every step keeps the work of a pass due. *)
LEMMA WorkStep ==
  ASSUME Types, RunIsNamed, WorkIsDue, [Next]_vars, Types'
  PROVE  WorkIsDue'
<1> USE DEF WorkIsDue, Pending, Retryable, Selected
<1>1. CASE StartNew
  <2>1. \A p \in PR : selected[p] = 0
    <3>1. manifest.state = "none" /\ \A p \in PR : attempts[p] = <<>>
      BY <1>1, NewBegins DEF RunIsNamed, Named
    <3> QED BY <3>1 DEF Types
  <2> QED BY <1>1, <2>1, NewBegins, Places DEF Begun
<1>2. CASE Resume
  BY <1>2, ResumeBegins DEF Begun, Due
<1>3. CASE Retry
  <2>1. \A p \in PR : selected[p] # 0 => attempts[p][selected[p]].done \in Nat
    BY SelectedIsAttempt
  <2> QED BY <1>3, <2>1, RetryBegins, Places DEF Begun, Due
<1>4. CASE Record
  <2>1. pass.todo # {} /\ Goes("mark", pass.child) /\ UNCHANGED <<selected, reset>>
    BY <1>4, WhereStepsGo DEF Record
  <2>2. \A p \in PR : selected[p] # 0 => attempts'[p][selected[p]] = attempts[p][selected[p]]
    BY <1>4, <2>1, AttemptsGrow, SelectedIsAttempt
  <2>3. \A i \in pass.todo : Order[i] \in PR
    BY Places, TypeFacts
  <2> QED BY <2>1, <2>2, <2>3 DEF Goes
<1>5. CASE Mark
  <2>1. /\ pass.todo # {}
        /\ pass'.todo = pass.todo \ {Min(pass.todo)} /\ pass'.phase = "next" /\ pass'.kind = pass.kind
    BY <1>5, MarkGoes DEF Mark
  <2>4. \A i \in pass'.todo : Order[i] # Current /\ Order[i] \in PR
    <3>1. pass.todo \subseteq DOMAIN Order
      BY TypeFacts
    <3> QED BY <2>1, <3>1, CurrentIsDue, Places
  <2>2. \A p \in PR : p # Current => selected'[p] = selected[p]
    BY <1>5, TypeFacts DEF Mark
  <2>3. UNCHANGED <<attempts, reset>>
    BY <1>5 DEF Mark
  <2> QED BY <2>1, <2>2, <2>3, <2>4
<1>6. CASE pass' = Idle
  BY <1>6, IdleFacts
<1>7. ASSUME NEW phase, NEW child, Goes(phase, child), UNCHANGED <<attempts, selected, reset>>,
             phase \in {"running", "collect", "record", "mark"} => pass.todo # {}
      PROVE  WorkIsDue'
  BY <1>7 DEF Goes
<1>8. CASE Launch \/ LaunchFails \/ SetupFails
  BY <1>7, <1>8, WhereStepsGo DEF Launch, LaunchFails, SetupFails
<1>9. CASE Watchdog \/ ChildExits
  BY <1>7, <1>9, WhereStepsGo DEF Watchdog, ChildExits
<1>10. CASE WriteManifest \/ Archive
  BY <1>6, <1>7, <1>10, WhereStepsGo DEF WriteManifest, Archive
<1>11. CASE Finish \/ Drift \/ Kill
  BY <1>6, <1>11 DEF Finish, Drift, Kill
<1>12. CASE UNCHANGED <<pass, attempts, selected, reset>>
  BY <1>12
<1>13. CASE Refuse \/ \E c \in 1..Len(children) : ChildDelivers(c) \/ OrphanExits(c)
  BY <1>12, <1>13 DEF Refuse, ChildDelivers, OrphanExits
<1> QED BY <1>1, <1>2, <1>3, <1>4, <1>5, <1>8, <1>9, <1>10, <1>11, <1>12, <1>13
        DEF Next, Operator, PassStep, Outside, vars

(* Every step keeps payloads where they belong. *)
LEMMA PlaceStep ==
  ASSUME Types, RunIsNamed, WorkIsDue, PlaceIsClean, [Next]_vars, Types'
  PROVE  PlaceIsClean'
<1> USE DEF PlaceIsClean
<1>0. \A i \in pass.todo : Order[i] \in PR
  BY Places, TypeFacts
<1>1. CASE StartNew
  <2>1. \A p \in PR : payload[p] = 0
    BY <1>1, NewBegins DEF RunIsNamed
  <2> QED BY <1>1, <2>1, NewBegins, Places DEF Begun
<1>2. CASE Resume
  BY <1>2, ResumeBegins DEF Begun
<1>3. CASE Retry
  BY <1>3, RetryBegins DEF Begun
<1>4. CASE WriteManifest
  BY <1>4, WhereStepsGo DEF WriteManifest, Goes
<1>5. CASE Archive
  <2>1. pass.phase = "archive" /\ UNCHANGED <<alive, orphans, out, children>>
    BY <1>5 DEF Archive
  <2>2. CASE pass' = Idle
    BY <2>1, <2>2, IdleFacts
  <2>3. CASE Goes("next", pass.child)
    <3>1. PICK n \in 0..Len(Order) :
            /\ payload' = [p \in PR |-> IF pass.kind # "new" /\ \E i \in pass.todo : i <= n /\ Order[i] = p
                                        THEN Archived(p) ELSE payload[p]]
            /\ pass' = IF \A i \in pass.todo : i <= n THEN [pass EXCEPT !.phase = "next"] ELSE Idle
      BY <1>5 DEF Archive
    <3>2. \A i \in pass.todo : i <= n
      BY <2>3, <3>1, IdleFacts DEF Goes
    <3>3. \A i \in pass.todo : payload'[Order[i]] = 0
      BY <1>0, <2>1, <3>1, <3>2 DEF Archived
    <3> QED BY <2>1, <2>3, <3>3 DEF Goes
  <2> QED BY <1>5, <2>2, <2>3, WhereStepsGo
<1>6. CASE SetupFails
  BY <1>6, WhereStepsGo DEF SetupFails, Goes
<1>7. CASE LaunchFails
  BY <1>7, WhereStepsGo DEF LaunchFails, Goes, Cleared
<1>8. CASE Launch
  <2>1. /\ pass.phase = "next" /\ Goes("running", Len(children')) /\ out' = 0
        /\ alive' = alive \cup {Len(children')} /\ UNCHANGED <<orphans, payload>>
    BY <1>8, WhereStepsGo DEF Launch, Cleared
  <2>2. Len(children') \in 1..Len(children')
    <3>1. Current \in PR /\ children' = Append(children, Current) /\ children \in Seq(PR)
      BY <1>8, CurrentIsDue, TypeFacts DEF Launch, Types
    <3> QED BY <3>1
  <2> QED BY <2>1, <2>2 DEF Goes
<1>9. CASE Watchdog \/ ChildExits
  BY <1>9, WhereStepsGo DEF Watchdog, ChildExits, Goes
<1>10. CASE Record
  <2>1. /\ pass.phase \in {"collect", "record"} /\ pass.todo # {} /\ Goes("mark", pass.child)
        /\ UNCHANGED <<alive, orphans>>
    BY <1>10, WhereStepsGo DEF Record, WorkIsDue
  <2>2. \A p \in PR : p # Current => payload'[p] = payload[p]
    <3>1. PICK c \in Collected, gates \in BOOLEAN : payload' = c.payload
      BY <1>10 DEF Record
    <3> QED BY <2>1, <3>1, WhatIsRecorded, TypeFacts
  <2>3. \A i \in pass.todo : i # Min(pass.todo) => Order[i] # Current
    BY <2>1, CurrentIsDue, TypeFacts
  <2> QED BY <1>0, <2>1, <2>2, <2>3 DEF Goes
<1>11. CASE Mark
  BY <1>11, MarkGoes DEF Mark
<1>12. CASE Kill
  <2>1. alive' \subseteq orphans' /\ pass' = Idle
    BY <1>12 DEF Kill
  <2> QED BY <2>1, IdleFacts
<1>13. CASE Finish \/ Drift
  BY <1>13, IdleFacts DEF Finish, Drift
<1>14. ASSUME NEW c \in 1..Len(children), ChildDelivers(c) PROVE PlaceIsClean'
  BY <1>14 DEF ChildDelivers
<1>15. ASSUME NEW c \in 1..Len(children), OrphanExits(c) PROVE PlaceIsClean'
  BY <1>15 DEF OrphanExits
<1>16. CASE Refuse \/ UNCHANGED vars
  BY <1>16 DEF Refuse, vars
<1> QED BY <1>1, <1>2, <1>3, <1>4, <1>5, <1>6, <1>7, <1>8, <1>9, <1>10, <1>11, <1>12, <1>13, <1>14,
           <1>15, <1>16 DEF Next, Operator, PassStep, Outside

(* A step that records and selects nothing does not enter the place before *)
(* a selection, and one that is there stays. *)
LEMMA Quiet ==
  ASSUME Types, [Next]_vars, ~Records
  PROVE  /\ UNCHANGED <<attempts, selected>>
         /\ pass'.phase = "mark" => UNCHANGED pass
<1>1. UNCHANGED <<attempts, selected>>
  BY OnlyRecords
<1>2. ASSUME pass'.phase = "mark", ~UNCHANGED pass PROVE FALSE
  <2>1. ~StartNew
    BY <1>2, NewBegins
  <2>2. ~Resume /\ ~Retry
    BY <1>2, ResumeBegins, RetryBegins, Zenon DEF Types
  <2>3. ~Refuse
    BY <1>2 DEF Refuse
  <2>4. ~PassStep
    BY <1>2, WhereStepsGo, IdleFacts DEF PassStep, Records, Goes, Finish, Drift
  <2>5. ~Kill /\ ~ChildExits
    BY <1>2, WhereStepsGo, IdleFacts DEF Kill, Goes
  <2>6. \A c \in 1..Len(children) : ~ChildDelivers(c) /\ ~OrphanExits(c)
    BY <1>2 DEF ChildDelivers, OrphanExits
  <2> QED BY <1>2, <2>1, <2>2, <2>3, <2>4, <2>5, <2>6 DEF Next, Operator, Outside, vars
<1> QED BY <1>1, <1>2

(* Every step keeps the attempts linked. *)
LEMMA LinkStep ==
  ASSUME Types, WorkIsDue, AttemptsLink, [Next]_vars
  PROVE  AttemptsLink'
<1> USE DEF AttemptsLink
<1>1. CASE ~Records
  BY <1>1, Quiet DEF Current
<1>2. CASE Mark
  BY <1>2, MarkGoes DEF Mark
<1>3. CASE Record
  <2>1. pass.todo # {} /\ Goes("mark", pass.child) /\ selected' = selected
    BY <1>3, WhereStepsGo DEF Record, WorkIsDue
  <2>2. PICK c \in Collected, gates \in BOOLEAN :
           /\ Current \in PR /\ Recorded(c, gates) \in Attempt
           /\ Len(attempts'[Current]) = Len(attempts[Current]) + 1
           /\ attempts'[Current][Len(attempts[Current]) + 1] = Recorded(c, gates)
           /\ \A p \in PR : \A i \in 1..Len(attempts[p]) : attempts'[p][i] = attempts[p][i]
           /\ \A p \in PR : p # Current => attempts'[p] = attempts[p]
    BY <1>3, <2>1, AttemptsGrow
  <2>3. /\ Recorded(c, gates).prior = selected[Current]
        /\ Recorded(c, gates).child = pass.child
        /\ Recorded(c, gates).state = "valid" => Recorded(c, gates).payload # 0
    BY DEF Recorded, Prior, Valid
  <2>4. Current' = Current
    BY <2>1 DEF Goes, Current
  <2>5. selected[Current] \in 0..Len(attempts[Current]) /\ Len(attempts[Current]) \in Nat
    BY <2>2, TypeFacts DEF Types
  <2>6. ASSUME NEW p \in PR, NEW j \in 1..Len(attempts'[p])
        PROVE  /\ attempts'[p][j].prior \in 0..(j - 1)
               /\ attempts'[p][j].state = "valid" => attempts'[p][j].payload # 0
    <3>1. CASE p # Current \/ j \in 1..Len(attempts[p])
      BY <2>2, <3>1
    <3>2. CASE p = Current /\ j = Len(attempts[p]) + 1
      BY <2>2, <2>3, <2>5, <3>2
    <3> QED BY <2>2, <2>5, <3>1, <3>2
  <2> QED BY <2>1, <2>2, <2>3, <2>4, <2>5, <2>6 DEF Goes
<1> QED BY <1>1, <1>2, <1>3 DEF Records

(* Who outlived its pass stays known. *)
LEMMA OrphansStay == ASSUME [Next]_vars PROVE orphans \subseteq orphans'
<1>1. CASE Operator
  BY <1>1, NewBegins DEF Operator, StartNew, Resume, Retry, Again, Start, Refuse
<1>2. CASE PassStep
  BY <1>2 DEF PassStep, WriteManifest, Archive, SetupFails, LaunchFails, Launch, Watchdog, Record, Mark,
             Finish, Drift
<1>3. CASE Outside
  BY <1>3 DEF Outside, Kill, ChildExits, ChildDelivers, OrphanExits
<1> QED BY <1>1, <1>2, <1>3 DEF Next, vars

(* The manifest is written once, before anything is recorded. *)
LEMMA ManifestStays ==
  ASSUME Types, RunIsNamed, [Next]_vars
  PROVE  manifest' = manifest \/ manifest.state = "none"
<1>1. CASE Operator
  BY <1>1 DEF Operator, StartNew, Resume, Retry, Again, Start, Refuse
<1>2. CASE PassStep
  BY <1>2 DEF PassStep, WriteManifest, Archive, SetupFails, LaunchFails, Launch, Watchdog, Record, Mark,
             Finish, Drift, RunIsNamed
<1>3. CASE Outside
  BY <1>3 DEF Outside, Kill, ChildExits, ChildDelivers, OrphanExits, RunIsNamed
<1> QED BY <1>1, <1>2, <1>3 DEF Next, vars

(* A recorded attempt, and what it says of the one it retries. *)
LEMMA RecordSaysTrue ==
  ASSUME Types, WorkIsDue, PlaceIsClean, AttemptsLink, pass.phase \in {"collect", "record"},
         NEW c \in Collected, NEW gates \in BOOLEAN
  PROVE  LET r == Recorded(c, gates)
         IN /\ r.payload \in {0, r.child} \cup orphans
            /\ r.prior = selected[Current] /\ r.prior \in 0..Len(attempts[Current])
            /\ r.prior # 0 /\ attempts[Current][r.prior].limited =>
                 r.reset > attempts[Current][r.prior].done
            /\ r.state = "operational_failure" =>
                 /\ manifest.windowed /\ r.prior # 0
                 /\ attempts[Current][r.prior].state = "invalid"
<1> DEFINE r == Recorded(c, gates)
<1>0. /\ pass.todo # {} /\ Min(pass.todo) \in pass.todo /\ Current = Order[Min(pass.todo)]
      /\ Current \in PR
  BY CurrentIsDue, TypeFacts DEF WorkIsDue
<1>1. /\ r.payload = c.payload[Current] /\ r.child = pass.child /\ r.prior = selected[Current]
      /\ r.reset = reset
      /\ r.state = "operational_failure" => Confirms(Current)
  BY DEF Recorded, Prior
<1>2. r.payload \in {0, r.child} \cup orphans
  <2>1. CASE c.payload = payload
    <3>1. payload[Current] = 0
      BY <1>0 DEF PlaceIsClean
    <3> QED BY <1>1, <2>1, <3>1
  <2>2. CASE pass.phase = "collect" /\ out # 0 /\ c.payload = [payload EXCEPT ![Current] = out]
    <3>1. c.payload[Current] = out
      BY <1>0, <2>2, TypeFacts
    <3>2. out \in {0, pass.child} \cup orphans
      BY <2>2 DEF PlaceIsClean
    <3> QED BY <1>1, <3>1, <3>2
  <2> QED BY <1>0, <2>1, <2>2, WhatIsRecorded
<1>3. r.prior \in 0..Len(attempts[Current])
  BY <1>0, <1>1, TypeFacts DEF Types
<1>4. ASSUME r.prior # 0, attempts[Current][r.prior].limited
      PROVE  r.reset > attempts[Current][r.prior].done
  BY <1>0, <1>1, <1>4 DEF WorkIsDue, Pending, Selected
<1>5. ASSUME r.state = "operational_failure"
      PROVE  /\ manifest.windowed /\ r.prior # 0
             /\ attempts[Current][r.prior].state = "invalid"
  BY <1>1, <1>5 DEF Confirms, CheckRetry, Selected
<1> QED BY <1>1, <1>2, <1>3, <1>4, <1>5

(* Every step keeps what attempts claim of their spend. *)
LEMMA SpendStep ==
  ASSUME Types, RunIsNamed, WorkIsDue, PlaceIsClean, AttemptsLink,
         OwnDeliverables, RetriesWait, TerminalIsConfirmed, [Next]_vars
  PROVE  OwnDeliverables' /\ RetriesWait' /\ TerminalIsConfirmed'
<1>1. CASE ~Record
  <2>1. UNCHANGED attempts /\ orphans \subseteq orphans'
    BY <1>1, OnlyRecords, OrphansStay DEF Records, Mark
  <2>2. OwnDeliverables' /\ RetriesWait'
    BY <2>1 DEF OwnDeliverables, RetriesWait
  <2>3. TerminalIsConfirmed'
    <3>1. CASE manifest' = manifest
      BY <2>1, <3>1 DEF TerminalIsConfirmed
    <3>2. CASE manifest.state = "none"
      <4>1. \A p \in PR : attempts'[p] = <<>>
        BY <2>1, <3>2 DEF RunIsNamed, Named
      <4> QED BY <4>1 DEF TerminalIsConfirmed
    <3> QED BY <3>1, <3>2, ManifestStays
  <2> QED BY <2>2, <2>3
<1>2. CASE Record
  <2>1. /\ pass.phase \in {"collect", "record"} /\ pass.todo # {}
        /\ UNCHANGED <<manifest, orphans>>
    BY <1>2 DEF Record, WorkIsDue
  <2>2. PICK c \in Collected, gates \in BOOLEAN :
           /\ Current \in PR
           /\ Len(attempts'[Current]) = Len(attempts[Current]) + 1
           /\ attempts'[Current][Len(attempts[Current]) + 1] = Recorded(c, gates)
           /\ \A p \in PR : \A i \in 1..Len(attempts[p]) : attempts'[p][i] = attempts[p][i]
           /\ \A p \in PR : p # Current => attempts'[p] = attempts[p]
    BY <1>2, <2>1, AttemptsGrow
  <2> DEFINE r == Recorded(c, gates)  n == Len(attempts[Current])
  <2>3. /\ r.payload \in {0, r.child} \cup orphans
        /\ r.prior \in 0..n
        /\ r.prior # 0 /\ attempts[Current][r.prior].limited =>
             r.reset > attempts[Current][r.prior].done
        /\ r.state = "operational_failure" =>
             /\ manifest.windowed /\ r.prior # 0
             /\ attempts[Current][r.prior].state = "invalid"
    BY <2>1, RecordSaysTrue
  <2>4. \A p \in PR : Len(attempts[p]) \in Nat
    BY TypeFacts
  <2> HIDE DEF r, n
  <2>5. n \in Nat /\ Len(attempts'[Current]) = n + 1 /\ attempts'[Current][n + 1] = r
    BY <2>2, <2>4 DEF r, n
  <2>6. ASSUME NEW p \in PR, NEW j \in 1..Len(attempts'[p])
        PROVE  /\ attempts'[p][j].payload \in {0, attempts'[p][j].child} \cup orphans
               /\ LET a == attempts'[p][j]
                  IN (a.prior # 0 /\ attempts'[p][a.prior].limited) => a.reset > attempts'[p][a.prior].done
               /\ attempts'[p][j].state = "operational_failure" =>
                    /\ manifest.windowed
                    /\ attempts'[p][j].prior \in 1..(j - 1)
                    /\ attempts'[p][attempts'[p][j].prior].state = "invalid"
    <3>1. CASE j \in 1..Len(attempts[p])
      <4>1. attempts'[p][j] = attempts[p][j] /\ attempts[p][j].prior \in 0..(j - 1)
        BY <2>2, <3>1 DEF AttemptsLink
      <4>2. attempts[p][j].prior # 0 =>
              attempts'[p][attempts[p][j].prior] = attempts[p][attempts[p][j].prior]
        <5>1. \A i \in 1..Len(attempts[p]) : attempts'[p][i] = attempts[p][i]
          BY <2>2
        <5>2. Len(attempts[p]) \in Nat /\ j \in 1..Len(attempts[p])
              /\ attempts[p][j].prior \in 0..(j - 1)
          BY <2>4, <3>1, <4>1
        <5>3. attempts[p][j].prior # 0 => attempts[p][j].prior \in 1..Len(attempts[p])
          BY <5>2
        <5> QED BY <5>1, <5>3
      <4> QED BY <3>1, <4>1, <4>2 DEF OwnDeliverables, RetriesWait, TerminalIsConfirmed
    <3>2. CASE p = Current /\ j = n + 1
      <4>1. r.prior # 0 => r.prior \in 1..n /\ attempts'[p][r.prior] = attempts[p][r.prior]
        BY <2>2, <2>3, <2>5, <3>2 DEF n
      <4> QED BY <2>3, <2>5, <3>2, <4>1
    <3> QED BY <2>2, <2>4, <2>5, <3>1, <3>2 DEF n
  <2> QED BY <2>1, <2>6 DEF OwnDeliverables, RetriesWait, TerminalIsConfirmed
<1> QED BY <1>1, <1>2

(* Exit 0 is given by the pass that ends with every pull request valid. *)
LEMMA ExitStep ==
  ASSUME Types, AttemptsLink, ExitIsEarned, [Next]_vars
  PROVE  ExitIsEarned'
<1> USE DEF ExitIsEarned, ExitZeroIsScorable
<1>1. CASE ~Records
  <2>0. UNCHANGED <<attempts, selected>>
    BY <1>1, Quiet
  <2>1. CASE exit' = 2
    BY <2>1
  <2>2. CASE Finish
    <3>1. exit' = ExitCode /\ pass' = Idle
      BY <2>2 DEF Finish
    <3>2. ASSUME exit' = 0, NEW p \in PR
          PROVE  selected[p] # 0 /\ Selected(p).state = "valid" /\ Selected(p).payload # 0
      <4>1. selected[p] # 0 /\ Selected(p).state = "valid"
        BY <3>1, <3>2 DEF ExitCode
      <4>2. selected[p] \in 1..Len(attempts[p])
        BY <4>1, SelectedIsAttempt
      <4> QED BY <4>1, <4>2 DEF AttemptsLink, Selected
    <3> QED BY <2>0, <3>1, <3>2, IdleFacts DEF Busy, Selected
  <2>3. CASE UNCHANGED <<exit, passes>> /\ (~Busy' => ~Busy) /\ (Busy' => Busy)
    BY <2>0, <2>3 DEF Selected
  <2>4. CASE Archive
    <3>1. Busy /\ UNCHANGED exit
      BY <2>4 DEF Archive, Busy
    <3> QED BY <3>1
  <2>5. CASE StartNew \/ Resume \/ Retry
    BY <2>1, <2>5, NewBegins, ResumeBegins, RetryBegins DEF Begun
  <2>6. CASE Refuse \/ Drift \/ Kill
    BY <2>1, <2>6 DEF Refuse, Drift, Kill
  <2>7. CASE WriteManifest \/ SetupFails \/ LaunchFails \/ Launch \/ Watchdog \/ ChildExits
    BY <2>3, <2>7, WhereStepsGo DEF WriteManifest, SetupFails, LaunchFails, Launch, Watchdog, ChildExits, Goes, Busy
  <2>8. ASSUME NEW c \in 1..Len(children), ChildDelivers(c) \/ OrphanExits(c) PROVE ExitIsEarned'
    BY <2>3, <2>8 DEF ChildDelivers, OrphanExits, Busy
  <2>9. CASE UNCHANGED vars
    BY <2>3, <2>9 DEF vars, Busy
  <2> QED BY <1>1, <2>2, <2>4, <2>5, <2>6, <2>7, <2>8, <2>9 DEF Next, Operator, PassStep, Outside, Records
<1>2. CASE Records
  <2>1. Busy /\ Busy' /\ UNCHANGED exit
    BY <1>2, WhereStepsGo, MarkGoes DEF Records, Record, Mark, Goes, Busy
  <2> QED BY <2>1
<1> QED BY <1>1, <1>2
-----------------------------------------------------------------------------
(* What is lost, and what a kill may add to it. *)
Lost(p, i) ==
  /\ i # selected[p]
  /\ \A j \in (i + 1)..Len(attempts[p]) : attempts[p][j].prior # i
  /\ ~(pass.phase = "mark" /\ p = Current /\ i = Len(attempts[p]))
Accounted(c) == c \in InFlight \/ \E p \in PR : \E i \in 1..Len(attempts[p]) : attempts[p][i].child = c

(* The two sets of losses, by their members. *)
LEMMA WhatIsLost ==
  /\ \A x \in Forgotten : \E p \in PR : \E i \in 1..Len(attempts[p]) : x = <<p, i>> /\ Lost(p, i)
  /\ \A p \in PR : \A i \in 1..Len(attempts[p]) : Lost(p, i) => <<p, i>> \in Forgotten
  /\ Unrecorded = {c \in 1..Len(children) : ~Accounted(c)}
<1>1. ASSUME NEW x \in Forgotten
      PROVE  \E p \in PR : \E i \in 1..Len(attempts[p]) : x = <<p, i>> /\ Lost(p, i)
  <2>1. PICK p \in PR : x \in {p} \X (1..Len(attempts[p]))
    BY <1>1 DEF Forgotten
  <2>2. x = <<p, x[2]>> /\ x[2] \in 1..Len(attempts[p]) /\ x[1] = p
    BY <2>1
  <2>3. Lost(p, x[2])
    BY <1>1, <2>2 DEF Forgotten, Lost
  <2> QED BY <2>2, <2>3
<1>2. ASSUME NEW p \in PR, NEW i \in 1..Len(attempts[p]), Lost(p, i) PROVE <<p, i>> \in Forgotten
  <2>1. <<p, i>> \in {p} \X (1..Len(attempts[p])) /\ <<p, i>>[1] = p /\ <<p, i>>[2] = i
    OBVIOUS
  <2> QED BY <1>2, <2>1 DEF Forgotten, Lost
<1>3. Unrecorded = {c \in 1..Len(children) : ~Accounted(c)}
  BY DEF Unrecorded, Accounted
<1> QED BY <1>1, <1>2, <1>3

(* The same after a step. *)
LEMMA WhatIsLostNext ==
  /\ \A x \in Forgotten' : \E p \in PR : \E i \in 1..Len(attempts'[p]) : x = <<p, i>> /\ Lost(p, i)'
  /\ Unrecorded' = {c \in 1..Len(children') : ~Accounted(c)'}
<1>1. ASSUME NEW x \in Forgotten'
      PROVE  \E p \in PR : \E i \in 1..Len(attempts'[p]) : x = <<p, i>> /\ Lost(p, i)'
  <2>1. PICK p \in PR : x \in {p} \X (1..Len(attempts'[p]))
    BY <1>1 DEF Forgotten
  <2>2. x = <<p, x[2]>> /\ x[2] \in 1..Len(attempts'[p]) /\ x[1] = p
    BY <2>1
  <2>3. Lost(p, x[2])'
    BY <1>1, <2>2 DEF Forgotten, Lost
  <2> QED BY <2>2, <2>3
<1>3. Unrecorded' = {c \in 1..Len(children') : ~Accounted(c)'}
  BY DEF Unrecorded, Accounted
<1> QED BY <1>1, <1>3

(* A part of a finite set is finite and no larger. *)
LEMMA PartIsSmaller ==
  ASSUME NEW A, NEW B, IsFiniteSet(A), B \subseteq A
  PROVE  IsFiniteSet(B) /\ Cardinality(A) \in Nat /\ Cardinality(B) \in Nat /\ Cardinality(B) <= Cardinality(A)
BY FS_Subset, FS_CardinalityType

(* One member more costs at most one. *)
LEMMA OneMore ==
  ASSUME NEW A, NEW B, NEW x, IsFiniteSet(A), B \subseteq A \cup {x}
  PROVE  IsFiniteSet(B) /\ Cardinality(A) \in Nat /\ Cardinality(B) \in Nat /\ Cardinality(B) <= Cardinality(A) + 1
<1>1. /\ IsFiniteSet(A \cup {x}) /\ Cardinality(A) \in Nat
      /\ Cardinality(A \cup {x}) = Cardinality(A) \/ Cardinality(A \cup {x}) = Cardinality(A) + 1
  BY FS_AddElement, FS_CardinalityType
<1> QED BY <1>1, PartIsSmaller

(* A child in flight stays so until its attempt is recorded and selected.  *)
LEMMA ChildStays ==
  ASSUME Types, PlaceIsClean, [Next]_vars, ~Records, ~Kill
  PROVE  /\ pass.phase = "mark" => UNCHANGED pass
         /\ Busy /\ pass.child # 0 => Busy' /\ pass'.child = pass.child
         /\ UNCHANGED kills
         /\ children' = children \/ (Len(children') = Len(children) + 1 /\ Busy' /\ pass'.child = Len(children'))
<1>1. CASE UNCHANGED pass /\ UNCHANGED <<children, kills>>
  BY <1>1 DEF Busy
<1>2. CASE StartNew \/ Resume \/ Retry
  BY <1>2, NewBegins, ResumeBegins, RetryBegins DEF Begun, Busy
<1>3. CASE Launch
  <2>1. children' = Append(children, Current) /\ Current \in PR /\ children \in Seq(PR)
    BY <1>3, CurrentIsDue, TypeFacts DEF Launch, Types
  <2>2. Len(children') = Len(children) + 1
    BY <2>1
  <2> QED BY <1>3, <2>2, WhereStepsGo DEF Launch, Goes, Busy, PlaceIsClean
<1>4. CASE Watchdog \/ ChildExits
  BY <1>4, WhereStepsGo DEF Watchdog, ChildExits, Goes, Busy
<1>5. CASE SetupFails \/ LaunchFails \/ Finish \/ Drift \/ Archive
  BY <1>5 DEF SetupFails, LaunchFails, Finish, Drift, Archive, PlaceIsClean
<1>6. CASE WriteManifest
  BY <1>6, WhereStepsGo DEF WriteManifest, Goes, PlaceIsClean
<1>7. ASSUME NEW c \in 1..Len(children), ChildDelivers(c) \/ OrphanExits(c)
      PROVE  UNCHANGED pass /\ UNCHANGED <<children, kills>>
  BY <1>7 DEF ChildDelivers, OrphanExits
<1>8. CASE Refuse \/ UNCHANGED vars
  BY <1>1, <1>8 DEF Refuse, vars
<1> QED BY <1>1, <1>2, <1>3, <1>4, <1>5, <1>6, <1>7, <1>8 DEF Next, Operator, PassStep, Outside, Records

(* Only a kill loses anything, and one loses at most one thing. *)
LEMMA BooksStep ==
  ASSUME Types, WorkIsDue, PlaceIsClean, AttemptsLink, Books, [Next]_vars, Types'
  PROVE  Books'
<1>0. /\ kills \in Nat /\ kills' \in Nat
      /\ \A p \in PR : Len(attempts[p]) \in Nat /\ Len(attempts'[p]) \in Nat
      /\ Len(children) \in Nat
  BY TypeFacts DEF Types
<1>7. ASSUME
        \/ Forgotten' \subseteq Forgotten /\ Unrecorded' \subseteq Unrecorded /\ kills' = kills
        \/ kills' = kills + 1 /\ \E x : Forgotten' \subseteq Forgotten \cup {x} /\ Unrecorded' \subseteq Unrecorded
        \/ kills' = kills + 1 /\ \E x : Forgotten' \subseteq Forgotten /\ Unrecorded' \subseteq Unrecorded \cup {x}
      PROVE  Books'
  <2> DEFINE F == Forgotten  U == Unrecorded  F2 == Forgotten'  U2 == Unrecorded'
  <2>1. IsFiniteSet(F) /\ IsFiniteSet(U) /\ Cardinality(F) + Cardinality(U) <= kills
    BY DEF Books, LossPerKill
  <2>2. \/ F2 \subseteq F /\ U2 \subseteq U /\ kills' = kills
        \/ kills' = kills + 1 /\ \E x : F2 \subseteq F \cup {x} /\ U2 \subseteq U
        \/ kills' = kills + 1 /\ \E x : F2 \subseteq F /\ U2 \subseteq U \cup {x}
    BY <1>7
  <2> HIDE DEF F, U, F2, U2
  <2>3. IsFiniteSet(F2) /\ IsFiniteSet(U2) /\ Cardinality(F2) + Cardinality(U2) <= kills'
    <3>1. CASE F2 \subseteq F /\ U2 \subseteq U /\ kills' = kills
      <4>1. IsFiniteSet(F2) /\ Cardinality(F) \in Nat /\ Cardinality(F2) \in Nat /\ Cardinality(F2) <= Cardinality(F)
        BY <2>1, <3>1, PartIsSmaller
      <4>2. IsFiniteSet(U2) /\ Cardinality(U) \in Nat /\ Cardinality(U2) \in Nat /\ Cardinality(U2) <= Cardinality(U)
        BY <2>1, <3>1, PartIsSmaller
      <4> QED BY <1>0, <2>1, <3>1, <4>1, <4>2
    <3>2. ASSUME kills' = kills + 1, NEW x, F2 \subseteq F \cup {x}, U2 \subseteq U
          PROVE  IsFiniteSet(F2) /\ IsFiniteSet(U2) /\ Cardinality(F2) + Cardinality(U2) <= kills'
      <4>1. IsFiniteSet(F2) /\ Cardinality(F) \in Nat /\ Cardinality(F2) \in Nat /\ Cardinality(F2) <= Cardinality(F) + 1
        BY <2>1, <3>2, OneMore
      <4>2. IsFiniteSet(U2) /\ Cardinality(U) \in Nat /\ Cardinality(U2) \in Nat /\ Cardinality(U2) <= Cardinality(U)
        BY <2>1, <3>2, PartIsSmaller
      <4> QED BY <1>0, <2>1, <3>2, <4>1, <4>2
    <3>3. ASSUME kills' = kills + 1, NEW x, F2 \subseteq F, U2 \subseteq U \cup {x}
          PROVE  IsFiniteSet(F2) /\ IsFiniteSet(U2) /\ Cardinality(F2) + Cardinality(U2) <= kills'
      <4>1. IsFiniteSet(F2) /\ Cardinality(F) \in Nat /\ Cardinality(F2) \in Nat /\ Cardinality(F2) <= Cardinality(F)
        BY <2>1, <3>3, PartIsSmaller
      <4>2. IsFiniteSet(U2) /\ Cardinality(U) \in Nat /\ Cardinality(U2) \in Nat /\ Cardinality(U2) <= Cardinality(U) + 1
        BY <2>1, <3>3, OneMore
      <4> QED BY <1>0, <2>1, <3>3, <4>1, <4>2
    <3> QED BY <2>2, <3>1, <3>2, <3>3
  <2> QED BY <2>3 DEF F2, U2, Books, LossPerKill
<1>1. ASSUME \A p \in PR : \A i \in 1..Len(attempts'[p]) : Lost(p, i)' => i \in 1..Len(attempts[p]) /\ Lost(p, i)
      PROVE  Forgotten' \subseteq Forgotten
  BY <1>1, WhatIsLost, WhatIsLostNext
<1>2. ASSUME \A c \in 1..Len(children') : ~Accounted(c)' => c \in 1..Len(children) /\ ~Accounted(c)
      PROVE  Unrecorded' \subseteq Unrecorded
  BY <1>2, WhatIsLost, WhatIsLostNext
<1>3. CASE ~Records /\ ~Kill
  <2>1. /\ UNCHANGED <<attempts, selected, kills>>
        /\ pass.phase = "mark" => UNCHANGED pass
        /\ Busy /\ pass.child # 0 => Busy' /\ pass'.child = pass.child
        /\ children' = children \/ (Len(children') = Len(children) + 1 /\ Busy' /\ pass'.child = Len(children'))
    BY <1>3, ChildStays, Quiet
  <2>2. Forgotten' \subseteq Forgotten
    BY <1>1, <2>1 DEF Lost, Current
  <2>3. ASSUME NEW c \in 1..Len(children'), ~Accounted(c)'
        PROVE  c \in 1..Len(children) /\ ~Accounted(c)
    <3>1. c \in 1..Len(children)
      <4>1. CASE children' = children
        BY <4>1
      <4>2. CASE Len(children') = Len(children) + 1 /\ Busy' /\ pass'.child = Len(children')
        <5>1. c # Len(children')
          BY <2>3, <4>2 DEF Accounted, InFlight
        <5> QED BY <1>0, <4>2, <5>1
      <4> QED BY <2>1, <4>1, <4>2
    <3>2. c \notin InFlight
      BY <2>1, <2>3, <3>1 DEF Accounted, InFlight
    <3> QED BY <2>1, <2>3, <3>1, <3>2 DEF Accounted
  <2> QED BY <1>2, <1>7, <2>1, <2>2, <2>3
<1>4. CASE Record
  <2>1. /\ pass.phase \in {"collect", "record"} /\ pass.todo # {} /\ Goes("mark", pass.child)
        /\ UNCHANGED <<selected, children, kills>>
    BY <1>4, WhereStepsGo DEF Record, WorkIsDue
  <2>2. /\ Current \in PR
        /\ Len(attempts'[Current]) = Len(attempts[Current]) + 1
        /\ \A p \in PR : \A i \in 1..Len(attempts[p]) : attempts'[p][i] = attempts[p][i]
        /\ \A p \in PR : p # Current => attempts'[p] = attempts[p]
    BY <1>4, <2>1, AttemptsGrow
  <2>3. Current' = Current
    BY <2>1 DEF Goes, Current
  <2>4. ASSUME NEW p \in PR, NEW i \in 1..Len(attempts'[p]), Lost(p, i)'
        PROVE  i \in 1..Len(attempts[p]) /\ Lost(p, i)
    <3>1. i \in 1..Len(attempts[p])
      <4>1. CASE p = Current
        <5>1. i # Len(attempts'[p])
          BY <2>1, <2>3, <2>4, <4>1 DEF Lost, Goes
        <5> QED BY <1>0, <2>2, <4>1, <5>1
      <4>2. CASE p # Current
        BY <2>2, <4>2
      <4> QED BY <4>1, <4>2
    <3>2. \A j \in (i + 1)..Len(attempts[p]) :
             j \in (i + 1)..Len(attempts'[p]) /\ attempts'[p][j] = attempts[p][j]
      <4>1. Len(attempts[p]) \in Nat /\ Len(attempts'[p]) \in Nat
        BY <1>0
      <4>2. Len(attempts[p]) <= Len(attempts'[p])
        <5>1. CASE p = Current
          BY <2>2, <4>1, <5>1
        <5>2. CASE p # Current
          BY <2>2, <4>1, <5>2
        <5> QED BY <5>1, <5>2
      <4>3. \A j \in 1..Len(attempts[p]) : attempts'[p][j] = attempts[p][j]
        BY <2>2
      <4>4. \A k, m, l \in Nat : k \in 1..m /\ m <= l =>
              \A j \in (k + 1)..m : j \in (k + 1)..l /\ j \in 1..m
        OBVIOUS
      <4>5. i \in Nat /\ \A j \in (i + 1)..Len(attempts[p]) :
              j \in (i + 1)..Len(attempts'[p]) /\ j \in 1..Len(attempts[p])
        BY <3>1, <4>1, <4>2, <4>4
      <4> QED BY <4>3, <4>5
    <3> QED BY <2>1, <2>4, <3>1, <3>2 DEF Lost
  <2>5. ASSUME NEW c \in 1..Len(children'), ~Accounted(c)'
        PROVE  c \in 1..Len(children) /\ ~Accounted(c)
    <3>1. InFlight' = InFlight
      BY <2>1 DEF InFlight, Busy, Goes
    <3>2. \A p \in PR : \A i \in 1..Len(attempts[p]) :
             i \in 1..Len(attempts'[p]) /\ attempts'[p][i].child = attempts[p][i].child
      BY <1>0, <2>2
    <3> QED BY <2>1, <2>5, <3>1, <3>2 DEF Accounted
  <2> QED BY <1>1, <1>2, <1>7, <2>1, <2>4, <2>5
<1>5. CASE Mark
  <2>1. /\ pass.phase = "mark" /\ pass.todo # {} /\ UNCHANGED <<attempts, children, kills>>
        /\ selected' = [selected EXCEPT ![Current] = Len(attempts[Current])]
        /\ pass'.phase = "next" /\ pass'.child = 0
    BY <1>5, MarkGoes DEF Mark, Newest, WorkIsDue
  <2>2. Current \in PR
    BY <2>1, CurrentIsDue, TypeFacts
  <2>3. LET a == attempts[Current]
        IN /\ selected[Current] < Len(a) /\ a[Len(a)].prior = selected[Current]
           /\ a[Len(a)].child = pass.child
    BY <2>1 DEF AttemptsLink
  <2>4. ASSUME NEW p \in PR, NEW i \in 1..Len(attempts'[p]), Lost(p, i)'
        PROVE  i \in 1..Len(attempts[p]) /\ Lost(p, i)
    <3>1. CASE p = Current
      <4>1. i # Len(attempts[p])
        BY <2>1, <2>2, <2>4, <3>1, TypeFacts DEF Lost
      <4>2. i # selected[p]
        <5>1. SUFFICES ASSUME i = selected[p] PROVE FALSE
          OBVIOUS
        <5>2. Len(attempts[p]) \in (i + 1)..Len(attempts[p])
          BY <1>0, <2>3, <3>1, <5>1
        <5> QED BY <2>1, <2>3, <2>4, <3>1, <5>1, <5>2 DEF Lost
      <4> QED BY <2>1, <2>4, <4>1, <4>2 DEF Lost
    <3>2. CASE p # Current
      <4>1. selected'[p] = selected[p]
        BY <2>1, <3>2, TypeFacts
      <4> QED BY <2>1, <2>4, <3>2, <4>1 DEF Lost
    <3> QED BY <3>1, <3>2
  <2>5. ASSUME NEW c \in 1..Len(children'), ~Accounted(c)'
        PROVE  c \in 1..Len(children) /\ ~Accounted(c)
    <3>1. Len(attempts[Current]) \in 1..Len(attempts[Current])
      BY <1>0, <2>2, <2>3, TypeFacts
    <3>2. c # pass.child
      BY <2>1, <2>2, <2>3, <2>5, <3>1 DEF Accounted
    <3> QED BY <2>1, <2>5, <3>2 DEF Accounted, InFlight
  <2> QED BY <1>1, <1>2, <1>7, <2>1, <2>4, <2>5
<1>6. CASE Kill
  <2>1. /\ Busy /\ kills' = kills + 1 /\ pass' = Idle /\ UNCHANGED <<attempts, selected, children>>
    BY <1>6 DEF Kill
  <2>2. CASE pass.phase # "mark"
    <3>1. Forgotten' \subseteq Forgotten
      BY <1>1, <2>1, <2>2 DEF Lost
    <3>2. Unrecorded' \subseteq Unrecorded \cup {pass.child}
      <4>1. \A c \in 1..Len(children') : ~Accounted(c)' /\ c # pass.child =>
               c \in 1..Len(children) /\ ~Accounted(c)
        BY <2>1 DEF Accounted, InFlight
      <4> QED BY <4>1, WhatIsLost, WhatIsLostNext
    <3> QED BY <1>7, <2>1, <3>1, <3>2
  <2>3. CASE pass.phase = "mark"
    <3>0. Current \in PR /\ Len(attempts[Current]) \in 1..Len(attempts[Current])
          /\ attempts[Current][Len(attempts[Current])].child = pass.child
      <4>1. Current \in PR
        BY <2>3, CurrentIsDue, TypeFacts DEF WorkIsDue
      <4> QED BY <1>0, <2>3, <4>1, TypeFacts DEF AttemptsLink
    <3>1. Forgotten' \subseteq Forgotten \cup {<<Current, Len(attempts[Current])>>}
      <4>1. \A p \in PR : \A i \in 1..Len(attempts'[p]) :
               Lost(p, i)' /\ ~(p = Current /\ i = Len(attempts[p])) =>
                  i \in 1..Len(attempts[p]) /\ Lost(p, i)
        BY <2>1 DEF Lost
      <4> QED BY <4>1, WhatIsLost, WhatIsLostNext
    <3>2. Unrecorded' \subseteq Unrecorded
      <4>1. \A c \in 1..Len(children') : ~Accounted(c)' => c \in 1..Len(children) /\ ~Accounted(c)
        BY <2>1, <3>0 DEF Accounted, InFlight
      <4> QED BY <1>2, <4>1
    <3> QED BY <1>7, <2>1, <3>1, <3>2
  <2> QED BY <2>2, <2>3
<1> QED BY <1>3, <1>4, <1>5, <1>6 DEF Records
-----------------------------------------------------------------------------
(* Every step of a run directory keeps its invariant. *)
LEMMA SessionStep ==
  ASSUME SessionInv, Books, [Next]_vars
  PROVE  SessionInv' /\ Books'
<1>1. Types /\ RunIsNamed /\ WorkIsDue /\ PlaceIsClean /\ AttemptsLink
      /\ OwnDeliverables /\ RetriesWait /\ TerminalIsConfirmed /\ ExitIsEarned
  BY DEF SessionInv
<1>2. Types'
  <2>1. pass.phase \in {"collect", "record", "mark"} => pass.todo # {}
    BY <1>1 DEF WorkIsDue
  <2>2. pass.phase = "running" => pass.child \in 1..Len(children)
    BY <1>1 DEF PlaceIsClean
  <2>3. CASE UNCHANGED vars
    BY <1>1, <2>3, Zenon DEF Types, vars
  <2> QED BY <1>1, <2>1, <2>2, <2>3, OperatorTypes, StepTypes, OutsideTypes DEF Next
<1>3. RunIsNamed' /\ WorkIsDue'
  BY <1>1, <1>2, NamedStep, WorkStep
<1>4. PlaceIsClean' /\ AttemptsLink'
  BY <1>1, <1>2, PlaceStep, LinkStep
<1>5. OwnDeliverables' /\ RetriesWait' /\ TerminalIsConfirmed'
  BY <1>1, SpendStep
<1>6. ExitIsEarned'
  BY <1>1, ExitStep
<1>7. Books'
  BY <1>1, <1>2, BooksStep
<1> QED BY <1>2, <1>3, <1>4, <1>5, <1>6, <1>7 DEF SessionInv

(* No pass is at a pull request whose outcome is final. *)
LEMMA FinalStays ==
  ASSUME Types, WorkIsDue, [Next]_vars, NEW p \in PR, Final(p)
  PROVE  selected'[p] = selected[p] /\ attempts'[p] = attempts[p]
<1>1. CASE UNCHANGED <<attempts, selected>>
  BY <1>1
<1>2. CASE Records
  <2>1. pass.todo # {}
    BY <1>2 DEF Records, Record, Mark, WorkIsDue
  <2>2. p # Current
    <3>1. Current = Order[Min(pass.todo)] /\ Min(pass.todo) \in pass.todo
      BY <2>1, CurrentIsDue, TypeFacts
    <3>2. Pending(Current) \/ Retryable(Current)
      BY <3>1 DEF WorkIsDue
    <3> QED BY <3>2 DEF Pending, Retryable, Final
  <2>3. CASE Record
    <3>1. selected' = selected
      BY <2>3 DEF Record
    <3> QED BY <2>1, <2>2, <2>3, <3>1, AttemptsGrow
  <2>4. CASE Mark
    <3>1. selected' = [selected EXCEPT ![Current] = Newest(Current)] /\ attempts' = attempts
      BY <2>4 DEF Mark
    <3> QED BY <2>2, <3>1, TypeFacts
  <2> QED BY <1>2, <2>3, <2>4 DEF Records
<1> QED BY <1>1, <1>2, OnlyRecords

(* When every pull request is final, the index no longer moves. *)
LEMMA FinalRun ==
  ASSUME Types, Types', WorkIsDue, [Next]_vars, \A p \in PR : Final(p)
  PROVE  selected' = selected /\ \A p \in PR : Final(p)'
<1>1. \A p \in PR : selected'[p] = selected[p] /\ attempts'[p] = attempts[p]
  BY FinalStays
<1>2. selected \in [PR -> Nat] /\ selected' \in [PR -> Nat]
  BY DEF Types
<1>3. selected' = selected
  BY <1>1, <1>2
<1> QED BY <1>1, <1>3 DEF Final, Selected

(* A row of a published packet, once or again. *)
LEMMA RowsGrow ==
  ASSUME ScorerInv, NEW n \in 1..Len(packets), packets[n].published, rows' = WithRow(n),
         UNCHANGED <<packets, latest, selected>>
  PROVE  rows' \in Seq(Nat) /\ LedgerTellsScores' /\ ScoresStayCurrent'
<1>0. rows \in Seq(Nat) /\ Len(rows) \in Nat /\ n \in Nat /\ packets \in Seq(Packet) /\ Len(packets) \in Nat
  BY DEF ScorerInv
<1>1. CASE rows' = rows
  BY <1>0, <1>1 DEF ScorerInv, LedgerTellsScores, ScoresStayCurrent
<1>2. CASE rows' = Append(rows, n) /\ \A i \in 1..Len(rows) : rows[i] # n
  <2>1. /\ rows' \in Seq(Nat) /\ Len(rows') = Len(rows) + 1 /\ rows'[Len(rows) + 1] = n
        /\ \A i \in 1..Len(rows) : rows'[i] = rows[i]
    BY <1>0, <1>2
  <2>2. \A i \in 1..Len(rows') : i \in 1..Len(rows) \/ i = Len(rows) + 1
    BY <1>0, <2>1
  <2>3. \A i, j \in 1..Len(rows') : rows'[i] = rows'[j] => i = j
    BY <1>2, <2>1, <2>2 DEF ScorerInv, LedgerTellsScores
  <2>4. \A i \in 1..Len(rows') : rows'[i] \in 1..Len(packets) /\ packets[rows'[i]].published
    BY <2>1, <2>2 DEF ScorerInv, LedgerTellsScores
  <2> QED BY <2>1, <2>3, <2>4 DEF ScorerInv, LedgerTellsScores, ScoresStayCurrent
<1> QED BY <1>1, <1>2 DEF WithRow

(* Every step keeps what the scorer relies on. *)
LEMMA ScorerStep ==
  ASSUME Types, Types', WorkIsDue, AttemptsLink, ScorerInv, [SNext]_allVars
  PROVE  ScorerInv'
<1>0. /\ packets \in Seq(Packet) /\ Len(packets) \in Nat /\ rows \in Seq(Nat) /\ Len(rows) \in Nat
      /\ selected \in [PR -> Nat] /\ picked \in [PR -> Nat]
  BY DEF ScorerInv, Types
<1>1. CASE [Next]_vars /\ UNCHANGED scoreVars
  <2>1. CASE scoring = "selected" \/ packets # <<>>
    <3>1. selected' = selected /\ \A p \in PR : Final(p)'
      BY <1>1, <2>1, FinalRun DEF ScorerInv
    <3> QED BY <1>1, <3>1 DEF ScorerInv, scoreVars, LedgerTellsScores, ScoresStayCurrent
  <2>2. CASE ~(scoring = "selected" \/ packets # <<>>)
    <3>1. Len(packets) = 0
      BY <2>2
    <3> QED BY <1>1, <2>2, <3>1 DEF ScorerInv, scoreVars, LedgerTellsScores, ScoresStayCurrent
  <2> QED BY <2>1, <2>2
<1>2. ASSUME UNCHANGED vars
      PROVE  selected' = selected /\ \A p \in PR : Final(p) => Final(p)'
  BY <1>2 DEF vars, Final, Selected
<1>3. CASE Select
  <2>1. \A p \in PR : Final(p)
    BY <1>3 DEF Select, Scorable, Final
  <2>2. /\ scoring = "idle" /\ scoring' = "selected" /\ picked' = selected
        /\ UNCHANGED <<packets, latest, rows>> /\ UNCHANGED vars
    BY <1>3 DEF Select
  <2> QED BY <1>0, <1>2, <2>1, <2>2 DEF ScorerInv, LedgerTellsScores, ScoresStayCurrent
<1>4. CASE Begin
  <2>1. scoring = "selected" /\ UNCHANGED <<picked, latest, rows>> /\ UNCHANGED vars
    BY <1>4 DEF Begin
  <2>2. CASE picked = selected /\ scoring' = "judging"
             /\ packets' = Append(packets, [selection |-> picked, published |-> FALSE])
    <3>1. [selection |-> picked, published |-> FALSE] \in Packet
      BY <1>0 DEF Packet
    <3>2. /\ packets' \in Seq(Packet) /\ Len(packets') = Len(packets) + 1
          /\ \A n \in 1..Len(packets) : packets'[n] = packets[n]
          /\ packets'[Len(packets) + 1].selection = selected
      BY <1>0, <2>2, <3>1
    <3>3. packets' # <<>>
      BY <1>0, <3>2
    <3>4. ScoresStayCurrent'
      <4>1. selected' = selected
        BY <1>2, <2>1
      <4>2. \A n \in 1..Len(packets) : packets[n].selection = selected
        BY DEF ScorerInv, ScoresStayCurrent
      <4>3. \A n \in 1..Len(packets') : n \in 1..Len(packets) \/ n = Len(packets) + 1
        BY <1>0, <3>2
      <4>4. \A n \in 1..Len(packets') : packets'[n].selection = selected
        BY <3>2, <4>2, <4>3
      <4> QED BY <4>1, <4>4 DEF ScoresStayCurrent
    <3>5. LedgerTellsScores'
      <4>1. LedgerTellsScores /\ UNCHANGED <<latest, rows>>
        BY <2>1 DEF ScorerInv
      <4>2. \A n \in 1..Len(packets) : n \in 1..Len(packets') /\ packets'[n] = packets[n]
        BY <1>0, <3>2
      <4> QED BY <4>1, <4>2 DEF LedgerTellsScores
    <3> QED BY <1>2, <2>1, <2>2, <3>2, <3>3, <3>4, <3>5 DEF ScorerInv
  <2>3. CASE scoring' = "idle" /\ UNCHANGED packets
    BY <1>2, <2>1, <2>3 DEF ScorerInv, LedgerTellsScores, ScoresStayCurrent
  <2> QED BY <1>4, <2>2, <2>3 DEF Begin
<1>5. CASE Publish
  <2>1. /\ scoring = "judging" /\ scoring' = "published" /\ UNCHANGED <<picked, latest, rows>>
        /\ UNCHANGED vars
        /\ packets' = [packets EXCEPT ![Len(packets)].published = TRUE]
    BY <1>5 DEF Publish
  <2>2. packets # <<>> /\ Len(packets) \in 1..Len(packets)
    BY <1>0, <2>1 DEF ScorerInv
  <2> DEFINE last == [packets[Len(packets)] EXCEPT !.published = TRUE]
  <2>3. last \in Packet /\ last.published /\ last.selection = packets[Len(packets)].selection
    <3>1. packets[Len(packets)] \in Packet
      BY <1>0, <2>2
    <3> QED BY <3>1 DEF Packet
  <2>4. packets' = [packets EXCEPT ![Len(packets)] = last]
    BY <2>1
  <2> HIDE DEF last
  <2>5. /\ packets' \in Seq(Packet) /\ Len(packets') = Len(packets)
        /\ \A n \in 1..Len(packets) : packets'[n] = IF n = Len(packets) THEN last ELSE packets[n]
    BY <1>0, <2>2, <2>3, <2>4
  <2>6. packets' # <<>>
    BY <1>0, <2>2, <2>5
  <2>7. ScoresStayCurrent' /\ LedgerTellsScores'
    BY <1>2, <2>1, <2>2, <2>3, <2>5 DEF ScorerInv, LedgerTellsScores, ScoresStayCurrent
  <2> QED BY <1>2, <2>1, <2>2, <2>3, <2>5, <2>6, <2>7 DEF ScorerInv
<1>6. CASE Point
  <2>1. /\ scoring = "published" /\ scoring' = "pointed" /\ latest' = Len(packets)
        /\ UNCHANGED <<picked, packets, rows>> /\ UNCHANGED vars
    BY <1>6 DEF Point
  <2>2. packets # <<>> /\ Len(packets) \in 1..Len(packets) /\ packets[Len(packets)].published
    BY <1>0, <2>1 DEF ScorerInv
  <2> QED BY <1>0, <1>2, <2>1, <2>2 DEF ScorerInv, LedgerTellsScores, ScoresStayCurrent
<1>7. CASE AppendRow
  <2>1. /\ scoring = "pointed" /\ scoring' = "idle" /\ rows' = WithRow(Len(packets))
        /\ UNCHANGED <<picked, packets, latest>> /\ UNCHANGED vars
    BY <1>7 DEF AppendRow
  <2>2. Len(packets) \in 1..Len(packets) /\ packets[Len(packets)].published
    BY <1>0, <2>1 DEF ScorerInv
  <2>3. rows' \in Seq(Nat) /\ LedgerTellsScores' /\ ScoresStayCurrent'
    BY <1>2, <2>1, <2>2, RowsGrow
  <2> QED BY <1>2, <2>1, <2>3 DEF ScorerInv
<1>8. CASE ScorerDies
  <2>1. scoring' = "idle" /\ UNCHANGED <<picked, packets, latest, rows>> /\ UNCHANGED vars
    BY <1>8 DEF ScorerDies
  <2> QED BY <1>2, <2>1 DEF ScorerInv, LedgerTellsScores, ScoresStayCurrent
<1>9. ASSUME NEW n \in 1..MaxScores, Replay(n) PROVE ScorerInv'
  <2>1. /\ n \in 1..Len(packets) /\ packets[n].published /\ rows' = WithRow(n)
        /\ UNCHANGED <<scoring, picked, packets, latest>> /\ UNCHANGED vars
    BY <1>9 DEF Replay, Loadable
  <2>2. rows' \in Seq(Nat) /\ LedgerTellsScores' /\ ScoresStayCurrent'
    BY <1>2, <2>1, RowsGrow
  <2> QED BY <1>2, <2>1, <2>2 DEF ScorerInv
<1>10. CASE UNCHANGED allVars
  BY <1>1, <1>10 DEF allVars
<1> QED BY <1>1, <1>3, <1>4, <1>5, <1>6, <1>7, <1>8, <1>9, <1>10 DEF SNext, Session, Scorer
-----------------------------------------------------------------------------
IInv == SessionInv /\ Books /\ ScorerInv

(* The invariant of the composition holds before the first pass, *)
LEMMA IInit == SInit => IInv
<1> SUFFICES ASSUME SInit PROVE IInv
  OBVIOUS
<1>1. SessionInv /\ Books
  BY InitOK DEF SInit
<1>2. ScorerInv
  BY DEF SInit, ScorerInv, LedgerTellsScores, ScoresStayCurrent
<1> QED BY <1>1, <1>2 DEF IInv

(* is about steps of the run directory only through Next, *)
LEMMA EverySessionStep == ASSUME [SNext]_allVars PROVE [Next]_vars
<1>1. CASE Scorer
  BY <1>1 DEF Scorer, Select, Begin, Publish, Point, AppendRow, ScorerDies, Replay
<1>2. CASE Session
  BY <1>2 DEF Session
<1>3. CASE UNCHANGED allVars
  BY <1>3 DEF allVars
<1> QED BY <1>1, <1>2, <1>3 DEF SNext

(* is kept by every step, *)
LEMMA INext == IInv /\ [SNext]_allVars => IInv'
<1> SUFFICES ASSUME IInv, [SNext]_allVars PROVE IInv'
  OBVIOUS
<1>1. SessionInv' /\ Books'
  BY EverySessionStep, SessionStep DEF IInv
<1>2. ScorerInv'
  BY <1>1, ScorerStep DEF IInv, SessionInv
<1> QED BY <1>1, <1>2 DEF IInv

(* and so holds for ever. *)
LEMMA IAlways == SSpec => []IInv
BY IInit, INext, PTL DEF SSpec

(* Everything a run directory holds has its type, whatever runs, crashes,  *)
(* resumes, retries and scores it went through.                            *)
THEOREM BenchTypes == SSpec => []TypeOK
<1>1. IInv => TypeOK
  <2> SUFFICES ASSUME IInv PROVE TypeOK
    OBVIOUS
  <2>1. Types
    BY DEF IInv, SessionInv
  <2>2. \A p \in PR : selected[p] \in 0..Len(attempts[p])
    BY <2>1, TypeFacts DEF Types
  <2>3. pass.phase \in Phases /\ pass.todo \subseteq DOMAIN Order
    BY <2>1, TypeFacts
  <2> QED BY <2>1, <2>2, <2>3 DEF TypeOK, Types, Phases
<1> QED BY <1>1, IAlways, PTL

(* A run directory is one credential: the one its manifest names is the    *)
(* only one its children spent, whatever flags later passes were given.    *)
LEMMA IOneCredential == IInv => OneCredential
  BY DEF IInv, SessionInv, RunIsNamed, Named, OneCredential

(* Each kill loses at most the pull request in flight; what an attempt     *)
(* snapshots is its own child's; a retry waited for its reset; a terminal  *)
(* failure rests on two failures.                                          *)
THEOREM SpendHolds == SSpec => []SpendIsAccounted
<1>1. IInv => SpendIsAccounted
  BY IOneCredential DEF IInv, SessionInv, Books, SpendIsAccounted
<1> QED BY <1>1, IAlways, PTL

(* Exit 0, the pointer to the latest score and every ledger row agree with *)
(* the attempts the run selects, with passes and scorers side by side.     *)
THEOREM ScoresHold == SSpec => []ScoresTellTruth
<1>1. IInv => ScoresTellTruth
  BY DEF IInv, SessionInv, ExitIsEarned, ScorerInv, ScoresTellTruth
<1> QED BY <1>1, IAlways, PTL

(* No resume or retry runs again what is valid or confirmed to fail.       *)
THEOREM FinishedHolds == SSpec => FinishedStaysFinished
<1>1. IInv /\ [SNext]_allVars =>
        [\A p \in PR : (selected[p] # 0 /\ Selected(p).state # "invalid") =>
           selected'[p] = selected[p] /\ attempts'[p] = attempts[p]]_vars
  <2> SUFFICES ASSUME IInv, [SNext]_allVars, NEW p \in PR, selected[p] # 0, Selected(p).state # "invalid"
               PROVE  selected'[p] = selected[p] /\ attempts'[p] = attempts[p]
    OBVIOUS
  <2> QED BY EverySessionStep, FinalStays DEF IInv, SessionInv, Final
<1> QED BY <1>1, IAlways, PTL DEF SSpec, FinishedStaysFinished
-----------------------------------------------------------------------------
(* What the benchmark concludes.                                           *)

(* The greatest and the least of two numbers, as Max and Min find them.    *)
LEMMA MaxOfTwo ==
  ASSUME NEW a \in Int, NEW b \in Int, a <= b
  PROVE  Max({a, b}) = b
<1>1. \E x \in {a, b} : \A y \in {a, b} : x >= y
  OBVIOUS
<1> QED BY <1>1 DEF Max

LEMMA MinOfTwo ==
  ASSUME NEW a \in Int, NEW b \in Int, a <= b
  PROVE  Min({a, b}) = a
<1>1. \E x \in {a, b} : \A y \in {a, b} : x <= y
  OBVIOUS
<1> QED BY <1>1 DEF Min

(* A set whose members are all the same has at most one.                   *)
LEMMA AtMostOne ==
  ASSUME NEW S, \A x, y \in S : x = y
  PROVE  IsFiniteSet(S) /\ Cardinality(S) <= 1
<1>1. CASE S = {}
  BY <1>1, FS_EmptySet
<1>2. CASE S # {}
  <2>1. PICK x \in S : TRUE
    BY <1>2
  <2>2. S = {x}
    BY <2>1
  <2>3. IsFiniteSet({x}) /\ Cardinality({x}) = 1
    BY FS_Singleton
  <2> QED BY <2>2, <2>3
<1> QED BY <1>1, <1>2
-----------------------------------------------------------------------------
(* The gate splits as it says, for any epoch and any dispositions.         *)
LEMMA PopulationsHold == PopulationsPartition
<1> SUFFICES ASSUME NEW core \in SUBSET Bug, NEW d \in Dispositions, NEW gate \in SUBSET Url,
                    NEW holdout \in SUBSET (Url \ gate), NEW mini \in SUBSET gate
             PROVE  LET e == [core |-> core, gate |-> gate, holdout |-> holdout, mini |-> mini]
                        P(name) == Population(name, e, d, Bug)
                    IN /\ P("gate-uncontaminated") \cap P("gate-contaminated") = {}
                       /\ P("gate-uncontaminated") \cup P("gate-contaminated") = P("gate")
                       /\ P("gate-uncontaminated-non-mini") = P("gate-uncontaminated") \ P("mini")
                       /\ P("dev-slice") \subseteq P("dev-pool")
                       /\ P("dev-pool") \cap (P("gate") \cup P("holdout")) = {}
                       /\ \A b \in P("dev-pool") : ~Contaminated(b, d)
  BY DEF PopulationsPartition
<1> DEFINE e == [core |-> core, gate |-> gate, holdout |-> holdout, mini |-> mini]
           P(name) == Population(name, e, d, Bug)
           In(urls) == {b \in Bug : b[1] \in urls}
<1>1. P("gate") = In(gate) /\ P("holdout") = In(holdout) /\ P("mini") = In(mini)
  BY DEF Population
<1>2. P("gate-contaminated") = {b \in In(gate) : Contaminated(b, d)}
  BY DEF Population
<1>3. P("gate-uncontaminated") = {b \in In(gate \ d.prs) : ~Contaminated(b, d)}
  BY DEF Population
<1>4. P("gate-uncontaminated-non-mini") = {b \in In((gate \ mini) \ d.prs) : ~Contaminated(b, d)}
  BY DEF Population
<1>5. P("dev-pool") = {b \in In(DevPool(e, d)) : ~Contaminated(b, d)}
  BY DEF Population
<1>6. P("dev-slice") = {b \in In(DevSlice(e, d)) : ~Contaminated(b, d)}
  BY DEF Population
<1>7. DevSlice(e, d) \subseteq DevPool(e, d)
  BY DEF DevSlice
<1>8. DevPool(e, d) \cap (gate \cup holdout) = {}
  BY DEF DevPool
<1>9. \A b \in Bug : ~Contaminated(b, d) => b[1] \notin d.prs
  BY DEF Contaminated
<1>10. P("gate-uncontaminated") = {b \in In(gate) : ~Contaminated(b, d)}
  BY <1>3, <1>9
<1>11. P("gate-uncontaminated-non-mini") = {b \in In(gate \ mini) : ~Contaminated(b, d)}
  BY <1>4, <1>9
<1> HIDE DEF e, P
<1> USE DEF In
<1>12. P("gate-uncontaminated") \cap P("gate-contaminated") = {}
  BY <1>10, <1>2
<1>13. P("gate-uncontaminated") \cup P("gate-contaminated") = P("gate")
  BY <1>10, <1>2, <1>1
<1>14. P("gate-uncontaminated-non-mini") = P("gate-uncontaminated") \ P("mini")
  BY <1>11, <1>10, <1>1
<1>15. P("dev-slice") \subseteq P("dev-pool")
  BY <1>5, <1>6, <1>7
<1>16. P("dev-pool") \cap (P("gate") \cup P("holdout")) = {}
  BY <1>1, <1>5, <1>8
<1>17. \A b \in P("dev-pool") : ~Contaminated(b, d)
  BY <1>5
<1> QED BY <1>12, <1>13, <1>14, <1>15, <1>16, <1>17 DEF e, P

(* Runs in the planned order are accepted, exchanged or overlapping ones   *)
(* are not. *)
LEMMA InterleavingHolds == InterleavingIsOrder
<1> SUFFICES ASSUME NEW late \in 0..6
             PROVE  LET run == [i \in 1..4 |-> [start |-> 2 * i, attempts |-> {2 * i, 2 * i + 1}]]
                        retried == [run EXCEPT ![1].attempts = {2, 2 + late}]
                        exchanged == <<run[3], run[4], run[1], run[2]>>
                    IN /\ [i \in DOMAIN run |-> PlannedOrder(2)[i][1]] = <<Arm[1], Arm[2], Arm[1], Arm[2]>>
                       /\ Interleaved(run) /\ ~Interleaved(exchanged)
                       /\ Interleaved(retried) <=> 2 + late < 4
  BY DEF InterleavingIsOrder
<1> DEFINE A(s, m) == [start |-> s, attempts |-> {s, m}]
           run == [i \in 1..4 |-> [start |-> 2 * i, attempts |-> {2 * i, 2 * i + 1}]]
           retried == [run EXCEPT ![1].attempts = {2, 2 + late}]
           exchanged == <<run[3], run[4], run[1], run[2]>>
<1>1. run[1] = A(2, 3) /\ run[2] = A(4, 5) /\ run[3] = A(6, 7) /\ run[4] = A(8, 9)
  OBVIOUS
<1>2. run = <<A(2, 3), A(4, 5), A(6, 7), A(8, 9)>>
  BY <1>1
<1>3. retried = <<A(2, 2 + late), A(4, 5), A(6, 7), A(8, 9)>>
  BY <1>1, <1>2
<1>4. exchanged = <<A(6, 7), A(8, 9), A(2, 3), A(4, 5)>>
  BY <1>1
<1>5. [i \in DOMAIN run |-> PlannedOrder(2)[i][1]] = <<Arm[1], Arm[2], Arm[1], Arm[2]>>
  <2>1. \A i \in 1..4 : PlannedOrder(2)[i][1] = Arm[1 + ((i - 1) % 2)]
    BY DEF PlannedOrder
  <2>2. /\ PlannedOrder(2)[1][1] = Arm[1] /\ PlannedOrder(2)[2][1] = Arm[2]
        /\ PlannedOrder(2)[3][1] = Arm[1] /\ PlannedOrder(2)[4][1] = Arm[2]
    BY <2>1
  <2> QED BY <2>2
<1>6. \A s, m \in Int : s <= m => Min(A(s, m).attempts) = s /\ Max(A(s, m).attempts) = m
  BY MinOfTwo, MaxOfTwo
<1>7. ASSUME NEW s1 \in Int, NEW m1 \in Int, NEW s2 \in Int, NEW m2 \in Int, s1 <= m1, s2 <= m2
      PROVE  /\ Before(A(s1, m1), A(s2, m2)) <=> m1 < s2
             /\ Together(A(s1, m1), A(s2, m2)) <=> (s1 - s2 <= 1 /\ s2 - s1 <= 1)
  <2>1. Before(A(s1, m1), A(s2, m2)) <=> m1 < s2
    BY <1>6, <1>7 DEF Before
  <2>2. Together(A(s1, m1), A(s2, m2)) <=> Distance(s1, s2) <= 1
    BY DEF Together, Tolerance
  <2> QED BY <2>1, <2>2 DEF Distance
<1> DEFINE In4(x1, x2, x3, x4) ==
             /\ \A x \in {x1, x2, x3, x4} : Min(x.attempts) >= x.start
             /\ Before(x1, x2) \/ Together(x1, x2)
             /\ Before(x3, x4) \/ Together(x3, x4)
             /\ Before(x1, x3) /\ Before(x1, x4) /\ Before(x2, x3) /\ Before(x2, x4)
<1>8. ASSUME NEW x1, NEW x2, NEW x3, NEW x4
      PROVE  Interleaved(<<x1, x2, x3, x4>>) <=> In4(x1, x2, x3, x4)
  <2> DEFINE r == <<x1, x2, x3, x4>>
  <2>1. Len(r) \div 2 = 2 /\ DOMAIN r = 1..4 /\ r[1] = x1 /\ r[2] = x2 /\ r[3] = x3 /\ r[4] = x4
    OBVIOUS
  <2> HIDE DEF r
  <2>2. Interleaved(r) <=>
          /\ \A i \in 1..4 : Min(r[i].attempts) >= r[i].start
          /\ \A i \in 1..2 : Before(r[2 * i - 1], r[2 * i]) \/ Together(r[2 * i - 1], r[2 * i])
          /\ \A i \in 1..1 : \A x \in {r[2 * i - 1], r[2 * i]}, y \in {r[2 * (i + 1) - 1], r[2 * (i + 1)]} :
               Before(x, y)
    BY <2>1 DEF Interleaved
  <2>3. (\A i \in 1..4 : Min(r[i].attempts) >= r[i].start)
          <=> \A x \in {x1, x2, x3, x4} : Min(x.attempts) >= x.start
    <3>1. 1..4 = {1, 2, 3, 4}
      OBVIOUS
    <3> QED BY <3>1, <2>1
  <2>4. (\A i \in 1..2 : Before(r[2 * i - 1], r[2 * i]) \/ Together(r[2 * i - 1], r[2 * i]))
          <=> (Before(x1, x2) \/ Together(x1, x2)) /\ (Before(x3, x4) \/ Together(x3, x4))
    <3>1. 1..2 = {1, 2} /\ 2 * 1 = 2 /\ 2 * 1 - 1 = 1 /\ 2 * 2 = 4 /\ 2 * 2 - 1 = 3
      OBVIOUS
    <3> QED BY <3>1, <2>1
  <2>5. (\A i \in 1..1 : \A x \in {r[2 * i - 1], r[2 * i]}, y \in {r[2 * (i + 1) - 1], r[2 * (i + 1)]} :
           Before(x, y))
          <=> Before(x1, x3) /\ Before(x1, x4) /\ Before(x2, x3) /\ Before(x2, x4)
    <3>1. 1..1 = {1} /\ 2 * 1 = 2 /\ 2 * 1 - 1 = 1 /\ 2 * (1 + 1) = 4 /\ 2 * (1 + 1) - 1 = 3
      OBVIOUS
    <3> QED BY <3>1, <2>1
  <2> QED BY <2>2, <2>3, <2>4, <2>5 DEF r
<1>9. Interleaved(run)
  <2>1. In4(A(2, 3), A(4, 5), A(6, 7), A(8, 9))
    BY <1>6, <1>7
  <2> QED BY <2>1, <1>2, <1>8
<1>10. ~Interleaved(exchanged)
  <2>1. ~Before(A(6, 7), A(2, 3))
    BY <1>7
  <2> QED BY <2>1, <1>4, <1>8
<1>11. Interleaved(retried) <=> 2 + late < 4
  <2>1. In4(A(2, 2 + late), A(4, 5), A(6, 7), A(8, 9)) <=> 2 + late < 4
    BY <1>6, <1>7
  <2> QED BY <2>1, <1>3, <1>8
<1> QED BY <1>5, <1>9, <1>10, <1>11

(* A resolved finding has the label of most of its two seats and owner.    *)
LEMMA AuditHolds == AuditIsMajority
<1> SUFFICES ASSUME NEW labels \in [1..2 -> [Seat -> Label]], NEW owner \in [1..2 -> Label \cup {NoLabel}],
                    ~Refused(labels, owner), OwnerQueue(labels, owner) = {},
                    NEW s \in 1..2, NEW l \in Label
             PROVE  Agreed(labels[s], owner[s]) = l <=>
                      Cardinality({x \in Seat : labels[s][x] = l}) + (IF owner[s] = l THEN 1 ELSE 0) >= 2
  BY DEF AuditIsMajority
<1> DEFINE sol == labels[s]["Sol"]
           opus == labels[s]["Opus"]
           votes == {x \in Seat : labels[s][x] = l}
<1>1. sol \in Label /\ opus \in Label /\ owner[s] \in Label \cup {NoLabel} /\ NoLabel \notin Label
  BY DEF Seat, Label, NoLabel
<1>2. DOMAIN labels = 1..2
  OBVIOUS
<1>3. sol = opus => owner[s] = NoLabel
  BY <1>2 DEF Refused, Disputed
<1>4. Agreed(labels[s], owner[s]) = IF sol # opus THEN owner[s] ELSE sol
  BY DEF Agreed, Disputed
<1>5. Agreed(labels[s], owner[s]) # NoLabel
  BY <1>2 DEF OwnerQueue
<1>6. /\ sol = l /\ opus = l => votes = {"Sol", "Opus"}
      /\ sol = l /\ opus # l => votes = {"Sol"}
      /\ sol # l /\ opus = l => votes = {"Opus"}
      /\ sol # l /\ opus # l => votes = {}
  BY DEF Seat
<1>7. /\ Cardinality({"Sol", "Opus"}) = 2 /\ Cardinality({"Sol"}) = 1
      /\ Cardinality({"Opus"}) = 1 /\ Cardinality({}) = 0
  <2>1. Cardinality({"Sol"}) = 1 /\ Cardinality({"Opus"}) = 1 /\ IsFiniteSet({"Sol"})
    BY FS_Singleton
  <2>2. Cardinality({"Sol"} \cup {"Opus"})
          = IF "Opus" \in {"Sol"} THEN Cardinality({"Sol"}) ELSE Cardinality({"Sol"}) + 1
    BY <2>1, FS_AddElement, Zenon
  <2>3. {"Sol"} \cup {"Opus"} = {"Sol", "Opus"}
    OBVIOUS
  <2>4. "Opus" \notin {"Sol"}
    OBVIOUS
  <2> QED BY <2>1, <2>2, <2>3, <2>4, FS_EmptySet
<1>8. /\ sol = l /\ opus = l => Cardinality(votes) = 2
      /\ sol = l /\ opus # l => Cardinality(votes) = 1
      /\ sol # l /\ opus = l => Cardinality(votes) = 1
      /\ sol # l /\ opus # l => Cardinality(votes) = 0
  BY <1>6, <1>7
<1> HIDE DEF sol, opus, votes
<1>9. Label = {"correct", "wrong"}
  BY DEF Label
<1>10. Agreed(labels[s], owner[s]) = l <=> Cardinality(votes) + (IF owner[s] = l THEN 1 ELSE 0) >= 2
  BY <1>1, <1>3, <1>4, <1>5, <1>8, <1>9
<1> QED BY <1>10 DEF votes

(* Better evidence never makes a verdict worse. *)
LEMMA VerdictsHold == VerdictsAreMonotone
<1> SUFFICES ASSUME NEW kind \in {"wave", "ship"}, NEW margin \in 0..1
             PROVE
    /\ \A i, j \in Interval, x, y \in -2..2 :
         (i.lower <= j.lower /\ i.upper <= j.upper /\ i.clusters = j.clusters /\ x <= y) =>
           /\ Better[Primary(kind, x, i, margin)] <= Better[Primary(kind, y, j, margin)]
           /\ Better[NonInferiority(i, margin)] <= Better[NonInferiority(j, margin)]
           /\ Better[Harm(i, margin)] <= Better[Harm(j, margin)]
    /\ \A p, q \in Judgement, others \in SUBSET Judgement, extended \in BOOLEAN, extension \in 0..1 :
         LET V(x) == Verdict(kind, x, others, extended, extension)
         IN /\ Better[p] <= Better[q] => Better[V(p)] <= Better[V(q)]
            /\ V(p) = "pass" => p = "pass" /\ "fail" \notin others
            /\ (V(p) = "pass" /\ (kind = "ship" \/ ~extended)) => "inconclusive" \notin others
            /\ (kind = "wave" /\ (extended \/ extension = 0)) => V(p) # "inconclusive"
            /\ ExtensionAllowed(kind, V(p), extended, extension) =>
                 "fail" \notin {p} \cup others
  BY DEF VerdictsAreMonotone
<1>1. Better["fail"] = 0 /\ Better["inconclusive"] = 1 /\ Better["pass"] = 2
  BY DEF Better
<1>2. ASSUME NEW i \in Interval, NEW j \in Interval, NEW x \in -2..2, NEW y \in -2..2,
             i.lower <= j.lower, i.upper <= j.upper, i.clusters = j.clusters, x <= y
      PROVE  /\ Better[Primary(kind, x, i, margin)] <= Better[Primary(kind, y, j, margin)]
             /\ Better[NonInferiority(i, margin)] <= Better[NonInferiority(j, margin)]
             /\ Better[Harm(i, margin)] <= Better[Harm(j, margin)]
  <2>1. /\ i.lower \in Int /\ i.upper \in Int /\ i.clusters \in Int /\ i.lower <= i.upper
        /\ j.lower \in Int /\ j.upper \in Int /\ j.clusters \in Int /\ j.lower <= j.upper
        /\ x \in Int /\ y \in Int /\ margin \in Int
    BY DEF Interval
  <2>2. Better[Primary(kind, x, i, margin)] <= Better[Primary(kind, y, j, margin)]
    BY <1>1, <1>2, <2>1 DEF Primary
  <2>3. Better[NonInferiority(i, margin)] <= Better[NonInferiority(j, margin)]
    BY <1>1, <1>2, <2>1 DEF NonInferiority
  <2>4. Better[Harm(i, margin)] <= Better[Harm(j, margin)]
    BY <1>1, <1>2, <2>1 DEF Harm
  <2> QED BY <2>2, <2>3, <2>4
<1>3. ASSUME NEW p \in Judgement, NEW q \in Judgement, NEW others \in SUBSET Judgement,
             NEW extended \in BOOLEAN, NEW extension \in 0..1
      PROVE  LET V(x) == Verdict(kind, x, others, extended, extension)
             IN /\ Better[p] <= Better[q] => Better[V(p)] <= Better[V(q)]
                /\ V(p) = "pass" => p = "pass" /\ "fail" \notin others
                /\ (V(p) = "pass" /\ (kind = "ship" \/ ~extended)) => "inconclusive" \notin others
                /\ (kind = "wave" /\ (extended \/ extension = 0)) => V(p) # "inconclusive"
                /\ ExtensionAllowed(kind, V(p), extended, extension) =>
                     "fail" \notin {p} \cup others
  <2> DEFINE V(x) == Verdict(kind, x, others, extended, extension)
  <2>1. p \in {"pass", "fail", "inconclusive"} /\ q \in {"pass", "fail", "inconclusive"}
    BY DEF Judgement
  <2>2. \A x \in Judgement : V(x) =
          LET first == IF x = "fail" \/ "fail" \in others THEN "fail"
                       ELSE IF (x = "inconclusive" \/ "inconclusive" \in others)
                               /\ (kind = "ship" \/ ~extended) THEN "inconclusive" ELSE x
          IN IF kind = "wave" /\ (extended \/ extension = 0) /\ first # "pass" THEN "fail" ELSE first
    BY DEF Verdict
  <2>3. Better[p] <= Better[q] => Better[V(p)] <= Better[V(q)]
    BY <1>1, <2>1, <2>2
  <2>4. V(p) = "pass" => p = "pass" /\ "fail" \notin others
    BY <2>1, <2>2
  <2>5. (V(p) = "pass" /\ (kind = "ship" \/ ~extended)) => "inconclusive" \notin others
    BY <2>1, <2>2
  <2>6. (kind = "wave" /\ (extended \/ extension = 0)) => V(p) # "inconclusive"
    BY <2>1, <2>2
  <2>7. ExtensionAllowed(kind, V(p), extended, extension) => "fail" \notin {p} \cup others
    BY <2>1, <2>2 DEF ExtensionAllowed
  <2> QED BY <2>3, <2>4, <2>5, <2>6, <2>7
<1> QED BY <1>2, <1>3

(* The rules hold, whatever the pull requests and the bugs.                *)
LEMMA RulesHold == RulesOfTheGate
BY PopulationsHold, InterleavingHolds, AuditHolds, VerdictsHold DEF RulesOfTheGate
-----------------------------------------------------------------------------
(* The ledger of the gate and the holdout (GateProtocol): types.           *)
Unsealing == [kind : {"unseal"}, sha : Treatment, at : Nat]
UseKind == {"run", "audit", "compare"}
Row ==
  [kind : {"registration"}, at : Nat]
    \cup [kind : {"look"}, look : 1..2, report : Nat, verdict : Judgement]
    \cup Unsealing
    \cup [kind : {"use"}, use : UseKind, run : Review \cup {"none"}]

CountsByArm == UNION {[1..RunCount(e) -> Nat] : e \in BOOLEAN}
Report == [look : 1..2, runs : CountsByArm, extended : BOOLEAN, verdict : Judgement, allowed : BOOLEAN]
DeskState ==
  [pc : {"free", "sampling", "compared"}]
    \cup [pc : {"judged"}, look : 1..2, runs : CountsByArm, extended : BOOLEAN,
          verdict : Judgement, allowed : BOOLEAN]
    \cup [pc : {"reported"}, report : Nat]
    \cup [pc : {"minted"}, row : Unsealing]

GateTypesOK ==
  /\ time \in Nat /\ rule \in Kind
  /\ ledger \in Seq(Row)
  /\ manifests \in Seq([claims : Nat, made : Nat])
  /\ candidates \in Seq([index : Nat, started : Nat, bound : Nat])
  /\ reports \in Seq(Report)
  /\ receipts \in Seq(Unsealing)
  /\ reviews \subseteq [run : Review, sha : Treatment]
  /\ samples \in Nat
  /\ desk \in [Desk -> DeskState]

(* One sequence goes on from where the other ends.                         *)
Continues(s, t) == DOMAIN s \subseteq DOMAIN t /\ \A i \in DOMAIN s : t[i] = s[i]

(* Looks are numbered as they come, two at most.                           *)
Numbered ==
  /\ Cardinality(Looks) <= 2
  /\ \A i \in Looks : ledger[i].look = Cardinality({j \in Looks : j <= i})

(* Each look is of a report that says the same. *)
Reported ==
  \A i \in Looks :
    /\ ledger[i].report \in DOMAIN reports
    /\ reports[ledger[i].report].look = ledger[i].look
    /\ reports[ledger[i].report].verdict = ledger[i].verdict

(* Candidate runs started under the one registration and a frozen list.    *)
Bound ==
  /\ \A m \in DOMAIN manifests : manifests[m].made <= time
  /\ \A c \in DOMAIN candidates :
       /\ candidates[c].bound \in DOMAIN manifests
       /\ manifests[candidates[c].bound].made <= candidates[c].started
       /\ Rows("registration") # {}
       /\ \A i \in Rows("registration") : ledger[i].at < candidates[c].started

(* What a comparison judged: planned runs under one list; an extended one  *)
(* goes on from the report of the first look, which allowed it.            *)
Sound(r, picks, judged_before, reviewed) ==
  /\ r.runs \in [1..RunCount(r.extended) -> DOMAIN reviewed]
  /\ \A k \in DOMAIN r.runs : reviewed[r.runs[k]].bound = reviewed[r.runs[1]].bound
  /\ r.look = IF r.extended THEN 2 ELSE 1
  /\ r.allowed => r.verdict = "inconclusive" /\ ~r.extended /\ ExtensionRuns > 0
  /\ r.extended =>
       /\ r.verdict # "inconclusive"
       /\ \E i \in DOMAIN picks :
            /\ picks[i].kind = "look" /\ picks[i].look = 1
            /\ picks[i].report \in DOMAIN judged_before
            /\ judged_before[picks[i].report].allowed
            /\ \A k \in DOMAIN judged_before[picks[i].report].runs :
                 r.runs[k] = judged_before[picks[i].report].runs[k]

AllSound ==
  /\ \A n \in DOMAIN reports : Sound(reports[n], ledger, reports, candidates)
  /\ \A d \in Desk : desk[d].pc = "judged" => Sound(desk[d], ledger, reports, candidates)
  /\ \A d \in Desk : desk[d].pc = "reported" => desk[d].report \in DOMAIN reports

OneRegistration == \A i, j \in Rows("registration") : i = j

LookInv == GateTypesOK /\ OneRegistration /\ Numbered /\ Reported /\ Bound /\ AllSound

(* The holdout: one unsealing, one use of each kind, and what was reviewed *)
(* and sampled rests on them.                                              *)
HoldoutInv ==
  /\ \A i, j \in Rows("unseal") : i = j
  /\ \A use \in UseKind : \A i, j \in Uses(use) : i = j
  /\ \A r \in reviews : \E i \in Rows("unseal"), j \in Uses("run") :
       ledger[i].sha = r.sha /\ ledger[j].run = r.run
  /\ samples <= 1
  /\ \A d \in Desk : desk[d].pc = "sampling" => samples = 0
  /\ \A d, e \in Desk : desk[d].pc = "sampling" /\ desk[e].pc = "sampling" => d = e
  /\ samples > 0 \/ (\E d \in Desk : desk[d].pc = "sampling") =>
       Rows("unseal") # {} /\ Uses("audit") # {}
-----------------------------------------------------------------------------
(* A row goes to the end, after all others.                                *)
LEMMA RowAppended ==
  ASSUME NEW S, NEW s \in Seq(S), NEW x \in S
  PROVE  /\ Append(s, x) \in Seq(S) /\ Continues(s, Append(s, x))
         /\ Len(s) + 1 \in DOMAIN Append(s, x) /\ Append(s, x)[Len(s) + 1] = x
         /\ \A i \in DOMAIN Append(s, x) : i \in DOMAIN s \/ i = Len(s) + 1
         /\ \A i \in DOMAIN s : i \in Nat /\ i < Len(s) + 1
         /\ Len(s) \in Nat
<1>1. Append(s, x) \in Seq(S) /\ Len(Append(s, x)) = Len(s) + 1 /\ Len(s) \in Nat
  OBVIOUS
<1>2. DOMAIN s = 1..Len(s) /\ DOMAIN Append(s, x) = 1..(Len(s) + 1)
  BY <1>1
<1>3. \A i \in 1..Len(s) : Append(s, x)[i] = s[i]
  OBVIOUS
<1>4. Append(s, x)[Len(s) + 1] = x
  OBVIOUS
<1> QED BY <1>1, <1>2, <1>3, <1>4 DEF Continues

(* The elements of a sequence are what the sequence is of.                 *)
LEMMA Elements == ASSUME NEW S, NEW s \in Seq(S) PROVE \A i \in DOMAIN s : s[i] \in S
<1>1. DOMAIN s = 1..Len(s) /\ s \in [1..Len(s) -> S]
  OBVIOUS
<1> QED BY <1>1

(* The places of the kinds are places of the ledger. *)
LEMMA PlacesFinite ==
  ASSUME GateTypesOK, NEW kind
  PROVE  /\ Rows(kind) \subseteq 1..Len(ledger) /\ Len(ledger) \in Nat
         /\ IsFiniteSet(Rows(kind)) /\ Cardinality(Rows(kind)) \in Nat
<1>1. Len(ledger) \in Nat /\ DOMAIN ledger = 1..Len(ledger)
  BY DEF GateTypesOK
<1>2. Rows(kind) \subseteq 1..Len(ledger)
  BY <1>1 DEF Rows
<1>3. IsFiniteSet(1..Len(ledger))
  BY <1>1, FS_Interval
<1>4. IsFiniteSet(Rows(kind))
  BY <1>2, <1>3, FS_Subset
<1> QED BY <1>1, <1>2, <1>4, FS_CardinalityType

(* What was sound stays so as ledger, reports and runs go on.              *)
LEMMA SoundStays ==
  ASSUME NEW r, NEW l1, NEW l2, NEW r1, NEW r2, NEW c1, NEW c2,
         Continues(l1, l2), Continues(r1, r2), Continues(c1, c2),
         GateAssumption, Sound(r, l1, r1, c1)
  PROVE  Sound(r, l2, r2, c2)
<1>1. RunCount(r.extended) \in Nat /\ RunCount(r.extended) > 0
  BY DEF GateAssumption, RunCount
<1>2. /\ r.runs \in [1..RunCount(r.extended) -> DOMAIN c2]
      /\ \A k \in DOMAIN r.runs : c2[r.runs[k]] = c1[r.runs[k]]
      /\ DOMAIN r.runs = 1..RunCount(r.extended)
  BY DEF Sound, Continues
<1>3. 1 \in DOMAIN r.runs
  BY <1>1, <1>2
<1>4. \A k \in DOMAIN r.runs : c2[r.runs[k]].bound = c2[r.runs[1]].bound
  BY <1>2, <1>3 DEF Sound
<1>5. ASSUME r.extended
      PROVE  \E i \in DOMAIN l2 :
            /\ l2[i].kind = "look" /\ l2[i].look = 1
            /\ l2[i].report \in DOMAIN r2
            /\ r2[l2[i].report].allowed
            /\ \A k \in DOMAIN r2[l2[i].report].runs : r.runs[k] = r2[l2[i].report].runs[k]
  <2>1. PICK i \in DOMAIN l1 :
            /\ l1[i].kind = "look" /\ l1[i].look = 1
            /\ l1[i].report \in DOMAIN r1
            /\ r1[l1[i].report].allowed
            /\ \A k \in DOMAIN r1[l1[i].report].runs : r.runs[k] = r1[l1[i].report].runs[k]
    BY <1>5 DEF Sound
  <2>2. i \in DOMAIN l2 /\ l2[i] = l1[i] /\ l1[i].report \in DOMAIN r2
        /\ r2[l1[i].report] = r1[l1[i].report]
    BY <2>1 DEF Continues
  <2> QED BY <2>1, <2>2
<1> QED BY <1>2, <1>4, <1>5 DEF Sound

LEMMA TimesAreNumbers ==
  ASSUME GateTypesOK
  PROVE  \A m \in DOMAIN manifests : manifests[m].made \in Nat
<1>1. manifests \in Seq([claims : Nat, made : Nat])
  BY DEF GateTypesOK
<1>2. \A m \in DOMAIN manifests : manifests[m] \in [claims : Nat, made : Nat]
  BY <1>1, Elements, Zenon
<1> QED BY <1>2

LEMMA ContinuesItself == ASSUME NEW s PROVE Continues(s, s)
BY DEF Continues

(* Desks change one at a time. *)
LEMMA DeskMoves ==
  ASSUME GateTypesOK, NEW d \in Desk, NEW x \in DeskState, Moves(d, x)
  PROVE  /\ desk' \in [Desk -> DeskState] /\ desk'[d] = x
         /\ \A e \in Desk : e # d => desk'[e] = desk[e]
BY DEF GateTypesOK, Moves

(* What a command holds when it starts on the holdout.                     *)
LEMMA DeskTakes ==
  ASSUME GateTypesOK, NEW d \in Desk
  PROVE  /\ Mint(d) \/ CompareHoldout(d) \/ StartAudit(d) =>
              \A e \in Desk : e # d => desk'[e] = desk[e]
         /\ Mint(d) => desk'[d].pc = "minted"
         /\ CompareHoldout(d) => desk'[d].pc = "compared"
         /\ StartAudit(d) => desk'[d].pc = "sampling"
<1>1. ASSUME NEW x, Moves(d, x)
      PROVE  desk'[d] = x /\ \A e \in Desk : e # d => desk'[e] = desk[e]
  BY <1>1 DEF Moves, GateTypesOK
<1>2. ASSUME Mint(d)
      PROVE  desk'[d].pc = "minted" /\ \A e \in Desk : e # d => desk'[e] = desk[e]
  <2>1. PICK sha \in Treatment :
          LET row == [kind |-> "unseal", sha |-> sha, at |-> time]
          IN receipts' = Append(receipts, row) /\ Moves(d, [pc |-> "minted", row |-> row])
    BY <1>2 DEF Mint
  <2> DEFINE x == [pc |-> "minted", row |-> [kind |-> "unseal", sha |-> sha, at |-> time]]
  <2>2. Moves(d, x) /\ x.pc = "minted"
    BY <2>1
  <2> HIDE DEF x
  <2> QED BY <1>1, <2>2
<1>3. ASSUME CompareHoldout(d)
      PROVE  desk'[d].pc = "compared" /\ \A e \in Desk : e # d => desk'[e] = desk[e]
  BY <1>1, <1>3 DEF CompareHoldout
<1>4. ASSUME StartAudit(d)
      PROVE  desk'[d].pc = "sampling" /\ \A e \in Desk : e # d => desk'[e] = desk[e]
  BY <1>1, <1>4 DEF StartAudit
<1> QED BY <1>2, <1>3, <1>4

LEMMA FreeIsDesk == Free \in DeskState /\ Free.pc = "free"
BY DEF Free, DeskState

(* An appended row adds its place to its kind, and to no other.            *)
LEMMA LooksGrow ==
  ASSUME GateTypesOK, NEW row \in Row, ledger' = Append(ledger, row)
  PROVE  /\ ledger' \in Seq(Row) /\ Continues(ledger, ledger')
         /\ \A kind : Rows(kind)' = IF row.kind = kind THEN Rows(kind) \cup {Len(ledger) + 1} ELSE Rows(kind)
         /\ \A kind : \A i \in Rows(kind) : i \in Nat /\ i < Len(ledger) + 1 /\ ledger'[i] = ledger[i]
         /\ ledger'[Len(ledger) + 1] = row /\ Len(ledger) + 1 \in Nat
<1>1. /\ ledger' \in Seq(Row) /\ Continues(ledger, ledger')
      /\ Len(ledger) + 1 \in DOMAIN ledger' /\ ledger'[Len(ledger) + 1] = row
      /\ \A i \in DOMAIN ledger' : i \in DOMAIN ledger \/ i = Len(ledger) + 1
      /\ \A i \in DOMAIN ledger : i \in Nat /\ i < Len(ledger) + 1
      /\ Len(ledger) \in Nat
  <2>1. ledger \in Seq(Row)
    BY DEF GateTypesOK
  <2>2. /\ Append(ledger, row) \in Seq(Row) /\ Continues(ledger, Append(ledger, row))
        /\ Len(ledger) + 1 \in DOMAIN Append(ledger, row) /\ Append(ledger, row)[Len(ledger) + 1] = row
        /\ \A i \in DOMAIN Append(ledger, row) : i \in DOMAIN ledger \/ i = Len(ledger) + 1
        /\ \A i \in DOMAIN ledger : i \in Nat /\ i < Len(ledger) + 1
        /\ Len(ledger) \in Nat
    BY <2>1, RowAppended, Zenon
  <2> QED BY <2>2, Zenon
<1>2. \A i \in DOMAIN ledger : i \in DOMAIN ledger' /\ ledger'[i] = ledger[i]
  BY <1>1 DEF Continues
<1>3. ASSUME NEW kind
      PROVE  Rows(kind)' = IF row.kind = kind THEN Rows(kind) \cup {Len(ledger) + 1} ELSE Rows(kind)
  BY <1>1, <1>2 DEF Rows
<1>4. \A kind : \A i \in Rows(kind) : i \in Nat /\ i < Len(ledger) + 1 /\ ledger'[i] = ledger[i]
  BY <1>1, <1>2 DEF Rows
<1>5. Len(ledger) + 1 \in Nat
  BY <1>1
<1> QED BY <1>1, <1>3, <1>4, <1>5

(* A step that neither looks, nor registers, nor freezes, nor runs.        *)
LEMMA QuietForLooks ==
  ASSUME LookInv, GateTypesOK',
         \/ ledger' = ledger
         \/ \E row \in Row : row.kind \notin {"look", "registration"} /\ ledger' = Append(ledger, row),
         UNCHANGED <<manifests, candidates, reports>>, time' >= time,
         \A d \in Desk : desk'[d] = desk[d] \/ desk'[d].pc \notin {"judged", "reported"}
  PROVE  LookInv'
<1>1. /\ Continues(ledger, ledger')
      /\ \A kind \in {"look", "registration"} : Rows(kind)' = Rows(kind)
      /\ \A kind \in {"look", "registration"} : \A i \in Rows(kind) : ledger'[i] = ledger[i]
  <2>1. CASE ledger' = ledger
    BY <2>1, ContinuesItself DEF Rows
  <2>2. CASE \E row \in Row : row.kind \notin {"look", "registration"} /\ ledger' = Append(ledger, row)
    <3>1. PICK row \in Row : row.kind \notin {"look", "registration"} /\ ledger' = Append(ledger, row)
      BY <2>2
    <3> QED BY <3>1, LooksGrow DEF LookInv
  <2> QED BY <2>1, <2>2
<1>2. Looks' = Looks /\ \A i \in Looks : ledger'[i] = ledger[i]
  BY <1>1 DEF Looks
<1>3. OneRegistration'
  BY <1>1 DEF LookInv, OneRegistration
<1>4. Numbered' /\ Reported'
  <2>1. Numbered'
    BY <1>2 DEF LookInv, Numbered
  <2>2. Reported'
    BY <1>2 DEF LookInv, Reported
  <2> QED BY <2>1, <2>2
<1>5. Bound'
  <2>1. GateTypesOK /\ Bound
    BY DEF LookInv
  <2>2. \A m \in DOMAIN manifests : manifests[m].made <= time'
    <3>1. \A m \in DOMAIN manifests : manifests[m].made <= time
      BY <2>1 DEF Bound
    <3>2. time \in Nat /\ time' \in Nat /\ \A m \in DOMAIN manifests : manifests[m].made \in Nat
      BY <2>1, TimesAreNumbers DEF GateTypesOK
    <3> QED BY <3>1, <3>2
  <2> QED BY <1>1, <2>2 DEF LookInv, Bound
<1>6. AllSound'
  <2>1. Continues(reports, reports) /\ Continues(candidates, candidates)
    BY ContinuesItself
  <2>2. \A r : Sound(r, ledger, reports, candidates) => Sound(r, ledger', reports, candidates)
    BY <1>1, <2>1, SoundStays, GateAssumption
  <2>3. \A n \in DOMAIN reports : Sound(reports[n], ledger', reports, candidates)
    BY <2>2 DEF LookInv, AllSound
  <2>4. \A d \in Desk : desk'[d].pc = "judged" => Sound(desk'[d], ledger', reports, candidates)
    BY <2>2 DEF LookInv, AllSound
  <2>5. \A d \in Desk : desk'[d].pc = "reported" => desk'[d].report \in DOMAIN reports
    BY DEF LookInv, AllSound
  <2> QED BY <2>3, <2>4, <2>5 DEF AllSound
<1> QED BY <1>3, <1>4, <1>5, <1>6 DEF LookInv

(* A step that is not about the holdout. *)
LEMMA QuietForHoldout ==
  ASSUME HoldoutInv, GateTypesOK,
         \/ ledger' = ledger
         \/ \E row \in Row : row.kind \notin {"unseal", "use"} /\ ledger' = Append(ledger, row),
         UNCHANGED <<reviews, samples>>,
         \A d \in Desk : desk'[d].pc = "sampling" => desk[d].pc = "sampling"
  PROVE  HoldoutInv'
<1>1. /\ Rows("unseal")' = Rows("unseal") /\ Rows("use")' = Rows("use")
      /\ \A i \in Rows("unseal") \cup Rows("use") : ledger'[i] = ledger[i]
  <2>1. CASE ledger' = ledger
    BY <2>1 DEF Rows
  <2>2. CASE \E row \in Row : row.kind \notin {"unseal", "use"} /\ ledger' = Append(ledger, row)
    <3>1. PICK row \in Row : row.kind \notin {"unseal", "use"} /\ ledger' = Append(ledger, row)
      BY <2>2
    <3> QED BY <3>1, LooksGrow
  <2> QED BY <2>1, <2>2
<1>2. \A use : Uses(use)' = Uses(use)
  BY <1>1 DEF Uses
<1>3. \A use : \A i \in Uses(use) : ledger'[i] = ledger[i]
  BY <1>1 DEF Uses
<1> QED BY <1>1, <1>2, <1>3 DEF HoldoutInv
-----------------------------------------------------------------------------
(* Elements of the sequences, and the shapes of rows and desks.            *)
LEMMA RowsTyped ==
  ASSUME GateTypesOK
  PROVE  /\ \A i \in Looks : ledger[i] \in [kind : {"look"}, look : 1..2, report : Nat, verdict : Judgement]
         /\ \A i \in Rows("unseal") : ledger[i] \in Unsealing
         /\ \A n \in DOMAIN reports : reports[n] \in Report
         /\ \A i \in DOMAIN receipts : receipts[i] \in Unsealing
<1>1. \A i \in DOMAIN ledger : ledger[i] \in Row
  BY Elements, Zenon DEF GateTypesOK
<1>2. \A row \in Row : row.kind = "look" =>
        row \in [kind : {"look"}, look : 1..2, report : Nat, verdict : Judgement]
  BY DEF Row, Unsealing
<1>3. \A row \in Row : row.kind = "unseal" => row \in Unsealing
  BY DEF Row
<1>4. \A n \in DOMAIN reports : reports[n] \in Report
  BY Elements, Zenon DEF GateTypesOK
<1>5. \A i \in DOMAIN receipts : receipts[i] \in Unsealing
  BY Elements, Zenon DEF GateTypesOK
<1> QED BY <1>1, <1>2, <1>3, <1>4, <1>5, Zenon DEF Looks, Rows

LEMMA DesksTyped ==
  ASSUME GateTypesOK, NEW d \in Desk
  PROVE  /\ desk[d].pc = "judged" =>
              [look |-> desk[d].look, runs |-> desk[d].runs, extended |-> desk[d].extended,
               verdict |-> desk[d].verdict, allowed |-> desk[d].allowed] \in Report
         /\ desk[d].pc = "reported" => desk[d].report \in Nat
         /\ desk[d].pc = "minted" => desk[d].row \in Unsealing
<1>1. desk[d] \in DeskState
  BY DEF GateTypesOK
<1>2. ASSUME desk[d].pc = "judged"
      PROVE  desk[d] \in [pc : {"judged"}, look : 1..2, runs : CountsByArm, extended : BOOLEAN,
                          verdict : Judgement, allowed : BOOLEAN]
  BY <1>1, <1>2 DEF DeskState
<1>3. ASSUME desk[d].pc = "judged"
      PROVE  /\ desk[d].look \in 1..2 /\ desk[d].runs \in CountsByArm /\ desk[d].extended \in BOOLEAN
             /\ desk[d].verdict \in Judgement /\ desk[d].allowed \in BOOLEAN
  BY <1>2, <1>3
<1>4. desk[d].pc = "reported" => desk[d].report \in Nat
  BY <1>1 DEF DeskState
<1>5. desk[d].pc = "minted" => desk[d].row \in Unsealing
  BY <1>1 DEF DeskState
<1>6. desk[d].pc = "judged" =>
              [look |-> desk[d].look, runs |-> desk[d].runs, extended |-> desk[d].extended,
               verdict |-> desk[d].verdict, allowed |-> desk[d].allowed] \in Report
  BY <1>3, Zenon DEF Report
<1> QED BY <1>4, <1>5, <1>6

(* A use is spent at most once: a second one finds the first.              *)
LEMMA UseSpent ==
  ASSUME GateTypesOK, NEW use \in UseKind, NEW run \in Review \cup {"none"},
         ledger' = WithUse(use, run)
  PROVE  \/ Uses(use) # {} /\ ledger' = ledger
         \/ /\ Uses(use) = {}
            /\ \E row \in Row : /\ row.kind = "use" /\ row.use = use /\ row.run = run
                                /\ ledger' = Append(ledger, row)
<1>1. CASE Uses(use) # {}
  BY <1>1 DEF WithUse
<1>2. CASE Uses(use) = {}
  <2> DEFINE row == [kind |-> "use", use |-> use, run |-> run]
  <2>1. row \in Row
    BY DEF Row
  <2>2. ledger' = Append(ledger, row)
    BY <1>2 DEF WithUse
  <2> QED BY <1>2, <2>1, <2>2
<1> QED BY <1>1, <1>2

(* What the ledger holds after the first use of a kind.                    *)
LEMMA FirstUse ==
  ASSUME GateTypesOK, NEW row \in Row, row.kind = "use", ledger' = Append(ledger, row)
  PROVE  /\ Rows("unseal")' = Rows("unseal")
         /\ \A i \in Rows("unseal") : ledger'[i] = ledger[i]
         /\ \A use : Uses(use)' = IF row.use = use THEN Uses(use) \cup {Len(ledger) + 1} ELSE Uses(use)
         /\ \A use : \A i \in Uses(use) : ledger'[i] = ledger[i]
         /\ ledger'[Len(ledger) + 1] = row
<1>1. /\ Rows("unseal")' = Rows("unseal")
      /\ Rows("use")' = Rows("use") \cup {Len(ledger) + 1}
      /\ ledger'[Len(ledger) + 1] = row
      /\ \A i \in Rows("unseal") \cup Rows("use") : ledger'[i] = ledger[i]
  BY LooksGrow
<1>2. ASSUME NEW use
      PROVE  Uses(use)' = IF row.use = use THEN Uses(use) \cup {Len(ledger) + 1} ELSE Uses(use)
  <2>1. Uses(use)' = {i \in Rows("use") \cup {Len(ledger) + 1} : ledger'[i].use = use}
    BY <1>1, Zenon DEF Uses
  <2>2. Uses(use) = {i \in Rows("use") : ledger[i].use = use}
    BY Zenon DEF Uses
  <2> DEFINE n == Len(ledger) + 1
             W == Rows("use")
  <2>3. /\ Uses(use)' = {i \in W \cup {n} : ledger'[i].use = use}
        /\ Uses(use) = {i \in W : ledger[i].use = use}
        /\ ledger'[n].use = row.use /\ \A i \in W : ledger'[i].use = ledger[i].use
    BY <1>1, <2>1, <2>2, Zenon
  <2> HIDE DEF n, W
  <2>4. \A i : i \in Uses(use)' <=> i \in Uses(use) \/ (i = n /\ row.use = use)
    BY <2>3, Zenon
  <2> QED BY <2>4 DEF n
<1>3. \A use : \A i \in Uses(use) : ledger'[i] = ledger[i]
  BY <1>1 DEF Uses
<1> QED BY <1>1, <1>2, <1>3

(* The steps of the holdout: its unsealing, ... *)
LEMMA UnsealStep ==
  ASSUME GateTypesOK, HoldoutInv, NEW d \in Desk, Unseal(d)
  PROVE  HoldoutInv'
<1>1. /\ desk[d].pc = "minted" /\ desk[d].row \in Unsealing
      /\ reviews' = reviews /\ samples' = samples
  BY DesksTyped DEF Unseal, AtDesk
<1>2. \A e \in Desk : desk'[e].pc = "sampling" => desk[e].pc = "sampling"
  BY FreeIsDesk, DeskMoves DEF Unseal, AtDesk, Free
<1>3. CASE ~Sealed
  BY <1>1, <1>2, <1>3, QuietForHoldout DEF Unseal
<1>4. CASE Sealed
  <2>1. ledger' = Append(ledger, desk[d].row) /\ desk[d].row.kind = "unseal" /\ desk[d].row \in Row
    BY <1>1, <1>4 DEF Unseal, Unsealing, Row
  <2>2. Rows("unseal") = {}
    BY <1>4 DEF Sealed
  <2>3. /\ Rows("unseal")' = {Len(ledger) + 1}
        /\ Rows("use")' = Rows("use") /\ \A i \in Rows("use") : ledger'[i] = ledger[i]
    BY <2>1, <2>2, LooksGrow
  <2>4. \A use : Uses(use)' = Uses(use) /\ \A i \in Uses(use) : ledger'[i] = ledger[i]
    BY <2>3 DEF Uses
  <2>5. reviews = {} /\ samples <= 1 /\ ~(samples > 0) /\ \A e \in Desk : desk[e].pc # "sampling"
    BY <2>2 DEF HoldoutInv
  <2>6. \A use \in UseKind : \A i, j \in Uses(use) : i = j
    BY DEF HoldoutInv
  <2> QED BY <1>1, <1>2, <2>3, <2>4, <2>5, <2>6 DEF HoldoutInv
<1> QED BY <1>3, <1>4

(* ... its review, by the run that the first use is of, ... *)
LEMMA ReviewStep ==
  ASSUME GateTypesOK, HoldoutInv, ReviewHoldout
  PROVE  HoldoutInv'
<1>1. PICK n \in DOMAIN receipts, sha \in Treatment, run \in Review :
        /\ Authorized(receipts[n], sha) /\ ~RefusedUse("run", run)
        /\ ledger' = WithUse("run", run) /\ reviews' = reviews \cup {[run |-> run, sha |-> sha]}
        /\ samples' = samples /\ desk' = desk
  BY DEF ReviewHoldout
<1>2. \E k \in Rows("unseal") : ledger[k].sha = sha
  <2>1. PICK k \in DOMAIN ledger : ledger[k] = receipts[n]
    BY <1>1 DEF Authorized
  <2>2. receipts[n].kind = "unseal" /\ receipts[n].sha = sha
    BY <1>1, RowsTyped DEF Authorized, Unsealing
  <2> QED BY <2>1, <2>2 DEF Rows
<1>3. \A i \in Uses("run") : ledger[i].run = run
  BY <1>1 DEF RefusedUse
<1>4. /\ Rows("unseal")' = Rows("unseal") /\ \A i \in Rows("unseal") : ledger'[i] = ledger[i]
      /\ \A use \in UseKind : \A i, j \in Uses(use)' : i = j
      /\ Uses("run") \subseteq Uses("run")' /\ \A i \in Uses("run") : ledger'[i] = ledger[i]
      /\ \E j \in Uses("run")' : ledger'[j].run = run
      /\ Uses("audit")' = Uses("audit")
  <2>1. "run" \in UseKind /\ run \in Review \cup {"none"}
    BY DEF UseKind
  <2>2. \/ Uses("run") # {} /\ ledger' = ledger
        \/ /\ Uses("run") = {}
           /\ \E row \in Row : /\ row.kind = "use" /\ row.use = "run" /\ row.run = run
                               /\ ledger' = Append(ledger, row)
    <3>1. ledger' = WithUse("run", run)
      BY <1>1, Zenon
    <3> QED BY <2>1, <3>1, UseSpent
  <2>3. \A use \in UseKind : \A i, j \in Uses(use) : i = j
    BY DEF HoldoutInv
  <2>4. CASE Uses("run") # {} /\ ledger' = ledger
    BY <1>3, <2>3, <2>4 DEF Rows, Uses
  <2>5. ASSUME Uses("run") = {}, NEW row \in Row, row.kind = "use", row.use = "run", row.run = run,
               ledger' = Append(ledger, row)
        PROVE  <1>4!:
    <3>1. /\ Rows("unseal")' = Rows("unseal")
          /\ \A i \in Rows("unseal") : ledger'[i] = ledger[i]
          /\ \A use : Uses(use)' = IF row.use = use THEN Uses(use) \cup {Len(ledger) + 1} ELSE Uses(use)
          /\ ledger'[Len(ledger) + 1] = row
      BY <2>5, FirstUse, Zenon
    <3> QED BY <2>3, <2>5, <3>1
  <2> QED BY <2>2, <2>4, <2>5
<1>5. \A r \in reviews' : \E i \in Rows("unseal")', j \in Uses("run")' :
        ledger'[i].sha = r.sha /\ ledger'[j].run = r.run
  <2>1. \A r \in reviews : \E i \in Rows("unseal"), j \in Uses("run") :
          ledger[i].sha = r.sha /\ ledger[j].run = r.run
    BY DEF HoldoutInv
  <2> QED BY <1>1, <1>2, <1>4, <2>1
<1> QED BY <1>1, <1>4, <1>5 DEF HoldoutInv

(* ... its audit, started once and drawn once, ... *)
LEMMA AuditStep ==
  ASSUME GateTypesOK, HoldoutInv, NEW d \in Desk, StartAudit(d)
  PROVE  HoldoutInv'
<1>1. PICK n \in DOMAIN receipts, r \in reviews :
        Authorized(receipts[n], r.sha) /\ ~RefusedUse("audit", "none")
  BY DEF StartAudit
<1>2. ledger' = WithUse("audit", "none") /\ reviews' = reviews /\ samples' = samples
  BY DEF StartAudit
<1>3. Uses("audit") = {} /\ "audit" \in UseKind /\ "none" \in Review \cup {"none"}
  BY <1>1 DEF RefusedUse, UseKind
<1>4. PICK row \in Row : row.kind = "use" /\ row.use = "audit" /\ ledger' = Append(ledger, row)
  BY <1>2, <1>3, UseSpent
<1>5. /\ Rows("unseal")' = Rows("unseal")
      /\ \A i \in Rows("unseal") : ledger'[i] = ledger[i]
      /\ \A use : Uses(use)' = IF row.use = use THEN Uses(use) \cup {Len(ledger) + 1} ELSE Uses(use)
      /\ \A use : \A i \in Uses(use) : ledger'[i] = ledger[i]
  BY <1>4, FirstUse, Zenon
<1>6. \A use \in UseKind : \A i, j \in Uses(use)' : i = j
  BY <1>3, <1>4, <1>5 DEF HoldoutInv
<1>7. Uses("audit")' # {} /\ Uses("run")' = Uses("run")
  BY <1>4, <1>5
<1>8. Rows("unseal") # {}
  BY <1>1 DEF HoldoutInv
<1>9. samples <= 1 /\ ~(samples > 0) /\ \A e \in Desk : desk[e].pc # "sampling"
  BY <1>3 DEF HoldoutInv
<1>10. samples = 0
  BY <1>9 DEF GateTypesOK
<1>11. \A e \in Desk : e # d => desk'[e] = desk[e]
  BY DEF StartAudit, Moves, GateTypesOK
<1>12. \A e \in Desk : desk'[e].pc = "sampling" => e = d
  BY <1>9, <1>11
<1>13. \A q \in reviews : \E i \in Rows("unseal"), j \in Uses("run") :
          ledger[i].sha = q.sha /\ ledger[j].run = q.run
  BY DEF HoldoutInv
<1>14. \A i, j \in Rows("unseal") : i = j
  BY DEF HoldoutInv
<1>15. \A q \in reviews : \E i \in Rows("unseal"), j \in Uses("run") :
          ledger'[i].sha = q.sha /\ ledger'[j].run = q.run
  BY <1>5, <1>13
<1> QED BY <1>2, <1>5, <1>6, <1>7, <1>8, <1>10, <1>12, <1>14, <1>15 DEF HoldoutInv

LEMMA SampleStep ==
  ASSUME GateTypesOK, HoldoutInv, NEW d \in Desk, WriteSample(d)
  PROVE  HoldoutInv'
<1>1. desk[d].pc = "sampling" /\ samples' = samples + 1 /\ ledger' = ledger /\ reviews' = reviews
  BY DEF WriteSample, AtDesk
<1>2. samples = 0 /\ \A e \in Desk : desk[e].pc = "sampling" => e = d
  BY <1>1 DEF HoldoutInv
<1>3. \A e \in Desk : desk'[e].pc # "sampling"
  BY <1>1, <1>2, FreeIsDesk, DeskMoves DEF WriteSample, Free
<1>4. \A kind : Rows(kind)' = Rows(kind) /\ \A use : Uses(use)' = Uses(use)
  BY <1>1 DEF Rows, Uses
<1> QED BY <1>1, <1>2, <1>3, <1>4 DEF HoldoutInv

(* ... and its comparison. *)
LEMMA ComparisonStep ==
  ASSUME GateTypesOK, HoldoutInv, NEW d \in Desk, UseComparison(d)
  PROVE  HoldoutInv'
<1>1. /\ reviews' = reviews /\ samples' = samples
      /\ \A e \in Desk : desk'[e].pc = "sampling" => desk[e].pc = "sampling"
  BY FreeIsDesk, DeskMoves DEF UseComparison, Free
<1>2. CASE ledger' = ledger
  BY <1>1, <1>2, QuietForHoldout
<1>3. CASE ledger' # ledger
  <2>1. ledger' = WithUse("compare", "none") /\ "compare" \in UseKind /\ "none" \in Review \cup {"none"}
    BY <1>3 DEF UseComparison, UseKind
  <2>2. PICK row \in Row : row.kind = "use" /\ row.use = "compare" /\ ledger' = Append(ledger, row)
                           /\ Uses("compare") = {}
    BY <1>3, <2>1, UseSpent
  <2>3. /\ Rows("unseal")' = Rows("unseal")
        /\ \A i \in Rows("unseal") : ledger'[i] = ledger[i]
        /\ \A use : Uses(use)' = IF row.use = use THEN Uses(use) \cup {Len(ledger) + 1} ELSE Uses(use)
        /\ \A use : \A i \in Uses(use) : ledger'[i] = ledger[i]
    BY <2>2, FirstUse, Zenon
  <2>4. \A use \in UseKind : \A i, j \in Uses(use)' : i = j
    BY <2>2, <2>3 DEF HoldoutInv
  <2>5. Uses("audit")' = Uses("audit") /\ Uses("run")' = Uses("run")
    BY <2>2, <2>3
  <2> QED BY <1>1, <2>3, <2>4, <2>5 DEF HoldoutInv
<1> QED BY <1>2, <1>3
-----------------------------------------------------------------------------
(* The first of the looks is the one with number 1.                        *)
LEMMA FirstLookIsOne ==
  ASSUME LookInv, Looks # {}
  PROVE  FirstLook \in Looks /\ ledger[FirstLook].look = 1
<1>1. Looks \subseteq 1..Len(ledger) /\ Len(ledger) \in Nat
  BY PlacesFinite DEF LookInv, Looks
<1>2. \E i \in Looks : \A j \in Looks : i <= j
  <2>1. IsWellFoundedOn(OpToRel(<, Nat), Nat)
    BY NatLessThanWellFounded
  <2>2. Looks \in SUBSET Nat
    BY <1>1
  <2>3. PICK i \in Looks : \A j \in Looks : ~ (<<j, i>> \in OpToRel(<, Nat))
    BY <2>1, <2>2, WFMin, Zenon
  <2>4. \A j \in Looks : ~(j < i) /\ j \in Nat /\ i \in Nat
    BY <2>2, <2>3 DEF OpToRel
  <2> QED BY <2>4
<1>3. FirstLook \in Looks /\ \A j \in Looks : FirstLook <= j
  BY <1>2 DEF FirstLook
<1>4. {j \in Looks : j <= FirstLook} = {FirstLook}
  <2>1. \A j \in Looks : j \in Nat
    BY <1>1
  <2>2. FirstLook \in Nat
    BY <1>3, <2>1
  <2>3. \A j \in Looks : j <= FirstLook <=> j = FirstLook
    BY <1>3, <2>1, <2>2
  <2> QED BY <1>3, <2>3
<1>5. Cardinality({FirstLook}) = 1
  BY FS_Singleton
<1> QED BY <1>3, <1>4, <1>5 DEF LookInv, Numbered

(* A later look has the greater number: of two, the earlier has number 1.  *)
LEMMA LooksInOrder ==
  ASSUME LookInv, NEW i \in Looks, NEW j \in Looks, i < j
  PROVE  ledger[i].look = 1 /\ ledger[j].look = 2
<1>1. /\ Looks \subseteq 1..Len(ledger) /\ Len(ledger) \in Nat
      /\ IsFiniteSet(Looks) /\ Cardinality(Looks) \in Nat /\ Cardinality(Looks) <= 2
  BY PlacesFinite DEF LookInv, Looks, Numbered
<1> DEFINE A == {k \in Looks : k <= i}
           B == {k \in Looks : k <= j}
<1>2. IsFiniteSet(A) /\ IsFiniteSet(B)
  BY <1>1, FS_Subset
<1>3. A \subseteq B \ {j} /\ j \in B /\ i \in A
  <2>1. \A k \in Looks : k \in Nat
    BY <1>1
  <2>2. i \in Nat /\ j \in Nat
    BY <2>1
  <2>3. \A k \in Looks : k <= i => k <= j /\ k # j
    BY <2>1, <2>2
  <2>4. i <= i /\ j <= j
    BY <2>2
  <2> QED BY <2>3, <2>4, Zenon
<1>4. Cardinality(A) < Cardinality(B)
  <2>1. IsFiniteSet(B \ {j}) /\ Cardinality(B \ {j}) = Cardinality(B) - 1
    BY <1>2, <1>3, FS_RemoveElement
  <2>2. Cardinality(A) <= Cardinality(B \ {j})
    BY <1>3, <2>1, FS_Subset
  <2>3. Cardinality(B) \in Nat /\ Cardinality(A) \in Nat
    BY <1>2, FS_CardinalityType
  <2> HIDE DEF A, B
  <2> QED BY <2>1, <2>2, <2>3
<1>5. Cardinality(B) <= Cardinality(Looks)
  BY <1>1, FS_Subset
<1>6. Cardinality(A) \in Nat /\ Cardinality(B) \in Nat /\ Cardinality(A) # 0
  BY <1>2, <1>3, FS_CardinalityType, FS_EmptySet
<1>7. ledger[i].look = Cardinality(A) /\ ledger[j].look = Cardinality(B)
  BY DEF LookInv, Numbered
<1> QED BY <1>1, <1>4, <1>5, <1>6, <1>7

(* The steps of the gate: a list is frozen, ... *)
LEMMA FreezeStep ==
  ASSUME LookInv, GateTypesOK', Freeze
  PROVE  LookInv'
<1>1. PICK at \in 0..MaxClock : manifests' = Append(manifests, [claims |-> at, made |-> time])
  BY DEF Freeze
<1>2. UNCHANGED <<time, ledger, candidates, reports, desk>>
  BY DEF Freeze
<1> DEFINE row == [claims |-> at, made |-> time]
<1>3. /\ Continues(manifests, Append(manifests, row))
      /\ Append(manifests, row)[Len(manifests) + 1] = row
      /\ \A i \in DOMAIN Append(manifests, row) : i \in DOMAIN manifests \/ i = Len(manifests) + 1
  <2> DEFINE S == [claims : Nat, made : Nat]
  <2>1. row \in S /\ manifests \in Seq(S)
    BY GateAssumption DEF GateAssumption, LookInv, GateTypesOK
  <2> HIDE DEF row, S
  <2> QED BY <2>1, RowAppended, Zenon
<1>4. Bound'
  <2>1. \A m \in DOMAIN manifests : m \in DOMAIN manifests' /\ manifests'[m] = manifests[m]
    BY <1>1, <1>3 DEF Continues
  <2>2. \A m \in DOMAIN manifests' : manifests'[m].made <= time
    <3>1. \A m \in DOMAIN manifests' : m \in DOMAIN manifests \/ manifests'[m] = row
      BY <1>1, <1>3
    <3>2. \A m \in DOMAIN manifests : manifests[m].made <= time
      BY DEF LookInv, Bound
    <3>3. row.made = time /\ time \in Nat
      BY DEF LookInv, GateTypesOK
    <3> QED BY <2>1, <3>1, <3>2, <3>3
  <2>3. Bound /\ Rows("registration")' = Rows("registration")
    BY <1>2 DEF LookInv, Rows
  <2> QED BY <1>2, <2>1, <2>2, <2>3 DEF Bound
<1>5. Looks' = Looks /\ Rows("registration")' = Rows("registration")
  BY <1>2 DEF Looks, Rows
<1>6. OneRegistration' /\ Numbered' /\ Reported' /\ AllSound'
  BY <1>2, <1>5 DEF LookInv, OneRegistration, Numbered, Reported, AllSound
<1> QED BY <1>4, <1>6 DEF LookInv

(* ... a rule registered, when nothing has run, ... *)
LEMMA RegisterStep ==
  ASSUME LookInv, GateTypesOK', Register
  PROVE  LookInv'
<1> DEFINE row == [kind |-> "registration", at |-> time]
<1>1. /\ UNCHANGED <<time, manifests, candidates, reports, desk>>
      /\ ledger' = Append(ledger, row) /\ Rows("registration") = {} /\ Looks = {}
  BY DEF Register
<1>2. row \in Row /\ row.kind = "registration"
  BY DEF Row, LookInv, GateTypesOK
<1> HIDE DEF row
<1>3. /\ Continues(ledger, ledger')
      /\ Rows("registration")' = {Len(ledger) + 1} /\ Looks' = {}
  BY <1>1, <1>2, LooksGrow DEF LookInv, Looks
<1>4. OneRegistration' /\ Numbered' /\ Reported'
  BY <1>3, FS_EmptySet DEF OneRegistration, Numbered, Reported
<1>5. Bound'
  <2>1. DOMAIN candidates = {}
    BY <1>1 DEF LookInv, Bound
  <2> QED BY <1>1, <2>1 DEF LookInv, Bound
<1>6. AllSound'
  <2>1. \A r : Sound(r, ledger, reports, candidates) => Sound(r, ledger', reports, candidates)
    BY <1>3, SoundStays, ContinuesItself, GateAssumption
  <2> QED BY <1>1, <2>1 DEF LookInv, AllSound
<1> QED BY <1>4, <1>5, <1>6 DEF LookInv

(* ... a candidate started, after both, ... *)
LEMMA CandidateStep ==
  ASSUME LookInv, GateTypesOK', StartCandidate
  PROVE  LookInv'
<1>1. PICK m \in DOMAIN manifests, index \in 1..(InitialRuns + ExtensionRuns) :
        candidates' = Append(candidates, [index |-> index, started |-> time, bound |-> m])
  BY DEF StartCandidate
<1>2. UNCHANGED <<time, ledger, manifests, reports, desk>> /\ RegisteredBefore(time)
  BY DEF StartCandidate
<1> DEFINE row == [index |-> index, started |-> time, bound |-> m]
<1>3. /\ Continues(candidates, Append(candidates, row))
      /\ Append(candidates, row)[Len(candidates) + 1] = row
      /\ \A i \in DOMAIN Append(candidates, row) : i \in DOMAIN candidates \/ i = Len(candidates) + 1
  <2> DEFINE S == [index : Nat, started : Nat, bound : Nat]
  <2>1. candidates \in Seq(S) /\ time \in Nat
    BY DEF LookInv, GateTypesOK
  <2>2. index \in Nat /\ m \in Nat
    <3> DEFINE R == [claims : Nat, made : Nat]
    <3>1. manifests \in Seq(R)
      BY DEF LookInv, GateTypesOK
    <3> HIDE DEF R
    <3>2. m \in Nat
      BY <3>1
    <3>3. index \in Nat
      BY GateAssumption DEF GateAssumption
    <3> QED BY <3>2, <3>3
  <2>3. row \in S
    BY <2>1, <2>2
  <2> HIDE DEF row, S
  <2> QED BY <2>1, <2>3, RowAppended, Zenon
<1>4. Rows("registration")' = Rows("registration") /\ Looks' = Looks
  BY <1>2 DEF Looks, Rows
<1>5. Rows("registration") # {} /\ \A i \in Rows("registration") : ledger[i].at < time
  BY <1>2, FS_EmptySet DEF RegisteredBefore, Registered, Precedes
<1>6. Bound'
  <2>1. \A c \in DOMAIN candidates : c \in DOMAIN candidates' /\ candidates'[c] = candidates[c]
    BY <1>1, <1>3 DEF Continues
  <2>2. manifests[m].made <= time
    BY DEF LookInv, Bound
  <2>3. \A c \in DOMAIN candidates' : c \in DOMAIN candidates \/ candidates'[c] = row
    BY <1>1, <1>3
  <2>4. \A c \in DOMAIN candidates' :
           /\ candidates'[c].bound \in DOMAIN manifests
           /\ manifests[candidates'[c].bound].made <= candidates'[c].started
           /\ \A i \in Rows("registration") : ledger[i].at < candidates'[c].started
    BY <1>5, <2>1, <2>2, <2>3 DEF LookInv, Bound
  <2> QED BY <1>2, <1>4, <1>5, <2>4 DEF LookInv, Bound
<1>7. AllSound'
  <2>1. Continues(candidates, candidates')
    BY <1>1, <1>3
  <2>2. \A r : Sound(r, ledger, reports, candidates) => Sound(r, ledger, reports, candidates')
    BY <2>1, SoundStays, ContinuesItself, GateAssumption
  <2> QED BY <1>2, <2>2 DEF LookInv, AllSound
<1>8. OneRegistration' /\ Numbered' /\ Reported'
  BY <1>2, <1>4 DEF LookInv, OneRegistration, Numbered, Reported
<1> QED BY <1>6, <1>7, <1>8 DEF LookInv

(* A verdict that may be extended is open; that of an extension is not.    *)
LEMMA VerdictShapes ==
  ASSUME GateAssumption, NEW primary \in Judgement, NEW others \in SUBSET Judgement, NEW e \in BOOLEAN
  PROVE  LET v == Verdict(rule, primary, others, e, ExtensionRuns)
         IN /\ v \in Judgement
            /\ ExtensionAllowed(rule, v, e, ExtensionRuns) \in BOOLEAN
            /\ ExtensionAllowed(rule, v, e, ExtensionRuns) =>
                 v = "inconclusive" /\ ~e /\ ExtensionRuns > 0
            /\ rule = "wave" /\ e => v # "inconclusive"
BY DEF Verdict, ExtensionAllowed, Judgement, GateAssumption

(* ... a comparison judged, on runs that go on from the first look where   *)
(* it is extended, ... *)
LEMMA JudgedSound ==
  ASSUME LookInv, NEW d \in Desk, Compare(d)
  PROVE  /\ desk'[d].pc = "judged" /\ desk'[d] \in DeskState
         /\ Sound(desk'[d], ledger, reports, candidates)
         /\ \A e \in Desk : e # d => desk'[e] = desk[e]
         /\ desk' \in [Desk -> DeskState]
<1>1. PICK m \in DOMAIN manifests, base \in {0} \cup DOMAIN reports :
      \E s \in NamedRuns(m, base # 0) :
       /\ NextLook = 2 => base # 0
       /\ \A i \in DOMAIN s : LET started == candidates[s[i]].started
                              IN RegisteredBefore(started) /\ FrozenBefore(m, started)
       /\ base # 0 => Extends(s, reports[base])
       /\ \E primary \in Judgement, others \in SUBSET Judgement :
            LET v == Verdict(rule, primary, others, base # 0, ExtensionRuns)
            IN Moves(d, [pc |-> "judged", look |-> NextLook, runs |-> s, extended |-> base # 0,
                         verdict |-> v,
                         allowed |-> ExtensionAllowed(rule, v, base # 0, ExtensionRuns)])
  BY Zenon DEF Compare
<1>2. PICK s \in NamedRuns(m, base # 0) :
       /\ NextLook = 2 => base # 0
       /\ base # 0 => Extends(s, reports[base])
       /\ \E primary \in Judgement, others \in SUBSET Judgement :
            LET v == Verdict(rule, primary, others, base # 0, ExtensionRuns)
            IN Moves(d, [pc |-> "judged", look |-> NextLook, runs |-> s, extended |-> base # 0,
                         verdict |-> v,
                         allowed |-> ExtensionAllowed(rule, v, base # 0, ExtensionRuns)])
  BY <1>1
<1>3. PICK primary \in Judgement, others \in SUBSET Judgement :
            LET v == Verdict(rule, primary, others, base # 0, ExtensionRuns)
            IN Moves(d, [pc |-> "judged", look |-> NextLook, runs |-> s, extended |-> base # 0,
                         verdict |-> v,
                         allowed |-> ExtensionAllowed(rule, v, base # 0, ExtensionRuns)])
  BY <1>2
<1> DEFINE e == base # 0
           v == Verdict(rule, primary, others, e, ExtensionRuns)
           a == ExtensionAllowed(rule, v, e, ExtensionRuns)
           r == [pc |-> "judged", look |-> NextLook, runs |-> s, extended |-> e,
                 verdict |-> v, allowed |-> a]
<1>4. Moves(d, r)
  BY <1>3
<1>5. /\ v \in Judgement /\ a \in BOOLEAN /\ e \in BOOLEAN
      /\ a => v = "inconclusive" /\ ~e /\ ExtensionRuns > 0
      /\ rule = "wave" /\ e => v # "inconclusive"
  BY VerdictShapes, GateAssumption, Zenon
<1>6. /\ r.pc = "judged" /\ r.look = NextLook /\ r.runs = s /\ r.extended = e
      /\ r.verdict = v /\ r.allowed = a
  OBVIOUS
<1>7. /\ s \in [1..RunCount(e) -> DOMAIN candidates]
      /\ \A i \in DOMAIN s : candidates[s[i]].bound = m
  BY DEF NamedRuns
<1>8. /\ Registered /\ Cardinality(Looks) \in Nat /\ Cardinality(Looks) < 2 /\ IsFiniteSet(Looks)
      /\ NextLook = Cardinality(Looks) + 1
  BY PlacesFinite DEF Compare, LookLeft, NextLook, LookInv, Looks
<1>9. NextLook = IF e THEN 2 ELSE 1
  <2>1. e => Looks # {}
    BY <1>2 DEF Extends
  <2>2. e => Cardinality(Looks) # 0
    BY <2>1, <1>8, FS_EmptySet
  <2>3. ~e => NextLook # 2
    BY <1>2
  <2> HIDE DEF e
  <2> QED BY <1>8, <2>2, <2>3
<1>10. 1 \in DOMAIN s
  <2>1. RunCount(e) \in Nat /\ RunCount(e) >= 1
    BY GateAssumption DEF GateAssumption, RunCount
  <2> QED BY <1>7, <2>1
<1>11. DOMAIN candidates \subseteq Nat
  <2>1. candidates \in Seq([index : Nat, started : Nat, bound : Nat])
    BY DEF LookInv, GateTypesOK
  <2>2. DOMAIN candidates = 1..Len(candidates) /\ Len(candidates) \in Nat
    BY <2>1
  <2> QED BY <2>2
<1>12. s \in CountsByArm
  <2>1. s \in [1..RunCount(e) -> Nat]
    BY <1>7, <1>11
  <2> HIDE DEF e
  <2> QED BY <1>5, <2>1 DEF CountsByArm
<1>13. ASSUME e
       PROVE  /\ v # "inconclusive"
              /\ \E i \in DOMAIN ledger :
                   /\ ledger[i].kind = "look" /\ ledger[i].look = 1
                   /\ ledger[i].report \in DOMAIN reports
                   /\ reports[ledger[i].report].allowed
                   /\ \A k \in DOMAIN reports[ledger[i].report].runs :
                        s[k] = reports[ledger[i].report].runs[k]
  <2>1. Extends(s, reports[base])
    BY <1>2, <1>13
  <2>2. Looks # {} /\ FirstLook \in Looks /\ ledger[FirstLook].look = 1
    BY <2>1, FirstLookIsOne DEF Extends
  <2>3. ledger[FirstLook].report \in DOMAIN reports
    BY <2>2 DEF LookInv, Reported
  <2>4. /\ reports[ledger[FirstLook].report] = reports[base]
        /\ reports[base].allowed
        /\ \A k \in DOMAIN reports[base].runs : s[k] = reports[base].runs[k]
        /\ rule = "wave"
    BY <2>1 DEF Extends
  <2>5. FirstLook \in DOMAIN ledger /\ ledger[FirstLook].kind = "look"
    BY <2>2 DEF Looks, Rows
  <2>6. v # "inconclusive"
    BY <1>5, <1>13, <2>4
  <2> QED BY <2>2, <2>3, <2>4, <2>5, <2>6
<1> HIDE DEF e, v, a, r
<1>14. Sound(r, ledger, reports, candidates)
  <2>1. \A k \in DOMAIN s : candidates[s[k]].bound = candidates[s[1]].bound
    BY <1>7, <1>10
  <2> QED BY <1>5, <1>6, <1>7, <1>9, <1>13, <2>1 DEF Sound
<1>15. r \in DeskState
  <2>1. NextLook \in 1..2
    BY <1>8
  <2>2. r \in [pc : {"judged"}, look : 1..2, runs : CountsByArm, extended : BOOLEAN,
               verdict : Judgement, allowed : BOOLEAN]
    BY <1>5, <1>12, <2>1, Zenon DEF r
  <2> QED BY <2>2 DEF DeskState
<1>16. desk'[d] = r /\ desk' \in [Desk -> DeskState] /\ \A x \in Desk : x # d => desk'[x] = desk[x]
  BY <1>4, <1>15, DeskMoves DEF LookInv
<1> QED BY <1>6, <1>14, <1>15, <1>16

LEMMA CompareStep ==
  ASSUME LookInv, GateTypesOK', NEW d \in Desk, Compare(d)
  PROVE  LookInv'
<1>1. UNCHANGED <<time, ledger, manifests, candidates, reports>>
  BY DEF Compare
<1>2. Looks' = Looks /\ Rows("registration")' = Rows("registration")
  BY <1>1 DEF Looks, Rows
<1>3. OneRegistration' /\ Numbered' /\ Reported'
  BY <1>1, <1>2 DEF LookInv, OneRegistration, Numbered, Reported
<1>4. Bound'
  BY <1>1, <1>2 DEF LookInv, Bound
<1>5. AllSound'
  BY <1>1, JudgedSound DEF LookInv, AllSound
<1> QED BY <1>3, <1>4, <1>5 DEF LookInv

(* ... its report written, ... *)
LEMMA ReportStep ==
  ASSUME LookInv, GateTypesOK', NEW d \in Desk, WriteReport(d)
  PROVE  LookInv'
<1> DEFINE r == [look |-> desk[d].look, runs |-> desk[d].runs, extended |-> desk[d].extended,
                 verdict |-> desk[d].verdict, allowed |-> desk[d].allowed]
           n == Len(reports) + 1
           after == [pc |-> "reported", report |-> n]
<1>1. /\ UNCHANGED <<time, ledger, manifests, candidates>>
      /\ reports' = Append(reports, r) /\ desk[d].pc = "judged" /\ Moves(d, after)
  BY DEF WriteReport, AtDesk
<1>2. r \in Report
  BY <1>1, DesksTyped DEF LookInv
<1>3. /\ r.look = desk[d].look /\ r.runs = desk[d].runs /\ r.extended = desk[d].extended
      /\ r.verdict = desk[d].verdict /\ r.allowed = desk[d].allowed
  OBVIOUS
<1>4. /\ Continues(reports, Append(reports, r)) /\ Append(reports, r)[n] = r
      /\ n \in DOMAIN Append(reports, r)
      /\ \A i \in DOMAIN Append(reports, r) : i \in DOMAIN reports \/ i = n
      /\ Len(reports) \in Nat
  <2>1. reports \in Seq(Report)
    BY DEF LookInv, GateTypesOK
  <2> HIDE DEF r
  <2> QED BY <1>2, <2>1, RowAppended, Zenon
<1> HIDE DEF r
<1>5. /\ Continues(reports, reports') /\ reports'[n] = r /\ n \in DOMAIN reports'
      /\ \A i \in DOMAIN reports' : i \in DOMAIN reports \/ i = n
  BY <1>1, <1>4
<1>6. \A i \in DOMAIN reports : i \in DOMAIN reports' /\ reports'[i] = reports[i]
  BY <1>5 DEF Continues
<1>7. /\ desk'[d] = after /\ \A x \in Desk : x # d => desk'[x] = desk[x]
  BY <1>1 DEF Moves, LookInv, GateTypesOK
<1>8. Looks' = Looks /\ Rows("registration")' = Rows("registration")
  BY <1>1 DEF Looks, Rows
<1>9. OneRegistration' /\ Numbered'
  BY <1>1, <1>8 DEF LookInv, OneRegistration, Numbered
<1>10. Reported'
  BY <1>1, <1>6, <1>8 DEF LookInv, Reported
<1>11. Bound'
  BY <1>1, <1>8 DEF LookInv, Bound
<1>12. AllSound'
  <2>1. \A x : Sound(x, ledger, reports, candidates) => Sound(x, ledger, reports', candidates)
    BY <1>5, SoundStays, ContinuesItself, GateAssumption
  <2>2. Sound(desk[d], ledger, reports, candidates)
    BY <1>1 DEF LookInv, AllSound
  <2>3. Sound(r, ledger, reports, candidates)
    BY <1>3, <2>2 DEF Sound
  <2>4. \A i \in DOMAIN reports' : Sound(reports'[i], ledger, reports', candidates)
    BY <1>5, <1>6, <2>1, <2>3 DEF LookInv, AllSound
  <2>5. \A x \in Desk : desk'[x].pc = "judged" => Sound(desk'[x], ledger, reports', candidates)
    <3>1. after.pc # "judged"
      OBVIOUS
    <3> QED BY <1>7, <2>1, <3>1 DEF LookInv, AllSound
  <2>6. \A x \in Desk : desk'[x].pc = "reported" => desk'[x].report \in DOMAIN reports'
    <3>1. after.report = n
      OBVIOUS
    <3> HIDE DEF after, n
    <3> QED BY <1>5, <1>6, <1>7, <3>1 DEF LookInv, AllSound
  <2> QED BY <1>1, <2>4, <2>5, <2>6 DEF AllSound
<1> QED BY <1>9, <1>10, <1>11, <1>12 DEF LookInv

(* ... and its look recorded, if it is still the next one.                 *)
LEMMA LookStep ==
  ASSUME LookInv, GateTypesOK', NEW d \in Desk, RecordLook(d)
  PROVE  LookInv'
<1> DEFINE n == desk[d].report
           r == reports[n]
           row == [kind |-> "look", look |-> r.look, report |-> n, verdict |-> r.verdict]
<1>1. /\ UNCHANGED <<time, manifests, candidates, reports>> /\ desk[d].pc = "reported"
      /\ ledger' = (IF StillNext(r.look) THEN Append(ledger, row) ELSE ledger)
      /\ Moves(d, Free)
  BY DEF RecordLook, AtDesk
<1>2. desk'[d].pc = "free" /\ \A x \in Desk : x # d => desk'[x] = desk[x]
  BY <1>1, DeskMoves, FreeIsDesk DEF LookInv
<1>3. CASE ~StillNext(r.look)
  <2>1. ledger' = ledger /\ time' >= time
    BY <1>1, <1>3 DEF LookInv, GateTypesOK
  <2>2. \A x \in Desk : desk'[x] = desk[x] \/ desk'[x].pc \notin {"judged", "reported"}
    BY <1>2
  <2> HIDE DEF n, r, row
  <2> QED BY <1>1, <2>1, <2>2, QuietForLooks
<1>4. CASE StillNext(r.look)
  <2>1. ledger' = Append(ledger, row)
    BY <1>1, <1>4
  <2>2. n \in DOMAIN reports /\ r \in Report /\ n \in Nat
    BY <1>1, RowsTyped, DesksTyped DEF LookInv, AllSound
  <2>3. row \in Row
    <3>1. r.look \in 1..2 /\ r.verdict \in Judgement
      BY <2>2 DEF Report
    <3>2. row \in [kind : {"look"}, look : 1..2, report : Nat, verdict : Judgement]
      BY <2>2, <3>1
    <3> QED BY <3>2 DEF Row
  <2>4. row.kind = "look" /\ row.look = r.look /\ row.report = n /\ row.verdict = r.verdict
    OBVIOUS
  <2> HIDE DEF row
  <2>5. /\ Continues(ledger, ledger') /\ ledger'[Len(ledger) + 1] = row /\ Len(ledger) + 1 \in Nat
        /\ Looks' = Looks \cup {Len(ledger) + 1} /\ Rows("registration")' = Rows("registration")
        /\ \A i \in Looks : i \in Nat /\ i < Len(ledger) + 1 /\ ledger'[i] = ledger[i]
        /\ \A i \in Rows("registration") : ledger'[i] = ledger[i]
    <3>1. GateTypesOK /\ row.kind # "registration"
      BY <2>4 DEF LookInv
    <3> QED BY <2>1, <2>3, <2>4, <3>1, LooksGrow DEF Looks
  <2> DEFINE last == Len(ledger) + 1
  <2>6. /\ IsFiniteSet(Looks) /\ Cardinality(Looks) \in Nat /\ Cardinality(Looks) < 2
        /\ r.look = Cardinality(Looks) + 1
    BY <1>4, PlacesFinite DEF StillNext, LookLeft, NextLook, LookInv, Looks
  <2> HIDE DEF last, n, r
  <2>7. last \in Nat /\ last \notin Looks /\ \A i \in Looks : i \in Nat /\ i < last
    BY <2>5 DEF last
  <2>8. Looks' = Looks \cup {last} /\ ledger'[last] = row
    BY <2>5 DEF last
  <2>9. Cardinality(Looks \cup {last}) = Cardinality(Looks) + 1
    BY <2>6, <2>7, FS_AddElement
  <2>10. Numbered'
    <3>1. Cardinality(Looks') <= 2
      BY <2>6, <2>8, <2>9
    <3>2. ASSUME NEW i \in Looks
          PROVE  ledger'[i].look = Cardinality({j \in Looks' : j <= i})
      <4>1. {j \in Looks' : j <= i} = {j \in Looks : j <= i}
        BY <2>7, <2>8
      <4>2. ledger[i].look = Cardinality({j \in Looks : j <= i})
        BY DEF LookInv, Numbered
      <4> QED BY <2>5, <4>1, <4>2
    <3>3. ledger'[last].look = Cardinality({j \in Looks' : j <= last})
      <4>1. {j \in Looks' : j <= last} = Looks \cup {last}
        BY <2>7, <2>8
      <4> QED BY <2>4, <2>6, <2>8, <2>9, <4>1
    <3> QED BY <2>8, <3>1, <3>2, <3>3 DEF Numbered
  <2>11. Reported'
    <3>1. \A i \in Looks : ledger'[i] = ledger[i]
      BY <2>5
    <3>2. row.report \in DOMAIN reports /\ reports[row.report].look = row.look
          /\ reports[row.report].verdict = row.verdict
      BY <2>2, <2>4 DEF r
    <3> QED BY <1>1, <2>8, <3>1, <3>2 DEF LookInv, Reported
  <2>12. OneRegistration'
    BY <2>5 DEF LookInv, OneRegistration
  <2>13. Bound'
    BY <1>1, <2>5 DEF LookInv, Bound
  <2>14. AllSound'
    <3>1. \A x : Sound(x, ledger, reports, candidates) => Sound(x, ledger', reports, candidates)
      BY <2>5, SoundStays, ContinuesItself, GateAssumption
    <3>2. \A x \in Desk : desk'[x].pc \in {"judged", "reported"} => desk'[x] = desk[x]
      BY <1>2
    <3> QED BY <1>1, <3>1, <3>2 DEF LookInv, AllSound
  <2> QED BY <2>10, <2>11, <2>12, <2>13, <2>14 DEF LookInv
<1> QED BY <1>3, <1>4

(* What the looks tell is what LooksAreEarned asks of them.                *)
LEMMA LooksEarned == ASSUME LookInv PROVE LooksAreEarned
<1>1. \A i \in Looks :
        /\ ledger[i].report \in DOMAIN reports
        /\ Sound(reports[ledger[i].report], ledger, reports, candidates)
        /\ reports[ledger[i].report].look = ledger[i].look
        /\ reports[ledger[i].report].verdict = ledger[i].verdict
        /\ reports[ledger[i].report] \in Report
  BY RowsTyped DEF LookInv, Reported, AllSound
<1>2. ASSUME NEW i \in Looks, NEW k \in DOMAIN LookRuns(i)
      PROVE  LET run == candidates[LookRuns(i)[k]]
             IN /\ Registered /\ \A r \in Rows("registration") : ledger[r].at < run.started
                /\ manifests[run.bound].made <= run.started
                /\ run.bound = candidates[LookRuns(i)[1]].bound
  <2> DEFINE R == reports[ledger[i].report]
             c == R.runs[k]
  <2>1. /\ k \in DOMAIN R.runs /\ R.runs \in [1..RunCount(R.extended) -> DOMAIN candidates]
        /\ candidates[c].bound = candidates[R.runs[1]].bound
    BY <1>1 DEF Sound, LookRuns
  <2>2. c \in DOMAIN candidates
    BY <2>1
  <2>3. /\ manifests[candidates[c].bound].made <= candidates[c].started
        /\ Rows("registration") # {}
        /\ \A r \in Rows("registration") : ledger[r].at < candidates[c].started
    BY <2>2 DEF LookInv, Bound
  <2>4. Registered
    <3>1. PICK r \in Rows("registration") : TRUE
      BY <2>3
    <3>2. Rows("registration") = {r}
      BY <3>1 DEF LookInv, OneRegistration
    <3> QED BY <3>2, FS_Singleton DEF Registered
  <2> QED BY <2>1, <2>3, <2>4 DEF LookRuns
<1>3. ASSUME NEW i \in Looks, NEW j \in Looks, i < j
      PROVE  /\ ledger[i].verdict = "inconclusive" /\ ledger[j].verdict # "inconclusive"
             /\ DOMAIN LookRuns(j) # DOMAIN LookRuns(i)
             /\ \A k \in DOMAIN LookRuns(i) : k \in DOMAIN LookRuns(j) /\ LookRuns(j)[k] = LookRuns(i)[k]
  <2> DEFINE A == reports[ledger[i].report]
             B == reports[ledger[j].report]
  <2>1. ledger[i].look = 1 /\ ledger[j].look = 2
    BY <1>3, LooksInOrder
  <2>2. /\ Sound(A, ledger, reports, candidates) /\ Sound(B, ledger, reports, candidates)
        /\ A.look = 1 /\ B.look = 2 /\ A.verdict = ledger[i].verdict /\ B.verdict = ledger[j].verdict
        /\ A.extended \in BOOLEAN /\ B.extended \in BOOLEAN
    BY <1>1, <2>1 DEF Report
  <2>3. B.extended /\ ~A.extended
    <3>1. \A r : Sound(r, ledger, reports, candidates) => r.look = IF r.extended THEN 2 ELSE 1
      BY Zenon DEF Sound
    <3> HIDE DEF A, B
    <3>2. A.look = (IF A.extended THEN 2 ELSE 1) /\ B.look = (IF B.extended THEN 2 ELSE 1)
      BY <2>2, <3>1, Zenon
    <3> QED BY <2>2, <3>2
  <2>4. PICK x \in DOMAIN ledger :
            /\ ledger[x].kind = "look" /\ ledger[x].look = 1
            /\ ledger[x].report \in DOMAIN reports
            /\ reports[ledger[x].report].allowed
            /\ \A k \in DOMAIN reports[ledger[x].report].runs :
                 B.runs[k] = reports[ledger[x].report].runs[k]
    BY <2>2, <2>3 DEF Sound
  <2>5. x = i
    <3>1. x \in Looks
      BY <2>4 DEF Looks, Rows
    <3>2. Looks \subseteq 1..Len(ledger) /\ Len(ledger) \in Nat
      BY PlacesFinite DEF LookInv, Looks
    <3>3. x \in Nat /\ i \in Nat
      BY <3>1, <3>2
    <3>4. ~(x < i) /\ ~(i < x)
      BY <2>1, <2>4, <3>1, LooksInOrder
    <3> QED BY <3>3, <3>4
  <2>6. A.verdict = "inconclusive" /\ B.verdict # "inconclusive" /\ ExtensionRuns > 0
    BY <2>2, <2>3, <2>4, <2>5 DEF Sound
  <2>7. DOMAIN A.runs = 1..RunCount(A.extended) /\ DOMAIN B.runs = 1..RunCount(B.extended)
    BY <2>2 DEF Sound
  <2> HIDE DEF A, B
  <2>8. RunCount(A.extended) = InitialRuns /\ RunCount(B.extended) = InitialRuns + ExtensionRuns
        /\ InitialRuns \in Nat /\ ExtensionRuns \in Nat
    BY <2>3, GateAssumption DEF RunCount, GateAssumption
  <2>9. DOMAIN A.runs \subseteq DOMAIN B.runs /\ InitialRuns + ExtensionRuns \in DOMAIN B.runs
        /\ InitialRuns + ExtensionRuns \notin DOMAIN A.runs
    BY <2>6, <2>7, <2>8
  <2>10. \A k \in DOMAIN A.runs : B.runs[k] = A.runs[k]
    BY <2>4, <2>5 DEF A
  <2> QED BY <2>2, <2>6, <2>9, <2>10 DEF LookRuns, A, B
<1> QED BY <1>2, <1>3 DEF LooksAreEarned, LookInv, Numbered

(* What the holdout keeps is what HoldoutOnce asks of it.                  *)
LEMMA HoldoutKept == ASSUME GateTypesOK, HoldoutInv PROVE HoldoutOnce
<1>1. Cardinality(Rows("unseal")) <= 1
  BY AtMostOne DEF HoldoutInv
<1>2. \A use \in UseKind : Cardinality(Uses(use)) <= 1
  BY AtMostOne DEF HoldoutInv
<1>3. reviews # {} \/ samples > 0 => Rows("unseal") # {}
  BY DEF HoldoutInv
<1>4. \A r \in reviews, i \in Rows("unseal") : r.sha = ledger[i].sha
  BY DEF HoldoutInv
<1>5. Cardinality({r.run : r \in reviews}) <= 1
  <2>1. \A x, y \in {r.run : r \in reviews} : x = y
    <3>1. \A i, j \in Uses("run") : i = j
      BY DEF HoldoutInv, UseKind
    <3>2. \A r \in reviews : \E j \in Uses("run") : ledger[j].run = r.run
      BY DEF HoldoutInv
    <3> QED BY <3>1, <3>2
  <2> HIDE DEF HoldoutInv
  <2> QED BY <2>1, AtMostOne
<1>6. samples <= 1
  BY DEF HoldoutInv
<1> QED BY <1>1, <1>2, <1>3, <1>4, <1>5, <1>6 DEF HoldoutOnce, UseKind
-----------------------------------------------------------------------------
LEMMA LedgerGrows ==
  ASSUME GateTypesOK, NEW row \in Row, ledger' = ledger \/ ledger' = Append(ledger, row)
  PROVE  ledger' \in Seq(Row)
<1>1. ledger \in Seq(Row)
  BY DEF GateTypesOK
<1>2. CASE ledger' = ledger
  BY <1>1, <1>2
<1>3. CASE ledger' = Append(ledger, row)
  BY <1>3, LooksGrow
<1> QED BY <1>2, <1>3

(* The types through the steps of the gate ... *)
LEMMA GateStepTypes ==
  ASSUME LookInv, GateNext
  PROVE  GateTypesOK'
<1>1. GateTypesOK /\ GateAssumption
  BY GateAssumption DEF LookInv
<1>2. CASE Tick
  <2>1. time' \in Nat
    BY <1>1, <1>2 DEF Tick, GateTypesOK
  <2> QED BY <1>1, <1>2, <2>1 DEF Tick, GateTypesOK
<1>3. CASE Freeze
  <2>1. manifests' \in Seq([claims : Nat, made : Nat])
    BY <1>1, <1>3 DEF Freeze, GateTypesOK, GateAssumption
  <2> QED BY <1>1, <1>3, <2>1 DEF Freeze, GateTypesOK
<1>4. CASE Register
  <2> DEFINE row == [kind |-> "registration", at |-> time]
  <2>1. row \in Row
    BY <1>1 DEF Row, GateTypesOK
  <2> HIDE DEF row
  <2>2. ledger' = Append(ledger, row)
    BY <1>4 DEF Register, row
  <2>3. ledger' \in Seq(Row)
    BY <1>1, <2>1, <2>2 DEF GateTypesOK
  <2> QED BY <1>1, <1>4, <2>3 DEF Register, GateTypesOK
<1>5. CASE StartCandidate
  <2> DEFINE S == [index : Nat, started : Nat, bound : Nat]
  <2>1. PICK m \in DOMAIN manifests, index \in 1..(InitialRuns + ExtensionRuns) :
          candidates' = Append(candidates, [index |-> index, started |-> time, bound |-> m])
    BY <1>5 DEF StartCandidate
  <2>2. index \in Nat /\ m \in Nat /\ time \in Nat
    <3> DEFINE R == [claims : Nat, made : Nat]
    <3>1. manifests \in Seq(R) /\ time \in Nat
      BY <1>1 DEF GateTypesOK
    <3> HIDE DEF R
    <3>2. m \in Nat
      BY <3>1
    <3>3. index \in Nat
      BY <1>1 DEF GateAssumption
    <3> QED BY <3>1, <3>2, <3>3
  <2>3. [index |-> index, started |-> time, bound |-> m] \in S /\ candidates \in Seq(S)
    BY <1>1, <2>2 DEF GateTypesOK
  <2> HIDE DEF S
  <2>4. candidates' \in Seq(S)
    BY <2>1, <2>3
  <2> QED BY <1>1, <1>5, <2>4 DEF StartCandidate, GateTypesOK, S
<1>6. ASSUME NEW d \in Desk, Compare(d)
      PROVE  GateTypesOK'
  <2>1. desk' \in [Desk -> DeskState]
    BY <1>6, JudgedSound
  <2> QED BY <1>1, <1>6, <2>1 DEF Compare, GateTypesOK
<1>7. ASSUME NEW d \in Desk, WriteReport(d)
      PROVE  GateTypesOK'
  <2> DEFINE r == [look |-> desk[d].look, runs |-> desk[d].runs, extended |-> desk[d].extended,
                   verdict |-> desk[d].verdict, allowed |-> desk[d].allowed]
             after == [pc |-> "reported", report |-> Len(reports) + 1]
  <2>1. reports' = Append(reports, r) /\ desk[d].pc = "judged" /\ Moves(d, after)
    BY <1>7 DEF WriteReport, AtDesk
  <2>2. r \in Report /\ reports \in Seq(Report) /\ Len(reports) \in Nat
    BY <1>1, <2>1, DesksTyped DEF GateTypesOK
  <2> HIDE DEF r
  <2>3. reports' \in Seq(Report)
    BY <2>1, <2>2
  <2>4. after \in DeskState
    <3>1. after \in [pc : {"reported"}, report : Nat]
      BY <2>2
    <3> QED BY <3>1 DEF DeskState
  <2> HIDE DEF after
  <2>5. desk' \in [Desk -> DeskState]
    BY <1>1, <2>1, <2>4, DeskMoves
  <2> QED BY <1>1, <1>7, <2>3, <2>5 DEF WriteReport, GateTypesOK
<1>8. ASSUME NEW d \in Desk, RecordLook(d)
      PROVE  GateTypesOK'
  <2> DEFINE n == desk[d].report
             row == [kind |-> "look", look |-> reports[n].look, report |-> n, verdict |-> reports[n].verdict]
  <2>1. desk[d].pc = "reported" /\ Moves(d, Free)
        /\ (ledger' = ledger \/ ledger' = Append(ledger, row))
    BY <1>8 DEF RecordLook, AtDesk
  <2>2. n \in DOMAIN reports /\ n \in Nat /\ reports[n] \in Report
    BY <1>1, <2>1, RowsTyped, DesksTyped DEF LookInv, AllSound
  <2>3. row \in Row
    <3>1. reports[n].look \in 1..2 /\ reports[n].verdict \in Judgement
      BY <2>2 DEF Report
    <3>2. row \in [kind : {"look"}, look : 1..2, report : Nat, verdict : Judgement]
      BY <2>2, <3>1
    <3> QED BY <3>2 DEF Row
  <2> HIDE DEF row, n
  <2>4. ledger' \in Seq(Row)
    BY <1>1, <2>1, <2>3, LedgerGrows
  <2>5. desk' \in [Desk -> DeskState]
    BY <1>1, <2>1, FreeIsDesk, DeskMoves
  <2> QED BY <1>1, <1>8, <2>4, <2>5 DEF RecordLook, GateTypesOK
<1>9. ASSUME NEW d \in Desk, DeskDies(d)
      PROVE  GateTypesOK'
  <2>1. desk' \in [Desk -> DeskState]
    BY <1>1, <1>9, FreeIsDesk, DeskMoves DEF DeskDies
  <2> QED BY <1>1, <1>9, <2>1 DEF DeskDies, GateTypesOK
<1> QED BY <1>2, <1>3, <1>4, <1>5, <1>6, <1>7, <1>8, <1>9 DEF GateNext

(* ... and of the holdout.                                                 *)
LEMMA HoldoutStepTypes ==
  ASSUME GateTypesOK, HoldoutNext
  PROVE  GateTypesOK'
<1>1. ASSUME NEW use \in UseKind, NEW run \in Review \cup {"none"}, ledger' = WithUse(use, run)
      PROVE  ledger' \in Seq(Row)
  <2>1. ledger' = ledger \/ \E row \in Row : ledger' = Append(ledger, row)
    BY <1>1, UseSpent
  <2>2. CASE ledger' = ledger
    BY <2>2 DEF GateTypesOK
  <2>3. CASE \E row \in Row : ledger' = Append(ledger, row)
    BY <2>3, LedgerGrows
  <2> QED BY <2>1, <2>2, <2>3
<1>2. CASE ReviewHoldout
  <2>1. PICK sha \in Treatment, run \in Review :
          ledger' = WithUse("run", run) /\ reviews' = reviews \cup {[run |-> run, sha |-> sha]}
    BY <1>2 DEF ReviewHoldout
  <2>2. ledger' \in Seq(Row)
    <3>1. "run" \in UseKind /\ run \in Review \cup {"none"}
      BY DEF UseKind
    <3> QED BY <1>1, <2>1, <3>1
  <2>3. reviews' \subseteq [run : Review, sha : Treatment]
    BY <2>1 DEF GateTypesOK
  <2> QED BY <1>2, <2>2, <2>3 DEF ReviewHoldout, GateTypesOK
<1>3. ASSUME NEW d \in Desk, Mint(d)
      PROVE  GateTypesOK'
  <2>1. PICK sha \in Treatment :
          LET row == [kind |-> "unseal", sha |-> sha, at |-> time]
          IN receipts' = Append(receipts, row) /\ Moves(d, [pc |-> "minted", row |-> row])
    BY <1>3 DEF Mint
  <2> DEFINE row == [kind |-> "unseal", sha |-> sha, at |-> time]
             after == [pc |-> "minted", row |-> row]
  <2>2. receipts' = Append(receipts, row) /\ Moves(d, after)
    BY <2>1
  <2>3. row \in Unsealing
    BY DEF Unsealing, GateTypesOK
  <2> HIDE DEF row
  <2>4. after \in DeskState
    <3>1. after \in [pc : {"minted"}, row : Unsealing]
      BY <2>3
    <3> QED BY <3>1 DEF DeskState
  <2> HIDE DEF after
  <2>5. desk' \in [Desk -> DeskState]
    BY <2>2, <2>4, DeskMoves
  <2>6. receipts' \in Seq(Unsealing)
    BY <2>2, <2>3 DEF GateTypesOK
  <2> QED BY <1>3, <2>5, <2>6 DEF Mint, GateTypesOK
<1>4. ASSUME NEW d \in Desk, Unseal(d)
      PROVE  GateTypesOK'
  <2>1. desk[d].row \in Unsealing /\ (ledger' = ledger \/ ledger' = Append(ledger, desk[d].row))
    BY <1>4, DesksTyped DEF Unseal, AtDesk
  <2>2. ledger' \in Seq(Row)
    <3>1. desk[d].row \in Row
      BY <2>1 DEF Row
    <3> QED BY <2>1, <3>1, LedgerGrows
  <2>3. desk' \in [Desk -> DeskState]
    BY <1>4, FreeIsDesk, DeskMoves DEF Unseal
  <2> QED BY <1>4, <2>2, <2>3 DEF Unseal, GateTypesOK
<1>5. [pc |-> "sampling"] \in DeskState /\ [pc |-> "compared"] \in DeskState
  BY DEF DeskState
<1>6. ASSUME NEW d \in Desk, StartAudit(d)
      PROVE  GateTypesOK'
  <2>1. ledger' \in Seq(Row)
    <3>1. "audit" \in UseKind /\ "none" \in Review \cup {"none"} /\ ledger' = WithUse("audit", "none")
      BY <1>6 DEF UseKind, StartAudit
    <3> QED BY <1>1, <3>1
  <2>2. desk' \in [Desk -> DeskState]
    BY <1>5, <1>6, DeskMoves DEF StartAudit
  <2> QED BY <1>6, <2>1, <2>2 DEF StartAudit, GateTypesOK
<1>7. ASSUME NEW d \in Desk, WriteSample(d)
      PROVE  GateTypesOK'
  <2>1. desk' \in [Desk -> DeskState]
    BY <1>7, FreeIsDesk, DeskMoves DEF WriteSample
  <2>2. samples' \in Nat
    BY <1>7 DEF WriteSample, GateTypesOK
  <2> QED BY <1>7, <2>1, <2>2 DEF WriteSample, GateTypesOK
<1>8. ASSUME NEW d \in Desk, CompareHoldout(d)
      PROVE  GateTypesOK'
  <2>1. desk' \in [Desk -> DeskState]
    BY <1>5, <1>8, DeskMoves DEF CompareHoldout
  <2> QED BY <1>8, <2>1 DEF CompareHoldout, GateTypesOK
<1>9. ASSUME NEW d \in Desk, UseComparison(d)
      PROVE  GateTypesOK'
  <2>1. ledger' \in Seq(Row)
    <3>1. "compare" \in UseKind /\ "none" \in Review \cup {"none"}
          /\ (ledger' = ledger \/ ledger' = WithUse("compare", "none"))
      BY <1>9 DEF UseKind, UseComparison
    <3> QED BY <1>1, <3>1 DEF GateTypesOK
  <2>2. desk' \in [Desk -> DeskState]
    BY <1>9, FreeIsDesk, DeskMoves DEF UseComparison
  <2> QED BY <1>9, <2>1, <2>2 DEF UseComparison, GateTypesOK
<1>10. ASSUME NEW d \in Desk, DeskDies(d)
       PROVE  GateTypesOK'
  <2>1. desk' \in [Desk -> DeskState]
    BY <1>10, FreeIsDesk, DeskMoves DEF DeskDies
  <2> QED BY <1>10, <2>1 DEF DeskDies, GateTypesOK
<1> QED BY <1>2, <1>3, <1>4, <1>6, <1>7, <1>8, <1>9, <1>10 DEF HoldoutNext
-----------------------------------------------------------------------------
GateInv == LookInv /\ HoldoutInv

LEMMA GateInit == GInit => GateInv
<1> SUFFICES ASSUME GInit PROVE GateInv
  OBVIOUS
<1>1. /\ ledger = <<>> /\ manifests = <<>> /\ candidates = <<>> /\ reports = <<>> /\ receipts = <<>>
      /\ reviews = {} /\ samples = 0 /\ time = 0 /\ rule \in Kind /\ desk = [d \in Desk |-> Free]
  BY DEF GInit
<1>2. \A d \in Desk : desk[d].pc = "free"
  BY <1>1, FreeIsDesk
<1>3. GateTypesOK
  <2>1. desk \in [Desk -> DeskState]
    BY <1>1, FreeIsDesk
  <2> QED BY <1>1, <2>1 DEF GateTypesOK
<1>4. \A kind, use : Rows(kind) = {} /\ Uses(use) = {}
  BY <1>1 DEF Rows, Uses
<1>5. Looks = {}
  BY <1>4 DEF Looks
<1>6. OneRegistration /\ Numbered /\ Reported
  BY <1>4, <1>5, FS_EmptySet DEF OneRegistration, Numbered, Reported
<1>7. Bound /\ AllSound
  BY <1>1, <1>2 DEF Bound, AllSound
<1>8. HoldoutInv
  BY <1>1, <1>2, <1>4 DEF HoldoutInv
<1> QED BY <1>3, <1>6, <1>7, <1>8 DEF GateInv, LookInv

LEMMA GateStep == GateInv /\ [GNext]_gateVars => GateInv'
<1> SUFFICES ASSUME GateInv, [GNext]_gateVars PROVE GateInv'
  OBVIOUS
<1>1. LookInv /\ HoldoutInv /\ GateTypesOK
  BY DEF GateInv, LookInv
<1>2. CASE UNCHANGED gateVars
  <2>1. UNCHANGED <<time, rule, ledger, manifests, candidates, reports, receipts, reviews, samples, desk>>
    BY <1>2 DEF gateVars
  <2>2. GateTypesOK'
    BY <1>1, <2>1 DEF GateTypesOK
  <2>3. time' >= time
    BY <1>1, <2>1 DEF GateTypesOK
  <2> QED BY <1>1, <2>1, <2>2, <2>3, QuietForLooks, QuietForHoldout DEF GateInv
<1>3. CASE GateNext
  <2>1. GateTypesOK'
    BY <1>1, <1>3, GateStepTypes
  <2>2. CASE Tick
    <3>1. time' >= time
      BY <1>1, <2>2 DEF Tick, GateTypesOK
    <3> QED BY <1>1, <2>1, <2>2, <3>1, QuietForLooks, QuietForHoldout DEF Tick, GateInv
  <2>3. CASE Freeze
    <3>1. LookInv'
      BY <1>1, <2>1, <2>3, FreezeStep
    <3>2. HoldoutInv'
      BY <1>1, <2>3, QuietForHoldout DEF Freeze
    <3> QED BY <3>1, <3>2 DEF GateInv
  <2>4. CASE Register
    <3>1. LookInv'
      BY <1>1, <2>1, <2>4, RegisterStep
    <3>2. [kind |-> "registration", at |-> time] \in Row
      BY <1>1 DEF Row, GateTypesOK
    <3>3. HoldoutInv'
      BY <1>1, <2>4, <3>2, QuietForHoldout DEF Register
    <3> QED BY <3>1, <3>3 DEF GateInv
  <2>5. CASE StartCandidate
    <3>1. LookInv'
      BY <1>1, <2>1, <2>5, CandidateStep
    <3>2. HoldoutInv'
      BY <1>1, <2>5, QuietForHoldout DEF StartCandidate
    <3> QED BY <3>1, <3>2 DEF GateInv
  <2>6. ASSUME NEW d \in Desk, Compare(d)
        PROVE  GateInv'
    <3>1. LookInv'
      BY <1>1, <2>1, <2>6, CompareStep
    <3>2. \A e \in Desk : desk'[e].pc = "sampling" => desk[e].pc = "sampling"
      BY <1>1, <2>6, JudgedSound
    <3>3. HoldoutInv'
      BY <1>1, <2>6, <3>2, QuietForHoldout DEF Compare
    <3> QED BY <3>1, <3>3 DEF GateInv
  <2>7. ASSUME NEW d \in Desk, WriteReport(d)
        PROVE  GateInv'
    <3>1. LookInv'
      BY <1>1, <2>1, <2>7, ReportStep
    <3>2. \A e \in Desk : desk'[e].pc = "sampling" => desk[e].pc = "sampling"
      BY <1>1, <2>7 DEF WriteReport, Moves, GateTypesOK
    <3>3. HoldoutInv'
      BY <1>1, <2>7, <3>2, QuietForHoldout DEF WriteReport
    <3> QED BY <3>1, <3>3 DEF GateInv
  <2>8. ASSUME NEW d \in Desk, RecordLook(d)
        PROVE  GateInv'
    <3>1. LookInv'
      BY <1>1, <2>1, <2>8, LookStep
    <3>2. \A e \in Desk : desk'[e].pc = "sampling" => desk[e].pc = "sampling"
      BY <1>1, <2>8, FreeIsDesk, DeskMoves DEF RecordLook
    <3>3. /\ desk[d].report \in Nat /\ reports[desk[d].report] \in Report
          /\ UNCHANGED <<reviews, samples>>
      BY <1>1, <2>8, RowsTyped, DesksTyped DEF RecordLook, AtDesk, LookInv, AllSound
    <3> DEFINE row == [kind |-> "look", look |-> reports[desk[d].report].look, report |-> desk[d].report,
                       verdict |-> reports[desk[d].report].verdict]
    <3>4. row \in Row /\ row.kind \notin {"unseal", "use"}
      <4>1. reports[desk[d].report].look \in 1..2 /\ reports[desk[d].report].verdict \in Judgement
        BY <3>3 DEF Report
      <4>2. row \in [kind : {"look"}, look : 1..2, report : Nat, verdict : Judgement]
        BY <3>3, <4>1
      <4> QED BY <4>2 DEF Row
    <3>5. ledger' = ledger \/ ledger' = Append(ledger, row)
      BY <2>8 DEF RecordLook
    <3> HIDE DEF row
    <3>6. HoldoutInv'
      BY <1>1, <3>2, <3>3, <3>4, <3>5, QuietForHoldout
    <3> QED BY <3>1, <3>6 DEF GateInv
  <2>9. ASSUME NEW d \in Desk, DeskDies(d)
        PROVE  GateInv'
    <3>1. \A e \in Desk : desk'[e] = desk[e] \/ desk'[e].pc = "free"
      BY <1>1, <2>9, FreeIsDesk, DeskMoves DEF DeskDies
    <3>2. time' >= time /\ UNCHANGED <<time, ledger, manifests, candidates, reports, reviews, samples>>
      BY <1>1, <2>9 DEF DeskDies, GateTypesOK
    <3>3. LookInv'
      BY <1>1, <2>1, <3>1, <3>2, QuietForLooks
    <3>4. HoldoutInv'
      BY <1>1, <3>1, <3>2, QuietForHoldout
    <3> QED BY <3>3, <3>4 DEF GateInv
  <2> QED BY <1>3, <2>2, <2>3, <2>4, <2>5, <2>6, <2>7, <2>8, <2>9 DEF GateNext
<1>4. CASE HoldoutNext
  <2>1. GateTypesOK'
    BY <1>1, <1>4, HoldoutStepTypes
  <2>2. UNCHANGED <<time, manifests, candidates, reports>> /\ time' >= time
    <3>1. UNCHANGED <<time, manifests, candidates, reports>>
      BY <1>4 DEF HoldoutNext, ReviewHoldout, Mint, Unseal, StartAudit, WriteSample,
                  CompareHoldout, UseComparison, DeskDies
    <3> QED BY <1>1, <3>1 DEF GateTypesOK
  <2>3. /\ \/ ledger' = ledger
           \/ \E row \in Row : row.kind \notin {"look", "registration"} /\ ledger' = Append(ledger, row)
        /\ \A d \in Desk : desk'[d] = desk[d] \/ desk'[d].pc \notin {"judged", "reported"}
    <3>1. ASSUME NEW use \in UseKind, NEW run \in Review \cup {"none"}, ledger' = WithUse(use, run)
          PROVE  \/ ledger' = ledger
                 \/ \E row \in Row : row.kind \notin {"look", "registration"} /\ ledger' = Append(ledger, row)
      BY <1>1, <3>1, UseSpent
    <3>2. "run" \in UseKind /\ "audit" \in UseKind /\ "compare" \in UseKind
          /\ "none" \in Review \cup {"none"} /\ \A run \in Review : run \in Review \cup {"none"}
      BY DEF UseKind
    <3>3. ASSUME NEW d \in Desk, NEW x \in DeskState, x.pc \notin {"judged", "reported"}, Moves(d, x)
          PROVE  \A e \in Desk : desk'[e] = desk[e] \/ desk'[e].pc \notin {"judged", "reported"}
      BY <1>1, <3>3, DeskMoves
    <3>4. Free \in DeskState /\ Free.pc \notin {"judged", "reported"}
      BY FreeIsDesk
    <3>5. CASE ReviewHoldout
      <4>1. \E run \in Review : ledger' = WithUse("run", run)
        BY <3>5 DEF ReviewHoldout
      <4>2. desk' = desk
        BY <3>5 DEF ReviewHoldout
      <4> QED BY <3>1, <3>2, <4>1, <4>2
    <3>6. ASSUME NEW d \in Desk, Mint(d) \/ CompareHoldout(d) \/ StartAudit(d)
          PROVE  \A e \in Desk : desk'[e] = desk[e] \/ desk'[e].pc \notin {"judged", "reported"}
      BY <1>1, <3>6, DeskTakes
    <3>7. ASSUME NEW d \in Desk, Unseal(d) \/ WriteSample(d) \/ UseComparison(d) \/ DeskDies(d)
          PROVE  \A e \in Desk : desk'[e] = desk[e] \/ desk'[e].pc \notin {"judged", "reported"}
      BY <3>3, <3>4, <3>7 DEF Unseal, WriteSample, UseComparison, DeskDies
    <3>8. ASSUME NEW d \in Desk, Mint(d) \/ CompareHoldout(d) \/ WriteSample(d) \/ DeskDies(d)
          PROVE  ledger' = ledger
      BY <3>8 DEF Mint, CompareHoldout, WriteSample, DeskDies
    <3>9. ASSUME NEW d \in Desk, StartAudit(d)
          PROVE  \/ ledger' = ledger
                 \/ \E row \in Row : row.kind \notin {"look", "registration"} /\ ledger' = Append(ledger, row)
      BY <3>1, <3>2, <3>9 DEF StartAudit
    <3>10. ASSUME NEW d \in Desk, UseComparison(d)
          PROVE  \/ ledger' = ledger
                 \/ \E row \in Row : row.kind \notin {"look", "registration"} /\ ledger' = Append(ledger, row)
      <4>1. ledger' = ledger \/ ledger' = WithUse("compare", "none")
        BY <3>10 DEF UseComparison
      <4> QED BY <3>1, <3>2, <4>1
    <3>11. ASSUME NEW d \in Desk, Unseal(d)
          PROVE  \/ ledger' = ledger
                 \/ \E row \in Row : row.kind \notin {"look", "registration"} /\ ledger' = Append(ledger, row)
      <4>1. desk[d].row \in Unsealing
        BY <1>1, <3>11, DesksTyped DEF Unseal, AtDesk
      <4>2. desk[d].row \in Row /\ desk[d].row.kind = "unseal"
        BY <4>1 DEF Unsealing, Row
      <4> QED BY <3>11, <4>2 DEF Unseal
    <3> QED BY <1>4, <3>5, <3>6, <3>7, <3>8, <3>9, <3>10, <3>11 DEF HoldoutNext
  <2>4. LookInv'
    BY <1>1, <2>1, <2>2, <2>3, QuietForLooks
  <2>5. HoldoutInv'
    <3>1. ASSUME NEW d \in Desk, Mint(d) \/ CompareHoldout(d) \/ DeskDies(d)
          PROVE  HoldoutInv'
      <4>1. ledger' = ledger /\ UNCHANGED <<reviews, samples>>
        BY <3>1 DEF Mint, CompareHoldout, DeskDies
      <4>2. \A e \in Desk : desk'[e].pc = "sampling" => desk[e].pc = "sampling"
        <5>1. CASE Mint(d) \/ CompareHoldout(d)
          BY <1>1, <5>1, DeskTakes
        <5>2. CASE DeskDies(d)
          BY <1>1, <5>2, FreeIsDesk, DeskMoves DEF DeskDies
        <5> QED BY <3>1, <5>1, <5>2
      <4> QED BY <1>1, <4>1, <4>2, QuietForHoldout
    <3> QED BY <1>1, <1>4, <3>1, UnsealStep, ReviewStep, AuditStep, SampleStep, ComparisonStep DEF HoldoutNext
  <2> QED BY <2>4, <2>5 DEF GateInv
<1> QED BY <1>2, <1>3, <1>4 DEF GNext

(* Ledger, reports, runs and receipts stay the rows that the commands read *)
(* and write: a look names a report, an unsealing its treatment.           *)
THEOREM GateTypes == GSpec => []GateTypesOK
<1>1. GateInv => GateTypesOK
  BY DEF GateInv, LookInv
<1> QED BY <1>1, GateInit, GateStep, PTL DEF GSpec

(* bench/README.md's protocol of the gate, for any number of commands that *)
(* race and die: looks and the holdout stay what the ledger says of them,  *)
(* under rules that divide the pull requests and order the verdicts.       *)
THEOREM GateHolds == GSpec => []GateKept
<1>1. GateInv => GateKept
  BY LooksEarned, HoldoutKept, RulesHold DEF GateInv, LookInv, GateKept
<1> QED BY <1>1, GateInit, GateStep, PTL DEF GSpec
-----------------------------------------------------------------------------
(* The attempts of a run (MeasuredReview): types. *)
Layers == [head : SUBSET Nat, index : SUBSET Nat, work : SUBSET Nat]

Files == [kind : {"report", "payload"}, says : {"none"} \cup {c.report : c \in Children},
          nth : Nat, superseded : BOOLEAN]

MeasuredTypes ==
  /\ output \subseteq Files /\ prDir \in [Reviewed -> SUBSET Files]
  /\ gitFaults \in Nat /\ done.n \in Nat
  /\ settings \in {s.settings : s \in Starts}
  /\ plugin \in [Paths -> Layers]
  /\ attempt.at \in {"rest", "runs", "ended"}
  /\ attempt.at # "rest" =>
       /\ attempt.pr \in Reviewed /\ attempt.nth \in Nat \ {0} /\ attempt.ranOn \in [Paths -> Layers]
       /\ attempt = [at |-> attempt.at, pr |-> attempt.pr, nth |-> attempt.nth, known |-> attempt.known,
                     baseline |-> attempt.baseline, ranOn |-> attempt.ranOn, child |-> attempt.child]

(* git status of one path. *)
Shows(p, l) == IF p \in Tracked THEN l.work # l.index \/ l.index # l.head ELSE l.work # {}

(* Between attempts: the operator changed the file, or what is in the tree *)
(* rests on what was staged. *)
Kept(p, l) ==
  IF p \in Tracked
  THEN \/ 0 \in l.work \cup l.index
       \/ l.index \subseteq l.work /\ (l.index = {} => l.work = {} /\ l.head = {})
  ELSE l.work = {} \/ 0 \in l.work

(* What a child makes of a path. *)
Wrote(l, m, n) ==
  LET w == l.work \cup {n}
  IN \/ m = l
     \/ m.work = w /\ m.index = l.index /\ m.head = l.head
     \/ m.work = w /\ m.index = w /\ m.head = l.head
     \/ m.work = w /\ m.index = w /\ m.head = w

(* What is left of it when what the child changed is taken back.           *)
Back(p, l, m) ==
  IF ~Shows(p, m) \/ Shows(p, l) THEN m
  ELSE [m EXCEPT !.work = IF p \in Tracked THEN m.index ELSE {}]

EvidenceInv ==
  attempt.at # "rest" =>
    /\ \A f \in prDir[attempt.pr] : f.superseded
    /\ \A f \in output : f.nth = attempt.nth

PluginInv ==
  gitFaults = 0 =>
    /\ attempt.at = "rest" => \A p \in Paths \ ControllerOwned : Kept(p, plugin[p])
    /\ attempt.at # "rest" =>
         /\ attempt.baseline = {p \in Paths : Shows(p, attempt.ranOn[p])}
         /\ settings.window => \A p \in Paths \cap Tracked :
              attempt.ranOn[p].work = {} /\ attempt.ranOn[p].index = {}
         /\ \A p \in Paths \ ControllerOwned : Kept(p, attempt.ranOn[p])
         /\ \A p \in Paths : Wrote(attempt.ranOn[p], plugin[p], attempt.nth)
    /\ attempt.at = "runs" => plugin = attempt.ranOn

JudgedInv == RanOnOriginal /\ LeftOriginal /\ OperatorKeeps /\ OwnEvidence
MeasuredInv == MeasuredTypes /\ EvidenceInv /\ PluginInv /\ JudgedInv
-----------------------------------------------------------------------------
(* Taking back keeps what the operator had, and leaves a change only where *)
(* one was. *)
LEMMA TakenBack ==
  ASSUME NEW p, NEW l \in Layers, NEW m \in Layers, NEW n \in Nat \ {0}, Wrote(l, m, n)
  PROVE  /\ Kept(p, l) => Kept(p, Back(p, l, m))
         /\ 0 \in l.work => 0 \in Back(p, l, m).work
         /\ Back(p, l, m) \in Layers
<1>1. /\ l.work \subseteq Nat /\ l.index \subseteq Nat /\ l.head \subseteq Nat
      /\ m.work \subseteq Nat /\ m.index \subseteq Nat /\ m.head \subseteq Nat /\ n # 0
  BY DEF Layers
<1> DEFINE r == Back(p, l, m)
<1>2. CASE ~Shows(p, m) \/ Shows(p, l)
  <2>1. r = m
    BY <1>2 DEF Back
  <2>2. 0 \in l.work => 0 \in m.work
    BY DEF Wrote
  <2>3. ASSUME Kept(p, l) PROVE Kept(p, m)
    <3>1. CASE p \in Tracked
      <4>1. CASE 0 \in l.work
        BY <3>1, <2>2, <4>1 DEF Kept
      <4>2. CASE 0 \notin l.work /\ 0 \in l.index
        BY <1>1, <3>1, <4>2 DEF Kept, Wrote
      <4>3. CASE 0 \notin l.work \cup l.index
        <5>1. l.index \subseteq l.work /\ (l.index = {} => l.work = {} /\ l.head = {})
          BY <2>3, <3>1, <4>3 DEF Kept
        <5>2. CASE Shows(p, l)
          <6>1. l.index # {}
            BY <3>1, <5>1, <5>2 DEF Shows
          <6> QED BY <3>1, <5>1, <6>1 DEF Kept, Wrote
        <5>3. CASE ~Shows(p, m)
          <6>1. m.work = m.index /\ m.index = m.head
            BY <3>1, <5>3 DEF Shows
          <6> QED BY <3>1, <6>1 DEF Kept
        <5> QED BY <1>2, <5>2, <5>3
      <4> QED BY <4>1, <4>2, <4>3
    <3>2. CASE p \notin Tracked
      <4>1. CASE l.work = {}
        BY <1>2, <3>2, <4>1 DEF Kept, Shows
      <4>2. CASE 0 \in l.work
        BY <2>2, <3>2, <4>2 DEF Kept
      <4> QED BY <2>3, <3>2, <4>1, <4>2 DEF Kept
    <3> QED BY <3>1, <3>2
  <2> QED BY <2>1, <2>2, <2>3
<1>3. CASE Shows(p, m) /\ ~Shows(p, l)
  <2>1. /\ r.work = (IF p \in Tracked THEN m.index ELSE {}) /\ r.index = m.index /\ r.head = m.head
        /\ r \in Layers
    <3>1. r = [m EXCEPT !.work = IF p \in Tracked THEN m.index ELSE {}]
      BY <1>3 DEF Back
    <3> QED BY <3>1 DEF Layers
  <2> HIDE DEF r
  <2>2. CASE p \in Tracked
    <3>1. l.work = l.index /\ l.index = l.head
      BY <1>3, <2>2 DEF Shows
    <3>2. 0 \in l.work => 0 \in r.work
      BY <2>1, <2>2, <3>1 DEF Wrote
    <3>3. Kept(p, l) => Kept(p, r)
      <4>1. r.index = r.work
        BY <2>1, <2>2
      <4>2. r.index = {} => r.head = {}
        BY <2>1, <3>1 DEF Wrote
      <4> QED BY <2>2, <4>1, <4>2 DEF Kept
    <3> QED BY <2>1, <3>2, <3>3 DEF r
  <2>3. CASE p \notin Tracked
    <3>1. l.work = {} /\ r.work = {}
      BY <1>3, <2>1, <2>3 DEF Shows
    <3> QED BY <2>1, <2>3, <3>1 DEF Kept, r
  <2> QED BY <2>2, <2>3
<1> QED BY <1>2, <1>3

LEMMA DirtyShows == DirtyPaths = {p \in Paths : Shows(p, plugin[p])}
BY DEF DirtyPaths, Shows

(* Git faults are counted: without one so far there was none before.       *)
LEMMA NoFaultBefore ==
  ASSUME gitFaults \in Nat, NEW told \in BOOLEAN, GitTells(told)
  PROVE  gitFaults' \in Nat /\ (gitFaults' = 0 => gitFaults = 0 /\ told)
BY DEF GitTells

(* What was judged stays true until it is judged anew: the tree only grows *)
(* meanwhile. *)
LEMMA JudgedStays ==
  ASSUME MeasuredTypes, JudgedInv, judged' = judged, settings' = settings,
         gitFaults' = 0 => gitFaults = 0,
         \A p \in Paths : 0 \in plugin[p].work => 0 \in plugin'[p].work
  PROVE  JudgedInv'
<1>1. Scored' <=> Scored
  BY DEF Scored
<1>2. \A p, layers : Changed(p, layers)' = Changed(p, layers)
  BY DEF Changed
<1>3. RanOnOriginal'
  BY <1>1 DEF JudgedInv, RanOnOriginal, Changed
<1>4. LeftOriginal'
  BY <1>1 DEF JudgedInv, LeftOriginal
<1>5. OperatorKeeps'
  BY DEF JudgedInv, OperatorKeeps
<1>6. OwnEvidence'
  BY <1>1 DEF JudgedInv, OwnEvidence
<1> QED BY <1>3, <1>4, <1>5, <1>6 DEF JudgedInv

(* An attempt begins on what the attempts before it left, ...              *)
LEMMA BeginStep ==
  ASSUME MeasuredInv, NEW pr \in Reviewed, BeginReview(pr)
  PROVE  MeasuredInv'
<1>1. PICK told \in BOOLEAN :
         /\ GitTells(told)
         /\ attempt' = [at |-> "runs", pr |-> pr, nth |-> done.n + 1, known |-> wfRecords,
                        baseline |-> IF told THEN DirtyPaths ELSE {}, ranOn |-> plugin,
                        child |-> "none"]
  BY DEF BeginReview
<1>2. /\ attempt = Resting /\ (settings.window => CleanTreatment) /\ output' = {}
      /\ prDir' = [prDir EXCEPT ![pr] = Superseded(pr)]
      /\ UNCHANGED <<plugin, wfRecords, judged, done, settings>>
  BY DEF BeginReview
<1>3. /\ attempt'.at = "runs" /\ attempt'.pr = pr /\ attempt'.nth = done.n + 1
      /\ attempt'.baseline = (IF told THEN DirtyPaths ELSE {}) /\ attempt'.ranOn = plugin
      /\ attempt' = [at |-> attempt'.at, pr |-> attempt'.pr, nth |-> attempt'.nth,
                     known |-> attempt'.known, baseline |-> attempt'.baseline,
                     ranOn |-> attempt'.ranOn, child |-> attempt'.child]
  BY <1>1
<1>4. MeasuredTypes
  BY DEF MeasuredInv
<1>5. gitFaults' \in Nat /\ (gitFaults' = 0 => gitFaults = 0 /\ told)
  BY <1>1, <1>4, NoFaultBefore DEF MeasuredTypes
<1>6. /\ Superseded(pr) \subseteq Files /\ \A f \in Superseded(pr) : f.superseded
      /\ prDir'[pr] = Superseded(pr) /\ prDir' \in [Reviewed -> SUBSET Files]
  <2>1. \A f \in Files : [f EXCEPT !.superseded = TRUE] \in Files
    BY DEF Files
  <2>2. \A f \in Files : [f EXCEPT !.superseded = TRUE].superseded
    BY DEF Files
  <2>3. prDir[pr] \subseteq Files
    BY <1>4 DEF MeasuredTypes
  <2>4. Superseded(pr) \subseteq Files
    BY <2>1, <2>3 DEF Superseded
  <2>5. \A f \in Superseded(pr) : f.superseded
    BY <2>2, <2>3, Zenon DEF Superseded
  <2>6. prDir'[pr] = Superseded(pr) /\ prDir' \in [Reviewed -> SUBSET Files]
    BY <1>2, <1>4, <2>4 DEF MeasuredTypes
  <2> QED BY <2>4, <2>5, <2>6
<1>7. MeasuredTypes'
  BY <1>2, <1>3, <1>4, <1>5, <1>6 DEF MeasuredTypes
<1>8. EvidenceInv'
  BY <1>2, <1>3, <1>6 DEF EvidenceInv
<1>9. PluginInv'
  <2> SUFFICES ASSUME gitFaults' = 0
               PROVE  /\ attempt'.baseline = {p \in Paths : Shows(p, plugin[p])}
                      /\ settings.window => \A p \in Paths \cap Tracked :
                           plugin[p].work = {} /\ plugin[p].index = {}
                      /\ \A p \in Paths \ ControllerOwned : Kept(p, plugin[p])
                      /\ \A p \in Paths : Wrote(plugin[p], plugin[p], attempt'.nth)
    BY <1>2, <1>3 DEF PluginInv
  <2>1. attempt'.baseline = {p \in Paths : Shows(p, plugin[p])}
    BY <1>3, <1>5, DirtyShows
  <2>2. ASSUME settings.window, NEW p \in Paths \cap Tracked
        PROVE  plugin[p].work = {} /\ plugin[p].index = {}
    <3>1. p \notin DirtyPaths /\ plugin[p].index = {}
      BY <1>2, <2>2 DEF CleanTreatment
    <3> QED BY <3>1, DirtyShows DEF Shows
  <2>3. \A p \in Paths \ ControllerOwned : Kept(p, plugin[p])
    BY <1>2, <1>5 DEF MeasuredInv, PluginInv, Resting
  <2>4. \A p \in Paths : Wrote(plugin[p], plugin[p], attempt'.nth)
    BY DEF Wrote
  <2> QED BY <2>1, <2>2, <2>3, <2>4
<1>10. JudgedInv'
  BY <1>2, <1>4, <1>5, JudgedStays DEF MeasuredInv
<1> QED BY <1>7, <1>8, <1>9, <1>10 DEF MeasuredInv

(* What a child touches of a path is written, and nothing is lost.         *)
LEMMA TouchedWrites ==
  ASSUME NEW c \in Children, MeasuredTypes, attempt.nth \in Nat \ {0}, plugin' = Touched(c)
  PROVE  /\ plugin' \in [Paths -> Layers]
         /\ \A p \in Paths : Wrote(plugin[p], plugin'[p], attempt.nth)
<1>1. /\ c.path \in Paths /\ c.edit \in {"none", "edits", "stages", "commits"}
      /\ plugin \in [Paths -> Layers]
  BY MeasuredAssumption DEF MeasuredTypes, MeasuredAssumption
<1> DEFINE q == c.path
           w == plugin[q].work \cup {attempt.nth}
<1>2. plugin[q] \in Layers /\ w \in SUBSET Nat
  BY <1>1 DEF Layers
<1>3. CASE c.edit = "none"
  BY <1>1, <1>3 DEF Touched, Wrote
<1>4. CASE c.edit = "edits"
  <2>1. plugin' = [plugin EXCEPT ![q].work = w]
    BY <1>4 DEF Touched
  <2>2. \A p \in Paths : p # q => plugin'[p] = plugin[p]
    BY <1>1, <2>1
  <2>3. plugin'[q] = [plugin[q] EXCEPT !.work = w]
    BY <1>1, <2>1
  <2> HIDE DEF w
  <2>4. /\ plugin'[q].work = w /\ plugin'[q].index = plugin[q].index /\ plugin'[q].head = plugin[q].head
        /\ plugin'[q] \in Layers
    BY <1>2, <2>3 DEF Layers
  <2>5. plugin' \in [Paths -> Layers]
    BY <1>1, <2>1, <2>2, <2>4
  <2>6. Wrote(plugin[q], plugin'[q], attempt.nth)
    BY <2>4 DEF Wrote, w
  <2> QED BY <2>2, <2>5, <2>6 DEF Wrote
<1>5. CASE c.edit = "stages"
  <2>1. plugin' = [plugin EXCEPT ![q].work = w, ![q].index = w]
    BY <1>5 DEF Touched
  <2>2. \A p \in Paths : p # q => plugin'[p] = plugin[p]
    BY <1>1, <2>1
  <2>3. plugin'[q] = [[plugin[q] EXCEPT !.work = w] EXCEPT !.index = w]
    BY <1>1, <2>1
  <2> HIDE DEF w
  <2>4. /\ plugin'[q].work = w /\ plugin'[q].index = w /\ plugin'[q].head = plugin[q].head
        /\ plugin'[q] \in Layers
    BY <1>2, <2>3 DEF Layers
  <2>5. plugin' \in [Paths -> Layers]
    BY <1>1, <2>1, <2>2, <2>4
  <2>6. Wrote(plugin[q], plugin'[q], attempt.nth)
    BY <2>4 DEF Wrote, w
  <2> QED BY <2>2, <2>5, <2>6 DEF Wrote
<1>6. CASE c.edit = "commits"
  <2>1. plugin' = [plugin EXCEPT ![q] = [head |-> w, index |-> w, work |-> w]]
    BY <1>6 DEF Touched
  <2>2. \A p \in Paths : p # q => plugin'[p] = plugin[p]
    BY <1>1, <2>1
  <2> HIDE DEF w
  <2>4. /\ plugin'[q].work = w /\ plugin'[q].index = w /\ plugin'[q].head = w
        /\ plugin'[q] \in Layers
    BY <1>1, <1>2, <2>1 DEF Layers
  <2>5. plugin' \in [Paths -> Layers]
    BY <1>1, <2>1, <2>2, <2>4
  <2>6. Wrote(plugin[q], plugin'[q], attempt.nth)
    BY <2>4 DEF Wrote, w
  <2> QED BY <2>2, <2>5, <2>6 DEF Wrote
<1> QED BY <1>1, <1>3, <1>4, <1>5, <1>6

(* ... its child writes, ... *)
LEMMA ChildStep ==
  ASSUME MeasuredInv, ChildRuns
  PROVE  MeasuredInv'
<1>1. PICK c \in Children :
       /\ plugin' = Touched(c)
       /\ output' = (IF c.report # "none" THEN {File("report", c.report)} ELSE {})
                      \cup IF c.payload THEN {File("payload", "none")} ELSE {}
       /\ attempt' = [attempt EXCEPT !.at = "ended", !.child = c]
  BY DEF ChildRuns
<1>2. attempt.at = "runs" /\ UNCHANGED <<prDir, judged, done, settings, gitFaults>>
  BY DEF ChildRuns
<1>3. /\ MeasuredTypes /\ attempt.nth \in Nat \ {0}
      /\ attempt = [at |-> attempt.at, pr |-> attempt.pr, nth |-> attempt.nth, known |-> attempt.known,
                    baseline |-> attempt.baseline, ranOn |-> attempt.ranOn, child |-> attempt.child]
  BY <1>2 DEF MeasuredInv, MeasuredTypes
<1>4. attempt' = [at |-> "ended", pr |-> attempt.pr, nth |-> attempt.nth, known |-> attempt.known,
                  baseline |-> attempt.baseline, ranOn |-> attempt.ranOn, child |-> c]
  BY <1>1, <1>3
<1>5. /\ attempt'.at = "ended" /\ attempt'.pr = attempt.pr /\ attempt'.nth = attempt.nth
      /\ attempt'.baseline = attempt.baseline /\ attempt'.ranOn = attempt.ranOn
      /\ attempt' = [at |-> attempt'.at, pr |-> attempt'.pr, nth |-> attempt'.nth,
                     known |-> attempt'.known, baseline |-> attempt'.baseline,
                     ranOn |-> attempt'.ranOn, child |-> attempt'.child]
  BY <1>4
<1>6. /\ plugin' \in [Paths -> Layers]
      /\ \A p \in Paths : Wrote(plugin[p], plugin'[p], attempt.nth)
  BY <1>1, <1>3, TouchedWrites
<1>7. output' \subseteq Files /\ \A f \in output' : f.nth = attempt.nth
  <2>1. File("report", c.report) \in Files /\ File("payload", "none") \in Files
    BY <1>3 DEF File, Files
  <2>2. File("report", c.report).nth = attempt.nth /\ File("payload", "none").nth = attempt.nth
    BY DEF File
  <2>3. \A f \in output' : f = File("report", c.report) \/ f = File("payload", "none")
    BY <1>1
  <2> QED BY <2>1, <2>2, <2>3
<1>8. MeasuredTypes'
  BY <1>2, <1>3, <1>5, <1>6, <1>7 DEF MeasuredTypes
<1>9. EvidenceInv'
  BY <1>2, <1>5, <1>7 DEF MeasuredInv, EvidenceInv
<1>10. PluginInv'
  BY <1>2, <1>5, <1>6 DEF MeasuredInv, PluginInv
<1>11. JudgedInv'
  <2>1. \A p \in Paths : 0 \in plugin[p].work => 0 \in plugin'[p].work
    BY <1>6 DEF Wrote
  <2> QED BY <1>2, <1>3, <2>1, JudgedStays DEF MeasuredInv
<1> QED BY <1>8, <1>9, <1>10, <1>11 DEF MeasuredInv

(* A ruling that an attempt is in order has asked everything before it.    *)
LEMMA RulingOk ==
  ASSUME NEW mutated \in BOOLEAN, Ruling(mutated)[2] = "ok"
  PROVE  /\ ~mutated /\ ~PipelineFailed /\ ~IdentityWrong
         /\ \E f \in output : f.kind = "payload"
<1> DEFINE c2 == Child.asks
           c3 == Child.envelope # "ok" \/ Child.exit # 0
           c4 == Child.backgrounded
           c6 == ~EchoOk /\ StoppedEarly
           c7 == ~EchoOk
           c9 == \A f \in output : f.kind # "payload"
           checks == <<<<mutated, "invalid", "plugin_mutated_by_child">>,
                       <<c2, "invalid", "askuserquestion_detected">>,
                       <<c3, "failed", "process">>,
                       <<c4, "invalid", "workflow_backgrounded">>,
                       <<PipelineFailed, "failed", "pipeline_failed">>,
                       <<c6, "failed", "pre_workflow_stop">>,
                       <<c7, "invalid", "config_echo_mismatch">>,
                       <<IdentityWrong, "invalid", "plugin_identity_mismatch">>,
                       <<c9, "failed", "no_payload">>,
                       <<TRUE, "ok", "none">>>>
           met == {i \in DOMAIN checks : checks[i][1]}
<1>1. Ruling(mutated) = checks[Min(met)]
  BY DEF Ruling
<1> HIDE DEF c2, c3, c4, c6, c7, c9
<1>2. DOMAIN checks = 1..10
  OBVIOUS
<1>3. \A i \in 1..9 : checks[i][2] # "ok"
  OBVIOUS
<1>4. /\ checks[1][1] = mutated /\ checks[5][1] = PipelineFailed /\ checks[8][1] = IdentityWrong
      /\ checks[9][1] = c9 /\ checks[10][1] = TRUE
  OBVIOUS
<1> HIDE DEF checks
<1>5. 10 \in met /\ met \subseteq Nat
  <2>1. 10 \in DOMAIN checks
    BY <1>2
  <2>2. checks[10][1]
    BY <1>4, Zenon
  <2>3. met \subseteq 1..10
    BY <1>2
  <2>4. 10 \in met
    BY <2>1, <2>2, Zenon
  <2>5. 1..10 \subseteq Nat
    OBVIOUS
  <2> HIDE DEF met
  <2> QED BY <2>3, <2>4, <2>5
<1>6. \E i \in met : \A j \in met : i <= j
  <2>1. IsWellFoundedOn(OpToRel(<, Nat), Nat)
    BY NatLessThanWellFounded
  <2>2. PICK i \in met : \A j \in met : ~ (<<j, i>> \in OpToRel(<, Nat))
    BY <1>5, <2>1, WFMin, Zenon
  <2>3. \A j \in met : ~(j < i) /\ j \in Nat /\ i \in Nat
    BY <1>5, <2>2 DEF OpToRel
  <2> QED BY <2>3
<1>7. Min(met) \in met /\ \A j \in met : Min(met) <= j
  BY <1>6 DEF Min
<1>8. Min(met) = 10
  BY <1>1, <1>2, <1>3, <1>7
<1>9. \A i \in 1..9 : ~checks[i][1]
  BY <1>2, <1>7, <1>8
<1>10. ~mutated /\ ~PipelineFailed /\ ~IdentityWrong /\ ~c9
  BY <1>4, <1>9
<1> QED BY <1>10 DEF c9

(* ... and its own evidence is judged: what earlier attempts left is       *)
(* superseded, what is in the output directory is its own. *)
LEMMA JudgedByItsOwn ==
  ASSUME MeasuredInv, attempt.at = "ended",
         NEW mutated \in BOOLEAN, NEW reason, Ruling(mutated)[2] = "ok", Ends("ok", reason)
  PROVE  OwnEvidence'
<1>1. /\ judged'.payload = {f.nth : f \in {f \in output : f.kind = "payload"}}
      /\ judged'.vouched = {f.nth : f \in Reports} /\ judged'.nth = attempt.nth
      /\ judged'.records = NewRecords /\ judged'.says = Identity
  BY DEF Ends
<1>2. ~PipelineFailed /\ ~IdentityWrong /\ \E f \in output : f.kind = "payload"
  BY RulingOk
<1>3. /\ \A f \in prDir[attempt.pr] : f.superseded
      /\ \A f \in output : f.nth = attempt.nth
  BY DEF MeasuredInv, EvidenceInv
<1>4. judged'.payload = {attempt.nth}
  BY <1>1, <1>2, <1>3
<1>5. judged'.vouched \subseteq {attempt.nth}
  BY <1>1, <1>3 DEF Reports
<1>6. judged'.says = "ours" /\ \A r \in judged'.records : r.bundle = "ours"
  BY <1>1, <1>2 DEF IdentityWrong
<1>7. LET theirs == {r \in judged'.records : r.output = "this"}
      IN (\E r \in theirs : r.result \in {"failed", "degraded"}) => \E r \in theirs : r.result = "ok"
  BY <1>1, <1>2, <1>6 DEF PipelineFailed, Correlated
<1> QED BY <1>1, <1>4, <1>5, <1>6, <1>7 DEF OwnEvidence

(* When git tells, what the child changed is taken back path by path.      *)
LEMMA TakenBackByPath ==
  ASSUME MeasuredInv, attempt.at = "ended", NEW told \in BOOLEAN, TakesBack(told), gitFaults' = 0
  PROVE  /\ told /\ gitFaults = 0
         /\ Mutations = {p \in Paths \ ControllerOwned :
                            Shows(p, plugin[p]) /\ ~Shows(p, attempt.ranOn[p])}
         /\ DOMAIN plugin' = Paths
         /\ \A p \in Paths : plugin'[p] = IF p \in ControllerOwned THEN plugin[p]
                                          ELSE Back(p, attempt.ranOn[p], plugin[p])
<1>1. gitFaults = 0 /\ told
  BY NoFaultBefore DEF TakesBack, MeasuredInv, MeasuredTypes
<1>2. attempt.baseline = {p \in Paths : Shows(p, attempt.ranOn[p])}
  BY <1>1 DEF MeasuredInv, PluginInv
<1>3. Mutations = {p \in Paths \ ControllerOwned : Shows(p, plugin[p]) /\ ~Shows(p, attempt.ranOn[p])}
  BY <1>2, DirtyShows DEF Mutations
<1>4. plugin' = ResetPlugin
  BY <1>1 DEF TakesBack
<1>5. \A p \in Paths : plugin'[p] = IF p \in ControllerOwned THEN plugin[p]
                                    ELSE Back(p, attempt.ranOn[p], plugin[p])
  BY <1>3, <1>4 DEF ResetPlugin, Back
<1>6. DOMAIN plugin' = Paths
  BY <1>4 DEF ResetPlugin
<1> QED BY <1>1, <1>3, <1>5, <1>6

(* What taking back keeps, for the whole plugin. *)
LEMMA PluginTakenBack ==
  ASSUME MeasuredInv, attempt.at = "ended", NEW told \in BOOLEAN, TakesBack(told)
  PROVE  /\ plugin' \in [Paths -> Layers]
         /\ gitFaults' = 0 =>
              /\ \A p \in Paths \ ControllerOwned : Kept(p, plugin'[p])
              /\ \A p \in Paths : 0 \in attempt.ranOn[p].work => 0 \in plugin'[p].work
<1>1. plugin \in [Paths -> Layers] /\ attempt.ranOn \in [Paths -> Layers] /\ attempt.nth \in Nat \ {0}
  BY DEF MeasuredInv, MeasuredTypes
<1>2. plugin' \in [Paths -> Layers]
  <2>1. CASE ~told
    BY <1>1, <2>1 DEF TakesBack
  <2>2. CASE told
    <3>1. plugin' = ResetPlugin
      BY <2>2 DEF TakesBack
    <3>2. \A p \in Paths : [plugin[p] EXCEPT !.work = IF p \in Tracked THEN plugin[p].index ELSE {}] \in Layers
      BY <1>1 DEF Layers
    <3> QED BY <1>1, <3>1, <3>2 DEF ResetPlugin
  <2> QED BY <2>1, <2>2
<1>3. ASSUME gitFaults' = 0
      PROVE  /\ \A p \in Paths \ ControllerOwned : Kept(p, plugin'[p])
             /\ \A p \in Paths : 0 \in attempt.ranOn[p].work => 0 \in plugin'[p].work
  <2>1. /\ gitFaults = 0
        /\ \A p \in Paths : plugin'[p] = IF p \in ControllerOwned THEN plugin[p]
                                         ELSE Back(p, attempt.ranOn[p], plugin[p])
    BY <1>3, TakenBackByPath
  <2>2. /\ \A p \in Paths \ ControllerOwned : Kept(p, attempt.ranOn[p])
        /\ \A p \in Paths : Wrote(attempt.ranOn[p], plugin[p], attempt.nth)
    BY <2>1 DEF MeasuredInv, PluginInv
  <2>3. \A p \in Paths :
          /\ Kept(p, attempt.ranOn[p]) => Kept(p, Back(p, attempt.ranOn[p], plugin[p]))
          /\ 0 \in attempt.ranOn[p].work => 0 \in Back(p, attempt.ranOn[p], plugin[p]).work
    <3> SUFFICES ASSUME NEW p \in Paths
                 PROVE  /\ Kept(p, attempt.ranOn[p]) => Kept(p, Back(p, attempt.ranOn[p], plugin[p]))
                        /\ 0 \in attempt.ranOn[p].work => 0 \in Back(p, attempt.ranOn[p], plugin[p]).work
      OBVIOUS
    <3>1. attempt.ranOn[p] \in Layers /\ plugin[p] \in Layers
          /\ Wrote(attempt.ranOn[p], plugin[p], attempt.nth)
      BY <1>1, <2>2
    <3> QED BY <1>1, <3>1, TakenBack
  <2>4. \A p \in Paths : 0 \in attempt.ranOn[p].work => 0 \in plugin[p].work
    BY <2>2 DEF Wrote
  <2> QED BY <2>1, <2>2, <2>3, <2>4
<1> QED BY <1>2, <1>3

(* A scored attempt ran the plugin as it was kept, and left it so: nothing *)
(* was to take back. *)
LEMMA ScoredPlugin ==
  ASSUME MeasuredInv, attempt.at = "ended", NEW told \in BOOLEAN, TakesBack(told), gitFaults' = 0,
         Mutations = {}
  PROVE  \A p \in Paths \ ControllerOwned :
           /\ \A n \in Changed(p, attempt.ranOn) :
                \/ 0 \in attempt.ranOn[p].work \cup attempt.ranOn[p].index
                \/ ~settings.window /\ Changed(p, attempt.ranOn) \cap attempt.ranOn[p].index # {}
           /\ attempt.nth \in plugin[p].work =>
                attempt.ranOn[p] # Unchanged \/ attempt.nth \in plugin[p].head
<1> SUFFICES ASSUME NEW p \in Paths \ ControllerOwned
             PROVE  /\ \A n \in Changed(p, attempt.ranOn) :
                         \/ 0 \in attempt.ranOn[p].work \cup attempt.ranOn[p].index
                         \/ ~settings.window /\ Changed(p, attempt.ranOn) \cap attempt.ranOn[p].index # {}
                    /\ attempt.nth \in plugin[p].work =>
                         attempt.ranOn[p] # Unchanged \/ attempt.nth \in plugin[p].head
  OBVIOUS
<1> DEFINE l == attempt.ranOn[p]
           m == plugin[p]
<1>1. /\ gitFaults = 0
      /\ Mutations = {q \in Paths \ ControllerOwned : Shows(q, plugin[q]) /\ ~Shows(q, attempt.ranOn[q])}
  BY TakenBackByPath
<1>2. /\ Kept(p, l) /\ l \in Layers
      /\ settings.window /\ p \in Tracked => l.work = {} /\ l.index = {}
  BY <1>1 DEF MeasuredInv, PluginInv, MeasuredTypes
<1>3. Changed(p, attempt.ranOn) = {n \in l.work : n > 0}
  BY DEF Changed
<1>4. Shows(p, m) => Shows(p, l)
  BY <1>1
<1> HIDE DEF l, m
<1>5. ASSUME NEW n \in l.work, n > 0, 0 \notin l.work \cup l.index
      PROVE  ~settings.window /\ {k \in l.work : k > 0} \cap l.index # {}
  <2>1. p \in Tracked
    BY <1>2, <1>5 DEF Kept
  <2>2. l.index \subseteq l.work /\ l.index # {} /\ l.work # {}
    BY <1>2, <1>5, <2>1 DEF Kept
  <2>3. PICK k \in l.index : TRUE
    BY <2>2
  <2>4. k \in l.work /\ k \in Nat /\ k # 0
    BY <1>2, <1>5, <2>2, <2>3 DEF Layers
  <2> QED BY <1>2, <2>1, <2>2, <2>3, <2>4
<1>6. ASSUME attempt.nth \in m.work
      PROVE  l # Unchanged \/ attempt.nth \in m.head
  <2>1. CASE Shows(p, l)
    BY <2>1 DEF Shows, Unchanged
  <2>2. CASE ~Shows(p, m)
    BY <1>6, <2>2 DEF Shows
  <2> QED BY <1>4, <2>1, <2>2
<1> QED BY <1>3, <1>5, <1>6 DEF l, m

(* ... and ends, by a ruling that asks for the changes first.              *)
LEMMA EndStep ==
  ASSUME MeasuredInv, attempt.at = "ended", NEW told \in BOOLEAN, TakesBack(told),
         NEW status, NEW reason, Ends(status, reason), settings' = settings,
         status = "ok" => Ruling(told /\ Mutations # {})[2] = "ok"
  PROVE  MeasuredInv'
<1>1. /\ judged'.status = status /\ judged'.nth = attempt.nth /\ judged'.ranOn = attempt.ranOn
      /\ judged'.left = plugin /\ judged'.at = "judged"
      /\ attempt' = Resting /\ attempt'.at = "rest" /\ done'.n = attempt.nth
      /\ prDir' = [prDir EXCEPT ![attempt.pr] = @ \cup output] /\ output' = {}
  BY DEF Ends, Collect, Resting
<1>2. /\ MeasuredTypes /\ attempt.nth \in Nat /\ attempt.pr \in Reviewed
      /\ attempt.ranOn \in [Paths -> Layers]
  BY DEF MeasuredInv, MeasuredTypes
<1>3. gitFaults' \in Nat
  BY <1>2, NoFaultBefore DEF TakesBack, MeasuredTypes
<1>4. prDir' \in [Reviewed -> SUBSET Files]
  BY <1>1, <1>2 DEF MeasuredTypes
<1>5. /\ plugin' \in [Paths -> Layers]
      /\ gitFaults' = 0 =>
           /\ \A p \in Paths \ ControllerOwned : Kept(p, plugin'[p])
           /\ \A p \in Paths : 0 \in attempt.ranOn[p].work => 0 \in plugin'[p].work
  BY PluginTakenBack
<1>6. MeasuredTypes'
  BY <1>1, <1>2, <1>3, <1>4, <1>5 DEF MeasuredTypes
<1>7. EvidenceInv' /\ PluginInv'
  BY <1>1, <1>5 DEF EvidenceInv, PluginInv
<1>8. OperatorKeeps'
  BY <1>1, <1>5 DEF OperatorKeeps
<1>9. CASE status # "ok"
  <2>1. ~Scored'
    BY <1>1, <1>9 DEF Scored
  <2>2. RanOnOriginal' /\ LeftOriginal' /\ OwnEvidence'
    BY <2>1 DEF RanOnOriginal, LeftOriginal, OwnEvidence
  <2> QED BY <1>6, <1>7, <1>8, <2>2 DEF MeasuredInv, JudgedInv
<1>10. CASE status = "ok"
  <2>1. OwnEvidence'
    <3>1. Ends("ok", reason) /\ Ruling(told /\ Mutations # {})[2] = "ok"
      BY <1>10
    <3>2. (told /\ Mutations # {}) \in BOOLEAN
      OBVIOUS
    <3> QED BY <3>1, <3>2, JudgedByItsOwn
  <2>2. ASSUME gitFaults' = 0
        PROVE  Mutations = {}
    <3>1. told
      BY <2>2, TakenBackByPath
    <3>2. ~(told /\ Mutations # {})
      BY <1>10, RulingOk
    <3> QED BY <3>1, <3>2
  <2>3. RanOnOriginal'
    <3> SUFFICES ASSUME gitFaults' = 0
                 PROVE  \A p \in Paths \ ControllerOwned : \A n \in Changed(p, judged'.ranOn) :
                          \/ 0 \in judged'.ranOn[p].work \cup judged'.ranOn[p].index
                          \/ ~settings'.window /\ Changed(p, judged'.ranOn) \cap judged'.ranOn[p].index # {}
      BY DEF RanOnOriginal, Changed
    <3> QED BY <1>1, <2>2, ScoredPlugin
  <2>4. LeftOriginal'
    <3> SUFFICES ASSUME gitFaults' = 0
                 PROVE  \A p \in Paths \ ControllerOwned :
                          judged'.nth \in judged'.left[p].work =>
                            judged'.ranOn[p] # Unchanged \/ judged'.nth \in judged'.left[p].head
      BY DEF LeftOriginal, Unchanged
    <3> QED BY <1>1, <2>2, ScoredPlugin
  <2> QED BY <1>6, <1>7, <1>8, <2>1, <2>3, <2>4 DEF MeasuredInv, JudgedInv
<1> QED BY <1>9, <1>10
-----------------------------------------------------------------------------
(* Who pays follows from the settings alone. *)
LEMMA BilledRight ==
  ASSUME settings \in {s.settings : s \in Starts}
  PROVE  BilledAsAsked
<1>1. settings.ambient \subseteq {"cloud", "auth_token", "api_key", "oauth"}
  BY MeasuredAssumption DEF MeasuredAssumption
<1> DEFINE usable == ChildEnv \cup (IF settings.helper THEN {"helper"} ELSE {}) \cup {"login"}
           paying == {i \in DOMAIN Precedence : Precedence[i] \in usable}
<1>2. Bills = Precedence[Min(paying)]
  BY DEF Bills
<1>3. /\ DOMAIN Precedence = 1..6
      /\ Precedence[1] = "cloud" /\ Precedence[2] = "auth_token" /\ Precedence[3] = "api_key"
      /\ Precedence[4] = "helper" /\ Precedence[5] = "oauth" /\ Precedence[6] = "login"
  BY DEF Precedence
<1>4. ASSUME NEW k \in 1..6, k \in paying, \A i \in 1..6 : i < k => i \notin paying
      PROVE  Min(paying) = k
  <2>1. paying \subseteq 1..6
    BY <1>3
  <2> HIDE DEF paying
  <2>2. \A i \in paying : k <= i
    BY <1>4, <2>1
  <2>3. Min(paying) \in paying /\ \A i \in paying : Min(paying) <= i
    BY <1>4, <2>2 DEF Min
  <2>4. Min(paying) <= k /\ k <= Min(paying)
    BY <1>4, <2>2, <2>3
  <2>5. Min(paying) \in 1..6
    BY <2>1, <2>3
  <2> HIDE DEF Min
  <2> QED BY <2>4, <2>5
<1>5. ASSUME Startable, settings.mode = "subscription"
      PROVE  Bills = "oauth"
  <2>1. ChildEnv = (settings.ambient \ Outranking) \cup {"oauth"} /\ ~settings.helper
    BY <1>5 DEF ChildEnv, Startable
  <2>2. "oauth" \in usable /\ "cloud" \notin usable /\ "auth_token" \notin usable
        /\ "api_key" \notin usable /\ "helper" \notin usable
    BY <1>1, <2>1 DEF Outranking
  <2> HIDE DEF usable
  <2>3. 5 \in paying /\ \A i \in 1..6 : i < 5 => i \notin paying
    BY <1>3, <2>2
  <2>4. Min(paying) = 5
    BY <1>4, <2>3
  <2> QED BY <1>2, <1>3, <2>4
<1>6. ASSUME settings.mode = "api", "api_key" \in settings.dotenv,
             settings.ambient \cap {"cloud", "auth_token"} = {}
      PROVE  Bills = "api_key"
  <2>1. ChildEnv = settings.ambient \cup {"api_key"}
    BY <1>6 DEF ChildEnv
  <2>2. "api_key" \in usable /\ "cloud" \notin usable /\ "auth_token" \notin usable
    BY <1>6, <2>1
  <2> HIDE DEF usable
  <2>3. 3 \in paying /\ \A i \in 1..6 : i < 3 => i \notin paying
    BY <1>3, <2>2
  <2>4. Min(paying) = 3
    BY <1>4, <2>3
  <2> QED BY <1>2, <1>3, <2>4
<1> QED BY <1>5, <1>6 DEF BilledAsAsked

LEMMA MeasuredInitInv == MeasuredInit => MeasuredInv
<1> SUFFICES ASSUME MeasuredInit PROVE MeasuredInv
  OBVIOUS
<1>1. PICK s \in Starts : plugin = s.plugin /\ settings = s.settings
  BY DEF MeasuredInit
<1>2. /\ output = {} /\ prDir = [pr \in Reviewed |-> {}] /\ attempt = Resting /\ judged = Resting
      /\ done.n = 0 /\ gitFaults = 0 /\ attempt.at = "rest"
  BY DEF MeasuredInit, Resting
<1>3. plugin \in [Paths -> [head : {{}}, index : SUBSET {0}, work : SUBSET {0}]]
  BY <1>1, MeasuredAssumption DEF MeasuredAssumption
<1>4. plugin \in [Paths -> Layers]
  <2>1. \A l \in [head : {{}}, index : SUBSET {0}, work : SUBSET {0}] : l \in Layers
    BY DEF Layers
  <2> QED BY <1>3, <2>1
<1>5. \A p \in Paths : Kept(p, plugin[p])
  <2> SUFFICES ASSUME NEW p \in Paths PROVE Kept(p, plugin[p])
    OBVIOUS
  <2>1. plugin[p].work \subseteq {0} /\ plugin[p].index \subseteq {0} /\ plugin[p].head = {}
    BY <1>3
  <2> QED BY <2>1 DEF Kept
<1>6. MeasuredTypes
  BY <1>1, <1>2, <1>4 DEF MeasuredTypes
<1>7. EvidenceInv /\ PluginInv
  BY <1>2, <1>5 DEF EvidenceInv, PluginInv
<1>8. JudgedInv
  BY <1>2 DEF JudgedInv, RanOnOriginal, LeftOriginal, OperatorKeeps, OwnEvidence, Scored
<1> QED BY <1>6, <1>7, <1>8 DEF MeasuredInv

LEMMA MeasuredStep == MeasuredInv /\ [MeasuredNext]_measuredVars => MeasuredInv'
<1> SUFFICES ASSUME MeasuredInv, [MeasuredNext]_measuredVars PROVE MeasuredInv'
  OBVIOUS
<1>1. CASE UNCHANGED measuredVars
  <2>1. UNCHANGED <<plugin, output, prDir, wfRecords, attempt, judged, done, settings, gitFaults>>
    BY <1>1 DEF measuredVars
  <2>2. MeasuredTypes' /\ EvidenceInv' /\ PluginInv'
    BY <2>1 DEF MeasuredInv, MeasuredTypes, EvidenceInv, PluginInv
  <2>3. JudgedInv'
    BY <2>1, JudgedStays DEF MeasuredInv
  <2> QED BY <2>2, <2>3 DEF MeasuredInv
<1>2. ASSUME NEW pr \in Reviewed, BeginReview(pr)
      PROVE  MeasuredInv'
  BY <1>2, BeginStep
<1>3. CASE ChildRuns
  BY <1>3, ChildStep
<1>4. CASE JudgeReview
  <2>1. PICK told \in BOOLEAN :
          /\ TakesBack(told)
          /\ LET verdict == Ruling(told /\ Mutations # {}) IN Ends(verdict[2], verdict[3])
    BY <1>4 DEF JudgeReview
  <2> DEFINE verdict == Ruling(told /\ Mutations # {})
  <2>2. Ends(verdict[2], verdict[3]) /\ TakesBack(told)
    BY <2>1
  <2>3. attempt.at = "ended" /\ settings' = settings
    BY <1>4 DEF JudgeReview
  <2>4. verdict[2] = "ok" => Ruling(told /\ Mutations # {})[2] = "ok"
    OBVIOUS
  <2> HIDE DEF verdict
  <2> QED BY <2>2, <2>3, <2>4, EndStep
<1>5. CASE ReviewTimesOut
  <2>1. PICK told \in BOOLEAN : TakesBack(told)
    BY <1>5 DEF ReviewTimesOut
  <2>2. /\ attempt.at = "ended" /\ settings' = settings /\ "timeout" # "ok"
        /\ Ends("timeout", "watchdog_timeout")
    BY <1>5 DEF ReviewTimesOut
  <2> QED BY <2>1, <2>2, EndStep
<1> QED BY <1>1, <1>2, <1>3, <1>4, <1>5 DEF MeasuredNext

(* bench/runner/invoke.py: a review that is scored ran the plugin under    *)
(* test, is judged by its own report, payload and records, and is paid for *)
(* as asked - for any plugin, any children and any number of attempts.     *)
THEOREM CreditHolds == MeasuredSpec => []CreditIsOwn
<1>1. MeasuredInv => CreditIsOwn
  BY BilledRight DEF MeasuredInv, MeasuredTypes, JudgedInv, CreditIsOwn
<1> QED BY <1>1, MeasuredInitInv, MeasuredStep, PTL DEF MeasuredSpec
-----------------------------------------------------------------------------
(* Runs of two arms (ArmMatrix).  What each try says of itself was so when *)
(* it was made, and neither the runs after it nor the host can change it.  *)
Try == [state : {"checked", "running", "valid", "invalid", "operational_failure"},
        began : Nat, ended : Nat, ran : [cli : CLI, tree : Treatment],
        checked : Nat, launched : Nat, ok : BOOLEAN, left : CLI]
Window == [opens : Nat, closes : Nat, cli : CLI, trees : [Arms -> Treatment],
           scope : (SUBSET Scope) \ {{}}, plan : SUBSET Nat]
RunRecord == [window : Nat, arm : Arms, index : Nat, started : Nat,
              saw : [cli : CLI, tree : Treatment],
              tries : UNION {[s -> Seq(Try)] : s \in SUBSET Scope}]

HostTyped ==
  minute \in Nat /\ lab \in [cli : CLI, trees : [Arms -> Treatment], changes : Nat]
RunsTyped ==
  \A r \in DOMAIN runs :
    runs[r].window \in DOMAIN windows /\ runs[r].tries \in [WindowOf(r).scope -> Seq(Try)]
RunsPinned == \A r \in DOMAIN runs : runs[r].saw.cli = WindowOf(r).cli

(* What was checked is what the window asks for, so what is launched with  *)
(* no change of the host in between is too, which needs the count of those *)
(* changes.  A failure that counts follows a failure. *)
Stands(w, a, host, t) ==
  t.state = "checked" =>
    /\ t.checked <= host.changes
    /\ t.checked = host.changes => host.trees[a] = w.trees[a]
TrySound(w, a, host, tries, i) ==
  /\ TellsOf(w, a, tries[i]) /\ Stands(w, a, host, tries[i])
  /\ tries[i].state = "valid" =>
       tries[i].ok /\ tries[i].ended <= w.closes /\ tries[i].left = w.cli
  /\ tries[i].state = "operational_failure" =>
       i > 1 /\ tries[i - 1].state = "invalid" /\ tries[i - 1].ended <= tries[i].began
AllTriesSound ==
  \A r \in DOMAIN runs : \A pr \in DOMAIN runs[r].tries : \A i \in DOMAIN Tries(r, pr) :
    TrySound(WindowOf(r), runs[r].arm, lab, Tries(r, pr), i)

MatrixInv ==
  /\ HostTyped /\ windows \in Seq(Window) /\ runs \in Seq(RunRecord)
  /\ RunsTyped /\ RunsPinned /\ AllTriesSound

LEMMA MatrixStarts == MInit => MatrixInv
<1> SUFFICES ASSUME MInit PROVE MatrixInv
  OBVIOUS
<1>1. HostTyped
  BY DEF MInit, HostTyped
<1>2. windows \in Seq(Window) /\ runs \in Seq(RunRecord) /\ DOMAIN runs = {}
  BY DEF MInit
<1> QED BY <1>1, <1>2 DEF MatrixInv, RunsTyped, RunsPinned, AllTriesSound

(* What the members of the sequences are, one by one. *)
LEMMA MatrixRows ==
  ASSUME MatrixInv
  PROVE  /\ \A n \in DOMAIN windows : n \in Nat /\ windows[n] \in Window
         /\ \A r \in DOMAIN runs : r \in Nat /\ runs[r] \in RunRecord
BY DEF MatrixInv

(* New tries of one pull request, sound each, keep all as it was. *)
LEMMA WithTriesSound ==
  ASSUME MatrixInv, NEW r \in DOMAIN runs, NEW pr \in DOMAIN runs[r].tries,
         NEW new \in Seq(Try), \A i \in DOMAIN new : TrySound(WindowOf(r), runs[r].arm, lab, new, i),
         WithTries(r, pr, new), UNCHANGED <<minute, lab, windows>>
  PROVE  MatrixInv'
<1> DEFINE x == runs[r]
           y == [x EXCEPT !.tries[pr] = new]
           given == [x.tries EXCEPT ![pr] = new]
<1>1. x \in RunRecord /\ x.tries \in [WindowOf(r).scope -> Seq(Try)] /\ x.window \in DOMAIN windows
  BY MatrixRows DEF MatrixInv, RunsTyped
<1>2. windows[x.window] \in Window /\ WindowOf(r).scope \in SUBSET Scope
  BY <1>1, MatrixRows DEF Window, WindowOf
<1>3. /\ given \in [WindowOf(r).scope -> Seq(Try)]
      /\ given[pr] = new /\ \A p \in DOMAIN x.tries : p # pr => given[p] = x.tries[p]
  BY <1>1
<1>4. y = [x EXCEPT !.tries = given]
  BY <1>1 DEF RunRecord
<1> HIDE DEF given
<1>12. given \in UNION {[s -> Seq(Try)] : s \in SUBSET Scope}
  BY <1>2, <1>3
<1>5. y \in RunRecord /\ y.window = x.window /\ y.arm = x.arm /\ y.saw = x.saw /\ y.tries = given
  BY <1>1, <1>4, <1>12 DEF RunRecord
<1>6. runs' = [runs EXCEPT ![r] = y] /\ runs \in Seq(RunRecord)
  BY DEF WithTries, MatrixInv
<1> HIDE DEF y
<1>7. runs' \in Seq(RunRecord) /\ DOMAIN runs' = DOMAIN runs /\ runs'[r] = y
  BY <1>5, <1>6
<1>8. \A q \in DOMAIN runs : q # r => runs'[q] = runs[q]
  BY <1>6
<1>9. RunsTyped'
  <2> SUFFICES ASSUME NEW q \in DOMAIN runs
               PROVE  /\ runs'[q].window \in DOMAIN windows
                      /\ runs'[q].tries \in [windows[runs'[q].window].scope -> Seq(Try)]
    BY <1>7 DEF RunsTyped, WindowOf
  <2>1. CASE q = r
    BY <2>1, <1>1, <1>3, <1>5, <1>7 DEF WindowOf
  <2>2. CASE q # r
    BY <2>2, <1>8 DEF MatrixInv, RunsTyped, WindowOf
  <2> QED BY <2>1, <2>2
<1>10. AllTriesSound'
  <2> SUFFICES ASSUME NEW q \in DOMAIN runs, NEW p \in DOMAIN runs'[q].tries,
                      NEW i \in DOMAIN runs'[q].tries[p]
               PROVE  TrySound(windows[runs'[q].window], runs'[q].arm, lab, runs'[q].tries[p], i)
    BY <1>7 DEF AllTriesSound, WindowOf, Tries
  <2>1. CASE q # r
    BY <2>1, <1>8 DEF MatrixInv, AllTriesSound, WindowOf, Tries
  <2>2. CASE q = r /\ p = pr
    <3>1. runs'[q].tries[p] = new
      BY <2>2, <1>3, <1>5, <1>7
    <3> QED BY <3>1, <2>2, <1>5, <1>7 DEF WindowOf
  <2>3. CASE q = r /\ p # pr
    <3>1. p \in DOMAIN x.tries /\ runs'[q].tries[p] = x.tries[p]
      BY <2>3, <1>1, <1>3, <1>5, <1>7
    <3> QED BY <3>1, <2>3, <1>5, <1>7 DEF MatrixInv, AllTriesSound, WindowOf, Tries
  <2> QED BY <2>1, <2>2, <2>3
<1>11. HostTyped' /\ windows' \in Seq(Window)
  BY DEF MatrixInv, HostTyped
<1>13. RunsPinned'
  <2> SUFFICES ASSUME NEW q \in DOMAIN runs
               PROVE  runs'[q].saw.cli = windows[runs'[q].window].cli
    BY <1>7 DEF RunsPinned, WindowOf
  <2>1. x.saw.cli = windows[x.window].cli /\ runs[q].saw.cli = windows[runs[q].window].cli
    BY DEF MatrixInv, RunsPinned, WindowOf
  <2>2. CASE q = r
    BY <2>1, <2>2, <1>5, <1>7
  <2>3. CASE q # r
    BY <2>1, <2>3, <1>8
  <2> QED BY <2>2, <2>3
<1> QED BY <1>7, <1>9, <1>10, <1>11, <1>13 DEF MatrixInv

LEMMA BeginTrySound ==
  ASSUME MatrixInv, NEW r \in DOMAIN runs, NEW pr \in DOMAIN runs[r].tries, BeginTry(r, pr)
  PROVE  MatrixInv'
<1> DEFINE a == runs[r].arm
           t == [state |-> "checked", began |-> minute, ended |-> minute, ran |-> Fingerprint(a),
                 checked |-> lab.changes, launched |-> lab.changes, ok |-> FALSE, left |-> lab.cli]
           old == Tries(r, pr)
           new == Append(old, t)
<1>1. a \in Arms /\ old \in Seq(Try)
  BY MatrixRows DEF RunRecord, MatrixInv, RunsTyped, Tries
<1>2. t \in Try
  BY <1>1 DEF Try, MatrixInv, HostTyped, Fingerprint
<1>3. TellsOf(WindowOf(r), a, t) /\ Stands(WindowOf(r), a, lab, t)
  <2>1. Fingerprint(a) = [cli |-> WindowOf(r).cli, tree |-> WindowOf(r).trees[a]]
    BY DEF BeginTry, SameContext, Conforms
  <2>2. lab.trees[a] = WindowOf(r).trees[a] /\ lab.changes <= lab.changes
    BY <2>1 DEF Fingerprint, MatrixInv, HostTyped
  <2>3. minute \in WindowOf(r).opens..WindowOf(r).closes
    BY DEF BeginTry, SameContext, Conforms
  <2> QED BY <2>1, <2>2, <2>3 DEF TellsOf, Stands
<1>4. \A i \in DOMAIN old : TrySound(WindowOf(r), a, lab, old, i)
  BY DEF MatrixInv, AllTriesSound
<1>5. t.state = "checked" /\ WithTries(r, pr, new) /\ UNCHANGED <<minute, lab, windows>>
  BY DEF BeginTry
<1> HIDE DEF t, old
<1>6. /\ new \in Seq(Try) /\ DOMAIN new = DOMAIN old \cup {Len(old) + 1}
      /\ new[Len(old) + 1] = t /\ \A i \in DOMAIN old : new[i] = old[i] /\ i \in 1..Len(old)
  BY <1>1, <1>2
<1>7. ASSUME NEW i \in DOMAIN new PROVE TrySound(WindowOf(r), a, lab, new, i)
  <2>1. CASE i = Len(old) + 1
    BY <2>1, <1>3, <1>5, <1>6 DEF TrySound
  <2>2. CASE i \in DOMAIN old
    <3>1. TrySound(WindowOf(r), a, lab, old, i) /\ new[i] = old[i]
      BY <2>2, <1>4, <1>6
    <3>2. i > 1 => i - 1 \in DOMAIN old /\ new[i - 1] = old[i - 1]
      BY <2>2, <1>1, <1>6
    <3> QED BY <3>1, <3>2 DEF TrySound
  <2> QED BY <2>1, <2>2, <1>6
<1> HIDE DEF new
<1> QED BY <1>5, <1>6, <1>7, WithTriesSound

(* The last try in another state, sound too, keeps all as it was.          *)
LEMMA LastTrySound ==
  ASSUME MatrixInv, NEW r \in DOMAIN runs, NEW pr \in DOMAIN runs[r].tries,
         NEW n \in DOMAIN Tries(r, pr), n = Len(Tries(r, pr)), NEW t \in Try,
         TrySound(WindowOf(r), runs[r].arm, lab, [Tries(r, pr) EXCEPT ![n] = t], n),
         WithTries(r, pr, [Tries(r, pr) EXCEPT ![n] = t]), UNCHANGED <<minute, lab, windows>>
  PROVE  MatrixInv'
<1> DEFINE a == runs[r].arm
           w == WindowOf(r)
           old == Tries(r, pr)
           new == [old EXCEPT ![n] = t]
<1>1. old \in Seq(Try) /\ \A i \in DOMAIN old : TrySound(w, a, lab, old, i)
  BY MatrixRows DEF RunRecord, MatrixInv, RunsTyped, Tries, AllTriesSound
<1>2. n \in Nat /\ DOMAIN old = 1..n /\ TrySound(w, a, lab, new, n) /\ WithTries(r, pr, new)
  BY <1>1
<1> HIDE DEF old
<1>3. /\ new \in Seq(Try) /\ DOMAIN new = 1..n
      /\ \A i \in 1..n : i # n => new[i] = old[i]
  BY <1>1, <1>2
<1> HIDE DEF new
<1>4. ASSUME NEW i \in DOMAIN new PROVE TrySound(w, a, lab, new, i)
  <2>1. CASE i # n
    <3>1. TrySound(w, a, lab, old, i) /\ i \in 1..n
      BY <1>1, <1>2, <1>3
    <3>2. new[i] = old[i] /\ (i > 1 => new[i - 1] = old[i - 1])
      BY <2>1, <3>1, <1>2, <1>3
    <3> QED BY <3>1, <3>2 DEF TrySound
  <2> QED BY <2>1, <1>2
<1> QED BY <1>2, <1>3, <1>4, WithTriesSound

LEMMA LaunchTrySound ==
  ASSUME MatrixInv, NEW r \in DOMAIN runs, NEW pr \in DOMAIN runs[r].tries, LaunchTry(r, pr)
  PROVE  MatrixInv'
<1> DEFINE a == runs[r].arm
           w == WindowOf(r)
           old == Tries(r, pr)
           n == Len(old)
           now == Fingerprint(a)
           c == lab.changes
           t == [old[n] EXCEPT !.state = "running", !.ran = now, !.launched = c]
           new == [old EXCEPT ![n] = t]
<1>1. a \in Arms /\ old \in Seq(Try)
  BY MatrixRows DEF RunRecord, MatrixInv, RunsTyped, Tries
<1>2. /\ n \in DOMAIN old /\ old[n].state = "checked" /\ lab.cli = runs[r].saw.cli
      /\ WithTries(r, pr, new) /\ UNCHANGED <<minute, lab, windows>>
  BY <1>1 DEF LaunchTry
<1>3. TellsOf(w, a, old[n]) /\ Stands(w, a, lab, old[n])
  BY <1>2 DEF MatrixInv, AllTriesSound, TrySound
<1>4. now \in [cli : CLI, tree : Treatment] /\ now.cli = lab.cli /\ now.tree = lab.trees[a]
  BY <1>1 DEF MatrixInv, HostTyped, Fingerprint
<1>5. c \in Nat /\ c = lab.changes
  BY DEF MatrixInv, HostTyped
<1>6. lab.cli = w.cli
  BY <1>2 DEF MatrixInv, RunsPinned
<1> HIDE DEF old, n, now, c
<1>7. old[n] \in Try
  BY <1>1, <1>2
<1>8. /\ t \in Try /\ t.state = "running" /\ t.ran = now /\ t.launched = c
      /\ t.began = old[n].began /\ t.checked = old[n].checked
  BY <1>4, <1>5, <1>7 DEF Try
<1> HIDE DEF t
<1>9. TellsOf(w, a, t) /\ Stands(w, a, lab, t)
  <2>1. t.launched = t.checked => lab.trees[a] = w.trees[a]
    BY <1>2, <1>3, <1>5, <1>8 DEF Stands
  <2>2. Steady(t) => t.ran.tree = w.trees[a]
    BY <2>1, <1>4, <1>8 DEF Steady
  <2>3. t.ran.cli = w.cli /\ t.began \in w.opens..w.closes
    BY <1>3, <1>4, <1>6, <1>8 DEF TellsOf
  <2> QED BY <2>2, <2>3, <1>8 DEF TellsOf, Stands
<1>10. new[n] = t
  BY <1>1, <1>2
<1>11. TrySound(w, a, lab, new, n)
  BY <1>8, <1>9, <1>10 DEF TrySound
<1> QED BY <1>2, <1>8, <1>11, LastTrySound DEF old, n, new

LEMMA EndTrySound ==
  ASSUME MatrixInv, NEW r \in DOMAIN runs, NEW pr \in DOMAIN runs[r].tries, EndTry(r, pr)
  PROVE  MatrixInv'
<1> DEFINE a == runs[r].arm
           w == WindowOf(r)
           old == Tries(r, pr)
           n == Len(old)
<1>1. a \in Arms /\ old \in Seq(Try)
  BY MatrixRows DEF RunRecord, MatrixInv, RunsTyped, Tries
<1>2. \A i \in DOMAIN old : TrySound(w, a, lab, old, i)
  BY DEF MatrixInv, AllTriesSound
<1>3. runs[r].saw.cli = w.cli => (InOrder(r) => lab.cli = w.cli)
  BY DEF InOrder
<1>4. InOrder(r) => runs[r].saw = [cli |-> w.cli, tree |-> w.trees[a]] /\ minute \in w.opens..w.closes
  BY DEF InOrder, Conforms
<1>5. w \in Window /\ minute \in Nat /\ lab.cli \in CLI
  BY MatrixRows DEF MatrixInv, RunsTyped, WindowOf, HostTyped
<1>6. InOrder(r) => minute <= w.closes /\ lab.cli = w.cli
  BY <1>3, <1>4, <1>5 DEF Window
<1>7. PICK ok \in BOOLEAN :
        WithTries(r, pr, [old EXCEPT ![n] = [@ EXCEPT !.state = TryOutcome(r, pr, ok),
                                                      !.ended = minute, !.ok = ok, !.left = lab.cli]])
  BY DEF EndTry
<1> DEFINE o == TryOutcome(r, pr, ok)
           t == [old[n] EXCEPT !.state = o, !.ended = minute, !.ok = ok, !.left = lab.cli]
           new == [old EXCEPT ![n] = t]
<1>8. o \in {"valid", "invalid", "operational_failure"}
  BY DEF TryOutcome
<1>9. o = "valid" => ok /\ minute <= w.closes /\ lab.cli = w.cli
  BY <1>6 DEF TryOutcome
<1>10. o = "operational_failure" =>
         n > 1 /\ old[n - 1].state = "invalid" /\ old[n - 1].ended <= old[n].began
  BY DEF TryOutcome
<1>11. n \in DOMAIN old /\ n \in Nat /\ DOMAIN old = 1..n /\ UNCHANGED <<minute, lab, windows>>
  BY <1>1 DEF EndTry
<1> HIDE DEF o, old, n
<1>12. old[n] \in Try
  BY <1>1, <1>11
<1>13. /\ t \in Try /\ t.state = o /\ t.ended = minute /\ t.ok = ok /\ t.left = lab.cli
       /\ t.began = old[n].began /\ t.ran = old[n].ran
  BY <1>5, <1>8, <1>12 DEF Try
<1>14. Stands(w, a, lab, t) /\ TellsOf(w, a, t)
  <2>1. TellsOf(w, a, old[n])
    BY <1>2, <1>11 DEF TrySound
  <2>2. t.checked = old[n].checked /\ t.launched = old[n].launched
    BY <1>12 DEF Try, t
  <2>3. Steady(t) => Steady(old[n])
    BY <2>2 DEF Steady
  <2> QED BY <2>1, <2>3, <1>8, <1>13 DEF TellsOf, Stands
<1> HIDE DEF t
<1>15. WithTries(r, pr, new)
  BY <1>7 DEF t, o
<1>16. new[n] = t /\ (n > 1 => new[n - 1] = old[n - 1])
  <2>1. n > 1 => n - 1 \in 1..n /\ n - 1 # n
    BY <1>11
  <2> QED BY <2>1, <1>1, <1>11
<1>17. TrySound(w, a, lab, new, n)
  <2> HIDE DEF new
  <2> QED BY <1>9, <1>10, <1>13, <1>14, <1>16 DEF TrySound
<1> QED BY <1>11, <1>13, <1>15, <1>17, LastTrySound DEF old, n, new

LEMMA PassKilledSound ==
  ASSUME MatrixInv, NEW r \in DOMAIN runs, NEW pr \in DOMAIN runs[r].tries, PassKilled(r, pr)
  PROVE  MatrixInv'
<1> DEFINE a == runs[r].arm
           old == Tries(r, pr)
           new == Front(old)
<1>1. old \in Seq(Try) /\ old # <<>> /\ \A i \in DOMAIN old : TrySound(WindowOf(r), a, lab, old, i)
  BY DEF MatrixInv, RunsTyped, AllTriesSound, Tries, PassKilled
<1>2. WithTries(r, pr, new) /\ UNCHANGED <<minute, lab, windows>>
  BY DEF PassKilled
<1> HIDE DEF old
<1>3. /\ new \in Seq(Try) /\ DOMAIN new \subseteq DOMAIN old
      /\ \A i \in DOMAIN new : new[i] = old[i] /\ (i > 1 => i - 1 \in DOMAIN new)
  BY <1>1 DEF Front
<1> HIDE DEF new
<1>4. \A i \in DOMAIN new : TrySound(WindowOf(r), a, lab, new, i)
  <2> SUFFICES ASSUME NEW i \in DOMAIN new PROVE TrySound(WindowOf(r), a, lab, new, i)
    OBVIOUS
  <2>1. TrySound(WindowOf(r), a, lab, old, i) /\ new[i] = old[i] /\ (i > 1 => new[i - 1] = old[i - 1])
    BY <1>1, <1>3
  <2> QED BY <2>1 DEF TrySound
<1> QED BY <1>2, <1>3, <1>4, WithTriesSound

LEMMA StartRunSound ==
  ASSUME MatrixInv, StartRun
  PROVE  MatrixInv'
<1>1. PICK n \in DOMAIN windows, a \in Arms :
        Conforms(windows[n], a, Fingerprint(a), minute) /\ \E i \in windows[n].plan :
        runs' = Append(runs, [window |-> n, arm |-> a, index |-> i, started |-> minute,
                              saw |-> Fingerprint(a), tries |-> [pr \in windows[n].scope |-> <<>>]])
  BY DEF StartRun
<1>2. PICK i \in windows[n].plan :
        runs' = Append(runs, [window |-> n, arm |-> a, index |-> i, started |-> minute,
                              saw |-> Fingerprint(a), tries |-> [pr \in windows[n].scope |-> <<>>]])
  BY <1>1
<1> DEFINE none == [pr \in windows[n].scope |-> <<>>]
           x == [window |-> n, arm |-> a, index |-> i, started |-> minute,
                 saw |-> Fingerprint(a), tries |-> none]
<1>3. n \in Nat /\ windows[n] \in Window /\ minute \in Nat
  BY MatrixRows DEF MatrixInv, HostTyped
<1>4. i \in Nat /\ windows[n].scope \in SUBSET Scope /\ none \in [windows[n].scope -> Seq(Try)]
  BY <1>3 DEF Window
<1>5. Fingerprint(a) \in [cli : CLI, tree : Treatment]
  BY DEF MatrixInv, HostTyped, Fingerprint
<1>6. x \in RunRecord /\ x.window = n /\ x.tries = none /\ x.saw = Fingerprint(a)
  BY <1>3, <1>4, <1>5 DEF RunRecord
<1>7. runs' = Append(runs, x) /\ runs \in Seq(RunRecord) /\ UNCHANGED <<minute, lab, windows>>
  BY <1>2 DEF MatrixInv, StartRun
<1> HIDE DEF x
<1>8. /\ runs' \in Seq(RunRecord) /\ DOMAIN runs' = DOMAIN runs \cup {Len(runs) + 1}
      /\ runs'[Len(runs) + 1] = x /\ \A r \in DOMAIN runs : runs'[r] = runs[r]
  BY <1>6, <1>7
<1>9. RunsTyped'
  <2> SUFFICES ASSUME NEW r \in DOMAIN runs'
               PROVE  /\ runs'[r].window \in DOMAIN windows
                      /\ runs'[r].tries \in [windows[runs'[r].window].scope -> Seq(Try)]
    BY <1>7 DEF RunsTyped, WindowOf
  <2>1. CASE r = Len(runs) + 1
    BY <2>1, <1>4, <1>6, <1>8
  <2>2. CASE r \in DOMAIN runs
    BY <2>2, <1>8 DEF MatrixInv, RunsTyped, WindowOf
  <2> QED BY <2>1, <2>2, <1>8
<1>10. AllTriesSound'
  <2> SUFFICES ASSUME NEW r \in DOMAIN runs', NEW pr \in DOMAIN runs'[r].tries,
                      NEW k \in DOMAIN runs'[r].tries[pr]
               PROVE  TrySound(windows[runs'[r].window], runs'[r].arm, lab, runs'[r].tries[pr], k)
    BY <1>7 DEF AllTriesSound, WindowOf, Tries
  <2>1. CASE r = Len(runs) + 1
    <3>1. runs'[r].tries[pr] = <<>>
      BY <2>1, <1>6, <1>8
    <3> QED BY <3>1
  <2>2. CASE r \in DOMAIN runs
    BY <2>2, <1>8 DEF MatrixInv, AllTriesSound, WindowOf, Tries
  <2> QED BY <2>1, <2>2, <1>8
<1>11. HostTyped' /\ windows' \in Seq(Window)
  BY <1>7 DEF MatrixInv, HostTyped
<1>12. RunsPinned'
  <2> SUFFICES ASSUME NEW r \in DOMAIN runs'
               PROVE  runs'[r].saw.cli = windows[runs'[r].window].cli
    BY <1>7 DEF RunsPinned, WindowOf
  <2>1. CASE r = Len(runs) + 1
    <3>1. Fingerprint(a).cli = windows[n].cli
      BY <1>1 DEF Conforms
    <3> QED BY <2>1, <3>1, <1>6, <1>8
  <2>2. CASE r \in DOMAIN runs
    BY <2>2, <1>8 DEF MatrixInv, RunsPinned, WindowOf
  <2> QED BY <2>1, <2>2, <1>8
<1> QED BY <1>8, <1>9, <1>10, <1>11, <1>12 DEF MatrixInv

LEMMA OpenWindowSound ==
  ASSUME MatrixInv, OpenWindow
  PROVE  MatrixInv'
<1>1. PICK w : w \in Window /\ windows' = Append(windows, w)
  <2>1. PICK scope \in (SUBSET Scope) \ {{}}, n \in 1..MaxPlanned, opens \in {minute, minute + 1},
             hours \in Hours :
          windows' = Append(windows, [opens |-> opens, closes |-> opens + hours, cli |-> lab.cli,
                                      trees |-> lab.trees, scope |-> scope, plan |-> 1..n])
    BY DEF OpenWindow
  <2>2. opens \in Nat /\ opens + hours \in Nat /\ 1..n \in SUBSET Nat
    BY MatrixAssumption DEF MatrixInv, HostTyped
  <2> QED BY <2>1, <2>2 DEF Window, MatrixInv, HostTyped
<1>2. /\ windows' \in Seq(Window) /\ DOMAIN windows \subseteq DOMAIN windows'
      /\ \A n \in DOMAIN windows : windows'[n] = windows[n]
  <2>1. windows \in Seq(Window)
    BY DEF MatrixInv
  <2> QED BY <1>1, <2>1
<1>3. UNCHANGED <<minute, lab, runs>>
  BY DEF OpenWindow
<1>4. \A r \in DOMAIN runs : windows'[runs[r].window] = WindowOf(r)
  BY <1>2 DEF MatrixInv, RunsTyped, WindowOf
<1>5. RunsTyped'
  BY <1>2, <1>3, <1>4 DEF MatrixInv, RunsTyped, WindowOf
<1>6. AllTriesSound'
  BY <1>3, <1>4 DEF MatrixInv, AllTriesSound, WindowOf, Tries
<1>7. RunsPinned'
  BY <1>3, <1>4 DEF MatrixInv, RunsPinned, WindowOf
<1> QED BY <1>2, <1>3, <1>5, <1>6, <1>7 DEF MatrixInv, HostTyped

LEMMA HostSound ==
  ASSUME MatrixInv, MinutePasses \/ HostChanges \/ UNCHANGED matrixVars
  PROVE  MatrixInv'
<1>1. windows' = windows /\ runs' = runs
  BY DEF MinutePasses, HostChanges, matrixVars
<1>2. HostTyped'
  <2>1. CASE MinutePasses
    BY <2>1 DEF MinutePasses, MatrixInv, HostTyped
  <2>2. CASE UNCHANGED matrixVars
    BY <2>2 DEF matrixVars, MatrixInv, HostTyped
  <2>3. CASE HostChanges
    <3>1. minute' = minute /\ lab \in [cli : CLI, trees : [Arms -> Treatment], changes : Nat]
      BY <2>3 DEF HostChanges, MatrixInv, HostTyped
    <3>2. ASSUME NEW cli \in CLI, lab' = [lab EXCEPT !.cli = cli, !.changes = @ + 1]
          PROVE  lab' \in [cli : CLI, trees : [Arms -> Treatment], changes : Nat]
      <4>1. lab' = [cli |-> cli, trees |-> lab.trees, changes |-> lab.changes + 1]
        BY <3>1, <3>2
      <4> QED BY <4>1, <3>1
    <3>3. ASSUME NEW a \in Arms, NEW t \in Treatment, lab' = [lab EXCEPT !.trees[a] = t, !.changes = @ + 1]
          PROVE  lab' \in [cli : CLI, trees : [Arms -> Treatment], changes : Nat]
      <4>1. lab' = [cli |-> lab.cli, trees |-> [lab.trees EXCEPT ![a] = t], changes |-> lab.changes + 1]
        BY <3>1, <3>3
      <4>2. [lab.trees EXCEPT ![a] = t] \in [Arms -> Treatment]
        BY <3>1
      <4> QED BY <4>1, <4>2, <3>1
    <3> QED BY <2>3, <3>1, <3>2, <3>3 DEF HostChanges, MatrixInv, HostTyped
  <2> QED BY <2>1, <2>2, <2>3
<1>3. RunsTyped' /\ RunsPinned'
  BY <1>1 DEF MatrixInv, RunsTyped, RunsPinned, WindowOf
<1>4. AllTriesSound'
  <2> SUFFICES ASSUME NEW r \in DOMAIN runs, NEW pr \in DOMAIN runs[r].tries,
                      NEW i \in DOMAIN Tries(r, pr)
               PROVE  TrySound(WindowOf(r), runs[r].arm, lab', Tries(r, pr), i)
    BY <1>1 DEF AllTriesSound, WindowOf, Tries
  <2> DEFINE t == Tries(r, pr)[i]
  <2>1. TrySound(WindowOf(r), runs[r].arm, lab, Tries(r, pr), i)
    BY DEF MatrixInv, AllTriesSound
  <2>2. t \in Try
    BY DEF MatrixInv, RunsTyped, Tries
  <2>3. t.checked \in Nat /\ lab.changes \in Nat
    BY <2>2 DEF Try, MatrixInv, HostTyped
  <2>4. lab' = lab \/ lab'.changes = lab.changes + 1
    <3>1. CASE HostChanges
      <4>1. lab \in [cli : CLI, trees : [Arms -> Treatment], changes : Nat]
        BY DEF MatrixInv, HostTyped
      <4>2. ASSUME NEW cli \in CLI, lab' = [lab EXCEPT !.cli = cli, !.changes = @ + 1]
            PROVE  lab'.changes = lab.changes + 1
        <5>1. lab' = [cli |-> cli, trees |-> lab.trees, changes |-> lab.changes + 1]
          BY <4>1, <4>2
        <5> QED BY <5>1
      <4>3. ASSUME NEW a \in Arms, NEW u \in Treatment, lab' = [lab EXCEPT !.trees[a] = u, !.changes = @ + 1]
            PROVE  lab'.changes = lab.changes + 1
        <5>1. lab' = [cli |-> lab.cli, trees |-> [lab.trees EXCEPT ![a] = u], changes |-> lab.changes + 1]
          BY <4>1, <4>3
        <5> QED BY <5>1
      <4> QED BY <3>1, <4>2, <4>3 DEF HostChanges
    <3>2. CASE ~HostChanges
      BY <3>2 DEF MinutePasses, matrixVars
    <3> QED BY <3>1, <3>2
  <2>5. Stands(WindowOf(r), runs[r].arm, lab, t)
    BY <2>1 DEF TrySound
  <2> HIDE DEF t
  <2>6. Stands(WindowOf(r), runs[r].arm, lab', t)
    <3>1. CASE lab' = lab
      BY <3>1, <2>5
    <3>2. CASE lab'.changes = lab.changes + 1
      <4>1. \A m, k \in Nat : m <= k => m <= k + 1 /\ m # k + 1
        OBVIOUS
      <4>2. t.checked <= lab.changes => t.checked <= lab'.changes /\ t.checked # lab'.changes
        BY <4>1, <3>2, <2>3
      <4> QED BY <4>2, <2>5 DEF Stands
    <3> QED BY <3>1, <3>2, <2>4
  <2> QED BY <2>1, <2>6 DEF TrySound, t
<1> QED BY <1>1, <1>2, <1>3, <1>4 DEF MatrixInv

LEMMA MatrixInductive == MatrixInv /\ [MatrixNext]_matrixVars => MatrixInv'
BY BeginTrySound, LaunchTrySound, EndTrySound, PassKilledSound, StartRunSound, OpenWindowSound, HostSound
   DEF MatrixNext

-----------------------------------------------------------------------------
(* The least and the greatest of a bounded set of naturals.                *)
LEMMA EarliestOf ==
  ASSUME NEW T \in SUBSET Nat, T # {}
  PROVE  Min(T) \in T /\ \A y \in T : Min(T) <= y
<1>1. IsWellFoundedOn(OpToRel(<, Nat), Nat)
  BY NatLessThanWellFounded
<1>2. PICK x \in T : \A y \in T : ~ (<<y, x>> \in OpToRel(<, Nat))
  BY <1>1, WFMin, Zenon
<1>3. \A y \in T : ~(y < x)
  BY <1>2 DEF OpToRel
<1>4. \A y \in T : y \in Nat /\ x \in Nat
  BY <1>2
<1>5. \A y \in T : x <= y
  BY <1>3, <1>4
<1> QED BY <1>2, <1>5 DEF Min

LEMMA LatestOf ==
  ASSUME NEW m \in Nat, NEW T \in SUBSET (0..m), T # {}
  PROVE  Max(T) \in T /\ \A y \in T : y <= Max(T)
<1> DEFINE D == {m - x : x \in T}
<1>1. D \in SUBSET Nat /\ D # {}
  <2>1. \A x \in T : x \in 0..m /\ m - x \in Nat
    OBVIOUS
  <2> QED BY <2>1
<1>2. Min(D) \in D /\ \A y \in D : Min(D) <= y
  BY <1>1, EarliestOf
<1>3. PICK x \in T : Min(D) = m - x
  BY <1>2
<1>4. \A y \in T : x >= y
  <2> SUFFICES ASSUME NEW y \in T PROVE x >= y
    OBVIOUS
  <2>1. m - y \in D /\ x \in Nat /\ y \in Nat
    BY <1>3
  <2>2. m - x <= m - y
    BY <2>1, <1>2, <1>3
  <2> QED BY <2>1, <2>2
<1>5. \E z \in T : \A y \in T : z >= y
  BY <1>4
<1>6. Max(T) \in T /\ \A y \in T : Max(T) >= y
  BY <1>5 DEF Max
<1>7. \A y \in T : y \in 0..m
  OBVIOUS
<1> HIDE DEF D
<1>8. Max(T) \in Nat /\ \A y \in T : y \in Nat
  <2>1. \A y \in 0..m : y \in Nat
    OBVIOUS
  <2> QED BY <2>1, <1>6, <1>7
<1> QED BY <1>6, <1>8

(* What a comparison names of an arm are runs that fit, one after another. *)
LEMMA NamedRunsFit ==
  ASSUME NEW c \in Comparison, NEW a \in Arms
  PROVE  /\ c.blocks \in SUBSET DOMAIN windows
         /\ \E k \in Nat : /\ DOMAIN c.runs[a] = 1..k
                           /\ \A i \in 1..k : c.runs[a][i] \in DOMAIN runs /\ Fits(a, c.runs[a][i])
<1>1. PICK x \in BOOLEAN :
        c \in [runs : {[o \in Arms |-> IF o = Arm[1] THEN s ELSE t] :
                        s \in Listings(Arm[1], RunCount(x)), t \in Listings(Arm[2], RunCount(x))},
               blocks : SUBSET DOMAIN windows]
  BY DEF Comparison
<1>2. PICK s \in Listings(Arm[1], RunCount(x)), t \in Listings(Arm[2], RunCount(x)) :
        c.runs = [o \in Arms |-> IF o = Arm[1] THEN s ELSE t]
  BY <1>1
<1>3. RunCount(x) \in Nat
  BY GateAssumption DEF RunCount
<1>4. c.runs[a] \in Listings(a, RunCount(x))
  BY <1>2 DEF Arms
<1>5. c.runs[a] \in [1..RunCount(x) -> {r \in DOMAIN runs : Fits(a, r)}]
  BY <1>4 DEF Listings
<1> QED BY <1>1, <1>3, <1>5

(* A run that fits has an earned cell for each pull request of its window. *)
LEMMA FitsIsEarned ==
  ASSUME MatrixInv, NEW a \in Arms, NEW r \in DOMAIN runs, Fits(a, r),
         NEW pr \in DOMAIN runs[r].tries
  PROVE  /\ CellIsEarned(a, r, pr)
         /\ SelectedTry(r, pr).began \in 0..WindowOf(r).closes
<1> DEFINE w == WindowOf(r)
           old == Tries(r, pr)
           n == Len(old)
<1>1. old \in Seq(Try) /\ w \in Window
  BY MatrixRows DEF MatrixInv, RunsTyped, Tries, WindowOf
<1>2. \A i \in DOMAIN old : TrySound(w, a, lab, old, i)
  BY DEF MatrixInv, AllTriesSound, Fits
<1>3. old # <<>> /\ Last(old).state \in {"valid", "operational_failure"}
  BY DEF Fits, Scores, SelectedTry
<1>4. SelectedTry(r, pr) = old[n]
  BY DEF SelectedTry, Last
<1>5. n \in Nat /\ n > 0 /\ DOMAIN old = 1..n
  BY <1>1, <1>3
<1> HIDE DEF old, n, w
<1>6. old[n].state \in {"valid", "operational_failure"} /\ TrySound(w, a, lab, old, n) /\ old[n] \in Try
  BY <1>1, <1>2, <1>3, <1>5 DEF n, Last
<1>7. ASSUME old[n].state = "operational_failure"
      PROVE  /\ n > 1 /\ TellsOf(w, a, old[n - 1]) /\ old[n - 1].state = "invalid"
             /\ old[n - 1].ended <= old[n].began
  <2>1. n > 1 /\ old[n - 1].state = "invalid" /\ old[n - 1].ended <= old[n].began
    BY <1>6, <1>7 DEF TrySound
  <2>2. n - 1 \in DOMAIN old
    BY <2>1, <1>5
  <2> QED BY <2>1, <2>2, <1>2 DEF TrySound
<1>8. /\ TellsOf(w, a, old[n])
      /\ old[n].state = "valid" => old[n].ok /\ old[n].ended <= w.closes /\ old[n].left = w.cli
  BY <1>6 DEF TrySound
<1>9. CellIsEarned(a, r, pr)
  <2>1. CASE old[n].state = "valid"
    BY <2>1, <1>4, <1>8 DEF CellIsEarned, n, old, w
  <2>2. CASE old[n].state = "operational_failure"
    BY <2>2, <1>4, <1>7, <1>8 DEF CellIsEarned, n, old, w
  <2> QED BY <2>1, <2>2, <1>6
<1>10. old[n].began \in 0..w.closes
  BY <1>1, <1>6, <1>8 DEF TellsOf, Try, Window
<1> QED BY <1>4, <1>9, <1>10 DEF w

(* Of a run that fits, some review began first and some last.              *)
LEMMA BeginsAndEnds ==
  ASSUME MatrixInv, NEW a \in Arms, NEW r \in DOMAIN runs, Fits(a, r)
  PROVE  LET began == StartsOf(r).attempts
         IN /\ began \in SUBSET Nat /\ began # {}
            /\ Min(began) \in Nat /\ \A y \in began : Min(began) <= y
            /\ Max(began) \in Nat /\ \A y \in began : y <= Max(began)
<1> DEFINE began == {SelectedTry(r, pr).began : pr \in DOMAIN runs[r].tries}
           m == WindowOf(r).closes
<1>1. StartsOf(r).attempts = began
  BY DEF StartsOf
<1>2. WindowOf(r) \in Window /\ DOMAIN runs[r].tries = WindowOf(r).scope
  BY MatrixRows DEF MatrixInv, RunsTyped, WindowOf
<1>3. began # {} /\ m \in Nat
  BY <1>2 DEF Window
<1>4. began \in SUBSET (0..m)
  BY FitsIsEarned
<1> HIDE DEF began, m
<1>5. began \in SUBSET Nat
  BY <1>3, <1>4
<1>6. Min(began) \in began /\ \A y \in began : Min(began) <= y
  BY <1>3, <1>5, EarliestOf
<1>7. Max(began) \in began /\ \A y \in began : y <= Max(began)
  BY <1>3, <1>4, LatestOf
<1> QED BY <1>1, <1>3, <1>5, <1>6, <1>7

(* The run of each index of a balanced block is one the comparison names.  *)
LEMMA BlockRuns ==
  ASSUME NEW c \in Comparison, NEW b, Balanced(c, b), NEW a \in Arms, NEW i \in 1..Length(c, b)
  PROVE  InBlock(c, b, a, i) \in DOMAIN runs /\ Fits(a, InBlock(c, b, a, i))
<1>1. \E p \in Placed(c, b, a) : runs[c.runs[a][p]].index = i
  BY DEF Balanced
<1>2. PICK p \in Placed(c, b, a) : InBlock(c, b, a, i) = c.runs[a][p]
  BY <1>1 DEF InBlock
<1>3. p \in DOMAIN c.runs[a]
  BY <1>2 DEF Placed
<1> QED BY <1>2, <1>3, NamedRunsFit

LEMMA LengthIsNat ==
  ASSUME NEW c \in Comparison, NEW b
  PROVE  Length(c, b) \in Nat
<1>1. Arm[1] \in Arms
  BY DEF Arms
<1>2. PICK k \in Nat : DOMAIN c.runs[Arm[1]] = 1..k
  BY <1>1, NamedRunsFit
<1>3. IsFiniteSet(1..k)
  BY <1>2, FS_Interval
<1>4. Placed(c, b, Arm[1]) \subseteq 1..k
  BY <1>2 DEF Placed
<1> QED BY <1>3, <1>4, FS_Subset, FS_CardinalityType DEF Length

(* Pairs of a block follow each other, both arms of one before both of the *)
(* next. *)
LEMMA PairsFollow ==
  ASSUME MatrixInv, NEW c \in Comparison, NEW b, Balanced(c, b), Interleaved(InOrderOf(c, b)),
         NEW i \in 2..Length(c, b), NEW a \in Arms, NEW o \in Arms
  PROVE  Before(StartsOf(InBlock(c, b, o, i - 1)), StartsOf(InBlock(c, b, a, i)))
<1> DEFINE L == Length(c, b)
           s == InOrderOf(c, b)
           n == Len(s) \div 2
<1>1. L \in Nat /\ i \in Nat /\ i - 1 \in 1..(L - 1)
  BY LengthIsNat
<1>2. Len(s) = 2 * L
  <2> DEFINE S == {s[j] : j \in 1..(2 * L)}
  <2>1. s = [j \in 1..(2 * L) |-> s[j]]
    BY Zenon DEF InOrderOf
  <2> HIDE DEF s
  <2>2. s \in [1..(2 * L) -> S] /\ 2 * L \in Nat
    BY <1>1, <2>1
  <2> HIDE DEF S
  <2>3. s \in Seq(S) /\ DOMAIN s = 1..(2 * L)
    BY <2>2
  <2> QED BY <2>2, <2>3
<1> HIDE DEF L
<1>3. n = L
  BY <1>1, <1>2
<1>4. ASSUME NEW j \in 1..L
      PROVE  /\ s[2 * j - 1] = StartsOf(InBlock(c, b, Arm[1], j))
             /\ s[2 * j] = StartsOf(InBlock(c, b, Arm[2], j))
  <2>1. /\ 2 * j - 1 \in 1..(2 * L) /\ 2 * j \in 1..(2 * L)
        /\ 1 + ((2 * j - 1 - 1) % 2) = 1 /\ 1 + ((2 * j - 1) % 2) = 2
        /\ (2 * j - 1 + 1) \div 2 = j /\ (2 * j + 1) \div 2 = j
    BY <1>1
  <2> QED BY <2>1 DEF InOrderOf, L
<1>5. \A x \in {s[2 * (i - 1) - 1], s[2 * (i - 1)]}, y \in {s[2 * (i - 1 + 1) - 1], s[2 * (i - 1 + 1)]} :
        Before(x, y)
  BY <1>1, <1>3 DEF Interleaved
<1>6. i - 1 + 1 = i /\ i - 1 \in 1..L /\ i \in 1..L
  BY <1>1 DEF L
<1>7. \A x \in {s[2 * (i - 1) - 1], s[2 * (i - 1)]}, y \in {s[2 * i - 1], s[2 * i]} : Before(x, y)
  BY <1>5, <1>6
<1>8. /\ StartsOf(InBlock(c, b, o, i - 1)) \in {s[2 * (i - 1) - 1], s[2 * (i - 1)]}
      /\ StartsOf(InBlock(c, b, a, i)) \in {s[2 * i - 1], s[2 * i]}
  BY <1>4, <1>6 DEF Arms
<1> QED BY <1>7, <1>8

LEMMA NoArmIsAhead ==
  ASSUME MatrixInv, NEW c \in Comparison, NEW b, Balanced(c, b), Interleaved(InOrderOf(c, b))
  PROVE  NoneAhead(c, b)
<1> SUFFICES ASSUME NEW a \in Arms, NEW o \in Arms, NEW i \in 2..Length(c, b), NEW m \in 0..minute,
                    BegunBy(InBlock(c, b, a, i), m)
             PROVE  BegunBy(InBlock(c, b, o, i - 1), m)
  BY DEF NoneAhead
<1> DEFINE later == InBlock(c, b, a, i)
           sooner == InBlock(c, b, o, i - 1)
<1>1. i \in 1..Length(c, b) /\ i - 1 \in 1..Length(c, b)
  BY LengthIsNat
<1>2. later \in DOMAIN runs /\ Fits(a, later) /\ sooner \in DOMAIN runs /\ Fits(o, sooner)
  BY <1>1, BlockRuns
<1>3. Max(StartsOf(sooner).attempts) < Min(StartsOf(later).attempts)
  BY PairsFollow DEF Before
<1> HIDE DEF later, sooner
<1>4. PICK pr \in DOMAIN runs[later].tries : SelectedTry(later, pr).began <= m
  BY DEF BegunBy, later
<1>5. SelectedTry(later, pr).began \in StartsOf(later).attempts
  BY DEF StartsOf
<1>6. /\ Min(StartsOf(later).attempts) \in Nat /\ SelectedTry(later, pr).began \in Nat
      /\ Min(StartsOf(later).attempts) <= SelectedTry(later, pr).began
  BY <1>2, <1>5, BeginsAndEnds
<1>7. PICK y \in StartsOf(sooner).attempts : y \in Nat /\ y <= Max(StartsOf(sooner).attempts)
  BY <1>2, BeginsAndEnds
<1>8. Max(StartsOf(sooner).attempts) \in Nat
  BY <1>2, BeginsAndEnds
<1>9. m \in Int
  BY DEF MatrixInv, HostTyped
<1>10. y <= m
  BY <1>3, <1>4, <1>6, <1>7, <1>8, <1>9
<1>11. PICK p \in DOMAIN runs[sooner].tries : y = SelectedTry(sooner, p).began
  BY <1>7 DEF StartsOf
<1> QED BY <1>10, <1>11 DEF BegunBy, sooner

(* Whichever runs were made, repeated, killed or retried, and however the  *)
(* host changed: what a comparison accepts is a matrix whose cells say the *)
(* truth, under one treatment for each arm where its checkout stood from   *)
(* check to launch, in an order no arm gains from.                         *)
LEMMA MatrixSafe == MatrixInv => ArmsAreComparable
<1> SUFFICES ASSUME MatrixInv, NEW c \in Comparison, Accepts(c)
             PROVE  /\ \A a \in Arms : \A i, j \in DOMAIN c.runs[a] :
                         \A pr \in DOMAIN runs[c.runs[a][i]].tries :
                           /\ CellIsEarned(a, c.runs[a][i], pr)
                           /\ pr \in DOMAIN runs[c.runs[a][j]].tries
                           /\ LET t == SelectedTry(c.runs[a][i], pr)
                                  u == SelectedTry(c.runs[a][j], pr)
                              IN Steady(t) /\ Steady(u) => u.ran.tree = t.ran.tree
                    /\ \A b \in c.blocks : NoneAhead(c, b)
  BY DEF ArmsAreComparable
<1>1. ASSUME NEW a \in Arms, NEW i \in DOMAIN c.runs[a], NEW j \in DOMAIN c.runs[a],
             NEW pr \in DOMAIN runs[c.runs[a][i]].tries
      PROVE  /\ CellIsEarned(a, c.runs[a][i], pr)
             /\ pr \in DOMAIN runs[c.runs[a][j]].tries
             /\ LET t == SelectedTry(c.runs[a][i], pr)
                    u == SelectedTry(c.runs[a][j], pr)
                IN Steady(t) /\ Steady(u) => u.ran.tree = t.ran.tree
  <2> DEFINE r == c.runs[a][i]
             q == c.runs[a][j]
  <2>1. r \in DOMAIN runs /\ Fits(a, r) /\ q \in DOMAIN runs /\ Fits(a, q)
    BY NamedRunsFit
  <2>2. runs[r].window \in c.blocks /\ runs[q].window \in c.blocks
    BY DEF Accepts
  <2>3. WindowOf(r).trees = WindowOf(q).trees /\ WindowOf(r).scope = WindowOf(q).scope
    BY <2>2 DEF Accepts, WindowOf
  <2>4. DOMAIN runs[q].tries = DOMAIN runs[r].tries
    BY <2>1, <2>3 DEF MatrixInv, RunsTyped
  <2>5. CellIsEarned(a, r, pr) /\ CellIsEarned(a, q, pr)
    BY <2>1, <2>4, FitsIsEarned
  <2> QED BY <2>3, <2>4, <2>5 DEF CellIsEarned, TellsOf
<1>2. ASSUME NEW b \in c.blocks PROVE NoneAhead(c, b)
  BY NoArmIsAhead DEF Accepts
<1> QED BY <1>1, <1>2

THEOREM MatrixHolds == MatrixSpec => []ArmsAreComparable
BY MatrixStarts, MatrixInductive, MatrixSafe, PTL DEF MatrixSpec
=============================================================================
