-------------------------- MODULE GitlabDelivery --------------------------
(***************************************************************************)
(* Delivery of one reviewed commit to a GitLab merge request, by           *)
(* post_gitlab of scripts/gauntlet/delivery/post.py: read the notes that   *)
(* are already there, post or extend the summary, then post one discussion *)
(* per group of findings.  No local state survives a run: the hidden       *)
(* markers of the notes are the only memory, so a retry is only as good as *)
(* what it reads back.  A call may be refused, or land and be reported as  *)
(* an error; a run may be killed between any two calls.                    *)
(***************************************************************************)
EXTENDS Naturals, Sequences, FiniteSets

CONSTANTS
  Runner,        \* processes that deliver to this merge request
  Key,           \* finding keys
  Site,          \* further places of one issue
  Plans,         \* delivery plans a run may bring for this commit
  Undeliverable, \* lead keys of the groups GitLab accepts no discussion for
  Tight,         \* whether the body limit may be hit
  ReadsFail,     \* whether reading the notes may fail
  MaxFaults      \* bound on refused, uncertain and killed calls

(* A group of findings about one issue.  Its sites are keyed by its lead.  *)
Group == [lead : Key, members : SUBSET Key, sites : [Key -> SUBSET Site],
          anchored : BOOLEAN]

(* finding_key digests path, line, title and body, and the pipeline has    *)
(* one finding per such claim.                                             *)
ASSUME PlansAssumption ==
  \A p \in Plans :
    /\ p \in Seq(Group)
    /\ \A i \in DOMAIN p : p[i].lead \in p[i].members
    /\ \A i, j \in DOMAIN p : i # j => p[i].members \cap p[j].members = {}

ASSUME KeyAssumption == Key \cap (Key \X Site) = {} /\ Undeliverable \subseteq Key

ASSUME SwitchAssumption == Tight \in BOOLEAN /\ ReadsFail \in BOOLEAN /\ MaxFaults \in Nat

VARIABLES
  notes,   \* the tool's own notes on the merge request, oldest first
  pc,      \* what each runner does next: idle, read, summary, post
  plan,    \* the plan of its current or last run
  prior,   \* PriorDelivery: what its run read
  todo,    \* positions in the plan it has not posted yet
  posted,  \* whether it posted a discussion in this run
  failed,  \* positions in the plan whose discussion failed in this run
  omitted, \* positions in the plan it warned of: the body limit kept them out of the digest
  unsaid,  \* the same, but the summary was left as it is and nothing was said
  exit,    \* how its last run ended
  faults   \* faults so far

vars == <<notes, pc, plan, prior, todo, posted, failed, omitted, unsaid, exit, faults>>

Item == Key \cup (Key \X Site)
Note == [kind : {"summary", "discussion"}, marks : SUBSET Item, text : SUBSET Item]
NoNote == [kind |-> "summary", marks |-> {}, text |-> {}]

Marked == UNION {notes[i].marks : i \in DOMAIN notes}
Summaries == {i \in DOMAIN notes : notes[i].kind = "summary"}
-----------------------------------------------------------------------------
(* What a group has, and what of it is already on the merge request.       *)

(* coverage: a member's key and its sites, keyed by the group's lead *)
Coverage(g, k) == {k} \cup ({g.lead} \X g.sites[k])
GroupCoverage(g) == UNION {Coverage(g, k) : k \in g.members}

(* Mutant: a group is left alone only when its lead was delivered. *)
MutantAlreadyPresent(g, read) == g.lead \in read.marks

(* One member on the merge request stands for its group. *)
AlreadyPresent(g, read) == g.members \cap read.marks # {}

NewSites(g, k, read) == ({g.lead} \X g.sites[k]) \ read.marks

(* Mutant: a delivered member stands for a lead that was not. *)
MutantFragment(g, read) ==
  IF ~g.anchored \/ ~AlreadyPresent(g, read) THEN {}
  ELSE UNION {{k} \cup NewSites(g, k, read) : k \in {m \in g.members :
                                                      NewSites(g, m, read) # {}}}

(***************************************************************************)
(* The fragment a group adds to the digest in the summary.  A group that   *)
(* cannot be anchored lives there, and a later summary of the commit is    *)
(* not told of it again.  A delivered group adds its lead when only other  *)
(* members were delivered, or else the sites that are new.                 *)
(***************************************************************************)
Fragment(g, read) ==
  IF ~g.anchored
    THEN IF read.id # 0 THEN {}
         ELSE UNION {Coverage(g, k) : k \in {m \in g.members :
                                              ~(Coverage(g, m) \subseteq read.marks)}}
  ELSE IF ~AlreadyPresent(g, read) THEN {}
  ELSE IF g.lead \notin read.marks THEN Coverage(g, g.lead)
  ELSE UNION {{k} \cup NewSites(g, k, read) : k \in {m \in g.members :
                                                      NewSites(g, m, read) # {}}}

Candidates(p, read) == {i \in DOMAIN p : Fragment(p[i], read) # {}}
Digest(p, read, shown) == UNION {Fragment(p[i], read) : i \in shown}

Pending(p, read) == {i \in DOMAIN p : p[i].anchored /\ ~AlreadyPresent(p[i], read)}
-----------------------------------------------------------------------------
(* PriorDelivery, before or without a read *)
Unread == [id |-> 0, marks |-> {}, body |-> NoNote]

Init ==
  /\ notes = <<>>
  /\ pc = [r \in Runner |-> "idle"]
  /\ plan = [r \in Runner |-> <<>>]
  /\ prior = [r \in Runner |-> Unread]
  /\ todo = [r \in Runner |-> {}]
  /\ posted = [r \in Runner |-> FALSE]
  /\ failed = [r \in Runner |-> {}]
  /\ omitted = [r \in Runner |-> {}]
  /\ unsaid = [r \in Runner |-> {}]
  /\ exit = [r \in Runner |-> "none"]
  /\ faults = 0

Fault == faults < MaxFaults /\ faults' = faults + 1

(* The forge's answer to a request: done, refused, or done and reported as *)
(* an error (a lost response, or one that is not JSON).                    *)
Answer == {"ok", "refused", "uncertain"}
Answered(answer) == IF answer = "ok" THEN UNCHANGED faults ELSE Fault

Start(r, p) ==
  /\ pc[r] = "idle"
  /\ plan' = [plan EXCEPT ![r] = p]
  /\ pc' = [pc EXCEPT ![r] = "read"]
  /\ posted' = [posted EXCEPT ![r] = FALSE]
  /\ failed' = [failed EXCEPT ![r] = {}]
  /\ omitted' = [omitted EXCEPT ![r] = {}]
  /\ unsaid' = [unsaid EXCEPT ![r] = {}]
  /\ exit' = [exit EXCEPT ![r] = "none"]
  /\ UNCHANGED <<notes, prior, todo, faults>>

Learn(r, read) ==
  /\ prior' = [prior EXCEPT ![r] = read]
  /\ todo' = [todo EXCEPT ![r] = Pending(plan[r], read)]
  /\ pc' = [pc EXCEPT ![r] = "summary"]
  /\ UNCHANGED <<notes, plan, posted, failed, omitted, unsaid, exit>>

(* Mutant: the markers inside discussions are not seen. *)
MutantReadNotes(r) ==
  /\ pc[r] = "read"
  /\ \E i \in (IF Summaries = {} THEN {0} ELSE Summaries) :
       Learn(r, [id |-> i, marks |-> UNION {notes[j].marks : j \in Summaries},
                 body |-> IF i = 0 THEN NoNote ELSE notes[i]])
  /\ UNCHANGED faults

(* One snapshot of the notes; of several summaries the last one listed is  *)
(* extended, and the order of the list is GitLab's.                        *)
ReadNotes(r) ==
  /\ pc[r] = "read"
  /\ \E i \in (IF Summaries = {} THEN {0} ELSE Summaries) :
       Learn(r, [id |-> i, marks |-> Marked, body |-> IF i = 0 THEN NoNote ELSE notes[i]])
  /\ UNCHANGED faults

(* A failed read posts everything: duplicates over lost reviews. *)
ReadFails(r) ==
  /\ pc[r] = "read"
  /\ ReadsFail
  /\ Learn(r, Unread)
  /\ Fault

(* die, or the process is killed *)
Ends(r, status) ==
  /\ pc' = [pc EXCEPT ![r] = "idle"]
  /\ exit' = [exit EXCEPT ![r] = status]
  /\ prior' = [prior EXCEPT ![r] = Unread]
  /\ todo' = [todo EXCEPT ![r] = {}]

(* Mutant: the markers of fragments the limit left out are written too. *)
MutantSummaryNote(r, shown) ==
  [kind |-> "summary",
   marks |-> prior[r].body.marks \cup Digest(plan[r], prior[r], Candidates(plan[r], prior[r])),
   text |-> prior[r].body.text \cup Digest(plan[r], prior[r], shown)]

(* Mutant: the markers of the summary being replaced are forgotten. *)
ForgetfulSummaryNote(r, shown) ==
  [kind |-> "summary",
   marks |-> Digest(plan[r], prior[r], shown),
   text |-> prior[r].body.text \cup Digest(plan[r], prior[r], shown)]

(* The summary a run writes: what it read of the old one, and the new      *)
(* fragments; only those shown acquire markers.                            *)
SummaryNote(r, shown) ==
  [kind |-> "summary",
   marks |-> prior[r].body.marks \cup Digest(plan[r], prior[r], shown),
   text |-> prior[r].body.text \cup Digest(plan[r], prior[r], shown)]

(* First fit under the body limit: all fragments, unless it is hit. *)
Shown(r) ==
  LET candidates == Candidates(plan[r], prior[r])
  IN IF Tight THEN SUBSET candidates ELSE {candidates}

(* Mutant: a run that has discussions to post does without a summary. *)
MutantSummaryKept(r) ==
  /\ pc[r] = "summary"
  /\ todo[r] # {}
  /\ pc' = [pc EXCEPT ![r] = "post"]
  /\ UNCHANGED <<notes, plan, prior, todo, posted, failed, omitted, unsaid, exit, faults>>

(* The summary is there and the digest has nothing to add, or nothing that *)
(* fits: the note is skipped, and with it the report of what did not fit.  *)
SummaryKept(r) ==
  /\ pc[r] = "summary"
  /\ prior[r].id # 0
  /\ {} \in Shown(r)
  /\ unsaid' = [unsaid EXCEPT ![r] = Candidates(plan[r], prior[r])]
  /\ pc' = [pc EXCEPT ![r] = "post"]
  /\ UNCHANGED <<notes, plan, prior, todo, posted, failed, omitted, exit, faults>>

(* POST of the first summary, or PUT of an extended one, and then a        *)
(* warning of every group left out; any error fails the whole delivery,    *)
(* before the first discussion.                                            *)
SummaryWritten(r) ==
  /\ pc[r] = "summary"
  /\ \E shown \in Shown(r), answer \in Answer :
       /\ prior[r].id = 0 \/ shown # {}
       /\ Answered(answer)
       /\ notes' = IF answer = "refused" THEN notes
                   ELSE IF prior[r].id = 0 THEN Append(notes, SummaryNote(r, shown))
                   ELSE [notes EXCEPT ![prior[r].id] = SummaryNote(r, shown)]
       /\ IF answer = "ok"
          THEN /\ omitted' = [omitted EXCEPT ![r] = Candidates(plan[r], prior[r]) \ shown]
               /\ pc' = [pc EXCEPT ![r] = "post"]
               /\ UNCHANGED <<prior, todo, exit>>
          ELSE Ends(r, "died") /\ UNCHANGED omitted
  /\ UNCHANGED <<plan, posted, failed, unsaid>>

(* A summary over the limit after composition: nothing is posted. *)
SummaryOverBudget(r) ==
  /\ pc[r] = "summary"
  /\ Tight
  /\ prior[r].id = 0 \/ Candidates(plan[r], prior[r]) # {}
  /\ Ends(r, "died")
  /\ UNCHANGED <<notes, plan, posted, failed, omitted, unsaid, faults>>

Discussion(g) == [kind |-> "discussion", marks |-> GroupCoverage(g), text |-> GroupCoverage(g)]

(* Mutant: a rejected discussion is neither warned of nor counted. *)
MutantFails(r, i) == UNCHANGED <<posted, failed>>

Fails(r, i) == failed' = [failed EXCEPT ![r] = @ \cup {i}] /\ UNCHANGED posted

(* The next pending group, in plan order. *)
Take(r, i) ==
  /\ pc[r] = "post"
  /\ i \in todo[r]
  /\ \A j \in todo[r] : i <= j
  /\ todo' = [todo EXCEPT ![r] = @ \ {i}]
  /\ UNCHANGED <<pc, plan, prior, omitted, unsaid, exit>>

(* Over the body limit even when folded, or a position GitLab rejects. *)
DiscussionRejected(r, i) ==
  /\ Take(r, i)
  /\ plan[r][i].lead \in Undeliverable
  /\ Fails(r, i)
  /\ UNCHANGED <<notes, faults>>

DiscussionPosted(r, i) ==
  /\ Take(r, i)
  /\ plan[r][i].lead \notin Undeliverable
  /\ \E answer \in Answer :
       /\ Answered(answer)
       /\ notes' = IF answer = "refused" THEN notes ELSE Append(notes, Discussion(plan[r][i]))
       /\ IF answer = "ok"
          THEN posted' = [posted EXCEPT ![r] = TRUE] /\ UNCHANGED failed
          ELSE Fails(r, i)

(* A run that attempted discussions and posted none exits non-zero; one    *)
(* that posted some exits zero, whatever else failed.                      *)
Finish(r) ==
  /\ pc[r] = "post"
  /\ todo[r] = {}
  /\ Ends(r, IF failed[r] # {} /\ ~posted[r] THEN "died" ELSE "ok")
  /\ UNCHANGED <<notes, plan, posted, failed, omitted, unsaid, faults>>

(* Killed, or dead on an unreadable version of the merge request. *)
Killed(r) ==
  /\ pc[r] # "idle"
  /\ Fault
  /\ Ends(r, "died")
  /\ UNCHANGED <<notes, plan, posted, failed, omitted, unsaid>>

Post(r) == \E i \in todo[r] : DiscussionRejected(r, i) \/ DiscussionPosted(r, i)

(* What a run does once started, if it is not killed. *)
Run(r) ==
  \/ ReadNotes(r) \/ ReadFails(r)
  \/ SummaryKept(r) \/ SummaryWritten(r) \/ SummaryOverBudget(r)
  \/ Post(r) \/ Finish(r)

Next == \E r \in Runner : (\E p \in Plans : Start(r, p)) \/ Run(r) \/ Killed(r)

Spec == Init /\ [][Next]_vars

(* A run takes its next step, and someone keeps rerunning every delivery.  *)
LiveSpec ==
  /\ Spec
  /\ \A r \in Runner : WF_vars(Run(r)) /\ \A p \in Plans : SF_vars(Start(r, p))
-----------------------------------------------------------------------------
(* Properties *)

Prior == [id : Nat, marks : SUBSET Item, body : Note]

(* Every variable keeps the shape of its counterpart in post_gitlab. *)
TypeOK ==
  /\ notes \in Seq(Note)
  /\ pc \in [Runner -> {"idle", "read", "summary", "post"}]
  /\ plan \in [Runner -> Plans \cup {<<>>}]
  /\ prior \in [Runner -> Prior]
  /\ \A r \in Runner : todo[r] \subseteq DOMAIN plan[r]
  /\ todo \in [Runner -> SUBSET Nat]
  /\ posted \in [Runner -> BOOLEAN]
  /\ failed \in [Runner -> SUBSET Nat]
  /\ {omitted, unsaid} \subseteq [Runner -> SUBSET Nat]
  /\ exit \in [Runner -> {"none", "ok", "died"}]
  /\ faults \in 0..MaxFaults

(* What a marker says was told is in the note that carries it: otherwise   *)
(* a later run would leave out a finding nobody was shown.                 *)
MarkersAreHonest == \A i \in DOMAIN notes : notes[i].marks \subseteq notes[i].text

(* No discussion is on the merge request before a summary, whoever posts.  *)
SummaryFirst == notes # <<>> => notes[1].kind = "summary"

(* A run that exits with success leaves no issue unheard of: of each group *)
(* that can be anchored a finding is on the merge request, or its          *)
(* discussion failed with a warning.  Where its lead is not, the body      *)
(* limit left the lead out of the digest: with a warning if the run wrote  *)
(* a summary, and silently if one was there and nothing more fitted.       *)
ExitTellsTruth ==
  \A r \in Runner : exit[r] = "ok" =>
    \A i \in DOMAIN plan[r] :
      plan[r][i].anchored /\ i \notin failed[r] =>
        /\ plan[r][i].members \cap Marked # {}
        /\ plan[r][i].lead \in Marked \/ i \in omitted[r] \cup unsaid[r]

(* A note is never taken back, and what its markers cover is never lost,   *)
(* whatever fails and whatever plan a rerun brings.                        *)
CoverageGrows ==
  [][\A i \in DOMAIN notes : i \in DOMAIN notes' /\ notes[i].marks \subseteq notes'[i].marks]_notes

(* Everything the current plans have to say is on the merge request. *)
AllCovered ==
  /\ notes # <<>>
  /\ \A r \in Runner : \A i \in DOMAIN plan[r] : GroupCoverage(plan[r][i]) \subseteq Marked

(* A rerun of what was delivered writes nothing. *)
RerunsAreQuiet == [][AllCovered => UNCHANGED notes]_notes

(* Whatever happened before, a rerun only ever adds what is missing. *)
RerunsOnlyAdd == CoverageGrows /\ RerunsAreQuiet

(* However many calls failed, were lost or were cut short, reruns bring    *)
(* every issue that GitLab will take onto the merge request.               *)
RerunsConverge ==
  <>[](\A p \in Plans : \A i \in DOMAIN p :
         (p[i].anchored /\ p[i].lead \notin Undeliverable) => p[i].lead \in Marked)

(* The notes a single deliverer that can read them back leaves. *)
Readers == INSTANCE MergeRequestNotes WITH Key <- Key, Site <- Site, notes <- notes
NotesPromise == Readers!Spec
=============================================================================
