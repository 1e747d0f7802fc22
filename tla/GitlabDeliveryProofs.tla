------------------------ MODULE GitlabDeliveryProofs ------------------------
(***************************************************************************)
(* Theorems about GitlabDelivery.  For any number of runners, every plan   *)
(* and every fault: the type invariant, that markers are honest and that a *)
(* summary comes first (invariant IInv).  For a single runner: its exit    *)
(* status tells the truth, and, when it can read the notes back, it keeps  *)
(* what MergeRequestNotes promises and only ever adds (SingleInv and       *)
(* PromiseInv).                                                            *)
(*                                                                         *)
(* Theorems about what is delivered.  FindingLocation: for any file and    *)
(* any findings, what is located lies where the file carries its quote     *)
(* (LocInv).  FixOutlets: fences, patches and fix tasks hit the quote in   *)
(* the code as the outlet saw it (OutletInv).                              *)
(***************************************************************************)
EXTENDS GitlabDelivery, FixOutlets, FiniteSetTheorems, NaturalsInduction,
        WellFoundedInduction, TLAPS

(* What a run read is honest too, and the summary it read is there. *)
ReadsAreHonest ==
  \A r \in Runner :
    /\ prior[r].body.marks \subseteq prior[r].body.text
    /\ prior[r].id \in 0..Len(notes)
    /\ pc[r] = "post" => notes # <<>>
    /\ pc[r] \in {"idle", "read"} => todo[r] = {}

IInv == TypeOK /\ MarkersAreHonest /\ SummaryFirst /\ ReadsAreHonest
-----------------------------------------------------------------------------
(* Groups and their fragments. *)

(* What PlansAssumption says of the plan a run works on. *)
LEMMA PlanIsOfGroups ==
  ASSUME NEW p \in Plans \cup {<<>>}
  PROVE  /\ p \in Seq(Group)
         /\ \A i \in DOMAIN p : /\ i \in Nat /\ i # 0
                                /\ p[i] \in Group
                                /\ p[i].lead \in p[i].members
         /\ \A i, j \in DOMAIN p : i # j => p[i].members \cap p[j].members = {}
<1>1. p \in Seq(Group)
  <2>1. <<>> \in Seq(Group)
    OBVIOUS
  <2>2. p \in Plans => p \in Seq(Group)
    BY PlansAssumption
  <2>3. QED
    BY <2>1, <2>2
<1>2. \A i \in DOMAIN p : i \in 1..Len(p) /\ p[i] \in Group
  BY <1>1
<1>3. QED
  BY <1>1, <1>2, PlansAssumption

(* A group covers items, and its keys are its members. *)
LEMMA CoverageOfGroup ==
  ASSUME NEW g \in Group, g.lead \in g.members
  PROVE  /\ \A k \in g.members : /\ Coverage(g, k) \subseteq GroupCoverage(g)
                                 /\ k \in Coverage(g, k)
         /\ GroupCoverage(g) \subseteq Item
         /\ GroupCoverage(g) \cap Key = g.members
<1>1. \A k \in g.members : Coverage(g, k) \subseteq GroupCoverage(g) /\ k \in Coverage(g, k)
  BY DEF GroupCoverage, Coverage
<1>2. \A k \in g.members : k \in Key /\ {g.lead} \X g.sites[k] \subseteq Key \X Site
  BY DEF Group
<1>3. GroupCoverage(g) \subseteq Item
  BY <1>2 DEF GroupCoverage, Coverage, Item
<1>4. GroupCoverage(g) \cap Key \subseteq g.members
  BY <1>2, KeyAssumption DEF GroupCoverage, Coverage
<1>5. QED
  BY <1>1, <1>2, <1>3, <1>4

(* A fragment tells only what its group covers. *)
LEMMA FragmentOfGroup ==
  ASSUME NEW g \in Group, g.lead \in g.members, NEW read
  PROVE  Fragment(g, read) \subseteq GroupCoverage(g)
<1>1. \A k \in g.members : {k} \cup NewSites(g, k, read) \subseteq Coverage(g, k)
  BY DEF NewSites, Coverage
<1>2. QED
  BY <1>1, CoverageOfGroup DEF Fragment

(* A group whose discussion is pending has no fragment in the digest. *)
LEMMA PendingHasNoFragment ==
  ASSUME NEW p, NEW read, NEW i \in Pending(p, read)
  PROVE  Fragment(p[i], read) = {}
BY DEF Pending, Fragment

(* A digest tells of items, and of no member of a pending group. *)
LEMMA DigestOfPlan ==
  ASSUME NEW p \in Plans \cup {<<>>}, NEW read, NEW shown \in SUBSET Candidates(p, read)
  PROVE  /\ Digest(p, read, shown) \subseteq Item
         /\ \A i \in Pending(p, read) : p[i].members \cap Digest(p, read, shown) = {}
<1>1. \A j \in shown : j \in DOMAIN p /\ Fragment(p[j], read) # {}
  BY DEF Candidates
<1>2. \A j \in shown : /\ Fragment(p[j], read) \subseteq Item
                       /\ Fragment(p[j], read) \cap Key \subseteq p[j].members
  BY <1>1, PlanIsOfGroups, FragmentOfGroup, CoverageOfGroup
<1>3. ASSUME NEW i \in Pending(p, read), NEW j \in shown
      PROVE  p[i].members \cap Fragment(p[j], read) = {}
  <2>1. i \in DOMAIN p /\ j \in DOMAIN p /\ i # j
    BY <1>1, <1>3, PendingHasNoFragment DEF Pending
  <2>2. p[i].members \subseteq Key
    BY <2>1, PlanIsOfGroups DEF Group
  <2>3. QED
    BY <2>1, <2>2, <1>2, PlanIsOfGroups
<1>4. QED
  BY <1>2, <1>3 DEF Digest
-----------------------------------------------------------------------------
(* The notes. *)

(* The note that is written is one, and as honest as what was read. *)
LEMMA SummaryNoteOK ==
  ASSUME IInv, NEW r \in Runner, NEW shown \in Shown(r)
  PROVE  /\ SummaryNote(r, shown) \in Note
         /\ SummaryNote(r, shown).marks \subseteq SummaryNote(r, shown).text
         /\ SummaryNote(r, shown).kind = "summary"
         /\ shown \subseteq Candidates(plan[r], prior[r])
<1>1. shown \subseteq Candidates(plan[r], prior[r])
  BY DEF Shown
<1>2. plan[r] \in Plans \cup {<<>>} /\ prior[r] \in Prior
  BY DEF IInv, TypeOK
<1>3. Digest(plan[r], prior[r], shown) \subseteq Item
  BY <1>1, <1>2, DigestOfPlan
<1>4. prior[r].body.marks \subseteq prior[r].body.text
  BY DEF IInv, ReadsAreHonest
<1>5. QED
  BY <1>1, <1>2, <1>3, <1>4 DEF SummaryNote, Note, Prior

(* A discussion is a note, and an honest one. *)
LEMMA DiscussionOK ==
  ASSUME IInv, NEW r \in Runner, NEW i \in DOMAIN plan[r]
  PROVE  /\ Discussion(plan[r][i]) \in Note
         /\ Discussion(plan[r][i]).marks = Discussion(plan[r][i]).text
         /\ Discussion(plan[r][i]).kind = "discussion"
<1>1. plan[r] \in Plans \cup {<<>>}
  BY DEF IInv, TypeOK
<1>2. GroupCoverage(plan[r][i]) \subseteq Item
  BY <1>1, PlanIsOfGroups, CoverageOfGroup
<1>3. QED
  BY <1>2 DEF Discussion, Note

(* Markers are items. *)
LEMMA MarkedAreItems ==
  ASSUME notes \in Seq(Note)
  PROVE  Marked \subseteq Item
<1>1. \A i \in DOMAIN notes : notes[i] \in Note
  OBVIOUS
<1>2. \A i \in DOMAIN notes : notes[i].marks \subseteq Item
  BY <1>1 DEF Note
<1>3. QED
  BY <1>2 DEF Marked

(* A further note is read with the others. *)
LEMMA MarkedAppended ==
  ASSUME notes \in Seq(Note), NEW n \in Note, notes' = Append(notes, n)
  PROVE  Marked' = Marked \cup n.marks
<1>1. /\ DOMAIN notes' = DOMAIN notes \cup {Len(notes) + 1}
      /\ notes'[Len(notes) + 1] = n
      /\ \A i \in DOMAIN notes : notes'[i] = notes[i]
  OBVIOUS
<1>2. QED
  BY <1>1 DEF Marked

(* A note is replaced in place. *)
LEMMA MarkedExtended ==
  ASSUME notes \in Seq(Note), NEW i \in DOMAIN notes, NEW n \in Note,
         notes' = [notes EXCEPT ![i] = n], notes[i].marks \subseteq n.marks
  PROVE  Marked' = Marked \cup n.marks
<1>1. /\ DOMAIN notes' = DOMAIN notes
      /\ notes'[i] = n
      /\ \A j \in DOMAIN notes \ {i} : notes'[j] = notes[j]
  OBVIOUS
<1>2. QED
  BY <1>1 DEF Marked
-----------------------------------------------------------------------------
(* The invariant of any number of runners, one lemma per kind of step. *)

(* Nothing is there before the first run. *)
LEMMA InitOK == Init => IInv
BY SwitchAssumption DEF Init, IInv, TypeOK, MarkersAreHonest, SummaryFirst, ReadsAreHonest,
   Unread, NoNote, Prior, Note

(* A run that ends, whatever it has done, leaves honest notes as they are. *)
LEMMA EndsOK ==
  ASSUME IInv, NEW r \in Runner, NEW status \in {"ok", "died"}, Ends(r, status),
         notes' \in Seq(Note), Len(notes) <= Len(notes'),
         MarkersAreHonest', SummaryFirst',
         faults' \in 0..MaxFaults, UNCHANGED <<plan, posted, failed, omitted, unsaid>>
  PROVE  IInv'
<1>1. Unread \in Prior /\ Unread.body.marks \subseteq Unread.body.text /\ Unread.id = 0
  BY DEF Unread, Prior, NoNote, Note
<1>2. TypeOK'
  BY <1>1 DEF IInv, TypeOK, Ends
<1>3. ReadsAreHonest'
  <2> SUFFICES ASSUME NEW q \in Runner
               PROVE  /\ prior'[q].body.marks \subseteq prior'[q].body.text
                      /\ prior'[q].id \in 0..Len(notes')
                      /\ pc'[q] = "post" => notes' # <<>>
                      /\ pc'[q] \in {"idle", "read"} => todo'[q] = {}
    BY DEF ReadsAreHonest
  <2>1. Len(notes) \in Nat /\ Len(notes') \in Nat
    BY DEF IInv, TypeOK
  <2>2. CASE q = r
    BY <1>1, <2>1, <2>2 DEF IInv, TypeOK, Ends
  <2>3. CASE q # r
    <3>1. prior'[q] = prior[q] /\ pc'[q] = pc[q] /\ todo'[q] = todo[q]
      BY <2>3 DEF IInv, TypeOK, Ends
    <3>2. notes # <<>> => notes' # <<>>
      BY DEF IInv, TypeOK
    <3>3. QED
      BY <2>1, <3>1, <3>2 DEF IInv, ReadsAreHonest
  <2>4. QED
    BY <2>2, <2>3
<1>4. QED
  BY <1>2, <1>3 DEF IInv

(* A further summary or discussion. *)
LEMMA AppendedOK ==
  ASSUME IInv, NEW n \in Note, n.marks \subseteq n.text,
         notes = <<>> => n.kind = "summary",
         notes' = Append(notes, n)
  PROVE  /\ notes' \in Seq(Note) /\ notes' # <<>> /\ Len(notes) <= Len(notes')
         /\ MarkersAreHonest' /\ SummaryFirst'
<1>1. /\ notes \in Seq(Note)
      /\ \A i \in DOMAIN notes : notes[i].marks \subseteq notes[i].text
      /\ notes # <<>> => notes[1].kind = "summary"
  BY DEF IInv, TypeOK, MarkersAreHonest, SummaryFirst
<1>2. /\ notes' \in Seq(Note) /\ notes' # <<>> /\ Len(notes') = Len(notes) + 1
      /\ DOMAIN notes' = DOMAIN notes \cup {Len(notes) + 1}
      /\ notes'[Len(notes) + 1] = n
      /\ \A i \in DOMAIN notes : notes'[i] = notes[i]
  BY <1>1
<1>3. MarkersAreHonest'
  BY <1>1, <1>2 DEF MarkersAreHonest
<1>4. SummaryFirst'
  <2>1. CASE notes = <<>>
    BY <1>2, <2>1 DEF SummaryFirst
  <2>2. CASE notes # <<>>
    <3>1. 1 \in DOMAIN notes
      BY <1>1, <2>2
    <3>2. QED
      BY <1>1, <1>2, <2>2, <3>1 DEF SummaryFirst
  <2>3. QED
    BY <2>1, <2>2
<1>5. Len(notes) \in Nat
  BY <1>1
<1>6. QED
  BY <1>2, <1>3, <1>4, <1>5

(* A summary replaced in place. *)
LEMMA ReplacedOK ==
  ASSUME IInv, NEW n \in Note, n.marks \subseteq n.text, n.kind = "summary",
         NEW i \in 1..Len(notes), notes' = [notes EXCEPT ![i] = n]
  PROVE  /\ notes' \in Seq(Note) /\ notes' # <<>> /\ Len(notes) = Len(notes')
         /\ MarkersAreHonest' /\ SummaryFirst'
<1>1. /\ notes \in Seq(Note)
      /\ \A j \in DOMAIN notes : notes[j].marks \subseteq notes[j].text
      /\ notes # <<>> => notes[1].kind = "summary"
  BY DEF IInv, TypeOK, MarkersAreHonest, SummaryFirst
<1>2. /\ notes' \in Seq(Note) /\ Len(notes) = Len(notes')
      /\ DOMAIN notes' = DOMAIN notes
      /\ notes'[i] = n
      /\ \A j \in DOMAIN notes \ {i} : notes'[j] = notes[j]
  BY <1>1
<1>3. notes # <<>> /\ notes' # <<>> /\ 1 \in DOMAIN notes
  BY <1>1, <1>2
<1>4. MarkersAreHonest'
  BY <1>1, <1>2 DEF MarkersAreHonest
<1>5. SummaryFirst'
  BY <1>1, <1>2, <1>3 DEF SummaryFirst
<1>6. QED
  BY <1>2, <1>3, <1>4, <1>5

(* A run starts. *)
LEMMA StartStep ==
  ASSUME IInv, NEW r \in Runner, NEW p \in Plans, Start(r, p)
  PROVE  IInv'
<1>1. TypeOK'
  <2>1. \A q \in Runner : todo'[q] \subseteq DOMAIN plan'[q]
    <3>1. todo[r] = {}
      BY DEF Start, IInv, ReadsAreHonest
    <3>2. QED
      BY <3>1 DEF Start, IInv, TypeOK
  <2>2. QED
    BY <2>1 DEF Start, IInv, TypeOK
<1>2. MarkersAreHonest' /\ SummaryFirst'
  BY DEF Start, IInv, MarkersAreHonest, SummaryFirst
<1>3. ReadsAreHonest'
  BY DEF Start, IInv, TypeOK, ReadsAreHonest
<1>4. QED
  BY <1>1, <1>2, <1>3 DEF IInv

(* A run has read the notes, or nothing. *)
LEMMA LearnOK ==
  ASSUME IInv, NEW r \in Runner, NEW read \in Prior, Learn(r, read),
         pc[r] = "read",
         read.body.marks \subseteq read.body.text, read.id \in 0..Len(notes),
         faults' \in 0..MaxFaults
  PROVE  IInv'
<1>1. Pending(plan[r], read) \subseteq DOMAIN plan[r] /\ DOMAIN plan[r] \subseteq Nat
  <2>1. plan[r] \in Plans \cup {<<>>}
    BY DEF IInv, TypeOK
  <2>2. QED
    BY <2>1, PlanIsOfGroups DEF Pending
<1>2. TypeOK'
  BY <1>1 DEF Learn, IInv, TypeOK
<1>3. MarkersAreHonest' /\ SummaryFirst'
  BY DEF Learn, IInv, MarkersAreHonest, SummaryFirst
<1>4. ReadsAreHonest'
  BY DEF Learn, IInv, TypeOK, ReadsAreHonest
<1>5. QED
  BY <1>2, <1>3, <1>4 DEF IInv

(* A run reads the notes. *)
LEMMA ReadNotesStep ==
  ASSUME IInv, NEW r \in Runner, ReadNotes(r)
  PROVE  IInv'
<1>1. PICK i \in (IF Summaries = {} THEN {0} ELSE Summaries) :
        Learn(r, [id |-> i, marks |-> Marked, body |-> IF i = 0 THEN NoNote ELSE notes[i]])
  BY DEF ReadNotes
<1> DEFINE read == [id |-> i, marks |-> Marked, body |-> IF i = 0 THEN NoNote ELSE notes[i]]
<1>2. notes \in Seq(Note) /\ Marked \subseteq Item
  BY MarkedAreItems DEF IInv, TypeOK
<1>3. i \in 0..Len(notes) /\ (i # 0 => i \in DOMAIN notes)
  BY <1>2 DEF Summaries
<1>4. read.body \in Note /\ read.body.marks \subseteq read.body.text
  <2>1. CASE i = 0
    BY <2>1 DEF NoNote, Note
  <2>2. CASE i # 0
    <3>1. i \in DOMAIN notes /\ notes[i] \in Note /\ read.body = notes[i]
      BY <1>2, <1>3, <2>2
    <3>2. QED
      BY <3>1 DEF IInv, MarkersAreHonest
  <2>3. QED
    BY <2>1, <2>2
<1>5. read \in Prior
  BY <1>2, <1>3, <1>4 DEF Prior
<1>6. pc[r] = "read" /\ faults' \in 0..MaxFaults
  BY DEF ReadNotes, IInv, TypeOK
<1> HIDE DEF read
<1>7. Learn(r, read) /\ read.id = i
  BY <1>1 DEF read
<1>8. QED
  BY <1>3, <1>4, <1>5, <1>6, <1>7, LearnOK

(* A fault is within the bound. *)
LEMMA FaultOK == IInv /\ Fault => faults' \in 0..MaxFaults
BY SwitchAssumption DEF Fault, IInv, TypeOK

(* A run reads nothing. *)
LEMMA ReadFailsStep ==
  ASSUME IInv, NEW r \in Runner, ReadFails(r)
  PROVE  IInv'
<1>1. Unread \in Prior /\ Unread.body.marks \subseteq Unread.body.text /\ Unread.id = 0
  BY DEF Unread, Prior, NoNote, Note
<1>2. 0 \in 0..Len(notes)
  BY DEF IInv, TypeOK
<1>3. QED
  BY <1>1, <1>2, FaultOK, LearnOK DEF ReadFails

(* The summary stays as it is. *)
LEMMA SummaryKeptStep ==
  ASSUME IInv, NEW r \in Runner, SummaryKept(r)
  PROVE  IInv'
<1>1. Candidates(plan[r], prior[r]) \subseteq Nat
  BY PlanIsOfGroups DEF IInv, TypeOK, Candidates
<1>2. TypeOK'
  BY <1>1 DEF SummaryKept, IInv, TypeOK
<1>3. MarkersAreHonest' /\ SummaryFirst'
  BY DEF SummaryKept, IInv, MarkersAreHonest, SummaryFirst
<1>4. prior[r].id # 0 /\ prior[r].id \in 0..Len(notes) => notes # <<>>
  BY DEF IInv, TypeOK
<1>5. ReadsAreHonest'
  BY <1>4 DEF SummaryKept, IInv, TypeOK, ReadsAreHonest
<1>6. QED
  BY <1>2, <1>3, <1>5 DEF IInv

(* A summary is created or extended, and the answer may be lost. *)
LEMMA SummaryWrittenStep ==
  ASSUME IInv, NEW r \in Runner, SummaryWritten(r)
  PROVE  IInv'
<1>1. PICK shown \in Shown(r), answer \in Answer :
       /\ prior[r].id = 0 \/ shown # {}
       /\ Answered(answer)
       /\ notes' = IF answer = "refused" THEN notes
                   ELSE IF prior[r].id = 0 THEN Append(notes, SummaryNote(r, shown))
                   ELSE [notes EXCEPT ![prior[r].id] = SummaryNote(r, shown)]
       /\ IF answer = "ok"
          THEN /\ omitted' = [omitted EXCEPT ![r] = Candidates(plan[r], prior[r]) \ shown]
               /\ pc' = [pc EXCEPT ![r] = "post"]
               /\ UNCHANGED <<prior, todo, exit>>
          ELSE Ends(r, "died") /\ UNCHANGED omitted
  BY DEF SummaryWritten
<1>2. faults' \in 0..MaxFaults
  BY <1>1, FaultOK DEF Answered, IInv, TypeOK
<1>3. Candidates(plan[r], prior[r]) \subseteq Nat
  BY PlanIsOfGroups DEF IInv, TypeOK, Candidates
<1>4. omitted' \in [Runner -> SUBSET Nat] /\ unsaid' = unsaid
  BY <1>1, <1>3 DEF SummaryWritten, IInv, TypeOK
<1>5. notes \in Seq(Note) /\ prior[r].id \in 0..Len(notes)
  BY DEF IInv, TypeOK, ReadsAreHonest
<1>6. /\ notes' \in Seq(Note) /\ Len(notes) <= Len(notes')
      /\ MarkersAreHonest' /\ SummaryFirst'
      /\ answer # "refused" => notes' # <<>>
  <2>1. CASE answer = "refused"
    BY <1>1, <1>5, <2>1 DEF IInv, MarkersAreHonest, SummaryFirst
  <2>2. CASE answer # "refused" /\ prior[r].id = 0
    BY <1>1, <2>2, SummaryNoteOK, AppendedOK
  <2>3. CASE answer # "refused" /\ prior[r].id # 0
    <3>1. prior[r].id \in 1..Len(notes)
      BY <1>5, <2>3
    <3>2. notes' = [notes EXCEPT ![prior[r].id] = SummaryNote(r, shown)]
      BY <1>1, <2>3
    <3>3. /\ notes' \in Seq(Note) /\ notes' # <<>> /\ Len(notes) = Len(notes')
          /\ MarkersAreHonest' /\ SummaryFirst'
      BY <3>1, <3>2, SummaryNoteOK, ReplacedOK
    <3>4. QED
      BY <1>5, <3>3
  <2>4. QED
    BY <2>1, <2>2, <2>3
<1>7. UNCHANGED <<plan, posted, failed>>
  BY DEF SummaryWritten
<1>8. CASE answer = "ok"
  <2>1. TypeOK'
    BY <1>1, <1>2, <1>4, <1>6, <1>7, <1>8 DEF IInv, TypeOK
  <2>2. Len(notes) \in Nat /\ Len(notes') \in Nat
    BY <1>5, <1>6
  <2>3. ReadsAreHonest'
    BY <1>1, <1>6, <1>8, <2>2 DEF IInv, TypeOK, ReadsAreHonest
  <2>4. QED
    BY <1>6, <2>1, <2>3 DEF IInv
<1>9. CASE answer # "ok"
  BY <1>1, <1>2, <1>4, <1>6, <1>7, <1>9, EndsOK
<1>10. QED
  BY <1>8, <1>9

(* A run that ends without touching the notes. *)
LEMMA SummaryOverBudgetStep ==
  ASSUME IInv, NEW r \in Runner, SummaryOverBudget(r)
  PROVE  IInv'
<1>1. /\ notes' \in Seq(Note) /\ Len(notes) <= Len(notes')
      /\ MarkersAreHonest' /\ SummaryFirst'
      /\ faults' \in 0..MaxFaults
  BY DEF SummaryOverBudget, IInv, TypeOK, MarkersAreHonest, SummaryFirst
<1>2. Ends(r, "died") /\ UNCHANGED <<plan, posted, failed, omitted, unsaid>>
  BY DEF SummaryOverBudget
<1>3. QED
  BY <1>1, <1>2, EndsOK

(* A discussion that cannot be posted. *)
LEMMA DiscussionRejectedStep ==
  ASSUME IInv, NEW r \in Runner, NEW i \in todo[r], DiscussionRejected(r, i)
  PROVE  IInv'
<1>1. i \in Nat
  BY DEF IInv, TypeOK
<1>2. TypeOK'
  BY <1>1 DEF DiscussionRejected, Take, Fails, IInv, TypeOK
<1>3. MarkersAreHonest' /\ SummaryFirst'
  BY DEF DiscussionRejected, IInv, MarkersAreHonest, SummaryFirst
<1>4. ReadsAreHonest'
  BY DEF DiscussionRejected, Take, IInv, TypeOK, ReadsAreHonest
<1>5. QED
  BY <1>2, <1>3, <1>4 DEF IInv

(* A discussion is posted, and the answer may be lost. *)
LEMMA DiscussionPostedStep ==
  ASSUME IInv, NEW r \in Runner, NEW i \in todo[r], DiscussionPosted(r, i)
  PROVE  IInv'
<1>1. Take(r, i)
  BY DEF DiscussionPosted
<1>2. PICK answer \in Answer :
       /\ Answered(answer)
       /\ notes' = IF answer = "refused" THEN notes ELSE Append(notes, Discussion(plan[r][i]))
       /\ IF answer = "ok"
          THEN posted' = [posted EXCEPT ![r] = TRUE] /\ UNCHANGED failed
          ELSE Fails(r, i)
  BY DEF DiscussionPosted
<1>3. i \in Nat /\ i \in DOMAIN plan[r] /\ notes # <<>> /\ notes \in Seq(Note)
  BY <1>1 DEF Take, IInv, TypeOK, ReadsAreHonest
<1>4. faults' \in 0..MaxFaults
  BY <1>2, FaultOK DEF Answered, IInv, TypeOK
<1>5. /\ notes' \in Seq(Note) /\ notes' # <<>> /\ Len(notes) <= Len(notes')
      /\ MarkersAreHonest' /\ SummaryFirst'
  <2>1. CASE answer = "refused"
    BY <1>2, <1>3, <2>1 DEF IInv, MarkersAreHonest, SummaryFirst
  <2>2. CASE answer # "refused"
    BY <1>2, <1>3, <2>2, DiscussionOK, AppendedOK
  <2>3. QED
    BY <2>1, <2>2
<1>6. posted' \in [Runner -> BOOLEAN] /\ failed' \in [Runner -> SUBSET Nat]
  <2>1. CASE answer = "ok"
    BY <1>2, <2>1 DEF IInv, TypeOK
  <2>2. CASE answer # "ok"
    <3>1. failed' = [failed EXCEPT ![r] = @ \cup {i}] /\ UNCHANGED posted
      BY <1>2, <2>2 DEF Fails
    <3>2. QED
      BY <1>3, <3>1 DEF IInv, TypeOK
  <2>3. QED
    BY <2>1, <2>2
<1>7. TypeOK'
  BY <1>1, <1>4, <1>5, <1>6 DEF Take, IInv, TypeOK
<1>8. ReadsAreHonest'
  <2>1. Len(notes) \in Nat /\ Len(notes') \in Nat
    BY <1>3, <1>5
  <2>2. QED
    BY <1>1, <1>5, <2>1 DEF Take, IInv, TypeOK, ReadsAreHonest
<1>9. QED
  BY <1>5, <1>7, <1>8 DEF IInv

(* A run ends, or is killed. *)
LEMMA FinishStep ==
  ASSUME IInv, NEW r \in Runner, Finish(r) \/ Killed(r)
  PROVE  IInv'
<1>1. /\ notes' \in Seq(Note) /\ Len(notes) <= Len(notes')
      /\ MarkersAreHonest' /\ SummaryFirst'
      /\ faults' \in 0..MaxFaults
  BY FaultOK DEF Finish, Killed, IInv, TypeOK, MarkersAreHonest, SummaryFirst
<1>2. PICK status \in {"ok", "died"} : Ends(r, status) /\ UNCHANGED <<plan, posted, failed, omitted, unsaid>>
  BY DEF Finish, Killed
<1>3. QED
  BY <1>1, <1>2, EndsOK

(* Every step of any runner keeps the invariant. *)
LEMMA StepOK == IInv /\ [Next]_vars => IInv'
<1> SUFFICES ASSUME IInv, [Next]_vars PROVE IInv'
  OBVIOUS
<1>1. ASSUME NEW r \in Runner, \E p \in Plans : Start(r, p) PROVE IInv'
  BY <1>1, StartStep
<1>2. ASSUME NEW r \in Runner, Run(r) PROVE IInv'
  BY <1>2, ReadNotesStep, ReadFailsStep, SummaryKeptStep, SummaryWrittenStep,
     SummaryOverBudgetStep, DiscussionRejectedStep, DiscussionPostedStep, FinishStep
     DEF Run, Post
<1>3. ASSUME NEW r \in Runner, Killed(r) PROVE IInv'
  BY <1>3, FinishStep
<1>4. CASE UNCHANGED vars
  BY <1>4 DEF vars, IInv, TypeOK, MarkersAreHonest, SummaryFirst, ReadsAreHonest
<1>5. QED
  BY <1>1, <1>2, <1>3, <1>4 DEF Next

(* The invariant holds throughout, however many runners there are. *)
THEOREM Invariance == Spec => []IInv
<1>1. QED
  BY InitOK, StepOK, PTL DEF Spec

(* Every variable keeps the shape of its counterpart in post_gitlab.       *)
THEOREM TypeCorrect == Spec => []TypeOK
<1>1. IInv => TypeOK
  BY DEF IInv
<1>2. QED
  BY <1>1, Invariance, PTL

(* No marker claims what its note does not tell, whatever raced or failed: *)
(* the lost update of two runners loses markers together with their text.  *)
THEOREM HonestMarkers == Spec => []MarkersAreHonest
<1>1. IInv => MarkersAreHonest
  BY DEF IInv
<1>2. QED
  BY <1>1, Invariance, PTL

(* A discussion never comes before a summary, whoever posts and whatever   *)
(* fails.                                                                  *)
THEOREM SummaryAlwaysFirst == Spec => []SummaryFirst
<1>1. IInv => SummaryFirst
  BY DEF IInv
<1>2. QED
  BY <1>1, Invariance, PTL
-----------------------------------------------------------------------------
(* One runner.  What it read is still there when it writes.                *)

Single == \A q, r \in Runner : q = r

ReadBack(r) ==
  /\ todo[r] = Pending(plan[r], prior[r])
  /\ prior[r].marks \subseteq Marked
  /\ prior[r].body = IF prior[r].id = 0 THEN NoNote ELSE notes[prior[r].id]

(* Every group with an anchor is due, or warned of, or heard of; and then  *)
(* its lead is told, or was left out of the digest.                        *)
Accounted(r) ==
  \A i \in DOMAIN plan[r] :
    plan[r][i].anchored /\ i \notin todo[r] \cup failed[r] =>
      /\ plan[r][i].members \cap Marked # {}
      /\ plan[r][i].lead \in Marked \/ i \in omitted[r] \cup unsaid[r]

SingleInv ==
  \A r \in Runner :
    /\ pc[r] = "summary" => ReadBack(r)
    /\ pc[r] = "post" => Accounted(r)
    /\ exit[r] = "ok" => pc[r] = "idle" /\ Accounted(r)

(* A group that is neither pending nor in the digest has its lead told. *)
LEMMA LeftOutIsTold ==
  ASSUME NEW p \in Plans \cup {<<>>}, NEW read, NEW i \in DOMAIN p, p[i].anchored,
         i \notin Pending(p, read), i \notin Candidates(p, read)
  PROVE  p[i].lead \in read.marks
<1>1. p[i] \in Group /\ p[i].lead \in p[i].members
  BY PlanIsOfGroups
<1>2. AlreadyPresent(p[i], read) /\ Fragment(p[i], read) = {}
  BY DEF Pending, Candidates
<1>3. p[i].lead \in Coverage(p[i], p[i].lead)
  BY DEF Coverage
<1>4. QED
  BY <1>2, <1>3 DEF Fragment

(* A group in the digest of a summary has its lead told then, or before. *)
LEMMA ShownIsTold ==
  ASSUME NEW p \in Plans \cup {<<>>}, NEW read, NEW shown, NEW i \in shown,
         i \in DOMAIN p, p[i].anchored, i \in Candidates(p, read)
  PROVE  p[i].lead \in read.marks \cup Digest(p, read, shown)
<1>1. AlreadyPresent(p[i], read)
  BY DEF Candidates, Fragment
<1>2. CASE p[i].lead \in read.marks
  BY <1>2
<1>3. CASE p[i].lead \notin read.marks
  <2>1. p[i].lead \in Fragment(p[i], read)
    BY <1>1, <1>3 DEF Fragment, Coverage
  <2>2. QED
    BY <2>1 DEF Digest
<1>4. QED
  BY <1>2, <1>3

(* What the summary that is written adds to the markers. *)
LEMMA SummaryWrittenMarks ==
  ASSUME IInv, NEW r \in Runner, ReadBack(r), NEW shown \in Shown(r),
         notes' = IF prior[r].id = 0 THEN Append(notes, SummaryNote(r, shown))
                  ELSE [notes EXCEPT ![prior[r].id] = SummaryNote(r, shown)]
  PROVE  Marked' = Marked \cup Digest(plan[r], prior[r], shown)
<1> DEFINE n == SummaryNote(r, shown)
           D == Digest(plan[r], prior[r], shown)
<1>1. n \in Note /\ n.marks = prior[r].body.marks \cup D
  BY SummaryNoteOK DEF SummaryNote
<1>2. notes \in Seq(Note) /\ prior[r].id \in 0..Len(notes)
  BY DEF IInv, TypeOK, ReadsAreHonest
<1>3. CASE prior[r].id = 0
  <2>1. n.marks = D
    BY <1>1, <1>3 DEF ReadBack, NoNote
  <2>2. Marked' = Marked \cup n.marks
    BY <1>1, <1>2, <1>3, MarkedAppended
  <2>3. QED
    BY <2>1, <2>2
<1>4. CASE prior[r].id # 0
  <2>1. prior[r].id \in DOMAIN notes
    BY <1>2, <1>4
  <2>2. n.marks = notes[prior[r].id].marks \cup D
    BY <1>1, <1>4 DEF ReadBack
  <2>3. notes' = [notes EXCEPT ![prior[r].id] = n]
    BY <1>4
  <2>4. Marked' = Marked \cup n.marks
    BY <1>1, <1>2, <2>1, <2>2, <2>3, MarkedExtended
  <2>5. notes[prior[r].id].marks \subseteq Marked
    BY <2>1 DEF Marked
  <2>6. QED
    BY <2>2, <2>4, <2>5
<1>5. QED
  BY <1>3, <1>4

(* One group is posted: it is told, or it failed. *)
LEMMA SingleDiscussion ==
  ASSUME IInv, SingleInv, NEW r \in Runner, NEW i \in todo[r],
         DiscussionRejected(r, i) \/ DiscussionPosted(r, i)
  PROVE  /\ Accounted(r)'
         /\ pc' = pc /\ pc[r] = "post" /\ exit' = exit
<1>1. Take(r, i) /\ notes \in Seq(Note)
  BY DEF DiscussionRejected, DiscussionPosted, IInv, TypeOK
<1>2. /\ pc[r] = "post" /\ Accounted(r)
      /\ todo'[r] = todo[r] \ {i} /\ plan' = plan /\ UNCHANGED <<omitted, unsaid>>
  BY <1>1 DEF Take, SingleInv, IInv, TypeOK
<1>3. CASE Fails(r, i) /\ Marked \subseteq Marked'
  <2>1. failed'[r] = failed[r] \cup {i}
    BY <1>3 DEF Fails, IInv, TypeOK
  <2>2. QED
    BY <1>1, <1>2, <1>3, <2>1 DEF Accounted, Take
<1>4. CASE /\ UNCHANGED failed
           /\ Marked' = Marked \cup GroupCoverage(plan[r][i])
  <2>1. /\ plan[r][i].lead \in GroupCoverage(plan[r][i])
        /\ plan[r][i].lead \in plan[r][i].members
    BY PlanIsOfGroups, CoverageOfGroup DEF IInv, TypeOK
  <2>2. QED
    BY <1>1, <1>2, <1>4, <2>1 DEF Accounted, Take
<1>5. CASE DiscussionRejected(r, i)
  <2>1. Fails(r, i) /\ Marked' = Marked
    BY <1>5 DEF DiscussionRejected, Marked
  <2>2. QED
    BY <1>3, <2>1
<1>6. CASE DiscussionPosted(r, i)
  <2>1. i \in DOMAIN plan[r]
    BY DEF IInv, TypeOK
  <2>2. Discussion(plan[r][i]) \in Note
    BY <2>1, DiscussionOK
  <2>3. CASE notes' = notes
    <3>1. Marked' = Marked /\ Fails(r, i)
      BY <1>1, <1>6, <2>3 DEF Marked, DiscussionPosted, Answer
    <3>2. QED
      BY <1>3, <3>1
  <2>4. CASE notes' = Append(notes, Discussion(plan[r][i]))
    <3>1. Marked' = Marked \cup GroupCoverage(plan[r][i])
      BY <1>1, <2>2, <2>4, MarkedAppended DEF Discussion
    <3>2. Fails(r, i) \/ UNCHANGED failed
      BY <1>6 DEF DiscussionPosted
    <3>3. QED
      BY <1>3, <1>4, <3>1, <3>2
  <2>5. QED
    BY <1>6, <2>3, <2>4 DEF DiscussionPosted
<1>7. QED
  BY <1>5, <1>6

(* The summary is written or kept: every group is due, or told, or left    *)
(* out while another of its findings is told.                              *)
LEMMA SingleSummary ==
  ASSUME IInv, SingleInv, NEW r \in Runner, pc[r] = "summary", NEW shown \in Shown(r),
         Marked' = Marked \cup Digest(plan[r], prior[r], shown),
         Candidates(plan[r], prior[r]) \ shown \subseteq omitted'[r] \cup unsaid'[r],
         UNCHANGED <<plan, todo, failed>>
  PROVE  Accounted(r)'
<1>1. ReadBack(r) /\ plan[r] \in Plans \cup {<<>>}
  BY DEF SingleInv, IInv, TypeOK
<1>2. shown \subseteq Candidates(plan[r], prior[r])
  BY SummaryNoteOK
<1> SUFFICES ASSUME NEW i \in DOMAIN plan[r], plan[r][i].anchored, i \notin todo[r]
             PROVE  /\ plan[r][i].members \cap Marked' # {}
                    /\ plan[r][i].lead \in Marked' \/ i \in omitted'[r] \cup unsaid'[r]
  BY DEF Accounted
<1>3. prior[r].marks \subseteq Marked /\ i \notin Pending(plan[r], prior[r])
  BY <1>1 DEF ReadBack
<1>4. plan[r][i].members \cap Marked' # {}
  BY <1>3 DEF Pending, AlreadyPresent
<1>5. CASE i \in shown
  BY <1>1, <1>2, <1>3, <1>4, <1>5, ShownIsTold
<1>6. CASE i \in Candidates(plan[r], prior[r]) \ shown
  BY <1>4, <1>6
<1>7. CASE i \notin Candidates(plan[r], prior[r])
  <2>1. plan[r][i].lead \in prior[r].marks
    BY <1>1, <1>3, <1>7, LeftOutIsTold
  <2>2. QED
    BY <1>3, <1>4, <2>1
<1>8. QED
  BY <1>5, <1>6, <1>7

(* A run has read the notes, or nothing. *)
LEMMA SingleLearn ==
  ASSUME IInv, Single, SingleInv, NEW r \in Runner, NEW read \in Prior, Learn(r, read),
         pc[r] = "read", read.marks \subseteq Marked,
         read.body = IF read.id = 0 THEN NoNote ELSE notes[read.id]
  PROVE  SingleInv'
<1>1. /\ pc'[r] = "summary" /\ exit'[r] = exit[r] /\ exit[r] # "ok"
      /\ prior'[r] = read /\ todo'[r] = Pending(plan[r], read)
      /\ plan' = plan /\ notes' = notes
  BY DEF Learn, SingleInv, IInv, TypeOK
<1>2. Marked' = Marked
  BY <1>1 DEF Marked
<1>3. ReadBack(r)'
  BY <1>1, <1>2 DEF ReadBack, Pending, AlreadyPresent
<1>4. QED
  BY <1>1, <1>3 DEF SingleInv, Single

(* One runner's steps keep what it knows current. *)
LEMMA SingleStep == IInv /\ Single /\ SingleInv /\ [Next]_vars => SingleInv'
<1> SUFFICES ASSUME IInv, Single, SingleInv, [Next]_vars PROVE SingleInv'
  OBVIOUS
<1>1. ASSUME NEW r \in Runner, pc'[r] = "idle", exit'[r] # "ok" PROVE SingleInv'
  BY <1>1 DEF SingleInv, Single
<1>2. ASSUME NEW r \in Runner, pc'[r] = "post", exit'[r] # "ok", Accounted(r)' PROVE SingleInv'
  BY <1>2 DEF SingleInv, Single
<1>3. ASSUME NEW r \in Runner, NEW p \in Plans, Start(r, p) PROVE SingleInv'
  BY <1>3 DEF Start, SingleInv, Single, IInv, TypeOK
<1>4. ASSUME NEW r \in Runner, ReadNotes(r) PROVE SingleInv'
  <2>1. PICK i \in (IF Summaries = {} THEN {0} ELSE Summaries) :
          Learn(r, [id |-> i, marks |-> Marked, body |-> IF i = 0 THEN NoNote ELSE notes[i]])
    BY <1>4 DEF ReadNotes
  <2> DEFINE read == [id |-> i, marks |-> Marked,
                      body |-> IF i = 0 THEN NoNote ELSE notes[i]]
  <2>2. read \in Prior
    <3>1. notes \in Seq(Note) /\ Marked \subseteq Item
      BY MarkedAreItems DEF IInv, TypeOK
    <3>2. i \in Nat /\ (i # 0 => i \in DOMAIN notes)
      BY <3>1 DEF Summaries
    <3>3. read.body \in Note
      <4>1. CASE i = 0
        BY <4>1 DEF NoNote, Note
      <4>2. CASE i # 0
        BY <3>1, <3>2, <4>2
      <4>3. QED
        BY <4>1, <4>2
    <3>4. QED
      BY <3>1, <3>2, <3>3 DEF Prior
  <2>3. pc[r] = "read"
    BY <1>4 DEF ReadNotes
  <2>4. read.marks \subseteq Marked /\ read.body = IF read.id = 0 THEN NoNote ELSE notes[read.id]
    OBVIOUS
  <2> HIDE DEF read
  <2>5. Learn(r, read)
    BY <2>1 DEF read
  <2>6. QED
    BY <2>2, <2>3, <2>4, <2>5, SingleLearn
<1>5. ASSUME NEW r \in Runner, ReadFails(r) PROVE SingleInv'
  <2>1. Unread \in Prior /\ Unread.marks = {} /\ Unread.id = 0 /\ Unread.body = NoNote
    BY DEF Unread, Prior, NoNote, Note
  <2>2. QED
    BY <1>5, <2>1, SingleLearn DEF ReadFails
<1>6. ASSUME NEW r \in Runner, SummaryKept(r) PROVE SingleInv'
  <2>1. Marked' = Marked \cup Digest(plan[r], prior[r], {})
    BY <1>6 DEF SummaryKept, Marked, Digest
  <2>2. {} \in Shown(r) /\ unsaid'[r] = Candidates(plan[r], prior[r])
    BY <1>6 DEF SummaryKept, IInv, TypeOK
  <2>3. pc[r] = "summary" /\ pc'[r] = "post" /\ exit'[r] # "ok"
    BY <1>6 DEF SummaryKept, IInv, TypeOK, SingleInv
  <2>4. UNCHANGED <<plan, todo, failed>>
    BY <1>6 DEF SummaryKept
  <2>5. Accounted(r)'
    BY <2>1, <2>2, <2>3, <2>4, SingleSummary
  <2>6. QED
    BY <1>2, <2>3, <2>5
<1>7. ASSUME NEW r \in Runner, SummaryWritten(r) PROVE SingleInv'
  <2>1. PICK shown \in Shown(r), answer \in Answer :
       /\ notes' = IF answer = "refused" THEN notes
                   ELSE IF prior[r].id = 0 THEN Append(notes, SummaryNote(r, shown))
                   ELSE [notes EXCEPT ![prior[r].id] = SummaryNote(r, shown)]
       /\ IF answer = "ok"
          THEN /\ omitted' = [omitted EXCEPT ![r] = Candidates(plan[r], prior[r]) \ shown]
               /\ pc' = [pc EXCEPT ![r] = "post"]
               /\ UNCHANGED <<prior, todo, exit>>
          ELSE Ends(r, "died") /\ UNCHANGED omitted
    BY <1>7 DEF SummaryWritten
  <2>2. pc[r] = "summary" /\ UNCHANGED <<plan, posted, failed>> /\ exit[r] # "ok"
    BY <1>7 DEF SummaryWritten, SingleInv
  <2>3. CASE answer # "ok"
    BY <1>1, <2>1, <2>3 DEF Ends, IInv, TypeOK
  <2>4. CASE answer = "ok"
    <3>1. Marked' = Marked \cup Digest(plan[r], prior[r], shown)
      BY <2>1, <2>2, <2>4, SummaryWrittenMarks DEF SingleInv
    <3>2. omitted'[r] = Candidates(plan[r], prior[r]) \ shown
      BY <2>1, <2>4 DEF IInv, TypeOK
    <3>3. pc'[r] = "post" /\ exit'[r] # "ok" /\ UNCHANGED <<plan, todo, failed>>
      BY <2>1, <2>2, <2>4 DEF IInv, TypeOK
    <3>4. Accounted(r)'
      BY <2>2, <3>1, <3>2, <3>3, SingleSummary
    <3>5. QED
      BY <1>2, <3>3, <3>4
  <2>5. QED
    BY <2>3, <2>4
<1>8. ASSUME NEW r \in Runner, SummaryOverBudget(r) \/ Killed(r) PROVE SingleInv'
  BY <1>1, <1>8 DEF SummaryOverBudget, Killed, Ends, IInv, TypeOK
<1>9. ASSUME NEW r \in Runner, Post(r) PROVE SingleInv'
  <2>1. Accounted(r)' /\ pc' = pc /\ pc[r] = "post" /\ exit' = exit
    BY <1>9, SingleDiscussion DEF Post
  <2>2. QED
    BY <1>2, <2>1 DEF SingleInv
<1>10. ASSUME NEW r \in Runner, Finish(r) PROVE SingleInv'
  <2>1. /\ pc[r] = "post" /\ todo[r] = {} /\ todo'[r] = {} /\ pc'[r] = "idle"
        /\ UNCHANGED <<notes, plan, failed, omitted, unsaid>>
    BY <1>10 DEF Finish, Ends, IInv, TypeOK
  <2>2. Accounted(r)'
    BY <2>1 DEF SingleInv, Accounted, Marked
  <2>3. QED
    BY <2>1, <2>2 DEF SingleInv, Single
<1>11. CASE UNCHANGED vars
  BY <1>11 DEF vars, SingleInv, ReadBack, Accounted, Marked, Pending, AlreadyPresent
<1>12. QED
  BY <1>3, <1>4, <1>5, <1>6, <1>7, <1>8, <1>9, <1>10, <1>11 DEF Next, Run

(* The exit status of the only runner tells the truth: after a success, of *)
(* each issue a finding is on the merge request or a warning was given,    *)
(* and a lead that is not there was left out of the digest, with a warning *)
(* if a summary was written; whatever failed in this run or before it.     *)
THEOREM ExitIsTruthful == ASSUME Single PROVE Spec => []ExitTellsTruth
<1>1. Init => SingleInv
  BY DEF Init, SingleInv
<1>2. IInv /\ SingleInv => ExitTellsTruth
  <2> SUFFICES ASSUME IInv, SingleInv, NEW r \in Runner, exit[r] = "ok",
                      NEW i \in DOMAIN plan[r], plan[r][i].anchored, i \notin failed[r]
               PROVE  /\ plan[r][i].members \cap Marked # {}
                      /\ plan[r][i].lead \in Marked \/ i \in omitted[r] \cup unsaid[r]
    BY DEF ExitTellsTruth
  <2>1. Accounted(r) /\ todo[r] = {}
    BY DEF SingleInv, IInv, ReadsAreHonest
  <2>2. QED
    BY <2>1 DEF Accounted
<1>3. QED
  BY <1>1, <1>2, SingleStep, Invariance, PTL DEF Spec
-----------------------------------------------------------------------------
(* One runner that can read the notes back implements MergeRequestNotes.   *)

(* A finding is posted only while no note speaks of it. *)
PromiseInv ==
  /\ \A i \in DOMAIN notes : notes[i].kind = "summary" => i = 1
  /\ \A r \in Runner :
       /\ pc[r] = "summary" => /\ prior[r].marks = Marked
                              /\ prior[r].id = IF notes = <<>> THEN 0 ELSE 1
       /\ \A i \in todo[r] : plan[r][i].members \cap Marked = {}

(* The groups still due stay new when the summary is written. *)
LEMMA DueStayNew ==
  ASSUME IInv, SingleInv, PromiseInv, NEW r \in Runner, pc[r] = "summary",
         NEW shown \in Shown(r),
         Marked' = Marked \cup Digest(plan[r], prior[r], shown), plan' = plan
  PROVE  \A i \in todo[r] : plan'[r][i].members \cap Marked' = {}
<1>1. plan[r] \in Plans \cup {<<>>} /\ todo[r] = Pending(plan[r], prior[r])
  BY DEF SingleInv, ReadBack, IInv, TypeOK
<1>2. shown \subseteq Candidates(plan[r], prior[r])
  BY SummaryNoteOK
<1>3. \A i \in todo[r] : plan[r][i].members \cap Digest(plan[r], prior[r], shown) = {}
  BY <1>1, <1>2, DigestOfPlan
<1>4. QED
  BY <1>3 DEF PromiseInv

(* A summary written after a current read opens the notes or extends one. *)
LEMMA SummaryRefines ==
  ASSUME IInv, SingleInv, PromiseInv, NEW r \in Runner, pc[r] = "summary",
         NEW shown \in Shown(r),
         notes' = IF prior[r].id = 0 THEN Append(notes, SummaryNote(r, shown))
                  ELSE [notes EXCEPT ![prior[r].id] = SummaryNote(r, shown)]
  PROVE  /\ Readers!Next
         /\ \A i \in DOMAIN notes' : notes'[i].kind = "summary" => i = 1
<1> DEFINE n == SummaryNote(r, shown)
           D == Digest(plan[r], prior[r], shown)
<1>1. ReadBack(r) /\ prior[r].id = IF notes = <<>> THEN 0 ELSE 1
  BY DEF SingleInv, PromiseInv
<1>2. n \in Note /\ n.marks \subseteq n.text /\ n.kind = "summary"
  BY SummaryNoteOK
<1>3. /\ n = [kind |-> "summary", marks |-> n.marks, text |-> n.text]
      /\ n.marks \in SUBSET n.text /\ n.text \in SUBSET Item
  BY <1>2 DEF SummaryNote, Note
<1>4. D \in SUBSET Item
  BY SummaryNoteOK, DigestOfPlan DEF IInv, TypeOK
<1>5. CASE notes = <<>>
  <2>1. notes' = <<n>>
    BY <1>1, <1>5
  <2>2. Readers!Summarize
    BY <1>3, <1>5, <2>1 DEF Readers!Summarize, Readers!Item, Item
  <2>3. \A i \in DOMAIN notes' : i = 1
    BY <2>1
  <2>4. QED
    BY <2>2, <2>3 DEF Readers!Next
<1>6. CASE notes # <<>>
  <2>1. 1 \in DOMAIN notes /\ notes \in Seq(Note) /\ notes[1] \in Note
    BY <1>6 DEF IInv, TypeOK
  <2>2. notes[1].kind = "summary" /\ prior[r].id = 1 /\ prior[r].body = notes[1]
    BY <1>1, <1>6 DEF ReadBack, IInv, SummaryFirst
  <2>3. n.marks = notes[1].marks \cup D /\ n.text = notes[1].text \cup D
    BY <2>2 DEF SummaryNote
  <2>4. n = [kind |-> "summary", marks |-> notes[1].marks \cup D,
             text |-> notes[1].text \cup D]
    BY <2>2 DEF SummaryNote
  <2>5. notes' = [notes EXCEPT ![1] = n]
    BY <2>2
  <2>6. notes' = [notes EXCEPT ![1] = [kind |-> "summary", marks |-> @.marks \cup D,
                                       text |-> @.text \cup D]]
    BY <2>4, <2>5
  <2>7. Readers!Extend
    BY <1>4, <1>6, <2>6 DEF Readers!Extend, Readers!Item, Item
  <2>8. \A i \in DOMAIN notes' : i # 1 => notes'[i] = notes[i] /\ i \in DOMAIN notes
    BY <2>1, <2>5
  <2>9. QED
    BY <2>7, <2>8 DEF Readers!Next, PromiseInv
<1>7. QED
  BY <1>5, <1>6

(* A discussion of a group that is due is news, and leaves the rest news. *)
LEMMA DiscussionRefines ==
  ASSUME IInv, PromiseInv, NEW r \in Runner, NEW i \in todo[r],
         notes # <<>>, notes' = Append(notes, Discussion(plan[r][i])), plan' = plan
  PROVE  /\ Readers!Next
         /\ \A j \in DOMAIN notes' : notes'[j].kind = "summary" => j = 1
         /\ \A j \in todo[r] \ {i} : plan'[r][j].members \cap Marked' = {}
<1> DEFINE text == GroupCoverage(plan[r][i])
<1>1. /\ plan[r] \in Plans \cup {<<>>} /\ i \in DOMAIN plan[r]
      /\ notes \in Seq(Note) /\ todo[r] \subseteq DOMAIN plan[r]
  BY DEF IInv, TypeOK
<1>2. text \subseteq Item /\ text \cap Key = plan[r][i].members
  BY <1>1, PlanIsOfGroups, CoverageOfGroup
<1>3. Discussion(plan[r][i]) \in Note
  BY <1>1, DiscussionOK
<1>4. plan[r][i].members \cap Marked = {}
  BY DEF PromiseInv
<1>5. Readers!Marked = Marked
  BY DEF Readers!Marked, Marked
<1>6. text \cap Key \cap Marked = {}
  BY <1>2, <1>4
<1>7. text \in SUBSET Readers!Item
  BY <1>2 DEF Readers!Item, Item
<1>8. Readers!Discuss
  BY <1>5, <1>6, <1>7 DEF Readers!Discuss, Discussion
<1>9. \A j \in DOMAIN notes' : notes'[j].kind = "summary" => j \in DOMAIN notes /\ notes'[j] = notes[j]
  BY <1>1, <1>3 DEF Discussion
<1>10. Marked' = Marked \cup text
  BY <1>1, <1>3, MarkedAppended DEF Discussion
<1>11. ASSUME NEW j \in todo[r] \ {i} PROVE plan[r][j].members \cap Marked' = {}
  <2>1. j \in DOMAIN plan[r] /\ i \in DOMAIN plan[r] /\ j # i
    BY <1>1
  <2>2. plan[r][j].members \subseteq Key /\ plan[r][j].members \cap plan[r][i].members = {}
    BY <1>1, <2>1, PlanIsOfGroups DEF Group
  <2>3. plan[r][j].members \cap Marked = {}
    BY DEF PromiseInv
  <2>4. QED
    BY <1>2, <1>10, <2>2, <2>3
<1>12. QED
  BY <1>8, <1>9, <1>11 DEF Readers!Next, PromiseInv

(* Every step of the only runner is one of MergeRequestNotes, or none. *)
LEMMA PromiseStep ==
  IInv /\ Single /\ ~ReadsFail /\ SingleInv /\ PromiseInv /\ [Next]_vars
    => PromiseInv' /\ [Readers!Next]_notes
<1> SUFFICES ASSUME IInv, Single, ~ReadsFail, SingleInv, PromiseInv, [Next]_vars
             PROVE  PromiseInv' /\ [Readers!Next]_notes
  OBVIOUS
<1>1. ASSUME notes' = notes,
             NEW r \in Runner, pc'[r] # "summary",
             \A i \in todo'[r] : i \in todo[r] /\ plan'[r][i] = plan[r][i]
      PROVE  PromiseInv' /\ [Readers!Next]_notes
  <2>1. Marked' = Marked
    BY <1>1 DEF Marked
  <2>2. \A i \in todo'[r] : plan'[r][i].members \cap Marked' = {}
    BY <1>1, <2>1 DEF PromiseInv
  <2>3. QED
    BY <1>1, <2>2 DEF PromiseInv, Single
<1>2. ASSUME NEW r \in Runner, NEW p \in Plans, Start(r, p)
      PROVE  PromiseInv' /\ [Readers!Next]_notes
  <2>1. notes' = notes /\ pc'[r] = "read" /\ todo'[r] = {}
    BY <1>2 DEF Start, IInv, TypeOK, ReadsAreHonest
  <2>2. QED
    BY <1>1, <2>1
<1>3. ASSUME NEW r \in Runner, ReadNotes(r)
      PROVE  PromiseInv' /\ [Readers!Next]_notes
  <2>1. PICK i \in (IF Summaries = {} THEN {0} ELSE Summaries) :
          Learn(r, [id |-> i, marks |-> Marked, body |-> IF i = 0 THEN NoNote ELSE notes[i]])
    BY <1>3 DEF ReadNotes
  <2>2. notes' = notes /\ plan' = plan /\ Marked' = Marked
    BY <2>1 DEF Learn, Marked
  <2>3. i = IF notes = <<>> THEN 0 ELSE 1
    <3>1. CASE notes = <<>>
      BY <3>1 DEF Summaries
    <3>2. CASE notes # <<>>
      <4>1. 1 \in DOMAIN notes
        BY <3>2 DEF IInv, TypeOK
      <4>2. Summaries = {1}
        BY <3>2, <4>1 DEF Summaries, IInv, SummaryFirst, PromiseInv
      <4>3. QED
        BY <3>2, <4>2
    <3>3. QED
      BY <3>1, <3>2
  <2>4. prior'[r].marks = Marked /\ prior'[r].id = i
    BY <2>1 DEF Learn, IInv, TypeOK
  <2>5. \A j \in todo'[r] : plan'[r][j].members \cap Marked' = {}
    <3>1. todo'[r] = Pending(plan[r], prior'[r])
      BY <2>1 DEF Learn, IInv, TypeOK
    <3>2. QED
      BY <2>2, <2>4, <3>1 DEF Pending, AlreadyPresent
  <2>6. QED
    BY <2>2, <2>3, <2>4, <2>5 DEF PromiseInv, Single
<1>4. ASSUME NEW r \in Runner, ReadFails(r)
      PROVE  PromiseInv' /\ [Readers!Next]_notes
  BY <1>4 DEF ReadFails
<1>5. ASSUME NEW r \in Runner, SummaryKept(r)
      PROVE  PromiseInv' /\ [Readers!Next]_notes
  <2>1. notes' = notes /\ pc'[r] = "post" /\ todo' = todo /\ plan' = plan
    BY <1>5 DEF SummaryKept, IInv, TypeOK
  <2>2. QED
    BY <1>1, <2>1
<1>6. ASSUME NEW r \in Runner, SummaryWritten(r)
      PROVE  PromiseInv' /\ [Readers!Next]_notes
  <2>1. PICK shown \in Shown(r), answer \in Answer :
       /\ notes' = IF answer = "refused" THEN notes
                   ELSE IF prior[r].id = 0 THEN Append(notes, SummaryNote(r, shown))
                   ELSE [notes EXCEPT ![prior[r].id] = SummaryNote(r, shown)]
       /\ IF answer = "ok"
          THEN /\ pc' = [pc EXCEPT ![r] = "post"]
               /\ UNCHANGED <<prior, todo, exit>>
          ELSE Ends(r, "died")
    BY <1>6 DEF SummaryWritten
  <2>2. pc[r] = "summary" /\ plan' = plan
    BY <1>6 DEF SummaryWritten
  <2>3. pc'[r] # "summary" /\ (todo'[r] = {} \/ todo' = todo)
    BY <2>1 DEF Ends, IInv, TypeOK
  <2>4. CASE answer = "refused"
    BY <1>1, <2>1, <2>2, <2>3, <2>4
  <2>5. CASE answer # "refused"
    <3>1. notes' = IF prior[r].id = 0 THEN Append(notes, SummaryNote(r, shown))
                   ELSE [notes EXCEPT ![prior[r].id] = SummaryNote(r, shown)]
      BY <2>1, <2>5
    <3>2. /\ Readers!Next
          /\ \A i \in DOMAIN notes' : notes'[i].kind = "summary" => i = 1
      BY <2>2, <3>1, SummaryRefines
    <3>3. Marked' = Marked \cup Digest(plan[r], prior[r], shown)
      BY <2>2, <3>1, SummaryWrittenMarks DEF SingleInv
    <3>4. \A i \in todo[r] : plan'[r][i].members \cap Marked' = {}
      BY <2>2, <3>3, DueStayNew
    <3>5. QED
      BY <2>3, <3>2, <3>4 DEF PromiseInv, Single
  <2>6. QED
    BY <2>4, <2>5
<1>7. ASSUME NEW r \in Runner, SummaryOverBudget(r) \/ Finish(r) \/ Killed(r)
      PROVE  PromiseInv' /\ [Readers!Next]_notes
  <2>1. notes' = notes /\ pc'[r] = "idle" /\ todo'[r] = {}
    BY <1>7 DEF SummaryOverBudget, Finish, Killed, Ends, IInv, TypeOK
  <2>2. QED
    BY <1>1, <2>1
<1>8. ASSUME NEW r \in Runner, NEW i \in todo[r], DiscussionRejected(r, i) \/ DiscussionPosted(r, i)
      PROVE  PromiseInv' /\ [Readers!Next]_notes
  <2>1. pc[r] = "post" /\ pc' = pc /\ plan' = plan /\ todo'[r] = todo[r] \ {i}
    BY <1>8 DEF DiscussionRejected, DiscussionPosted, Take, IInv, TypeOK
  <2>2. CASE notes' = notes
    BY <1>1, <2>1, <2>2
  <2>3. CASE notes' = Append(notes, Discussion(plan[r][i]))
    <3>1. notes # <<>>
      BY <2>1 DEF IInv, ReadsAreHonest
    <3>2. /\ Readers!Next
          /\ \A j \in DOMAIN notes' : notes'[j].kind = "summary" => j = 1
          /\ \A j \in todo[r] \ {i} : plan'[r][j].members \cap Marked' = {}
      BY <2>1, <2>3, <3>1, DiscussionRefines
    <3>3. QED
      BY <2>1, <3>2 DEF PromiseInv, Single
  <2>4. QED
    BY <1>8, <2>2, <2>3 DEF DiscussionRejected, DiscussionPosted
<1>9. CASE UNCHANGED vars
  BY <1>9 DEF vars, PromiseInv, Marked
<1>10. QED
  BY <1>2, <1>3, <1>4, <1>5, <1>6, <1>7, <1>8, <1>9 DEF Next, Run, Post

(* One runner that can read its notes back keeps the promise to readers,   *)
(* however often it is refused, loses an answer, is killed and is rerun    *)
(* with other plans: one summary that only grows, before everything, and   *)
(* no discussion of a finding that was told before.                        *)
THEOREM PromiseKept == ASSUME Single, ~ReadsFail PROVE Spec => NotesPromise
<1>1. Init => SingleInv /\ PromiseInv /\ Readers!Init
  BY DEF Init, SingleInv, PromiseInv, Readers!Init
<1>2. IInv /\ SingleInv /\ PromiseInv /\ [Next]_vars
        => SingleInv' /\ PromiseInv' /\ [Readers!Next]_notes
  BY SingleStep, PromiseStep
<1>3. QED
  BY <1>1, <1>2, Invariance, PTL DEF Spec, NotesPromise, Readers!Spec
-----------------------------------------------------------------------------
(* A rerun only adds. *)

(* No step but the summary's and a discussion's touches the notes. *)
LEMMA WhoWrites ==
  ASSUME [Next]_vars, notes' # notes
  PROVE  \E r \in Runner : SummaryWritten(r) \/ \E i \in todo[r] : DiscussionPosted(r, i)
BY DEF Next, Run, Post, vars, Start, ReadNotes, ReadFails, Learn, SummaryKept,
   SummaryOverBudget, Finish, Killed, DiscussionRejected

(* A summary that is written keeps every note and every marker. *)
LEMMA SummaryAdds ==
  ASSUME IInv, SingleInv, NEW r \in Runner, SummaryWritten(r), NEW i \in DOMAIN notes
  PROVE  i \in DOMAIN notes' /\ notes[i].marks \subseteq notes'[i].marks
<1>1. PICK shown \in Shown(r) :
        \/ notes' = notes
        \/ prior[r].id = 0 /\ notes' = Append(notes, SummaryNote(r, shown))
        \/ prior[r].id # 0 /\ notes' = [notes EXCEPT ![prior[r].id] = SummaryNote(r, shown)]
  BY DEF SummaryWritten
<1>2. ReadBack(r) /\ SummaryNote(r, shown) \in Note
  BY SummaryNoteOK DEF SummaryWritten, SingleInv
<1>3. notes \in Seq(Note) /\ i \in 1..Len(notes)
  BY DEF IInv, TypeOK
<1>4. CASE prior[r].id = 0 /\ notes' = Append(notes, SummaryNote(r, shown))
  BY <1>2, <1>3, <1>4
<1>5. CASE prior[r].id # 0 /\ notes' = [notes EXCEPT ![prior[r].id] = SummaryNote(r, shown)]
  <2>1. prior[r].body = notes[prior[r].id]
    BY <1>2, <1>5 DEF ReadBack
  <2>2. notes[prior[r].id].marks \subseteq SummaryNote(r, shown).marks
    BY <2>1 DEF SummaryNote
  <2>3. CASE i = prior[r].id
    <3>1. notes'[i] = SummaryNote(r, shown)
      BY <1>3, <1>5, <2>3
    <3> QED BY <1>3, <1>5, <2>2, <2>3, <3>1
  <2>4. CASE i # prior[r].id
    BY <1>3, <1>5, <2>4
  <2> QED BY <2>3, <2>4
<1> QED BY <1>1, <1>3, <1>4, <1>5

(* So does a discussion. *)
LEMMA DiscussionAdds ==
  ASSUME IInv, NEW r \in Runner, NEW j \in todo[r], DiscussionPosted(r, j), NEW i \in DOMAIN notes
  PROVE  i \in DOMAIN notes' /\ notes[i].marks \subseteq notes'[i].marks
<1>1. notes' = notes \/ notes' = Append(notes, Discussion(plan[r][j]))
  BY DEF DiscussionPosted
<1>2. notes \in Seq(Note) /\ i \in 1..Len(notes) /\ Discussion(plan[r][j]) \in Note
  BY DiscussionOK DEF IInv, TypeOK
<1> QED BY <1>1, <1>2

(* When everything is told, a group has nothing to add to the digest. *)
LEMMA NothingToAdd ==
  ASSUME IInv, AllCovered, NEW r \in Runner, prior[r].marks = Marked, prior[r].id # 0
  PROVE  Candidates(plan[r], prior[r]) = {}
<1> SUFFICES ASSUME NEW i \in DOMAIN plan[r] PROVE Fragment(plan[r][i], prior[r]) = {}
  BY DEF Candidates
<1> DEFINE g == plan[r][i]
<1>1. g \in Group /\ g.lead \in g.members
  BY PlanIsOfGroups DEF IInv, TypeOK
<1>2. GroupCoverage(g) \subseteq Marked
  BY DEF AllCovered
<1>3. \A k \in g.members : Coverage(g, k) \subseteq prior[r].marks /\ k \in Coverage(g, k)
  BY <1>1, <1>2, CoverageOfGroup
<1>4. \A k \in g.members : NewSites(g, k, prior[r]) = {}
  BY <1>3 DEF Coverage, NewSites
<1>5. g.lead \in prior[r].marks /\ AlreadyPresent(g, prior[r])
  BY <1>1, <1>3 DEF AlreadyPresent
<1> HIDE DEF g
<1> QED BY <1>4, <1>5 DEF Fragment, g

(* A single runner takes no note and no marker back, and a rerun of what   *)
(* it delivered writes nothing. *)
LEMMA OnlyAdds ==
  ASSUME IInv, Single, SingleInv, PromiseInv, [Next]_vars
  PROVE  /\ \A i \in DOMAIN notes : i \in DOMAIN notes' /\ notes[i].marks \subseteq notes'[i].marks
         /\ AllCovered => UNCHANGED notes
<1> SUFFICES ASSUME notes' # notes
             PROVE  /\ \A i \in DOMAIN notes :
                         i \in DOMAIN notes' /\ notes[i].marks \subseteq notes'[i].marks
                    /\ ~AllCovered
  OBVIOUS
<1>1. PICK r \in Runner : SummaryWritten(r) \/ \E i \in todo[r] : DiscussionPosted(r, i)
  BY WhoWrites
<1>2. CASE SummaryWritten(r)
  <2>1. ASSUME AllCovered PROVE FALSE
    <3>1. pc[r] = "summary" /\ notes # <<>>
      BY <1>2, <2>1 DEF SummaryWritten, AllCovered
    <3>2. prior[r].marks = Marked /\ prior[r].id # 0
      BY <3>1 DEF PromiseInv
    <3>3. Candidates(plan[r], prior[r]) = {}
      BY <2>1, <3>2, NothingToAdd
    <3>4. \A shown \in Shown(r) : shown = {}
      BY <3>3 DEF Shown
    <3> QED BY <1>2, <3>2, <3>4 DEF SummaryWritten
  <2> QED BY <1>2, <2>1, SummaryAdds
<1>3. ASSUME NEW i \in todo[r], DiscussionPosted(r, i)
      PROVE  /\ \A j \in DOMAIN notes :
                  j \in DOMAIN notes' /\ notes[j].marks \subseteq notes'[j].marks
             /\ ~AllCovered
  <2>1. i \in DOMAIN plan[r] /\ plan[r] \in Plans \cup {<<>>}
    BY DEF IInv, TypeOK
  <2>2. plan[r][i].lead \in plan[r][i].members
    BY <2>1, PlanIsOfGroups
  <2>3. plan[r][i].lead \in GroupCoverage(plan[r][i])
    BY <2>1, PlanIsOfGroups, CoverageOfGroup
  <2>4. plan[r][i].lead \notin Marked
    BY <2>2 DEF PromiseInv
  <2> QED BY <1>3, <2>1, <2>3, <2>4, DiscussionAdds DEF AllCovered
<1> QED BY <1>1, <1>2, <1>3

(* Whatever is refused, lost or killed and whatever plan a rerun brings, a *)
(* runner that can read its notes back only ever adds what is missing.     *)
THEOREM RerunsAdd == ASSUME Single, ~ReadsFail PROVE Spec => RerunsOnlyAdd
<1>1. Init => SingleInv /\ PromiseInv
  BY DEF Init, SingleInv, PromiseInv
<1>2. IInv /\ SingleInv /\ PromiseInv /\ [Next]_vars => SingleInv' /\ PromiseInv'
  BY SingleStep, PromiseStep
<1>3. IInv /\ SingleInv /\ PromiseInv /\ [Next]_vars
        => /\ [\A i \in DOMAIN notes :
                 i \in DOMAIN notes' /\ notes[i].marks \subseteq notes'[i].marks]_notes
           /\ [AllCovered => UNCHANGED notes]_notes
  BY OnlyAdds
<1> QED
  BY <1>1, <1>2, <1>3, Invariance, PTL DEF Spec, RerunsOnlyAdd, CoverageGrows, RerunsAreQuiet
-----------------------------------------------------------------------------
(***************************************************************************)
(* FindingLocation and FixOutlets, for any file, quotes and claims.        *)
(***************************************************************************)
Quotes(anchor) == {q \in Readings(anchor) : Quotable(q)}
PlacesIn(anchor, lines) == {Starts(q, lines) : q \in Quotes(anchor)} \ {{}}
SitesIn(anchor, lines) == UNION PlacesIn(anchor, lines)
InsideOf(anchor, src) ==
  {at \in SitesIn(anchor, src.lines) : \E h \in src.hunks :
     src.diff /\ src.index /\ h[1] <= at /\ at + Len(anchor) - 1 <= h[2]}

Hint == [side : {"none", "head", "old"}, line : Nat, quoted : BOOLEAN]

Reasons == {"deleted_side", "invalid_anchor", "unreadable_source", "ambiguous_presentation",
            "claimed", "context_map", "unique", "unique_hunk", "not_found", "ambiguous"}

(* Elements of sequences, and the least of a set of naturals.              *)
LEMMA Items ==
  ASSUME NEW S, NEW s \in Seq(S)
  PROVE  Len(s) \in Nat /\ DOMAIN s = 1..Len(s) /\ \A i \in DOMAIN s : s[i] \in S
OBVIOUS

LEMMA FirstOf ==
  ASSUME NEW T \in SUBSET Nat, T # {}
  PROVE  \E x \in T : \A y \in T : x <= y
<1>1. IsWellFoundedOn(OpToRel(<, Nat), Nat)
  BY NatLessThanWellFounded
<1>2. PICK x \in T : \A y \in T : ~ (<<y, x>> \in OpToRel(<, Nat))
  BY <1>1, WFMin, Zenon
<1>3. \A y \in T : ~(y < x)
  BY <1>2 DEF OpToRel
<1>4. \A y \in T : y \in Nat /\ x \in Nat
  BY <1>2
<1>5. \A y \in T : x <= y
  BY <1>3, <1>4
<1> QED BY <1>2, <1>5

(* A reading is as long as the quote, and a site is a line of the file.    *)
LEMMA ReadingsAre ==
  ASSUME NEW anchor \in Seq(Line)
  PROVE  \A q \in Readings(anchor) : q \in Seq(Line) /\ Len(q) = Len(anchor)
<1>1. Peeled(anchor) \in Seq(Line) /\ Len(Peeled(anchor)) = Len(anchor)
  <2> DEFINE p == Peeled(anchor)
             n == Len(anchor)
  <2>1. n \in Nat /\ DOMAIN anchor = 1..n /\ \A i \in 1..n : anchor[i] \in Line
    BY Items
  <2>2. p = [i \in 1..n |-> p[i]]
    BY <2>1, Zenon DEF Peeled
  <2>3. \A i \in 1..n : p[i] \in Line
    BY <2>1 DEF Peeled, Line, Mark
  <2> HIDE DEF p, n
  <2>4. p \in [1..n -> Line]
    BY <2>2, <2>3, Zenon
  <2>5. p \in Seq(Line) /\ Len(p) = n
    BY <2>1, <2>4
  <2> QED BY <2>5 DEF p, n
<1> QED BY <1>1 DEF Readings

LEMMA PlacesAre ==
  ASSUME NEW anchor \in Seq(Line), NEW lines \in Seq(Line)
  PROVE  /\ IsFiniteSet(PlacesIn(anchor, lines)) /\ IsFiniteSet(SitesIn(anchor, lines))
         /\ SitesIn(anchor, lines) \subseteq 1..Len(lines) /\ Len(lines) \in Nat
         /\ \A q \in Quotes(anchor) : \A at \in Starts(q, lines) : at \in SitesIn(anchor, lines)
         /\ SitesIn(anchor, lines) # {} => Len(anchor) \in Nat \ {0}
<1>1. Len(lines) \in Nat /\ DOMAIN lines = 1..Len(lines)
  BY Items
<1>2. \A q : Starts(q, lines) \subseteq 1..Len(lines)
  BY <1>1 DEF Starts
<1>3. SitesIn(anchor, lines) \subseteq 1..Len(lines)
  BY <1>2 DEF SitesIn, PlacesIn
<1>4. IsFiniteSet(SitesIn(anchor, lines))
  <2>1. IsFiniteSet(1..Len(lines))
    BY <1>1, FS_Interval
  <2> QED BY <1>3, <2>1, FS_Subset
<1>5. IsFiniteSet(PlacesIn(anchor, lines))
  <2> DEFINE a == Starts(anchor, lines)
             b == Starts(Peeled(anchor), lines)
  <2>1. PlacesIn(anchor, lines) \subseteq {a} \cup {b}
    BY DEF PlacesIn, Quotes, Readings
  <2>2. IsFiniteSet({a} \cup {b})
    BY FS_Singleton, FS_AddElement, Zenon
  <2> QED BY <2>1, <2>2, FS_Subset, Zenon
<1>6. \A q \in Quotes(anchor) : \A at \in Starts(q, lines) : at \in SitesIn(anchor, lines)
  BY DEF SitesIn, PlacesIn
<1>7. SitesIn(anchor, lines) # {} => Len(anchor) \in Nat \ {0}
  <2>1. \A q \in Quotes(anchor) : Len(q) = Len(anchor) /\ Len(q) \in 1..MaxLines
    BY ReadingsAre DEF Quotes, Quotable
  <2>2. \A q \in Quotes(anchor) : Len(anchor) \in Nat \ {0}
    BY <2>1, LimitAssumption
  <2> QED BY <2>2 DEF SitesIn, PlacesIn
<1> QED BY <1>1, <1>3, <1>4, <1>5, <1>6, <1>7

LEMMA OnlyOf ==
  ASSUME NEW S, IsFiniteSet(S), Cardinality(S) = 1
  PROVE  Only(S) \in S /\ \A x \in S : x = Only(S)
<1>1. PICK x : S = {x}
  BY FS_Singleton
<1> QED BY <1>1 DEF Only

(* One site in all is one presentation; one presentation is agreement.     *)
LEMMA OnePresentation ==
  ASSUME NEW anchor \in Seq(Line), NEW lines \in Seq(Line)
  PROVE  /\ Cardinality(SitesIn(anchor, lines)) = 1 => ~(Cardinality(PlacesIn(anchor, lines)) > 1)
         /\ ~(Cardinality(PlacesIn(anchor, lines)) > 1) =>
              \A S, T \in PlacesIn(anchor, lines) : S = T
<1> DEFINE P == PlacesIn(anchor, lines)
           U == SitesIn(anchor, lines)
<1>1. IsFiniteSet(P) /\ IsFiniteSet(U)
  BY PlacesAre
<1>2. U = UNION P /\ {} \notin P
  BY DEF SitesIn, PlacesIn
<1> HIDE DEF P, U
<1>3. ASSUME Cardinality(U) = 1 PROVE ~(Cardinality(P) > 1)
  <2>1. PICK x : U = {x}
    BY <1>1, <1>3, FS_Singleton
  <2>2. P \subseteq {{x}}
    <3>1. ASSUME NEW S \in P PROVE S = {x}
      <4>1. S \subseteq {x} /\ S # {}
        BY <1>2, <2>1
      <4> QED BY <4>1
    <3> QED BY <3>1
  <2>3. IsFiniteSet({{x}}) /\ Cardinality({{x}}) = 1
    BY FS_Singleton
  <2>4. Cardinality(P) <= 1 /\ Cardinality(P) \in Nat
    BY <1>1, <2>2, <2>3, FS_Subset, FS_CardinalityType
  <2> QED BY <2>4
<1>4. ASSUME ~(Cardinality(P) > 1), NEW S \in P, NEW T \in P PROVE S = T
  <2>1. SUFFICES ASSUME S # T PROVE FALSE
    OBVIOUS
  <2> DEFINE one == {S}
             both == one \cup {T}
  <2>2. IsFiniteSet(one) /\ Cardinality(one) = 1 /\ T \notin one
    BY <2>1, FS_Singleton
  <2>3. both \in SUBSET P
    OBVIOUS
  <2> HIDE DEF one
  <2>4. Cardinality(both) = Cardinality(one) + 1
    BY <2>2, FS_AddElement
  <2> HIDE DEF both
  <2>5. Cardinality(both) <= Cardinality(P) /\ Cardinality(P) \in Nat
    BY <1>1, <2>3, FS_Subset, FS_CardinalityType
  <2> QED BY <1>4, <2>2, <2>4, <2>5
<1> QED BY <1>3, <1>4 DEF P, U
-----------------------------------------------------------------------------
(* The ruling that is given is the first that applies.                     *)
RulingList(r, src) ==
  << Refusal(OfOldSide(r.anchor), "deleted_side"),
     Refusal(Quotes(r.anchor) = {}, "invalid_anchor"),
     Refusal(~src.readable, "unreadable_source"),
     Refusal(Cardinality(PlacesIn(r.anchor, src.lines)) > 1, "ambiguous_presentation"),
     Refusal(r.hint.side = "old" /\ r.hint.quoted, "deleted_side"),
     Ruling(r.start \in SitesIn(r.anchor, src.lines) /\
              (Cardinality(SitesIn(r.anchor, src.lines)) = 1 \/ r.hint.side = "none"),
            r.start, "confirmed", "claimed"),
     Ruling(r.hint.side = "head" /\ r.hint.line \in SitesIn(r.anchor, src.lines),
            r.hint.line, "relocated", "context_map"),
     Ruling(r.start \in SitesIn(r.anchor, src.lines), r.start, "confirmed", "claimed"),
     Ruling(Cardinality(SitesIn(r.anchor, src.lines)) = 1, Only(SitesIn(r.anchor, src.lines)),
            "relocated", "unique"),
     Ruling(Cardinality(InsideOf(r.anchor, src)) = 1, Only(InsideOf(r.anchor, src)),
            "relocated", "unique_hunk"),
     Refusal(TRUE, IF SitesIn(r.anchor, src.lines) = {} THEN "not_found" ELSE "ambiguous") >>

LEMMA RulingsAre == ASSUME NEW r, NEW src PROVE Rulings(r, src) = RulingList(r, src)
BY DEF Rulings, RulingList, Quotes, PlacesIn, SitesIn, InsideOf

LEMMA FirstApplies ==
  ASSUME NEW r, NEW src
  PROVE  \E k \in 1..11 :
           /\ RulingList(r, src)[k].applies
           /\ \A j \in 1..11 : RulingList(r, src)[j].applies => k <= j
           /\ Resolve(r, src) =
                [status |-> RulingList(r, src)[k].status, reason |-> RulingList(r, src)[k].reason,
                 start |-> RulingList(r, src)[k].at,
                 end |-> IF RulingList(r, src)[k].at = 0 THEN 0
                         ELSE RulingList(r, src)[k].at + Len(r.anchor) - 1]
<1> DEFINE L == RulingList(r, src)
           I == {i \in 1..Len(L) : L[i].applies}
<1>1. Len(L) = 11 /\ L[11].applies
  BY DEF RulingList, Refusal, Ruling
<1>2. Rulings(r, src) = L
  BY RulingsAre
<1> DEFINE K == SelectInSeq(L, LAMBDA x : x.applies)
<1>3. K = IF I # {} THEN Min(I) ELSE 0
  BY DEF SelectInSeq
<1>4. Resolve(r, src) = [status |-> L[K].status, reason |-> L[K].reason, start |-> L[K].at,
                         end |-> IF L[K].at = 0 THEN 0 ELSE L[K].at + Len(r.anchor) - 1]
  BY <1>2 DEF Resolve
<1> HIDE DEF L, K
<1>5. I \in SUBSET Nat /\ I # {}
  BY <1>1
<1>6. PICK k \in I : \A j \in I : k <= j
  BY <1>5, FirstOf
<1>7. Min(I) \in I /\ \A j \in I : Min(I) <= j
  BY <1>6 DEF Min
<1>8. K \in 1..11 /\ L[K].applies /\ \A j \in 1..11 : L[j].applies => K <= j
  BY <1>1, <1>3, <1>5, <1>7
<1> QED BY <1>4, <1>8 DEF L

(* What a resolved location tells of a quote, a claim and a file.          *)
Earned(r, src, place) ==
  LET at == place.start
      sites == SitesIn(r.anchor, src.lines)
      clear == src.readable /\ ~OfOldSide(r.anchor) /\ ~(r.hint.side = "old" /\ r.hint.quoted)
  IN /\ place.status # "unconfirmed" <=> at # 0
     /\ place.status # "unconfirmed" =>
          clear /\ at \in sites /\ place.end = at + Len(r.anchor) - 1
     /\ clear /\ Cardinality(sites) = 1 => at \in sites
     /\ place.status = "confirmed" => at = r.start
     /\ place.status # "unconfirmed" /\ Cardinality(sites) > 1 =>
          /\ \A S, T \in PlacesIn(r.anchor, src.lines) : S = T
          /\ r.hint.side = "head" /\ r.hint.line \in sites => at = r.hint.line
          /\ at \in {r.start, r.hint.line} \/ \E h \in src.hunks : at \in h[1]..h[2]

LEMMA ResolveEarns ==
  ASSUME NEW r, NEW src \in SourceSpace, r.anchor \in Seq(Line)
  PROVE  /\ Earned(r, src, Resolve(r, src))
         /\ Resolve(r, src).status \in {"confirmed", "relocated", "unconfirmed"}
         /\ Resolve(r, src).start \in Nat /\ Resolve(r, src).end \in Nat
         /\ Resolve(r, src).reason \in Reasons
         /\ Resolve(r, src) = [status |-> Resolve(r, src).status, reason |-> Resolve(r, src).reason,
                               start |-> Resolve(r, src).start, end |-> Resolve(r, src).end]
<1> DEFINE n == Len(r.anchor)
           sites == SitesIn(r.anchor, src.lines)
           P == PlacesIn(r.anchor, src.lines)
           inside == InsideOf(r.anchor, src)
           old == OfOldSide(r.anchor)
           L == RulingList(r, src)
           p == Resolve(r, src)
           Q == Quotes(r.anchor)
<1>1. src.lines \in Seq(Line) /\ src.hunks \in SUBSET (Nat \X Nat)
  BY DEF SourceSpace
<1>2. /\ IsFiniteSet(sites) /\ sites \subseteq 1..Len(src.lines) /\ Len(src.lines) \in Nat
      /\ sites # {} => n \in Nat \ {0}
      /\ Q = {} => sites = {}
  BY <1>1, PlacesAre DEF SitesIn, PlacesIn
<1>3. /\ Cardinality(sites) = 1 => ~(Cardinality(P) > 1)
      /\ ~(Cardinality(P) > 1) => \A S, T \in P : S = T
  BY <1>1, OnePresentation
<1>4. Cardinality(sites) = 1 => Only(sites) \in sites /\ \A x \in sites : x = Only(sites)
  BY <1>2, OnlyOf
<1>5. Cardinality(inside) = 1 =>
        Only(inside) \in sites /\ \E h \in src.hunks : Only(inside) \in h[1]..h[2]
  <2>1. inside \subseteq sites
    BY DEF InsideOf
  <2>2. IsFiniteSet(inside)
    BY <1>2, <2>1, FS_Subset
  <2>3. ASSUME Cardinality(inside) = 1
        PROVE  Only(inside) \in sites /\ \E h \in src.hunks : Only(inside) \in h[1]..h[2]
    <3>1. Only(inside) \in inside
      BY <2>2, <2>3, OnlyOf
    <3>2. PICK h \in src.hunks : h[1] <= Only(inside) /\ Only(inside) + n - 1 <= h[2]
      BY <3>1 DEF InsideOf
    <3>3. Only(inside) \in Nat /\ n \in Nat \ {0} /\ h[1] \in Nat /\ h[2] \in Nat
      BY <1>1, <1>2, <2>1, <3>1
    <3>4. Only(inside) \in h[1]..h[2]
      BY <3>2, <3>3
    <3> QED BY <2>1, <3>1, <3>4
  <2> QED BY <2>3
<1>6. PICK k \in 1..11 :
        /\ L[k].applies
        /\ \A j \in 1..11 : L[j].applies => k <= j
        /\ p = [status |-> L[k].status, reason |-> L[k].reason, start |-> L[k].at,
                end |-> IF L[k].at = 0 THEN 0 ELSE L[k].at + n - 1]
  BY FirstApplies
<1>7. /\ L[1].applies = old /\ L[2].applies = (Q = {}) /\ L[3].applies = ~src.readable
      /\ L[4].applies = (Cardinality(P) > 1)
      /\ L[5].applies = (r.hint.side = "old" /\ r.hint.quoted)
      /\ L[6].applies = (r.start \in sites /\ (Cardinality(sites) = 1 \/ r.hint.side = "none"))
      /\ L[7].applies = (r.hint.side = "head" /\ r.hint.line \in sites)
      /\ L[8].applies = (r.start \in sites) /\ L[9].applies = (Cardinality(sites) = 1)
      /\ L[10].applies = (Cardinality(inside) = 1)
  BY DEF RulingList, Ruling, Refusal
<1>8. /\ \A j \in {1, 2, 3, 4, 5, 11} : L[j].status = "unconfirmed" /\ L[j].at = 0
      /\ L[6].status = "confirmed" /\ L[6].at = r.start
      /\ L[7].status = "relocated" /\ L[7].at = r.hint.line
      /\ L[8].status = "confirmed" /\ L[8].at = r.start
      /\ L[9].status = "relocated" /\ L[9].at = Only(sites)
      /\ L[10].status = "relocated" /\ L[10].at = Only(inside)
  BY DEF RulingList, Ruling, Refusal
<1>11. p.reason \in Reasons
  <2>1. \A j \in 1..11 : L[j].reason \in Reasons
    BY DEF RulingList, Ruling, Refusal, Reasons
  <2> QED BY <1>6, <2>1
<1>12. p = [status |-> p.status, reason |-> p.reason, start |-> p.start, end |-> p.end]
  BY <1>6
<1>9. p.status = L[k].status /\ p.start = L[k].at
      /\ p.end = IF L[k].at = 0 THEN 0 ELSE L[k].at + n - 1
  BY <1>6
<1> HIDE DEF n, sites, P, inside, old, L, p, Q
<1>10. Earned(r, src, p) /\ p.status \in {"confirmed", "relocated", "unconfirmed"}
       /\ p.start \in Nat /\ p.end \in Nat
  <2>1. CASE k \in {1, 2, 3, 4, 5, 11}
    <3>1. p.status = "unconfirmed" /\ p.start = 0 /\ p.end = 0
      BY <1>8, <1>9, <2>1
    <3>2. ~(/\ src.readable /\ ~old /\ ~(r.hint.side = "old" /\ r.hint.quoted)
            /\ Cardinality(sites) = 1)
      <4>1. SUFFICES ASSUME src.readable, ~old, ~(r.hint.side = "old" /\ r.hint.quoted),
                            Cardinality(sites) = 1
                     PROVE  FALSE
        OBVIOUS
      <4>2. sites # {}
        BY <1>4, <4>1
      <4>3. ~L[1].applies /\ ~L[2].applies /\ ~L[3].applies /\ ~L[4].applies /\ ~L[5].applies
            /\ L[9].applies
        BY <1>2, <1>3, <1>7, <4>1, <4>2
      <4>4. k # 11
        BY <1>6, <4>3
      <4> QED BY <1>6, <2>1, <4>3, <4>4
    <3> QED BY <3>1, <3>2 DEF Earned, sites, old
  <2>2. CASE k \in 6..10
    <3>1. /\ ~old /\ src.readable /\ ~(Cardinality(P) > 1)
          /\ ~(r.hint.side = "old" /\ r.hint.quoted)
      <4>1. \A j \in 1..5 : ~L[j].applies
        BY <1>6, <2>2
      <4>2. ~L[1].applies /\ ~L[3].applies /\ ~L[4].applies /\ ~L[5].applies
        BY <4>1
      <4> QED BY <1>7, <4>2, Zenon
    <3>2. p.start \in sites /\ p.status \in {"confirmed", "relocated"}
      <4>a. L[k].applies /\ p.status = L[k].status /\ p.start = L[k].at
        BY <1>6, <1>9
      <4>1. CASE k = 6
        BY <1>7, <1>8, <4>1, <4>a
      <4>2. CASE k = 7
        BY <1>7, <1>8, <4>2, <4>a
      <4>3. CASE k = 8
        BY <1>7, <1>8, <4>3, <4>a
      <4>4. CASE k = 9
        <5>1. Cardinality(sites) = 1
          BY <1>7, <4>4, <4>a
        <5>2. p.start = Only(sites) /\ p.status = "relocated"
          BY <1>8, <4>4, <4>a
        <5> QED BY <1>4, <5>1, <5>2
      <4>5. CASE k = 10
        <5>1. Cardinality(inside) = 1
          BY <1>7, <4>5, <4>a
        <5>2. p.start = Only(inside) /\ p.status = "relocated"
          BY <1>8, <4>5, <4>a
        <5> QED BY <1>5, <5>1, <5>2
      <4> QED BY <2>2, <4>1, <4>2, <4>3, <4>4, <4>5
    <3>3. p.start \in Nat \ {0} /\ n \in Nat \ {0}
      <4>1. p.start \in 1..Len(src.lines) /\ sites # {}
        BY <1>2, <3>2
      <4> QED BY <1>2, <4>1
    <3>4. p.end = p.start + n - 1 /\ p.end \in Nat
      BY <1>9, <3>3
    <3>5. p.status = "confirmed" => p.start = r.start
      <4>1. k \in {6, 8} => p.start = r.start
        BY <1>8, <1>9
      <4>2. k \in {7, 9, 10} => p.status = "relocated"
        BY <1>8, <1>9
      <4>3. k \in {6, 8} \/ k \in {7, 9, 10}
        BY <2>2
      <4> QED BY <4>1, <4>2, <4>3
    <3>6. ASSUME Cardinality(sites) > 1
          PROVE  /\ \A S, T \in P : S = T
                 /\ r.hint.side = "head" /\ r.hint.line \in sites => p.start = r.hint.line
                 /\ p.start \in {r.start, r.hint.line} \/ \E h \in src.hunks : p.start \in h[1]..h[2]
      <4>1. Cardinality(sites) # 1
        BY <3>6
      <4>2. k # 9
        BY <1>6, <1>7, <4>1
      <4>3. r.hint.side = "head" /\ r.hint.line \in sites => k = 7
        <5>1. SUFFICES ASSUME r.hint.side = "head", r.hint.line \in sites PROVE k = 7
          OBVIOUS
        <5>2. L[7].applies /\ ~L[6].applies
          BY <1>7, <4>1, <5>1
        <5>3. k # 6 /\ k <= 7
          BY <1>6, <5>2
        <5> QED BY <2>2, <5>3
      <4>4. p.start \in {r.start, r.hint.line} \/ \E h \in src.hunks : p.start \in h[1]..h[2]
        <5>1. k # 10 => p.start \in {r.start, r.hint.line}
          BY <1>8, <1>9, <2>2, <4>2
        <5>2. ASSUME k = 10 PROVE \E h \in src.hunks : p.start \in h[1]..h[2]
          <6>1. L[10].applies /\ p.start = L[10].at
            BY <1>6, <1>9, <5>2
          <6>2. Cardinality(inside) = 1 /\ p.start = Only(inside)
            BY <1>7, <1>8, <6>1
          <6> QED BY <1>5, <6>2
        <5> QED BY <5>1, <5>2
      <4>5. r.hint.side = "head" /\ r.hint.line \in sites => p.start = r.hint.line
        BY <1>8, <1>9, <4>3
      <4> QED BY <1>3, <3>1, <4>4, <4>5
    <3> QED BY <3>1, <3>2, <3>3, <3>4, <3>5, <3>6 DEF Earned, sites, old, P, n
  <2> QED BY <2>1, <2>2
<1> QED BY <1>10, <1>11, <1>12 DEF p
-----------------------------------------------------------------------------
Classes == {"new", "pre_existing", "surfaced", "unknown"}
Whys == {"unavailable", "git_blame", "removed_loss", "cross_file_refs", "local_diff", "off_diff"}
PlaceSpace == [status : {"confirmed", "relocated", "unconfirmed"}, reason : Reasons,
               start : Nat, end : Nat]
FactSpace == [anchor : Seq(Line), removed : BOOLEAN, cross : BOOLEAN, severity : 0..3,
              confidence : Int, symbols : BOOLEAN, origin : {"new", "surfaced"},
              class : Classes, why : Whys, inDiff : {"unknown", "yes", "no"}, place : PlaceSpace]

LocTypes ==
  /\ file \in SourceSpace /\ slice \in Seq(RequestSpace)
  /\ step \in {"locate", "factual", "range", "verified"} /\ turn \in 1..Len(slice)
  /\ commits \in {"unasked", "known", "failed"}
  /\ facts \in [DOMAIN slice -> FactSpace]

(* Where a finding stands: not yet located, located, compared with the     *)
(* diff.                                                                   *)
Placed(i) == step # "locate" \/ i < turn
Compared(i) == step = "verified" \/ (step = "range" /\ i < turn)

(* Blame alone may have surfaced it so far.                                *)
BlamedOnce(r, fact) ==
  /\ fact.severity = IF fact.origin = "surfaced" THEN Lower(r.severity) ELSE r.severity
  /\ fact.origin = "surfaced" <=> fact.class \in {"pre_existing", "surfaced"}
  /\ r.removed => fact.origin = "new"
  /\ fact.inDiff = "unknown"

Stands(i) ==
  /\ facts[i].removed = slice[i].removed
  /\ ~Placed(i) => facts[i] = Given(slice[i])
  /\ Placed(i) => PlaceIsEarned(slice[i], facts[i])
  /\ Placed(i) /\ ~Compared(i) => BlamedOnce(slice[i], facts[i])
  /\ Compared(i) => SurfacedOnce(slice[i], facts[i])

LocInv ==
  /\ LocTypes
  /\ \A i \in DOMAIN slice : Stands(i)

(* The quote that is searched for, the reviewer's or the shortest loss.    *)
LEMMA QuotedIs ==
  ASSUME NEW r \in RequestSpace, NEW src \in SourceSpace
  PROVE  /\ Quoted(r, src).anchor \in Seq(Line) /\ Quoted(r, src).start = r.start
         /\ Quoted(r, src).hint = r.hint
<1> DEFINE runs == IF r.anchor = <<>> /\ r.removed /\ src.readable /\ r.start \in DOMAIN src.lines
                   THEN LossQuotes(r, src) ELSE {}
           best == CHOOSE q \in runs : \A p \in runs : Len(q) <= Len(p)
<1>1. r.anchor \in Seq(Line) /\ src.lines \in Seq(Line)
  BY DEF RequestSpace, SourceSpace
<1>2. Quoted(r, src) = IF runs = {} THEN r ELSE [r EXCEPT !.anchor = best]
  BY DEF Quoted
<1>3. runs \subseteq Seq(Line)
  <2>1. SUFFICES ASSUME r.start \in DOMAIN src.lines PROVE LossQuotes(r, src) \subseteq Seq(Line)
    OBVIOUS
  <2>2. SUFFICES ASSUME NEW e \in r.start..(r.start + MaxLines - 1), e <= Len(src.lines)
                 PROVE  SubSeq(src.lines, r.start, e) \in Seq(Line)
    BY DEF LossQuotes
  <2>3. r.start \in 1..Len(src.lines) /\ Len(src.lines) \in Nat
    BY <1>1, <2>1, Items
  <2>4. e \in 1..Len(src.lines) /\ r.start <= e
    BY <2>2, <2>3, LimitAssumption
  <2> QED BY <1>1, <2>3, <2>4
<1> HIDE DEF runs
<1>4. runs # {} => best \in runs
  <2>1. SUFFICES ASSUME runs # {} PROVE best \in runs
    OBVIOUS
  <2> DEFINE D == {Len(q) : q \in runs}
  <2>2. D \in SUBSET Nat /\ D # {}
    <3>1. \A q \in runs : Len(q) \in Nat
      BY <1>3, Items
    <3> QED BY <2>1, <3>1
  <2>3. PICK x \in D : \A y \in D : x <= y
    BY <2>2, FirstOf
  <2>4. PICK q \in runs : x = Len(q)
    BY <2>3
  <2>5. \A p \in runs : Len(q) <= Len(p)
    BY <2>3, <2>4
  <2> QED BY <2>5
<1> HIDE DEF best
<1>5. runs # {} => best \in Seq(Line)
  BY <1>3, <1>4
<1> QED BY <1>1, <1>2, <1>5 DEF RequestSpace

LEMMA StampIs ==
  ASSUME NEW fact \in FactSpace, NEW class \in Classes, NEW why \in Whys
  PROVE  LET f == Stamp(fact, class, why) IN
         /\ f \in FactSpace /\ f.class = class /\ f.removed = fact.removed
         /\ f.anchor = fact.anchor /\ f.place = fact.place /\ f.inDiff = fact.inDiff
         /\ f.origin = (IF class \in {"pre_existing", "surfaced"} THEN "surfaced" ELSE "new")
         /\ f.severity = (IF class \in {"pre_existing", "surfaced"} THEN Lower(fact.severity)
                          ELSE fact.severity)
<1> DEFINE s == IF class \in {"pre_existing", "surfaced"} THEN Lower(fact.severity) ELSE fact.severity
           o == IF class \in {"pre_existing", "surfaced"} THEN "surfaced" ELSE "new"
<1>1. s \in 0..3 /\ o \in {"new", "surfaced"}
  BY DEF Lower, FactSpace
<1>2. Stamp(fact, class, why) =
        [fact EXCEPT !.class = class, !.why = why, !.origin = o, !.severity = s]
  BY DEF Stamp, FactSpace
<1> HIDE DEF s, o
<1>3. LET f == Stamp(fact, class, why) IN
      /\ f \in FactSpace /\ f.class = class /\ f.removed = fact.removed
      /\ f.anchor = fact.anchor /\ f.place = fact.place /\ f.inDiff = fact.inDiff
      /\ f.origin = o /\ f.severity = s
  BY <1>1, <1>2 DEF FactSpace
<1> QED BY <1>3 DEF s, o

(* Blame ends in a stamp, and never surfaces what is about lost tests.     *)
LEMMA ClassifyStamps ==
  ASSUME NEW i \in DOMAIN facts, NEW fact, commits \in {"unasked", "known", "failed"},
         Classify(i, fact)
  PROVE  /\ commits' \in {"unasked", "known", "failed"}
         /\ \E class \in Classes, why \in Whys :
              /\ fact.removed => class = "new"
              /\ facts' = [facts EXCEPT ![i] = Stamp(fact, class, why)]
<1>1. \A f \in Plain(fact) : \E class \in Classes, why \in Whys :
        f = Stamp(fact, class, why) /\ (fact.removed => class = "new")
  BY DEF Plain, Classes, Whys
<1>2. \A log, f : f \in Blamed(fact, log) =>
        \E class \in Classes, why \in Whys : f = Stamp(fact, class, why)
  BY DEF Blamed, Classes, Whys
<1>3. Plain(fact) = {} => ~fact.removed
  BY DEF Plain
<1>4. CASE (\E f \in Plain(fact) : facts' = [facts EXCEPT ![i] = f]) /\ UNCHANGED commits
  <2>1. PICK f \in Plain(fact) : facts' = [facts EXCEPT ![i] = f]
    BY <1>4
  <2>2. PICK class \in Classes, why \in Whys :
          f = Stamp(fact, class, why) /\ (fact.removed => class = "new")
    BY <1>1
  <2> QED BY <1>4, <2>1, <2>2
<1>5. CASE Plain(fact) = {} /\ \E log \in Commits :
             commits' = log /\ \E f \in Blamed(fact, log) : facts' = [facts EXCEPT ![i] = f]
  <2>1. PICK log \in Commits :
          commits' = log /\ \E f \in Blamed(fact, log) : facts' = [facts EXCEPT ![i] = f]
    BY <1>5
  <2>2. log \in {"unasked", "known", "failed"}
    BY <2>1 DEF Commits
  <2>3. PICK f \in Blamed(fact, log) : facts' = [facts EXCEPT ![i] = f]
    BY <2>1
  <2>4. PICK class \in Classes, why \in Whys : f = Stamp(fact, class, why)
    BY <1>2
  <2> QED BY <1>3, <1>5, <2>1, <2>2, <2>3, <2>4
<1> QED BY <1>4, <1>5 DEF Classify

(* A place is earned by quote, claim and file alone.                       *)
LEMMA PlaceStays ==
  ASSUME NEW i, slice'[i] = slice[i], UNCHANGED file, facts'[i].anchor = facts[i].anchor,
         facts'[i].place = facts[i].place, PlaceIsEarned(slice[i], facts[i])
  PROVE  PlaceIsEarned(slice[i], facts[i])'
BY DEF PlaceIsEarned, Sites, Located

LEMMA FactStays ==
  ASSUME NEW i \in DOMAIN slice, Stands(i), UNCHANGED <<file, slice>>, facts'[i] = facts[i],
         Placed(i)' <=> Placed(i), Compared(i)' <=> Compared(i)
  PROVE  Stands(i)'
<1>1. slice'[i] = slice[i]
  OBVIOUS
<1>2. PlaceIsEarned(slice[i], facts[i]) => PlaceIsEarned(slice[i], facts[i])'
  BY <1>1, PlaceStays
<1>3. BlamedOnce(slice[i], facts[i]) => BlamedOnce(slice[i], facts[i])'
  BY <1>1 DEF BlamedOnce
<1>4. SurfacedOnce(slice[i], facts[i]) => SurfacedOnce(slice[i], facts[i])'
  BY <1>1 DEF SurfacedOnce, Located, Span, ShownLines
<1>5. facts[i] = Given(slice[i]) => facts'[i] = Given(slice'[i])
  BY <1>1
<1> QED BY <1>1, <1>2, <1>3, <1>4, <1>5 DEF Stands

(* The turn passes on, and with it where a finding stands.                 *)
LEMMA AdvanceIs ==
  ASSUME LocTypes, NEW next, Advance(next), UNCHANGED slice
  PROVE  /\ turn' \in 1..Len(slice')
         /\ \/ step' = step /\ turn' = turn + 1
            \/ step' = next /\ turn' = 1 /\ \A i \in DOMAIN slice : i <= turn
<1>1. Len(slice) \in Nat /\ DOMAIN slice = 1..Len(slice) /\ turn \in 1..Len(slice)
  BY Items DEF LocTypes
<1> QED BY <1>1 DEF Advance

LEMMA EarnedIsEarned ==
  ASSUME NEW i, NEW q, q.start = slice'[i].start, q.hint = slice'[i].hint,
         facts'[i].anchor = q.anchor, Earned(q, file', facts'[i].place)
  PROVE  PlaceIsEarned(slice[i], facts[i])'
<1>1. Sites(facts[i])' = SitesIn(facts'[i].anchor, file'.lines)
  BY DEF Sites, SitesIn, PlacesIn, Quotes
<1>2. ASSUME \A S, T \in PlacesIn(facts'[i].anchor, file'.lines) : S = T,
             NEW p \in Readings(facts'[i].anchor), NEW u \in Readings(facts'[i].anchor),
             Quotable(p), Quotable(u),
             Starts(p, file'.lines) # {}, Starts(u, file'.lines) # {}
      PROVE  Starts(p, file'.lines) = Starts(u, file'.lines)
  BY <1>2 DEF PlacesIn, Quotes
<1> QED BY <1>1, <1>2 DEF Earned, PlaceIsEarned, Located

LEMMA LocateKeeps == ASSUME LocInv, Locate PROVE LocInv'
<1> DEFINE r == Quoted(slice[turn], file)
           p == Resolve(r, file)
           f == [facts[turn] EXCEPT !.anchor = r.anchor, !.place = p]
<1>1. /\ LocTypes /\ step = "locate" /\ UNCHANGED <<file, slice>> /\ Classify(turn, f)
      /\ Advance("factual")
  BY DEF LocInv, Locate
<1>2. /\ Len(slice) \in Nat /\ DOMAIN slice = 1..Len(slice) /\ turn \in DOMAIN slice
      /\ slice[turn] \in RequestSpace /\ DOMAIN facts = DOMAIN slice
      /\ \A i \in DOMAIN slice : facts[i] \in FactSpace
  BY <1>1, Items DEF LocTypes
<1>3. r.anchor \in Seq(Line) /\ r.start = slice[turn].start /\ r.hint = slice[turn].hint
  BY <1>1, <1>2, QuotedIs DEF LocTypes
<1>4. Earned(r, file, p) /\ p \in PlaceSpace
  <2>1. /\ Earned(r, file, p) /\ p.status \in {"confirmed", "relocated", "unconfirmed"}
        /\ p.start \in Nat /\ p.end \in Nat /\ p.reason \in Reasons
        /\ p = [status |-> p.status, reason |-> p.reason, start |-> p.start, end |-> p.end]
    BY <1>1, <1>3, ResolveEarns DEF LocTypes
  <2> HIDE DEF p
  <2> QED BY <2>1 DEF PlaceSpace
<1>5. facts[turn] = Given(slice[turn])
  BY <1>1, <1>2 DEF LocInv, Stands, Placed
<1>6. /\ f \in FactSpace /\ f.anchor = r.anchor /\ f.place = p
      /\ f.removed = slice[turn].removed /\ f.severity = slice[turn].severity
      /\ f.inDiff = "unknown"
  <2>1. /\ facts[turn].removed = slice[turn].removed
        /\ facts[turn].severity = slice[turn].severity /\ facts[turn].inDiff = "unknown"
    BY <1>5 DEF Given
  <2> HIDE DEF r, p
  <2> QED BY <1>2, <1>3, <1>4, <2>1 DEF FactSpace
<1> HIDE DEF f, r, p
<1>8. commits' \in {"unasked", "known", "failed"} /\ \E class \in Classes, why \in Whys :
        /\ f.removed => class = "new"
        /\ facts' = [facts EXCEPT ![turn] = Stamp(f, class, why)]
  BY <1>1, <1>2, ClassifyStamps DEF LocTypes
<1>9. PICK class \in Classes, why \in Whys :
        /\ f.removed => class = "new"
        /\ facts' = [facts EXCEPT ![turn] = Stamp(f, class, why)]
  BY <1>8
<1> DEFINE g == Stamp(f, class, why)
<1>10. /\ g \in FactSpace /\ g.class = class /\ g.removed = f.removed
       /\ g.anchor = f.anchor /\ g.place = f.place /\ g.inDiff = f.inDiff
       /\ g.origin = (IF class \in {"pre_existing", "surfaced"} THEN "surfaced" ELSE "new")
       /\ g.severity = (IF class \in {"pre_existing", "surfaced"} THEN Lower(f.severity)
                        ELSE f.severity)
  BY <1>6, StampIs
<1>11. facts' = [facts EXCEPT ![turn] = g]
  BY <1>9
<1> HIDE DEF g
<1>12. /\ facts' \in [DOMAIN slice -> FactSpace] /\ facts'[turn] = g
       /\ \A i \in DOMAIN slice : i # turn => facts'[i] = facts[i]
  BY <1>1, <1>2, <1>10, <1>11 DEF LocTypes
<1>13. /\ turn' \in 1..Len(slice')
       /\ \/ step' = step /\ turn' = turn + 1
          \/ step' = "factual" /\ turn' = 1 /\ \A i \in DOMAIN slice : i <= turn
  BY <1>1, AdvanceIs
<1>14. LocTypes'
  BY <1>1, <1>8, <1>12, <1>13 DEF LocTypes
<1>15. slice'[turn] = slice[turn] /\ file' = file
  BY <1>1
<1>17. ASSUME NEW i \in DOMAIN slice PROVE Stands(i)'
  <2>1. i \in Nat /\ turn \in Nat /\ step' \in {"locate", "factual"}
    BY <1>1, <1>2, <1>13
  <2>2. Placed(i)' <=> Placed(i) \/ i = turn
    BY <1>1, <1>2, <1>13, <2>1 DEF Placed
  <2>3. ~Compared(i) /\ ~Compared(i)'
    BY <1>1, <2>1 DEF Compared
  <2>4. CASE i = turn
    <3>1. facts'[i] = g /\ slice'[i] = slice[turn] /\ g.removed = slice[turn].removed
      BY <1>6, <1>10, <1>12, <1>15, <2>4
    <3>2. BlamedOnce(slice[i], facts[i])'
      BY <1>6, <1>9, <1>10, <3>1 DEF BlamedOnce
    <3>3. PlaceIsEarned(slice[i], facts[i])'
      <4>1. r.start = slice'[i].start /\ r.hint = slice'[i].hint /\ facts'[i].anchor = r.anchor
            /\ Earned(r, file', facts'[i].place)
        BY <1>3, <1>4, <1>6, <1>10, <1>15, <3>1
      <4> QED BY <4>1, EarnedIsEarned
    <3> QED BY <2>2, <2>3, <2>4, <3>1, <3>2, <3>3 DEF Stands
  <2>5. CASE i # turn
    <3>1. Stands(i) /\ facts'[i] = facts[i]
      BY <1>12, <2>5 DEF LocInv
    <3> QED BY <1>1, <2>2, <2>3, <2>5, <3>1, FactStays
  <2> QED BY <2>4, <2>5
<1> QED BY <1>1, <1>14, <1>17 DEF LocInv

LEMMA FactualKeeps == ASSUME LocInv, Factual PROVE LocInv'
<1>1. LocTypes /\ step = "factual" /\ UNCHANGED <<file, slice, commits>> /\ Advance("range")
  BY DEF LocInv, Factual
<1>2. /\ Len(slice) \in Nat /\ DOMAIN slice = 1..Len(slice) /\ turn \in DOMAIN slice
      /\ DOMAIN facts = DOMAIN slice /\ \A i \in DOMAIN slice : facts[i] \in FactSpace
  BY <1>1, Items DEF LocTypes
<1>3. PICK share \in {0, 50, 100} :
        LET left == facts[turn].confidence - (share * 70) \div 100
        IN facts' = [facts EXCEPT ![turn].confidence =
                       IF share = 0 THEN @ ELSE IF left < Floor THEN Floor ELSE left]
  BY DEF Factual
<1> DEFINE left == facts[turn].confidence - (share * 70) \div 100
           c == IF share = 0 THEN facts[turn].confidence ELSE IF left < Floor THEN Floor ELSE left
           g == [facts[turn] EXCEPT !.confidence = c]
<1>4. c \in Int
  <2>1. facts[turn].confidence \in Int
    BY <1>2 DEF FactSpace
  <2>2. (0 * 70) \div 100 \in Int /\ (50 * 70) \div 100 \in Int /\ (100 * 70) \div 100 \in Int
    OBVIOUS
  <2>3. left \in Int
    BY <2>1, <2>2
  <2> QED BY <2>1, <2>3, LimitAssumption
<1>5. facts' = [facts EXCEPT ![turn] = g]
  BY <1>3
<1> HIDE DEF c
<1>6. /\ g \in FactSpace /\ g.removed = facts[turn].removed /\ g.anchor = facts[turn].anchor
      /\ g.place = facts[turn].place /\ g.severity = facts[turn].severity
      /\ g.origin = facts[turn].origin /\ g.class = facts[turn].class
      /\ g.inDiff = facts[turn].inDiff
  BY <1>2, <1>4 DEF FactSpace
<1> HIDE DEF g
<1>7. /\ facts' \in [DOMAIN slice -> FactSpace] /\ facts'[turn] = g
      /\ \A i \in DOMAIN slice : i # turn => facts'[i] = facts[i]
  BY <1>1, <1>2, <1>5, <1>6 DEF LocTypes
<1>8. /\ turn' \in 1..Len(slice')
      /\ \/ step' = step /\ turn' = turn + 1
         \/ step' = "range" /\ turn' = 1 /\ \A i \in DOMAIN slice : i <= turn
  BY <1>1, AdvanceIs
<1>9. LocTypes'
  BY <1>1, <1>7, <1>8 DEF LocTypes
<1>10. ASSUME NEW i \in DOMAIN slice PROVE Stands(i)'
  <2>1. i \in Nat /\ i >= 1 /\ step' \in {"factual", "range"}
    BY <1>1, <1>2, <1>8
  <2>2. Placed(i) /\ Placed(i)' /\ ~Compared(i) /\ ~Compared(i)'
    BY <1>1, <1>8, <2>1 DEF Placed, Compared
  <2>3. Stands(i) /\ slice'[i] = slice[i]
    BY <1>1 DEF LocInv
  <2>4. CASE i = turn
    <3>1. /\ facts'[i].removed = facts[i].removed /\ facts'[i].anchor = facts[i].anchor
          /\ facts'[i].place = facts[i].place /\ facts'[i].severity = facts[i].severity
          /\ facts'[i].origin = facts[i].origin /\ facts'[i].class = facts[i].class
          /\ facts'[i].inDiff = facts[i].inDiff
      BY <1>6, <1>7, <2>4
    <3>2. PlaceIsEarned(slice[i], facts[i])'
      BY <1>1, <2>2, <2>3, <3>1, PlaceStays DEF Stands
    <3>3. BlamedOnce(slice[i], facts[i])'
      BY <2>2, <2>3, <3>1 DEF Stands, BlamedOnce
    <3> QED BY <2>2, <2>3, <3>1, <3>2, <3>3 DEF Stands
  <2>5. CASE i # turn
    BY <1>1, <1>7, <2>2, <2>3, <2>5, FactStays
  <2> QED BY <2>4, <2>5
<1> QED BY <1>1, <1>9, <1>10 DEF LocInv

(* The comparison with the diff surfaces what blame did not, once.         *)
LEMMA ComparisonIs ==
  ASSUME NEW r, NEW f \in FactSpace, NEW g, f.removed = r.removed, BlamedOnce(r, f),
         \/ g = f
         \/ g = [f EXCEPT !.inDiff = "yes"]
         \/ g = OffDiff(f) /\ Located(f) /\ Span(f) \cap ShownLines(file) = {}
  PROVE  /\ g \in FactSpace /\ g.removed = f.removed /\ g.anchor = f.anchor /\ g.place = f.place
         /\ SurfacedOnce(r, g)
<1>1. f.removed \in BOOLEAN /\ f.severity \in 0..3 /\ Lower(f.severity) \in 0..3
  BY DEF FactSpace, Lower
<1>2. CASE g = f
  BY <1>2 DEF SurfacedOnce, BlamedOnce
<1>3. CASE g = [f EXCEPT !.inDiff = "yes"]
  <2>1. /\ g \in FactSpace /\ g.removed = f.removed /\ g.anchor = f.anchor /\ g.place = f.place
        /\ g.severity = f.severity /\ g.origin = f.origin /\ g.class = f.class /\ g.inDiff = "yes"
    BY <1>3 DEF FactSpace
  <2> QED BY <2>1 DEF SurfacedOnce, BlamedOnce
<1>4. CASE g = OffDiff(f) /\ Located(f) /\ Span(f) \cap ShownLines(file) = {}
  <2>1. CASE f.removed
    <3>1. g = [f EXCEPT !.inDiff = "no"]
      BY <1>4, <2>1 DEF OffDiff
    <3>2. /\ g \in FactSpace /\ g.removed = f.removed /\ g.anchor = f.anchor /\ g.place = f.place
          /\ g.severity = f.severity /\ g.origin = f.origin /\ g.class = f.class /\ g.inDiff = "no"
      BY <3>1 DEF FactSpace
    <3> QED BY <1>4, <2>1, <3>2 DEF SurfacedOnce, BlamedOnce, Located, Span
  <2>2. CASE ~f.removed
    <3> DEFINE s == IF f.origin = "surfaced" THEN f.severity ELSE Lower(f.severity)
               c == IF f.class = "new" THEN "surfaced" ELSE f.class
               y == IF f.class = "new" THEN "off_diff" ELSE f.why
    <3>1. g = [f EXCEPT !.inDiff = "no", !.origin = "surfaced", !.severity = s, !.class = c, !.why = y]
      BY <1>4, <2>2 DEF OffDiff, FactSpace
    <3>2. s \in 0..3 /\ c \in Classes /\ y \in Whys
      BY <1>1 DEF FactSpace, Classes, Whys
    <3> HIDE DEF s, c, y
    <3>3. /\ g \in FactSpace /\ g.removed = f.removed /\ g.anchor = f.anchor /\ g.place = f.place
          /\ g.severity = s /\ g.origin = "surfaced" /\ g.class = c /\ g.inDiff = "no"
      BY <3>1, <3>2 DEF FactSpace
    <3>4. s = Lower(r.severity)
      BY DEF s, BlamedOnce, FactSpace
    <3> QED BY <1>4, <2>2, <3>3, <3>4 DEF SurfacedOnce, Located, Span
  <2> QED BY <1>1, <2>1, <2>2
<1> QED BY <1>2, <1>3, <1>4

LEMMA DiffLinesKeeps == ASSUME LocInv, DiffLines PROVE LocInv'
<1>1. LocTypes /\ step = "range" /\ UNCHANGED <<file, slice, commits>> /\ Advance("verified")
  BY DEF LocInv, DiffLines
<1>2. /\ Len(slice) \in Nat /\ DOMAIN slice = 1..Len(slice) /\ turn \in DOMAIN slice
      /\ DOMAIN facts = DOMAIN slice /\ \A i \in DOMAIN slice : facts[i] \in FactSpace
  BY <1>1, Items DEF LocTypes
<1> DEFINE f == facts[turn]
           g == IF ~file.diff \/ ~Located(f) THEN f
                ELSE IF Span(f) \cap ShownLines(file) # {} THEN [f EXCEPT !.inDiff = "yes"]
                ELSE OffDiff(f)
<1>3. facts' = [facts EXCEPT ![turn] = g]
  BY DEF DiffLines
<1>4. f.removed = slice[turn].removed /\ BlamedOnce(slice[turn], f) /\ f \in FactSpace
  BY <1>1, <1>2 DEF LocInv, Stands, Placed, Compared, LocTypes
<1>5. \/ g = f
      \/ g = [f EXCEPT !.inDiff = "yes"]
      \/ g = OffDiff(f) /\ Located(f) /\ Span(f) \cap ShownLines(file) = {}
  OBVIOUS
<1> HIDE DEF g
<1>6. /\ g \in FactSpace /\ g.removed = f.removed /\ g.anchor = f.anchor /\ g.place = f.place
      /\ SurfacedOnce(slice[turn], g)
  BY <1>4, <1>5, ComparisonIs
<1>7. /\ facts' \in [DOMAIN slice -> FactSpace] /\ facts'[turn] = g
      /\ \A i \in DOMAIN slice : i # turn => facts'[i] = facts[i]
  BY <1>1, <1>2, <1>3, <1>6 DEF LocTypes
<1>8. /\ turn' \in 1..Len(slice')
      /\ \/ step' = step /\ turn' = turn + 1
         \/ step' = "verified" /\ turn' = 1 /\ \A i \in DOMAIN slice : i <= turn
  BY <1>1, AdvanceIs
<1>9. LocTypes'
  BY <1>1, <1>7, <1>8 DEF LocTypes
<1>10. ASSUME NEW i \in DOMAIN slice PROVE Stands(i)'
  <2>1. i \in Nat /\ turn \in Nat /\ step' \in {"range", "verified"}
    BY <1>1, <1>2, <1>8
  <2>2. Placed(i) /\ Placed(i)'
    BY <1>1, <2>1 DEF Placed
  <2>3. Compared(i)' <=> Compared(i) \/ i = turn
    BY <1>1, <1>2, <1>8, <2>1 DEF Compared
  <2>4. Stands(i) /\ slice'[i] = slice[i] /\ file' = file
    BY <1>1 DEF LocInv
  <2>5. CASE i = turn
    <3>1. facts'[i] = g /\ facts'[i].removed = facts[i].removed
          /\ facts'[i].anchor = facts[i].anchor /\ facts'[i].place = facts[i].place
      BY <1>6, <1>7, <2>5
    <3>2. PlaceIsEarned(slice[i], facts[i])'
      BY <2>2, <2>4, <3>1, PlaceStays DEF Stands
    <3>3. SurfacedOnce(slice[i], facts[i])'
      BY <1>6, <2>4, <2>5, <3>1 DEF SurfacedOnce, Located, Span, ShownLines
    <3> QED BY <2>2, <2>3, <2>4, <2>5, <3>1, <3>2, <3>3 DEF Stands
  <2>6. CASE i # turn
    BY <1>1, <1>7, <2>2, <2>3, <2>4, <2>6, FactStays
  <2> QED BY <2>5, <2>6
<1> QED BY <1>1, <1>9, <1>10 DEF LocInv

LEMMA LocStart == ASSUME LInit PROVE LocInv
<1>1. file \in SourceSpace /\ slice \in Seq(RequestSpace) /\ slice # <<>>
  BY RequestAssumption DEF LInit
<1>2. Len(slice) \in Nat \ {0} /\ DOMAIN slice = 1..Len(slice)
      /\ \A i \in DOMAIN slice : slice[i] \in RequestSpace
  BY <1>1, Items
<1>3. \A i \in DOMAIN slice : facts[i] = Given(slice[i])
  BY DEF LInit
<1>4. ASSUME NEW r \in RequestSpace
      PROVE  Given(r) \in FactSpace /\ Given(r).removed = r.removed
  <2>1. /\ r.anchor \in Seq(Line) /\ r.removed \in BOOLEAN /\ r.cross \in BOOLEAN
        /\ r.severity \in 0..3 /\ r.confidence \in Int /\ r.symbols \in BOOLEAN
    <3>1. r.confidence \in 0..100
      BY DEF RequestSpace
    <3>2. r.confidence \in Int
      BY <3>1
    <3> QED BY <3>2 DEF RequestSpace
  <2> DEFINE nowhere == [status |-> "unconfirmed", reason |-> "not_found", start |-> 0, end |-> 0]
  <2>2. nowhere \in PlaceSpace
    BY DEF PlaceSpace, Reasons
  <2>3. Given(r) = [anchor |-> r.anchor, removed |-> r.removed, cross |-> r.cross,
                    severity |-> r.severity, confidence |-> r.confidence, symbols |-> r.symbols,
                    origin |-> "new", class |-> "unknown", why |-> "unavailable",
                    inDiff |-> "unknown", place |-> nowhere]
    BY DEF Given
  <2> HIDE DEF nowhere
  <2> QED BY <2>1, <2>2, <2>3 DEF FactSpace, Classes, Whys
<1>5. facts \in [DOMAIN slice -> FactSpace]
  <2>1. facts = [i \in DOMAIN slice |-> Given(slice[i])]
    BY DEF LInit
  <2> QED BY <1>2, <1>4, <2>1
<1>6. LocTypes
  BY <1>1, <1>2, <1>5 DEF LocTypes, LInit
<1>7. \A i \in DOMAIN slice : ~Placed(i) /\ ~Compared(i)
  BY <1>2 DEF LInit, Placed, Compared
<1>8. \A i \in DOMAIN slice : Stands(i)
  BY <1>2, <1>3, <1>4, <1>7 DEF Stands
<1> QED BY <1>6, <1>8 DEF LocInv

LEMMA LocStutter == ASSUME LocInv, UNCHANGED locVars PROVE LocInv'
<1>1. UNCHANGED <<file, slice, step, turn, commits, facts>>
  BY DEF locVars
<1>2. LocTypes'
  BY <1>1 DEF LocInv, LocTypes
<1>3. ASSUME NEW i \in DOMAIN slice PROVE Stands(i)'
  <2>1. Stands(i) /\ facts'[i] = facts[i]
    BY <1>1 DEF LocInv
  <2>2. (Placed(i)' <=> Placed(i)) /\ (Compared(i)' <=> Compared(i))
    BY <1>1 DEF Placed, Compared
  <2> QED BY <1>1, <2>1, <2>2, FactStays
<1> QED BY <1>1, <1>2, <1>3 DEF LocInv
-----------------------------------------------------------------------------
(* What is confirmed or relocated lies where the file carries its quote,   *)
(* whatever number was claimed, and a finding is surfaced once, for any    *)
(* file, quotes, claims, hunks and answers of git.                         *)
THEOREM LocationsHold == LSpec => []FindingsAreGrounded
<1>1. LInit => LocInv
  BY LocStart
<1>2. LocInv /\ [LNext]_locVars => LocInv'
  BY LocateKeeps, FactualKeeps, DiffLinesKeeps, LocStutter DEF LNext
<1>3. LocInv => FindingsAreGrounded
  BY DEF LocInv, Stands, Placed, Compared, FindingsAreGrounded
<1> QED BY <1>1, <1>2, <1>3, PTL DEF LSpec
-----------------------------------------------------------------------------
(* The fences that stand, decided in the order of delivery.                *)
Standing(won, n, candidates) ==
  won = [k \in 0..n |->
           IF k = 0 THEN {}
           ELSE IF k \in candidates /\ \A j \in won[k - 1] : ~Overlap(j, k)
                THEN won[k - 1] \cup {k} ELSE won[k - 1]]

LEMMA StandingExists ==
  ASSUME NEW n \in Nat, NEW C
  PROVE  \E won : Standing(won, n, C)
<1> DEFINE S == {k \in 0..n : ~ \E won : Standing(won, k, C)}
<1>1. S = {}
  <2>1. SUFFICES ASSUME S # {} PROVE FALSE
    OBVIOUS
  <2>2a. S \in SUBSET Nat
    OBVIOUS
  <2>2. PICK k \in S : \A y \in S : k <= y
    BY <2>1, <2>2a, FirstOf
  <2>3. k \in Nat /\ k <= n /\ ~ \E won : Standing(won, k, C)
    BY <2>2
  <2>4. CASE k = 0
    <3> DEFINE g == [d \in 0..0 |-> {}]
    <3>1. g = [d \in 0..0 |-> IF d = 0 THEN {}
                 ELSE IF d \in C /\ \A j \in g[d - 1] : ~Overlap(j, d)
                      THEN g[d - 1] \cup {d} ELSE g[d - 1]]
      <4>1. \A d \in 0..0 : d = 0
        OBVIOUS
      <4> QED BY <4>1, Zenon
    <3>2. Standing(g, 0, C)
      BY <3>1 DEF Standing
    <3> QED BY <2>3, <2>4, <3>2
  <2>5. CASE k # 0
    <3>1. k - 1 \in 0..n /\ k - 1 \notin S
      BY <2>2, <2>3, <2>5
    <3>2. PICK f : Standing(f, k - 1, C)
      BY <3>1
    <3> DEFINE body(w, d) == IF d = 0 THEN {}
                             ELSE IF d \in C /\ \A j \in w[d - 1] : ~Overlap(j, d)
                                  THEN w[d - 1] \cup {d} ELSE w[d - 1]
               g == [d \in 0..k |-> body(f, d)]
    <3>3. f = [d \in 0..(k - 1) |-> body(f, d)]
      BY <3>2 DEF Standing
    <3>4. \A d \in 0..k : d # 0 => d - 1 \in 0..(k - 1) /\ d - 1 \in 0..k
      BY <2>3
    <3>5. \A d \in 0..(k - 1) : d \in 0..k
      BY <2>3
    <3> HIDE DEF body
    <3>6. \A d \in 0..(k - 1) : g[d] = f[d]
      BY <3>3, <3>5, Zenon
    <3>7. \A d \in 0..k : body(g, d) = body(f, d)
      BY <3>4, <3>6 DEF body
    <3>8. g = [d \in 0..k |-> body(g, d)]
      BY <3>7, Zenon
    <3> HIDE DEF g
    <3>9. Standing(g, k, C)
      BY <3>8 DEF Standing, body
    <3> QED BY <2>3, <3>9
  <2> QED BY <2>4, <2>5
<1> QED BY <1>1

(* Winners are candidates that do not overlap, and who lost met one that   *)
(* came before.                                                            *)
LEMMA WinnersAre ==
  ASSUME Len(facts) \in Nat, NEW C \in SUBSET (1..Len(facts))
  PROVE  /\ Winners(C) \subseteq C
         /\ \A i, j \in Winners(C) : i # j => ~Overlap(i, j) \/ ~Overlap(j, i)
         /\ \A i \in C \ Winners(C) : \E j \in Winners(C) : j < i /\ Overlap(j, i)
<1> DEFINE n == Len(facts)
           w == CHOOSE won : Standing(won, n, C)
<1>1. Standing(w, n, C)
  BY StandingExists
<1>2. Winners(C) = w[n]
  BY DEF Winners, Standing
<1> HIDE DEF w
<1>3. w[0] = {}
  BY <1>1 DEF Standing
<1>4. ASSUME NEW k \in 1..n
      PROVE  /\ k \in C /\ (\A j \in w[k - 1] : ~Overlap(j, k)) => w[k] = w[k - 1] \cup {k}
             /\ ~(k \in C /\ \A j \in w[k - 1] : ~Overlap(j, k)) => w[k] = w[k - 1]
  <2>1. k \in 0..n /\ k # 0
    OBVIOUS
  <2>2. w[k] = (IF k = 0 THEN {}
                ELSE IF k \in C /\ \A j \in w[k - 1] : ~Overlap(j, k)
                     THEN w[k - 1] \cup {k} ELSE w[k - 1])
    BY <1>1, <2>1, Zenon DEF Standing
  <2> QED BY <2>1, <2>2
<1> DEFINE Good(k) ==
      /\ w[k] \subseteq C /\ \A i \in w[k] : i <= k
      /\ \A i, j \in w[k] : i < j => ~Overlap(i, j)
      /\ \A i \in C : i <= k /\ i \notin w[k] => \E j \in w[k] : j < i /\ Overlap(j, i)
    S == {k \in 0..n : ~Good(k)}
<1>5. S = {}
  <2>1. SUFFICES ASSUME S # {} PROVE FALSE
    OBVIOUS
  <2>2. S \in SUBSET Nat
    OBVIOUS
  <2>3. PICK k \in S : \A y \in S : k <= y
    BY <2>1, <2>2, FirstOf
  <2>4. k \in Nat /\ k <= n /\ ~Good(k)
    BY <2>3
  <2>5. k # 0
    <3>1. \A i \in C : ~(i <= 0)
      OBVIOUS
    <3>2. Good(0)
      BY <1>3, <3>1
    <3> QED BY <2>4, <3>2
  <2>6. Good(k - 1)
    <3>1. k - 1 \in 0..n /\ ~(k <= k - 1)
      BY <2>4, <2>5
    <3> QED BY <2>3, <3>1
  <2>7. /\ k \in C /\ (\A j \in w[k - 1] : ~Overlap(j, k)) => w[k] = w[k - 1] \cup {k}
        /\ ~(k \in C /\ \A j \in w[k - 1] : ~Overlap(j, k)) => w[k] = w[k - 1]
    BY <1>4, <2>4, <2>5
  <2>8. \A i \in C : i \in Nat
    OBVIOUS
  <2>9a. \A i \in w[k - 1] : i \in C /\ i <= k - 1
    BY <2>6
  <2>9. ASSUME NEW i \in w[k - 1] PROVE i \in C /\ i \in Nat /\ i < k
    <3>1. i \in C /\ i <= k - 1
      BY <2>9a
    <3>2. i \in Nat
      BY <2>8, <3>1
    <3> QED BY <2>4, <3>1, <3>2
  <2>10. CASE k \in C /\ \A j \in w[k - 1] : ~Overlap(j, k)
    <3>1. w[k] = w[k - 1] \cup {k}
      BY <2>7, <2>10
    <3>2. w[k] \subseteq C /\ \A i \in w[k] : i <= k
      BY <2>4, <2>9, <2>10, <3>1
    <3>3. ASSUME NEW i \in w[k], NEW j \in w[k], i < j PROVE ~Overlap(i, j)
      <4>1. i \in w[k - 1]
        BY <2>4, <2>9, <3>1, <3>3
      <4> QED BY <2>6, <2>10, <3>1, <3>3, <4>1
    <3>4. ASSUME NEW i \in C, i <= k, i \notin w[k]
          PROVE  \E j \in w[k] : j < i /\ Overlap(j, i)
      <4>1. i <= k - 1 /\ i \notin w[k - 1]
        BY <2>4, <2>8, <3>1, <3>4
      <4> QED BY <2>6, <3>1, <4>1
    <3> QED BY <2>4, <3>2, <3>3, <3>4
  <2>11. CASE ~(k \in C /\ \A j \in w[k - 1] : ~Overlap(j, k))
    <3>1. w[k] = w[k - 1]
      BY <2>7, <2>11
    <3>2. ASSUME NEW i \in C, i <= k, i \notin w[k]
          PROVE  \E j \in w[k] : j < i /\ Overlap(j, i)
      <4>1. CASE i = k
        <5>1. PICK j \in w[k - 1] : Overlap(j, k)
          BY <2>11, <4>1
        <5> QED BY <2>9, <3>1, <4>1, <5>1
      <4>2. CASE i # k
        <5>1. i <= k - 1
          BY <2>4, <2>8, <3>2, <4>2
        <5> QED BY <2>6, <3>1, <3>2, <5>1
      <4> QED BY <4>1, <4>2
    <3>3. \A i \in w[k] : i <= k
      BY <2>4, <2>9, <3>1
    <3> QED BY <2>4, <2>6, <3>1, <3>2, <3>3
  <2> QED BY <2>10, <2>11
<1>6. Good(n)
  BY <1>5
<1>7. \A i \in C : i \in Nat /\ i <= n
  OBVIOUS
<1> HIDE DEF n
<1>8. ASSUME NEW i \in w[n], NEW j \in w[n], i # j PROVE ~Overlap(i, j) \/ ~Overlap(j, i)
  <2>a. i \in C /\ j \in C
    BY <1>6, <1>8
  <2>b. i \in Nat /\ j \in Nat
    BY <1>7, <2>a
  <2>1. i < j \/ j < i
    BY <1>8, <2>b
  <2> QED BY <1>6, <1>8, <2>1
<1> QED BY <1>2, <1>6, <1>7, <1>8

(* The site of a located finding is as long as its quote.                  *)
LEMMA SpanOf ==
  ASSUME LocInv, step = "verified", NEW i \in Finding
  PROVE  /\ i \in DOMAIN slice /\ i \in 1..Len(facts)
         /\ slice[i].start \in Nat /\ slice[i].end \in Nat
         /\ Located(facts[i]) =>
              /\ facts[i].place.start \in Nat /\ Len(facts[i].anchor) \in Nat
              /\ facts[i].place.end = facts[i].place.start + Len(facts[i].anchor) - 1
<1>1. LocTypes /\ i \in DOMAIN slice
  BY DEF LocInv, LocTypes, Finding
<1>2. DOMAIN slice = 1..Len(slice) /\ Len(slice) \in Nat
  BY <1>1, Items DEF LocTypes
<1>3. facts \in Seq(FactSpace) /\ DOMAIN facts = 1..Len(facts)
  BY <1>1, <1>2, Items DEF LocTypes
<1>4. slice[i] \in RequestSpace /\ facts[i] \in FactSpace
  BY <1>1, Items DEF LocTypes
<1>5. slice[i].start \in Nat /\ slice[i].end \in Nat
  BY <1>4 DEF RequestSpace
<1>6. facts[i].place \in PlaceSpace /\ facts[i].anchor \in Seq(Line)
  BY <1>4 DEF FactSpace
<1>7. PlaceIsEarned(slice[i], facts[i])
  BY <1>1 DEF LocInv, Stands, Placed
<1>8. Located(facts[i]) =>
        facts[i].place.end = facts[i].place.start + Len(facts[i].anchor) - 1
  BY <1>7 DEF PlaceIsEarned
<1> QED BY <1>1, <1>3, <1>5, <1>6, <1>8, Items DEF Finding, PlaceSpace

(* The quote read again at the site.                                       *)
LEMMA QuoteIsThere ==
  ASSUME NEW i, NEW v, NEW whole, NEW right, Allowed(i, right), StillQuoted(v, i, whole)
  PROVE  /\ Located(facts[i]) /\ ~OfOldSide(facts[i].anchor)
         /\ whole => Excerpt(v, i) \in Readings(facts[i].anchor)
         /\ ~whole => \E q \in Readings(facts[i].anchor) : MatchesAt(q, Excerpt(v, i), 1)
BY DEF Allowed, Coherent, StillQuoted

(* A replacement that may be offered.                                      *)
LEMMA ReplacementFits ==
  ASSUME LocInv, step = "verified", offer \in Seq(OfferSpace), Len(offer) = Len(slice),
         NEW i \in Finding, NEW v, NEW right \in {"inline", "patch"},
         Allowed(i, right), Acceptable(v, i)
  PROVE  /\ Excerpt(v, i) \in Readings(facts[i].anchor)
         /\ slice[i].end - slice[i].start + 1 = Len(facts[i].anchor)
         /\ offer[i].fix.lines # Excerpt(v, i)
         /\ offer[i].stamped = "deliver"
         /\ ~OfOldSide(facts[i].anchor)
<1>1. StillQuoted(v, i, TRUE) /\ offer[i].fix.lines # Excerpt(v, i)
      /\ slice[i].end - slice[i].start = facts[i].place.end - facts[i].place.start
  BY DEF Acceptable
<1>2. Located(facts[i]) /\ ~OfOldSide(facts[i].anchor)
      /\ Excerpt(v, i) \in Readings(facts[i].anchor)
  BY <1>1, QuoteIsThere
<1>3. slice[i].end - slice[i].start + 1 = Len(facts[i].anchor)
  <2>1. /\ slice[i].start \in Nat /\ slice[i].end \in Nat
        /\ facts[i].place.start \in Nat /\ Len(facts[i].anchor) \in Nat
        /\ facts[i].place.end = facts[i].place.start + Len(facts[i].anchor) - 1
    BY <1>2, SpanOf, Zenon
  <2>2. slice[i].end - slice[i].start = facts[i].place.end - facts[i].place.start
    BY <1>1
  <2> DEFINE s == slice[i].start
             e == slice[i].end
             at == facts[i].place.start
             to == facts[i].place.end
             n == Len(facts[i].anchor)
  <2>3. s \in Nat /\ e \in Nat /\ at \in Nat /\ n \in Nat /\ to = at + n - 1 /\ e - s = to - at
    BY <2>1, <2>2
  <2> HIDE DEF s, e, at, to, n
  <2>4. e - s + 1 = n
    BY <2>3
  <2> QED BY <2>4 DEF s, e, n
<1>4. offer[i].stamped = "deliver"
  <2>1. slice \in Seq(RequestSpace) /\ DOMAIN slice = 1..Len(slice)
    BY Items DEF LocInv, LocTypes
  <2>2. DOMAIN offer = 1..Len(offer)
    BY Items
  <2>3. i \in DOMAIN offer
    BY <2>1, <2>2, SpanOf
  <2>4. offer[i].stamped \in {"deliver", "body", "held_back"}
    <3>1. offer[i] \in OfferSpace
      BY <2>3, Items, Zenon
    <3> QED BY <3>1 DEF OfferSpace
  <2>5. right \in Rights[offer[i].stamped]
    BY DEF Allowed
  <2> QED BY <2>4, <2>5 DEF Rights
<1> QED BY <1>1, <1>2, <1>3, <1>4

(* Nothing was decided before everything was verified, and what was        *)
(* decided hits the quote.                                                 *)
OutletInv ==
  /\ offer \in Seq(OfferSpace) /\ Len(offer) = Len(slice)
  /\ outlet = "none" =>
       fences = {} /\ inline = {} /\ lost = {} /\ patched = {} /\ tasked = {}
  /\ outlet # "none" => step = "verified"
  /\ FixesHitTheQuote

LEMMA NothingDecided ==
  ASSUME fences = {}, inline = {}, lost = {}, patched = {}, tasked = {}
  PROVE  FixesHitTheQuote
BY DEF FixesHitTheQuote

LEMMA LocatingDecidesNothing ==
  ASSUME LocInv, OutletInv, LNext, UNCHANGED outVars
  PROVE  OutletInv'
<1>1. step # "verified" /\ slice' = slice
  BY DEF LNext, Locate, Factual, DiffLines
<1>2. fences = {} /\ inline = {} /\ lost = {} /\ patched = {} /\ tasked = {} /\ outlet = "none"
  BY <1>1 DEF OutletInv
<1>3. UNCHANGED outVars /\ fences' = {} /\ inline' = {} /\ lost' = {} /\ patched' = {}
      /\ tasked' = {} /\ outlet' = "none"
  BY <1>2 DEF outVars
<1>4. FixesHitTheQuote'
  BY <1>3 DEF FixesHitTheQuote
<1> QED BY <1>1, <1>3, <1>4 DEF OutletInv, outVars

(* What the property says of one finding, under any view.                  *)
Hits(v, i) ==
  /\ Excerpt(v, i) \in Readings(facts[i].anchor)
  /\ slice[i].end - slice[i].start + 1 = Len(facts[i].anchor)
  /\ offer[i].fix.lines # Excerpt(v, i)
  /\ offer[i].stamped = "deliver"
Lies(v, i) ==
  /\ Located(facts[i])
  /\ \E q \in Readings(facts[i].anchor) : MatchesAt(q, Excerpt(v, i), 1)

LEMMA Decided ==
  ASSUME NEW v, view' = v, UNCHANGED locVars, UNCHANGED offer,
         \A i \in fences' \cup patched' : Hits(v, i),
         fences' \subseteq inline',
         \A i, j \in fences' : i # j => ~Overlap(i, j),
         \A i \in lost' : \E j \in fences' : j < i /\ Overlap(i, j),
         \A i \in inline' \cup tasked' : Lies(v, i),
         \A i \in fences' \cup inline' \cup patched' \cup tasked' : ~OfOldSide(facts[i].anchor)
  PROVE  FixesHitTheQuote'
<1>1. facts' = facts /\ slice' = slice /\ offer' = offer
  BY DEF locVars
<1>2. \A i : Excerpt(view, i)' = Excerpt(v, i)
  BY <1>1 DEF Excerpt, Span
<1>3. \A i : Span(facts[i])' = Span(facts[i]) /\ Located(facts[i])' = Located(facts[i])
             /\ Readings(facts[i].anchor)' = Readings(facts[i].anchor)
             /\ OfOldSide(facts[i].anchor)' = OfOldSide(facts[i].anchor)
  BY <1>1
<1>4. \A i, j : Overlap(i, j)' = Overlap(i, j)
  BY <1>1 DEF Overlap
<1>5. \A i, j : ~Overlap(i, j) => Span(facts[i]) \cap Span(facts[j]) = {}
  BY DEF Overlap
<1>6. \A i : \A q : MatchesAt(q, Excerpt(view, i), 1)' = MatchesAt(q, Excerpt(v, i), 1)
  BY <1>2 DEF MatchesAt
<1>7. (\A i \in fences \cup patched :
       /\ Excerpt(view, i) \in Readings(facts[i].anchor)
       /\ slice[i].end - slice[i].start + 1 = Len(facts[i].anchor)
       /\ offer[i].fix.lines # Excerpt(view, i)
       /\ offer[i].stamped = "deliver")'
  BY <1>1, <1>2, <1>3 DEF Hits
<1>8. (\A i, j \in fences : i # j => Span(facts[i]) \cap Span(facts[j]) = {})'
  BY <1>1, <1>5
<1>9. (\A i \in lost : \E j \in fences : j < i /\ Overlap(i, j))'
  BY <1>4
<1>10. (\A i \in inline \cup tasked :
       /\ Located(facts[i])
       /\ \E q \in Readings(facts[i].anchor) : MatchesAt(q, Excerpt(view, i), 1))'
  BY <1>1, <1>3, <1>6 DEF Lies
<1>11. (\A i \in fences \cup inline \cup patched \cup tasked : ~OfOldSide(facts[i].anchor))'
  BY <1>1
<1> QED BY <1>7, <1>8, <1>9, <1>10, <1>11 DEF FixesHitTheQuote

LEMMA OverlapIsMutual == ASSUME NEW i, NEW j, Overlap(i, j) PROVE Overlap(j, i)
BY DEF Overlap

LEMMA PlanHits ==
  ASSUME LocInv, OutletInv, Verified, UNCHANGED locVars, NEW v, NEW platform \in {"github", "gitlab"},
         PlanDelivery(v, platform)
  PROVE  OutletInv'
<1> DEFINE anchored == {i \in Finding : Allowed(i, "inline") /\ StillQuoted(v, i, FALSE)}
           candidates == {i \in anchored : Acceptable(v, i)}
           won == Winners(candidates)
<1>1. /\ outlet' = platform /\ view' = v /\ inline' = anchored /\ fences' = won
      /\ lost' = candidates \ won /\ UNCHANGED <<offer, patched, tasked>>
  BY DEF PlanDelivery
<1>2. patched' = {} /\ tasked' = {} /\ step = "verified" /\ step' = step /\ slice' = slice
  BY <1>1 DEF OutletInv, Verified, locVars
<1>3. Len(facts) \in Nat /\ candidates \in SUBSET (1..Len(facts))
  <2>1. LocTypes
    BY DEF LocInv
  <2>2. DOMAIN slice = 1..Len(slice) /\ Len(slice) \in Nat
    BY <2>1, Items DEF LocTypes
  <2>3. facts \in Seq(FactSpace)
    BY <2>1, <2>2 DEF LocTypes
  <2> QED BY <2>3, Items DEF Finding
<1>4. /\ won \subseteq candidates
      /\ \A i, j \in won : i # j => ~Overlap(i, j) \/ ~Overlap(j, i)
      /\ \A i \in candidates \ won : \E j \in won : j < i /\ Overlap(j, i)
  <2> HIDE DEF candidates
  <2> QED BY <1>3, WinnersAre
<1>5. \A i \in candidates : Hits(v, i)
  BY <1>2, ReplacementFits DEF OutletInv, Hits
<1>6. \A i \in anchored : Lies(v, i) /\ ~OfOldSide(facts[i].anchor)
  BY QuoteIsThere DEF Lies
<1>7. candidates \subseteq anchored
  OBVIOUS
<1> HIDE DEF anchored, candidates, won
<1>8. \A i, j \in won : i # j => ~Overlap(i, j)
  BY <1>4, OverlapIsMutual
<1>9. \A i \in lost' : \E j \in fences' : j < i /\ Overlap(i, j)
  BY <1>1, <1>4, OverlapIsMutual
<1>10. FixesHitTheQuote'
  <2>1. fences' \subseteq inline' /\ \A i \in fences' \cup patched' : Hits(v, i)
    BY <1>1, <1>2, <1>4, <1>5, <1>7
  <2>2. \A i \in inline' \cup tasked' : Lies(v, i)
    BY <1>1, <1>2, <1>6
  <2>3. \A i \in fences' \cup inline' \cup patched' \cup tasked' : ~OfOldSide(facts[i].anchor)
    BY <1>1, <1>2, <1>6, <2>1
  <2>4. \A i, j \in fences' : i # j => ~Overlap(i, j)
    BY <1>1, <1>8
  <2> QED BY <1>1, <1>9, <2>1, <2>2, <2>3, <2>4, Decided
<1> QED BY <1>1, <1>2, <1>10 DEF OutletInv

LEMMA PatchesHit ==
  ASSUME LocInv, OutletInv, Verified, UNCHANGED locVars, NEW v, WritePatches(v)
  PROVE  OutletInv'
<1>1. /\ outlet' = "patches" /\ view' = v /\ UNCHANGED <<offer, inline, fences, lost, tasked>>
      /\ patched' = {i \in Finding : Allowed(i, "patch") /\ Acceptable(v, i)}
  BY DEF WritePatches
<1>2. /\ fences' = {} /\ inline' = {} /\ lost' = {} /\ tasked' = {}
      /\ step = "verified" /\ step' = step /\ slice' = slice
  BY <1>1 DEF OutletInv, Verified, locVars
<1>3. \A i \in patched' : Hits(v, i) /\ ~OfOldSide(facts[i].anchor)
  BY <1>1, <1>2, ReplacementFits DEF OutletInv, Hits
<1>4. FixesHitTheQuote'
  BY <1>1, <1>2, <1>3, Decided
<1> QED BY <1>1, <1>2, <1>4 DEF OutletInv

LEMMA TasksHit ==
  ASSUME LocInv, OutletInv, Verified, UNCHANGED locVars, NEW v, Tasks(v)
  PROVE  OutletInv'
<1>1. /\ outlet' = "tasks" /\ view' = v /\ UNCHANGED <<offer, inline, fences, lost, patched>>
      /\ tasked' = {i \in Finding : Allowed(i, "fixTask") /\ StillQuoted(v, i, FALSE)}
  BY DEF Tasks
<1>2. /\ fences' = {} /\ inline' = {} /\ lost' = {} /\ patched' = {}
      /\ step = "verified" /\ step' = step /\ slice' = slice
  BY <1>1 DEF OutletInv, Verified, locVars
<1>3. \A i \in tasked' : Lies(v, i) /\ ~OfOldSide(facts[i].anchor)
  BY <1>1, QuoteIsThere DEF Lies
<1>4. FixesHitTheQuote'
  BY <1>1, <1>2, <1>3, Decided
<1> QED BY <1>1, <1>2, <1>4 DEF OutletInv

(* What is replaced with one click, patched or handed to an agent is what  *)
(* the finding quoted, in the code as the outlet saw it, and fences do not *)
(* touch each other, whatever the code became since the review.            *)
THEOREM FixesHold == OSpec => []FixesHitTheQuote
<1>1. LInit /\ OInit => LocInv /\ OutletInv
  <2>1. SUFFICES ASSUME LInit, OInit PROVE LocInv /\ OutletInv
    OBVIOUS
  <2>2. offer \in Seq(OfferSpace) /\ Len(offer) = Len(slice)
    BY <2>1, OfferAssumption DEF OInit
  <2>3. FixesHitTheQuote
    BY <2>1, NothingDecided DEF OInit
  <2> QED BY <2>1, <2>2, <2>3, LocStart DEF OInit, OutletInv
<1>2. LocInv /\ OutletInv /\ [ONext]_<<locVars, outVars>> => LocInv' /\ OutletInv'
  <2>1. SUFFICES ASSUME LocInv, OutletInv, [ONext]_<<locVars, outVars>>
                 PROVE  LocInv' /\ OutletInv'
    OBVIOUS
  <2>2. CASE LNext /\ UNCHANGED outVars
    BY <2>1, <2>2, LocateKeeps, FactualKeeps, DiffLinesKeeps, LocatingDecidesNothing DEF LNext
  <2>3. CASE UNCHANGED locVars /\ Verified /\ \E v \in Views, platform \in {"github", "gitlab"} :
                 PlanDelivery(v, platform)
    BY <2>1, <2>3, LocStutter, PlanHits
  <2>4. CASE UNCHANGED locVars /\ Verified /\ WritePatches(Pinned)
    BY <2>1, <2>4, LocStutter, PatchesHit
  <2>5. CASE UNCHANGED locVars /\ Verified /\ \E v \in Views : Tasks(v)
    BY <2>1, <2>5, LocStutter, TasksHit
  <2>6. CASE UNCHANGED <<locVars, outVars>>
    <3>1. UNCHANGED locVars /\ UNCHANGED outVars
      BY <2>6
    <3>2. /\ facts' = facts /\ slice' = slice /\ step' = step /\ offer' = offer /\ view' = view
          /\ outlet' = outlet /\ fences' = fences /\ inline' = inline /\ lost' = lost
          /\ patched' = patched /\ tasked' = tasked
      BY <3>1 DEF outVars, locVars
    <3>3. FixesHitTheQuote'
      <4>1. FixesHitTheQuote
        BY <2>1 DEF OutletInv
      <4>2. \A i \in fences \cup patched : Hits(view, i)
        BY <4>1 DEF FixesHitTheQuote, Hits
      <4>3. \A i \in inline \cup tasked : Lies(view, i)
        BY <4>1 DEF FixesHitTheQuote, Lies
      <4>4. \A i, j \in fences : i # j => ~Overlap(i, j)
        BY <4>1 DEF FixesHitTheQuote, Overlap
      <4>5. /\ fences \subseteq inline
            /\ \A i \in lost : \E j \in fences : j < i /\ Overlap(i, j)
            /\ \A i \in fences \cup inline \cup patched \cup tasked : ~OfOldSide(facts[i].anchor)
        BY <4>1 DEF FixesHitTheQuote
      <4> QED BY <3>1, <3>2, <4>2, <4>3, <4>4, <4>5, Decided
    <3>4. OutletInv'
      BY <2>1, <3>2, <3>3 DEF OutletInv
    <3> QED BY <2>1, <3>1, <3>4, LocStutter
  <2> QED BY <2>1, <2>2, <2>3, <2>4, <2>5, <2>6 DEF ONext
<1>3. OutletInv => FixesHitTheQuote
  BY DEF OutletInv
<1> QED BY <1>1, <1>2, <1>3, PTL DEF OSpec
=============================================================================
