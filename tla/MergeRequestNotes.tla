------------------------- MODULE MergeRequestNotes -------------------------
(***************************************************************************)
(* What a merge request promises its readers at one head commit: one       *)
(* summary, before anything else; it only ever grows; and every discussion *)
(* is about findings no note spoke of before.  scripts/gauntlet/delivery/  *)
(* post.py says so in the message a failed delivery prints: "rerunning     *)
(* retries the inline comments without duplicating what is already there". *)
(***************************************************************************)
EXTENDS Naturals, Sequences

CONSTANTS
  Key,   \* finding keys
  Site   \* further places of one issue

VARIABLE notes  \* the tool's own notes on the merge request, oldest first

(* A coverage item: a finding, or a further site of an issue. *)
Item == Key \cup (Key \X Site)

(* The hidden markers of all notes. *)
Marked == UNION {notes[i].marks : i \in DOMAIN notes}

Init == notes = <<>>

(* The summary opens; it marks nothing it does not tell. *)
Summarize ==
  /\ notes = <<>>
  /\ \E text \in SUBSET Item : \E marks \in SUBSET text :
       notes' = <<[kind |-> "summary", marks |-> marks, text |-> text]>>

(* The summary is extended in place. *)
Extend ==
  /\ notes # <<>>
  /\ \E more \in SUBSET Item :
       notes' = [notes EXCEPT ![1] = [kind |-> "summary", marks |-> @.marks \cup more,
                                      text |-> @.text \cup more]]

(* A discussion of findings that are not on the merge request yet. *)
Discuss ==
  /\ notes # <<>>
  /\ \E text \in SUBSET Item :
       /\ text \cap Key \cap Marked = {}
       /\ notes' = Append(notes, [kind |-> "discussion", marks |-> text, text |-> text])

Next == Summarize \/ Extend \/ Discuss

Spec == Init /\ [][Next]_notes
=============================================================================
