----------------------------- MODULE FixOutlets -----------------------------
(***************************************************************************)
(* Where a located finding may act on the code: an inline comment, with a  *)
(* one-click fence when it carries a replacement (scripts/gauntlet/        *)
(* delivery/post.py and gate.py), the patches file (patches.py) and the    *)
(* fix tasks (fix_tasks.py).  Each looks at the code at a time of its own: *)
(* the diff the forge serves at delivery, the diff pinned at the review,   *)
(* the working tree.  The file may have changed since it was verified, so  *)
(* each reads the quote again at the site and never searches for it.  The  *)
(* outlets do not depend on one another: a behaviour has one of them.      *)
(***************************************************************************)
EXTENDS FindingLocation

CONSTANTS
  Views,  \* what a diff or a tree may show of the file (ViewSpace)
  Offers  \* sequences of what the findings ask for (OfferSpace)

(* A view gives the text of the lines it shows; none: it could not be had. *)
ViewSpace == [none : BOOLEAN, text : UNION {[S -> Line] : S \in SUBSET Nat}]

(* stamped: what disposeFindings said of an admitted finding; task: one    *)
(* for the body alone is fit for a fix task.  fix: the replacement, if     *)
(* there is one; sound: a string without carriage return, secret or        *)
(* marker, not too large, that does not mix the indentation up.            *)
OfferSpace == [stamped : {"deliver", "body", "held_back"}, task : BOOLEAN,
               fix : [given : BOOLEAN, sound : BOOLEAN, lines : Seq(Line)]]

ASSUME OfferAssumption == Offers \subseteq Seq(OfferSpace)

VARIABLES
  offer,   \* offer[i]: what finding i asks for
  outlet,  \* none, github, gitlab, patches, tasks
  view,    \* the code the outlet looked at
  inline,  \* findings with a comment at their line
  fences,  \* findings whose replacement is offered there with one click
  lost,    \* of those with an acceptable one: overlapped by an earlier fence
  patched, \* findings in the patches file
  tasked   \* findings with a fix task

outVars == <<offer, outlet, view, inline, fences, lost, patched, tasked>>

OInit == offer \in {o \in Offers : Len(o) = Len(slice)}
         /\ outlet = "none" /\ view = [none |-> TRUE, text |-> <<>>]
         /\ inline = {} /\ fences = {} /\ lost = {} /\ patched = {} /\ tasked = {}

Finding == DOMAIN facts
-----------------------------------------------------------------------------
(* canonical_range, then location_allows and delivery_allows: a status     *)
(* without coherent coordinates gives no right, nor does a disposition     *)
(* other than the rights table's.                                          *)
Coherent(i) == Located(facts[i]) /\ Cardinality(Span(facts[i])) \in 1..MaxLines

Rights == [deliver |-> {"inline", "fence", "patch", "fixTask"}, body |-> {"fixTask"},
           held_back |-> {}]
Allowed(i, right) ==
  /\ right \in Rights[offer[i].stamped]
  /\ offer[i].stamped = "body" /\ right = "fixTask" => offer[i].task
  /\ Coherent(i)

(* span_texts: all of the lines or nothing. *)
Shows(v, i) == ~v.none /\ Span(facts[i]) \subseteq DOMAIN v.text
Excerpt(v, i) ==
  [k \in 1..Cardinality(Span(facts[i])) |-> v.text[facts[i].place.start + k - 1]]

(* anchor_matches_span: the held quote at the site, without searching. *)
StillQuoted(v, i, whole) ==
  /\ Shows(v, i)
  /\ ~OfOldSide(facts[i].anchor)
  /\ \E q \in {p \in Readings(facts[i].anchor) : Quotable(p)} :
       /\ Len(q) = Cardinality(Span(facts[i]))
       /\ IF whole THEN q = Excerpt(v, i) ELSE MatchesAt(q, Excerpt(v, i), 1)

(* Mutant: a fence is checked like a comment: part of the line will do. *)
MutantAcceptable(v, i) ==
  /\ offer[i].fix.given /\ offer[i].fix.sound
  /\ slice[i].end # 0 /\ slice[i].start \in 1..slice[i].end
  /\ slice[i].end - slice[i].start = facts[i].place.end - facts[i].place.start
  /\ StillQuoted(v, i, FALSE)
  /\ offer[i].fix.lines # Excerpt(v, i)

(* _check_fix: the reviewer's own range must be as long as the one the     *)
(* quote has, all of it in the diff, and the replacement a change.         *)
Acceptable(v, i) ==
  /\ offer[i].fix.given /\ offer[i].fix.sound
  /\ slice[i].end # 0 /\ slice[i].start \in 1..slice[i].end
  /\ slice[i].end - slice[i].start = facts[i].place.end - facts[i].place.start
  /\ StillQuoted(v, i, TRUE)
  /\ offer[i].fix.lines # Excerpt(v, i)

Overlap(i, j) == Span(facts[i]) \cap Span(facts[j]) # {}

(* overlap_losers: in the order of delivery, the first of two keeps its    *)
(* place, and one that lost does not keep others out.                      *)
Winners(candidates) ==
  LET won[k \in 0..Len(facts)] ==
        IF k = 0 THEN {}
        ELSE IF k \in candidates /\ \A j \in won[k - 1] : ~Overlap(j, k)
             THEN won[k - 1] \cup {k} ELSE won[k - 1]
  IN won[Len(facts)]

Verified == step = "verified" /\ outlet = "none"

(* plan_delivery, of findings that are an issue each.  A quote that the    *)
(* diff contradicts makes the finding unconfirmed for this delivery; one   *)
(* the diff does not show cannot be anchored either, but stays confirmed   *)
(* in the text.                                                            *)
PlanDelivery(v, platform) ==
  LET anchored == {i \in Finding : Allowed(i, "inline") /\ StillQuoted(v, i, FALSE)}
      candidates == {i \in anchored : Acceptable(v, i)}
  IN /\ outlet' = platform
     /\ view' = v
     /\ inline' = anchored
     /\ fences' = Winners(candidates)
     /\ lost' = candidates \ Winners(candidates)
     /\ UNCHANGED <<offer, patched, tasked>>

(* report_patches, without regard to what overlaps. *)
WritePatches(v) ==
  /\ outlet' = "patches"
  /\ view' = v
  /\ patched' = {i \in Finding : Allowed(i, "patch") /\ Acceptable(v, i)}
  /\ UNCHANGED <<offer, inline, fences, lost, tasked>>

(* Mutant: the tree is trusted to be the reviewed one. *)
MutantTasks(v) ==
  /\ outlet' = "tasks"
  /\ view' = v
  /\ tasked' = {i \in Finding : Allowed(i, "fixTask") /\ Shows(v, i)}
  /\ UNCHANGED <<offer, inline, fences, lost, patched>>

(* build_tasks reads the working tree as it is now. *)
Tasks(v) ==
  /\ outlet' = "tasks"
  /\ view' = v
  /\ tasked' = {i \in Finding : Allowed(i, "fixTask") /\ StillQuoted(v, i, FALSE)}
  /\ UNCHANGED <<offer, inline, fences, lost, patched>>

(* The diff pinned at the review shows the verified file. *)
Pinned == [none |-> ~file.diff, text |-> [at \in ShownLines(file) |-> file.lines[at]]]

ONext ==
  \/ LNext /\ UNCHANGED outVars
  \/ /\ Verified
     /\ \/ \E v \in Views, platform \in {"github", "gitlab"} : PlanDelivery(v, platform)
        \/ WritePatches(Pinned)
        \/ \E v \in Views : Tasks(v)
     /\ UNCHANGED locVars

OSpec == LInit /\ OInit /\ [][ONext]_<<locVars, outVars>>
-----------------------------------------------------------------------------
(* What is replaced with one click, listed as a patch or handed to an      *)
(* agent is what the finding quoted, in the code as that outlet saw it:    *)
(* lines that moved or changed since they were verified lose the right.    *)
(* A fence replaces whole quoted lines, as many as the reviewer meant, and *)
(* no two fences touch the same line; one is only given up for an earlier  *)
(* one that stands.                                                        *)
FixesHitTheQuote ==
  /\ \A i \in fences \cup patched :
       /\ Excerpt(view, i) \in Readings(facts[i].anchor)
       /\ slice[i].end - slice[i].start + 1 = Len(facts[i].anchor)
       /\ offer[i].fix.lines # Excerpt(view, i)
       /\ offer[i].stamped = "deliver"
  /\ fences \subseteq inline
  /\ \A i, j \in fences : i # j => Span(facts[i]) \cap Span(facts[j]) = {}
  /\ \A i \in lost : \E j \in fences : j < i /\ Overlap(i, j)
  /\ \A i \in inline \cup tasked :
       /\ Located(facts[i])
       /\ \E q \in Readings(facts[i].anchor) : MatchesAt(q, Excerpt(view, i), 1)
  /\ \A i \in fences \cup inline \cup patched \cup tasked : ~OfOldSide(facts[i].anchor)
=============================================================================
