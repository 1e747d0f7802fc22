---------------------------- MODULE GithubReview ----------------------------
(***************************************************************************)
(* The one review that a delivery to GitHub posts (delivery/post.py,       *)
(* compose.py, input.py): findings are validated and put into groups; a    *)
(* group whose lead has a place in the diff becomes an inline comment, the *)
(* others are listed in the body of the review, as many as fit under the   *)
(* limit of the forge.  Bodies are sizes here; what a fold makes of one is *)
(* the subject of BodyFold.                                                *)
(***************************************************************************)
EXTENDS Integers, Sequences, FiniteSets, SequencesExt, FiniteSetsExt

CONSTANTS
  Reports,  \* lists of findings
  Proses,   \* summaries of the report: size, and whether they have a footer
  Limits,   \* bytes that a body may have
  BodyHeader, MarkerFooter, ProseFooter, Trailer, Heading, SkippedFrame, ClosingLine, LeastFold  \* sizes

(* A finding has an id, the key of its consolidation or "none", whether it *)
(* is primary there, the stamp of its delivery group, whether it is told   *)
(* at all, has a place in the diff, goes to the body by its disposition,   *)
(* its dimension (from 1), and a size.                                     *)
DeliveryStamp == [issue : STRING, lead : Nat, ids : Seq(Nat)]
ReportFinding ==
  [id : Nat, key : STRING, stamp : DeliveryStamp, primary : BOOLEAN, told : BOOLEAN,
   anchored : BOOLEAN, body : BOOLEAN, dimension : Nat \ {0}, size : Nat]
NoStamp == [issue |-> "none", lead |-> 0, ids |-> <<>>]

(* mergeFindings keeps one of the findings that share an id: none comes    *)
(* twice.                                                                  *)
ASSUME ReviewAssumption ==
  /\ {BodyHeader, MarkerFooter, ProseFooter, Trailer, Heading, SkippedFrame, ClosingLine, LeastFold} \subseteq Nat
  /\ Limits \subseteq Nat
  /\ Proses \subseteq [size : Nat, footer : BOOLEAN]
  /\ \A r \in Reports :
       r \in Seq(ReportFinding) /\ \A i, j \in DOMAIN r : i # j => r[i] # r[j]

VARIABLES
  report,    \* the findings of the report
  prose,
  limit,
  stage,      \* "new", "rendering", "composed", "posted", "refused", "refused by the forge"
  groups,    \* groups yet to render: sequences of findings, the lead first
  comments,  \* inline comments: findings and size
  listed,    \* groups for the body
  review     \* the composed body
githubVars == <<report, prose, limit, stage, groups, comments, listed, review>>

NoReview == [size |-> 0, shown |-> <<>>, omitted |-> <<>>, folded |-> FALSE]

GInit ==
  /\ report \in Reports /\ prose \in Proses /\ limit \in Limits
  /\ stage = "new"
  /\ groups = <<>> /\ comments = <<>> /\ listed = <<>>
  /\ review = NoReview

Refuse == stage' = "refused" /\ UNCHANGED <<report, prose, limit, review>>
-----------------------------------------------------------------------------
(* Groups                                                                  *)

Stamped(f) == f.stamp # NoStamp

(* validate_review_input: the stamp names the finding and its lead. *)
Malformed(f) == Stamped(f) /\ ~({f.id, f.stamp.lead} \subseteq ToSet(f.stamp.ids))

(* consolidate_delivery: the key of a group; a finding without one, or one *)
(* that is not told, is alone. *)
Key(f) == IF Stamped(f) THEN f.stamp.issue ELSE f.key
Alone(f) == Key(f) = "none"

(* sorted by a key, which keeps the order of equals. *)
SortedBy(s, key) ==
  LET rank(i) == 1 + Cardinality({j \in DOMAIN s : key[j] < key[i] \/ (key[j] = key[i] /\ j < i)})
  IN [r \in DOMAIN s |-> s[CHOOSE i \in DOMAIN s : rank(i) = r]]

(* Grouped come in the order of the stamp of the first, else of the list;  *)
(* the lead is the stamped one, else the first that calls itself primary,  *)
(* else the first. *)
Position(f, ids) == CHOOSE i \in DOMAIN ids : ids[i] = f.id
InOrder(members) ==
  IF Stamped(members[1])
  THEN SortedBy(members, [i \in DOMAIN members |-> Position(members[i], members[1].stamp.ids)])
  ELSE members
Leads(f, first) == IF Stamped(first) THEN f.id = first.stamp.lead ELSE f.primary
LeadFirst(members) ==
  LET leads == {i \in DOMAIN members : Leads(members[i], members[1])}
      lead == IF leads = {} THEN 1 ELSE Min(leads)
  IN <<members[lead]>> \o RemoveAt(members, lead)
AsGroup(members) == LeadFirst(InOrder(members))

Join(found, f) ==
  LET same == {i \in DOMAIN found : ~Alone(f) /\ Key(found[i][1]) = Key(f)}
  IN IF same = {} THEN Append(found, <<f>>) ELSE [found EXCEPT ![Min(same)] = Append(@, f)]
Grouped ==
  LET joined[i \in 0..Len(report)] ==
        IF i = 0 THEN <<>>
        ELSE IF report[i].told THEN Join(joined[i - 1], report[i]) ELSE joined[i - 1]
  IN joined[Len(report)]

(* The stamps of two members may disagree; the sort then raises.           *)
Disagree(members) ==
  Stamped(members[1]) /\ \E f \in ToSet(members) : f.id \notin ToSet(members[1].stamp.ids)

Plan ==
  /\ stage = "new"
  /\ IF (\E f \in ToSet(report) : Malformed(f)) \/ (\E g \in ToSet(Grouped) : Disagree(g))
     THEN Refuse /\ UNCHANGED <<groups, comments, listed>>
     ELSE /\ groups' = [i \in DOMAIN Grouped |-> AsGroup(Grouped[i])]
          /\ stage' = "rendering"
          /\ UNCHANGED <<report, prose, limit, comments, listed, review>>
-----------------------------------------------------------------------------
(* Inline comments                                                         *)

SizeOf(fs) ==
  LET size[i \in 0..Len(fs)] == IF i = 0 THEN 0 ELSE size[i - 1] + fs[i].size
  IN size[Len(fs)]

(* What a fold may leave: nothing but the notice, or up to the last byte. *)
AfterFold(allowance) == {LeastFold} \cup {n \in {allowance} : n > LeastFold}

(* compose_inline_body: the trailer comes after the fold. *)
InlineSizes(group) ==
  IF SizeOf(group) <= limit - Trailer THEN {SizeOf(group) + Trailer}
  ELSE {n + Trailer : n \in AfterFold(limit - Trailer)}

(* One comment over the limit, and nothing is posted at all. *)
RenderInline ==
  /\ stage = "rendering" /\ groups # <<>> /\ Head(groups)[1].anchored
  /\ groups' = Tail(groups)
  /\ \E size \in InlineSizes(Head(groups)) :
       IF size > limit THEN Refuse /\ UNCHANGED <<comments, listed>>
       ELSE /\ comments' = Append(comments, [findings |-> Head(groups), size |-> size])
            /\ UNCHANGED <<report, prose, limit, stage, listed, review>>

(* The lead has no place in the diff: all of the group goes to the body.   *)
RenderListed ==
  /\ stage = "rendering" /\ groups # <<>> /\ ~Head(groups)[1].anchored
  /\ groups' = Tail(groups)
  /\ listed' = Append(listed, Head(groups))
  /\ UNCHANGED <<report, prose, limit, stage, comments, review>>
-----------------------------------------------------------------------------
(* The body                                                                *)

Gap == 2
CountLen(n) == IF n < 2 THEN 1 ELSE 2
Plural(n) == IF n = 1 THEN 0 ELSE 1

(* _skipped_frame and _closing_line: the counts are spelled out. *)
FrameSize(n, shown) == SkippedFrame + CountLen(n) + Plural(n) + CountLen(shown) + Plural(shown)
ClosingSize(m, n) == ClosingLine + CountLen(m) + CountLen(n) + Plural(n) + Plural(m)
(* Mutant: the line that says how many are missing is not reserved for.    *)
MutantSkippedReserve(n) == Max({FrameSize(n, s) : s \in {0, n}})
SkippedReserve(n) == Max({FrameSize(n, s) : s \in {0, n}}) + ClosingSize(n, n)

(* _ordered_skipped_groups: what goes to the body by its disposition is    *)
(* listed by dimension, after what only lost its place. *)
DimensionOf(f) == IF f.body THEN f.dimension ELSE 0
InDigestOrder(gs) == SortedBy(gs, [i \in DOMAIN gs |-> DimensionOf(gs[i][1])])

(* _digest_pieces: a heading where a dimension comes up first. *)
Piece(acc, f) ==
  LET new == {DimensionOf(f)} \ (acc.dimensions \cup {0})
  IN [size |-> acc.size + f.size + Heading * Cardinality(new), dimensions |-> acc.dimensions \cup new]
Pieces(entries, dimensions) ==
  LET pieces[i \in 0..Len(entries)] ==
        IF i = 0 THEN [size |-> 0, dimensions |-> dimensions] ELSE Piece(pieces[i - 1], entries[i])
  IN pieces[Len(entries)]

(* digest_groups: whole groups, as long as they fit what remains. *)
Take(acc, g) ==
  LET piece == Pieces(g, acc.dimensions)
  IN IF piece.size > acc.room
     THEN [acc EXCEPT !.omitted = @ \o g]
     ELSE [shown |-> acc.shown \o g, omitted |-> acc.omitted,
           dimensions |-> piece.dimensions, room |-> acc.room - piece.size]
Digest(gs, room) ==
  LET taken[i \in 0..Len(gs)] ==
        IF i = 0 THEN [shown |-> <<>>, omitted |-> <<>>, dimensions |-> {}, room |-> room]
        ELSE Take(taken[i - 1], gs[i])
  IN taken[Len(gs)]

Joined(parts) == IF parts = 0 THEN 0 ELSE Gap + parts

(* _compose_fragments; _bounded_section says how many are missing. *)
SectionSize(n, shown) ==
  IF n = 0 THEN 0
  ELSE FrameSize(n, Len(shown)) + Pieces(shown, {}).size
         + IF Len(shown) = n THEN 0 ELSE Gap + ClosingSize(n - Len(shown), n)
BodySize(text, section, footer) == BodyHeader + Joined(text) + Joined(section) + footer

FullFooter == MarkerFooter + ProseFooter

(* All of it, its own prose footer left out where the prose has one; else  *)
(* the envelope is reserved, and the prose is folded, or some groups are   *)
(* left out. *)
WholeBody(entries) ==
  BodySize(prose.size, SectionSize(Len(entries), entries),
           IF prose.footer THEN MarkerFooter ELSE FullFooter)
Envelope(n) ==
  BodyHeader + FullFooter + (IF prose.size > 0 THEN Gap ELSE 0)
    + (IF n > 0 THEN 2 * Gap + SkippedReserve(n) ELSE 0)

Composed(entries, gs) ==
  LET n == Len(entries)
      allowance == limit - Envelope(n)
      digest == Digest(gs, allowance - prose.size)
  IN IF WholeBody(entries) <= limit
     THEN {[size |-> WholeBody(entries), shown |-> entries, omitted |-> <<>>, folded |-> FALSE]}
     ELSE IF prose.size > 0 /\ prose.size > allowance
     THEN {[size |-> BodySize(text, SectionSize(n, <<>>), FullFooter),
            shown |-> <<>>, omitted |-> entries, folded |-> TRUE] : text \in AfterFold(allowance)}
     ELSE {[size |-> BodySize(prose.size, SectionSize(n, digest.shown), FullFooter),
            shown |-> digest.shown, omitted |-> digest.omitted, folded |-> FALSE]}

Compose ==
  /\ stage = "rendering" /\ groups = <<>>
  /\ LET gs == InDigestOrder(listed) IN review' \in Composed(FlattenSeq(gs), gs)
  /\ stage' = "composed"
  /\ UNCHANGED <<report, prose, limit, groups, comments, listed>>

(* plan_summary refuses what is over the limit; the forge may refuse too.  *)
Submit ==
  /\ stage = "composed"
  /\ stage' \in IF review.size > limit THEN {"refused"} ELSE {"posted", "refused by the forge"}
  /\ UNCHANGED <<report, prose, limit, groups, comments, listed, review>>

GNext == Plan \/ RenderInline \/ RenderListed \/ Compose \/ Submit

GSpec == GInit /\ [][GNext]_githubVars
-----------------------------------------------------------------------------
(* Told once: each finding that may be told is in one inline comment, or   *)
(* in the body, or among those the body says are missing.                  *)
Places(f) ==
  Cardinality({i \in DOMAIN comments : f \in ToSet(comments[i].findings)})
    + Cardinality({i \in DOMAIN review.shown : review.shown[i] = f})
    + Cardinality({i \in DOMAIN review.omitted : review.omitted[i] = f})
EachToldOnce ==
  stage \in {"composed", "posted"} => \A f \in ToSet(report) : Places(f) = IF f.told THEN 1 ELSE 0

(* A group is shown with all its members or not at all.                    *)
GroupsAreWhole ==
  stage \in {"composed", "posted"} =>
    \A g \in ToSet(listed) :
      ToSet(g) \subseteq ToSet(review.shown) \/ ToSet(g) \cap ToSet(review.shown) = {}

(* What is composed can be posted, unless there is not even room for the   *)
(* frame without any prose or finding: then nothing could be.              *)
Skeleton ==
  LET n == Len(review.shown) + Len(review.omitted)
  IN BodySize(IF prose.size > 0 THEN LeastFold ELSE 0, SectionSize(n, <<>>), FullFooter)
RefusedOnlyIfHopeless == stage = "composed" /\ review.size > limit => Skeleton > limit

(* Nothing is left out of a body that could hold all.                      *)
LeftOutOnlyIfNeeded ==
  stage = "composed" /\ review.omitted # <<>> =>
    WholeBody(FlattenSeq(InDigestOrder(listed))) > limit

GithubReviewTellsAll ==
  EachToldOnce /\ GroupsAreWhole /\ RefusedOnlyIfHopeless /\ LeftOutOnlyIfNeeded
=============================================================================
