---------------------------- MODULE ScoreEvidence ----------------------------
(***************************************************************************)
(* What a score counts (bench/runner/score.py, observations.py, stages.py, *)
(* provenance.py, adapter/adapt.py, and the diagnostics of compare.py).    *)
(* What a review posted is judged twice: its inline comments alone, which  *)
(* is the score, and comments and body entries together, as a view beside  *)
(* it.  A judge groups duplicates and names a winner for each known bug;   *)
(* an adjudicator sorts what matched nothing; the packet is written whole  *)
(* and read again by everyone from its evidence.                           *)
(*                                                                         *)
(* A candidate is a pull request and a place in what was posted there:     *)
(* inline comments come first in both populations, so a comment keeps its  *)
(* identity.  Judge and adjudicator are services: any answer may come.     *)
(***************************************************************************)
EXTENDS Integers, Sequences, FiniteSets, FiniteSetsExt, SequencesExt

CONSTANTS
  PostedReviews,      \* what may have been posted: sets of groups for each pull request
  Golden,      \* pull request |-> its known bugs
  CoreGolden,  \* the bugs of the core profile
  Producer,    \* occurrence |-> the dimension that discovered it
  MaxPosted    \* bound on the groups posted to one pull request

Reviewed == DOMAIN Golden
Group == [place : {"inline", "body", "omitted"}, sources : (SUBSET DOMAIN Producer) \ {{}}]
ReviewRecord == [failed : BOOLEAN, evidence : {"bound", "bodyless", "absent", "error"}, groups : Seq(Group)]
Traceable(evidence) == evidence \in {"bound", "bodyless"}

(* A known bug belongs to one pull request.  A review whose comments are   *)
(* bound to its findings names none of them twice (map_delivery). *)
ASSUME EvidenceAssumption ==
  /\ MaxPosted \in Nat /\ IsFiniteSet(Reviewed) /\ IsFiniteSet(DOMAIN Producer)
  /\ CoreGolden \subseteq UNION Range(Golden)
  /\ \A p, q \in Reviewed : p # q => Golden[p] \cap Golden[q] = {}
  /\ \A r \in PostedReviews :
       /\ r \in [Reviewed -> ReviewRecord]
       /\ \A p \in Reviewed :
            /\ Len(r[p].groups) <= MaxPosted
            /\ Traceable(r[p].evidence) =>
                 \A i, j \in 1..Len(r[p].groups) :
                   i # j => r[p].groups[i].sources \cap r[p].groups[j].sources = {}

VARIABLES
  reviewed,      \* pull request |-> groups in order, its evidence, and whether it failed
  tree,          \* whether a plugin tree of the treatment can still be found
  inlineScore,   \* what judge and adjudicator said of the inline comments
  surfaceView,   \* and of comments and body entries together
  packet         \* where the scorer is: assembled, judged, sorted, viewed, published, raised

evidenceVars == <<reviewed, tree, inlineScore, surfaceView, packet>>

Unjudged == [kind |-> "none"]

EvidenceInit ==
  /\ reviewed \in PostedReviews /\ tree = TRUE
  /\ inlineScore = Unjudged /\ surfaceView = Unjudged
  /\ packet = "assembled"
-----------------------------------------------------------------------------
(* Candidates *)

PlacedAt(groups, place) ==
  LET placed[i \in 0..Len(groups)] ==
        IF i = 0 THEN <<>>
        ELSE IF groups[i].place = place THEN Append(placed[i - 1], groups[i]) ELSE placed[i - 1]
  IN placed[Len(groups)]
PostedIn(p, place) == IF reviewed[p].failed THEN <<>> ELSE PlacedAt(reviewed[p].groups, place)

(* reconstruct_delivery: anchored groups, then what the summary tells; a   *)
(* group that posting or its budget left out is an omission. *)
InlineOf(p) == PostedIn(p, "inline")
SurfaceOf(p) == InlineOf(p) \o PostedIn(p, "body")

(* trace_delivery and bind_candidates: the occurrences behind a comment    *)
(* are known when the payload is what the selected findings render to. *)
Bound(p) == Traceable(reviewed[p].evidence)
SourcesOf(p, g) == IF Bound(p) THEN g.sources ELSE {}
DimensionsOf(p, g) == IF Bound(p) THEN {Producer[s] : s \in g.sources} ELSE {"unknown"}

(* candidate_records of a population *)
Population(view) == [p \in Reviewed |-> IF view = "inline" THEN InlineOf(p) ELSE SurfaceOf(p)]
Candidates(pop) == {c \in Reviewed \X (1..MaxPosted) : c[2] <= Len(pop[c[1]])}
IssueOf(pop, c) == SourcesOf(c[1], pop[c[1]][c[2]])
PlaceOf(pop, c) == pop[c[1]][c[2]].place
-----------------------------------------------------------------------------
(* The judge *)

(* dedup_groups: the groups named, and each other candidate on its own. *)
Groupings ==
  [n \in 0..MaxPosted |->
     {P \in SUBSET ((SUBSET (1..n)) \ {{}}) :
        UNION P = 1..n /\ \A a, b \in P : a = b \/ a \cap b = {}}]

(* An answer: groups, and the winner of each bug if it has one.  Its own   *)
(* count of false positives, which only the score's precision shows, is    *)
(* left out. *)
Answers(p, pop) ==
  LET n == Len(pop[p])
  IN [groups : Groupings[n],
      winner : [Golden[p] -> IF reviewed[p].failed THEN {0} ELSE 0..n]]

(* build_observations: the winner is credited with its duplicates. *)
MatchesOf(judged, b, p) ==
  LET w == judged[p].winner[b]
  IN IF w = 0 THEN {} ELSE {<<p, i>> : i \in CHOOSE g \in judged[p].groups : w \in g}
MatchedIn(judged) == [p \in Reviewed |-> [b \in Golden[p] |-> MatchesOf(judged, b, p)]]

(* union_surface_observations: the judge lets candidates compete for a     *)
(* bug, so a comment that hit it alone may lose it to a body entry; the    *)
(* hit is kept, under the candidate of the same issue. *)
Carried(own, p, b) ==
  LET before == Population("inline")
      after == Population("all")
  IN own \cup {c \in Candidates(after) :
                 c[1] = p /\ \E m \in inlineScore.matches[p][b] : IssueOf(before, m) = IssueOf(after, c)}

CreditedIn(matches) == UNION {UNION Range(matches[p]) : p \in Reviewed}
Unmatched(pop, matches) == Candidates(pop) \ CreditedIn(matches)

(* The harness counts the false positives of the surface view itself: the  *)
(* groups with no credited member that hold a candidate of the kind asked. *)
Groups(view) == UNION {{{<<p, i>> : i \in g} : g \in view.judged[p].groups} : p \in Reviewed}
FalseGroups(view, wanted) ==
  {g \in Groups(view) : g \cap wanted # {} /\ g \cap CreditedIn(view.matches) = {}}

JudgeAll(pop) == [p \in Reviewed |-> Answers(p, pop)]
Judgements(pop) ==
  {j \in [Reviewed -> UNION Range(JudgeAll(pop))] : \A p \in Reviewed : j[p] \in JudgeAll(pop)[p]}

(* score_run: without the treatment's tree nothing is scored; an answer    *)
(* that is missing, in error or does not cover the bugs ends the command.  *)
Judge ==
  /\ packet = "assembled"
  /\ \/ /\ tree \/ \A p \in Reviewed : reviewed[p].failed \/ reviewed[p].evidence = "absent"
        /\ \E judged \in Judgements(Population("inline")) :
             inlineScore' = [kind |-> "judged", judged |-> judged, matches |-> MatchedIn(judged),
                             verdicts |-> <<>>]
        /\ packet' = "judged"
     \/ packet' = "raised" /\ UNCHANGED inlineScore
  /\ UNCHANGED <<reviewed, tree, surfaceView>>

(* _capture_adjudications: a verdict for each candidate without a match;   *)
(* one that cannot be had ends what asked for it. *)
Verdicts(rest) == {[c \in rest |-> v] : v \in {"valid_extra", "noise"}}

Sort ==
  /\ packet = "judged"
  /\ \/ /\ \E v \in Verdicts(Unmatched(Population("inline"), inlineScore.matches)) :
             inlineScore' = [inlineScore EXCEPT !.verdicts = v]
        /\ packet' = "sorted"
     \/ packet' = "raised" /\ UNCHANGED inlineScore
  /\ UNCHANGED <<reviewed, tree, surfaceView>>

(* _collect_surface_candidates: every review that did not fail must be     *)
(* bound, with the body it was written from. *)
SurfaceIsKnown == \A p \in Reviewed : reviewed[p].failed \/ reviewed[p].evidence = "bound"

(* score_surface_view; when it fails the score stands without the view. *)
ViewSurface ==
  /\ packet = "sorted"
  /\ \/ /\ SurfaceIsKnown
        /\ \E judged \in Judgements(Population("all")) :
             LET own == MatchedIn(judged)
                 matches == [p \in Reviewed |-> [b \in Golden[p] |-> Carried(own[p][b], p, b)]]
             IN \E v \in Verdicts(Unmatched(Population("all"), matches)) :
                  surfaceView' = [kind |-> "judged", judged |-> judged, matches |-> matches, verdicts |-> v]
     \/ UNCHANGED surfaceView
  /\ packet' = "viewed"
  /\ UNCHANGED <<reviewed, tree, inlineScore>>

(* _load_packet, before the rename and by every reader after it: what is   *)
(* bound is rendered again, under a plugin tree of the treatment. *)
Rendered == tree \/ \A p \in Reviewed : reviewed[p].failed \/ reviewed[p].evidence \in {"absent", "error"}

(* write_packet *)
Write ==
  /\ packet = "viewed"
  /\ packet' = IF Rendered THEN "published" ELSE "raised"
  /\ UNCHANGED <<reviewed, tree, inlineScore, surfaceView>>

(* The checkout that holds the treatment moves on. *)
TreeMoves ==
  /\ tree /\ packet # "raised"
  /\ tree' = FALSE
  /\ UNCHANGED <<reviewed, inlineScore, surfaceView, packet>>

EvidenceNext == Judge \/ Sort \/ ViewSurface \/ Write \/ TreeMoves
EvidenceSpec == EvidenceInit /\ [][EvidenceNext]_evidenceVars
-----------------------------------------------------------------------------
(* The diagnostics of a comparison (delivery_diagnostics) *)

Wanted(place) ==
  LET pop == Population("all")
  IN {c \in Candidates(pop) : place = "all" \/ PlaceOf(pop, c) = place}

(* packet_precision: bugs of the profile that a candidate of the kind hit, *)
(* and its false positives. *)
Hits(matches, wanted) ==
  {b \in CoreGolden : \E p \in Reviewed : b \in Golden[p] /\ matches[p][b] \cap wanted # {}}
Precision(place) ==
  [tp |-> Hits(surfaceView.matches, Wanted(place)),
   fp |-> Cardinality(FalseGroups(surfaceView, Wanted(place)))]

(* _observed_sole_matches: the bugs that only one kind of candidate hit;   *)
(* of a dimension nothing is said of a review with a hit of unknown origin. *)
SoleMatches(p, cands) ==
  {b \in Golden[p] : surfaceView.matches[p][b] # {} /\ surfaceView.matches[p][b] \subseteq cands}
SoleOf(place) == UNION {SoleMatches(p, Wanted(place)) : p \in Reviewed}
OriginOf(pop, c) == DimensionsOf(c[1], pop[c[1]][c[2]])
SoleBy(d) ==
  LET pop == Population("all")
      told(p) == \A b \in Golden[p] : \A c \in surfaceView.matches[p][b] : "unknown" \notin OriginOf(pop, c)
  IN UNION {SoleMatches(p, {c \in Candidates(pop) : OriginOf(pop, c) = {d}}) : p \in {q \in Reviewed : told(q)}}

(* _delivery_burden of the candidates of one review: issues when each is   *)
(* known, occurrences when the dimension of each is known too. *)
Burden(pop, cands) ==
  LET known == \A c \in cands : IssueOf(pop, c) # {}
      traced == known /\ \A c \in cands : "unknown" \notin OriginOf(pop, c)
      issues == {IssueOf(pop, c) : c \in cands}
  IN [records |-> Cardinality(cands), known |-> known, traced |-> traced,
      issues |-> IF known THEN Cardinality(issues) ELSE 0,
      sources |-> IF traced THEN Cardinality(UNION issues) ELSE 0]

(* credited_dimensions, and the recall of a dimension when it is known.    *)
CreditedTo(p, b) ==
  LET pop == Population("inline")
  IN UNION {OriginOf(pop, c) : c \in {m \in inlineScore.matches[p][b] : Bound(p)}}
RecallKnown == \A c \in Candidates(Population("inline")) : Bound(c[1])

(* _record_coalescence: one decision after the other, overlapping groups   *)
(* grow together. *)
GrowWith(d, sofar) ==
  LET met == {g \in sofar : g \cap d # {}} IN (sofar \ met) \cup {(UNION met) \cup d}
Coalesced(decisions) == FoldSet(GrowWith, {}, decisions)
-----------------------------------------------------------------------------
(* A group of coalesced occurrences is what its decisions connect.         *)
CoalescedOnce ==
  \A decisions \in UNION {kSubset(k, {s \in SUBSET DOMAIN Producer : Cardinality(s) \in 2..3}) : k \in 0..3} :
    LET closed(T) == \A d \in decisions : d \cap T # {} => d \subseteq T
        component(s) ==
          {t \in DOMAIN Producer : \A T \in SUBSET DOMAIN Producer : s \in T /\ closed(T) => t \in T}
    IN Coalesced(decisions) = {component(s) : s \in UNION decisions}

(* Every candidate of a population is credited or has a verdict, not both, *)
(* and a review that failed is credited with nothing. *)
AllSorted(pop, view) ==
  /\ DOMAIN view.verdicts = Candidates(pop) \ CreditedIn(view.matches)
  /\ CreditedIn(view.matches) \subseteq {c \in Candidates(pop) : ~reviewed[c[1]].failed}

(* The view of all surfaces keeps every hit of the score; the bugs that    *)
(* only body entries hit are bugs the score missed; comments and body      *)
(* divide hits and false positives between them. *)
SurfacesAddUp ==
  /\ \A p \in Reviewed : \A b \in Golden[p] :
       /\ inlineScore.matches[p][b] # {} => surfaceView.matches[p][b] # {}
       /\ b \in SoleOf("body") => inlineScore.matches[p][b] = {}
  /\ LET shared == Hits(surfaceView.matches, Wanted("inline")) \cap Hits(surfaceView.matches, Wanted("body"))
     IN /\ Precision("all").tp = shared \cup ((SoleOf("inline") \cup SoleOf("body")) \cap CoreGolden)
        /\ shared \cap (SoleOf("inline") \cup SoleOf("body")) = {}
        /\ SoleOf("inline") \cap SoleOf("body") = {}
  /\ FalseGroups(surfaceView, Wanted("inline")) \cup FalseGroups(surfaceView, Wanted("body"))
       = FalseGroups(surfaceView, Wanted("all"))
  /\ Precision("all").fp + Cardinality({g \in Groups(surfaceView) : g \cap CreditedIn(surfaceView.matches) # {}})
       = Cardinality(Groups(surfaceView))
  /\ \A d, e \in Range(Producer) : d # e => SoleBy(d) \cap SoleBy(e) = {}

Occurrences(pop, c) == Cardinality(pop[c[1]][c[2]].sources)

(* What is told of origins is told of all: an issue is counted once, its   *)
(* occurrences once, and a credited bug has a dimension.                   *)
OriginsAreTold ==
  LET pop == Population("inline")
      cands(p) == {c \in Candidates(pop) : c[1] = p}
  IN /\ (\A p \in Reviewed : Burden(pop, cands(p)).known) <=> RecallKnown
     /\ \A p \in Reviewed :
          /\ Burden(pop, cands(p)).known => Burden(pop, cands(p)).issues = Burden(pop, cands(p)).records
          /\ Burden(pop, cands(p)).traced =>
               Burden(pop, cands(p)).sources
                 = MapThenSumSet(LAMBDA c : Occurrences(pop, c), cands(p))
     /\ RecallKnown =>
          \A p \in Reviewed : \A b \in Golden[p] : inlineScore.matches[p][b] # {} => CreditedTo(p, b) # {}

(* A published score counts what was posted, once: whatever judge and      *)
(* adjudicator answer, and whichever review failed or cannot be traced. *)
CreditIsCounted ==
  /\ CoalescedOnce
  /\ packet = "published" =>
       /\ AllSorted(Population("inline"), inlineScore)
       /\ OriginsAreTold
       /\ surfaceView # Unjudged =>
            /\ SurfaceIsKnown
            /\ AllSorted(Population("all"), surfaceView)
            /\ SurfacesAddUp
=============================================================================
