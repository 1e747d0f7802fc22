----------------------------- MODULE MCPrograms -----------------------------
(***************************************************************************)
(* The programs around the workflow, in one run of TLC: the rounds of      *)
(* reviews of a pull request, the walk over a diff, the place and blame of *)
(* a finding, what its fix may touch, what a body over the limit is folded *)
(* to, the review posted to GitHub, the rules of a repository that the     *)
(* reviewers get, the stage at which a missed bug was lost, and what a     *)
(* score counts.  topic says which a behaviour is about; what it is not    *)
(* about stays as it started.                                              *)
(***************************************************************************)
EXTENDS FixOutlets, DiffWalk, ReviewRounds, BodyFold, GithubReview, ProjectRules,
        Measurement, TLC

VARIABLE topic
-----------------------------------------------------------------------------
(* Files, quotes and claims *)

Of3(n) == [mark |-> "none", body |-> n]
Numbered(n) == [mark |-> "read", body |-> n]
Removed(n) == [mark |-> "old", body |-> n]

(* A repeated line, a line like a listing of another, and a blank. *)
Texts == {<<Of3(2), Of3(3), Of3(2)>>, <<Numbered(2), Of3(2), Of3(1)>>,
          <<Of3(1), Of3(2), Of3(1), Of3(2)>>, <<Of3(2), Of3(0), Of3(1)>>}

Source(lines, hunks, added, ours, local) ==
  [lines |-> lines, readable |-> TRUE, diff |-> TRUE, index |-> TRUE, hunks |-> hunks,
   local |-> local, added |-> added, ours |-> ours]
Cuts == {<<{<<1, 2>>}, {1}>>, <<{<<2, 3>>}, {3}>>}
Committed == {Source(t, c[1], c[2], c[2], FALSE) : t \in Texts, c \in Cuts}
McSources ==
  Committed
    \cup {Source(t, c[1], c[2], {2}, TRUE) : t \in Texts, c \in Cuts}
    \cup {[Source(t, {<<1, 2>>}, {1}, {1}, FALSE) EXCEPT !.diff = FALSE] : t \in Texts}
    \cup {[Source(<<Of3(2)>>, {<<1, 2>>}, {1}, {1}, FALSE) EXCEPT !.readable = FALSE]}

NoHint == [side |-> "none", line |-> 0, quoted |-> FALSE]
Hints == {NoHint} \cup [side : {"head"}, line : 1..3, quoted : {FALSE}]
           \cup [side : {"old"}, line : {1}, quoted : BOOLEAN]
Request(anchor, claim, hint, removed, cross) ==
  [anchor |-> anchor, start |-> claim[1], end |-> claim[2], hint |-> hint,
   removed |-> removed, cross |-> cross, severity |-> 2, confidence |-> 60, symbols |-> cross]

Singles ==
  LET anchors == {<<>>, <<Of3(2)>>, <<Of3(3)>>, <<Numbered(2)>>, <<Of3(1), Of3(2)>>,
                  <<Numbered(1), Numbered(2)>>, <<Removed(2)>>, <<Of3(1)>>, <<Of3(2), Of3(0)>>}
      flags == {<<FALSE, FALSE>>, <<TRUE, FALSE>>, <<FALSE, TRUE>>}
  IN {<<Request(a, <<c, c>>, h, f[1], f[2])>> : a \in anchors, c \in 1..3, h \in Hints, f \in flags}
       \cup {<<Request(a, <<0, 0>>, NoHint, f[1], f[2])>> : a \in anchors, f \in flags}
Pairs ==
  LET anchors == {<<Of3(2)>>, <<Of3(3)>>, <<Numbered(2)>>, <<Of3(1), Of3(2)>>,
                  <<Removed(2)>>, <<Of3(2), Of3(3)>>}
      claims == {<<1, 1>>, <<2, 3>>, <<4, 0>>}
  IN {<<Request(a, c, NoHint, FALSE, FALSE), Request(b, d, NoHint, FALSE, FALSE)>> :
        a \in anchors, b \in anchors, c \in claims, d \in {<<1, 1>>}}
McSlices == Singles \cup Pairs

Offer(stamped, lines) ==
  [stamped |-> stamped, task |-> lines # <<>>, fix |-> [given |-> TRUE, sound |-> TRUE, lines |-> lines]]
McOffers ==
  {<<Offer("held_back", <<>>)>>,
   <<Offer("deliver", <<Of3(2)>>), Offer("deliver", <<>>)>>,
   <<Offer("body", <<>>), Offer("body", <<Of3(1)>>)>>}

(* Nothing, all or part of a file, and a file that changed meanwhile. *)
View(text, lines) == [none |-> FALSE, text |-> [i \in lines |-> text[i]]]
McViews ==
  {[none |-> TRUE, text |-> <<>>], View(<<Of3(3), Of3(2), Of3(1), Of3(2)>>, 2..4)}
    \cup {View(t, 1..Len(t)) : t \in Texts}
-----------------------------------------------------------------------------
(* Changes *)

Say(n) == [id |-> n, seems |-> <<>>]
LikeHeader(path) == [id |-> 9, seems |-> path]
Signed(sign, text) == [sign |-> sign, text |-> text, bare |-> FALSE, open |-> FALSE]
Open(l) == [l EXCEPT !.open = TRUE]
HunkOf(old, new, body) == [old |-> old, new |-> new, body |-> body]

Edits ==
  {<<HunkOf(1, 1, <<Signed("-", LikeHeader(<<"a", "z">>)), Signed("+", LikeHeader(<<"b", "z">>)),
                    Signed(" ", Say(1))>>),
     HunkOf(5, 5, <<Signed("+", Say(2)), Signed("-", Say(3)), Signed("-", LikeHeader(<<"z">>))>>)>>,
   <<HunkOf(3, 4, <<Open(Signed("-", Say(1))), Open(Signed("+", Say(2)))>>)>>,
   <<HunkOf(2, 2, <<[Signed(" ", Say(0)) EXCEPT !.bare = TRUE], Signed("-", Say(2)),
                    Signed(" ", Say(3))>>)>>}
Deletion == <<HunkOf(1, 0, <<Signed("-", Say(1)), Signed("-", LikeHeader(<<"a", "z">>))>>)>>
Creation == <<HunkOf(0, 1, <<Signed("+", Say(1)), Signed("+", LikeHeader(<<"z">>))>>)>>

Change(old, new, hunks) == [old |-> old, new |-> new, hunks |-> hunks]
X == <<"x">>
BX == <<"b", "x">>
AX == <<"a", "x">>
Y == <<"y">>

(* Real directories a and b, moves between them, an edit of an empty file, *)
(* a binary change and a move without one.                                 *)
First == {Change(n[1], n[2], h) : n \in {<<X, X>>, <<AX, BX>>, <<BX, BX>>}, h \in Edits}
           \cup {Change(X, X, Creation), Change(AX, AX, <<>>), Change(AX, BX, <<>>)}
Second == {Change(n, n, h) : n \in {X, Y}, h \in Edits}
            \cup {Change(Y, Y, Creation), Change(X, Y, <<>>)}
TwoFiles(shape, one, other) ==
  {p \in {[shape |-> shape, files |-> <<a, b>>] : a \in one, b \in other} :
     p.files[1].new # p.files[2].new}
McPatches ==
  TwoFiles("git", First \cup {Change(X, Null, Deletion), Change(Null, BX, Creation)},
                  Second \cup {Change(Null, Y, Creation)})
    \cup TwoFiles("plain", First \cup {Change(X, X, Deletion)}, Second)
-----------------------------------------------------------------------------
(* Bodies to fold: one to three blocks, some longer than what closes them. *)

Ticks(n) == [i \in 1..n |-> "t"]
Fence(n, word, text) == Ticks(n) \o word \o <<"n">> \o text \o <<"n">> \o Ticks(n)
Blocks == {<<"x", "w", "w", "x">>, <<"x", "t", "x", "x", "t", "x">>,
           Fence(3, <<>>, <<"x", "n", "t", "t", "t", "x">>),
           Fence(6, <<>>, <<"x", "n", "x", "n", "x", "n", "w">>),
           Fence(5, <<>>, <<"x", "x", "x", "x", "x", "x", "x", "w">>)}
Patched == {Fence(3, <<"s">>, <<"x", "n", "x">>), Fence(4, <<"s">>, <<"t", "t", "t", "n", "x">>)}
McBodies == {a \o <<"n">> \o b : a \in Blocks, b \in Blocks}
              \cup {<<"x", "n">> \o b \o <<"n">> \o c : b \in Patched, c \in Blocks}

(* Reports: findings under one key or stamp, or each alone; stamps that    *)
(* leave out the finding, or disagree. *)
Told3(id, key, stamp, place, dimension, size) ==
  [id |-> id, key |-> key, stamp |-> stamp, primary |-> id = 2, told |-> TRUE,
   anchored |-> place = "diff", body |-> place = "body", dimension |-> dimension, size |-> size]
Stamps(ids, lead) == [issue |-> "issue", lead |-> lead, ids |-> ids]
Keys == {"none", "key"}
McReports ==
  LET firsts == {Told3(1, k, s, p, 1, 2) : k \in Keys, s \in {NoStamp, Stamps(<<2, 1>>, 1)},
                                           p \in {"diff", "body"}}
      seconds == {Told3(2, k, s, p, 2, 3) : k \in Keys,
                    s \in {NoStamp, Stamps(<<2, 1>>, 1), Stamps(<<2>>, 2), Stamps(<<1>>, 1)},
                    p \in {"body", "nowhere"}}
      thirds == {Told3(3, k, NoStamp, "body", 1, 5) : k \in Keys}
  IN {<<>>} \cup {<<a, b, c>> : a \in firsts, b \in seconds, c \in thirds}
            \cup {<<[a EXCEPT !.told = FALSE], b>> : a \in firsts, b \in seconds}
            \cup {<<[a EXCEPT !.size = 6], [b EXCEPT !.size = 6],
                       [a EXCEPT !.id = 3, !.size = 9], [b EXCEPT !.id = 4, !.size = 9]>> :
                    a \in {f \in firsts : f.stamp = NoStamp}, b \in {f \in seconds : f.stamp = NoStamp}}
McProses == {[size |-> 0, footer |-> FALSE], [size |-> 4, footer |-> TRUE],
             [size |-> 9, footer |-> FALSE]}
-----------------------------------------------------------------------------
(* Repositories whose rule files import each other in a knot, copy each    *)
(* other and are too many and too long. *)

RuleFile(size, text, imports) ==
  [kind |-> "regular", place |-> "inside", size |-> size, text |-> text, imports |-> imports]
To(name) == [to |-> name, absolute |-> FALSE]
OutOfReach == {[RuleFile(1, 9, <<>>) EXCEPT !.kind = "missing"],
               [RuleFile(1, 9, <<>>) EXCEPT !.place = "outside"]}
McRepos ==
  LET as == {RuleFile(1, 1, i) :
               i \in {<<To("c")>>, <<To("a")>>, <<[To("c") EXCEPT !.absolute = TRUE], To("b")>>,
                      <<To("b"), To("d")>>, <<To("d"), To("c")>>}}
      bs == {RuleFile(s, t, i) : s \in {2, 3}, t \in {1, 2}, i \in {<<To("c")>>, <<To("a"), To("d")>>}}
      cs == {RuleFile(s, 3, i) : s \in {1, 4}, i \in {<<To("d")>>, <<To("b")>>}} \cup OutOfReach
      ds == {RuleFile(1, 4, <<>>), RuleFile(2, 3, <<To("a")>>)}
  IN {[files |-> [a |-> a, b |-> b, c |-> c, d |-> d], reviews |-> r, rules |-> u,
       changed |-> {<<1, 1>>, <<2>>}] :
        a \in as, b \in bs, c \in cs, d \in ds,
        r \in {<<>>, <<>> :> "c", (<<1>> :> "b") @@ (<<>> :> "d")},
        u \in {(<<>> :> <<"a">>) @@ (<<2>> :> <<"b", "c">>),
               (<<1, 1>> :> <<"b">>) @@ (<<1>> :> <<"d", "a">>)}}
-----------------------------------------------------------------------------
(* Two pull requests, four occurrences: an issue in two comments, one in   *)
(* a comment and the body, omitted, in a review that failed or of which    *)
(* the origins or the body are not known. *)
CONSTANTS u1, u2, k1, k2, k3
McGolden == u1 :> {k1, k2} @@ u2 :> {k3}
McProducer == <<"security", "security", "tests", "unknown">>
At(place, sources) == [place |-> place, sources |-> sources]
Went(evidence, gs) == [failed |-> FALSE, evidence |-> evidence, groups |-> gs]
Lost == [failed |-> TRUE, evidence |-> "absent", groups |-> <<>>]
Reviews2(a, b) == u1 :> a @@ u2 :> b
McPostedReviews ==
  {Reviews2(Went("bound", <<At("inline", {1}), At("inline", {2}), At("body", {3})>>), Lost),
   Reviews2(Went("bound", <<At("inline", {1}), At("body", {2, 3})>>), Went("bound", <<At("body", {1})>>)),
   Reviews2(Went("bound", <<At("inline", {1}), At("inline", {2, 3})>>), Went("error", <<At("inline", {1})>>)),
   Reviews2(Went("bound", <<At("inline", {4}), At("body", {1})>>), Went("bound", <<At("inline", {2})>>)),
   Reviews2(Went("bodyless", <<At("body", {1}), At("inline", {2, 3})>>),
            Went("bound", <<At("omitted", {1}), At("body", {2})>>)),
   Reviews2(Went("absent", <<At("inline", {1})>>), Lost)}
-----------------------------------------------------------------------------
programVars ==
  <<locVars, outVars, walkVars, roundVars, foldVars, githubVars, rulesVars, lossVars, evidenceVars,
    topic>>

(* A source file and a lockfile: both as at the base, one or both changed. *)
CONSTANTS code, lock
McFiles == {code, lock}
Holding(a, b) == [p \in McFiles |-> IF p = code THEN a ELSE b]
McBase == Holding(0, 0)
McTrees == {McBase, Holding(1, 0), Holding(1, 1)}
-----------------------------------------------------------------------------
(* A part the behaviour is not about. *)
NoFinding ==
  /\ file = CHOOSE s \in Committed : TRUE
  /\ slice = CHOOSE s \in Pairs : TRUE
NoOffer == offer = CHOOSE o \in McOffers : Len(o) = Len(slice)
NoDiff == reader = "annotate" /\ change = CHOOSE p \in McPatches : TRUE

NoRounds == repo[2].tree = McBase
NoFold == markdown = <<"x", "w", "w", "x", "n", "x", "w", "w", "x">> /\ allowance = 9 /\ protect = TRUE
NoReport == report = <<>> /\ prose = [size |-> 0, footer |-> FALSE] /\ limit = 9
NoRules == repository = CHOOSE p \in McRepos : TRUE
NoLosses == passing.replayed
NoScore == reviewed = CHOOSE r \in McPostedReviews : TRUE

MCInit ==
  /\ topic \in {"place", "fix", "walk", "rounds", "fold", "github", "rules", "losses", "score"}
  /\ topic # "rules" => NoRules
  /\ RulesInit
  /\ LossInit
  /\ topic # "losses" => NoLosses
  /\ EvidenceInit
  /\ topic # "score" => NoScore
  /\ topic \notin {"place", "fix"} => NoFinding
  /\ topic = "fix" => file \in Committed /\ slice \in Pairs
  /\ topic # "walk" => NoDiff
  /\ LInit
  /\ topic # "fix" => NoOffer
  /\ OInit
  /\ DInit
  /\ RInit
  /\ topic # "rounds" => NoRounds
  /\ topic # "fold" => NoFold
  /\ FInit
  /\ topic # "github" => NoReport
  /\ GInit

MCNext ==
  /\ UNCHANGED topic
  /\ \/ topic = "place" /\ LNext /\ UNCHANGED outVars
     \/ topic = "fix" /\ ONext
     \/ topic \notin {"place", "fix"} /\ UNCHANGED <<locVars, outVars>>
  /\ IF topic = "walk" THEN DNext ELSE UNCHANGED walkVars
  /\ IF topic = "rounds" THEN RNext ELSE UNCHANGED roundVars
  /\ IF topic = "fold" THEN FNext ELSE UNCHANGED foldVars
  /\ IF topic = "github" THEN GNext ELSE UNCHANGED githubVars
  /\ IF topic = "rules" THEN RulesNext ELSE UNCHANGED rulesVars
  /\ IF topic = "losses" THEN LossNext ELSE UNCHANGED lossVars
  /\ IF topic = "score" THEN EvidenceNext ELSE UNCHANGED evidenceVars

MCSpec == MCInit /\ [][MCNext]_programVars
=============================================================================
