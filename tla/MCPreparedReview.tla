-------------------------- MODULE MCPreparedReview --------------------------
(***************************************************************************)
(* A review and what is made ready for it, in one run of TLC: topic says   *)
(* whether a behaviour is about the workflow or about its preparation,     *)
(* which share no state that changes; the other stays as it started.       *)
(***************************************************************************)
EXTENDS MCReviewPipeline, ContextPreparation

CONSTANTS Topics, n1, n2

(* Two runs of one repository: on a pull request with and without somebody *)
(* there, on branches, on local changes; one whose environment cannot be. *)
Knob(default, environ, root, valid) ==
  [default |-> default, env |-> environ, review |-> root, valid |-> valid]
McKnobs ==
  [delivery |-> Knob([headless |-> "markdown"], {"headless"}, TRUE, {"markdown", "pr_comments"}),
   tier |-> Knob([headless |-> "all", interactive |-> "all"], {"headless"}, FALSE, {"all", "main"})]
Started(target, headless, output, delivery, tier) ==
  [target |-> target, headless |-> headless, output |-> output,
   environ |-> [delivery |-> delivery, tier |-> tier], scope |-> "full", readable |-> TRUE]
Since(s) == [s EXCEPT !.scope = "since", !.readable = FALSE]
McPairs ==
  {<<Started("pr", TRUE, "inside", "unset", "unset"),
     Since(Started("pr", FALSE, "inside", "unset", "unset"))>>,
   <<Started("branch", FALSE, "inside", "unset", "unset"),
     Started("local", FALSE, "inside", "unset", "unset")>>,
   <<Started("local", FALSE, "inside", "pr_comments", "main"),
     Started("branch", TRUE, "outside", "unset", "unset")>>,
   <<Started("local", FALSE, "inside", "unset", "bogus"),
     Started("local", TRUE, "root", "unset", "main")>>}
McSettings == UNION {{p[1], p[2]} : p \in McPairs}
McDelivery == <<"markdown", "pr_comments", "unset">>
-----------------------------------------------------------------------------
VARIABLE topic

preparedVars == <<vars, prepVars, topic>>

Together(p) == [r \in Hosts |-> IF r = n1 THEN p[1] ELSE p[2]]
Usual == [ignored |-> TRUE, negated |-> FALSE, writable |-> TRUE, listed |-> FALSE]
NoPreparation ==
  /\ setting = Together(CHOOSE p \in McPairs : TRUE)
  /\ ignore = Usual /\ worktree = 1
Paired ==
  /\ setting \in {Together(p) : p \in McPairs}
  /\ worktree \in {1, BranchHead}
  /\ IF setting[n1].target = "pr" /\ worktree = 1
     THEN ignore \in [ignored : BOOLEAN, negated : BOOLEAN, writable : BOOLEAN, listed : {FALSE}]
     ELSE ignore = Usual

MCInit ==
  /\ topic \in Topics
  /\ IF topic = "prepare" THEN Paired ELSE NoPreparation
  /\ PrepInit
  /\ Init

MCNext ==
  /\ UNCHANGED topic
  /\ \/ topic = "review" /\ Next /\ UNCHANGED prepVars
     \/ topic = "prepare" /\ PrepNext /\ UNCHANGED vars

MCSpec == MCInit /\ [][MCNext]_preparedVars

(* The fairness of LiveSpec. *)
MCLiveSpec == MCSpec /\ WF_preparedVars(topic = "review" /\ Step /\ UNCHANGED <<prepVars, topic>>)
=============================================================================
