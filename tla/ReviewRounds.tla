---------------------------- MODULE ReviewRounds ----------------------------
(***************************************************************************)
(* One pull request reviewed again and again while its author pushes.      *)
(* Each run reads the state of the pull request (check_eligibility,        *)
(* pr_status), checks out, looks for the last review of its own in the     *)
(* comments (detect_prior_review), empties what an earlier run left for    *)
(* this commit (stale_truncate), reviews everything or what came since     *)
(* (list_pr_files, incremental_diff), and posts a marker with the commit   *)
(* it reviewed.  The marker is the only memory from run to run, and the    *)
(* forge may change between any two steps.                                 *)
(***************************************************************************)
EXTENDS Integers, Sequences, FiniteSets, SequencesExt

CONSTANTS
  Paths, Lockfiles, \* changed paths; those with the name of a lockfile
  Trees,            \* what they may hold at a commit
  Bots, Others,     \* accounts the tool posts from, and other authors
  Base,             \* what they hold at the base
  MaxCommits, MaxFaults, MaxEvents  \* bounds: commits, faults, and Spare

ASSUME RoundsAssumption ==
  /\ Lockfiles \subseteq Paths /\ Bots \cap Others = {} /\ Bots # {}
  /\ "none" \notin Bots \cup Others  \* stands for no account
  /\ Base \in Trees /\ \A t \in Trees : DOMAIN t = Paths
  /\ {MaxCommits, MaxFaults, MaxEvents} \subseteq Nat

VARIABLES
  repo,     \* all commits made: parent (0 for none) and tree; 1 is the base
  forge,    \* tip, state and draft of the pull request
  entries,  \* the reviews or notes on it, oldest first
  me,       \* the account the tool posts from
  clone,    \* local clone: the commits present, HEAD, whether it has history
  snapshot, \* the target commit recorded under the nonce of the run, or 0
  left,     \* commits whose artifacts of some run are in the output directory
  run,      \* the run
  examined, \* history: contents that reviews were of that have been posted
  faults    \* calls that failed so far

roundVars == <<repo, forge, entries, me, clone, snapshot, left, run, examined, faults>>

(* A run: where it is, the commit it works on, what detect_prior_review    *)
(* told it, the files the forge listed, what its diff covers.  The rest is *)
(* history: whether the review it builds on is unbroken, whether the forge *)
(* was at head for each look, whether artifacts were there.                *)
Receipt == [reviewed : BOOLEAN, resolvable : BOOLEAN, ancestor : BOOLEAN, last : Nat, head : Nat]
Idle == [step |-> "idle", nth |-> 0, head |-> 0,
         receipt |-> [reviewed |-> FALSE, resolvable |-> FALSE, ancestor |-> FALSE,
                      last |-> 0, head |-> 0],
         kind |-> "full", files |-> {}, diff |-> {},
         based |-> FALSE, steady |-> TRUE, found |-> FALSE]

(* sha: the commit that the marker or the footer at the end of the body    *)
(* names, or 0.  The rest is history: whether a run posted it, and whether *)
(* the runs from there back to a full review were steady.                  *)
Entry == [author : Bots \cup Others, sha : Nat, ours : BOOLEAN, unbroken : BOOLEAN]

RInit ==
  /\ repo \in {<<[parent |-> 0, tree |-> Base], [parent |-> 1, tree |-> t]>> : t \in Trees}
  /\ forge = [tip |-> 2, state |-> "open", draft |-> FALSE]
  /\ entries = <<>>
  /\ me = CHOOSE b \in Bots : TRUE
  /\ clone = [present |-> {1}, head |-> 1, deep |-> TRUE]
  /\ snapshot = 0
  /\ left = {}
  /\ run = Idle
  /\ examined = {}
  /\ faults = 0
-----------------------------------------------------------------------------
(* Commits and what they change                                            *)

(* c and its ancestors, as far as the present commits lead. *)
History(c, present) ==
  LET back[d \in 0..Len(repo)] ==
        IF d \notin present THEN {} ELSE {d} \cup back[repo[d].parent]
  IN back[c]
All == DOMAIN repo

Differ(a, b) == {f \in Paths : repo[a].tree[f] # repo[b].tree[f]}
Held(c, files) == {<<f, repo[c].tree[f]>> : f \in files}

(* What the pull request changes, as the forge shows it. *)
Changed(c) == Differ(1, c)

(* The bound: a push, a run, a note of others, what goes wrong, all alike. *)
Foreign == {i \in DOMAIN entries : ~entries[i].ours}
Spare == Len(repo) + run.nth + faults + Cardinality(Foreign) < MaxEvents
Trouble == Spare /\ faults < MaxFaults
-----------------------------------------------------------------------------
(* The environment: the author, other people, the clock, the operator.     *)

(* The steps that come next look at the forge; what happens to it at       *)
(* others is as good as later. *)
Looking == run.step \in {"idle", "eligible", "chosen", "listed"}

(* A push on the tip, or a forced one on an earlier commit. *)
Push ==
  /\ Looking /\ Spare /\ Len(repo) < MaxCommits
  /\ \E p \in History(forge.tip, All), t \in Trees :
       /\ t # repo[p].tree
       /\ repo' = Append(repo, [parent |-> p, tree |-> t])
       /\ forge' = [forge EXCEPT !.tip = Len(repo) + 1]
  /\ UNCHANGED <<entries, me, clone, snapshot, left, run, examined, faults>>

(* A forced push back to a commit that was there before. *)
Reset ==
  /\ Looking
  /\ \E c \in All \ {1, forge.tip} : forge' = [forge EXCEPT !.tip = c]
  /\ Trouble /\ faults' = faults + 1
  /\ UNCHANGED <<repo, entries, me, clone, snapshot, left, run, examined>>

Posted(author, sha) ==
  [author |-> author, sha |-> sha, ours |-> FALSE, unbroken |-> FALSE]

(* Somebody writes what reads like a review, of any commit, or from the    *)
(* account of the tool something that does not. *)
Comment ==
  /\ run.step = "idle" /\ Spare /\ Foreign = {}
  /\ \E n \in (Others \X All) \cup {<<me, 0>>} :
       entries' = Append(entries, Posted(n[1], n[2]))
  /\ UNCHANGED <<repo, forge, me, clone, snapshot, left, run, examined, faults>>

Conclude ==
  /\ run.step = "idle" /\ Trouble /\ faults' = faults + 1
  /\ \/ forge.state = "open" /\ forge' = [forge EXCEPT !.state = "closed"]
     \/ ~forge.draft /\ forge' = [forge EXCEPT !.draft = TRUE]
  /\ UNCHANGED <<repo, entries, me, clone, snapshot, left, run, examined>>

(* A token is replaced, or a run starts on another machine, whose clone    *)
(* has no history. *)
Rotate ==
  /\ run.step = "idle" /\ Trouble /\ faults' = faults + 1
  /\ \/ \E b \in Bots \ {me} : me' = b /\ UNCHANGED <<clone, left>>
     \/ /\ clone.present # {1}
        /\ \E deep \in BOOLEAN : clone' = [present |-> {1}, head |-> 1, deep |-> deep]
        /\ left' = {}
        /\ UNCHANGED me
  /\ UNCHANGED <<repo, forge, entries, snapshot, run, examined>>
-----------------------------------------------------------------------------
(* check_eligibility                                                       *)

(* list_pr_files: all paths, some of them (a cap, a count that disagrees)  *)
(* or a failure; only a complete listing may end a review. *)
Listings == {[paths |-> Changed(forge.tip), complete |-> TRUE, failed |-> FALSE]}
              \cup {[paths |-> p, complete |-> FALSE, failed |-> x] :
                      p \in SUBSET Changed(forge.tip), x \in BOOLEAN}
Whole(listing) == listing.complete
MayUse(listing) == Whole(listing) \/ Trouble

(* _verdict; a draft is reviewed unless the answer or the policy is no. *)
Verdict(listing, headless) ==
  IF forge.state # "open" /\ ~headless THEN "stop"
  ELSE IF Whole(listing) /\ listing.paths \subseteq Lockfiles THEN "stop"
  ELSE IF forge.draft THEN IF headless THEN "skip or proceed" ELSE "ask_draft"
  ELSE "proceed"

Begin ==
  /\ run.step = "idle" /\ Spare
  /\ \E listing \in Listings, headless \in BOOLEAN, goOn \in BOOLEAN :
       /\ MayUse(listing)
       /\ faults' = faults + IF Whole(listing) THEN 0 ELSE 1
       /\ LET v == Verdict(listing, headless)
              stops == v = "stop" \/ (v # "proceed" /\ ~goOn)
          IN run' = [Idle EXCEPT !.step = IF stops THEN "idle" ELSE "eligible",
                                 !.nth = run.nth + 1]
  (* a resumed run keeps its nonce, and so the snapshot *)
  /\ snapshot' \in {0, snapshot}
  /\ UNCHANGED <<repo, forge, entries, me, clone, left, examined>>

Stop(r) == [Idle EXCEPT !.nth = r.nth]

(* A clone without history gets only what is new, not what it lacks. *)
Fetched ==
  clone' = [present |-> clone.present \cup
              {c \in History(forge.tip, All) : clone.deep \/ c = forge.tip},
            head |-> forge.tip, deep |-> clone.deep]

(* pr_status: a snapshot that is there is used without asking the forge;   *)
(* otherwise the head is fetched, and recorded exclusively.  Then the      *)
(* checkout: nothing to do, refused when headless, or whatever is the tip  *)
(* by now. *)
Checkout ==
  /\ run.step = "eligible"
  /\ \/ /\ snapshot = 0 /\ Trouble  \* the fetch fails
        /\ run' = Stop(run) /\ faults' = faults + 1
        /\ UNCHANGED <<snapshot, clone>>
     \/ LET target == IF snapshot # 0 THEN snapshot ELSE forge.tip
        IN /\ snapshot' = target
           /\ \/ /\ target = clone.head
                 /\ run' = [run EXCEPT !.step = "checked out", !.head = clone.head]
                 /\ UNCHANGED clone
              \/ /\ target # clone.head  \* headless
                 /\ run' = Stop(run)
                 /\ UNCHANGED clone
              \/ /\ target # clone.head
                 /\ Fetched
                 /\ run' = [run EXCEPT !.step = "checked out", !.head = forge.tip]
           /\ UNCHANGED faults
  /\ UNCHANGED <<repo, forge, entries, me, left, examined>>

(* A headless runner checks out the tip before it starts the tool. *)
RunnerCheckout ==
  /\ run.step = "idle" /\ Spare /\ clone.head # forge.tip
  /\ Fetched
  /\ UNCHANGED <<repo, forge, entries, me, snapshot, left, run, examined, faults>>
-----------------------------------------------------------------------------
(* detect_prior_review                                                     *)

(* Mutant: an entry counts whoever wrote it. *)
MutantTrusted(e, poster) == poster \in Bots
(* fetch_entries: only what the posting account wrote; no account, no      *)
(* trust. *)
Trusted(e, poster) == e.author = poster

(* detect_signal: a marker or an attributed footer, at the end. *)
Signals(e) == e.sha # 0

(* select_latest of the entries that were read. *)
Told(read, poster) == {i \in read : Trusted(entries[i], poster) /\ Signals(entries[i])}
Latest(read, poster) == CHOOSE i \in Told(read, poster) : \A j \in Told(read, poster) : j <= i

(* resolve_git_facts and build_result: the reviewed commit must be in the  *)
(* clone, and lead to the head. *)
Facts(sha) ==
  [reviewed |-> TRUE, resolvable |-> sha \in clone.present,
   ancestor |-> sha \in History(run.head, clone.present), last |-> sha, head |-> run.head]
NotReviewed ==
  [reviewed |-> FALSE, resolvable |-> FALSE, ancestor |-> FALSE, last |-> 0, head |-> run.head]

HeadAdvanced(r) == r.resolvable /\ r.ancestor /\ r.last # r.head
IncrementalSafe(r) == r.resolvable /\ HeadAdvanced(r)

(* The listing, oldest or newest first, may break off: a page that is not  *)
(* JSON keeps those before it.  It, or the identity, may also fail. *)
Scans == {1..k : k \in 0..Len(entries)} \cup {k..Len(entries) : k \in DOMAIN entries}
Detect ==
  /\ run.step = "checked out"
  /\ \E read \in Scans, poster \in {me, "none"} :
       LET known == Told(read, poster) # {}
           entry == entries[Latest(read, poster)]
           failed == poster = "none" \/ read # DOMAIN entries
       IN /\ failed => Trouble
          /\ faults' = faults + IF failed THEN 1 ELSE 0
          /\ run' = [run EXCEPT !.step = "detected",
                       !.receipt = IF known THEN Facts(entry.sha) ELSE NotReviewed,
                       !.based = known /\ entry.unbroken,
                       !.found = run.head \in left]
  /\ UNCHANGED <<repo, forge, entries, me, clone, snapshot, left, examined>>
-----------------------------------------------------------------------------
(* stale_truncate, then the answer or the policy                           *)

(* A review of this very commit: what it left is kept until it is known    *)
(* that it is to be done again. *)
AtThisHead(r) == r.reviewed /\ r.resolvable /\ r.last = r.head

Truncate ==
  /\ run.step = "detected"
  /\ run' = [run EXCEPT !.step = "asking"]
  /\ left' = IF AtThisHead(run.receipt) THEN left ELSE left \ {run.head}
  /\ UNCHANGED <<repo, forge, entries, me, clone, snapshot, examined, faults>>

(* skip ends the run only for a reviewed commit that leads to this one;    *)
(* interactively nothing is asked when it does not.  Every other outcome   *)
(* truncates what was deferred. *)
Decide ==
  /\ run.step = "asking"
  /\ \E policy \in {"skip", "incremental", "full"} :
       IF policy = "skip" /\ run.receipt.reviewed /\ run.receipt.ancestor
       THEN /\ run' = [run EXCEPT !.step = "skipped"]
            /\ UNCHANGED left
       ELSE /\ run' = [run EXCEPT !.step = "chosen", !.found = FALSE,
                         !.kind = IF policy = "incremental" /\ IncrementalSafe(run.receipt)
                                  THEN "incremental" ELSE "full"]
            /\ left' = left \ {run.head}
  /\ UNCHANGED <<repo, forge, entries, me, clone, snapshot, examined, faults>>

Skipped ==
  /\ run.step = "skipped"
  /\ run' = Stop(run)
  /\ UNCHANGED <<repo, forge, entries, me, clone, snapshot, left, examined, faults>>
-----------------------------------------------------------------------------
(* The changed files, then the diff; both of the tip as it is now          *)

ListFiles ==
  /\ run.step = "chosen"
  /\ \E listing \in Listings :
       /\ MayUse(listing)
       /\ faults' = faults + IF Whole(listing) THEN 0 ELSE 1
       /\ run' = IF listing.failed THEN Stop(run)
                 ELSE [run EXCEPT !.step = "listed", !.files = listing.paths,
                         !.steady = forge.tip = run.head /\ Whole(listing)]
  /\ UNCHANGED <<repo, forge, entries, me, clone, snapshot, left, examined>>

(* incremental_diff: from the reviewed commit to HEAD, of listed files.    *)
SinceDiff == Held(run.head, Differ(run.receipt.last, run.head) \cap run.files)

(* It may fail or be empty; the diff of the forge is taken instead. *)
TakeDiff ==
  /\ run.step = "listed"
  /\ \E works \in BOOLEAN :
       /\ ~works => run.kind = "incremental" /\ Trouble
       /\ faults' = faults + IF works THEN 0 ELSE 1
       /\ run' =
            IF run.kind = "incremental" /\ works /\ SinceDiff # {}
            THEN [run EXCEPT !.step = "reviewing", !.diff = SinceDiff]
            ELSE [run EXCEPT !.step = "reviewing", !.kind = "full",
                    !.diff = Held(forge.tip, Changed(forge.tip)),
                    !.steady = @ /\ forge.tip = run.head]
  /\ UNCHANGED <<repo, forge, entries, me, clone, snapshot, left, examined>>

Review ==
  /\ run.step = "reviewing"
  /\ run' = [run EXCEPT !.step = "reviewed"]
  /\ left' = left \cup {run.head}
  /\ UNCHANGED <<repo, forge, entries, me, clone, snapshot, examined, faults>>

(* The marker of the commit that was reviewed; a note of this commit that  *)
(* is there already is extended instead (GitLab).  Or nothing is posted.   *)
Unbroken == run.steady /\ (run.kind = "full" \/ run.based)
OwnNote(e) == e.author = me /\ e.sha = run.head
Post ==
  /\ run.step = "reviewed"
  /\ \/ /\ entries' = Append(entries,
               [Posted(me, run.head) EXCEPT !.ours = TRUE, !.unbroken = Unbroken])
        /\ examined' = examined \cup run.diff
     \/ \E i \in DOMAIN entries :
          /\ OwnNote(entries[i])
          /\ entries' = [entries EXCEPT ![i].unbroken = @ \/ Unbroken]
          /\ examined' = examined \cup run.diff
     \/ UNCHANGED <<entries, examined>>
  /\ run' = Stop(run)
  /\ UNCHANGED <<repo, forge, me, clone, snapshot, left, faults>>
-----------------------------------------------------------------------------
RNext == \/ Push \/ Reset \/ Comment \/ Conclude \/ Rotate \/ RunnerCheckout
         \/ Begin \/ Checkout \/ Detect \/ Truncate \/ Decide \/ Skipped
         \/ ListFiles \/ TakeDiff \/ Review \/ Post

(***************************************************************************)
(* Reviews add up.  A chain of incremental reviews that goes back to a     *)
(* full one, with no push while a run was looking, leaves nothing of the   *)
(* commit it names unexamined.                                             *)
(***************************************************************************)
NothingUnseen ==
  \A e \in ToSet(entries) : e.unbroken => Held(e.sha, Changed(e.sha)) \subseteq examined

(* Artifacts of an earlier run are never there when a review starts; and a *)
(* run that is skipped leaves those of the commit it was skipped for.      *)
NothingStale ==
  /\ run.step = "reviewing" => run.head \notin left
  /\ run.step = "skipped" /\ run.receipt.last = run.head =>
       (run.head \in left) = run.found

(* A run is only skipped for a commit the tool did review, and that is     *)
(* part of what is reviewed now.                                           *)
SkipIsEarned ==
  run.step = "skipped" =>
    \E e \in ToSet(entries) : e.ours /\ e.sha \in History(run.head, All)

ReviewsAddUp == NothingUnseen /\ NothingStale /\ SkipIsEarned
=============================================================================
