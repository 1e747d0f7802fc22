------------------------- MODULE ContextPreparation -------------------------
(***************************************************************************)
(* What the host does on disk before it starts the workflow, and what the  *)
(* verify executor makes of it later: the configuration (config.py), the   *)
(* output directory (output_dir.py), the description (pr_status.py), the   *)
(* diff, the rules and the context with its map (shared_context.py), and   *)
(* the source and map that are read to place findings (location.py).  Runs *)
(* share the repository and the files that are named after a head; any of  *)
(* them may be killed and started again.  A step that fails and leaves     *)
(* things as they are ends its run: that is a run which goes no further.   *)
(***************************************************************************)
EXTENDS Integers, Sequences, FiniteSets

CONSTANTS
  Hosts,       \* runs, by their nonce
  Settings,    \* what a run is started with
  Knobs,       \* rows of the registry: where a value comes from, and which are valid
  Delivery,    \* of each commit: the default delivery of its REVIEW.md, or "unset"
  Posting,     \* values that ask for comments on a pull request
  BranchHead,
  MaxPushes, MaxMoves, MaxKills

ASSUME PreparationAssumption ==
  /\ {MaxPushes, MaxMoves, MaxKills} \subseteq Nat
  /\ BranchHead \in 1..(1 + MaxPushes)

VARIABLES
  setting,     \* of each run: target, headless, where its output goes, its environment
  host,        \* of each run: the step it is at, and what it knows
  snapshots,   \* of each run: the description and the head it belongs to
  artifacts,   \* of each head: the files named after it
  ignore,      \* what git makes of the output directory
  directory,   \* whether it is there
  worktree,    \* the commit checked out
  pushed,      \* the head of the pull request
  moved,       \* history: how often the tree was moved
  killed
prepVars ==
  <<setting, host, snapshots, artifacts, ignore, directory, worktree, pushed, moved, killed>>

Commit == 1..(1 + MaxPushes)
Absent == [of |-> 0]
Torn == [of |-> -1, scope |-> "none", readable |-> FALSE]
NoFiles == [diff |-> Absent, rules |-> Absent, context |-> Absent, map |-> Absent]
NewHost == [at |-> "resolve", config |-> <<>>, target |-> 0, head |-> 0, entries |-> Absent]

PrepInit ==
  /\ setting \in [Hosts -> Settings]
  /\ host = [r \in Hosts |-> NewHost]
  /\ snapshots = [r \in Hosts |-> Absent]
  /\ artifacts = [c \in Commit |-> NoFiles]
  /\ ignore \in [ignored : BOOLEAN, negated : BOOLEAN, writable : BOOLEAN, listed : {FALSE}]
  /\ ignore.ignored => ~ignore.negated
  /\ directory = FALSE
  /\ worktree \in {1, BranchHead}
  /\ pushed = 1
  /\ moved = 0 /\ killed = 0

At(r, step) == host[r].at = step
Goes(r, step) == host' = [host EXCEPT ![r].at = step]
Stops(r) == Goes(r, "stopped")
-----------------------------------------------------------------------------
(* resolve_config: by row the environment, then the root REVIEW.md, then   *)
(* the default; a value of the environment is checked even where it does   *)
(* not count. *)
Mode(r) == IF setting[r].headless THEN "headless" ELSE "interactive"
Rows(r) == {k \in DOMAIN Knobs : Mode(r) \in DOMAIN Knobs[k].default}
Env(r, k) == setting[r].environ[k]
FromReview(r, k) == Env(r, k) = "unset" /\ Knobs[k].review /\ Delivery[worktree] # "unset"
Choice(r, k) ==
  CASE Env(r, k) # "unset" /\ Mode(r) \in Knobs[k].env -> [value |-> Env(r, k), source |-> "env"]
    [] FromReview(r, k) -> [value |-> Delivery[worktree], source |-> "review_md"]
    [] OTHER -> [value |-> Knobs[k].default[Mode(r)], source |-> "default"]
Valid(r, k, value) == value = "unset" \/ value \in Knobs[k].valid
Resolves(r) ==
  \A k \in Rows(r) :
    /\ Valid(r, k, Env(r, k))
    /\ FromReview(r, k) => Valid(r, k, Delivery[worktree])
    /\ setting[r].target = "local" => Choice(r, k).value \notin Posting

ResolveConfig(r) ==
  /\ At(r, "resolve")
  /\ IF Resolves(r)
     THEN host' = [host EXCEPT ![r] = [NewHost EXCEPT !.at = "probe",
                                         !.config = [k \in Rows(r) |-> Choice(r, k)]]]
     ELSE Stops(r)
  /\ UNCHANGED <<setting, snapshots, artifacts, ignore, directory, worktree, pushed, moved, killed>>
-----------------------------------------------------------------------------
(* ensure_output_dir: inside the repository only where git ignores it.     *)
Ignored == ignore.ignored \/ (ignore.listed /\ ~ignore.negated)

Inside(r) == setting[r].output = "inside"
ProbeIgnore(r) ==
  /\ At(r, "probe")
  /\ \/ setting[r].output = "root" /\ Stops(r)
     \/ setting[r].output = "outside" /\ Goes(r, "mkdir")
     \/ Inside(r) /\ Goes(r, IF Ignored THEN "mkdir" ELSE "append")
  /\ UNCHANGED <<setting, snapshots, artifacts, ignore, directory, worktree, pushed, moved, killed>>

AppendExclude(r) ==
  /\ At(r, "append")
  /\ IF ignore.writable THEN Goes(r, "check") /\ ignore' = [ignore EXCEPT !.listed = TRUE]
     ELSE Stops(r) /\ UNCHANGED ignore
  /\ UNCHANGED <<setting, snapshots, artifacts, directory, worktree, pushed, moved, killed>>

(* A pattern of the repository may take back what is excluded. *)
VerifyIgnore(r) ==
  /\ At(r, "check")
  /\ IF Ignored THEN Goes(r, "mkdir") ELSE Stops(r)
  /\ UNCHANGED <<setting, snapshots, artifacts, ignore, directory, worktree, pushed, moved, killed>>

MakeDirectory(r) ==
  /\ At(r, "mkdir")
  /\ Goes(r, IF setting[r].target = "pr" THEN "status" ELSE "checkout")
  /\ directory' = (directory \/ Inside(r))
  /\ UNCHANGED <<setting, snapshots, artifacts, ignore, worktree, pushed, moved, killed>>
-----------------------------------------------------------------------------
(* pr_status: the description is fetched once in the life of a nonce.      *)
Status(r) ==
  /\ At(r, "status")
  /\ \/ /\ snapshots[r] = Absent
        /\ snapshots' = [snapshots EXCEPT ![r] = [of |-> pushed]]
        /\ host' = [host EXCEPT ![r].at = "checkout", ![r].target = pushed]
     \/ /\ snapshots[r] # Absent
        /\ host' = [host EXCEPT ![r].at = "checkout", ![r].target = snapshots[r].of]
        /\ UNCHANGED snapshots
  /\ UNCHANGED <<setting, artifacts, ignore, directory, worktree, pushed, moved, killed>>

(* The tree may move only when somebody is there to see it; the forge's    *)
(* client checks out the head of now.  Then the head is what is there. *)
Wanted(r) ==
  CASE setting[r].target = "pr" -> host[r].target
    [] setting[r].target = "branch" -> BranchHead
    [] OTHER -> worktree
CheckOut(r) ==
  /\ At(r, "checkout")
  /\ \/ Wanted(r) = worktree /\ Goes(r, "sha") /\ UNCHANGED <<worktree, moved>>
     \/ /\ Wanted(r) # worktree /\ ~setting[r].headless
        /\ worktree' = IF setting[r].target = "pr" THEN pushed ELSE BranchHead
        /\ Goes(r, "sha") /\ moved' = moved + 1
     \/ Wanted(r) # worktree /\ Stops(r) /\ UNCHANGED <<worktree, moved>>
  /\ UNCHANGED <<setting, snapshots, artifacts, ignore, directory, pushed, killed>>

ResolveSha(r) ==
  /\ At(r, "sha")
  /\ host' = [host EXCEPT ![r].at = "diff", ![r].head = worktree]
  /\ UNCHANGED <<setting, snapshots, artifacts, ignore, directory, worktree, pushed, moved, killed>>

Keep(r, file, content) == artifacts' = [artifacts EXCEPT ![host[r].head][file] = content]

(* The diff of a pull request comes from the forge, that of a branch from  *)
(* the two commits that were resolved. *)
DiffOf(r) ==
  [of |-> CASE setting[r].target = "pr" -> pushed
            [] setting[r].target = "branch" -> BranchHead
            [] OTHER -> worktree,
   scope |-> setting[r].scope, readable |-> setting[r].readable]
SaveDiff(r) ==
  /\ At(r, "diff")
  /\ Goes(r, "rules") /\ Keep(r, "diff", DiffOf(r))
  /\ UNCHANGED <<setting, snapshots, ignore, directory, worktree, pushed, moved, killed>>

(* collect_project_rules, in full in ProjectRules. *)
CollectRules(r) ==
  /\ At(r, "rules")
  /\ Goes(r, "context") /\ Keep(r, "rules", [of |-> worktree])
  /\ UNCHANGED <<setting, snapshots, ignore, directory, worktree, pushed, moved, killed>>
-----------------------------------------------------------------------------
(* write_shared_context, and SourceAdapter.capture: a commit other than    *)
(* the one asked for is no source. *)
FilesOf(r) == artifacts[host[r].head]
Captured(r) == IF worktree = host[r].head THEN worktree ELSE 0
Layout(r) == IF setting[r].target = "local" THEN worktree ELSE Captured(r)
DescriptionFits(r) ==
  setting[r].target = "pr" => snapshots[r].of = host[r].head
ContextOf(r) ==
  [of |-> host[r].head, diff |-> FilesOf(r).diff, rules |-> FilesOf(r).rules, layout |-> Layout(r),
   local |-> setting[r].target = "local",
   description |-> IF setting[r].target = "pr" THEN snapshots[r] ELSE Absent]
WriteContext(r) ==
  /\ At(r, "context")
  /\ IF DescriptionFits(r)
     THEN \/ /\ host' = [host EXCEPT ![r].at = "map", ![r].entries = ContextOf(r)]
             /\ Keep(r, "context", ContextOf(r))
          \/ Stops(r) /\ Keep(r, "context", Torn)
     ELSE Stops(r) /\ UNCHANGED artifacts
  /\ UNCHANGED <<setting, snapshots, ignore, directory, worktree, pushed, moved, killed>>

(* The map says which bytes it is of: those that were written, not those   *)
(* of the files now. *)
MapOf(r, context, diff) ==
  [of |-> host[r].head, lines |-> host[r].entries, context |-> context, diff |-> diff,
   available |-> host[r].entries.diff.readable]
(* Mutant: the files are read again for their digests.                     *)
MutantWrittenMap(r) == MapOf(r, FilesOf(r).context, FilesOf(r).diff)
WrittenMap(r) == MapOf(r, host[r].entries, host[r].entries.diff)
WriteMap(r) ==
  /\ At(r, "map")
  /\ \/ /\ host' = [host EXCEPT ![r].at = "review", ![r].entries = Absent]
        /\ Keep(r, "map", WrittenMap(r))
     \/ Stops(r) /\ Keep(r, "map", Torn)
  /\ UNCHANGED <<setting, snapshots, ignore, directory, worktree, pushed, moved, killed>>

(* The executor reads the diff, then the map, then the context, and all of *)
(* them may be rewritten meanwhile. *)
ReadDiff(r) ==
  /\ At(r, "review")
  /\ host' = [host EXCEPT ![r].at = "verify", ![r].entries = FilesOf(r).diff]
  /\ UNCHANGED <<setting, snapshots, artifacts, ignore, directory, worktree, pushed, moved, killed>>

(* load_context_map *)
Identified(r, map) ==
  /\ map \notin {Absent, Torn} /\ map.of = host[r].head
  /\ map.diff = host[r].entries /\ map.available
ReadMap(r) ==
  /\ At(r, "verify")
  /\ LET map == FilesOf(r).map
     IN host' = IF Identified(r, map)
                THEN [host EXCEPT ![r].at = "loaded", ![r].entries = map]
                ELSE [host EXCEPT ![r].at = "done", ![r].entries = Absent]
  /\ UNCHANGED <<setting, snapshots, artifacts, ignore, directory, worktree, pushed, moved, killed>>
ReadContext(r) ==
  /\ At(r, "loaded")
  /\ host' = [host EXCEPT ![r].at = "done",
                          ![r].entries = IF FilesOf(r).context = host[r].entries.context
                                         THEN [of |-> FilesOf(r).context.of, map |-> host[r].entries,
                                               context |-> FilesOf(r).context]
                                         ELSE Absent]
  /\ UNCHANGED <<setting, snapshots, artifacts, ignore, directory, worktree, pushed, moved, killed>>
-----------------------------------------------------------------------------
(* Commits are pushed, and somebody works in the tree. *)
PushHead ==
  /\ pushed <= MaxPushes
  /\ pushed' = pushed + 1
  /\ UNCHANGED <<setting, host, snapshots, artifacts, ignore, directory, worktree, moved, killed>>
MoveTree ==
  /\ moved < MaxMoves
  /\ moved' = moved + 1
  /\ worktree' \in Commit \ {worktree}
  /\ UNCHANGED <<setting, host, snapshots, artifacts, ignore, directory, pushed, killed>>

(* A run is killed, in the middle of a file at worst, and resumed with its *)
(* nonce. *)
Kill(r) ==
  /\ killed < MaxKills /\ ~At(r, "done")
  /\ killed' = killed + 1
  /\ host' = [host EXCEPT ![r] = NewHost]
  /\ artifacts' \in {artifacts}
       \cup {[artifacts EXCEPT ![host[r].head][f] = Torn] :
               f \in {f \in {"diff", "context", "map"} : At(r, f)}}
  /\ UNCHANGED <<setting, snapshots, ignore, directory, worktree, pushed, moved>>

HostStep(r) ==
  \/ ResolveConfig(r) \/ ProbeIgnore(r) \/ AppendExclude(r) \/ VerifyIgnore(r) \/ MakeDirectory(r)
  \/ Status(r) \/ CheckOut(r) \/ ResolveSha(r) \/ SaveDiff(r) \/ CollectRules(r)
  \/ WriteContext(r) \/ WriteMap(r) \/ ReadDiff(r) \/ ReadMap(r) \/ ReadContext(r)
PrepNext == (\E r \in Hosts : HostStep(r) \/ Kill(r)) \/ PushHead \/ MoveTree

PrepSpec == PrepInit /\ [][PrepNext]_prepVars
-----------------------------------------------------------------------------
(* The output never shows up among the changes of the repository.          *)
OutputIgnored == directory => Ignored

(* A context has the description of the head it is about or none, and      *)
(* lists the files of that head or none. *)
ContextOfHead ==
  \A c \in Commit :
    LET context == artifacts[c].context
    IN context \notin {Absent, Torn} =>
         /\ context.description.of \in {0, c}
         /\ ~context.local => context.layout \in {0, c}

(* Lines are mapped by a map of the very context and diff that the         *)
(* executor has, whatever other runs of that head write meanwhile. *)
MapOfContext ==
  \A r \in Hosts :
    At(r, "done") /\ host[r].entries # Absent =>
      LET loaded == host[r].entries
      IN loaded.of = host[r].head /\ loaded.map.lines = loaded.context
           /\ loaded.context.diff = loaded.map.diff

(* The configuration is resolved before the head is known: without anybody *)
(* to check out another, what it takes from REVIEW.md is of that head.     *)
DeliveryOfHead ==
  \A r \in Hosts : \A k \in DOMAIN host[r].config :
    /\ setting[r].headless /\ moved = 0 /\ host[r].head # 0
    /\ host[r].config[k].source = "review_md"
    => host[r].config[k].value = Delivery[host[r].head]

(* Whoever pushes, works in the tree or is killed: what the reviewers and  *)
(* the executor get is of one head and of one writing.                     *)
ContextTellsTruth == OutputIgnored /\ ContextOfHead /\ MapOfContext /\ DeliveryOfHead
=============================================================================
