---------------------------- MODULE ProjectRules ----------------------------
(***************************************************************************)
(* Which rules of a repository the reviewers are given (project_rules.py). *)
(* From the root and every directory above a changed file come REVIEW.md   *)
(* and the files of the agents' conventions, and what those import, depth  *)
(* first, within bounds of depth, of files and of bytes.  What is left out *)
(* is told in the receipt.                                                 *)
(***************************************************************************)
EXTENDS Integers, Sequences, FiniteSets, SequencesExt, FiniteSetsExt

CONSTANTS
  Repos,
  MaxImportDepth, MaxFileBytes, MaxTotalBytes, MaxRuleFiles,
  MaxDigestBytes,      \* of one REVIEW.md whose settings are proven,
  MaxDigestTotalBytes  \* and of all that are read for that alone

ASSUME RulesAssumption ==
  /\ {MaxImportDepth, MaxFileBytes, MaxTotalBytes, MaxRuleFiles, MaxDigestTotalBytes} \subseteq Nat
  /\ MaxDigestBytes \in Nat /\ MaxFileBytes <= MaxDigestBytes
(* Whatever a rule file points to has a name, if only that of a missing    *)
(* file. *)
ASSUME RepoAssumption ==
  \A repo \in Repos :
    LET names == DOMAIN repo.files
    IN /\ IsFiniteSet(repo.changed) /\ repo.changed \subseteq Seq(Nat)
       /\ \A n \in names :
            /\ repo.files[n].size \in Nat
            /\ repo.files[n].imports \in Seq([to : names, absolute : BOOLEAN])
       /\ \A d \in DOMAIN repo.reviews : repo.reviews[d] \in names
       /\ \A d \in DOMAIN repo.rules : repo.rules[d] \in Seq(names)

(* A repository: its files by name, where each convention file is, and the *)
(* directories of the changed files, which are sequences of numbers.  A    *)
(* file is regular or not, is inside, outside or not Markdown, has a size, *)
(* a text without its comments, and the files it imports, absolute or not. *)
VARIABLES
  repository,
  agenda,      \* visits to come, the next one first
  ruleSources, reviewSources,  \* files whose text the reviewers get
  reviewMd,    \* files whose settings apply, and whether they are proven
  skipped,     \* files and reasons
  totalBytes, digestBytes, walked, truncated,
  seenContent, \* texts that need no second copy
  loadedReviews,
  gaps         \* what the receipt discloses, once it is written
rulesVars == <<repository, agenda, ruleSources, reviewSources, reviewMd, skipped, totalBytes,
               digestBytes, walked, truncated, seenContent, loadedReviews, gaps>>
-----------------------------------------------------------------------------
(* _search_dirs: the root, then the directories above a change, sorted. *)
Above(repo) == UNION {{SubSeq(d, 1, n) : n \in 0..Len(d)} : d \in repo.changed}
SortsBefore(d, e) ==
  \/ IsStrictPrefix(d, e)
  \/ \E i \in DOMAIN d \cap DOMAIN e : SubSeq(d, 1, i - 1) = SubSeq(e, 1, i - 1) /\ d[i] < e[i]
SearchDirs(repo) ==
  LET dirs == Above(repo) \cup {<<>>}
  IN [i \in 1..Cardinality(dirs) |->
        CHOOSE d \in dirs : Cardinality({e \in dirs : SortsBefore(e, d)}) = i - 1]

Call(what, pointer, depth, chain) ==
  [what |-> what, to |-> pointer.to, absolute |-> pointer.absolute,
   depth |-> depth, chain |-> chain]
Relative(file) == [to |-> file, absolute |-> FALSE]
Found(repo, what, At(_)) ==
  LET in == [i \in DOMAIN SearchDirs(repo) |-> At(SearchDirs(repo)[i])]
      all == FlattenSeq(in)
  IN [i \in DOMAIN all |-> Call(what, Relative(all[i]), 0, {})]

(* collect_sources: every REVIEW.md first. *)
RulesInit ==
  /\ repository \in Repos
  /\ agenda = Found(repository, "review", LAMBDA d : IF d \in DOMAIN repository.reviews
                                                     THEN <<repository.reviews[d]>> ELSE <<>>)
              \o Found(repository, "rules", LAMBDA d : IF d \in DOMAIN repository.rules
                                                       THEN repository.rules[d] ELSE <<>>)
  /\ ruleSources = <<>> /\ reviewSources = <<>> /\ reviewMd = <<>> /\ skipped = {}
  /\ totalBytes = 0 /\ digestBytes = 0 /\ walked = 0 /\ truncated = FALSE
  /\ seenContent = {} /\ loadedReviews = {}
  /\ gaps = {<<"unwritten", "receipt">>}
-----------------------------------------------------------------------------
FileOf(name) == repository.files[name]
Current == Head(agenda)

(* Where a name leads, before it is read; a confined link may lead to what *)
(* is no Markdown. *)
Confinement(name) ==
  CASE FileOf(name).place = "outside" -> "outside_repo"
    [] FileOf(name).place = "other" -> "not_markdown"
    [] OTHER -> "none"

(* _read: why a file cannot be read; every attempt counts. *)
Unreadable(name) ==
  IF walked >= MaxRuleFiles THEN "file_cap_reached"
  ELSE IF FileOf(name).kind = "missing" THEN "missing"
  ELSE IF FileOf(name).kind = "special" THEN "not_regular"
  ELSE IF FileOf(name).size > MaxFileBytes THEN "too_large" ELSE "none"
Walks(name) == walked' = IF walked >= MaxRuleFiles THEN walked ELSE walked + 1

OverTotal(name) == totalBytes + FileOf(name).size > MaxTotalBytes
LeaveOut(name, reason) ==
  /\ skipped' = skipped \cup {<<name, reason>>}
  /\ truncated' = (truncated \/ reason \in {"file_cap_reached", "total_cap_reached"})

(* _review_checksum, of a file that is too large to show: what is left of  *)
(* the budget may end before the file does. *)
DigestRead(name) ==
  IF Unreadable(name) = "too_large" /\ FileOf(name).size <= MaxDigestBytes
  THEN Min({FileOf(name).size, MaxDigestBytes + 1, MaxDigestTotalBytes - digestBytes}) ELSE 0
Proven(name) ==
  \/ Unreadable(name) = "none"
  \/ DigestRead(name) \notin {0, MaxDigestTotalBytes - digestBytes}

VisitReview ==
  /\ agenda # <<>> /\ Current.what = "review"
  /\ agenda' = Tail(agenda)
  /\ LET name == Current.to
         readable == Unreadable(name) = "none"
     IN IF Confinement(name) # "none" \/ FileOf(name).kind # "regular"
        THEN /\ LeaveOut(name, IF Confinement(name) # "none" THEN Confinement(name)
                           ELSE IF FileOf(name).kind = "missing" THEN "missing" ELSE "not_regular")
             /\ UNCHANGED <<reviewMd, reviewSources, loadedReviews, totalBytes, digestBytes,
                            walked>>
        ELSE /\ Walks(name)
             /\ reviewMd' = Append(reviewMd, [name |-> name, proven |-> Proven(name)])
             /\ digestBytes' = digestBytes + DigestRead(name)
             /\ IF ~readable \/ OverTotal(name)
                THEN /\ LeaveOut(name, IF readable THEN "total_cap_reached" ELSE Unreadable(name))
                     /\ UNCHANGED <<reviewSources, totalBytes>>
                ELSE /\ reviewSources' = Append(reviewSources, name)
                     /\ totalBytes' = totalBytes + FileOf(name).size
                     /\ UNCHANGED <<skipped, truncated>>
             /\ loadedReviews' =
                  loadedReviews \cup IF readable /\ ~OverTotal(name) THEN {name} ELSE {}
  /\ UNCHANGED <<repository, ruleSources, seenContent, gaps>>

(* visit: why a file is not taken, its imports with it.  A text is known   *)
(* from then on even if there is no room for it. *)
KnownFirst(v) ==
  IF v.to \in v.chain THEN "cycle"
  ELSE IF v.to \in ToSet(ruleSources) THEN "duplicate_of" ELSE Unreadable(v.to)
(* Mutant: a copy is charged before it is known for one.                   *)
MutantTurned(v) ==
  IF KnownFirst(v) # "none" THEN KnownFirst(v)
  ELSE IF OverTotal(v.to) THEN "total_cap_reached"
  ELSE IF FileOf(v.to).text \in seenContent THEN "duplicate_of" ELSE "none"
Turned(v) ==
  IF KnownFirst(v) # "none" THEN KnownFirst(v)
  ELSE IF FileOf(v.to).text \in seenContent THEN "duplicate_of"
  ELSE IF OverTotal(v.to) THEN "total_cap_reached" ELSE "none"

ImportsOf(v) ==
  [i \in DOMAIN FileOf(v.to).imports |->
     Call("import", FileOf(v.to).imports[i], v.depth + 1, v.chain \cup {v.to})]

VisitFile(v) ==
  /\ IF v.to \in v.chain \cup ToSet(ruleSources) THEN UNCHANGED walked ELSE Walks(v.to)
  /\ seenContent' = seenContent \cup IF Turned(v) \in {"none", "total_cap_reached"}
                                     THEN {FileOf(v.to).text} ELSE {}
  /\ IF Turned(v) = "none"
     THEN /\ ruleSources' = Append(ruleSources, v.to)
          /\ totalBytes' = totalBytes + FileOf(v.to).size
          /\ agenda' = ImportsOf(v) \o Tail(agenda)
          /\ UNCHANGED <<skipped, truncated>>
     ELSE /\ LeaveOut(v.to, Turned(v))
          /\ agenda' = Tail(agenda)
          /\ UNCHANGED <<ruleSources, totalBytes>>

PassOver(name, reason) ==
  /\ LeaveOut(name, reason)
  /\ agenda' = Tail(agenda)
  /\ UNCHANGED <<ruleSources, totalBytes, walked, seenContent>>

VisitRules ==
  /\ agenda # <<>> /\ Current.what = "rules"
  /\ IF Confinement(Current.to) # "none" THEN PassOver(Current.to, Confinement(Current.to))
     ELSE VisitFile(Current)
  /\ UNCHANGED <<repository, reviewSources, reviewMd, digestBytes, loadedReviews, gaps>>

(* A pointer is refused before it is read; rules that are shown as those   *)
(* of a review are not shown again. *)
PointerRefusal(v) ==
  IF v.depth > MaxImportDepth THEN "depth_exceeded"
  ELSE IF v.absolute THEN "absolute_path"
  ELSE IF Confinement(v.to) # "none" THEN Confinement(v.to)
  ELSE IF v.to \in loadedReviews THEN "review_rules_source" ELSE "none"

FollowImport ==
  /\ agenda # <<>> /\ Current.what = "import"
  /\ IF PointerRefusal(Current) # "none" THEN PassOver(Current.to, PointerRefusal(Current))
     ELSE VisitFile(Current)
  /\ UNCHANGED <<repository, reviewSources, reviewMd, digestBytes, loadedReviews, gaps>>
-----------------------------------------------------------------------------
(* count_unfollowed_review_imports, of a review that a rule file imports. *)
Unfollowed(name) ==
  {p.to : p \in {p \in ToSet(FileOf(name).imports) :
     /\ ~p.absolute /\ Confinement(p.to) = "none" /\ FileOf(p.to).kind = "regular"
     /\ p.to \notin ToSet(ruleSources) \cup loadedReviews}}

(* _gaps: copies are no gap. *)
Disclosed(entry) ==
  IF entry[2] = "review_rules_source" THEN Unfollowed(entry[1]) # {} ELSE entry[2] # "duplicate_of"

WriteReceipt ==
  /\ agenda = <<>> /\ gaps = {<<"unwritten", "receipt">>}
  /\ gaps' = {e \in skipped : Disclosed(e)}
               \cup IF ruleSources = <<>> THEN {<<"rules", "absent">>} ELSE {}
  /\ UNCHANGED <<repository, agenda, ruleSources, reviewSources, reviewMd, skipped, totalBytes,
                 digestBytes, walked, truncated, seenContent, loadedReviews>>

RulesNext == VisitReview \/ VisitRules \/ FollowImport \/ WriteReceipt

RulesSpec == RulesInit /\ [][RulesNext]_rulesVars
-----------------------------------------------------------------------------
Written == gaps # {<<"unwritten", "receipt">>}
InReceipt(name) == \E gap \in gaps : gap[1] = name
Shown == ToSet(ruleSources) \cup ToSet(reviewSources)

BytesOf(files, names) ==
  LET sum[k \in 0..Len(names)] ==
        IF k = 0 THEN 0 ELSE sum[k - 1] + files[names[k]].size
  IN sum[Len(names)]

(* The bounds hold, and no text is paid for twice. *)
WithinCaps ==
  /\ BytesOf(repository.files, ruleSources) + BytesOf(repository.files, reviewSources)
       = totalBytes /\ totalBytes <= MaxTotalBytes
  /\ walked <= MaxRuleFiles /\ digestBytes <= MaxDigestTotalBytes
  /\ \A i, j \in DOMAIN ruleSources :
       i # j => FileOf(ruleSources[i]).text # FileOf(ruleSources[j]).text

(* What a rule file that is shown points to is shown, itself or as a copy  *)
(* of the same text, or the receipt tells that it is not. *)
Accounted(name) ==
  \/ name \in Shown \/ InReceipt(name)
  \/ \E other \in DOMAIN repository.files :
       /\ other \in ToSet(ruleSources) \/ InReceipt(other)
       /\ FileOf(other).text = FileOf(name).text
PointersAccounted ==
  Written => \A f \in ToSet(ruleSources) : \A p \in ToSet(FileOf(f).imports) : Accounted(p.to)

(* So are the imports of a review that a rule file imports: those are      *)
(* shown, or the gap names the review. *)
ReviewImportsTold ==
  Written => \A e \in skipped : e[2] = "review_rules_source" =>
    \A p \in ToSet(FileOf(e[1]).imports) :
      Confinement(p.to) = "none" /\ ~p.absolute /\ FileOf(p.to).kind = "regular" =>
        p.to \in Shown \/ InReceipt(e[1])

(* Settings that apply without proof are those of a file that the receipt  *)
(* says is too large, or one too many. *)
UnprovenTold == Written => \A r \in ToSet(reviewMd) : r.proven \/ InReceipt(r.name)

(* It says truncated exactly when a bound of all files together was met.   *)
TruncatedTold ==
  truncated = (\E e \in skipped : e[2] \in {"file_cap_reached", "total_cap_reached"})

(* Rules that are shown are not told to be missing for want of room.       *)
NoFalseGap ==
  \A e \in skipped :
    e[2] = "total_cap_reached" /\ (\A r \in ToSet(reviewMd) : r.name # e[1]) =>
      \A f \in ToSet(ruleSources) : FileOf(f).text # FileOf(e[1]).text

(* However the imports of a repository are knotted, the reviewers get the  *)
(* rules within the bounds, once, and know of those they do not get.       *)
RulesAreAccounted ==
  /\ WithinCaps /\ PointersAccounted /\ ReviewImportsTold
  /\ UnprovenTold /\ TruncatedTold /\ NoFalseGap
=============================================================================
