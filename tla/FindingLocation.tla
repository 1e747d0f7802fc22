--------------------------- MODULE FindingLocation ---------------------------
(***************************************************************************)
(* What verify_findings computes from the findings of a slice              *)
(* (scripts/gauntlet/verify/decide.py, run_verification, with location.py):*)
(* it finds the quoted lines in the file at the captured head, asks blame  *)
(* whose they are, looks the symbols up, and compares the range with the   *)
(* diff under review.  The line number a reviewer claims is a hint: only   *)
(* the quote locates a finding.                                            *)
(*                                                                         *)
(* One file.  A line is its text without surrounding blanks: body, where   *)
(* 0 is blank, 1 is too short to be quoted alone, and a longer text        *)
(* contains the shorter ones; behind mark, what a reader of a listing may  *)
(* have copied with it: a line number ("read") or the gutter of a removed  *)
(* line ("old").                                                           *)
(***************************************************************************)
EXTENDS Integers, Sequences, FiniteSets, SequencesExt

CONSTANTS
  Sources,   \* files at the captured head (SourceSpace)
  Slices,    \* sequences of findings as reviewers gave them (RequestSpace)
  MaxLines,  \* ANCHOR_LIMITS["lines"]
  Floor      \* the lowest confidence a missing symbol leaves

Mark == {"none", "read", "old"}
Line == [mark : Mark, body : 0..3]

(* readable: a text blob at the captured head.  diff: the diff under       *)
(* review could be read; index: its strict walk accepted it; hunks: the    *)
(* line ranges it shows.  local: it is the diff of a working tree, and     *)
(* added are its lines no commit has yet.  ours: lines that the commits    *)
(* under review wrote last.                                                *)
SourceSpace == [lines : Seq(Line), readable : BOOLEAN, diff : BOOLEAN, index : BOOLEAN,
                hunks : SUBSET (Nat \X Nat), local : BOOLEAN,
                added : SUBSET Nat, ours : SUBSET Nat]

(* hint: the reading of the claimed number as a line of the context file.  *)
RequestSpace == [anchor : Seq(Line), start : Nat, end : Nat,
                 hint : [side : {"none", "head", "old"}, line : Nat, quoted : BOOLEAN],
                 removed : BOOLEAN, cross : BOOLEAN, severity : 0..3, confidence : 0..100,
                 symbols : BOOLEAN]

ASSUME LimitAssumption == MaxLines \in Nat \ {0} /\ Floor \in 0..100
(* A slice that is dispatched has a finding. *)
ASSUME RequestAssumption ==
  Sources \subseteq SourceSpace /\ Slices \subseteq Seq(RequestSpace) \ {<<>>}

VARIABLES
  file,   \* the file
  slice,    \* the findings, as they came
  step,    \* locate, factual, range, verified
  turn,     \* position of the next finding in this loop
  commits,  \* the cached git log: unasked, known, failed
  facts     \* facts[i]: what is known of finding i

locVars == <<file, slice, step, turn, commits, facts>>
-----------------------------------------------------------------------------
(* location.py: quotes                                                     *)

(* presentation_lines *)
Peeled(quote) == [i \in DOMAIN quote |-> [quote[i] EXCEPT !.mark = "none"]]
OfOldSide(quote) == \E i \in DOMAIN quote : quote[i].mark = "old"

(* anchor_candidates *)
Readings(anchor) == {anchor, Peeled(anchor)}

Empty(line) == line.mark = "none" /\ line.body = 0

(* valid_quote *)
Quotable(quote) ==
  /\ Len(quote) \in 1..MaxLines
  /\ \E i \in DOMAIN quote : ~Empty(quote[i])
  /\ Len(quote) = 1 => quote[1].body >= 2

(* Part of a line is enough when one line is quoted. *)
Within(part, line) == part.body <= line.body /\ part.mark \in {"none", line.mark}

(* _matches *)
MatchesAt(quote, lines, at) ==
  /\ at + Len(quote) - 1 <= Len(lines)
  /\ IF Len(quote) = 1 THEN Within(quote[1], lines[at])
     ELSE \A i \in DOMAIN quote : quote[i] = lines[at + i - 1]

(* _starts *)
Starts(quote, lines) == {at \in DOMAIN lines : MatchesAt(quote, lines, at)}
-----------------------------------------------------------------------------
(* resolve_location                                                        *)

Ruling(applies, at, status, reason) ==
  [applies |-> applies, at |-> at, status |-> status, reason |-> reason]
Refusal(applies, reason) == Ruling(applies, 0, "unconfirmed", reason)

Only(S) == IF Cardinality(S) = 1 THEN CHOOSE x \in S : TRUE ELSE 0

(* Mutant: a claimed line that carries the quote is taken at its word. *)
MutantRulings(r, src) ==
  LET quotes == {q \in Readings(r.anchor) : Quotable(q)}
      places == {Starts(q, src.lines) : q \in quotes} \ {{}}
      starts == UNION places
  IN << Refusal(OfOldSide(r.anchor), "deleted_side"),
        Refusal(quotes = {}, "invalid_anchor"),
        Refusal(~src.readable, "unreadable_source"),
        Ruling(r.start \in starts, r.start, "confirmed", "claimed"),
        Ruling(Only(starts) # 0, Only(starts), "relocated", "unique"),
        Refusal(TRUE, "not_found") >>

(* In the order of their precedence. *)
Rulings(r, src) ==
  LET quotes == {q \in Readings(r.anchor) : Quotable(q)}
      places == {Starts(q, src.lines) : q \in quotes} \ {{}}
      starts == UNION places
      inside == {at \in starts : \E h \in src.hunks :
                   src.diff /\ src.index /\ h[1] <= at /\ at + Len(r.anchor) - 1 <= h[2]}
  IN << Refusal(OfOldSide(r.anchor), "deleted_side"),
        Refusal(quotes = {}, "invalid_anchor"),
        Refusal(~src.readable, "unreadable_source"),
        Refusal(Cardinality(places) > 1, "ambiguous_presentation"),
        Refusal(r.hint.side = "old" /\ r.hint.quoted, "deleted_side"),
        Ruling(r.start \in starts /\ (Cardinality(starts) = 1 \/ r.hint.side = "none"),
               r.start, "confirmed", "claimed"),
        Ruling(r.hint.side = "head" /\ r.hint.line \in starts,
               r.hint.line, "relocated", "context_map"),
        Ruling(r.start \in starts, r.start, "confirmed", "claimed"),
        Ruling(Cardinality(starts) = 1, Only(starts), "relocated", "unique"),
        Ruling(Cardinality(inside) = 1, Only(inside), "relocated", "unique_hunk"),
        Refusal(TRUE, IF starts = {} THEN "not_found" ELSE "ambiguous") >>

Resolve(r, src) ==
  LET rulings == Rulings(r, src)
      first == rulings[SelectInSeq(rulings, LAMBDA x : x.applies)]
  IN [status |-> first.status, reason |-> first.reason, start |-> first.at,
      end |-> IF first.at = 0 THEN 0 ELSE first.at + Len(r.anchor) - 1]

(* _derive_loss_anchor: a removed test that quotes nothing is quoted from  *)
(* the line it claims, by the shortest run that can be quoted.             *)
LossQuotes(r, src) ==
  {SubSeq(src.lines, r.start, end) : end \in
     {e \in r.start..(r.start + MaxLines - 1) :
        /\ e <= Len(src.lines)
        /\ ~Empty(src.lines[e])
        /\ Quotable(SubSeq(src.lines, r.start, e))}}

Quoted(r, src) ==
  LET runs == IF r.anchor = <<>> /\ r.removed /\ src.readable /\ r.start \in DOMAIN src.lines
              THEN LossQuotes(r, src) ELSE {}
  IN IF runs = {} THEN r
     ELSE [r EXCEPT !.anchor = CHOOSE q \in runs : \A p \in runs : Len(q) <= Len(p)]
-----------------------------------------------------------------------------
(* decide.py                                                               *)

Lower(severity) == IF severity = 0 THEN 0 ELSE severity - 1

Located(fact) == fact.place.status # "unconfirmed"
Span(fact) == fact.place.start..fact.place.end

(* The lines the diff shows, as is_line_valid sees them. *)
ShownLines(src) == {at \in DOMAIN src.lines : \E h \in src.hunks : at \in h[1]..h[2]}

Stamp(fact, class, reason) ==
  [fact EXCEPT !.class = class, !.why = reason,
               !.origin = IF class \in {"pre_existing", "surfaced"} THEN "surfaced" ELSE "new",
               !.severity = IF class \in {"pre_existing", "surfaced"} THEN Lower(@) ELSE @]

(* The git log of the base is asked once, when a finding first needs it. *)
Commits == IF commits = "unasked" THEN {"known", "failed"} ELSE {commits}

(* Neither the log nor git blame itself is sure to answer. *)
Blamed(fact, log) ==
  {Stamp(fact, "unknown", "unavailable")}
    \cup (IF log = "failed" THEN {}
          ELSE IF Span(fact) \cap file.ours # {} THEN {Stamp(fact, "new", "git_blame")}
          ELSE {Stamp(fact, "pre_existing", "git_blame")})

(* Lines of a working tree that no commit has yet need no blame. *)
Uncommitted(fact) == file.local /\ file.diff /\ Span(fact) \cap file.added # {}

(* What classify_blame knows without git: in the order of its returns. *)
Plain(fact) ==
  IF fact.removed THEN {Stamp(fact, "new", "removed_loss")}
  ELSE IF fact.cross THEN {Stamp(fact, "surfaced", "cross_file_refs")}
  ELSE IF ~Located(fact) THEN {Stamp(fact, "unknown", "unavailable")}
  ELSE IF Uncommitted(fact) THEN {Stamp(fact, "new", "local_diff")} ELSE {}

(* classify_blame *)
Classify(i, fact) ==
  \/ /\ \E stamped \in Plain(fact) : facts' = [facts EXCEPT ![i] = stamped]
     /\ UNCHANGED commits
  \/ /\ Plain(fact) = {}
     /\ \E log \in Commits :
          /\ commits' = log
          /\ \E stamped \in Blamed(fact, log) : facts' = [facts EXCEPT ![i] = stamped]

(* The next finding of this loop, or the first of the next one. *)
Advance(next) ==
  IF turn < Len(slice) THEN turn' = turn + 1 /\ UNCHANGED step
  ELSE turn' = 1 /\ step' = next

(* The reviewer's coordinates are kept as claims only. *)
Locate ==
  /\ step = "locate"
  /\ LET r == Quoted(slice[turn], file)
     IN Classify(turn, [facts[turn] EXCEPT !.anchor = r.anchor, !.place = Resolve(r, file)])
  /\ Advance("factual")
  /\ UNCHANGED <<file, slice>>

(* verify_factual: share is how many of its symbols are missing, in        *)
(* percent; a removed test has none to look for.                           *)
Factual ==
  /\ step = "factual"
  /\ \E share \in (IF facts[turn].removed \/ ~facts[turn].symbols THEN {0} ELSE {0, 50, 100}) :
       LET left == facts[turn].confidence - (share * 70) \div 100
       IN facts' = [facts EXCEPT ![turn].confidence =
                      IF share = 0 THEN @ ELSE IF left < Floor THEN Floor ELSE left]
  /\ Advance("range")
  /\ UNCHANGED <<file, slice, commits>>

(* Mutant: blame's own downgrade is not remembered. *)
MutantOffDiff(fact) ==
  IF fact.removed THEN [fact EXCEPT !.inDiff = "no"]
  ELSE [fact EXCEPT !.inDiff = "no", !.origin = "surfaced", !.severity = Lower(@),
                    !.class = IF @ = "new" THEN "surfaced" ELSE @]

(* A finding outside the diff is context, unless it is about lost tests.   *)
(* Its severity was lowered already if blame surfaced it.                  *)
OffDiff(fact) ==
  IF fact.removed THEN [fact EXCEPT !.inDiff = "no"]
  ELSE [fact EXCEPT !.inDiff = "no", !.origin = "surfaced",
                    !.severity = IF fact.origin = "surfaced" THEN @ ELSE Lower(@),
                    !.class = IF @ = "new" THEN "surfaced" ELSE @,
                    !.why = IF fact.class = "new" THEN "off_diff" ELSE @]

(* validate_diff_lines *)
DiffLines ==
  /\ step = "range"
  /\ LET fact == facts[turn]
     IN facts' = [facts EXCEPT ![turn] =
          IF ~file.diff \/ ~Located(fact) THEN fact
          ELSE IF Span(fact) \cap ShownLines(file) # {} THEN [fact EXCEPT !.inDiff = "yes"]
          ELSE OffDiff(fact)]
  /\ Advance("verified")
  /\ UNCHANGED <<file, slice, commits>>

(* Nothing is known yet of a finding but what the reviewer gave. *)
Given(r) ==
  [anchor |-> r.anchor, removed |-> r.removed, cross |-> r.cross,
   severity |-> r.severity, confidence |-> r.confidence, symbols |-> r.symbols, origin |-> "new",
   class |-> "unknown", why |-> "unavailable", inDiff |-> "unknown",
   place |-> [status |-> "unconfirmed", reason |-> "not_found", start |-> 0, end |-> 0]]

LInit ==
  /\ file \in Sources
  /\ slice \in Slices
  /\ step = "locate" /\ turn = 1
  /\ commits = "unasked"
  /\ facts = [i \in DOMAIN slice |-> Given(slice[i])]

LNext == Locate \/ Factual \/ DiffLines
LSpec == LInit /\ [][LNext]_locVars
-----------------------------------------------------------------------------
(* Properties *)

(* Where the quote of a finding may be read in the file. *)
Sites(fact) ==
  UNION {Starts(q, file.lines) : q \in {p \in Readings(fact.anchor) : Quotable(p)}}

(* A number never locates a finding: a located one lies where the file     *)
(* carries its quote, under a reading both presentations agree on, and     *)
(* never quotes a removed line.  A quote with one site in the file is      *)
(* found there whatever number was claimed.  Among several sites only a    *)
(* number that names one, in the file or in the context listing, or a hunk *)
(* that holds one alone may choose, and the listing is heard first.        *)
PlaceIsEarned(r, fact) ==
  LET at == fact.place.start
      sites == Sites(fact)
      clear == file.readable /\ ~OfOldSide(fact.anchor) /\ ~(r.hint.side = "old" /\ r.hint.quoted)
  IN /\ Located(fact) <=> at # 0
     /\ Located(fact) => clear /\ at \in sites /\ fact.place.end = at + Len(fact.anchor) - 1
     /\ clear /\ Cardinality(sites) = 1 => at \in sites
     /\ fact.place.status = "confirmed" => at = r.start
     /\ Located(fact) /\ Cardinality(sites) > 1 =>
          /\ \A p, q \in Readings(fact.anchor) :
               Quotable(p) /\ Quotable(q) /\ Starts(p, file.lines) # {} /\ Starts(q, file.lines) # {}
                 => Starts(p, file.lines) = Starts(q, file.lines)
          /\ r.hint.side = "head" /\ r.hint.line \in sites => at = r.hint.line
          /\ at \in {r.start, r.hint.line} \/ \E h \in file.hunks : at \in h[1]..h[2]

(* Blame and the diff each may surface a finding: either way its severity  *)
(* drops once, and a finding about lost tests is never surfaced.  Outside  *)
(* a diff that could be read there are only surfaced ones.                 *)
SurfacedOnce(r, fact) ==
  /\ fact.severity = IF fact.origin = "surfaced" THEN Lower(r.severity) ELSE r.severity
  /\ fact.origin = "surfaced" <=>
       fact.class \in {"pre_existing", "surfaced"} \/ (fact.inDiff = "no" /\ ~r.removed)
  /\ r.removed => fact.origin = "new"
  /\ fact.inDiff = "no" => Located(fact) /\ Span(fact) \cap ShownLines(file) = {}

FindingsAreGrounded ==
  \A i \in DOMAIN slice :
    /\ step # "locate" => PlaceIsEarned(slice[i], facts[i])
    /\ step = "verified" => SurfacedOnce(slice[i], facts[i])
=============================================================================
