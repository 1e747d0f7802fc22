------------------------------ MODULE DiffWalk ------------------------------
(***************************************************************************)
(* The walk over a unified diff (scripts/gauntlet/diff.py), one raw line   *)
(* per step, and the facts two consumers collect from it: parse_diff, that *)
(* takes what it gets, and annotate_diff, that walks strictly and raises   *)
(* rather than publish what it cannot account for.  A diff may be cut      *)
(* after any line.                                                         *)
(*                                                                         *)
(* What a line means is a matter of position: a removed line may read like *)
(* a path header, and only the counts of the last hunk header tell.  So    *)
(* the diffs walked here are rendered from the changes they are about, a   *)
(* line at a time as the walk reads it, and every line is kept with its    *)
(* place in the change.                                                    *)
(***************************************************************************)
EXTENDS Integers, Sequences, FiniteSets

CONSTANT Patches  \* changes to render (PatchSpace)

(* A path is the sequence of its components; Null is no file.  The text of *)
(* a line may read like a header of its own once it is signed.             *)
Path == Seq(STRING)
Null == <<>>
Text == [id : Nat, seems : Path]

(* bare: an empty context line that lost its blank.  open: the last line   *)
(* of the file, with no newline.  A section without hunks is a rename or a *)
(* binary change, and has no paths of its own in the git shape.            *)
BodyLine == [sign : {"+", "-", " "}, text : Text, bare : BOOLEAN, open : BOOLEAN]
Hunk == [old : Nat, new : Nat, body : Seq(BodyLine)]
Section == [old : Path, new : Path, hunks : Seq(Hunk)]
PatchSpace == [shape : {"git", "plain"}, files : Seq(Section)]

(* Of the first n lines of a body, those that a side has. *)
Count(body, n, signs) == Cardinality({k \in 1..n : body[k].sign \in signs})
OldSigns == {"-", " "}
NewSigns == {"+", " "}
OldCount(h) == Count(h.body, Len(h.body), OldSigns)
NewCount(h) == Count(h.body, Len(h.body), NewSigns)

(* What git and glab print is a change: it is of a file, a side that has   *)
(* lines has a first one, the lines of the head are in a file, in order    *)
(* and in one section, and only a context line can lose its blank.         *)
SoundHunk(file, h) ==
  LET hunk == file.hunks[h] IN
  /\ OldCount(hunk) # 0 => hunk.old >= 1
  /\ NewCount(hunk) # 0 =>
       /\ hunk.new >= 1
       /\ file.new # Null
       /\ \A g \in 1..(h - 1) : file.hunks[g].new + NewCount(file.hunks[g]) <= hunk.new
  /\ \A k \in DOMAIN hunk.body : hunk.body[k].bare => hunk.body[k].sign = " "
SoundSection(file) ==
  /\ ~(file.old = Null /\ file.new = Null)
  /\ <<"null">> \notin {file.old, file.new}
  /\ \A h \in DOMAIN file.hunks : SoundHunk(file, h)
ASSUME PatchAssumption ==
  /\ Patches \subseteq PatchSpace
  /\ \A patch \in Patches :
       /\ \A s \in DOMAIN patch.files : SoundSection(patch.files[s])
       /\ \A s, t \in DOMAIN patch.files :
            s # t => patch.files[s].new = Null \/ patch.files[s].new # patch.files[t].new

(* How a consumer reads paths: posting_policy and run_verification choose  *)
(* for parse_diff, patch_report_policy for annotate_diff.                  *)
Consumers == {"git-prefixed", "glab-verbatim", "verify-both-spellings", "annotate"}
ConsumersOf(patch) == IF patch.shape = "git" THEN Consumers ELSE Consumers \ {"git-prefixed"}

VARIABLES
  change,     \* the change
  reader,     \* who walks its diff
  diff,       \* its raw lines, as far as they are read
  at,         \* the place of the next one
  w,          \* the walker
  block,      \* what the consumer knows of the block it is in
  parsed,     \* what parse_diff has collected
  annotated,  \* what annotate_diff has collected
  ended       \* no, done, or raised: it refused a line, or missed the rest (cut)

walkVars == <<change, reader, diff, at, w, block, parsed, annotated, ended>>
-----------------------------------------------------------------------------
(* The diff of a change: the places its lines come from, in their order,   *)
(* and what each reads like: its first character, its path and its text.   *)

Place(is, s, h, k) == [is |-> is, s |-> s, h |-> h, k |-> k]
FileAt(p) == change.files[p.s]
HunkAt(p) == FileAt(p).hunks[p.h]
LineAt(p) == HunkAt(p).body[p.k]

SectionFrom(s) ==
  Place(IF s \notin DOMAIN change.files THEN "end" ELSE IF change.shape = "git" THEN "git" ELSE "old",
        s, 0, 0)
HunkFrom(s, h) ==
  IF h \in DOMAIN change.files[s].hunks THEN Place("hunk", s, h, 0) ELSE SectionFrom(s + 1)
LineFrom(s, h, k) ==
  IF k \in DOMAIN change.files[s].hunks[h].body THEN Place("body", s, h, k) ELSE HunkFrom(s, h + 1)

After(p) ==
  CASE p.is = "git" -> Place(IF FileAt(p).hunks = <<>> THEN "rename" ELSE "old", p.s, 0, 0)
    [] p.is = "old" -> Place("new", p.s, 0, 0)
    [] p.is \in {"rename", "new"} -> HunkFrom(p.s, 1)
    [] p.is = "body" /\ LineAt(p).open -> Place("note", p.s, p.h, p.k)
    [] OTHER -> LineFrom(p.s, p.h, p.k + 1)

Raw(like, sign, path, text, p) ==
  [like |-> like, sign |-> sign, path |-> path, text |-> text, at |-> p]
NoText == [id |-> 0, seems |-> <<>>]

Prefixed(prefix, path) ==
  IF path = Null THEN <<"null">> ELSE IF change.shape = "git" THEN <<prefix>> \o path ELSE path

RawAt(p) ==
  CASE p.is = "git" -> Raw("git", "d", Null, NoText, p)
    [] p.is = "old" -> Raw("path", "-", Prefixed("a", FileAt(p).old), NoText, p)
    [] p.is = "new" -> Raw("path", "+", Prefixed("b", FileAt(p).new), NoText, p)
    [] p.is = "rename" -> Raw("note", "r", Null, NoText, p)
    [] p.is = "hunk" -> Raw("hunk", "@", Null, NoText, p)
    [] p.is = "note" -> Raw("note", "\\", Null, NoText, p)
    [] p.is = "body" ->
         LET line == LineAt(p)
         IN Raw(IF line.text.seems # Null /\ line.sign # " " THEN "path" ELSE "text",
                IF line.bare THEN "" ELSE line.sign, line.text.seems, line.text, p)
-----------------------------------------------------------------------------
(* _walk_diff_indexed                                                      *)

Strict == reader = "annotate"

(* Mutant: a hunk is over with the lines of one side. *)
MutantInHeaders == w.oldRem <= 0 \/ w.newRem <= 0

(* Both sides of the last hunk are used up. *)
InHeaders == w.oldRem <= 0 /\ w.newRem <= 0

IsGit(raw) == InHeaders /\ raw.like = "git"
IsPath(raw) == InHeaders /\ raw.like = "path"
IsHunk(raw) == InHeaders /\ raw.like = "hunk"
IsBody(raw) == ~InHeaders /\ raw.sign # "\\"

(* Mutant: the last added line of a hunk is over its budget. *)
MutantBroken(raw) ==
  \/ IsGit(raw) /\ w.pending
  \/ IsPath(raw) /\ (raw.sign = "-") = w.pending
  \/ InHeaders /\ ~IsGit(raw) /\ ~IsPath(raw) /\ ~IsHunk(raw) /\ raw.sign \in {"@", "+", "-", " "}
  \/ IsBody(raw) /\ \/ raw.sign \notin {"+", "-", " "}
                    \/ raw.sign = "+" /\ w.newRem <= 1
                    \/ raw.sign = " " /\ w.newRem <= 0
                    \/ raw.sign \in {"-", " "} /\ w.oldRem <= 0

(* Where a strict walk gives up. *)
Broken(raw) ==
  \/ IsGit(raw) /\ w.pending
  \/ IsPath(raw) /\ (raw.sign = "-") = w.pending
  \/ InHeaders /\ ~IsGit(raw) /\ ~IsPath(raw) /\ ~IsHunk(raw) /\ raw.sign \in {"@", "+", "-", " "}
  \/ IsBody(raw) /\ \/ raw.sign \notin {"+", "-", " "}
                    \/ raw.sign \in {"+", " "} /\ w.newRem <= 0
                    \/ raw.sign \in {"-", " "} /\ w.oldRem <= 0
BrokenEnd == w.oldRem # 0 \/ w.newRem # 0 \/ w.pending

OnOld(raw) == raw.sign # "+"
OnNew(raw) == raw.sign # "-"

Walked(raw) ==
  IF IsPath(raw) THEN [w EXCEPT !.pending = raw.sign = "-"]
  ELSE IF IsHunk(raw)
  THEN LET h == HunkAt(raw.at)
       IN [old |-> h.old, new |-> h.new, oldRem |-> OldCount(h), newRem |-> NewCount(h),
           pending |-> w.pending]
  ELSE IF IsBody(raw)
  THEN LET o == IF OnOld(raw) THEN 1 ELSE 0
           n == IF OnNew(raw) THEN 1 ELSE 0
       IN [old |-> w.old + o, new |-> w.new + n, oldRem |-> w.oldRem - o, newRem |-> w.newRem - n,
           pending |-> w.pending]
  ELSE w
-----------------------------------------------------------------------------
(* Paths                                                                   *)

StartsWith(prefix, path) == Len(path) > 1 /\ Head(path) = prefix
RemovePrefix(prefix, path) == IF StartsWith(prefix, path) THEN Tail(path) ELSE path
IsNull(path) == path = <<"null">>

(* _verify_both_spellings *)
BothSpellings(path) == {path, RemovePrefix("a", path), RemovePrefix("b", path)}

(* _git_header_agrees: the header of a block is its two real paths. *)
GitHeaderAgrees(old, new) ==
  /\ block.git # <<>>
  /\ StartsWith("b", new) /\ (IsNull(old) \/ StartsWith("a", old))
  /\ block.git = << IF IsNull(old) THEN Tail(new) ELSE Tail(old), Tail(new) >>

GitStyle(old, new) == reader = "glab-verbatim" /\ old # Null /\ GitHeaderAgrees(old, new)

Stripping(old, new) ==
  CASE reader = "git-prefixed" -> TRUE
    [] reader = "glab-verbatim" -> GitStyle(old, new)
    [] reader = "annotate" -> change.shape = "git" \/ GitHeaderAgrees(old, new)
    [] OTHER -> FALSE

(* The git header of a deleted file names it on both sides. *)
GitPaths(file) == << IF file.old = Null THEN file.new ELSE file.old,
                     IF file.new = Null THEN file.old ELSE file.new >>
-----------------------------------------------------------------------------
(* parse_diff                                                              *)

Override(f, g) == [k \in DOMAIN f \cup DOMAIN g |-> IF k \in DOMAIN g THEN g[k] ELSE f[k]]

Verbatim == reader # "verify-both-spellings"

OldSpelling(old, new) == IF Stripping(old, new) THEN RemovePrefix("a", old) ELSE old
NewSpelling(old, new) == IF Stripping(old, new) THEN RemovePrefix("b", new) ELSE new

PathsOf(old, new) ==
  IF IsNull(new) THEN {} ELSE IF Verbatim THEN {NewSpelling(old, new)} ELSE BothSpellings(new)

BlockParsed(raw) ==
  IF IsGit(raw)
  THEN [block EXCEPT !.git = GitPaths(FileAt(raw.at)), !.pending = Null]
  ELSE IF IsPath(raw) /\ raw.sign = "-" THEN [block EXCEPT !.pending = raw.path]
  ELSE IF IsPath(raw)
  THEN [git |-> <<>>, pending |-> Null, paths |-> PathsOf(block.pending, raw.path),
        guess |-> IF Verbatim THEN ~GitStyle(block.pending, raw.path) ELSE block.guess]
  ELSE block

(* The paths of a block name a new file, or an old path. *)
PathsParsed(old, new) ==
  [valid |-> parsed.valid,
   newFiles |-> IF IsNull(old) THEN parsed.newFiles \cup PathsOf(old, new) ELSE parsed.newFiles,
   oldPaths |-> IF Verbatim /\ old # Null /\ ~IsNull(old)
                THEN Override(parsed.oldPaths, [p \in PathsOf(old, new) |-> OldSpelling(old, new)])
                ELSE parsed.oldPaths]

Parsed(raw) ==
  IF IsPath(raw) /\ raw.sign # "-" THEN PathsParsed(block.pending, raw.path)
  ELSE IF IsHunk(raw) /\ Verbatim /\ block.guess
            /\ HunkAt(raw.at).old = 0 /\ OldCount(HunkAt(raw.at)) = 0
  THEN [parsed EXCEPT !.newFiles = @ \cup block.paths]
  ELSE IF IsBody(raw) /\ OnNew(raw)
  THEN [parsed EXCEPT !.valid = Override(@, [k \in block.paths \X {w.new} |->
          [old |-> IF OnOld(raw) THEN w.old ELSE 0, text |-> raw.text]])]
  ELSE parsed
-----------------------------------------------------------------------------
(* annotate_diff                                                           *)

(* finish_old_span *)
OldSpans ==
  IF block.paths = {} \/ annotated.oldLines = <<>> THEN annotated.oldSpans
  ELSE annotated.oldSpans \cup {[path |-> p, start |-> annotated.oldStart,
                                 lines |-> annotated.oldLines] : p \in block.paths}

AnnotateRaises(raw) ==
  \/ IsPath(raw) /\ raw.sign = "+" /\ block.pending = Null
  \/ IsHunk(raw) /\ LET h == HunkAt(raw.at)
                    IN \/ block.paths = {} \/ <<"null">> \in block.paths
                       \/ OldCount(h) # 0 /\ h.old < 1
                       \/ NewCount(h) # 0 /\ h.new < 1
  \/ IsBody(raw) /\ (block.paths = {} \/ (IF OnNew(raw) THEN w.new ELSE w.old) <= 0)

PathAnnotated(old, new) ==
  IF IsNull(new) THEN OldSpelling(old, new) ELSE NewSpelling(old, new)

BlockAnnotated(raw) ==
  IF IsGit(raw)
  THEN [git |-> GitPaths(FileAt(raw.at)), pending |-> Null, paths |-> {}, guess |-> block.guess]
  ELSE IF IsPath(raw) /\ raw.sign = "-" THEN [block EXCEPT !.pending = raw.path, !.paths = {}]
  ELSE IF IsPath(raw)
  THEN [git |-> <<>>, pending |-> OldSpelling(block.pending, raw.path),
        paths |-> {PathAnnotated(block.pending, raw.path)}, guess |-> block.guess]
  ELSE block

(* Of a block without path headers the git header names the file, if both  *)
(* sides agree; a rename line names it otherwise.                          *)
FilesNamed(raw) ==
  IF IsGit(raw)
  THEN LET names == GitPaths(FileAt(raw.at)) IN IF names[1] = names[2] THEN {names[2]} ELSE {}
  ELSE IF IsPath(raw) /\ raw.sign # "-" THEN {PathAnnotated(block.pending, raw.path)}
  ELSE {}

HunksShown(raw) ==
  LET h == HunkAt(raw.at)
  IN IF IsHunk(raw) /\ NewCount(h) # 0
     THEN {<<p, h.new, h.new + NewCount(h) - 1>> : p \in block.paths}
     ELSE {}

Entries(raw) ==
  IF IsBody(raw)
  THEN {[index |-> Len(diff) + 1, path |-> p, side |-> IF OnNew(raw) THEN "head" ELSE "old",
         line |-> IF OnNew(raw) THEN w.new ELSE w.old] : p \in block.paths}
  ELSE {}

Annotated(raw) ==
  LET event == IsGit(raw) \/ IsPath(raw) \/ IsHunk(raw)
  IN [entries |-> annotated.entries \cup Entries(raw),
      hunks |-> annotated.hunks \cup HunksShown(raw),
      files |-> annotated.files \cup FilesNamed(raw),
      oldSpans |-> IF event THEN OldSpans ELSE annotated.oldSpans,
      oldStart |-> IF IsHunk(raw) THEN HunkAt(raw.at).old ELSE annotated.oldStart,
      oldLines |-> IF event THEN <<>>
                   ELSE IF IsBody(raw) /\ OnOld(raw) THEN Append(annotated.oldLines, raw.text)
                   ELSE annotated.oldLines]

(* The names that rename lines give, read after the walk: git prints them  *)
(* where the names of the header differ.                                   *)
Renamed ==
  {FileAt(diff[i].at).new : i \in {j \in DOMAIN diff : diff[j].sign = "r" /\
     LET names == GitPaths(FileAt(diff[j].at)) IN names[1] # names[2]}}
-----------------------------------------------------------------------------
DInit ==
  /\ change \in Patches
  /\ reader \in ConsumersOf(change)
  /\ diff = <<>>
  /\ at = SectionFrom(1)
  /\ w = [old |-> 0, new |-> 0, oldRem |-> 0, newRem |-> 0, pending |-> FALSE]
  /\ block = [git |-> <<>>, pending |-> Null, paths |-> {}, guess |-> TRUE]
  /\ parsed = [valid |-> <<>>, newFiles |-> {}, oldPaths |-> <<>>]
  /\ annotated = [entries |-> {}, hunks |-> {}, files |-> {}, oldSpans |-> {},
                  oldStart |-> 0, oldLines |-> <<>>]
  /\ ended = "no"

Raises(raw) == Strict /\ (Broken(raw) \/ AnnotateRaises(raw))

Read ==
  /\ ended = "no"
  /\ at.is # "end"
  /\ LET raw == RawAt(at)
     IN IF Raises(raw)
        THEN ended' = "refused" /\ UNCHANGED <<diff, at, w, block, parsed, annotated>>
        ELSE /\ diff' = Append(diff, raw)
             /\ at' = After(at)
             /\ w' = Walked(raw)
             /\ block' = IF Strict THEN BlockAnnotated(raw) ELSE BlockParsed(raw)
             /\ parsed' = IF Strict THEN parsed ELSE Parsed(raw)
             /\ annotated' = IF Strict THEN Annotated(raw) ELSE annotated
             /\ UNCHANGED ended
  /\ UNCHANGED <<change, reader>>

(* The diff ends here: it is read, or it was cut. *)
End ==
  /\ ended = "no"
  /\ ended' = IF Strict /\ BrokenEnd THEN "cut" ELSE "done"
  /\ annotated' = IF Strict /\ ~BrokenEnd
                  THEN [entries |-> annotated.entries, hunks |-> annotated.hunks,
                        files |-> annotated.files \cup Renamed, oldSpans |-> OldSpans,
                        oldStart |-> annotated.oldStart, oldLines |-> <<>>]
                  ELSE annotated
  /\ UNCHANGED <<change, reader, diff, at, w, block, parsed>>

DNext == Read \/ End
DSpec == DInit /\ [][DNext]_walkVars
-----------------------------------------------------------------------------
(* Properties *)

(* What the lines read say of the change, by their places.                 *)
Body == {i \in DOMAIN diff : diff[i].at.is = "body"}
OldAt(p) == HunkAt(p).old + Count(HunkAt(p).body, p.k - 1, OldSigns)
NewAt(p) == HunkAt(p).new + Count(HunkAt(p).body, p.k - 1, NewSigns)
HeadLines == {diff[i].at : i \in {j \in Body : LineAt(diff[j].at).sign # "-"}}

(* Every line of the head that the diff shows is known under the path it   *)
(* has, with its number, its counterpart on the old side and its text, and *)
(* no other line is: a header-like line in a body neither opens a file nor *)
(* shifts a number.  The reader of both spellings may know a line under a  *)
(* path without its first directory too.  On GitLab a file is new, and has *)
(* an old path, as the change has it; the plain shape cannot tell a new    *)
(* file from one that was empty.                                           *)
LinesAreKnown ==
  \A p \in HeadLines :
    /\ <<FileAt(p).new, NewAt(p)>> \in DOMAIN parsed.valid
    /\ Verbatim => parsed.valid[<<FileAt(p).new, NewAt(p)>>] =
         [old |-> IF LineAt(p).sign = "+" THEN 0 ELSE OldAt(p), text |-> LineAt(p).text]
KnownAreLines ==
  \A k \in DOMAIN parsed.valid : \E p \in HeadLines :
    /\ k[2] = NewAt(p)
    /\ IF Verbatim THEN k[1] = FileAt(p).new
       ELSE k[1] \in BothSpellings(FileAt(p).new) \cup {<<"b">> \o FileAt(p).new}
FilesAreKnown ==
  \A k \in DOMAIN parsed.valid : \E s \in DOMAIN change.files :
    LET file == change.files[s] IN
    /\ file.new = k[1]
    /\ k[1] \in parsed.newFiles <=> file.old = Null
    /\ file.old # Null => parsed.oldPaths[k[1]] = file.old
FactsAreTrue ==
  /\ LinesAreKnown
  /\ KnownAreLines
  /\ reader = "glab-verbatim" /\ change.shape = "git" => FilesAreKnown

Named(file) == IF file.new = Null THEN file.old ELSE file.new

(* What a strict walk publishes is exact: every body line read has its     *)
(* entry, under the path, side and number it has, the hunks are those of   *)
(* the change, and a diff read to its end names every file of it.          *)
EntryOf(i) ==
  LET p == diff[i].at
      removed == LineAt(p).sign = "-"
  IN [index |-> i, path |-> Named(FileAt(p)), side |-> IF removed THEN "old" ELSE "head",
      line |-> IF removed THEN OldAt(p) ELSE NewAt(p)]
EntriesAreTrue ==
  /\ annotated.entries = {EntryOf(i) : i \in Body}
  /\ annotated.hunks =
       {<<FileAt(diff[i].at).new, HunkAt(diff[i].at).new,
          HunkAt(diff[i].at).new + NewCount(HunkAt(diff[i].at)) - 1>> :
            i \in {j \in Body : NewCount(HunkAt(diff[j].at)) # 0}}
  /\ at.is = "end" => annotated.files = {Named(change.files[s]) : s \in DOMAIN change.files}

(* A strict walk refuses a line only because it lost its blank, finds its  *)
(* diff cut only inside a hunk or a pair of paths, and gets past neither.  *)
InHunk == at.is = "body" \/ (at.is = "note" /\ at.k < Len(HunkAt(at).body))
InPair == at.is = "new"
RaisesOnlyWhenBroken ==
  /\ ended = "refused" => at.is = "body" /\ LineAt(at).bare
  /\ ended = "cut" => InHunk \/ InPair
  /\ ended = "done" /\ Strict => ~InHunk /\ ~InPair /\ \A i \in DOMAIN diff : diff[i].sign # ""

WalkTellsTruth ==
  /\ ~Strict => FactsAreTrue
  /\ Strict /\ ended = "done" => EntriesAreTrue
  /\ RaisesOnlyWhenBroken
=============================================================================
