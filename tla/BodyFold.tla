------------------------------ MODULE BodyFold ------------------------------
(***************************************************************************)
(* What becomes of a Markdown body that is over the limit of the forge     *)
(* (delivery/fold.py).  A prefix of it is kept, so many bytes that a       *)
(* notice of what is missing still fits; the prefix is taken back further  *)
(* until it ends outside every code span, cuts no committable suggestion   *)
(* in two, and fits together with the fence that closes what it leaves     *)
(* open.                                                                   *)
(***************************************************************************)
EXTENDS Integers, Sequences, FiniteSets, SequencesExt, FiniteSetsExt

CONSTANTS
  Bodies,      \* what may be over the limit: sequences of the symbols below
  Allowances,  \* bytes that may be used
  FoldNotice       \* bytes of the notice, its number aside

(* "n" ends a line, "t" is a backtick, "s" the word suggestion, "w" takes  *)
(* two bytes and "x" is any other character. *)
Symbol == {"n", "t", "s", "w", "x"}
ASSUME FoldAssumption ==
  FoldNotice \in Nat \ {0} /\ Allowances \subseteq Nat /\ Bodies \subseteq Seq(Symbol)

VARIABLES
  markdown, allowance, protect,  \* protect: an inline body, with suggestions
  cut,      \* the prefix that is kept, by its length
  midline,  \* whether it was cut inside a line that is too long
  phase,    \* "new", "retreating", "folded", or "whole" when nothing is
  turns     \* history: how often it was taken back

foldVars == <<markdown, allowance, protect, cut, midline, phase, turns>>
-----------------------------------------------------------------------------
(* Markdown                                                                *)

Bytes(c) == IF c = "w" THEN 2 ELSE 1
Utf8Len(s) ==
  LET bytes[i \in 0..Len(s)] == IF i = 0 THEN 0 ELSE bytes[i - 1] + Bytes(s[i])
  IN bytes[Len(s)]
Upto(s, n) == SubSeq(s, 1, n)

(* A line: where it starts, and the position of what ends it. *)
EndsAt(s, i) == i = Len(s) + 1 \/ s[i] = "n"
LineStart(s, i) == 1 + Max({0} \cup {j \in 1..(i - 1) : s[j] = "n"})
LinesOf(s) == {<<LineStart(s, i), i>> : i \in {j \in 1..(Len(s) + 1) : EndsAt(s, j)}}

(* The backticks from i on. *)
TickRun(s, i) ==
  CHOOSE k \in 0..Len(s) :
    /\ \A j \in i..(i + k - 1) : j \in DOMAIN s /\ s[j] = "t"
    /\ i + k \in DOMAIN s => s[i + k] # "t"

(* open_fence: a run of three or more opens one, of as many closes it.     *)
Visit(s, state, line) ==
  LET run == TickRun(s, line[1])
      rest == (line[1] + run)..(line[2] - 1)
  IN IF state.width > 0
     THEN IF run >= state.width /\ rest = {}
          THEN [width |-> 0, at |-> 0, closed |-> state.closed \cup {<<state.at, line[2] + 1>>}]
          ELSE state
     ELSE IF run >= 3 /\ \A j \in rest : s[j] # "t"
          THEN [width |-> run, at |-> line[1], closed |-> state.closed]
          ELSE state
FencesOf(s) ==
  LET state[i \in 0..(Len(s) + 1)] ==
        IF i = 0 THEN [width |-> 0, at |-> 0, closed |-> {}]
        ELSE IF EndsAt(s, i) THEN Visit(s, state[i - 1], <<LineStart(s, i), i>>) ELSE state[i - 1]
  IN state
OpenFence(s) == FencesOf(s)[Len(s) + 1]
Fenced(s) ==
  LET state == OpenFence(s)
  IN state.closed \cup IF state.width = 0 THEN {} ELSE {<<state.at, Len(s) + 1>>}

(* fence_run: no line that a suggestion proposes begins with a run as long *)
(* as its fence; the line that closes it is such a run.  There are no      *)
(* others: prepared_prose leaves prose no fence of backticks.              *)
ASSUME SuggestionAssumption ==
  \A b \in Bodies : \A line \in LinesOf(b) :
    LET state == FencesOf(b)[line[2] - 1]
    IN state.width > 0 /\ b[state.at + state.width] = "s" /\ TickRun(b, line[1]) >= state.width
         => line[2] = line[1] + state.width

(* code_spans: a run pairs with the next of its width on the line.         *)
RunStarts(s, line) == {i \in line[1]..(line[2] - 1) : s[i] = "t" /\ (i = line[1] \/ s[i - 1] # "t")}
Pair(s, line, found, i) ==
  LET width == TickRun(s, i)
      closers == {j \in RunStarts(s, line) : j >= i + width /\ TickRun(s, j) = width}
  IN IF i \notin RunStarts(s, line) \/ i < found.after \/ closers = {} THEN found
     ELSE [after |-> Min(closers) + width, spans |-> found.spans \cup {<<i, Min(closers) + width>>}]
SpansIn(s, line) ==
  LET found[k \in 0..(line[2] - line[1])] ==
        IF k = 0 THEN [after |-> 1, spans |-> {}] ELSE Pair(s, line, found[k - 1], line[1] + k - 1)
  IN found[line[2] - line[1]].spans
CodeSpans(s) ==
  UNION {SpansIn(s, line) : line \in {l \in LinesOf(s) :
           \A f \in Fenced(s) : ~(f[1] <= l[1] /\ l[1] < f[2])}}
-----------------------------------------------------------------------------
(* The fold                                                                *)

Digits(n) == IF n < 10 THEN 1 ELSE IF n < 100 THEN 2 ELSE 3
FoldLine(dropped) == FoldNotice + Digits(dropped)

(* Two line ends, the notice at its longest, and the shortest closer.      *)
Reserve == 2 + FoldLine(Utf8Len(markdown)) + 1 + 3

(* Back to the start of the code span that the cut is inside. *)
RetreatInsideSpan(n) ==
  LET around == {p \in CodeSpans(markdown) : p[1] - 1 < n /\ n < p[2] - 1}
  IN IF around = {} THEN n ELSE (CHOOSE p \in around : TRUE)[1] - 1

(* Whole lines as long as they fit; of a line that is too long for any     *)
(* place as many characters as fit. *)
Longest(candidates, budget) ==
  Max({0} \cup {n \in candidates : Utf8Len(Upto(markdown, n)) <= budget})
WholeLines(budget) == Longest({l[2] - 1 : l \in LinesOf(markdown)}, budget)
TooLong(budget) ==
  {l \in LinesOf(markdown) :
     /\ Utf8Len(SubSeq(markdown, l[1], l[2] - 1)) > budget
     /\ l[1] = 1 \/ Utf8Len(Upto(markdown, l[1] - 2)) <= budget}
FirstCut(budget) ==
  Longest({WholeLines(budget)} \cup UNION {(l[1] - 1)..(l[2] - 1) : l \in TooLong(budget)}, budget)

FInit ==
  /\ markdown \in Bodies /\ allowance \in Allowances /\ protect \in BOOLEAN
  /\ cut = 0 /\ midline = FALSE
  /\ phase = "new" /\ turns = 0

(* compose_inline_body, compose_review_body: only what does not fit. *)
KeepWhole ==
  /\ phase = "new" /\ Utf8Len(markdown) <= allowance
  /\ phase' = "whole" /\ cut' = Len(markdown)
  /\ UNCHANGED <<markdown, allowance, protect, midline, turns>>

StartFold ==
  /\ phase = "new" /\ Utf8Len(markdown) > allowance
  /\ LET budget == allowance - Reserve
         n == IF budget < 0 THEN 0 ELSE FirstCut(budget)
     IN /\ cut' = RetreatInsideSpan(n)
        /\ midline' = (budget >= 0 /\ n > WholeLines(budget) /\ markdown[n] # "n")
  /\ phase' = "retreating"
  /\ UNCHANGED <<markdown, allowance, protect, turns>>

EndsLine(n) == n > 0 /\ markdown[n] = "n"

(* Mutant: the closer alone is trusted to end what the cut left open.     *)
MutantOpenSuggestion == {}
(* _open_suggestion_line: where the prefix leaves a suggestion open. *)
OpenSuggestion ==
  LET state == OpenFence(Upto(markdown, cut))
      word == state.at + state.width
  IN IF protect /\ state.width > 0 /\ word <= cut /\ markdown[word] = "s" THEN {state.at} ELSE {}

TakenBack(n, inside) ==
  /\ cut' = RetreatInsideSpan(n)
  /\ midline' = inside
  /\ turns' = turns + 1
  /\ UNCHANGED <<markdown, allowance, protect, phase>>

(* Half a patch that is closed would be a whole, wrong one. *)
DropSuggestion ==
  /\ phase = "retreating"
  /\ \E at \in OpenSuggestion : TakenBack(at - 1, midline)

Separator == IF EndsLine(cut) THEN <<>> ELSE <<"n">>
Closer ==
  LET width == OpenFence(Upto(markdown, cut)).width
  IN IF width = 0 THEN <<>> ELSE Separator \o [i \in 1..width |-> "t"]
Kept == Upto(markdown, cut) \o Closer
Dropped == Utf8Len(markdown) - Utf8Len(Upto(markdown, cut))
FoldedLen == Utf8Len(Kept) + 2 + FoldLine(Dropped)
Fits == FoldedLen <= allowance \/ cut = 0

(* _drop_last_line *)
DropLastLine ==
  LET end == IF EndsLine(cut) THEN cut - 1 ELSE cut
      before == {i \in 1..end : markdown[i] = "n"}
  IN IF before = {} THEN 0 ELSE IF EndsLine(cut) THEN Max(before) ELSE Max(before) - 1

Retreat ==
  /\ phase = "retreating" /\ OpenSuggestion = {} /\ ~Fits
  /\ IF midline /\ ~EndsLine(cut)
     THEN TakenBack(cut - 1, TRUE)
     ELSE TakenBack(DropLastLine, FALSE)

EndFold ==
  /\ phase = "retreating" /\ OpenSuggestion = {} /\ Fits
  /\ phase' = "folded"
  /\ UNCHANGED <<markdown, allowance, protect, cut, midline, turns>>

FNext == KeepWhole \/ StartFold \/ DropSuggestion \/ Retreat \/ EndFold

FSpec == FInit /\ [][FNext]_foldVars
-----------------------------------------------------------------------------
(* Every turn gives something up, so the fold ends. *)
FoldEnds == turns + cut <= Len(markdown)

(* It fits, or there is no room for more than the notice. *)
FoldFits ==
  phase = "folded" =>
    \/ Utf8Len(Kept \o <<"n", "n">>) + FoldLine(Utf8Len(markdown) - Utf8Len(Upto(markdown, cut)))
         <= allowance
    \/ cut = 0

(* What comes after the body, the notice first, is not read as code, ...   *)
NoticeIsProse == phase = "folded" => OpenFence(Kept \o <<"n", "n", "x">>).width = 0

(* ... no code span is cut open, ...                                       *)
SpansAreWhole ==
  phase = "folded" => \A p \in CodeSpans(markdown) : ~(p[1] - 1 < cut /\ cut < p[2] - 1)

(* ... and what can be applied with a click is what the finding proposes.  *)
Suggestions(s) ==
  {SubSeq(s, f[1], f[2] - 1) : f \in {g \in Fenced(s) : s[g[1] + TickRun(s, g[1])] = "s"}}
OnlyWholeSuggestions ==
  phase = "folded" /\ protect =>
    Suggestions(Kept \o <<"n">>) \subseteq Suggestions(markdown \o <<"n">>)

FoldKeepsMeaning ==
  FoldEnds /\ FoldFits /\ NoticeIsProse /\ SpansAreWhole /\ OnlyWholeSuggestions
=============================================================================
