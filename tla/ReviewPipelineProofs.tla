----------------------- MODULE ReviewPipelineProofs -----------------------
(***************************************************************************)
(* Theorems about ReviewPipeline, for every set of findings and agents,    *)
(* every cap and any number of runs.  The inductive invariant says that    *)
(* each stored output, in memory, in a returned checkpoint or on disk,     *)
(* carries only stamps somebody earned (CardOK) and none of a later stage  *)
(* (Blank), and that the outputs stored are those of the phases before pc. *)
(***************************************************************************)
EXTENDS ReviewPipeline, TLAPS

(* What a card's stamps say of who was heard. *)
CardOK(c) ==
  /\ c.origin = "proven" => "delta" \in c.heard
  /\ c.validation \in Reply \ {"none"} => "score" \in c.heard
  /\ c.admission \in {"report_only", "admitted"} =>
       c.origin = "proven" /\ c.validation \in {"admit", "reject"}
  /\ c.challenge = "survived" =>
       /\ c.admission = "admitted"
       /\ ~c.stripped
       /\ c.elim = "none" => "answer" \in c.heard
  /\ c.elim # "none" => "verdict" \in c.heard

(* Cards no stage has stamped. *)
NewCards == {NewCard(onLoss) : onLoss \in BOOLEAN}

(* Stages after p have not touched c. *)
Blank(p, c) ==
  /\ p \in {"summarize", "discover", "merge"} => c \in NewCards
  /\ p = "verify" => c.validation = "none"
  /\ p \in {"verify", "validate"} => c.admission = "none" /\ ~c.stripped
  /\ p \in {"verify", "validate", "filter"} => c.challenge = "none"

OutputOK(p, o) ==
  /\ o \in Output
  /\ \A f \in Finding : o.cards[f] # Nil =>
       o.cards[f] \in Card /\ CardOK(o.cards[f]) /\ Blank(p, o.cards[f])

MapOK(m) ==
  /\ m \in PhaseMap
  /\ \A p \in Phase : m[p] # Nil => OutputOK(p, m[p])

Stored ==
  /\ MapOK(out)
  /\ MapOK(cp)
  /\ disk # Nil => MapOK(disk)
  /\ env # Nil => MapOK(env.checkpoints)

Reached ==
  /\ pc \in Phase => \A q \in Phase : out[q] # Nil <=> Rank[q] < Rank[pc]
  /\ pc = "report" => \A q \in Phase : out[q] # Nil

IInv == TypeOK /\ Stored /\ Reached /\ ResumePoint /\ SectionsEarned
-----------------------------------------------------------------------------
(* The verdicts of one card. *)

(* A card just merged carries no stamp. *)
LEMMA NewCardOK ==
  ASSUME NEW c \in NewCards
  PROVE  c \in Card /\ CardOK(c) /\ \A p \in Phase : Blank(p, c)
<1>1. PICK onLoss \in BOOLEAN : c = NewCard(onLoss)
  BY DEF NewCards
<1>2. c \in Card
  BY <1>1 DEF NewCard, Card, Reply
<1>3. CardOK(c)
  BY <1>1 DEF NewCard, CardOK, Reply
<1>4. ASSUME NEW p \in Phase PROVE Blank(p, c)
  BY <1>1 DEF NewCard, Blank
<1>5. QED
  BY <1>2, <1>3, <1>4

(* A reported finding's card is one of those. *)
LEMMA NewCardIsNew == ASSUME NEW onLoss \in BOOLEAN PROVE NewCard(onLoss) \in NewCards
BY DEF NewCards

(* A verified card says only what a trusted delta said. *)
LEMMA VerifyCardOK ==
  ASSUME NEW verdict, NEW new \in NewCards
  PROVE  LET c == VerifyCard(new, verdict)
         IN c \in Card /\ CardOK(c) /\ Blank("verify", c)
<1> DEFINE c == VerifyCard(new, verdict)
<1>1. PICK onLoss \in BOOLEAN : new = NewCard(onLoss)
  BY DEF NewCards
<1>2. c \in Card
  BY <1>1 DEF VerifyCard, NewCard, Card, Reply
<1>3. CardOK(c)
  BY <1>1 DEF VerifyCard, NewCard, CardOK, Reply
<1>4. Blank("verify", c)
  BY <1>1 DEF VerifyCard, NewCard, Blank
<1>5. QED
  BY <1>2, <1>3, <1>4

(* A scored card was scored, and nothing later touched it. *)
LEMMA ValidateCardOK ==
  ASSUME NEW c \in Card, CardOK(c), Blank("verify", c), NEW record \in Reply
  PROVE  LET d == ValidateCard(c, record)
         IN d \in Card /\ CardOK(d) /\ Blank("validate", d)
BY DEF ValidateCard, Card, CardOK, Blank, Reply

(* The filter's admission follows from what the card has earned. *)
LEMMA FilterCardOK ==
  ASSUME NEW c \in Card, CardOK(c), Blank("validate", c), NEW rule
  PROVE  LET d == FilterCard(c, rule)
         IN d \in Card /\ CardOK(d) /\ Blank("filter", d)
BY DEF FilterCard, Card, CardOK, Blank, Reply, Admission

(* Admission evaluated again admits no card the filter stripped. *)
LEMMA ReevaluationOK ==
  ASSUME NEW c \in Card, CardOK(c), Blank("filter", c),
         NEW e, e = [c EXCEPT !.admission = Admission(c)]
  PROVE  /\ e \in Card /\ CardOK(e) /\ e.challenge = "none"
         /\ e.admission = "admitted" => ~e.stripped
BY DEF Card, CardOK, Blank, Reply, Admission

(* A card that survived was admitted, whole and answered for. *)
LEMMA ChallengeCardOK ==
  ASSUME NEW e \in Card, CardOK(e), e.challenge = "none",
         e.admission = "admitted" => ~e.stripped,
         NEW answer
  PROVE  LET d == ChallengeCard(e, answer)
         IN d \in Card /\ CardOK(d) /\ Blank("challenge", d)
<1>1. CASE ~Actionable(e)
  BY <1>1 DEF ChallengeCard, Card, CardOK, Blank
<1>2. CASE Actionable(e) /\ answer \in {"capped", "null"}
  BY <1>2 DEF ChallengeCard, Card, CardOK, Blank
<1>3. CASE Actionable(e) /\ answer = "low"
  BY <1>3 DEF ChallengeCard, Card, CardOK, Blank, Actionable
<1>4. CASE Actionable(e) /\ answer \notin {"capped", "null", "low"}
  BY <1>4 DEF ChallengeCard, Card, CardOK, Blank, Actionable
<1>5. QED
  BY <1>1, <1>2, <1>3, <1>4
-----------------------------------------------------------------------------
(* Maps of outputs. *)

(* No outputs are sound. *)
LEMMA EmptyOK == MapOK(Empty)
BY NilAssumption DEF MapOK, Empty, PhaseMap

(* The checkpoint of a sound run is sound, whole or reduced to names. *)
LEMMA ResumeOK ==
  ASSUME NEW m, MapOK(m), NEW truncated \in BOOLEAN
  PROVE  MapOK(Resume(m, truncated))
BY EmptyOK DEF Resume

(* The slim checkpoint of a sound run is sound. *)
LEMMA SlimOK ==
  ASSUME NEW m, MapOK(m)
  PROVE  MapOK(Slim(m))
BY DEF Slim, MapOK, Empty, PhaseMap, Phase

(* Leaving discovery out keeps a checkpoint sound. *)
LEMMA LossCheckpointOK ==
  ASSUME NEW m, MapOK(m)
  PROVE  MapOK(LossCheckpoint(m))
BY DEF LossCheckpoint, MapOK, PhaseMap, Phase

(* A sound output can be stored for its phase. *)
LEMMA StoreOK ==
  ASSUME NEW m, MapOK(m), NEW p \in Phase, NEW o, OutputOK(p, o)
  PROVE  MapOK([m EXCEPT ![p] = o])
BY DEF MapOK, PhaseMap, OutputOK

(* A failure envelope has its type and a sound checkpoint. *)
LEMMA FailureType ==
  ASSUME NEW p \in Phase \cup {"checkpoints", "report"}, NEW m, MapOK(m),
         NEW g \in SUBSET Gap, NEW truncated \in BOOLEAN
  PROVE  /\ Failure(p, m, g, truncated) \in Envelope
         /\ MapOK(Failure(p, m, g, truncated).checkpoints)
<1>1. MapOK(Resume(m, truncated))
  BY ResumeOK
<1>2. QED
  BY <1>1 DEF Failure, Envelope, MapOK

(* An output of sound cards is sound. *)
LEMMA MakeOutputOK ==
  ASSUME NEW p \in Phase, NEW cards, NEW g \in SUBSET Gap, NEW lineage \in Lineage,
         cards \in [Finding -> Card \cup {Nil}],
         \A f \in Finding : cards[f] # Nil => CardOK(cards[f]) /\ Blank(p, cards[f])
  PROVE  OutputOK(p, MakeOutput(cards, g, lineage))
BY DEF OutputOK, MakeOutput, Output

(* The outputs reached are those below the phase under way. *)
LEMMA RankType == Rank \in [Phase -> 1..7]
BY DEF Rank, Phase

(* The phase after p has the next rank. *)
LEMMA AfterType ==
  ASSUME NEW p \in Phase
  PROVE  /\ After[p] \in Phase \cup {"report"}
         /\ After[p] \in Phase => Rank[After[p]] = Rank[p] + 1
         /\ After[p] = "report" => \A q \in Phase : Rank[q] <= Rank[p]
BY DEF After, Rank, Phase

(* Two phases never share a rank. *)
LEMMA RankInjective ==
  ASSUME NEW p \in Phase, NEW q \in Phase, Rank[p] = Rank[q]
  PROVE  p = q
BY DEF Rank, Phase
-----------------------------------------------------------------------------
(* A phase that completes with a sound output keeps the invariant. *)

(* Storing a sound output and moving on keeps the invariant. *)
LEMMA CompleteStep ==
  ASSUME IInv, NEW p \in Phase, pc = p, NEW o, OutputOK(p, o), Complete(p, o),
         UNCHANGED <<runs, cp, task, disk>>,
         round' \in {0, 1}, accepted' \in [Finding -> Reply]
  PROVE  IInv'
<1> DEFINE lost == p = "discover" /\ NothingReviewed(o)
<1>1. o \in Output /\ o # Nil
  BY NilAssumption DEF OutputOK
<1>2. Disclosed(p, o) \in SUBSET Gap
  BY <1>1 DEF IInv, TypeOK, Disclosed, Output
<1>3. MapOK(out')
  BY StoreOK DEF IInv, Stored, Complete
<1>4. /\ pc' = IF lost THEN "host" ELSE After[p]
      /\ gaps' = Disclosed(p, o) \cup (IF lost THEN {"all-degraded"} ELSE {})
      /\ out' = [out EXCEPT ![p] = o]
  BY DEF Complete
<1>5. gaps' \in SUBSET Gap
  BY <1>2, <1>4 DEF Gap
<1>6. \A q \in Phase : out'[q] # Nil <=> Rank[q] <= Rank[p]
  <2>1. out \in [Phase -> Output \cup {Nil}]
    BY DEF IInv, TypeOK, PhaseMap
  <2>2. SUFFICES ASSUME NEW q \in Phase
                 PROVE  out'[q] # Nil <=> Rank[q] <= Rank[p]
    OBVIOUS
  <2>3. Rank[q] \in 1..7 /\ Rank[p] \in 1..7
    BY RankType
  <2>4. CASE q = p
    BY <2>1, <2>3, <2>4, <1>1, <1>4
  <2>5. CASE q # p
    <3>1. out'[q] = out[q]
      BY <2>1, <2>5, <1>4
    <3>2. Rank[q] # Rank[p]
      BY <2>5, RankInjective
    <3>3. out[q] # Nil <=> Rank[q] < Rank[p]
      BY DEF IInv, Reached
    <3>4. QED
      BY <2>3, <3>1, <3>2, <3>3
  <2>6. QED
    BY <2>4, <2>5
<1>7. CASE lost
  <2>1. PICK truncated \in BOOLEAN :
          env' = Failure("discover", LossCheckpoint(out'), gaps', truncated)
    BY <1>7 DEF Complete
  <2>2. env' \in Envelope /\ MapOK(env'.checkpoints)
    BY <2>1, <1>3, <1>5, LossCheckpointOK, FailureType DEF Phase
  <2>3. /\ env'.ok = FALSE /\ env'.failing = "discover" /\ env'.truncated = truncated
        /\ ~truncated => env'.checkpoints = LossCheckpoint(out')
    BY <2>1 DEF Failure, Resume
  <2>4. ResumePoint'
    <3>1. \A q \in Phase : LossCheckpoint(out')[q] # Nil <=> Rank[q] < Rank["discover"]
      BY <1>3, <1>6, <1>7, RankType, RankInjective DEF LossCheckpoint, MapOK, PhaseMap, Phase
    <3>2. QED
      BY <2>3, <3>1 DEF ResumePoint
  <2>5. SectionsEarned'
    BY <2>3 DEF SectionsEarned, Delivered
  <2>6. TypeOK'
    BY <1>3, <1>4, <1>5, <1>7, <2>2 DEF IInv, TypeOK, MapOK
  <2>7. Stored' /\ Reached'
    BY <1>3, <1>4, <1>7, <2>2 DEF IInv, Stored, Reached, Phase
  <2>8. QED
    BY <2>4, <2>5, <2>6, <2>7 DEF IInv
<1>8. CASE ~lost
  <2>1. env' = env /\ pc' = After[p]
    BY <1>8, <1>4 DEF Complete
  <2>2. pc' # "host"
    BY <2>1, AfterType DEF Phase
  <2>3. ResumePoint' /\ SectionsEarned'
    BY <2>1, <2>2 DEF IInv, ResumePoint, SectionsEarned, Delivered
  <2>4. TypeOK'
    BY <1>3, <1>5, <2>1, AfterType DEF IInv, TypeOK, MapOK
  <2>5. Reached'
    <3>1. ASSUME pc' \in Phase, NEW q \in Phase
          PROVE  out'[q] # Nil <=> Rank[q] < Rank[pc']
      <4>1. Rank[pc'] = Rank[p] + 1
        BY <3>1, <2>1, AfterType
      <4>2. Rank[q] \in 1..7 /\ Rank[p] \in 1..7
        BY RankType
      <4>3. QED
        BY <4>1, <4>2, <1>6
    <3>2. ASSUME pc' = "report", NEW q \in Phase
          PROVE  out'[q] # Nil
      BY <3>2, <1>6, <2>1, AfterType
    <3>3. QED
      BY <3>1, <3>2 DEF Reached
  <2>6. Stored'
    BY <1>3, <2>1 DEF IInv, Stored
  <2>7. QED
    BY <2>3, <2>4, <2>5, <2>6 DEF IInv
<1>9. QED
  BY <1>7, <1>8
-----------------------------------------------------------------------------
(* Every action of the specification keeps the invariant. *)

(* Nothing has been stored at first. *)
LEMMA InitOK == Init => IInv
<1> SUFFICES ASSUME Init PROVE IInv
  OBVIOUS
<1>1. TypeOK
  BY EmptyOK DEF Init, TypeOK, MapOK, Eager, Phase, NoRecord, Reply
<1>2. Stored
  BY EmptyOK DEF Init, Stored
<1>3. Reached /\ ResumePoint /\ SectionsEarned
  BY DEF Init, Reached, ResumePoint, SectionsEarned, Delivered, Phase
<1>4. QED
  BY <1>1, <1>2, <1>3 DEF IInv

(* A run begins from sound checkpoints, with no output of its own. *)
LEMMA BeginStep ==
  ASSUME IInv, NEW m, MapOK(m), NEW g \in SUBSET Gap, Begin(m, g)
  PROVE  IInv'
<1>1. pc' = "summarize" /\ out' = Empty /\ cp' = m /\ env' = env /\ disk' = disk
  BY DEF Begin
<1>2. TypeOK'
  BY EmptyOK DEF IInv, Begin, TypeOK, MapOK, Eager, Phase, NoRecord, Reply
<1>3. Stored'
  BY <1>1, EmptyOK DEF IInv, Stored
<1>4. Reached'
  <2>1. \A q \in Phase : ~(Rank[q] < Rank["summarize"])
    BY RankType DEF Rank, Phase
  <2>2. QED
    BY <1>1, <2>1 DEF Reached, Empty
<1>5. ResumePoint' /\ SectionsEarned'
  BY <1>1 DEF IInv, ResumePoint, SectionsEarned, Delivered
<1>6. QED
  BY <1>2, <1>3, <1>4, <1>5 DEF IInv

(* A refused copy changes nothing but the envelope. *)
LEMMA GarbledStep == IInv /\ StartGarbled => IInv'
<1> SUFFICES ASSUME IInv, StartGarbled PROVE IInv'
  OBVIOUS
<1>1. env' = Failure("checkpoints", Empty, {"checkpoint"}, FALSE)
  BY DEF StartGarbled
<1>2. env' \in Envelope /\ MapOK(env'.checkpoints)
  BY <1>1, EmptyOK, FailureType DEF Gap
<1>3. env'.ok = FALSE /\ env'.failing = "checkpoints"
  BY <1>1 DEF Failure
<1> DEFINE rest == <<pc, cp, task, out, gaps, round, accepted, disk>>
<1>4. TypeOK' /\ Stored' /\ Reached'
  <2>1. runs' = runs + 1 /\ UNCHANGED rest
    BY DEF StartGarbled
  <2>2. TypeOK'
    BY <1>2, <2>1 DEF IInv, TypeOK
  <2>3. Stored'
    BY <1>2, <2>1 DEF IInv, Stored
  <2>4. Reached'
    BY <2>1 DEF IInv, Reached
  <2>5. QED
    BY <2>2, <2>3, <2>4
<1>5. ResumePoint' /\ SectionsEarned'
  BY <1>3 DEF ResumePoint, SectionsEarned, Delivered
<1>6. QED
  BY <1>4, <1>5 DEF IInv

(* However it starts, a run keeps the invariant. *)
LEMMA StartStep == IInv /\ Start => IInv'
<1> SUFFICES ASSUME IInv, Start PROVE IInv'
  OBVIOUS
<1>1. CASE StartFresh
  BY <1>1, EmptyOK, BeginStep DEF StartFresh
<1>2. CASE StartFromReturn
  BY <1>2, BeginStep DEF StartFromReturn, IInv, Stored, Gap
<1>3. CASE StartFromDisk
  BY <1>3, BeginStep DEF StartFromDisk, IInv, Stored
<1>4. CASE StartGarbled
  BY <1>4, GarbledStep
<1>5. QED
  BY <1>1, <1>2, <1>3, <1>4 DEF Start

(* An eager dispatch that settles touches no output. *)
LEMMA SettlesStep ==
  ASSUME IInv, NEW p \in Eager, Settles(p)
  PROVE  IInv'
<1>1. task' \in [Eager -> {"idle", "running", "settled", "threw"}]
  BY DEF IInv, TypeOK, Settles
<1>2. QED
  BY <1>1 DEF IInv, Settles, TypeOK, Stored, Reached, ResumePoint, SectionsEarned, Delivered,
     FinalCard

(* A replayed output is sound, and its phase is the one under way. *)
LEMMA ReplayStep ==
  ASSUME IInv, NEW p \in Phase, Replay(p)
  PROVE  IInv'
<1>1. OutputOK(p, cp[p])
  BY DEF IInv, Stored, MapOK, Replay
<1>2. QED
  BY <1>1, CompleteStep DEF Replay, IInv, TypeOK

(* A phase that throws leaves the outputs before it. *)
LEMMA ThrowStep ==
  ASSUME IInv, NEW p \in Phase, Throw(p)
  PROVE  IInv'
<1>1. PICK truncated \in BOOLEAN : env' = Failure(p, out, gaps, truncated)
  BY DEF Throw
<1>2. env' \in Envelope /\ MapOK(env'.checkpoints)
  BY <1>1, FailureType DEF IInv, TypeOK, Stored
<1>3. /\ env'.ok = FALSE /\ env'.failing = p /\ env'.truncated = truncated
      /\ ~truncated => env'.checkpoints = out
  BY <1>1 DEF Failure, Resume
<1>4. \A q \in Phase : out[q] # Nil <=> Rank[q] < Rank[p]
  BY DEF IInv, Reached, Throw
<1>5. ResumePoint'
  BY <1>3, <1>4 DEF ResumePoint, Phase
<1>6. SectionsEarned'
  BY <1>3 DEF SectionsEarned, Delivered
<1>7. TypeOK' /\ Stored' /\ Reached'
  BY <1>2 DEF IInv, Throw, TypeOK, Stored, Reached, NoRecord, Reply, Phase
<1>8. QED
  BY <1>5, <1>6, <1>7 DEF IInv

(* A report that throws leaves every output. *)
LEMMA ReportThrowsStep == IInv /\ ReportThrows => IInv'
<1> SUFFICES ASSUME IInv, ReportThrows PROVE IInv'
  OBVIOUS
<1>1. \A q \in Phase : out[q] # Nil
  BY DEF IInv, Reached, ReportThrows
<1>2. gaps' \in SUBSET Gap
  BY <1>1 DEF IInv, TypeOK, ReportThrows, PhaseMap, Output, Phase
<1>3. PICK truncated \in BOOLEAN : env' = Failure("report", out, gaps', truncated)
  BY DEF ReportThrows
<1>4. env' \in Envelope /\ MapOK(env'.checkpoints)
  BY <1>2, <1>3, FailureType DEF IInv, Stored
<1>5. /\ env'.ok = FALSE /\ env'.failing = "report" /\ env'.truncated = truncated
      /\ ~truncated => env'.checkpoints = out
  BY <1>3 DEF Failure, Resume
<1>6. ResumePoint' /\ SectionsEarned'
  BY <1>1, <1>5 DEF ResumePoint, SectionsEarned, Delivered
<1>7. TypeOK' /\ Stored' /\ Reached'
  BY <1>2, <1>4 DEF IInv, ReportThrows, TypeOK, Stored, Reached, Phase
<1>8. QED
  BY <1>6, <1>7 DEF IInv
-----------------------------------------------------------------------------
(* The phases, dispatched. *)

(* A fresh sound output keeps the invariant. *)
LEMMA DispatchStep ==
  ASSUME IInv, NEW p \in Phase, NEW o, OutputOK(p, o), Dispatch(p, o)
  PROVE  IInv'
BY CompleteStep DEF Dispatch, Fresh, IInv, TypeOK

(* What a fresh phase reads is there, and sound. *)
LEMMA InputOK ==
  ASSUME IInv, NEW p \in Phase, NEW q \in Phase, pc = p, Rank[q] < Rank[p]
  PROVE  OutputOK(q, out[q]) /\ out[q] # Nil
BY DEF IInv, Reached, Stored, MapOK

(* The summary has no cards. *)
LEMMA SummarizeStep == IInv /\ Summarize => IInv'
<1> SUFFICES ASSUME IInv, Summarize PROVE IInv'
  OBVIOUS
<1>1. PICK lost \in BOOLEAN :
        Dispatch("summarize", MakeOutput(NoCards, IF lost THEN {"summarize"} ELSE {}, NoLineage))
  BY DEF Summarize
<1>2. OutputOK("summarize", MakeOutput(NoCards, IF lost THEN {"summarize"} ELSE {}, NoLineage))
  BY MakeOutputOK DEF NoCards, Gap, Phase, Lineage, NoLineage
<1>3. QED
  BY <1>1, <1>2, DispatchStep DEF Phase

(* Discovery reports new cards. *)
LEMMA DiscoverStep == IInv /\ Discover => IInv'
<1> SUFFICES ASSUME IInv, Discover PROVE IInv'
  OBVIOUS
<1>1. PICK degraded \in SUBSET Agent, reported \in [Agent -> SUBSET Finding],
             onLoss \in SUBSET {pair[1] : pair \in Overlap} :
        Dispatch("discover",
          [cards |-> [f \in Finding |-> IF \E a \in Agent : f \in reported[a]
                                        THEN NewCard(f \in onLoss) ELSE Nil],
           gaps |-> degraded, degraded |-> degraded, lineage |-> NoLineage])
  BY DEF Discover
<1> DEFINE cards == [f \in Finding |-> IF \E a \in Agent : f \in reported[a]
                                       THEN NewCard(f \in onLoss) ELSE Nil]
           o == [cards |-> cards, gaps |-> degraded, degraded |-> degraded, lineage |-> NoLineage]
<1>2. \A f \in Finding : cards[f] # Nil => cards[f] \in NewCards
  <2> SUFFICES ASSUME NEW f \in Finding, cards[f] # Nil PROVE cards[f] \in NewCards
    OBVIOUS
  <2>1. cards[f] = NewCard(f \in onLoss)
    OBVIOUS
  <2>2. (f \in onLoss) \in BOOLEAN
    OBVIOUS
  <2> HIDE DEF cards
  <2>3. QED
    BY <2>1, <2>2, NewCardIsNew
<1>3. \A f \in Finding : cards[f] # Nil =>
        cards[f] \in Card /\ CardOK(cards[f]) /\ Blank("discover", cards[f])
  <2> HIDE DEF cards
  <2>1. QED
    BY <1>2, NewCardOK DEF Phase
<1>4. cards \in [Finding -> Card \cup {Nil}]
  BY <1>3
<1>5. OutputOK("discover", o)
  BY <1>3, <1>4 DEF OutputOK, Output, Gap, Lineage, NoLineage
<1>6. QED
  BY <1>1, <1>5, DispatchStep DEF Phase

(* Merging hands on new cards. *)
LEMMA MergeStep == IInv /\ Merge => IInv'
<1> SUFFICES ASSUME IInv, Merge PROVE IInv'
  OBVIOUS
<1>1. pc = "merge"
  BY DEF Merge, Dispatch, Fresh
<1>2. OutputOK("discover", out["discover"])
  BY <1>1, InputOK DEF Phase, Rank
<1> DEFINE cards == out["discover"].cards
<1>3. cards \in [Finding -> Card \cup {Nil}]
  BY <1>2 DEF OutputOK, Output
<1>4. \A f \in Finding : cards[f] # Nil => CardOK(cards[f]) /\ Blank("merge", cards[f])
  BY <1>2 DEF OutputOK, Blank
<1>5. OutputOK("merge", MakeOutput(cards, {}, [entered |-> Present(cards), run |-> runs]))
  <2>1. [entered |-> Present(cards), run |-> runs] \in Lineage
    BY DEF Present, Lineage, IInv, TypeOK
  <2> HIDE DEF cards
  <2>2. QED
    BY <1>3, <1>4, <2>1, MakeOutputOK DEF Phase
<1>6. QED
  BY <1>5, DispatchStep DEF Merge, Phase

(* Verification stamps what its deltas said. *)
LEMMA VerifyStep == IInv /\ Verify => IInv'
<1> SUFFICES ASSUME IInv, Verify PROVE IInv'
  OBVIOUS
<1> DEFINE held == Live(out["merge"].cards)
<1>1. PICK verdict \in [held -> {"keep", "eliminate", "unresolved"}] :
        Dispatch("verify", MakeOutput(
          [f \in Finding |-> IF f \in held THEN VerifyCard(out["merge"].cards[f], verdict[f])
                                           ELSE Nil],
          IF \E f \in held : verdict[f] = "unresolved" THEN {"verify"} ELSE {},
          out["merge"].lineage))
  BY DEF Verify
<1>2. pc = "verify"
  BY DEF Verify, Fresh
<1>3. OutputOK("merge", out["merge"])
  BY <1>2, InputOK DEF Phase, Rank
<1> DEFINE cards == [f \in Finding |->
                       IF f \in held THEN VerifyCard(out["merge"].cards[f], verdict[f]) ELSE Nil]
<1>4. \A f \in held : cards[f] \in Card /\ CardOK(cards[f]) /\ Blank("verify", cards[f])
  <2>1. \A f \in held : f \in Finding /\ out["merge"].cards[f] \in NewCards
    BY <1>3 DEF Live, Present, OutputOK, Blank
  <2>2. QED
    BY <2>1, VerifyCardOK
<1>5. \A f \in Finding : f \notin held => cards[f] = Nil
  OBVIOUS
<1>6. out["merge"].lineage \in Lineage
  BY <1>3 DEF OutputOK, Output
<1> DEFINE g == IF \E f \in held : verdict[f] = "unresolved" THEN {"verify"} ELSE {}
<1>7. g \in SUBSET Gap
  BY DEF Gap
<1>8. cards \in [Finding -> Card \cup {Nil}]
  BY <1>4, <1>5
<1>9. OutputOK("verify", MakeOutput(cards, g, out["merge"].lineage))
  <2> HIDE DEF cards, g
  <2>1. QED
    BY <1>4, <1>5, <1>6, <1>7, <1>8, MakeOutputOK DEF Phase
<1>10. QED
  BY <1>1, <1>9, DispatchStep DEF Phase

(* What verification hands on is sound. *)
LEMMA VerifiedOK ==
  ASSUME IInv, pc = "validate"
  PROVE  /\ Verified \subseteq Finding
         /\ \A f \in Verified : /\ out["verify"].cards[f] \in Card
                               /\ CardOK(out["verify"].cards[f])
                               /\ Blank("verify", out["verify"].cards[f])
         /\ out["verify"].lineage \in Lineage
<1>1. OutputOK("verify", out["verify"])
  BY InputOK DEF Phase, Rank
<1>2. QED
  BY <1>1 DEF Verified, Live, Present, OutputOK, Output

(* The first batches only record what was answered. *)
LEMMA ValidateBatchesStep == IInv /\ ValidateBatches => IInv'
<1> SUFFICES ASSUME IInv, ValidateBatches PROVE IInv'
  OBVIOUS
<1>1. accepted' \in [Finding -> Reply] /\ round' = 1
  BY DEF ValidateBatches, Reply
<1>2. UNCHANGED <<pc, runs, cp, task, out, gaps, env, disk>>
  BY DEF ValidateBatches
<1>3. TypeOK'
  BY <1>1, <1>2 DEF IInv, TypeOK
<1>4. Stored' /\ Reached'
  BY <1>2 DEF IInv, Stored, Reached
<1>5. ResumePoint' /\ SectionsEarned'
  BY <1>2 DEF IInv, ResumePoint, SectionsEarned, Delivered, FinalCard
<1>6. QED
  BY <1>3, <1>4, <1>5 DEF IInv

(* After the retry each card has the stamp of its record. *)
LEMMA ValidateRetryStep == IInv /\ ValidateRetry => IInv'
<1> SUFFICES ASSUME IInv, ValidateRetry PROVE IInv'
  OBVIOUS
<1> DEFINE pending == {f \in Verified : accepted[f] \in {"none", "partial"}}
<1>1. PICK reply \in [pending -> Reply] :
        LET record(f) == IF f \in pending THEN Consume(accepted[f], reply[f]) ELSE accepted[f]
        IN Complete("validate", MakeOutput(
             [f \in Finding |-> IF f \in Verified
                THEN ValidateCard(out["verify"].cards[f], record(f)) ELSE Nil],
             IF \E f \in Verified : record(f) = "none" THEN {"validate"} ELSE {},
             out["verify"].lineage))
  BY DEF ValidateRetry
<1> DEFINE record(f) == IF f \in pending THEN Consume(accepted[f], reply[f]) ELSE accepted[f]
           cards == [f \in Finding |-> IF f \in Verified
                       THEN ValidateCard(out["verify"].cards[f], record(f)) ELSE Nil]
           g == IF \E f \in Verified : record(f) = "none" THEN {"validate"} ELSE {}
           o == MakeOutput(cards, g, out["verify"].lineage)
<1>2. pc = "validate" /\ accepted' = NoRecord /\ round' = 0
      /\ UNCHANGED <<runs, cp, task, disk>>
  BY DEF ValidateRetry, Fresh
<1>3. \A f \in Verified : record(f) \in Reply
  BY <1>2, VerifiedOK DEF Consume, IInv, TypeOK
<1>4. \A f \in Verified : cards[f] \in Card /\ CardOK(cards[f]) /\ Blank("validate", cards[f])
  <2> HIDE DEF record
  <2>1. QED
    BY <1>2, <1>3, VerifiedOK, ValidateCardOK
<1>5. \A f \in Finding : f \notin Verified => cards[f] = Nil
  OBVIOUS
<1>6. cards \in [Finding -> Card \cup {Nil}]
  <2> HIDE DEF record
  <2>1. QED
    BY <1>4, <1>5
<1>7. OutputOK("validate", o)
  <2>1. g \in SUBSET Gap
    BY DEF Gap
  <2> HIDE DEF cards, g
  <2>2. QED
    BY <1>2, <1>4, <1>5, <1>6, <2>1, VerifiedOK, MakeOutputOK DEF Phase
<1>8. Complete("validate", o)
  BY <1>1
<1>9. accepted' \in [Finding -> Reply]
  BY <1>2 DEF NoRecord, Reply
<1>10. QED
  <2> HIDE DEF o
  <2>1. QED
    BY <1>2, <1>7, <1>8, <1>9, CompleteStep DEF Phase

(* The filter removes, strips or keeps. *)
LEMMA FilterStep == IInv /\ Filter => IInv'
<1> SUFFICES ASSUME IInv, Filter PROVE IInv'
  OBVIOUS
<1> DEFINE input == Live(out["validate"].cards)
<1>1. PICK rule \in [input -> {"remove", "strip", "keep"}] :
        Dispatch("filter", MakeOutput(
          [f \in Finding |-> IF f \in input
             THEN FilterCard(out["validate"].cards[f], rule[f]) ELSE Nil],
          {}, out["validate"].lineage))
  BY DEF Filter
<1>2. pc = "filter"
  BY DEF Filter, Fresh
<1>3. OutputOK("validate", out["validate"])
  BY <1>2, InputOK DEF Phase, Rank
<1> DEFINE cards == [f \in Finding |-> IF f \in input
                       THEN FilterCard(out["validate"].cards[f], rule[f]) ELSE Nil]
<1>4. \A f \in input : cards[f] \in Card /\ CardOK(cards[f]) /\ Blank("filter", cards[f])
  <2>1. \A f \in input : /\ f \in Finding /\ out["validate"].cards[f] \in Card
                         /\ CardOK(out["validate"].cards[f])
                         /\ Blank("validate", out["validate"].cards[f])
    BY <1>3 DEF Live, Present, OutputOK
  <2>2. QED
    BY <2>1, FilterCardOK
<1>5. \A f \in Finding : f \notin input => cards[f] = Nil
  OBVIOUS
<1>6. cards \in [Finding -> Card \cup {Nil}]
  BY <1>4, <1>5
<1>7. out["validate"].lineage \in Lineage
  BY <1>3 DEF OutputOK, Output
<1>8. OutputOK("filter", MakeOutput(cards, {}, out["validate"].lineage))
  <2> HIDE DEF cards
  <2>1. QED
    BY <1>4, <1>5, <1>6, <1>7, MakeOutputOK DEF Phase
<1>9. QED
  BY <1>1, <1>8, DispatchStep DEF Phase

(* The challenge stamps its input and carries the eliminated cards. *)
LEMMA ChallengeStep == IInv /\ Challenge => IInv'
<1> SUFFICES ASSUME IInv, Challenge PROVE IInv'
  OBVIOUS
<1> DEFINE input == Live(out["filter"].cards)
           actionable == {f \in input : Actionable(ChallengeInput(f))}
<1>1. PICK candidates \in SUBSET actionable :
        \E answer \in [candidates -> {"null", "low", "ok"}] :
        LET card(f) == ChallengeCard(ChallengeInput(f),
                                     IF f \in candidates THEN answer[f] ELSE "capped")
        IN Dispatch("challenge", MakeOutput(
             [f \in Finding |-> IF f \in input THEN card(f) ELSE CarriedCard(f)],
             ChallengeGaps({card(f).challenge : f \in input}),
             out["filter"].lineage))
  BY DEF Challenge
<1>p. PICK answer \in [candidates -> {"null", "low", "ok"}] :
        LET card(f) == ChallengeCard(ChallengeInput(f),
                                     IF f \in candidates THEN answer[f] ELSE "capped")
        IN Dispatch("challenge", MakeOutput(
             [f \in Finding |-> IF f \in input THEN card(f) ELSE CarriedCard(f)],
             ChallengeGaps({card(f).challenge : f \in input}),
             out["filter"].lineage))
  BY <1>1
<1> DEFINE card(f) == ChallengeCard(ChallengeInput(f),
                                    IF f \in candidates THEN answer[f] ELSE "capped")
           cards == [f \in Finding |-> IF f \in input THEN card(f) ELSE CarriedCard(f)]
           g == ChallengeGaps({card(f).challenge : f \in input})
           o == MakeOutput(cards, g, out["filter"].lineage)
<1>2. pc = "challenge"
  BY DEF Challenge, Fresh
<1>3. /\ OutputOK("filter", out["filter"])
      /\ OutputOK("verify", out["verify"])
  BY <1>2, InputOK DEF Phase, Rank
<1>4. \A f \in input : card(f) \in Card /\ CardOK(card(f)) /\ Blank("challenge", card(f))
  <2>1. SUFFICES ASSUME NEW f \in input
                 PROVE  card(f) \in Card /\ CardOK(card(f)) /\ Blank("challenge", card(f))
    OBVIOUS
  <2> DEFINE c == out["filter"].cards[f]
  <2>2. c \in Card /\ CardOK(c) /\ Blank("filter", c)
    BY <1>3 DEF Live, Present, OutputOK
  <2>3. /\ ChallengeInput(f) \in Card /\ CardOK(ChallengeInput(f))
        /\ ChallengeInput(f).challenge = "none"
        /\ ChallengeInput(f).admission = "admitted" => ~ChallengeInput(f).stripped
    BY <2>2, ReevaluationOK DEF ChallengeInput
  <2>4. QED
    BY <2>3, ChallengeCardOK
<1>5. \A f \in Finding : CarriedCard(f) # Nil =>
        /\ CarriedCard(f) \in Card /\ CardOK(CarriedCard(f))
        /\ Blank("challenge", CarriedCard(f))
  BY <1>3 DEF CarriedCard, Eliminated, OutputOK, Blank
<1>6. \A f \in Finding : cards[f] # Nil =>
        cards[f] \in Card /\ CardOK(cards[f]) /\ Blank("challenge", cards[f])
  <2> HIDE DEF card
  <2>1. QED
    BY <1>4, <1>5
<1>7. cards \in [Finding -> Card \cup {Nil}]
  <2> HIDE DEF card
  <2>1. QED
    BY <1>6
<1>8. g \in SUBSET Gap
  BY DEF ChallengeGaps, Gap
<1>9. out["filter"].lineage \in Lineage
  BY <1>3 DEF OutputOK, Output
<1>10. OutputOK("challenge", o)
  <2> HIDE DEF cards, g
  <2>1. QED
    BY <1>6, <1>7, <1>8, <1>9, MakeOutputOK DEF Phase
<1>11. Dispatch("challenge", o)
  BY <1>p
<1>12. QED
  <2> HIDE DEF o
  <2>1. QED
    BY <1>10, <1>11, DispatchStep DEF Phase
-----------------------------------------------------------------------------
(* Delivery. *)

(* The belt turns a card into an elimination; a card's section claims no   *)
(* more than its stamps.                                                   *)
LEMMA BeltCardOK ==
  ASSUME NEW c \in Card
  PROVE  Disposition(BeltCard(c)) = "eliminate" /\ Section(BeltCard(c)) = "eliminated"
BY DEF Card, BeltCard, Disposition, Section

(* The section of a sound card is earned. *)
LEMMA SectionOK ==
  ASSUME NEW c \in Card, CardOK(c)
  PROVE  /\ Section(c) \in {"finding", "unverified", "eliminated"}
         /\ Disposition(c) = "body" => /\ Section(c) = "finding"
                                      /\ {"delta", "score", "answer"} \subseteq c.heard
                                      /\ ~c.stripped
         /\ Section(c) = "finding" => {"delta", "score"} \subseteq c.heard
         /\ c.elim # "none" => "verdict" \in c.heard
<1>1. Section(c) \in {"finding", "unverified", "eliminated"}
  BY DEF Section
<1>2. Disposition(c) = "body" => Section(c) = "finding"
  BY DEF Section
<1>3. Disposition(c) = "body" => {"delta", "score", "answer"} \subseteq c.heard /\ ~c.stripped
  BY DEF Disposition, CardOK, Reply
<1>4. Section(c) = "finding" => Disposition(c) \in {"report_only", "body"}
  BY DEF Section, Disposition
<1>5. Disposition(c) \in {"report_only", "body"} => {"delta", "score"} \subseteq c.heard
  BY DEF Disposition, CardOK, Reply
<1>6. QED
  BY <1>1, <1>2, <1>3, <1>4, <1>5 DEF CardOK

(* A delivery files every card under a section it earned. *)
LEMMA DeliverStep == IInv /\ Deliver => IInv'
<1> SUFFICES ASSUME IInv, Deliver PROVE IInv'
  OBVIOUS
<1> DEFINE challenged == out["challenge"]
           card(hits, f) == IF f \in hits THEN BeltCard(challenged.cards[f])
                                          ELSE challenged.cards[f]
           body(hits) == {f \in Present(challenged.cards) : Disposition(card(hits, f)) = "body"}
           disclosed(hits, persisted) ==
             gaps \cup challenged.gaps
                  \cup (IF hits # {} THEN {"replay-filter"} ELSE {})
                  \cup (IF persisted THEN {} ELSE {"persist"})
           section(hits) == [f \in Finding |->
             IF f \in Present(challenged.cards) THEN Section(card(hits, f)) ELSE "none"]
<1>1. PICK hits \in SUBSET Live(challenged.cards), persisted \in BOOLEAN, truncated \in BOOLEAN :
        \E selected \in Selections(body(hits)) :
        /\ env' = [ok |-> TRUE, failing |-> "none", gaps |-> disclosed(hits, persisted),
                   checkpoints |-> IF persisted THEN Empty ELSE Resume(out, truncated),
                   truncated |-> truncated, section |-> section(hits), delivered |-> selected]
        /\ gaps' = disclosed(hits, persisted)
        /\ disk' \in {Slim(out)} \cup (IF persisted THEN {} ELSE {disk})
  BY DEF Deliver
<1>p. PICK selected \in Selections(body(hits)) :
        /\ env' = [ok |-> TRUE, failing |-> "none", gaps |-> disclosed(hits, persisted),
                   checkpoints |-> IF persisted THEN Empty ELSE Resume(out, truncated),
                   truncated |-> truncated, section |-> section(hits), delivered |-> selected]
        /\ gaps' = disclosed(hits, persisted)
        /\ disk' \in {Slim(out)} \cup (IF persisted THEN {} ELSE {disk})
  BY <1>1
<1>2. pc = "report" /\ pc' = "host" /\ UNCHANGED <<runs, cp, task, out, round, accepted>>
  BY DEF Deliver
<1>3. OutputOK("challenge", challenged)
  BY <1>2 DEF IInv, Reached, Stored, MapOK, Phase
<1>4. \A f \in Present(challenged.cards) : f \in Finding /\ challenged.cards[f] \in Card
                                          /\ CardOK(challenged.cards[f])
  BY <1>3 DEF Present, OutputOK
<1>5. section(hits) \in [Finding -> {"none", "finding", "unverified", "eliminated"}]
  <2>1. \A f \in Present(challenged.cards) :
          Section(card(hits, f)) \in {"finding", "unverified", "eliminated"}
    BY <1>4, BeltCardOK, SectionOK
  <2> HIDE DEF card
  <2>2. QED
    BY <2>1
<1>6. selected \subseteq body(hits)
  BY <1>p DEF Selections
<1>7. disclosed(hits, persisted) \in SUBSET Gap
  BY <1>3 DEF IInv, TypeOK, OutputOK, Output, Gap
<1>8. MapOK(out) /\ MapOK(IF persisted THEN Empty ELSE Resume(out, truncated))
  BY EmptyOK, ResumeOK DEF IInv, Stored
<1>9. env' \in Envelope /\ env'.checkpoints = (IF persisted THEN Empty ELSE Resume(out, truncated))
  <2>1. selected \in SUBSET Finding
    BY <1>4, <1>6
  <2> HIDE DEF section, disclosed
  <2>2. QED
    BY <1>p, <1>5, <1>7, <1>8, <2>1 DEF Envelope, MapOK
<1>10. disk' = Slim(out) \/ disk' = disk
  BY <1>p
<1>11. MapOK(Slim(out))
  BY <1>8, SlimOK
<1>12. TypeOK'
  <2>1. gaps' \in SUBSET Gap /\ disk' \in PhaseMap \cup {Nil}
    BY <1>p, <1>7, <1>10, <1>11 DEF IInv, TypeOK, MapOK
  <2>2. QED
    BY <1>2, <1>9, <2>1 DEF IInv, TypeOK
<1>13. Stored' /\ Reached'
  BY <1>2, <1>8, <1>9, <1>10, <1>11 DEF IInv, Stored, Reached, Phase
<1>14. ResumePoint'
  <2>1. env'.ok
    BY <1>p
  <2>2. QED
    BY <2>1 DEF ResumePoint
<1>15. SectionsEarned'
  <2>1. /\ env'.section = section(hits) /\ env'.delivered = selected
        /\ \A f \in Finding : FinalCard(f)' = challenged.cards[f]
    BY <1>p, <1>2 DEF FinalCard
  <2>2. SUFFICES ASSUME NEW f \in Finding
        PROVE /\ f \in selected =>
                   /\ section(hits)[f] = "finding"
                   /\ {"delta", "score", "answer"} \subseteq challenged.cards[f].heard
                   /\ ~challenged.cards[f].stripped
              /\ section(hits)[f] = "finding" => {"delta", "score"} \subseteq challenged.cards[f].heard
              /\ (section(hits)[f] = "eliminated" /\ challenged.cards[f].elim # "none")
                   => "verdict" \in challenged.cards[f].heard
    <3> HIDE DEF section
    <3>1. QED
      BY <2>1 DEF SectionsEarned
  <2>3. CASE f \in Present(challenged.cards)
    <3>1. section(hits)[f] = Section(card(hits, f))
      BY <2>3
    <3>2. f \in selected => Disposition(card(hits, f)) = "body"
      BY <1>6
    <3>3. QED
      BY <1>4, <2>3, <3>1, <3>2, BeltCardOK, SectionOK
  <2>4. CASE f \notin Present(challenged.cards)
    BY <2>4, <1>6
  <2>5. QED
    BY <2>3, <2>4
<1>16. QED
  BY <1>12, <1>13, <1>14, <1>15 DEF IInv
-----------------------------------------------------------------------------
(* Every step keeps the invariant. *)
LEMMA StepOK == IInv /\ [Next]_vars => IInv'
<1> SUFFICES ASSUME IInv, [Next]_vars PROVE IInv'
  OBVIOUS
<1>1. CASE Start
  BY <1>1, StartStep
<1>2. CASE Step
  BY <1>2, SettlesStep, ReplayStep, ThrowStep, SummarizeStep, DiscoverStep, MergeStep,
     VerifyStep, ValidateBatchesStep, ValidateRetryStep, FilterStep, ChallengeStep,
     DeliverStep, ReportThrowsStep DEF Step
<1>3. CASE UNCHANGED vars
  BY <1>3 DEF vars, IInv, TypeOK, Stored, Reached, ResumePoint, SectionsEarned, Delivered,
     FinalCard
<1>4. QED
  BY <1>1, <1>2, <1>3 DEF Next

(* The invariant holds throughout: what is stored was earned and belongs   *)
(* to the phases before pc.                                                *)
THEOREM Invariance == Spec => []IInv
<1>1. QED
  BY InitOK, StepOK, PTL DEF Spec

(* Every variable of a run keeps the shape of its counterpart in runWith.  *)
THEOREM TypeCorrect == Spec => []TypeOK
<1>1. IInv => TypeOK
  BY DEF IInv
<1>2. QED
  BY <1>1, Invariance, PTL

(* No section of a delivered report claims vetting that no agent did,      *)
(* however many failed, resumed or slimmed runs came before it.            *)
THEOREM SectionsAreEarned == Spec => []SectionsEarned
<1>1. IInv => SectionsEarned
  BY DEF IInv
<1>2. QED
  BY <1>1, Invariance, PTL

(* A failed run's checkpoint holds exactly the phases before the failure.  *)
THEOREM ResumeIsExact == Spec => []ResumePoint
<1>1. IInv => ResumePoint
  BY DEF IInv
<1>2. QED
  BY <1>1, Invariance, PTL
-----------------------------------------------------------------------------
(***************************************************************************)
(* What a review loses: no finding that entered vetting goes missing, no   *)
(* loss goes unsaid, and losing every reviewer is never delivered as a     *)
(* clean review - over any number of failed, resumed and slimmed runs.     *)
(*                                                                         *)
(* IInv knows which outputs are stored.  These theorems need how they hang *)
(* together: each output's own gaps tell what it lost (Tells), each is     *)
(* made from the one before it (Follows), in memory, in a checkpoint and   *)
(* on disk alike, a run replays its checkpoint faithfully, and what it     *)
(* adds bears its own number.                                              *)
(***************************************************************************)
(* The findings the verify phase hands on, of any verify output. *)
Handed(cards) == Live(cards) \ Suppressed(cards)

(* Every finding that entered has a card, or the audit loss on its anchor  *)
(* has one; nothing else has.                                              *)
Whole(o) ==
  /\ \A f \in o.lineage.entered :
       \/ o.cards[f] # Nil
       \/ \E l \in Audit : <<f, l>> \in Overlap /\ o.cards[l] # Nil
  /\ Present(o.cards) \subseteq o.lineage.entered

(* What an output's gaps say of its own losses. *)
Tells(p, o) ==
  /\ p = "discover" => o.degraded \subseteq o.gaps
  /\ p = "verify" =>
       /\ Present(o.cards) = o.lineage.entered
       /\ \A f \in Present(o.cards) : o.cards[f].origin = "unknown" => "verify" \in o.gaps
  /\ p = "validate" =>
       /\ Live(o.cards) = Present(o.cards)
       /\ \A f \in Present(o.cards) : o.cards[f].validation = "skipped" => "validate" \in o.gaps
  /\ p = "challenge" =>
       /\ Whole(o)
       /\ \A f \in Present(o.cards) : o.cards[f].challenge \in {"failed", "capped"} => "challenge" \in o.gaps

Same(o, i) == o.lineage = i.lineage

(* What output o of phase p takes from the outputs of m before it. *)
Link(p, o, m) ==
  /\ p = "merge" =>
       /\ m["discover"] # Nil
       /\ o.lineage.entered = Present(m["discover"].cards)
       /\ Present(o.cards) = o.lineage.entered
  /\ p = "verify" => m["merge"] # Nil /\ Same(o, m["merge"])
  /\ p = "validate" =>
       /\ m["verify"] # Nil /\ Same(o, m["verify"])
       /\ Present(o.cards) = Handed(m["verify"].cards)
       /\ \A f \in Present(o.cards) : o.cards[f].origin = m["verify"].cards[f].origin
  /\ p = "filter" =>
       /\ m["validate"] # Nil /\ Same(o, m["validate"])
       /\ Present(o.cards) = Present(m["validate"].cards)
       /\ \A f \in Present(o.cards) :
            /\ o.cards[f].origin = m["validate"].cards[f].origin
            /\ o.cards[f].validation = m["validate"].cards[f].validation
  /\ p = "challenge" =>
       (Same(o, m["verify"]) =>
          \A f \in Present(o.cards) :
            /\ o.cards[f].origin = "unknown" => "verify" \in m["verify"].gaps
            /\ o.cards[f].validation = "skipped" => "validate" \in m["validate"].gaps)

(* How the outputs of one map hang together; a challenge of a slim         *)
(* checkpoint hangs on nothing.                                            *)
IsSlim(m) == \A p \in Phase \ {"challenge"} : m[p] = Nil
Follows(m) ==
  /\ \A p \in Phase : m[p] # Nil => (p = "challenge" /\ IsSlim(m)) \/ Link(p, m[p], m)
  /\ m["challenge"] # Nil => IsSlim(m) \/ \A p \in Phase : m[p] # Nil

(* What was merged before run n. *)
Before(m, n) == \A p \in Phase : m[p] # Nil => m[p].lineage.run < n

LineOK(m) == Follows(m) /\ \A p \in Phase : m[p] # Nil => Tells(p, m[p])

Lines ==
  /\ LineOK(out) /\ Before(out, runs + 1)
  /\ LineOK(cp) /\ Before(cp, runs)
  /\ disk # Nil => LineOK(disk) /\ Before(disk, runs + 1)
  /\ env # Nil => LineOK(env.checkpoints) /\ Before(env.checkpoints, runs + 1)

(* A run keeps what it was given and numbers what it merges itself; a      *)
(* challenge of its own is made from its own filter output.                *)
Faithful ==
  /\ \A p \in Phase : out[p] # Nil /\ cp[p] # Nil => out[p] = cp[p]
  /\ pc # "host" /\ out["merge"] # Nil /\ cp["merge"] = Nil => out["merge"].lineage.run = runs
  /\ out["challenge"] # Nil /\ cp["challenge"] = Nil => Same(out["challenge"], out["filter"])

(* Told as the run goes, and in the envelope. *)
Told ==
  /\ \A p \in Phase \ {"challenge"} : out[p] # Nil => out[p].gaps \subseteq gaps
  /\ pc # "host" /\ out["discover"] # Nil => ~NothingReviewed(out["discover"])

Returned ==
  pc = "host" /\ env # Nil =>
    /\ env.ok => env.failing = "none"
    /\ env.failing # "checkpoints" =>
         /\ \A p \in Phase \ {"challenge"} : out[p] # Nil => out[p].gaps \subseteq env.gaps
         /\ env.ok =>
              /\ \A p \in Phase : out[p] # Nil
              /\ out["challenge"].gaps \subseteq env.gaps
              /\ ~NothingReviewed(out["discover"])
              /\ \A f \in Finding : env.section[f] # "none" <=> f \in Present(out["challenge"].cards)

Lineal == Lines /\ Faithful /\ Told /\ Returned
-----------------------------------------------------------------------------
(* The phases, by rank. *)
LEMMA Ranks ==
  /\ Rank["summarize"] = 1 /\ Rank["discover"] = 2 /\ Rank["merge"] = 3 /\ Rank["verify"] = 4
  /\ Rank["validate"] = 5 /\ Rank["filter"] = 6 /\ Rank["challenge"] = 7
  /\ Phase = {"summarize", "discover", "merge", "verify", "validate", "filter", "challenge"}
BY DEF Rank, Phase

(* No outputs hang together. *)
LEMMA EmptyLine == LineOK(Empty) /\ \A n : Before(Empty, n)
BY DEF LineOK, Follows, Before, Empty, Phase

(* A checkpoint returned whole or as names hangs together as its run did.  *)
LEMMA ResumeLine ==
  ASSUME NEW m, LineOK(m), NEW n, Before(m, n), NEW truncated \in BOOLEAN
  PROVE  LineOK(Resume(m, truncated)) /\ Before(Resume(m, truncated), n)
BY EmptyLine DEF Resume

(* A slim checkpoint keeps a challenge that stands for itself. *)
LEMMA SlimLine ==
  ASSUME NEW m, LineOK(m), NEW n, Before(m, n)
  PROVE  LineOK(Slim(m)) /\ Before(Slim(m), n)
<1>1. \A p \in Phase : Slim(m)[p] = IF p = "challenge" THEN m[p] ELSE Nil
  BY DEF Slim, Empty, Phase
<1>2. IsSlim(Slim(m))
  BY <1>1 DEF IsSlim
<1> QED BY <1>1, <1>2 DEF LineOK, Follows, Before

(* What discovery's loss returns is the summary. *)
LEMMA LossLine ==
  ASSUME NEW m, MapOK(m), LineOK(m), NEW n, Before(m, n),
         \A q \in Phase : m[q] # Nil => q \in {"summarize", "discover"}
  PROVE  LineOK(LossCheckpoint(m)) /\ Before(LossCheckpoint(m), n)
<1>1. \A p \in Phase : LossCheckpoint(m)[p] = IF p = "discover" THEN Nil ELSE m[p]
  BY DEF LossCheckpoint, MapOK, PhaseMap
<1>2. \A p \in Phase : LossCheckpoint(m)[p] # Nil => p = "summarize" /\ m[p] # Nil
  BY <1>1
<1>3. LossCheckpoint(m)["challenge"] = Nil
  BY <1>2, Ranks
<1> QED BY <1>1, <1>2, <1>3 DEF LineOK, Follows, Before, Link, Tells

(* What an output takes from the phases before it, it takes from any map   *)
(* that agrees on them. *)
LEMMA LinkElsewhere ==
  ASSUME NEW p \in Phase, NEW o, NEW m, NEW m2, Link(p, o, m),
         \A q \in Phase : Rank[q] < Rank[p] => m2[q] = m[q]
  PROVE  Link(p, o, m2)
<1> USE Ranks
<1>1. CASE p \in {"summarize", "discover"}
  BY <1>1 DEF Link
<1>2. CASE p = "merge"
  BY <1>2 DEF Link
<1>3. CASE p = "verify"
  BY <1>3 DEF Link
<1>4. CASE p = "validate"
  BY <1>4 DEF Link
<1>5. CASE p = "filter"
  BY <1>5 DEF Link
<1>6. CASE p = "challenge"
  BY <1>6 DEF Link
<1> QED BY <1>1, <1>2, <1>3, <1>4, <1>5, <1>6

(* An output that tells its losses and hangs on those before it can be     *)
(* stored after them. *)
LEMMA StoreLine ==
  ASSUME NEW m, m \in PhaseMap, LineOK(m), NEW p \in Phase, NEW o, o # Nil, Tells(p, o), Link(p, o, m),
         \A q \in Phase : m[q] # Nil <=> Rank[q] < Rank[p],
         NEW n, Before(m, n), o.lineage.run < n
  PROVE  LineOK([m EXCEPT ![p] = o]) /\ Before([m EXCEPT ![p] = o], n)
<1> DEFINE m2 == [m EXCEPT ![p] = o]
<1>0. m \in [Phase -> Output \cup {Nil}]
  BY DEF PhaseMap
<1>1. \A q \in Phase : m2[q] = IF q = p THEN o ELSE m[q]
  BY <1>0
<1> HIDE DEF m2
<1>2. \A q, r \in Phase : m[q] # Nil /\ Rank[r] < Rank[q] => m2[r] = m[r]
  BY <1>1, RankType
<1>3. \A q \in Phase : Rank[q] < Rank[p] => m2[q] = m[q]
  BY <1>1, RankType
<1>4. ASSUME NEW q \in Phase, m2[q] # Nil
      PROVE  (q = "challenge" /\ IsSlim(m2)) \/ Link(q, m2[q], m2)
  <2>1. CASE q = p
    BY <1>1, <1>3, <2>1, LinkElsewhere
  <2>2. CASE q # p
    <3>1. m[q] # Nil /\ m2[q] = m[q] /\ Rank[q] < Rank[p]
      BY <1>1, <1>4, <2>2
    <3>2. q # "challenge"
      BY <3>1, Ranks
    <3>3. Link(q, m[q], m)
      BY <3>1, <3>2 DEF LineOK, Follows
    <3> QED BY <1>2, <3>1, <3>3, LinkElsewhere
  <2> QED BY <2>1, <2>2
<1>5. m2["challenge"] # Nil => \A q \in Phase : m2[q] # Nil
  <2>1. ASSUME m2["challenge"] # Nil, NEW q \in Phase PROVE m2[q] # Nil
    <3>1. p = "challenge"
      BY <1>1, <2>1, Ranks
    <3> QED BY <1>1, <3>1, Ranks
  <2> QED BY <2>1
<1>6. \A q \in Phase : m2[q] # Nil => Tells(q, m2[q])
  BY <1>1 DEF LineOK
<1>7. Before(m2, n)
  BY <1>1 DEF Before
<1> QED BY <1>4, <1>5, <1>6, <1>7 DEF m2, LineOK, Follows
-----------------------------------------------------------------------------
(* A phase that completes with such an output keeps the invariant.         *)
LEMMA CompleteLine ==
  ASSUME IInv, Lineal, NEW p \in Phase, pc = p, NEW o, OutputOK(p, o), Complete(p, o),
         UNCHANGED <<runs, cp, task, disk>>,
         Tells(p, o), Link(p, o, out), o.lineage.run <= runs,
         cp[p] # Nil => o = cp[p],
         p = "merge" /\ cp[p] = Nil => o.lineage.run = runs,
         p = "challenge" /\ cp[p] = Nil => Same(o, out["filter"])
  PROVE  Lineal'
<1> DEFINE lost == p = "discover" /\ NothingReviewed(o)
<1>1. o \in Output /\ o # Nil /\ runs \in Nat /\ out \in PhaseMap
  BY NilAssumption DEF OutputOK, IInv, TypeOK
<1>2. o.lineage.run \in Nat
  BY <1>1 DEF Output, Lineage
<1>3. /\ pc' = IF lost THEN "host" ELSE After[p]
      /\ gaps' = Disclosed(p, o) \cup (IF lost THEN {"all-degraded"} ELSE {})
      /\ out' = [out EXCEPT ![p] = o]
      /\ UNCHANGED <<runs, cp, disk>>
  BY DEF Complete
<1>4. \A q \in Phase : out'[q] = IF q = p THEN o ELSE out[q]
  BY <1>1, <1>3 DEF PhaseMap
<1>5. \A q \in Phase : out[q] # Nil <=> Rank[q] < Rank[p]
  BY DEF IInv, Reached
<1>6. LineOK(out') /\ Before(out', runs + 1)
  <2>1. LineOK(out) /\ Before(out, runs + 1) /\ o.lineage.run < runs + 1
    BY <1>1, <1>2 DEF Lineal, Lines
  <2> QED BY <1>1, <1>3, <1>5, <2>1, StoreLine
<1>7. Faithful'
  <2>1. \A q \in Phase : out'[q] # Nil /\ cp[q] # Nil => out'[q] = cp[q]
    BY <1>4 DEF Lineal, Faithful
  <2>2. out'["merge"] # Nil /\ cp["merge"] = Nil => out'["merge"].lineage.run = runs
    BY <1>4, Ranks DEF Lineal, Faithful
  <2>3. out'["challenge"] # Nil /\ cp["challenge"] = Nil => Same(out'["challenge"], out'["filter"])
    <3>1. CASE p = "challenge"
      BY <1>4, <3>1, Ranks
    <3>2. CASE p # "challenge"
      BY <1>4, <1>5, <3>2, Ranks
    <3> QED BY <3>1, <3>2
  <2> QED BY <1>3, <2>1, <2>2, <2>3 DEF Faithful
<1>8. /\ gaps \subseteq gaps'
      /\ p # "challenge" => o.gaps \subseteq gaps'
  BY <1>3 DEF Disclosed
<1>9. \A q \in Phase \ {"challenge"} : out'[q] # Nil => out'[q].gaps \subseteq gaps'
  BY <1>4, <1>8 DEF Lineal, Told
<1>10. ~lost /\ out'["discover"] # Nil => ~NothingReviewed(out["discover"])'
  <2>1. CASE p = "discover"
    BY <1>3, <1>4, <2>1, Ranks DEF NothingReviewed
  <2>2. CASE p # "discover"
    <3>1. pc # "host" /\ out'["discover"] = out["discover"]
      BY <1>4, <2>2, Ranks
    <3> QED BY <1>3, <3>1 DEF Lineal, Told, NothingReviewed
  <2> QED BY <2>1, <2>2
<1>11. CASE lost
  <2>1. PICK truncated \in BOOLEAN :
          env' = Failure("discover", LossCheckpoint(out'), gaps', truncated)
    BY <1>11 DEF Complete
  <2>2. /\ env'.ok = FALSE /\ env'.gaps = gaps'
        /\ env'.checkpoints = Resume(LossCheckpoint(out'), truncated)
    BY <2>1 DEF Failure
  <2>3. \A q \in Phase : out'[q] # Nil => q \in {"summarize", "discover"}
    BY <1>4, <1>5, <1>11, Ranks
  <2>4. MapOK(out')
    BY <1>3, StoreOK DEF IInv, Stored
  <2>5. LineOK(env'.checkpoints) /\ Before(env'.checkpoints, runs + 1)
    <3>1. LineOK(LossCheckpoint(out')) /\ Before(LossCheckpoint(out'), runs + 1)
      BY <1>6, <2>3, <2>4, LossLine
    <3> QED BY <2>2, <3>1, ResumeLine
  <2>6. Lines'
    BY <1>3, <1>6, <2>5 DEF Lineal, Lines
  <2>7. Told' /\ Returned'
    BY <1>3, <1>9, <1>11, <2>2 DEF Told, Returned
  <2> QED BY <1>7, <2>6, <2>7 DEF Lineal
<1>12. CASE ~lost
  <2>1. env' = env /\ pc' # "host"
    BY <1>3, <1>12, AfterType DEF Complete, Phase
  <2>2. Lines'
    BY <1>3, <1>6, <2>1 DEF Lineal, Lines
  <2>3. Told' /\ Returned'
    BY <1>9, <1>10, <1>12, <2>1 DEF Told, Returned
  <2> QED BY <1>7, <2>2, <2>3 DEF Lineal
<1> QED BY <1>11, <1>12

(* At first nothing is stored. *)
LEMMA InitLine == Init => Lineal
<1> SUFFICES ASSUME Init PROVE Lineal
  OBVIOUS
<1>1. out = Empty /\ cp = Empty /\ disk = Nil /\ env = Nil
  BY DEF Init
<1>2. \A p \in Phase : Empty[p] = Nil
  BY DEF Empty
<1> QED BY <1>1, <1>2, EmptyLine, Ranks DEF Lineal, Lines, Faithful, Told, Returned

(* A run begins from what hangs together, with nothing of its own. *)
LEMMA BeginLine ==
  ASSUME IInv, Lineal, NEW m, m \in PhaseMap, LineOK(m), Before(m, runs + 1), NEW g, Begin(m, g)
  PROVE  Lineal'
<1>1. /\ pc' = "summarize" /\ out' = Empty /\ cp' = m /\ env' = env /\ disk' = disk /\ runs' = runs + 1
      /\ runs \in Nat
  BY DEF Begin, IInv, TypeOK
<1>2. \A p \in Phase : Empty[p] = Nil
  BY DEF Empty
<1>3. ASSUME NEW w, w \in PhaseMap, Before(w, runs + 1) PROVE Before(w, runs' + 1)
  BY <1>1, <1>3 DEF Before, PhaseMap, Output, Lineage
<1>4. Lines'
  BY <1>1, <1>3, EmptyLine DEF Lineal, Lines, IInv, Stored, MapOK
<1> QED BY <1>1, <1>2, <1>4, Ranks DEF Lineal, Faithful, Told, Returned

(* However the host starts it, a run starts from what hangs together. *)
LEMMA StartLine == ASSUME IInv, Lineal, Start PROVE Lineal'
<1>0. runs \in Nat /\ out \in PhaseMap /\ cp \in PhaseMap
      /\ (disk # Nil => disk \in PhaseMap) /\ (env # Nil => env.checkpoints \in PhaseMap)
  BY DEF IInv, TypeOK, Stored, MapOK
<1>1. CASE StartFresh
  BY <1>1, EmptyLine, EmptyOK, BeginLine DEF StartFresh, MapOK
<1>2. CASE StartFromReturn
  BY <1>0, <1>2, BeginLine DEF StartFromReturn, Lineal, Lines
<1>3. CASE StartFromDisk
  BY <1>0, <1>3, BeginLine DEF StartFromDisk, Lineal, Lines
<1>4. CASE StartGarbled
  <2>1. /\ pc = "host" /\ runs' = runs + 1 /\ UNCHANGED <<pc, cp, out, gaps, disk>>
        /\ env' = Failure("checkpoints", Empty, {"checkpoint"}, FALSE)
    BY <1>4 DEF StartGarbled
  <2>2. env'.checkpoints = Empty /\ env'.failing = "checkpoints" /\ env'.ok = FALSE
    BY <2>1 DEF Failure, Resume
  <2>3. ASSUME NEW w, w \in PhaseMap, NEW n \in Nat, Before(w, n) PROVE Before(w, n + 1)
    BY <2>3 DEF Before, PhaseMap, Output, Lineage
  <2>4. Lines'
    <3>1. Before(out, runs' + 1) /\ Before(cp, runs') /\ (disk # Nil => Before(disk, runs' + 1))
      BY <1>0, <2>1, <2>3 DEF Lineal, Lines
    <3> QED BY <2>1, <2>2, <3>1, EmptyLine DEF Lineal, Lines
  <2>5. Faithful' /\ Told' /\ Returned'
    BY <2>1, <2>2 DEF Lineal, Faithful, Told, Returned
  <2> QED BY <2>4, <2>5 DEF Lineal
<1> QED BY <1>1, <1>2, <1>3, <1>4 DEF Start
-----------------------------------------------------------------------------
(* Steps that store no output of their own. *)

(* A step that leaves maps and envelope alone changes nothing here. *)
LEMMA QuietLine ==
  ASSUME Lineal, UNCHANGED <<pc, runs, cp, out, gaps, env, disk>>
  PROVE  Lineal'
BY DEF Lineal, Lines, Faithful, Told, Returned, NothingReviewed

(* What a replay stores hangs on this run's outputs as it did on those of  *)
(* the run it comes from. *)
LEMMA ReplayLine ==
  ASSUME IInv, Lineal, NEW p \in Phase, Replay(p)
  PROVE  Lineal'
<1> DEFINE o == cp[p]
<1>0. pc = p /\ o # Nil /\ Complete(p, o) /\ UNCHANGED <<runs, cp, task, round, accepted, disk>>
      /\ runs \in Nat
  BY DEF Replay, IInv, TypeOK
<1>1. OutputOK(p, o)
  BY <1>0 DEF IInv, Stored, MapOK
<1>2. LineOK(cp) /\ Before(cp, runs)
  BY DEF Lineal, Lines
<1>3. Tells(p, o)
  BY <1>0, <1>2 DEF LineOK
<1>4. \A q \in Phase : o.lineage.run \in Nat /\ o.lineage.run < runs
  BY <1>0, <1>1, <1>2 DEF Before, OutputOK, Output, Lineage
<1>5. \A q \in Phase : out[q] # Nil <=> Rank[q] < Rank[p]
  BY <1>0 DEF IInv, Reached
<1>6. \A q \in Phase : out[q] # Nil /\ cp[q] # Nil => out[q] = cp[q]
  BY DEF Lineal, Faithful
<1>7. (p = "challenge" /\ IsSlim(cp)) \/ Link(p, o, cp)
  BY <1>0, <1>2 DEF LineOK, Follows
<1>8. Link(p, o, out)
  <2>1. CASE p = "challenge" /\ IsSlim(cp)
    <3>1. out["merge"] # Nil /\ out["verify"] # Nil /\ cp["merge"] = Nil
      BY <1>5, <2>1, Ranks DEF IsSlim
    <3>2. out["merge"].lineage.run = runs
      BY <1>0, <2>1, <3>1 DEF Lineal, Faithful, Phase
    <3>3. Same(out["verify"], out["merge"])
      BY <3>1, Ranks DEF Lineal, Lines, LineOK, Follows, Link
    <3>4. ~Same(o, out["verify"])
      BY <1>0, <1>4, <3>2, <3>3 DEF Same
    <3> QED BY <2>1, <3>4 DEF Link
  <2>2. CASE p = "challenge" /\ ~IsSlim(cp)
    <3>1. \A q \in Phase : cp[q] # Nil
      BY <1>0, <1>2, <2>2 DEF LineOK, Follows
    <3>2. \A q \in Phase : Rank[q] < Rank[p] => out[q] = cp[q]
      BY <1>5, <1>6, <3>1
    <3> QED BY <1>7, <2>2, <3>2, LinkElsewhere
  <2>3. CASE p # "challenge"
    <3>1. Link(p, o, cp)
      BY <1>7, <2>3
    <3>2. /\ p = "merge" => out["discover"] = cp["discover"] /\ cp["discover"] # Nil
          /\ p = "verify" => out["merge"] = cp["merge"] /\ cp["merge"] # Nil
          /\ p = "validate" => out["verify"] = cp["verify"] /\ cp["verify"] # Nil
          /\ p = "filter" => out["validate"] = cp["validate"] /\ cp["validate"] # Nil
      BY <1>5, <1>6, <3>1, Ranks DEF Link
    <3> QED BY <2>3, <3>1, <3>2 DEF Link
  <2> QED BY <2>1, <2>2, <2>3
<1> HIDE DEF o
<1>9. o = cp[p]
  BY DEF o
<1> QED BY <1>0, <1>1, <1>3, <1>4, <1>8, <1>9, CompleteLine

(* A run that fails returns what it has and tells what it lost. *)
LEMMA FailLine ==
  ASSUME IInv, Lineal, NEW p \in Phase \cup {"report"}, NEW truncated \in BOOLEAN, NEW g,
         gaps \subseteq g, env' = Failure(p, out, g, truncated), pc' = "host", gaps \subseteq gaps',
         UNCHANGED <<runs, cp, out, disk>>
  PROVE  Lineal'
<1>1. env'.ok = FALSE /\ env'.gaps = g /\ env'.checkpoints = Resume(out, truncated)
  BY DEF Failure
<1>2. LineOK(env'.checkpoints) /\ Before(env'.checkpoints, runs + 1)
  BY <1>1, ResumeLine DEF Lineal, Lines
<1>3. Lines' /\ Faithful'
  BY <1>2 DEF Lineal, Lines, Faithful
<1>4. Told' /\ Returned'
  BY <1>1 DEF Lineal, Told, Returned
<1> QED BY <1>3, <1>4 DEF Lineal

(* A delivery tells what every phase lost and gives each card a section.   *)
LEMMA DeliverLine == ASSUME IInv, Lineal, Deliver PROVE Lineal'
<1> DEFINE challenged == out["challenge"]
           card(hits, f) == IF f \in hits THEN BeltCard(challenged.cards[f])
                                          ELSE challenged.cards[f]
           body(hits) == {f \in Present(challenged.cards) : Disposition(card(hits, f)) = "body"}
           disclosed(hits, persisted) ==
             gaps \cup challenged.gaps
                  \cup (IF hits # {} THEN {"replay-filter"} ELSE {})
                  \cup (IF persisted THEN {} ELSE {"persist"})
           section(hits) == [f \in Finding |->
             IF f \in Present(challenged.cards) THEN Section(card(hits, f)) ELSE "none"]
<1>1. PICK hits \in SUBSET Live(challenged.cards), persisted \in BOOLEAN, truncated \in BOOLEAN :
        \E selected \in Selections(body(hits)) :
        /\ env' = [ok |-> TRUE, failing |-> "none", gaps |-> disclosed(hits, persisted),
                   checkpoints |-> IF persisted THEN Empty ELSE Resume(out, truncated),
                   truncated |-> truncated, section |-> section(hits), delivered |-> selected]
        /\ gaps' = disclosed(hits, persisted)
        /\ disk' \in {Slim(out)} \cup (IF persisted THEN {} ELSE {disk})
  BY DEF Deliver
<1>2. pc = "report" /\ pc' = "host" /\ UNCHANGED <<runs, cp, task, out, round, accepted>>
  BY DEF Deliver
<1>3. /\ env'.gaps = disclosed(hits, persisted) /\ gaps' = disclosed(hits, persisted)
      /\ env'.checkpoints = (IF persisted THEN Empty ELSE Resume(out, truncated))
      /\ env'.section = section(hits) /\ env'.failing = "none"
      /\ disk' = Slim(out) \/ disk' = disk
  BY <1>1
<1>4. gaps \subseteq env'.gaps /\ challenged.gaps \subseteq env'.gaps /\ gaps \subseteq gaps'
  BY <1>3
<1>5. \A p \in Phase : out[p] # Nil
  BY <1>2 DEF IInv, Reached
<1>6. \A f \in Finding : env'.section[f] # "none" <=> f \in Present(challenged.cards)
  <2>1. \A f \in Finding : Section(card(hits, f)) # "none"
    BY DEF Section
  <2> HIDE DEF card
  <2>2. QED BY <1>3, <2>1
<1>7. Lines'
  <2>1. LineOK(out) /\ Before(out, runs + 1)
    BY DEF Lineal, Lines
  <2>2. LineOK(env'.checkpoints) /\ Before(env'.checkpoints, runs + 1)
    BY <1>3, <2>1, EmptyLine, ResumeLine
  <2>3. disk' # Nil => LineOK(disk') /\ Before(disk', runs + 1)
    BY <1>3, <2>1, SlimLine DEF Lineal, Lines
  <2> QED BY <1>2, <2>1, <2>2, <2>3 DEF Lineal, Lines
<1>8. ~NothingReviewed(out["discover"]) /\ UNCHANGED <<cp, out>>
  BY <1>2, <1>5 DEF Lineal, Told, Phase
<1>9. Faithful' /\ Told'
  BY <1>2, <1>4 DEF Lineal, Faithful, Told
<1>10. Returned'
  BY <1>3, <1>4, <1>5, <1>6, <1>8 DEF Lineal, Told, Returned, NothingReviewed
<1> QED BY <1>7, <1>9, <1>10 DEF Lineal
-----------------------------------------------------------------------------
(* The phases, dispatched. *)

(* A fresh output that tells and hangs on its inputs. *)
LEMMA DispatchLine ==
  ASSUME IInv, Lineal, NEW p \in Phase, NEW o, OutputOK(p, o), Dispatch(p, o),
         Tells(p, o), Link(p, o, out), o.lineage.run <= runs,
         p = "merge" => o.lineage.run = runs,
         p = "challenge" => Same(o, out["filter"])
  PROVE  Lineal'
<1>1. pc = p /\ cp[p] = Nil /\ Complete(p, o) /\ UNCHANGED <<runs, cp, task, disk>>
  BY DEF Dispatch, Fresh
<1> QED BY <1>1, CompleteLine

(* The run a stored output belongs to is over or under way. *)
LEMMA RunOf ==
  ASSUME IInv, Lineal, NEW p \in Phase, out[p] # Nil
  PROVE  out[p].lineage.run <= runs /\ out[p] \in Output
<1>1. out[p].lineage.run < runs + 1 /\ out[p] \in Output /\ runs \in Nat
  BY DEF IInv, TypeOK, PhaseMap, Lineal, Lines, Before
<1> QED BY <1>1 DEF Output, Lineage

(* The summary hangs on nothing. *)
LEMMA SummarizeLine == ASSUME IInv, Lineal, Summarize PROVE Lineal'
<1>1. PICK lost \in BOOLEAN :
        Dispatch("summarize", MakeOutput(NoCards, IF lost THEN {"summarize"} ELSE {}, NoLineage))
  BY DEF Summarize
<1> DEFINE o == MakeOutput(NoCards, IF lost THEN {"summarize"} ELSE {}, NoLineage)
<1>2. OutputOK("summarize", o)
  BY MakeOutputOK DEF NoCards, Gap, Phase, Lineage, NoLineage
<1>3. o.lineage.run = 0 /\ runs \in Nat
  BY DEF MakeOutput, NoLineage, IInv, TypeOK
<1>4. Tells("summarize", o) /\ Link("summarize", o, out)
  BY DEF Tells, Link
<1> HIDE DEF o
<1> QED BY <1>1, <1>2, <1>3, <1>4, DispatchLine DEF o, Phase

(* Discovery tells every dimension it lost. *)
LEMMA DiscoverLine == ASSUME IInv, Lineal, Discover PROVE Lineal'
<1>1. PICK degraded \in SUBSET Agent, reported \in [Agent -> SUBSET Finding],
             onLoss \in SUBSET {pair[1] : pair \in Overlap} :
        Dispatch("discover",
          [cards |-> [f \in Finding |-> IF \E a \in Agent : f \in reported[a]
                                        THEN NewCard(f \in onLoss) ELSE Nil],
           gaps |-> degraded, degraded |-> degraded, lineage |-> NoLineage])
  BY DEF Discover
<1> DEFINE cards == [f \in Finding |-> IF \E a \in Agent : f \in reported[a]
                                       THEN NewCard(f \in onLoss) ELSE Nil]
           o == [cards |-> cards, gaps |-> degraded, degraded |-> degraded, lineage |-> NoLineage]
<1>2. \A f \in Finding : cards[f] # Nil => cards[f] \in NewCards
  <2> SUFFICES ASSUME NEW f \in Finding, cards[f] # Nil PROVE cards[f] \in NewCards
    OBVIOUS
  <2>1. cards[f] = NewCard(f \in onLoss) /\ (f \in onLoss) \in BOOLEAN
    OBVIOUS
  <2> HIDE DEF cards
  <2> QED BY <2>1, NewCardIsNew
<1>3. \A f \in Finding : cards[f] # Nil =>
        cards[f] \in Card /\ CardOK(cards[f]) /\ Blank("discover", cards[f])
  <2> HIDE DEF cards
  <2> QED BY <1>2, NewCardOK DEF Phase
<1>4. cards \in [Finding -> Card \cup {Nil}]
  BY <1>3
<1>5. OutputOK("discover", o)
  BY <1>3, <1>4 DEF OutputOK, Output, Gap, Lineage, NoLineage
<1>6. o.lineage.run = 0 /\ o.degraded = o.gaps /\ runs \in Nat
  BY DEF NoLineage, IInv, TypeOK
<1>7. Dispatch("discover", o)
  BY <1>1
<1> HIDE DEF o
<1>8. Tells("discover", o) /\ Link("discover", o, out)
  BY <1>6 DEF Tells, Link
<1> QED BY <1>5, <1>6, <1>7, <1>8, DispatchLine DEF Phase

(* Merging opens a lineage with the findings discovery reported. *)
LEMMA MergeLine == ASSUME IInv, Lineal, Merge PROVE Lineal'
<1> DEFINE cards == out["discover"].cards
           o == MakeOutput(cards, {}, [entered |-> Present(cards), run |-> runs])
<1>1. Dispatch("merge", o) /\ pc = "merge"
  BY DEF Merge, Dispatch, Fresh
<1>2. OutputOK("discover", out["discover"]) /\ out["discover"] # Nil
  BY <1>1, InputOK, Ranks
<1>3. cards \in [Finding -> Card \cup {Nil}]
  BY <1>2 DEF OutputOK, Output
<1>4. \A f \in Finding : cards[f] # Nil => CardOK(cards[f]) /\ Blank("merge", cards[f])
  BY <1>2 DEF OutputOK, Blank
<1>5. /\ o.cards = cards /\ o.lineage.entered = Present(cards) /\ o.lineage.run = runs
      /\ runs \in Nat
  BY DEF MakeOutput, IInv, TypeOK
<1>6. OutputOK("merge", o)
  <2>1. [entered |-> Present(cards), run |-> runs] \in Lineage
    BY <1>5 DEF Present, Lineage
  <2> HIDE DEF cards
  <2> QED BY <1>3, <1>4, <2>1, MakeOutputOK DEF Phase
<1> HIDE DEF o
<1>7. Tells("merge", o) /\ Link("merge", o, out)
  BY <1>2, <1>5 DEF Tells, Link
<1> QED BY <1>1, <1>5, <1>6, <1>7, DispatchLine DEF Phase

(* Verification keeps every merged finding and tells which it left unproven. *)
LEMMA VerifyLine == ASSUME IInv, Lineal, Verify PROVE Lineal'
<1> DEFINE held == Live(out["merge"].cards)
<1>1. PICK verdict \in [held -> {"keep", "eliminate", "unresolved"}] :
        Dispatch("verify", MakeOutput(
          [f \in Finding |-> IF f \in held THEN VerifyCard(out["merge"].cards[f], verdict[f])
                                           ELSE Nil],
          IF \E f \in held : verdict[f] = "unresolved" THEN {"verify"} ELSE {},
          out["merge"].lineage))
  BY DEF Verify
<1> DEFINE cards == [f \in Finding |->
                       IF f \in held THEN VerifyCard(out["merge"].cards[f], verdict[f]) ELSE Nil]
           g == IF \E f \in held : verdict[f] = "unresolved" THEN {"verify"} ELSE {}
           o == MakeOutput(cards, g, out["merge"].lineage)
<1>2. pc = "verify" /\ Dispatch("verify", o)
  BY <1>1 DEF Verify, Fresh
<1>3. OutputOK("merge", out["merge"]) /\ out["merge"] # Nil
  BY <1>2, InputOK, Ranks
<1>4. \A f \in Finding : out["merge"].cards[f] # Nil => out["merge"].cards[f] \in NewCards
  BY <1>3 DEF OutputOK, Blank
<1>5. held = Present(out["merge"].cards)
  <2>1. \A c \in NewCards : c.elim = "none"
    BY DEF NewCards, NewCard
  <2> QED BY <1>4, <2>1 DEF Live, Present
<1>6. \A f \in held : cards[f] \in Card /\ CardOK(cards[f]) /\ Blank("verify", cards[f])
  BY <1>4, VerifyCardOK DEF Live, Present
<1>7. \A f \in Finding : f \notin held => cards[f] = Nil
  OBVIOUS
<1>8. \A f \in held : cards[f].origin = "unknown" => verdict[f] = "unresolved"
  <2> SUFFICES ASSUME NEW f \in held, verdict[f] # "unresolved"
               PROVE  VerifyCard(out["merge"].cards[f], verdict[f]).origin # "unknown"
    BY DEF Live, Present
  <2>1. out["merge"].cards[f] \in NewCards /\ verdict[f] \in {"keep", "eliminate"}
    BY <1>4 DEF Live, Present
  <2> QED BY <2>1 DEF VerifyCard, NewCards, NewCard
<1>9. \A f \in held : cards[f].origin = "unknown" => "verify" \in g
  BY <1>8
<1>10. held \subseteq Finding /\ Nil \notin Card
  BY NilAssumption DEF Live, Present
<1> HIDE DEF cards, g, held
<1>11. cards \in [Finding -> Card \cup {Nil}]
  BY <1>6, <1>7 DEF cards
<1>12. g \in SUBSET Gap
  BY DEF g, Gap
<1>13. OutputOK("verify", o)
  <2>1. out["merge"].lineage \in Lineage
    BY <1>3 DEF OutputOK, Output
  <2>2. \A f \in Finding : cards[f] # Nil => CardOK(cards[f]) /\ Blank("verify", cards[f])
    BY <1>6, <1>7
  <2> QED BY <1>11, <1>12, <2>1, <2>2, MakeOutputOK DEF Phase
<1>14. Present(cards) = held
  BY <1>6, <1>7, <1>10 DEF Present
<1>15. o.cards = cards /\ o.gaps = g /\ o.lineage = out["merge"].lineage
  BY DEF MakeOutput
<1>16. Present(out["merge"].cards) = out["merge"].lineage.entered
  BY <1>3, Ranks DEF Lineal, Lines, LineOK, Follows, Link
<1> HIDE DEF o
<1>17. Tells("verify", o)
  <2>1. Present(o.cards) = held /\ held = o.lineage.entered
    BY <1>5, <1>14, <1>15, <1>16
  <2>2. \A f \in Present(o.cards) : o.cards[f].origin = "unknown" => "verify" \in o.gaps
    BY <1>9, <1>15, <2>1
  <2> QED BY <2>1, <2>2 DEF Tells
<1>18. Link("verify", o, out)
  BY <1>3, <1>15 DEF Link, Same
<1> QED BY <1>2, <1>3, <1>13, <1>15, <1>17, <1>18, RunOf, DispatchLine DEF Phase

(* A card of no type is absent. *)
LEMMA PresentIs ==
  ASSUME NEW cards, NEW held \in SUBSET Finding,
         \A f \in held : cards[f] \in Card,
         \A f \in Finding : f \notin held => cards[f] = Nil
  PROVE  Present(cards) = held
BY NilAssumption DEF Present

(* The verdicts of one stage leave the others' stamps alone. *)
LEMMA ValidateCardKeeps ==
  ASSUME NEW c \in Card, CardOK(c), Blank("verify", c), NEW record \in Reply
  PROVE  LET d == ValidateCard(c, record)
         IN /\ d.origin = c.origin /\ d.elim = c.elim
            /\ d.validation = "skipped" => record = "none"
BY DEF ValidateCard, Card, Blank, Reply

(* The filter keeps the stamps of verification and validation. *)
LEMMA FilterCardKeeps ==
  ASSUME NEW c \in Card, NEW rule
  PROVE  FilterCard(c, rule).origin = c.origin /\ FilterCard(c, rule).validation = c.validation
BY DEF FilterCard, Card

(* So does the challenge. *)
LEMMA ChallengeCardKeeps ==
  ASSUME NEW c \in Card, NEW e, e = [c EXCEPT !.admission = Admission(c)], NEW answer
  PROVE  /\ ChallengeCard(e, answer).origin = c.origin
         /\ ChallengeCard(e, answer).validation = c.validation
BY DEF ChallengeCard, Card

(* What is handed on is live, and every live card is handed on or is       *)
(* represented by one that is. *)
LEMMA HandedFacts ==
  ASSUME NEW cards
  PROVE  /\ Handed(cards) \subseteq Live(cards)
         /\ \A f \in Live(cards) :
              \/ f \in Handed(cards)
              \/ \E l \in Audit : <<f, l>> \in Overlap /\ l \in Handed(cards)
<1>1. \A f \in Suppressed(cards) : f \notin Audit
  BY DEF Suppressed
<1>2. ASSUME NEW f \in Suppressed(cards)
      PROVE  \E l \in Audit : <<f, l>> \in Overlap /\ l \in Handed(cards)
  <2>1. PICK l \in Live(cards) : <<f, l>> \in Overlap
    BY DEF Suppressed
  <2>2. l \in Audit
    BY <2>1, AuditAssumption
  <2> QED BY <1>1, <2>1, <2>2 DEF Handed
<1> QED BY <1>2 DEF Handed

(* Validation stamps what was handed on and tells which it never scored. *)
LEMMA ValidateLine == ASSUME IInv, Lineal, ValidateRetry PROVE Lineal'
<1> DEFINE pending == {f \in Verified : accepted[f] \in {"none", "partial"}}
<1>1. PICK reply \in [pending -> Reply] :
        LET record(f) == IF f \in pending THEN Consume(accepted[f], reply[f]) ELSE accepted[f]
        IN Complete("validate", MakeOutput(
             [f \in Finding |-> IF f \in Verified
                THEN ValidateCard(out["verify"].cards[f], record(f)) ELSE Nil],
             IF \E f \in Verified : record(f) = "none" THEN {"validate"} ELSE {},
             out["verify"].lineage))
  BY DEF ValidateRetry
<1> DEFINE record(f) == IF f \in pending THEN Consume(accepted[f], reply[f]) ELSE accepted[f]
           cards == [f \in Finding |-> IF f \in Verified
                       THEN ValidateCard(out["verify"].cards[f], record(f)) ELSE Nil]
           g == IF \E f \in Verified : record(f) = "none" THEN {"validate"} ELSE {}
           o == MakeOutput(cards, g, out["verify"].lineage)
<1>2. pc = "validate" /\ cp["validate"] = Nil /\ UNCHANGED <<runs, cp, task, disk>>
  BY DEF ValidateRetry, Fresh
<1>3. Complete("validate", o)
  BY <1>1
<1>4. \A f \in Verified : record(f) \in Reply
  BY <1>2, VerifiedOK DEF Consume, IInv, TypeOK
<1>5. out["verify"] # Nil
  BY <1>2, InputOK, Ranks
<1>6. Verified \subseteq Finding /\ Verified = Handed(out["verify"].cards)
  BY <1>2, VerifiedOK DEF Verified, Handed
<1> HIDE DEF record
<1>7. \A f \in Verified : cards[f] \in Card /\ CardOK(cards[f]) /\ Blank("validate", cards[f])
  BY <1>2, <1>4, VerifiedOK, ValidateCardOK
<1>8. \A f \in Verified : /\ cards[f].origin = out["verify"].cards[f].origin
                          /\ cards[f].elim = out["verify"].cards[f].elim
                          /\ cards[f].validation = "skipped" => record(f) = "none"
  BY <1>2, <1>4, VerifiedOK, ValidateCardKeeps
<1>9. \A f \in Finding : f \notin Verified => cards[f] = Nil
  OBVIOUS
<1>10. cards \in [Finding -> Card \cup {Nil}]
  BY <1>7, <1>9
<1>11. \A f \in Verified : cards[f].validation = "skipped" => "validate" \in g
  BY <1>8
<1>12. g \in SUBSET Gap
  BY DEF Gap
<1> HIDE DEF cards, g
<1>13. Present(cards) = Verified
  BY <1>6, <1>7, <1>9, PresentIs
<1>14. OutputOK("validate", o)
  <2>1. \A f \in Finding : cards[f] # Nil => CardOK(cards[f]) /\ Blank("validate", cards[f])
    BY <1>7, <1>9
  <2> QED BY <1>2, <1>10, <1>12, <2>1, VerifiedOK, MakeOutputOK DEF Phase
<1>15. o.cards = cards /\ o.gaps = g /\ o.lineage = out["verify"].lineage
  BY DEF MakeOutput
<1> HIDE DEF o
<1>16. \A f \in Verified : cards[f].elim = "none"
  BY <1>6, <1>8, HandedFacts DEF Live
<1>17. Tells("validate", o)
  <2>1. Live(o.cards) = Present(o.cards)
    BY <1>13, <1>15, <1>16 DEF Live
  <2> QED BY <1>11, <1>13, <1>15, <2>1 DEF Tells
<1>18. Link("validate", o, out)
  BY <1>5, <1>6, <1>8, <1>13, <1>15 DEF Link, Same
<1>19. o.lineage.run <= runs
  BY <1>5, <1>15, RunOf DEF Phase
<1> QED BY <1>2, <1>3, <1>14, <1>17, <1>18, <1>19, CompleteLine DEF Phase

(* The filter drops no card and no stamp of vetting. *)
LEMMA FilterLine == ASSUME IInv, Lineal, Filter PROVE Lineal'
<1> DEFINE input == Live(out["validate"].cards)
<1>1. PICK rule \in [input -> {"remove", "strip", "keep"}] :
        Dispatch("filter", MakeOutput(
          [f \in Finding |-> IF f \in input
             THEN FilterCard(out["validate"].cards[f], rule[f]) ELSE Nil],
          {}, out["validate"].lineage))
  BY DEF Filter
<1> DEFINE cards == [f \in Finding |-> IF f \in input
                       THEN FilterCard(out["validate"].cards[f], rule[f]) ELSE Nil]
           o == MakeOutput(cards, {}, out["validate"].lineage)
<1>2. Dispatch("filter", o) /\ pc = "filter"
  BY <1>1 DEF Filter, Fresh
<1>3. OutputOK("validate", out["validate"]) /\ out["validate"] # Nil
  BY <1>2, InputOK, Ranks
<1>4. \A f \in input : /\ f \in Finding /\ out["validate"].cards[f] \in Card
                       /\ CardOK(out["validate"].cards[f])
                       /\ Blank("validate", out["validate"].cards[f])
  BY <1>3 DEF Live, Present, OutputOK
<1>5. \A f \in input : cards[f] \in Card /\ CardOK(cards[f]) /\ Blank("filter", cards[f])
  BY <1>4, FilterCardOK
<1>6. \A f \in input : /\ cards[f].origin = out["validate"].cards[f].origin
                       /\ cards[f].validation = out["validate"].cards[f].validation
  BY <1>4, FilterCardKeeps
<1>7. \A f \in Finding : f \notin input => cards[f] = Nil
  OBVIOUS
<1>8. cards \in [Finding -> Card \cup {Nil}]
  BY <1>5, <1>7
<1>9. Tells("validate", out["validate"])
  BY <1>3, Ranks DEF Lineal, Lines, LineOK
<1>10. input = Present(out["validate"].cards)
  BY <1>9 DEF Tells
<1>11. input \in SUBSET Finding
  BY <1>4
<1> HIDE DEF cards, input
<1>12. Present(cards) = input
  BY <1>5, <1>7, <1>11, PresentIs
<1>13. OutputOK("filter", o)
  <2>1. out["validate"].lineage \in Lineage
    BY <1>3 DEF OutputOK, Output
  <2>2. \A f \in Finding : cards[f] # Nil => CardOK(cards[f]) /\ Blank("filter", cards[f])
    BY <1>5, <1>7
  <2> QED BY <1>8, <2>1, <2>2, MakeOutputOK DEF Phase
<1>14. o.cards = cards /\ o.lineage = out["validate"].lineage
  BY DEF MakeOutput
<1> HIDE DEF o
<1>15. Tells("filter", o)
  BY DEF Tells
<1>16. Link("filter", o, out)
  BY <1>3, <1>6, <1>10, <1>12, <1>14 DEF Link, Same
<1>17. o.lineage.run <= runs
  BY <1>3, <1>14, RunOf DEF Phase
<1> QED BY <1>2, <1>13, <1>15, <1>16, <1>17, DispatchLine DEF Phase

(* What the vetting outputs before the challenge say of one another. *)
LEMMA VettingChain ==
  ASSUME IInv, Lineal, pc = "challenge"
  PROVE  /\ \A p \in {"verify", "validate", "filter"} :
              out[p] # Nil /\ OutputOK(p, out[p])
         /\ out["filter"].lineage = out["verify"].lineage
         /\ Present(out["verify"].cards) = out["verify"].lineage.entered
         /\ Present(out["filter"].cards) = Handed(out["verify"].cards)
         /\ \A f \in Present(out["verify"].cards) :
              out["verify"].cards[f].origin = "unknown" => "verify" \in out["verify"].gaps
         /\ \A f \in Present(out["filter"].cards) :
              /\ out["filter"].cards[f].origin = out["verify"].cards[f].origin
              /\ out["filter"].cards[f].validation = "skipped" => "validate" \in out["validate"].gaps
<1>1. \A p \in {"verify", "validate", "filter"} : out[p] # Nil /\ OutputOK(p, out[p])
  BY InputOK, Ranks
<1>2. Link("validate", out["validate"], out) /\ Link("filter", out["filter"], out)
  BY <1>1, Ranks DEF Lineal, Lines, LineOK, Follows
<1>3. Tells("verify", out["verify"]) /\ Tells("validate", out["validate"])
  BY <1>1, Ranks DEF Lineal, Lines, LineOK
<1>4. out["filter"].lineage = out["verify"].lineage
  BY <1>2 DEF Link, Same
<1>5. /\ Present(out["filter"].cards) = Present(out["validate"].cards)
      /\ Present(out["validate"].cards) = Handed(out["verify"].cards)
      /\ \A f \in Present(out["validate"].cards) :
           /\ out["validate"].cards[f].origin = out["verify"].cards[f].origin
           /\ out["filter"].cards[f].origin = out["validate"].cards[f].origin
           /\ out["filter"].cards[f].validation = out["validate"].cards[f].validation
  BY <1>2 DEF Link
<1>6. /\ Present(out["verify"].cards) = out["verify"].lineage.entered
      /\ \A f \in Present(out["verify"].cards) :
           out["verify"].cards[f].origin = "unknown" => "verify" \in out["verify"].gaps
      /\ \A f \in Present(out["validate"].cards) :
           out["validate"].cards[f].validation = "skipped" => "validate" \in out["validate"].gaps
  BY <1>3 DEF Tells
<1> QED BY <1>1, <1>4, <1>5, <1>6

(* The challenge output carries every finding that entered, or its audit loss. *)
LEMMA ChallengeLine == ASSUME IInv, Lineal, Challenge PROVE Lineal'
<1> DEFINE input == Live(out["filter"].cards)
           actionable == {f \in input : Actionable(ChallengeInput(f))}
<1>1. PICK candidates \in SUBSET actionable :
        \E answer \in [candidates -> {"null", "low", "ok"}] :
        LET card(f) == ChallengeCard(ChallengeInput(f),
                                     IF f \in candidates THEN answer[f] ELSE "capped")
        IN Dispatch("challenge", MakeOutput(
             [f \in Finding |-> IF f \in input THEN card(f) ELSE CarriedCard(f)],
             ChallengeGaps({card(f).challenge : f \in input}),
             out["filter"].lineage))
  BY DEF Challenge
<1>p. PICK answer \in [candidates -> {"null", "low", "ok"}] :
        LET card(f) == ChallengeCard(ChallengeInput(f),
                                     IF f \in candidates THEN answer[f] ELSE "capped")
        IN Dispatch("challenge", MakeOutput(
             [f \in Finding |-> IF f \in input THEN card(f) ELSE CarriedCard(f)],
             ChallengeGaps({card(f).challenge : f \in input}),
             out["filter"].lineage))
  BY <1>1
<1> DEFINE card(f) == ChallengeCard(ChallengeInput(f),
                                    IF f \in candidates THEN answer[f] ELSE "capped")
           cards == [f \in Finding |-> IF f \in input THEN card(f) ELSE CarriedCard(f)]
           g == ChallengeGaps({card(f).challenge : f \in input})
           o == MakeOutput(cards, g, out["filter"].lineage)
           V == out["verify"]
           F == out["filter"]
<1>2. Dispatch("challenge", o) /\ pc = "challenge"
  BY <1>p DEF Challenge, Fresh
<1>3. /\ V # Nil /\ F # Nil /\ OutputOK("verify", V) /\ OutputOK("filter", F)
      /\ F.lineage = V.lineage
      /\ Present(V.cards) = V.lineage.entered
      /\ Present(F.cards) = Handed(V.cards)
      /\ \A f \in Present(V.cards) : V.cards[f].origin = "unknown" => "verify" \in V.gaps
      /\ \A f \in Present(F.cards) :
           /\ F.cards[f].origin = V.cards[f].origin
           /\ F.cards[f].validation = "skipped" => "validate" \in out["validate"].gaps
  BY <1>2, VettingChain
<1>4. \A f \in input : /\ f \in Present(F.cards) /\ f \in Finding
                       /\ F.cards[f] \in Card /\ CardOK(F.cards[f]) /\ Blank("filter", F.cards[f])
  BY <1>3 DEF Live, Present, OutputOK
<1>5. \A f \in input : card(f) \in Card /\ CardOK(card(f)) /\ Blank("challenge", card(f))
  <2> SUFFICES ASSUME NEW f \in input
               PROVE  card(f) \in Card /\ CardOK(card(f)) /\ Blank("challenge", card(f))
    OBVIOUS
  <2>1. /\ ChallengeInput(f) \in Card /\ CardOK(ChallengeInput(f))
        /\ ChallengeInput(f).challenge = "none"
        /\ ChallengeInput(f).admission = "admitted" => ~ChallengeInput(f).stripped
    BY <1>4, ReevaluationOK DEF ChallengeInput
  <2> QED BY <2>1, ChallengeCardOK
<1>6. \A f \in input : /\ card(f).origin = F.cards[f].origin
                       /\ card(f).validation = F.cards[f].validation
  BY <1>4, ChallengeCardKeeps DEF ChallengeInput
<1>7. \A f \in input : card(f).challenge \in {"failed", "capped"} => "challenge" \in g
  <2> HIDE DEF card
  <2> QED BY DEF ChallengeGaps
<1>8. g \in SUBSET Gap
  BY DEF ChallengeGaps, Gap
<1>9. \A f \in input : cards[f] = card(f)
  BY <1>4
<1>10. \A f \in Finding : f \notin input => cards[f] = CarriedCard(f)
  OBVIOUS
<1>11. \A f \in Finding :
         \/ CarriedCard(f) = V.cards[f] /\ Eliminated("verify", f)
         \/ CarriedCard(f) = F.cards[f] /\ Eliminated("filter", f) /\ ~Eliminated("verify", f)
         \/ CarriedCard(f) = Nil /\ ~Eliminated("filter", f) /\ ~Eliminated("verify", f)
  BY DEF CarriedCard
<1>12. \A f \in Finding :
         /\ Eliminated("verify", f) => /\ f \in Present(V.cards)
                                       /\ V.cards[f] # Nil /\ V.cards[f] \in Card
                                       /\ CardOK(V.cards[f]) /\ Blank("verify", V.cards[f])
         /\ Eliminated("filter", f) => /\ f \in Present(F.cards)
                                       /\ F.cards[f] # Nil /\ F.cards[f] \in Card
                                       /\ CardOK(F.cards[f]) /\ Blank("filter", F.cards[f])
  BY <1>3 DEF Eliminated, Present, OutputOK
<1>13. \A f \in Present(F.cards) : f \in Finding /\ (f \in input \/ Eliminated("filter", f))
  BY DEF Present, Live, Eliminated
<1>14. \A f \in Present(V.cards) : f \in Finding /\ (f \in Live(V.cards) \/ Eliminated("verify", f))
  BY DEF Present, Live, Eliminated
<1>15. \A c : Blank("verify", c) => c.validation = "none" /\ c.challenge = "none"
  BY DEF Blank
<1>16. \A c : Blank("filter", c) => c.challenge = "none"
  BY DEF Blank
<1> HIDE DEF card, cards, g, input
<1>17. \A f \in Present(cards) : f \in Finding /\ cards[f] # Nil
  BY DEF Present
<1>18. \A f \in input \cup Present(F.cards) \cup {f \in Finding : Eliminated("verify", f)} :
         f \in Finding /\ cards[f] # Nil
  BY <1>4, <1>5, <1>9, <1>10, <1>11, <1>12, <1>13, NilAssumption
<1>19. Present(V.cards) \subseteq Finding /\ Handed(V.cards) \subseteq Present(V.cards)
  BY <1>14, HandedFacts DEF Live
<1>20. Present(cards) \subseteq V.lineage.entered
  BY <1>3, <1>4, <1>10, <1>11, <1>12, <1>17, <1>19
<1>21. \A f \in V.lineage.entered :
         \/ cards[f] # Nil
         \/ \E l \in Audit : <<f, l>> \in Overlap /\ cards[l] # Nil
  BY <1>3, <1>14, <1>18, HandedFacts
<1>22. \A f \in Present(cards) : cards[f].challenge \in {"failed", "capped"} => "challenge" \in g
  <2>1. \A f \in Present(cards) : f \notin input => cards[f].challenge = "none"
    BY <1>10, <1>11, <1>12, <1>15, <1>16, <1>17
  <2> QED BY <1>7, <1>9, <2>1
<1>23. \A f \in Present(cards) :
         /\ cards[f].origin = "unknown" => "verify" \in V.gaps
         /\ cards[f].validation = "skipped" => "validate" \in out["validate"].gaps
  <2> SUFFICES ASSUME NEW f \in Present(cards)
               PROVE  /\ cards[f].origin = "unknown" => "verify" \in V.gaps
                      /\ cards[f].validation = "skipped" => "validate" \in out["validate"].gaps
    OBVIOUS
  <2>1. \A h \in Present(F.cards) : F.cards[h].origin = "unknown" => "verify" \in V.gaps
    BY <1>3, <1>19
  <2>2. CASE f \in input
    BY <1>3, <1>4, <1>6, <1>9, <2>1, <2>2
  <2>3. CASE f \notin input /\ Eliminated("verify", f)
    BY <1>3, <1>10, <1>11, <1>12, <1>15, <1>17, <2>3
  <2>4. CASE f \notin input /\ ~Eliminated("verify", f)
    BY <1>3, <1>10, <1>11, <1>12, <1>17, <2>1, <2>4
  <2> QED BY <2>2, <2>3, <2>4
<1>24. \A f \in Finding : cards[f] # Nil =>
         cards[f] \in Card /\ CardOK(cards[f]) /\ Blank("challenge", cards[f])
  <2>1. \A f \in Finding : CarriedCard(f) # Nil =>
          CarriedCard(f) \in Card /\ CardOK(CarriedCard(f)) /\ Blank("challenge", CarriedCard(f))
    BY <1>11, <1>12 DEF Blank
  <2> QED BY <1>5, <1>9, <1>10, <2>1
<1>25. OutputOK("challenge", o)
  <2>1. cards \in [Finding -> Card \cup {Nil}]
    BY <1>24 DEF cards
  <2>2. F.lineage \in Lineage
    BY <1>3 DEF OutputOK, Output
  <2> QED BY <1>8, <1>24, <2>1, <2>2, MakeOutputOK DEF Phase
<1>26. o.cards = cards /\ o.gaps = g /\ o.lineage = F.lineage
  BY DEF MakeOutput
<1> HIDE DEF o
<1>27. Tells("challenge", o)
  BY <1>3, <1>20, <1>21, <1>22, <1>26 DEF Tells, Whole
<1>28. Link("challenge", o, out)
  BY <1>23, <1>26 DEF Link
<1>29. o.lineage.run <= runs /\ Same(o, F)
  BY <1>3, <1>26, RunOf DEF Phase, Same
<1> QED BY <1>2, <1>25, <1>27, <1>28, <1>29, DispatchLine DEF Phase
-----------------------------------------------------------------------------
(* Every step keeps the invariant. *)

(* A phase that throws ends the run with what it has. *)
LEMMA ThrowLine == ASSUME IInv, Lineal, NEW p \in Phase, Throw(p) PROVE Lineal'
<1>1. PICK truncated \in BOOLEAN : env' = Failure(p, out, gaps, truncated)
  BY DEF Throw
<1>2. pc' = "host" /\ UNCHANGED <<runs, cp, out, gaps, disk>>
  BY DEF Throw
<1> QED BY <1>1, <1>2, FailLine

(* So does a report that throws. *)
LEMMA ReportThrowsLine == ASSUME IInv, Lineal, ReportThrows PROVE Lineal'
<1>1. PICK truncated \in BOOLEAN :
        env' = Failure("report", out, gaps \cup out["challenge"].gaps, truncated)
  BY DEF ReportThrows
<1>2. pc' = "host" /\ gaps' = gaps \cup out["challenge"].gaps /\ UNCHANGED <<runs, cp, out, disk>>
  BY DEF ReportThrows
<1>3. gaps \subseteq gaps \cup out["challenge"].gaps /\ gaps \subseteq gaps'
  BY <1>2
<1> QED BY <1>1, <1>2, <1>3, FailLine

(* Every step keeps the invariant. *)
LEMMA LineStep == IInv /\ Lineal /\ [Next]_vars => Lineal'
<1> SUFFICES ASSUME IInv, Lineal, [Next]_vars PROVE Lineal'
  OBVIOUS
<1>1. CASE Start
  BY <1>1, StartLine
<1>2. CASE \E p \in Eager : Settles(p)
  BY <1>2, QuietLine DEF Settles
<1>3. CASE ValidateBatches
  BY <1>3, QuietLine DEF ValidateBatches
<1>4. CASE \E p \in Phase : Replay(p) \/ Throw(p)
  BY <1>4, ReplayLine, ThrowLine
<1>5. CASE Summarize \/ Discover \/ Merge \/ Verify \/ ValidateRetry \/ Filter \/ Challenge
  BY <1>5, SummarizeLine, DiscoverLine, MergeLine, VerifyLine, ValidateLine, FilterLine,
     ChallengeLine
<1>6. CASE Deliver \/ ReportThrows
  BY <1>6, DeliverLine, ReportThrowsLine
<1>7. CASE UNCHANGED vars
  BY <1>7, QuietLine DEF vars
<1> QED BY <1>1, <1>2, <1>3, <1>4, <1>5, <1>6, <1>7 DEF Next, Step

(* The invariant of both modules holds throughout. *)
LEMMA LineageInvariant == Spec => [](IInv /\ Lineal)
<1>1. Init => IInv /\ Lineal
  BY InitOK, InitLine
<1>2. IInv /\ Lineal /\ [Next]_vars => (IInv /\ Lineal)'
  BY StepOK, LineStep
<1> QED BY <1>1, <1>2, PTL DEF Spec

(* A delivery has a section for each card of its challenge output. *)
LEMMA DeliveredFacts ==
  ASSUME IInv, Lineal, Delivered
  PROVE  /\ \A p \in Phase : out[p] # Nil
         /\ Tells("challenge", out["challenge"])
         /\ \A f \in Finding : env.section[f] # "none" <=> f \in Present(out["challenge"].cards)
         /\ ~NothingReviewed(out["discover"])
         /\ \A p \in Phase : out[p].gaps \subseteq env.gaps
         /\ \A p \in Phase \ {"challenge"} : Link(p, out[p], out)
         /\ Link("challenge", out["challenge"], out)
<1>1. pc = "host" /\ env # Nil /\ env.ok
  BY DEF Delivered
<1>2. /\ \A p \in Phase \ {"challenge"} : out[p] # Nil => out[p].gaps \subseteq env.gaps
      /\ \A p \in Phase : out[p] # Nil
      /\ out["challenge"].gaps \subseteq env.gaps
      /\ ~NothingReviewed(out["discover"])
      /\ \A f \in Finding : env.section[f] # "none" <=> f \in Present(out["challenge"].cards)
  BY <1>1 DEF Lineal, Returned
<1>3. ~IsSlim(out)
  BY <1>2, Ranks DEF IsSlim
<1>4. \A p \in Phase : Tells(p, out[p]) /\ Link(p, out[p], out)
  BY <1>2, <1>3 DEF Lineal, Lines, LineOK, Follows
<1> QED BY <1>2, <1>4, Ranks

(* Nothing that entered goes missing from a delivery. *)
LEMMA ConservationHolds == IInv /\ Lineal => Conservation
<1> SUFFICES ASSUME IInv, Lineal, Delivered PROVE Conservation
  BY DEF Conservation
<1>1. Whole(out["challenge"])
  BY DeliveredFacts DEF Tells
<1>2. \A f \in Finding : env.section[f] # "none" <=> out["challenge"].cards[f] # Nil
  BY DeliveredFacts DEF Present
<1>3. /\ out["challenge"].lineage.entered \subseteq Finding
      /\ Audit \subseteq Finding
  BY DeliveredFacts, AuditAssumption, Ranks DEF IInv, Stored, MapOK, OutputOK, Output, Lineage
<1> QED BY <1>1, <1>2, <1>3 DEF Conservation, Whole, Present

(* Nothing is lost unsaid. *)
LEMMA DisclosureHolds == IInv /\ Lineal => Disclosure
<1> SUFFICES ASSUME IInv, Lineal, pc = "host", env # Nil, env.failing # "checkpoints"
             PROVE  /\ out["discover"] # Nil => out["discover"].degraded \subseteq env.gaps
                    /\ env.ok => \A f \in Present(out["challenge"].cards) :
                         /\ FinalCard(f).challenge \in {"failed", "capped"} =>
                              "challenge" \in env.gaps
                         /\ WholeLineage =>
                              /\ FinalCard(f).origin = "unknown" => "verify" \in env.gaps
                              /\ FinalCard(f).validation = "skipped" => "validate" \in env.gaps
  BY DEF Disclosure
<1>1. ASSUME out["discover"] # Nil PROVE out["discover"].degraded \subseteq env.gaps
  <2>1. out["discover"].gaps \subseteq env.gaps
    BY <1>1, Ranks DEF Lineal, Returned
  <2>2. out["discover"].degraded \subseteq out["discover"].gaps
    BY <1>1, Ranks DEF Lineal, Lines, LineOK, Tells
  <2> QED BY <2>1, <2>2
<1>2. ASSUME env.ok, NEW f \in Present(out["challenge"].cards)
      PROVE  /\ FinalCard(f).challenge \in {"failed", "capped"} => "challenge" \in env.gaps
             /\ WholeLineage =>
                  /\ FinalCard(f).origin = "unknown" => "verify" \in env.gaps
                  /\ FinalCard(f).validation = "skipped" => "validate" \in env.gaps
  <2>1. Delivered
    BY <1>2 DEF Delivered
  <2>2. /\ out["challenge"].gaps \subseteq env.gaps /\ out["verify"].gaps \subseteq env.gaps
        /\ out["validate"].gaps \subseteq env.gaps
    BY <2>1, DeliveredFacts, Ranks
  <2>3. FinalCard(f).challenge \in {"failed", "capped"} => "challenge" \in out["challenge"].gaps
    BY <1>2, <2>1, DeliveredFacts DEF Tells, FinalCard
  <2>4. WholeLineage =>
          /\ FinalCard(f).origin = "unknown" => "verify" \in out["verify"].gaps
          /\ FinalCard(f).validation = "skipped" => "validate" \in out["validate"].gaps
    BY <1>2, <2>1, DeliveredFacts DEF Link, Same, WholeLineage, FinalCard
  <2> QED BY <2>2, <2>3, <2>4
<1> QED BY <1>1, <1>2

(* A delivery made of a run's own challenge reports what its discovery     *)
(* found. *)
LEMMA NoFalseCleanHolds == IInv /\ Lineal => NoFalseClean
<1> SUFFICES ASSUME IInv, Lineal, Delivered, cp["challenge"] = Nil,
                    out["discover"].degraded = Agent
             PROVE  \E f \in Finding : env.section[f] # "none"
  BY DEF NoFalseClean
<1>1. Present(out["discover"].cards) # {}
  BY DeliveredFacts DEF NothingReviewed
<1>2. Same(out["challenge"], out["filter"])
  BY DeliveredFacts, Ranks DEF Lineal, Faithful
<1>3. /\ out["filter"].lineage = out["validate"].lineage
      /\ out["validate"].lineage = out["verify"].lineage
      /\ out["verify"].lineage = out["merge"].lineage
      /\ out["merge"].lineage.entered = Present(out["discover"].cards)
  <2>1. /\ Link("filter", out["filter"], out) /\ Link("validate", out["validate"], out)
        /\ Link("verify", out["verify"], out) /\ Link("merge", out["merge"], out)
    BY DeliveredFacts, Ranks
  <2> QED BY <2>1 DEF Link, Same
<1>4. Present(out["discover"].cards) = out["challenge"].lineage.entered
  BY <1>2, <1>3 DEF Same
<1>5. PICK f \in out["challenge"].lineage.entered : TRUE
  BY <1>1, <1>4
<1>6. f \in Finding /\ Audit \subseteq Finding
  BY <1>4, <1>5, AuditAssumption DEF Present
<1>7. \E h \in Finding : out["challenge"].cards[h] # Nil
  BY <1>5, <1>6, DeliveredFacts DEF Tells, Whole
<1> QED BY <1>7, DeliveredFacts DEF Present

(* No finding that entered vetting goes missing from a delivery, and none  *)
(* is given a section that did not enter; and what a run lost, itself or   *)
(* in a phase it replays, is in the envelope it returns - through any      *)
(* number of failed, resumed and slimmed runs.                             *)
THEOREM LossIsAlwaysTold == Spec => []LossIsTold
<1>1. IInv /\ Lineal => LossIsTold
  BY ConservationHolds, DisclosureHolds DEF LossIsTold
<1> QED BY <1>1, LineageInvariant, PTL

(* The vetting a section claims was earned, and the loss of any of it is   *)
(* told, whatever the run was resumed from.                                *)
THEOREM VettingAlwaysSurvives == Spec => []VettingSurvivesResume
<1>1. IInv /\ Lineal => VettingSurvivesResume
  BY DisclosureHolds DEF VettingSurvivesResume, IInv
<1> QED BY <1>1, LineageInvariant, PTL

(* Losing every reviewer is never delivered as a clean review.             *)
THEOREM NeverFalselyClean == Spec => []NoFalseClean
<1>1. IInv /\ Lineal => NoFalseClean
  BY NoFalseCleanHolds
<1> QED BY <1>1, LineageInvariant, PTL
=============================================================================
