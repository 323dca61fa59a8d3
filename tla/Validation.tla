----------------------------- MODULE Validation -----------------------------
(***************************************************************************)
(* How the intelligence's claims are measured                              *)
(* (local-bridge/app/intelligence/validation, quality/gate13.py): approved *)
(* evaluations are recorded and counted into an accuracy report, approved  *)
(* benchmarks score a list of answers against a dataset.  Texts are what   *)
(* they are compared for: an answer is right, shares words with the right  *)
(* one, or neither.  Confidences and rates are in percent.                 *)
(***************************************************************************)
EXTENDS Naturals, Sequences, FiniteSets

CONSTANTS
  Confidences,     \* of the claims, in percent
  MaxEvaluations,  \* bound: evaluations recorded
  Cases,           \* cases of a dataset: 1..Cases, as their ids are ordered
  MaxRuns          \* bound: benchmarks run

ASSUME ValidationAssumption ==
  Confidences \subseteq 0..95 /\ MaxEvaluations \in Nat /\ Cases \in Nat \ {0} /\ MaxRuns \in Nat

VARIABLES
  evaluations,  \* intelligence_evaluations
  benchmarks    \* intelligence_benchmarks: the answers given, the score and the accuracy

validationVars == <<evaluations, benchmarks>>

-----------------------------------------------------------------------------
EvaluationResults == {"correct", "incorrect", "partial", "unknown"}

(* Slip: unknown outcomes are counted.                                     *)
CountedResultsAll == EvaluationResults

CountedResults == {"correct", "incorrect", "partial"}

EvaluationRecords == [result : EvaluationResults, confidence : Confidences]

Rate(part, whole) == IF whole = 0 THEN 0 ELSE (100 * part) \div whole

(* Slip: both ends of a bin belong to it.                                  *)
InBinClosed(r, b) == 20 * (b - 1) <= r.confidence /\ r.confidence <= 20 * b

(* CALIBRATION_BINS: five of them, each without its upper end.             *)
InBin(r, b) == 20 * (b - 1) <= r.confidence /\ r.confidence < 20 * b

(* AccuracySystem.report, of the places its records have in the list.  A   *)
(* partial outcome is counted, and as incorrect.                           *)
AccuracyReport(records) ==
  LET counted == {i \in DOMAIN records : records[i].result \in CountedResults}
      right == {i \in counted : records[i].result = "correct"}
      sure == {i \in counted : records[i].confidence >= 50}
      total == Cardinality(counted)
      tp == Cardinality(right \cap sure)
      fp == Cardinality(sure \ right)
      fn == Cardinality(counted \ (right \cup sure)) IN
  [predictions |-> Len(records), counted |-> total,
   correct |-> Cardinality(right), incorrect |-> total - Cardinality(right),
   unknown |-> Cardinality({i \in DOMAIN records : records[i].result = "unknown"}),
   truePositive |-> tp, trueNegative |-> Cardinality(right \ sure),
   falsePositive |-> fp, falseNegative |-> fn,
   accuracy |-> Rate(Cardinality(right), total), precision |-> Rate(tp, tp + fp),
   recall |-> Rate(tp, tp + fn),
   bins |-> [b \in 1..5 |-> Cardinality({i \in counted : InBin(records[i], b)})]]

(* QualityGate13Evaluator.evaluate.  What is recorded always has the ids   *)
(* and outcomes the gate would block on.                                   *)
Gate13 ==
  IF evaluations = << >> \/ AccuracyReport(evaluations).counted = 0 THEN "WARN" ELSE "PASS"

(* Slip: any overlap of words makes an answer right.                       *)
ScoreCaseKind(answer) == IF answer \in {"right", "close"} THEN 100 ELSE 0

(* BenchmarkPlanner.score_case.                                            *)
ScoreCase(answer) == IF answer = "right" THEN 100 ELSE IF answer = "close" THEN 50 ELSE 0

(* Slip: a case without an answer is wrong.                                *)
AnswerToStrict(answers, c) == IF c <= Len(answers) THEN answers[c] ELSE "wrong"

(* A case without an answer gets the expected one.                         *)
AnswerTo(answers, c) == IF c <= Len(answers) THEN answers[c] ELSE "right"

(* BenchmarkRunner.run: the mean of the scores, and the share of the cases *)
(* that are right.                                                         *)
SumOf(scores) ==
  LET upTo[c \in 0..Cases] == IF c = 0 THEN 0 ELSE upTo[c - 1] + scores[c] IN upTo[Cases]
RunOf(answers) ==
  LET scores == [c \in 1..Cases |-> ScoreCase(AnswerTo(answers, c))] IN
  [answers |-> answers, score |-> SumOf(scores) \div Cases,
   accuracy |-> Rate(Cardinality({c \in 1..Cases : scores[c] = 100}), Cases)]

Answers == UNION {[1..n -> {"right", "close", "wrong"}] : n \in 0..Cases + 1}

-----------------------------------------------------------------------------
ValidationInit == evaluations = << >> /\ benchmarks = {}

(* intelligence_evaluation_record.                                         *)
RecordEvaluation ==
  /\ Len(evaluations) < MaxEvaluations
  /\ \E r \in EvaluationRecords : evaluations' = Append(evaluations, r)
  /\ UNCHANGED benchmarks

(* intelligence_benchmark_run: answers pair with the cases in the order of *)
(* the case ids, those that are left over with none.                       *)
RunBenchmark ==
  /\ Cardinality(benchmarks) < MaxRuns
  /\ \E a \in Answers : benchmarks' = benchmarks \cup {RunOf(a)}
  /\ UNCHANGED evaluations

ValidationNext == RecordEvaluation \/ RunBenchmark
ValidationSpec == ValidationInit /\ [][ValidationNext]_validationVars

-----------------------------------------------------------------------------
(* Properties.                                                             *)

(* The report's parts add up: every prediction is counted or unknown,      *)
(* every counted one is in just one cell of the confusion matrix and in    *)
(* just one calibration bin, at whatever boundary its confidence lies.     *)
PartsAddUp ==
  LET r == AccuracyReport(evaluations) IN
  /\ r.predictions = r.counted + r.unknown
  /\ r.counted = r.correct + r.incorrect
  /\ r.correct = r.truePositive + r.trueNegative
  /\ r.incorrect = r.falsePositive + r.falseNegative
  /\ r.counted = r.bins[1] + r.bins[2] + r.bins[3] + r.bins[4] + r.bins[5]

(* An outcome nobody knows says nothing: recording one leaves every rate   *)
(* and the gate as they are, unless it is the first evaluation.            *)
Measures(records) ==
  LET r == AccuracyReport(records) IN <<r.accuracy, r.precision, r.recall, r.bins>>
UnknownSaysNothing ==
  [][Len(evaluations') > Len(evaluations) /\ evaluations'[Len(evaluations')].result = "unknown" =>
       Measures(evaluations') = Measures(evaluations) /\ Gate13' = Gate13]_validationVars

(* A benchmark never claims more accuracy than score, and full marks are   *)
(* only for all right: words in common are worth something but never a     *)
(* right answer.                                                           *)
ScoreCoversAccuracy ==
  \A b \in benchmarks :
    /\ b.accuracy <= b.score
    /\ b.accuracy = 100 => \A i \in DOMAIN b.answers : i <= Cases => b.answers[i] = "right"

(* An answer can only cost: left out, a case counts as answered as         *)
(* expected, so a run scores no better than the same run cut short.        *)
AnswersOnlyCost ==
  \A b \in benchmarks :
    \A n \in 0..Len(b.answers) : b.score <= RunOf(SubSeq(b.answers, 1, n)).score

(* The measures of accuracy and of benchmarks add up.                      *)
MeasuresAddUp ==
  /\ [](PartsAddUp /\ ScoreCoversAccuracy /\ AnswersOnlyCost)
  /\ UnknownSaysNothing
=============================================================================
