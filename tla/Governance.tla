----------------------------- MODULE Governance -----------------------------
(***************************************************************************)
(* The governance of intelligence claims                                   *)
(* (local-bridge/app/intelligence/governance, quality/gate14.py and the    *)
(* two actions of main.py): a claim is scored and held against the         *)
(* policies when a human approves that, with the metrics of the moment it  *)
(* was submitted; what comes out is stored by four commits; a review       *)
(* proposal is decided by a second request; and the quality gate looks at  *)
(* everything that is stored.                                              *)
(***************************************************************************)
EXTENDS Naturals, Sequences, FiniteSets, FiniteSetsExt

CONSTANTS
  Claims,
  Reviews,      \* requests that decide a review proposal
  Scores,       \* benchmark scores, in percent
  MaxMeasured,  \* bound: evaluations and benchmarks
  MaxFalls      \* bound: crashes

ASSUME GovernanceAssumption ==
  Scores \subseteq 1..100 /\ MaxMeasured \in Nat /\ MaxFalls \in Nat

VARIABLES
  measured,   \* what the validation store holds
  claim,      \* per claim: its request and how far the run of it is
  record,     \* governance_records
  finding,    \* risk_findings
  violation,  \* policy_violations, their severities
  proposal,   \* review_proposals, their status
  review,     \* per review request: what it decides, how far its run is
  memory,     \* governance_memory, oldest first
  falls,
  \* history variable: no guard reads it
  disturbed   \* claims with a run that was cut off, or with two reviews at once

govVars == <<measured, claim, record, finding, violation, proposal, review, memory, falls, disturbed>>

-----------------------------------------------------------------------------
None == "none"
Levels == <<"LOW", "MEDIUM", "HIGH", "CRITICAL">>
Results == <<"PASS", "WARNING", "REVIEW_REQUIRED", "BLOCKED">>
RankIn(seq, x) == CHOOSE i \in DOMAIN seq : seq[i] = x
Decisions == {"approved", "rejected"}

(* What a caller says of a claim.  The bearer of an authorisation is a     *)
(* sensitive context to the policies and not to the risk analysis.         *)
Facts == [unsure: BOOLEAN, outcome: {"", "partial", "incorrect"},
          source: {"calm", "high", "critical"}, context: {"plain", "bearer", "secret"}]
Metrics == [right: 0..MaxMeasured, wrong: 0..MaxMeasured, best: Scores \cup {0}, shunned: BOOLEAN]
Total(m) == m.right + m.wrong

Weight == [low_confidence |-> 15, incorrect_prediction |-> 25, partial_prediction |-> 10,
           high_risk_source |-> 30, declining_accuracy |-> 20, model_unreliable |-> 25,
           regression_observed |-> 20, sensitive_context |-> 10]
Critical == {"high_risk_source", "incorrect_prediction", "model_unreliable"}

Unreliable(m) == m.best \in 1..49
Inaccurate(m) == 2 * m.right < Total(m)

(* analyze.  Any wrong prediction counts as a regression: the rate is made *)
(* a truth value before it is compared with 0.2.                           *)
Factors(f, m) ==
  {x \in DOMAIN Weight :
     \/ x = "low_confidence" /\ f.unsure
     \/ x = "incorrect_prediction" /\ f.outcome = "incorrect"
     \/ x = "partial_prediction" /\ f.outcome = "partial"
     \/ x = "high_risk_source" /\ f.source # "calm"
     \/ x = "declining_accuracy" /\ Inaccurate(m)
     \/ x = "model_unreliable" /\ Unreliable(m)
     \/ x = "regression_observed" /\ m.wrong > 0
     \/ x = "sensitive_context" /\ f.context = "secret"}

RiskScore(f, m) ==
  LET found == Factors(f, m)
      adds(x) == IF x \in found THEN Weight[x] ELSE 0
      raw == 10 + adds("low_confidence") + adds("incorrect_prediction") + adds("partial_prediction")
                + adds("high_risk_source") + adds("declining_accuracy") + adds("model_unreliable")
                + adds("regression_observed") + adds("sensitive_context")
                + IF found \cap Critical = {} THEN 0 ELSE 15 IN
  IF raw > 100 THEN 100 ELSE raw

LevelOf(score) ==
  Levels[IF score >= 80 THEN 4 ELSE IF score >= 55 THEN 3 ELSE IF score >= 30 THEN 2 ELSE 1]

(* The level a caller gives the source, for the preview.                   *)
Stated(f) == CASE f.source = "calm" -> "LOW" [] f.source = "high" -> "HIGH" [] OTHER -> "CRITICAL"

HighRisk(level, score) == level \in {"HIGH", "CRITICAL"} \/ score >= 60

(* The policies that ask for a review, and those that only warn.           *)
AsksReview(f, m, level, score) ==
  \/ f.unsure \/ Inaccurate(m) \/ Unreliable(m)
  \/ 5 * m.wrong > 2 * Total(m) \/ 5 * m.wrong > Total(m)
  \/ HighRisk(level, score)
WarnsOnly(f, m) == m.shunned \/ f.context # "plain"

(* Slip: a high risk is only a warning.                                    *)
EvaluateMild(f, m, level, score) ==
  Results[IF level = "CRITICAL" \/ score >= 80 THEN 4
          ELSE IF f.unsure \/ Inaccurate(m) THEN 3
          ELSE IF WarnsOnly(f, m) \/ HighRisk(level, score) THEN 2 ELSE 1]

(* GovernanceRuleEngine.evaluate.                                          *)
Evaluate(f, m, level, score) ==
  Results[IF level = "CRITICAL" \/ score >= 80 THEN 4
          ELSE IF AsksReview(f, m, level, score) THEN 3
          ELSE IF WarnsOnly(f, m) THEN 2 ELSE 1]

(* The severities of the violations: a high risk is "blocking", the rate   *)
(* of rejections only "info" and left out.                                 *)
Violated(f, m, level, score) ==
  {s \in {"warning", "blocking"} :
     \/ s = "blocking" /\ HighRisk(level, score)
     \/ /\ s = "warning"
        /\ \/ f.unsure \/ Inaccurate(m) \/ Unreliable(m) \/ f.context # "plain"
           \/ 5 * m.wrong > 2 * Total(m) \/ 5 * m.wrong > Total(m)}

(* Slip: the sign of a weight is wrong.                                    *)
ResultHalf(f, m) ==
  LET s == IF f.outcome = "incorrect" THEN 0 ELSE RiskScore(f, m) IN Evaluate(f, m, LevelOf(s), s)

ResultOf(f, m) == LET s == RiskScore(f, m) IN Evaluate(f, m, LevelOf(s), s)

(* What the human sees who approves the evaluation.                        *)
Preview(f, m) == Evaluate(f, m, Stated(f), 0)

NoRun == [at |-> None]
NoRecord == [level |-> None, result |-> None]
GovInit ==
  /\ measured = [right |-> 0, wrong |-> 0, best |-> 0, shunned |-> FALSE]
  /\ claim = [c \in Claims |-> NoRun] /\ record = [c \in Claims |-> NoRecord]
  /\ finding = [c \in Claims |-> None] /\ violation = [c \in Claims |-> {}]
  /\ proposal = [c \in Claims |-> None] /\ review = [r \in Reviews |-> NoRun]
  /\ memory = << >> /\ falls = 0 /\ disturbed = {}

(* QualityGate14Evaluator.evaluate over the project's stored records.      *)
Gate ==
  LET stored == {c \in Claims : record[c] # NoRecord}
      levels == {RankIn(Levels, record[c].level) : c \in stored}
      top == Max(levels \cup {1})
      severities == UNION {violation[c] : c \in Claims}
      m == measured IN
  Results[IF \/ top = 4 \/ "blocking" \in severities
             \/ m.best \in 1..39 \/ 10 * m.right < 3 * Total(m) THEN 4
          ELSE IF \/ top = 3 \/ severities # {} \/ m.best \in 1..59
                  \/ Inaccurate(m) \/ 5 * m.wrong > Total(m) THEN 3
          ELSE IF m.best = 0 \/ Total(m) = 0 THEN 2 ELSE 1]

-----------------------------------------------------------------------------
(* Predictions are evaluated, models benchmarked, recommendations rejected.*)
Measure ==
  /\ Total(measured) + (IF measured.best = 0 THEN 0 ELSE 1) + (IF measured.shunned THEN 1 ELSE 0)
       < MaxMeasured
  /\ \/ measured' = [measured EXCEPT !.right = @ + 1]
     \/ measured' = [measured EXCEPT !.wrong = @ + 1]
     \/ \E s \in Scores : s > measured.best /\ measured' = [measured EXCEPT !.best = s]
     \/ measured' = [measured EXCEPT !.shunned = ~@]
  /\ UNCHANGED <<claim, record, finding, violation, proposal, review, memory, falls, disturbed>>

(* POST /intelligence/governance/evaluate, and its approval.               *)
Submit(c) ==
  /\ claim[c] = NoRun
  /\ \E f \in Facts :
       claim' = [claim EXCEPT ![c] = [at |-> "asked", facts |-> f, metrics |-> measured]]
  /\ UNCHANGED <<measured, record, finding, violation, proposal, review, memory, falls, disturbed>>

ScoreOf(c) == RiskScore(claim[c].facts, claim[c].metrics)
Goes(c, from, to) == claim[c].at = from /\ claim' = [claim EXCEPT ![c].at = to]

SaveRecord(c) ==
  /\ Goes(c, "asked", "recorded")
  /\ record' = [record EXCEPT ![c] = [level |-> LevelOf(ScoreOf(c)),
                                      result |-> ResultOf(claim[c].facts, claim[c].metrics)]]
  /\ UNCHANGED <<measured, finding, violation, proposal, review, memory, falls, disturbed>>

SaveRisk(c) ==
  /\ Goes(c, "recorded", "found")
  /\ finding' = [finding EXCEPT ![c] = LevelOf(ScoreOf(c))]
  /\ UNCHANGED <<measured, record, violation, proposal, review, memory, falls, disturbed>>

(* Slip: only what blocks is kept, and only from CRITICAL on.              *)
SaveViolationsFew(c) ==
  /\ Goes(c, "found", "noted")
  /\ violation' = [violation EXCEPT ![c] = IF finding[c] = "CRITICAL" THEN {"blocking"} ELSE {}]
  /\ UNCHANGED <<measured, record, finding, proposal, review, memory, falls, disturbed>>

SaveViolations(c) ==
  /\ Goes(c, "found", "noted")
  /\ violation' = [violation EXCEPT ![c] =
       Violated(claim[c].facts, claim[c].metrics, LevelOf(ScoreOf(c)), ScoreOf(c))]
  /\ UNCHANGED <<measured, record, finding, proposal, review, memory, falls, disturbed>>

(* Slip: only a blocked claim is proposed for review.                      *)
ProposeBlocked(c) ==
  /\ Goes(c, "noted", "over")
  /\ proposal' = [proposal EXCEPT ![c] = IF record[c].result = "BLOCKED" THEN "proposed" ELSE @]
  /\ UNCHANGED <<measured, record, finding, violation, review, memory, falls, disturbed>>

Propose(c) ==
  /\ Goes(c, "noted", "over")
  /\ proposal' = [proposal EXCEPT ![c] =
       IF record[c].result \in {"REVIEW_REQUIRED", "BLOCKED"} THEN "proposed" ELSE @]
  /\ UNCHANGED <<measured, record, finding, violation, review, memory, falls, disturbed>>

(* The approval of a review request: the proposal must exist, decided or   *)
(* not.                                                                    *)
BeginReview(r) ==
  /\ review[r] = NoRun
  /\ \E c \in Claims, d \in Decisions :
       /\ proposal[c] # None
       /\ review' = [review EXCEPT ![r] = [at |-> "read", of |-> c, decision |-> d]]
       /\ disturbed' = disturbed \cup {x \in {c} : \E other \in Reviews :
            review[other].at \in {"read", "decided"} /\ review[other].of = c}
  /\ UNCHANGED <<measured, claim, record, finding, violation, proposal, memory, falls>>

(* Slip: only an open proposal changes.                                    *)
SaveDecisionOnce(r) ==
  /\ review[r].at = "read" /\ review' = [review EXCEPT ![r].at = "decided"]
  /\ proposal' = [proposal EXCEPT ![review[r].of] =
                    IF @ = "proposed" THEN review[r].decision ELSE @]
  /\ UNCHANGED <<measured, claim, record, finding, violation, memory, falls, disturbed>>

SaveDecision(r) ==
  /\ review[r].at = "read" /\ review' = [review EXCEPT ![r].at = "decided"]
  /\ proposal' = [proposal EXCEPT ![review[r].of] = review[r].decision]
  /\ UNCHANGED <<measured, claim, record, finding, violation, memory, falls, disturbed>>

SaveMemory(r) ==
  /\ review[r].at = "decided" /\ review' = [review EXCEPT ![r].at = "over"]
  /\ memory' = Append(memory, [of |-> review[r].of, decision |-> review[r].decision])
  /\ UNCHANGED <<measured, claim, record, finding, violation, proposal, falls, disturbed>>

(* The process dies: a run that was on its way is not taken up again.      *)
Fall ==
  /\ falls < MaxFalls /\ falls' = falls + 1
  /\ disturbed' = disturbed
       \cup {c \in Claims : claim[c].at \in {"recorded", "found", "noted"}}
       \cup {c \in Claims : \E r \in Reviews : review[r].at = "decided" /\ review[r].of = c}
  /\ claim' = [c \in Claims |-> IF claim[c].at \in {None, "over"} THEN claim[c]
                                ELSE [claim[c] EXCEPT !.at = "cut"]]
  /\ review' = [r \in Reviews |-> IF review[r].at \in {None, "over"} THEN review[r]
                                  ELSE [review[r] EXCEPT !.at = "cut"]]
  /\ UNCHANGED <<measured, record, finding, violation, proposal, memory>>

GovNext ==
  \/ Measure \/ Fall
  \/ \E c \in Claims :
       Submit(c) \/ SaveRecord(c) \/ SaveRisk(c) \/ SaveViolations(c) \/ Propose(c)
  \/ \E r \in Reviews : BeginReview(r) \/ SaveDecision(r) \/ SaveMemory(r)

GovSpec == GovInit /\ [][GovNext]_govVars

-----------------------------------------------------------------------------
(* Properties.                                                             *)

Grave(c) == record[c] # NoRecord /\ record[c].level \in {"HIGH", "CRITICAL"}

(* A claim of high risk always gets a review proposal, and the project's   *)
(* quality gate is blocked by it, whatever was measured before or since:   *)
(* four policies, the score and the gate, each with thresholds of its own, *)
(* agree; only a crash between the commits leaves the one without the      *)
(* other.                                                                  *)
HighRiskIsReviewed ==
  \A c \in Claims : Grave(c) /\ claim[c].at = "over" => proposal[c] # None
HighRiskBlocksGate ==
  \A c \in Claims : Grave(c) /\ claim[c].at \in {"noted", "over"} => Gate = "BLOCKED"

(* What the human was shown when the evaluation was approved is not        *)
(* harsher than what is stored: a preview that asks for a review is        *)
(* followed by one, though the two score the source differently.           *)
PreviewForesees ==
  \A c \in Claims :
    record[c] # NoRecord /\ Preview(claim[c].facts, claim[c].metrics) \in {"REVIEW_REQUIRED", "BLOCKED"} =>
      record[c].result \in {"REVIEW_REQUIRED", "BLOCKED"}

(* A worse claim never fares better: with one fact or one metric worse,    *)
(* the policies give the same result or a graver one.                      *)
Worse(f) ==
  {[f EXCEPT !.unsure = TRUE], [f EXCEPT !.outcome = "incorrect"], [f EXCEPT !.source = "high"],
   [f EXCEPT !.context = "secret"]}
WorseIsNotMilder ==
  \A c \in {x \in Claims : record[x] # NoRecord} :
    LET f == claim[c].facts m == claim[c].metrics
        rank == RankIn(Results, record[c].result) IN
      /\ \A g \in Worse(f) : RankIn(Results, ResultOf(g, m)) >= rank
      /\ RankIn(Results, ResultOf(f, [m EXCEPT !.wrong = @ + 1])) >= rank
      /\ m.best # 0 => \A s \in Scores :
           s < m.best => RankIn(Results, ResultOf(f, [m EXCEPT !.best = s])) >= rank

(* The memory and the proposal tell the same story: a proposal reads as    *)
(* its last remembered review decided, also when it was decided twice;     *)
(* only reviews that overlap, or a crash within one, undo that.            *)
ReviewIsRemembered ==
  \A c \in Claims \ disturbed :
    LET about == {i \in DOMAIN memory : memory[i].of = c}
        open == \E r \in Reviews : review[r].at = "decided" /\ review[r].of = c IN
    ~open => IF about = {} THEN proposal[c] \in {None, "proposed"}
             ELSE proposal[c] = memory[Max(about)].decision

(* The parts that judge a claim agree, and a claim of high risk comes      *)
(* before a human whose decision is remembered.                            *)
ClaimsAreJudged ==
  /\ HighRiskIsReviewed /\ HighRiskBlocksGate /\ PreviewForesees
  /\ WorseIsNotMilder /\ ReviewIsRemembered
=============================================================================
