------------------------------ MODULE Strategy ------------------------------
(***************************************************************************)
(* The engineering strategies of an organization                           *)
(* (local-bridge/app/organization_strategy): strategies are registered,    *)
(* evaluated in batches, selected by a decision, and the decision walks    *)
(* through its states.  Every write is a request a human approved; each    *)
(* request reads whole rows, works on its copies and commits them one by   *)
(* one, with a manager and connections of its own, so requests overlap.    *)
(* An object's id is the second it was made in, and a save replaces what   *)
(* had that id.                                                            *)
(***************************************************************************)
EXTENDS Naturals, Sequences

CONSTANTS
  Slots,      \* handler threads
  MaxSecond,  \* bound: the clock
  MaxServed,  \* bound: requests
  MaxStops    \* bound: crashes

ASSUME StrategyAssumption == MaxSecond \in Nat \ {0} /\ MaxServed \in Nat /\ MaxStops \in Nat

VARIABLES
  second,      \* the clock the ids are made of
  strategy,    \* org_strategies: id -> status
  evaluation,  \* org_strategy_evaluations: id -> the strategy evaluated
  simulation,  \* org_strategy_simulations: id -> the strategy simulated
  decision,    \* org_strategy_decisions
  orgNode,     \* the strategy layer's nodes in the organization graph
  orgEdge,     \* and its edges
  handler,     \* per thread: the request it is at
  served, stops,
  \* history variables: no guard reads them
  reused,      \* ids that two objects of a kind were given
  crossed      \* strategies and decisions two requests held copies of at once

strategyVars == <<second, strategy, evaluation, simulation, decision, orgNode, orgEdge, handler,
                  served, stops, reused, crossed>>
rows == <<strategy, evaluation, simulation, decision, orgNode, orgEdge>>

-----------------------------------------------------------------------------
Ids == 1..MaxSecond
Absent == "absent"
StrategyWalk == <<"PROPOSED", "EVALUATED", "SELECTED">>
StageOf(status) == CHOOSE i \in 0..3 : (i = 0 /\ status = Absent) \/ (i > 0 /\ StrategyWalk[i] = status)

DecisionMoves ==
  [PROPOSED |-> {"ANALYZING"},
   ANALYZING |-> {"REVIEW_REQUIRED", "REJECTED", "CANCELLED"},
   REVIEW_REQUIRED |-> {"APPROVAL_REQUIRED", "REJECTED", "CANCELLED"},
   APPROVAL_REQUIRED |-> {"APPROVED", "REJECTED", "CANCELLED"},
   APPROVED |-> {"IMPLEMENTATION_PLANNED", "SUPERSEDED", "CANCELLED"},
   IMPLEMENTATION_PLANNED |-> {"VERIFIED", "SUPERSEDED"},
   VERIFIED |-> {"SUPERSEDED"},
   REJECTED |-> {}, CANCELLED |-> {}, SUPERSEDED |-> {}]

Idle == [at |-> "idle"]
NoDecision == [of |-> 0, past |-> << >>]
StatusOf(d) == d.past[Len(d.past)]

StrategyInit ==
  /\ second = 1 /\ served = 0 /\ stops = 0 /\ reused = {} /\ crossed = {}
  /\ strategy = [i \in Ids |-> Absent]
  /\ evaluation = [i \in Ids |-> 0] /\ simulation = [i \in Ids |-> 0]
  /\ decision = [i \in Ids |-> NoDecision]
  /\ orgNode = {} /\ orgEdge = {}
  /\ handler = [t \in Slots |-> Idle]

-----------------------------------------------------------------------------
Tick ==
  /\ second < MaxSecond /\ second' = second + 1
  /\ UNCHANGED <<rows, handler, served, stops, reused, crossed>>

Begins(t, work) ==
  /\ handler[t] = Idle /\ served < MaxServed /\ served' = served + 1
  /\ handler' = [handler EXCEPT ![t] = work]
  /\ UNCHANGED <<second, rows, stops>>
Proceeds(t, work) ==
  handler' = [handler EXCEPT ![t] = work] /\ UNCHANGED <<second, served, stops, crossed>>

(* What a request has read and may still write back.                       *)
Holds(t) == IF "copies" \in DOMAIN handler[t] THEN handler[t].copies ELSE {}
Meets(copies) ==
  crossed' = crossed \cup {c \in copies : \E t \in Slots : c \in Holds(t)}
Copy(kind, i) == <<kind, i>>
Again(kind, i, taken) == reused' = reused \cup (IF taken THEN {Copy(kind, i)} ELSE {})

(* create_strategy: the row, and then the node.                            *)
Register(t) ==
  /\ handler[t] = Idle /\ served < MaxServed /\ served' = served + 1
  /\ handler' = [handler EXCEPT ![t] = [at |-> "node", node |-> Copy("strategy", second), edges |-> {}]]
  /\ strategy' = [strategy EXCEPT ![second] = "PROPOSED"]
  /\ Again("strategy", second, strategy[second] # Absent)
  /\ UNCHANGED <<second, evaluation, simulation, decision, orgNode, orgEdge, stops, crossed>>

(* evaluate_strategies: the strategies are read, the evaluations computed; *)
(* all of a batch in one second.                                           *)
EvaluateBatch(t, batch) ==
  LET copies == {Copy("strategy", batch[k]) : k \in DOMAIN batch} IN
  /\ \A k \in DOMAIN batch : strategy[batch[k]] # Absent
  /\ Begins(t, [at |-> "score", batch |-> batch, k |-> 1, id |-> second,
                read |-> strategy, copies |-> copies])
  /\ Meets(copies)
  /\ UNCHANGED reused
BeginEvaluate(t) == \E i, j \in Ids : EvaluateBatch(t, <<i>>) \/ EvaluateBatch(t, <<i, j>>)

SaveEvaluation(t) ==
  LET h == handler[t] IN
  /\ h.at = "score"
  /\ evaluation' = [evaluation EXCEPT ![h.id] = h.batch[h.k]]
  /\ Again("evaluation", h.id, evaluation[h.id] # 0)
  /\ Proceeds(t, IF h.k < Len(h.batch) THEN [h EXCEPT !.k = @ + 1] ELSE [h EXCEPT !.at = "step", !.k = 1])
  /\ UNCHANGED <<strategy, simulation, decision, orgNode, orgEdge>>

(* Slip: whatever the copy's status is, it is evaluated.                   *)
EvaluateNextAgain(t) ==
  LET h == handler[t] i == h.batch[h.k] IN
  /\ h.at = "step"
  /\ strategy' = [strategy EXCEPT ![i] = "EVALUATED"]
  /\ Proceeds(t, [h EXCEPT !.at = "simulate"])
  /\ UNCHANGED <<evaluation, simulation, decision, orgNode, orgEdge, reused>>

(* The next strategy of the batch moves on and is saved.  One that was     *)
(* evaluated before ends the request, with what the batch has done so far. *)
EvaluateNext(t) ==
  LET h == handler[t] i == h.batch[h.k] IN
  /\ h.at = "step"
  /\ \/ /\ h.read[i] = "PROPOSED"
        /\ strategy' = [strategy EXCEPT ![i] = "EVALUATED"]
        /\ Proceeds(t, [h EXCEPT !.at = "simulate"])
     \/ /\ h.read[i] # "PROPOSED"
        /\ Proceeds(t, Idle) /\ UNCHANGED strategy
  /\ UNCHANGED <<evaluation, simulation, decision, orgNode, orgEdge, reused>>

(* Slip: the simulation is only answered with, not stored.                 *)
SaveSimulationUnsaved(t) ==
  LET h == handler[t] IN
  /\ h.at = "simulate"
  /\ Proceeds(t, [h EXCEPT !.at = "link", !.id = second])
  /\ UNCHANGED <<strategy, evaluation, simulation, decision, orgNode, orgEdge, reused>>

SaveSimulation(t) ==
  LET h == handler[t] i == h.batch[h.k] IN
  /\ h.at = "simulate"
  /\ simulation' = [simulation EXCEPT ![second] = i]
  /\ Again("simulation", second, simulation[second] # 0)
  /\ Proceeds(t, [h EXCEPT !.at = "link", !.id = second])
  /\ UNCHANGED <<strategy, evaluation, decision, orgNode, orgEdge>>

LinkSimulation(t) ==
  LET h == handler[t] node == Copy("simulation", h.id) IN
  /\ h.at = "link"
  /\ orgNode' = orgNode \cup {node}
  /\ orgEdge' = orgEdge \cup {<<Copy("strategy", h.batch[h.k]), "EVALUATED_BY", node>>}
  /\ Proceeds(t, IF h.k < Len(h.batch) THEN [h EXCEPT !.at = "step", !.k = @ + 1] ELSE Idle)
  /\ UNCHANGED <<strategy, evaluation, simulation, decision, reused>>

(* create_decision: the decision is saved before the strategy it selects.  *)
BeginDecide(t) ==
  \E i \in Ids :
    /\ strategy[i] # Absent
    /\ Begins(t, [at |-> "decide", of |-> i, read |-> strategy[i], copies |-> {Copy("strategy", i)}])
    /\ Meets({Copy("strategy", i)})
    /\ UNCHANGED reused

(* Slip: the strategy is selected first.                                   *)
SaveChoiceLate(t) ==
  LET h == handler[t] node == Copy("decision", second) IN
  /\ h.at = "decide"
  /\ \/ /\ h.read # "SELECTED"
        /\ strategy' = [strategy EXCEPT ![h.of] = "SELECTED"]
        /\ Proceeds(t, [h EXCEPT !.read = "SELECTED"]) /\ UNCHANGED decision
     \/ /\ h.read = "SELECTED"
        /\ decision' = [decision EXCEPT ![second] = [of |-> h.of, past |-> <<"PROPOSED">>]]
        /\ Proceeds(t, [at |-> "select", of |-> h.of, read |-> h.read, copies |-> h.copies, node |-> node])
        /\ UNCHANGED strategy
  /\ UNCHANGED <<evaluation, simulation, orgNode, orgEdge, reused>>

SaveChoice(t) ==
  LET h == handler[t] node == Copy("decision", second) IN
  /\ h.at = "decide"
  /\ decision' = [decision EXCEPT ![second] = [of |-> h.of, past |-> <<"PROPOSED">>]]
  /\ Again("decision", second, decision[second] # NoDecision)
  /\ Proceeds(t, [at |-> "select", of |-> h.of, read |-> h.read, copies |-> h.copies, node |-> node])
  /\ UNCHANGED <<strategy, evaluation, simulation, orgNode, orgEdge>>

(* The strategy passes EVALUATED, with a save, on its way to SELECTED; one *)
(* that is selected stays as it is.                                        *)
Select(t) ==
  LET h == handler[t] IN
  /\ h.at = "select"
  /\ \/ /\ StageOf(h.read) < 3
        /\ LET next == StrategyWalk[StageOf(h.read) + 1] IN
             /\ strategy' = [strategy EXCEPT ![h.of] = next]
             /\ Proceeds(t, [h EXCEPT !.read = next])
     \/ /\ h.read = "SELECTED" /\ UNCHANGED strategy
        /\ Proceeds(t, [at |-> "node", node |-> h.node, edges |-> {<<h.node, "IMPLEMENTED_BY", Copy("strategy", h.of)>>}])
  /\ UNCHANGED <<evaluation, simulation, decision, orgNode, orgEdge, reused>>

(* _sync_strategy_graph, _sync_decision_graph.                             *)
SaveNode(t) ==
  LET h == handler[t] IN
  /\ h.at = "node"
  /\ orgNode' = orgNode \cup {h.node} /\ orgEdge' = orgEdge \cup h.edges
  /\ Proceeds(t, Idle)
  /\ UNCHANGED <<strategy, evaluation, simulation, decision, reused>>

(* transition_decision.                                                    *)
BeginMove(t) ==
  \E i \in Ids, target \in DOMAIN DecisionMoves :
    /\ decision[i] # NoDecision /\ target \in DecisionMoves[StatusOf(decision[i])]
    /\ Begins(t, [at |-> "move", id |-> i, read |-> decision[i], target |-> target,
                  copies |-> {Copy("decision", i)}])
    /\ Meets({Copy("decision", i)})
    /\ UNCHANGED reused

(* Slip: the move is added to the row as it is now, not to the copy that   *)
(* was checked.                                                            *)
SaveMoveBlind(t) ==
  LET h == handler[t] IN
  /\ h.at = "move"
  /\ decision' = [decision EXCEPT ![h.id].past = Append(@, h.target)]
  /\ Proceeds(t, [at |-> "supersede", id |-> h.id, of |-> h.read.of, target |-> h.target])
  /\ UNCHANGED <<strategy, evaluation, simulation, orgNode, orgEdge, reused>>

SaveMove(t) ==
  LET h == handler[t] IN
  /\ h.at = "move"
  /\ decision' = [decision EXCEPT ![h.id] = [h.read EXCEPT !.past = Append(@, h.target)]]
  /\ Proceeds(t, [at |-> "supersede", id |-> h.id, of |-> h.read.of, target |-> h.target])
  /\ UNCHANGED <<strategy, evaluation, simulation, orgNode, orgEdge, reused>>

LinkSuperseded(t) ==
  LET h == handler[t] IN
  /\ h.at = "supersede"
  /\ orgEdge' = orgEdge \cup (IF h.target # "SUPERSEDED" \/ strategy[h.of] = Absent THEN {}
                              ELSE {<<Copy("decision", h.id), "SUPERSEDES", Copy("strategy", h.of)>>})
  /\ Proceeds(t, Idle)
  /\ UNCHANGED <<strategy, evaluation, simulation, decision, orgNode, reused>>

(* The process dies; the requests are not taken up again.                  *)
StopBridge ==
  /\ stops < MaxStops /\ stops' = stops + 1
  /\ \E t \in Slots : handler[t] # Idle
  /\ handler' = [t \in Slots |-> Idle]
  /\ UNCHANGED <<second, rows, served, reused, crossed>>

StrategyNext ==
  \/ Tick \/ StopBridge
  \/ \E t \in Slots :
       \/ Register(t) \/ SaveNode(t)
       \/ BeginEvaluate(t) \/ SaveEvaluation(t) \/ EvaluateNext(t) \/ SaveSimulation(t) \/ LinkSimulation(t)
       \/ BeginDecide(t) \/ SaveChoice(t) \/ Select(t)
       \/ BeginMove(t) \/ SaveMove(t) \/ LinkSuperseded(t)

StrategySpec == StrategyInit /\ [][StrategyNext]_strategyVars

-----------------------------------------------------------------------------
(* Properties.                                                             *)

(* No strategy is selected without a decision for it, at any point of a    *)
(* request and through a crash; only an id that was given to two decisions *)
(* can leave one.                                                          *)
SelectedWasDecided ==
  \A i \in Ids :
    strategy[i] = "SELECTED" =>
      \/ \E d \in Ids : decision[d].of = i
      \/ \E c \in reused : c[1] = "decision"

(* Every stored decision tells a walk its state machine allows, from       *)
(* PROPOSED to where it is, also when two requests moved it at once: the   *)
(* loser's move is lost as a whole.                                        *)
HistoryIsAWalk ==
  \A i \in Ids :
    LET past == decision[i].past IN
      decision[i] # NoDecision =>
        /\ past[1] = "PROPOSED"
        /\ \A k \in 1..(Len(past) - 1) : past[k + 1] \in DecisionMoves[past[k]]

(* The graph never shows a strategy, a simulation or a decision that its   *)
(* own tables do not have, though the two databases are committed apart.   *)
NodesHaveRows ==
  \A n \in orgNode \cup UNION {{e[1], e[3]} : e \in orgEdge} :
    CASE n[1] = "strategy" -> strategy[n[2]] # Absent
      [] n[1] = "simulation" -> simulation[n[2]] # 0
      [] n[1] = "decision" -> decision[n[2]] # NoDecision

(* A strategy's status only moves forward, and a decision only grows: a    *)
(* row that was closed stays closed.  What undoes that is an id used       *)
(* twice, or two requests with copies of the row.                          *)
RowsOnlyAdvance ==
  [][\A i \in Ids :
       /\ Copy("strategy", i) \notin reused' \cup crossed => StageOf(strategy'[i]) >= StageOf(strategy[i])
       /\ Copy("decision", i) \notin reused' \cup crossed =>
            SubSeq(decision'[i].past, 1, Len(decision[i].past)) = decision[i].past]_strategyVars

(* The two databases of the strategy layer tell how it came to what is     *)
(* selected.                                                               *)
StrategyIsAccountedFor ==
  /\ [](SelectedWasDecided /\ HistoryIsAWalk /\ NodesHaveRows)
  /\ RowsOnlyAdvance
=============================================================================
