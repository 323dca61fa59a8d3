--------------------------- MODULE RequestProofs ----------------------------
(***************************************************************************)
(* Theorems about requests that wait for a decision and are told of when   *)
(* they are over: the actions of the gateway (Gateway), the records of the *)
(* engineering teams (Records), and the documents that sessions, agents,   *)
(* teams, runtimes and tasks are kept in (Coordination).                   *)
(***************************************************************************)
EXTENDS Gateway, Records, Coordination, TLAPS

-----------------------------------------------------------------------------
(* For any number of rows and crashes, and whatever is asked for, the      *)
(* audit log and the approval queue of Gateway tell the same.              *)

RowStatus == {"absent", "pending", "approved", "executed", "failed", "rejected"}
Results == {"pending_approval", "success", "failed", "rejected"}
Points == {"idle", "run", "follow", "followed", "executed", "failed", "rejected"}

GatewayTypes ==
  /\ status \in [Rows -> RowStatus]
  /\ asked = [r \in Rows |-> asked[r]]
  /\ noted \in [Rows -> SUBSET Results]
  /\ owing \subseteq Rows /\ severed \subseteq Rows
  /\ decider \in [Rows -> Points]
  /\ origin \in [Rows -> Rows]
  /\ approvals \in [Rows -> Nat]

(* A row that was not inserted has no trace.                               *)
FreshRow(r) ==
  /\ asked[r] = "none" <=> status[r] = "absent"
  /\ status[r] = "absent" =>
       noted[r] = {} /\ r \notin owing /\ r \notin severed /\ decider[r] = "idle" /\ origin[r] = r

(* Where the deciding thread is, the row's status is what it made of it.   *)
DecidedRow(r) ==
  /\ decider[r] \in {"run", "follow", "followed"} => status[r] = "approved"
  /\ decider[r] = "executed" => status[r] \in {"approved", "executed"}
  /\ decider[r] = "failed" => status[r] \in {"approved", "failed"}
  /\ decider[r] = "rejected" => status[r] = "rejected"
  /\ decider[r] = "follow" => asked[r] \in DOMAIN Follows
  /\ status[r] \in {"absent", "pending", "rejected"} => approvals[r] = 0
  /\ status[r] \in {"approved", "executed", "failed"} => approvals[r] = 1

(* The lines with the row's request id, and those that are still to come.  *)
LoggedRow(r) ==
  /\ "success" \in noted[r] => status[r] = "executed"
  /\ "failed" \in noted[r] => status[r] = "failed"
  /\ "rejected" \in noted[r] => status[r] = "rejected"
  /\ (status[r] # "absent" /\ r \notin owing /\ r \notin severed) => "pending_approval" \in noted[r]
  /\ (decider[r] = "idle" /\ r \notin severed) =>
       /\ status[r] = "executed" => "success" \in noted[r]
       /\ status[r] = "failed" => "failed" \in noted[r]
       /\ status[r] = "rejected" => "rejected" \in noted[r]
       /\ status[r] = "approved" => asked[r] \in Careless

(* A follow-up's origin has come past its effect and cannot fail any more. *)
FollowingRow(r) ==
  origin[r] # r =>
    /\ status[origin[r]] \in {"approved", "executed"}
    /\ asked[origin[r]] \in DOMAIN Follows
    /\ asked[r] = Follows[asked[origin[r]]]
    /\ decider[origin[r]] \notin {"run", "follow", "failed"}

GatewayInv ==
  /\ GatewayTypes
  /\ \A r \in Rows : FreshRow(r) /\ DecidedRow(r) /\ LoggedRow(r) /\ FollowingRow(r)

-----------------------------------------------------------------------------
(* The row's own fields are all that its invariant is about.               *)
rowVars == <<asked, status, noted, owing, decider, origin, severed, approvals>>

(* "none" is no action: a row that is inserted is a row that was asked for.*)
LEMMA NoneHasNoLevel == ~HasLevel("none")
BY DEF HasLevel, ReadLevel, WriteLevel, DestructiveLevel

(* At the start no row is there.                                           *)
LEMMA InvInit == GatewayInit => GatewayInv
BY DEF GatewayInit, GatewayInv, GatewayTypes, FreshRow, DecidedRow, LoggedRow, FollowingRow,
       RowStatus, Results, Points

(* What leaves the rows alone keeps the invariant.                         *)
LEMMA InvStutter == ASSUME GatewayInv, UNCHANGED rowVars PROVE GatewayInv'
<1>1. GatewayTypes'
  BY DEF rowVars, GatewayInv, GatewayTypes
<1>2. ASSUME NEW q \in Rows
      PROVE  (FreshRow(q) /\ DecidedRow(q) /\ LoggedRow(q) /\ FollowingRow(q))'
  BY DEF rowVars, GatewayInv, FreshRow, DecidedRow, LoggedRow, FollowingRow
<1> QED BY <1>1, <1>2 DEF GatewayInv

(* A new row, asked for from outside or by a running action.               *)
LEMMA InvInserts ==
  ASSUME GatewayInv, NEW r \in Rows, NEW a, NEW by \in Rows, Inserts(r, a, by),
         UNCHANGED <<noted, severed, approvals>>,
         \/ by = r /\ UNCHANGED decider
         \/ /\ decider[by] = "follow" /\ a = Follows[asked[by]]
            /\ decider' = [decider EXCEPT ![by] = "followed"]
  PROVE  GatewayInv'
<1>1. a # "none"
  BY NoneHasNoLevel DEF Inserts
<1>2. status[r] = "absent" /\ asked[r] = "none"
  BY DEF Inserts, GatewayInv, FreshRow
<1>3. GatewayTypes'
  BY <1>1 DEF Inserts, GatewayInv, GatewayTypes, RowStatus, Points
<1>4. ASSUME NEW q \in Rows
      PROVE  (FreshRow(q) /\ DecidedRow(q) /\ LoggedRow(q) /\ FollowingRow(q))'
  <2>1. FreshRow(q)'
    BY <1>1, <1>2 DEF Inserts, GatewayInv, GatewayTypes, FreshRow, DecidedRow
  <2>2. DecidedRow(q)'
    BY <1>1, <1>2 DEF Inserts, GatewayInv, GatewayTypes, FreshRow, DecidedRow
  <2>3. LoggedRow(q)'
    BY <1>1, <1>2 DEF Inserts, GatewayInv, GatewayTypes, FreshRow, DecidedRow, LoggedRow
  <2>4. FollowingRow(q)'
    <3> USE DEF Inserts, GatewayInv, GatewayTypes
    <3>1. CASE q # r
      <4> DEFINE o == origin[q]
      <4>1. o \in Rows /\ origin'[q] = o /\ asked'[q] = asked[q]
        BY <3>1
      <4>2. SUFFICES ASSUME o # q PROVE FollowingRow(q)'
        BY <4>1 DEF FollowingRow
      <4>3. /\ status[o] \in {"approved", "executed"} /\ asked[o] \in DOMAIN Follows
            /\ asked[q] = Follows[asked[o]] /\ decider[o] \notin {"run", "follow", "failed"}
        BY <4>2 DEF FollowingRow
      <4>4. o # r
        BY <4>3, <1>2
      <4>5. status'[o] = status[o] /\ asked'[o] = asked[o]
        BY <4>1, <4>4
      <4>6. decider'[o] \notin {"run", "follow", "failed"}
        BY <4>1, <4>3
      <4> QED BY <4>1, <4>3, <4>5, <4>6 DEF FollowingRow
    <3>2. CASE q = r /\ by # r
      <4>1. decider[by] = "follow" /\ a = Follows[asked[by]] /\ decider'[by] = "followed"
        BY <3>2
      <4>2. status[by] = "approved" /\ asked[by] \in DOMAIN Follows
        BY <4>1 DEF DecidedRow
      <4>3. status'[by] = "approved" /\ asked'[by] = asked[by] /\ asked'[q] = a /\ origin'[q] = by
        BY <3>2, <4>2
      <4> QED BY <4>1, <4>2, <4>3 DEF FollowingRow
    <3>3. CASE q = r /\ by = r
      BY <3>3 DEF FollowingRow
    <3> QED BY <3>1, <3>2, <3>3
  <2> QED BY <2>1, <2>2, <2>3, <2>4
<1> QED BY <1>3, <1>4 DEF GatewayInv

(* Has the action of this row come past its effect, for good?              *)
Past(r) ==
  /\ status[r] \in {"approved", "executed"}
  /\ decider[r] \notin {"run", "follow", "failed"}

(* A step of one row's threads keeps the invariant if it keeps that row's, *)
(* and does not take it back behind its effect.                            *)
LEMMA InvRowStep ==
  ASSUME GatewayInv, NEW r \in Rows, UNCHANGED <<asked, origin, severed>>,
         \A q \in Rows \ {r} :
           /\ status'[q] = status[q] /\ noted'[q] = noted[q] /\ (q \in owing' <=> q \in owing)
           /\ decider'[q] = decider[q] /\ approvals'[q] = approvals[q],
         GatewayTypes', FreshRow(r)', DecidedRow(r)', LoggedRow(r)', Past(r) => Past(r)'
  PROVE  GatewayInv'
<1> USE DEF GatewayInv
<1>1. ASSUME NEW q \in Rows \ {r} PROVE (FreshRow(q) /\ DecidedRow(q) /\ LoggedRow(q))'
  BY <1>1 DEF FreshRow, DecidedRow, LoggedRow
<1>2. ASSUME NEW q \in Rows PROVE FollowingRow(q)'
  <2> DEFINE o == origin[q]
  <2>1. o \in Rows
    BY DEF GatewayTypes
  <2>2. SUFFICES ASSUME o # q PROVE FollowingRow(q)'
    BY DEF FollowingRow
  <2>3. /\ Past(o) /\ asked[o] \in DOMAIN Follows /\ asked[q] = Follows[asked[o]]
    BY <2>2 DEF FollowingRow, Past
  <2>4. Past(o)'
    BY <2>1, <2>3 DEF Past
  <2> QED BY <2>3, <2>4 DEF FollowingRow, Past
<1> QED BY <1>1, <1>2

-----------------------------------------------------------------------------
(* One lemma per action that touches a row.                                *)

(* The line that says a request is pending.                                *)
LEMMA InvNotePending == ASSUME GatewayInv, NEW r \in Rows, NotePending(r) PROVE GatewayInv'
<1> USE DEF GatewayInv, NotePending, Notes, history
<1>1. GatewayTypes'
  BY DEF GatewayTypes, Results
<1>2. FreshRow(r)' /\ DecidedRow(r)' /\ LoggedRow(r)' /\ (Past(r) => Past(r)')
  BY DEF GatewayTypes, FreshRow, DecidedRow, LoggedRow, Past
<1> QED BY <1>1, <1>2, InvRowStep DEF GatewayTypes

(* A rejection.                                                            *)
LEMMA InvRejectRow == ASSUME GatewayInv, NEW r \in Rows, RejectRow(r) PROVE GatewayInv'
<1> USE DEF GatewayInv, RejectRow, AwaitsDecision, Marks, DeciderTo, history
<1>1. GatewayTypes'
  BY DEF GatewayTypes, RowStatus, Points
<1>2. FreshRow(r)' /\ DecidedRow(r)' /\ LoggedRow(r)' /\ (Past(r) => Past(r)')
  BY DEF GatewayTypes, FreshRow, DecidedRow, LoggedRow, Past
<1> QED BY <1>1, <1>2, InvRowStep DEF GatewayTypes

(* An approval.                                                            *)
LEMMA InvApproveRow == ASSUME GatewayInv, NEW r \in Rows, ApproveRow(r) PROVE GatewayInv'
<1> USE DEF GatewayInv, ApproveRow, AwaitsDecision, Marks, DeciderTo
<1>1. GatewayTypes'
  BY DEF GatewayTypes, RowStatus, Points
<1>2. FreshRow(r)' /\ DecidedRow(r)' /\ LoggedRow(r)' /\ (Past(r) => Past(r)')
  BY DEF GatewayTypes, FreshRow, DecidedRow, LoggedRow, Past
<1> QED BY <1>1, <1>2, InvRowStep DEF GatewayTypes

(* Wherever the branch leads, the row is approved; the thread that nobody  *)
(* catches leaves only a careless action's row behind.                     *)
LEMMA InvRun == ASSUME GatewayInv, NEW r \in Rows, Run(r) PROVE GatewayInv'
<1> USE DEF GatewayInv
<1>1. PICK to \in {"follow", "executed", "failed", "idle"} :
        /\ decider[r] = "run" /\ decider' = [decider EXCEPT ![r] = to]
        /\ to = "follow" => asked[r] \in DOMAIN Follows
        /\ to = "idle" => asked[r] \in Careless
  BY DEF Run, DeciderTo
<1>2. UNCHANGED <<asked, status, noted, owing, origin, severed, approvals>>
  BY DEF Run
<1>3. GatewayTypes'
  BY <1>1, <1>2 DEF GatewayTypes, Points
<1>4. FreshRow(r)' /\ DecidedRow(r)' /\ LoggedRow(r)' /\ (Past(r) => Past(r)')
  BY <1>1, <1>2 DEF GatewayTypes, FreshRow, DecidedRow, LoggedRow, Past
<1> QED BY <1>1, <1>2, <1>3, <1>4, InvRowStep DEF GatewayTypes

(* The request that an outcome asks for is there or is not.                *)
LEMMA InvFollowUpOver ==
  ASSUME GatewayInv, NEW r \in Rows, FollowUpLeftToLoop(r) \/ FollowUpQueued(r)
  PROVE  GatewayInv'
<1> USE DEF GatewayInv, FollowUpLeftToLoop, FollowUpQueued, DeciderTo, history
<1>1. GatewayTypes'
  BY DEF GatewayTypes, Points
<1>2. FreshRow(r)' /\ DecidedRow(r)' /\ LoggedRow(r)' /\ (Past(r) => Past(r)')
  BY DEF GatewayTypes, FreshRow, DecidedRow, LoggedRow, Past
<1> QED BY <1>1, <1>2, InvRowStep DEF GatewayTypes

(* The outcome is written to the row,                                      *)
LEMMA InvMarkOutcome == ASSUME GatewayInv, NEW r \in Rows, MarkOutcome(r) PROVE GatewayInv'
<1> USE DEF GatewayInv, MarkOutcome, Marks, history
<1>1. GatewayTypes'
  BY DEF GatewayTypes, RowStatus
<1>2. FreshRow(r)' /\ DecidedRow(r)' /\ LoggedRow(r)' /\ (Past(r) => Past(r)')
  BY DEF GatewayTypes, FreshRow, DecidedRow, LoggedRow, Past
<1> QED BY <1>1, <1>2, InvRowStep DEF GatewayTypes

(* and to the log.                                                         *)
LEMMA InvNoteOutcome == ASSUME GatewayInv, NEW r \in Rows, NoteOutcome(r) PROVE GatewayInv'
<1> USE DEF GatewayInv, NoteOutcome, Notes, DeciderTo, history
<1>1. GatewayTypes'
  BY DEF GatewayTypes, Results, Points
<1>2. FreshRow(r)' /\ DecidedRow(r)' /\ LoggedRow(r)' /\ (Past(r) => Past(r)')
  BY DEF GatewayTypes, FreshRow, DecidedRow, LoggedRow, Past
<1> QED BY <1>1, <1>2, InvRowStep DEF GatewayTypes

(* A crash: who was in hand is severed, and nothing is claimed of him.     *)
LEMMA InvCut == ASSUME GatewayInv, Cut PROVE GatewayInv'
<1> USE DEF GatewayInv, Cut, InHand
<1>1. GatewayTypes'
  BY DEF GatewayTypes, Points
<1>2. ASSUME NEW q \in Rows PROVE (FreshRow(q) /\ DecidedRow(q) /\ LoggedRow(q))'
  BY DEF GatewayTypes, FreshRow, DecidedRow, LoggedRow
<1>3. ASSUME NEW q \in Rows PROVE FollowingRow(q)'
  BY DEF GatewayTypes, FollowingRow
<1> QED BY <1>1, <1>2, <1>3

-----------------------------------------------------------------------------
(* Every step keeps the invariant.                                         *)
LEMMA InvNext == GatewayInv /\ [GatewayNext]_gatewayVars => GatewayInv'
<1> SUFFICES ASSUME GatewayInv, [GatewayNext]_gatewayVars PROVE GatewayInv'
  OBVIOUS
<1>1. CASE UNCHANGED gatewayVars
  BY <1>1, InvStutter DEF gatewayVars, rowVars
<1>2. ASSUME NEW a, Read(a) \/ Refuse(a) PROVE GatewayInv'
  BY <1>2, InvStutter DEF Read, Refuse, NoRow, rowVars
<1>3. ASSUME NEW a, NEW r \in Rows, Queue(r, a) PROVE GatewayInv'
  BY <1>3, InvInserts DEF Queue, history
<1>4. ASSUME NEW r \in Rows, NEW f \in Rows, FollowUp(r, f) PROVE GatewayInv'
  BY <1>4, InvInserts DEF FollowUp, DeciderTo, history
<1>5. ASSUME NEW r \in Rows,
             \/ NotePending(r) \/ RejectRow(r) \/ ApproveRow(r) \/ Run(r)
             \/ FollowUpLeftToLoop(r) \/ FollowUpQueued(r) \/ MarkOutcome(r) \/ NoteOutcome(r)
      PROVE  GatewayInv'
  BY <1>5, InvNotePending, InvRejectRow, InvApproveRow, InvRun, InvFollowUpOver,
     InvMarkOutcome, InvNoteOutcome
<1>6. CASE Cut
  BY <1>6, InvCut
<1> QED BY <1>1, <1>2, <1>3, <1>4, <1>5, <1>6 DEF GatewayNext

(* The invariant says what the property does.                              *)
LEMMA InvIsTruthful == GatewayInv => QueueIsTruthful
<1> SUFFICES ASSUME GatewayInv PROVE QueueIsTruthful
  OBVIOUS
<1> USE DEF GatewayInv
<1>1. DOMAIN Outcomes = {"executed", "failed", "rejected"}
      /\ Outcomes["executed"] = "success" /\ Outcomes["failed"] = "failed"
      /\ Outcomes["rejected"] = "rejected"
  BY DEF Outcomes
<1>2. LogFollowsQueue
  BY <1>1 DEF LogFollowsQueue, InHand, GatewayTypes, FreshRow, LoggedRow
<1>3. EachRunWasApproved
  BY DEF EachRunWasApproved, DecidedRow, FollowingRow
<1> QED BY <1>2, <1>3 DEF QueueIsTruthful

(* However many requests there are, whatever they ask for and wherever the *)
(* process dies: the audit log says of a request what the queue says, what *)
(* ran was approved, and what it recorded is approved apart.               *)
THEOREM LogTellsTheTruth == GatewaySpec => []QueueIsTruthful
<1>1. GatewaySpec => []GatewayInv
  BY InvInit, InvNext, PTL DEF GatewaySpec
<1> QED BY <1>1, InvIsTruthful, PTL

-----------------------------------------------------------------------------
(* For every set of actions that is tried: the tables of Routes agree.     *)

(* The tables of one stretch of routes: what is queued has a branch, and   *)
(* what is answered at once needs no approval.                             *)
Agrees(section) ==
  \A way \in DOMAIN section :
    /\ way \in {"queued", "vetted", "guarded", "previewed"} => section[way] \subseteq Executable
    /\ way \in {"logged", "told",
     "unlogged"} => section[way] \cap (WriteLevel \cup DestructiveLevel) = {}

(* Every branch is of an action that changes something, and has a level.   *)
LEMMA BranchesHaveLevels == Executable \subseteq WriteLevel
BY DEF Executable, IntelligenceBranches, AssistantBranches, WorkspaceBranches, ExecutionBranches,
       RecordBranches, PlanningBranches, WriteLevel

(* The sections' tables, one after the other.                              *)
LEMMA TablesAgree == \A section \in Sections : Agrees(section)
<1> USE DEF Agrees, Executable, WriteLevel, DestructiveLevel, IntelligenceBranches,
     AssistantBranches,
            WorkspaceBranches, ExecutionBranches, RecordBranches, PlanningBranches
<1>1. Agrees(SystemRoutes)
  BY DEF SystemRoutes
<1>2. Agrees(ContextRoutes)
  BY DEF ContextRoutes
<1>3. Agrees(RuntimeRoutes)
  BY DEF RuntimeRoutes
<1>4. Agrees(TeamRoutes)
  BY DEF TeamRoutes
<1>5. Agrees(InsightRoutes)
  BY DEF InsightRoutes
<1>6. Agrees(SimulationRoutes)
  BY DEF SimulationRoutes
<1>7. Agrees(TrialRoutes)
  BY DEF TrialRoutes
<1>8. Agrees(TimelineRoutes)
  BY DEF TimelineRoutes
<1>9. Agrees(LoopRoutes)
  BY DEF LoopRoutes
<1>10. Agrees(ExecutionRoutes)
  BY DEF ExecutionRoutes
<1>11. Agrees(ResultRoutes)
  BY DEF ResultRoutes
<1>12. Agrees(FileRoutes)
  BY DEF FileRoutes
<1>13. Agrees(MemoryRoutes)
  BY DEF MemoryRoutes
<1>14. Agrees(DecisionRoutes)
  BY DEF DecisionRoutes
<1>15. Agrees(ToolRoutes)
  BY DEF ToolRoutes
<1>16. Agrees(SessionRoutes)
  BY DEF SessionRoutes
<1>17. Agrees(AgentRoutes)
  BY DEF AgentRoutes
<1>18. Agrees(WorkflowRoutes)
  BY DEF WorkflowRoutes
<1>19. Agrees(StageRoutes)
  BY DEF StageRoutes
<1>20. Agrees(GovernanceRoutes)
  BY DEF GovernanceRoutes
<1>21. Agrees(GovernanceTimelineRoutes)
  BY DEF GovernanceTimelineRoutes
<1>22. Agrees(JudgementRoutes)
  BY DEF JudgementRoutes
<1>23. Agrees(JudgedRoutes)
  BY DEF JudgedRoutes
<1>24. Agrees(ObservationRoutes)
  BY DEF ObservationRoutes
<1>25. Agrees(EvidenceRoutes)
  BY DEF EvidenceRoutes
<1>26. Agrees(TrendRoutes)
  BY DEF TrendRoutes
<1>27. Agrees(EvaluationRoutes)
  BY DEF EvaluationRoutes
<1>28. Agrees(ImprovementRoutes)
  BY DEF ImprovementRoutes
<1>29. Agrees(OrganizationRoutes)
  BY DEF OrganizationRoutes
<1>30. Agrees(LearningRoutes)
  BY DEF LearningRoutes
<1>31. Agrees(StrategyReads)
  BY DEF StrategyReads
<1>32. Agrees(StrategyRoutes)
  BY DEF StrategyRoutes
<1>33. Agrees(OrgGraphRoutes)
  BY DEF OrgGraphRoutes
<1>34. Agrees(DevContextRoutes)
  BY DEF DevContextRoutes
<1>35. Agrees(DevBundleRoutes)
  BY DEF DevBundleRoutes
<1>36. Agrees(SuggestRoutes)
  BY DEF SuggestRoutes
<1>37. Agrees(PatchProposalRoutes)
  BY DEF PatchProposalRoutes
<1>38. Agrees(ConversationReads)
  BY DEF ConversationReads
<1>39. Agrees(ConversationRoutes)
  BY DEF ConversationRoutes
<1>40. Agrees(ToolProposalRoutes)
  BY DEF ToolProposalRoutes
<1>41. Agrees(AssistantReads)
  BY DEF AssistantReads
<1>42. Agrees(AssistantRoutes)
  BY DEF AssistantRoutes
<1>43. Agrees(PreferenceRoutes)
  BY DEF PreferenceRoutes
<1> HIDE DEF Agrees
<1> QED
  BY <1>1, <1>2, <1>3, <1>4, <1>5, <1>6, <1>7, <1>8, <1>9, <1>10, <1>11, <1>12, <1>13, <1>14,
     <1>15, <1>16, <1>17, <1>18, <1>19, <1>20, <1>21, <1>22, <1>23, <1>24, <1>25, <1>26, <1>27,
     <1>28, <1>29, <1>30, <1>31, <1>32, <1>33, <1>34, <1>35, <1>36, <1>37, <1>38, <1>39, <1>40,
     <1>41, <1>42, <1>43
     DEF Sections

(* So it is for the routes as a whole.                                     *)
LEMMA RoutesAgree ==
  /\ Posted \subseteq Executable
  /\ Reads \cap (WriteLevel \cup DestructiveLevel) = {}
  /\ \A a \in Executable : HasLevel(a)
<1>1. ASSUME NEW way \in {"queued", "vetted", "guarded", "previewed"} PROVE Served(way) \subseteq Executable
  BY <1>1, TablesAgree DEF Served, Agrees
<1>2. ASSUME NEW way \in {"logged", "told", "unlogged"}
      PROVE  Served(way) \cap (WriteLevel \cup DestructiveLevel) = {}
  BY <1>2, TablesAgree DEF Served, Agrees
<1>3. Posted \subseteq Executable
  BY <1>1 DEF Posted, Vetted, Previewed
<1>4. Reads \cap (WriteLevel \cup DestructiveLevel) = {}
  BY <1>2 DEF Reads, Telling, Unlogged
<1> QED
  BY <1>3, <1>4, BranchesHaveLevels DEF HasLevel

(* What follows an action has a branch too, what changes files is captured.*)
LEMMA BranchesAgree ==
  /\ \A a \in DOMAIN Follows : Follows[a] \in Executable
  /\ WritesFiles \cap Uncaptured = {}
<1>1. \A a \in DOMAIN Follows : Follows[a] \in Executable
  BY DEF Follows, Executable, ExecutionBranches
<1>2. WritesFiles \cap Uncaptured = {}
  BY DEF WritesFiles, Uncaptured, IntelligenceBranches, AssistantBranches
<1> QED
  BY <1>1, <1>2

(* The inductive invariant: whatever waits in the queue has a branch.      *)
ServedInv ==
  /\ menu \subseteq Reads \cup Posted
  /\ \A r \in Rows : asked[r] # "none" => asked[r] \in Executable
  /\ ActionsAreServed

(* Whatever can be asked for has a level and a branch of _execute_action,  *)
(* what changes files can be rolled back, and no line without a request id *)
(* claims the success of what needs one: the tables of 43 stretches of     *)
(* routes, of the levels and of the branches agree, whatever is tried.     *)
THEOREM EverythingIsServed == GatewaySpec => []ActionsAreServed
<1>1. GatewayInit => ServedInv
  BY GatewayAssumption DEF GatewayInit, ServedInv, ActionsAreServed
<1>2. GatewayInv /\ ServedInv /\ [GatewayNext]_gatewayVars => ServedInv'
  <2> SUFFICES ASSUME GatewayInv, ServedInv, [GatewayNext]_gatewayVars PROVE ServedInv'
    OBVIOUS
  <2>a. asked = [r \in Rows |-> asked[r]] /\ "none" \notin Executable
    BY NoneHasNoLevel, RoutesAgree DEF GatewayInv, GatewayTypes
  <2>b. ASSUME UNCHANGED <<menu, asked, unserved, altered, book>>, captured \subseteq captured' PROVE ServedInv'
    BY <2>b DEF ServedInv, ActionsAreServed
  <2>c. ASSUME NEW r \in Rows, NEW a \in Executable, NEW by, Inserts(r, a, by),
               UNCHANGED <<menu, unserved, altered, captured, book>>
        PROVE  ServedInv'
    BY <2>a, <2>c DEF ServedInv, ActionsAreServed, Inserts
  <2>1. ASSUME NEW a \in menu, Read(a) PROVE ServedInv'
    <3>1. UNCHANGED <<menu, asked, unserved, altered, captured>> /\ a \notin WriteLevel \cup DestructiveLevel
      BY <2>1, RoutesAgree DEF Read, NoRow
    <3>2. \A line \in book' : line \in book \/ line[1] = a
      BY <2>1 DEF Read
    <3> QED
      BY <3>1, <3>2 DEF ServedInv, ActionsAreServed
  <2>2. ASSUME NEW a \in menu, Refuse(a) PROVE ServedInv'
    <3>1. UNCHANGED <<menu, asked, unserved, altered, captured>>
      BY <2>2, RoutesAgree DEF Refuse, NoRow
    <3>2. \A line \in book' : line \in book \/ line[2] = "rejected"
      BY <2>2 DEF Refuse
    <3> QED
      BY <3>1, <3>2 DEF ServedInv, ActionsAreServed
  <2>3. ASSUME NEW a \in menu, NEW r \in Rows, Queue(r, a) PROVE ServedInv'
    BY <2>3, <2>c, RoutesAgree DEF Queue, history
  <2>4. ASSUME NEW r \in Rows, NEW f \in Rows, FollowUp(r, f) PROVE ServedInv'
    <3>1. asked[r] \in DOMAIN Follows
      BY <2>4 DEF FollowUp, GatewayInv, DecidedRow
    <3> QED
      BY <2>4, <2>c, <3>1, BranchesAgree DEF FollowUp, history
  <2>5. ASSUME NEW r \in Rows, Run(r) PROVE ServedInv'
    <3>1. asked[r] # "none"
      BY <2>5 DEF Run, GatewayInv, DecidedRow, FreshRow
    <3>2. asked[r] \in Executable
      BY <3>1 DEF ServedInv
    <3>3. UNCHANGED <<menu, asked, book, unserved>> /\ altered' \subseteq captured'
      BY <2>5, <3>2, BranchesAgree DEF Run, ServedInv, ActionsAreServed
    <3> QED
      BY <3>3 DEF ServedInv, ActionsAreServed
  <2>6. ASSUME NEW r \in Rows, \/ NotePending(r) \/ RejectRow(r) \/ ApproveRow(r)
                               \/ FollowUpLeftToLoop(r) \/ FollowUpQueued(r) \/ MarkOutcome(r) \/ NoteOutcome(r)
        PROVE  ServedInv'
    BY <2>6, <2>b DEF NotePending, RejectRow, ApproveRow, FollowUpLeftToLoop, FollowUpQueued,
       MarkOutcome,
                      NoteOutcome, history
  <2>7. CASE Cut \/ UNCHANGED gatewayVars
    BY <2>7, <2>b DEF Cut, gatewayVars
  <2> QED
    BY <2>1, <2>2, <2>3, <2>4, <2>5, <2>6, <2>7 DEF GatewayNext
<1>3. ServedInv => ActionsAreServed
  BY DEF ServedInv
<1> QED
  BY <1>1, <1>2, <1>3, InvInit, InvNext, PTL DEF GatewaySpec

-----------------------------------------------------------------------------
(* For any number of requests and crashes, and each family of records: a   *)
(* record steps as its state machine allows unless a check was out of date *)
(* when its move was saved, and the requests tell what became of them.     *)

Stages == (DOMAIN DebtMoves) \cup (DOMAIN TrialMoves)
Shown == {<< >>} \cup (Stages \X Stages)
RequestType ==
  [row : {"absent", "pending", "approved", "executed", "failed"},
   at : {"none", "asked", "create", "cases", "check", "save", "mark", "over", "lost"},
   shown : Shown, seen : Stages \cup {"missing"}, since : Nat]

RecordTypes ==
  /\ family \in {"debt", "benchmark", "validation"}
  /\ stands \in Stages \cup {"missing"}
  /\ cases \in BOOLEAN
  /\ request \in [Requested -> RequestType]
  /\ saves \in Seq(Requested) /\ outrun \subseteq Requested

Unsaved(q) == \A i \in DOMAIN saves : saves[i] # q

(* What a request that comes to its end has done.                          *)
Done(q) ==
  IF Creates(q) THEN stands # "missing" /\ cases
  ELSE \E i \in DOMAIN saves :
         /\ saves[i] = q /\ \A j \in DOMAIN saves : saves[j] = q => j = i
         /\ request[q].seen = request[q].shown[1] \/ i > request[q].since + 1

(* Each point of a request belongs to its kind and its row.                *)
PointFits(q) ==
  /\ request[q].row = "absent" <=> request[q].at = "none"
  /\ request[q].row = "pending" <=> request[q].at = "asked"
  /\ request[q].at \in {"create", "cases", "check", "save", "mark"} => request[q].row = "approved"
  /\ request[q].at \in {"create", "cases"} => Creates(q)
  /\ request[q].at \in {"check", "save"} => ~Creates(q)
  /\ request[q].at = "cases" => stands # "missing"
  /\ request[q].row = "executed" => request[q].at = "over"
  /\ (request[q].row = "approved" /\ request[q].at = "over") => family # "debt"

(* Before the record is there, nobody has asked but who creates it.        *)
FirstIsCreated(q) ==
  /\ request[q].at = "create" => stands = "missing"
  /\ (request[q].at \in {"none", "asked"} /\ q = 1) => stands = "missing"
  /\ ~Creates(q) => stands # "missing"
  /\ (Creates(q) /\ request[q].at # "none") => q = 1

(* A move is saved once, and what it started from is what was shown or     *)
(* what another move made of it since.                                     *)
MoveIsSound(q) ==
  /\ request[q].since <= Len(saves)
  /\ request[q].at \in {"none", "asked", "create", "cases", "check", "save"} =>
       Unsaved(q) /\ q \notin outrun
  /\ (request[q].at = "over" /\ request[q].row # "executed") => Unsaved(q)
  /\ (~Creates(q) /\ request[q].at \in {"asked", "check"} /\ request[q].since = Len(saves)) =>
       stands = request[q].shown[1]
  /\ request[q].at = "save" =>
       /\ request[q].shown[2] \in LegalMoves[request[q].seen]
       /\ request[q].seen = request[q].shown[1] \/ request[q].since < Len(saves)
  /\ (request[q].at = "mark" \/ request[q].row = "executed") => Done(q)

RecordsInv ==
  /\ RecordTypes
  /\ \A q \in Requested : PointFits(q) /\ FirstIsCreated(q) /\ MoveIsSound(q)

-----------------------------------------------------------------------------
(* The two state machines.                                                 *)

(* Where a move leads is a stage, and no stage is "missing".               *)
LEMMA StagesOfMoves ==
  ASSUME family \in {"debt", "benchmark", "validation"}
  PROVE  /\ DOMAIN LegalMoves \subseteq Stages /\ FirstStatus \in Stages
         /\ "missing" \notin Stages
BY DEF LegalMoves, DebtMoves, TrialMoves, Stages, FirstStatus

(* One more save: the earlier entries stay, the new one is the last.       *)
LEMMA OneMoreSave ==
  ASSUME saves \in Seq(Requested), NEW q \in Requested, saves' = Append(saves, q)
  PROVE  /\ saves' \in Seq(Requested) /\ Len(saves') = Len(saves) + 1
         /\ DOMAIN saves' = DOMAIN saves \cup {Len(saves) + 1}
         /\ DOMAIN saves = 1..Len(saves) /\ Len(saves) \in Nat
         /\ \A i \in DOMAIN saves : saves'[i] = saves[i]
         /\ saves'[Len(saves) + 1] = q
OBVIOUS

(* At first nothing is requested and nothing recorded.                     *)
LEMMA RecordsInvInit == RecordsInit => RecordsInv
<1> SUFFICES ASSUME RecordsInit PROVE RecordsInv
  OBVIOUS
<1> USE DEF RecordsInit, Unasked
<1>1. RecordTypes
  <2>1. [row |-> "absent", at |-> "none", shown |-> << >>, seen |-> "missing", since |-> 0] \in RequestType
    BY DEF RequestType, Shown
  <2>2. saves \in Seq(Requested) /\ outrun \subseteq Requested
    OBVIOUS
  <2>3. request \in [Requested -> RequestType]
    BY <2>1
  <2> QED BY <2>2, <2>3 DEF RecordTypes
<1>2. saves = << >> /\ Len(saves) = 0 /\ DOMAIN saves = {}
  OBVIOUS
<1>3. ASSUME NEW q \in Requested PROVE PointFits(q) /\ FirstIsCreated(q) /\ MoveIsSound(q)
  BY <1>2 DEF PointFits, FirstIsCreated, MoveIsSound, Creates, Unsaved
<1> QED BY <1>1, <1>3 DEF RecordsInv

-----------------------------------------------------------------------------
(* A step that changes neither the record nor what was saved is judged by  *)
(* the one request it moves.                                               *)
LEMMA OneRequestSteps ==
  ASSUME RecordsInv, NEW q \in Requested, NEW new \in RequestType,
         request' = [request EXCEPT ![q] = new],
         UNCHANGED <<family, stands, saves, outrun>>, cases' \in BOOLEAN, cases => cases',
         (PointFits(q) /\ FirstIsCreated(q) /\ MoveIsSound(q))'
  PROVE  RecordsInv'
<1> USE DEF RecordsInv
<1>1. RecordTypes'
  BY DEF RecordTypes
<1>2. ASSUME NEW p \in Requested, p # q
      PROVE  (PointFits(p) /\ FirstIsCreated(p) /\ MoveIsSound(p))'
  <2>1. request'[p] = request[p]
    BY <1>2 DEF RecordTypes
  <2>2. LegalMoves' = LegalMoves
    BY DEF LegalMoves
  <2> QED BY <1>2, <2>1, <2>2 DEF PointFits, FirstIsCreated, MoveIsSound, Creates, Unsaved, Done
<1> QED BY <1>1, <1>2

(* What UNCHANGED leaves as it was.                                        *)
LEMMA RecordsInvStutter == ASSUME RecordsInv, UNCHANGED recordVars PROVE RecordsInv'
<1> USE DEF recordVars
<1>1. RecordTypes'
  BY DEF RecordsInv, RecordTypes
<1>2. LegalMoves' = LegalMoves
  BY DEF LegalMoves
<1> QED BY <1>1, <1>2 DEF RecordsInv, PointFits, FirstIsCreated, MoveIsSound, Creates, Unsaved, Done

(* What With leaves of a request, and what it makes of it.                 *)
LEMMA WithFields ==
  ASSUME RecordTypes, NEW q \in Requested,
         NEW row \in {"absent", "pending", "approved", "executed", "failed"},
         NEW at \in {"none", "asked", "create", "cases", "check", "save", "mark", "over", "lost"},
         request' = With(q, row, at)
  PROVE  \E new \in RequestType :
           /\ request' = [request EXCEPT ![q] = new] /\ request'[q] = new
           /\ new.row = row /\ new.at = at /\ new.shown = request[q].shown
           /\ new.seen = request[q].seen /\ new.since = request[q].since
<1> DEFINE new == [request[q] EXCEPT !.row = row, !.at = at]
<1>1. request[q] \in RequestType
  BY DEF RecordTypes
<1>2. new \in RequestType
  BY <1>1 DEF RequestType
<1>3. request' = [request EXCEPT ![q] = new]
  BY DEF With
<1>4. request'[q] = new
  BY <1>3 DEF RecordTypes
<1>5. /\ new.row = row /\ new.at = at /\ new.shown = request[q].shown
      /\ new.seen = request[q].seen /\ new.since = request[q].since
  BY <1>1 DEF RequestType
<1> HIDE DEF new
<1> QED BY <1>2, <1>3, <1>4, <1>5

-----------------------------------------------------------------------------
(* One lemma per action.                                                   *)

(* A request for a new record.                                             *)
LEMMA InvAskToCreate == ASSUME RecordsInv, NEW q \in Requested, AskToCreate(q) PROVE RecordsInv'
<1> USE DEF AskToCreate
<1>1. RecordTypes /\ PointFits(q) /\ FirstIsCreated(q) /\ MoveIsSound(q)
  BY DEF RecordsInv
<1>2. PICK new \in RequestType :
        /\ request' = [request EXCEPT ![q] = new] /\ request'[q] = new
        /\ new.row = "pending" /\ new.at = "asked" /\ new.shown = request[q].shown
        /\ new.seen = request[q].seen /\ new.since = request[q].since
  BY <1>1, WithFields
<1>3. q = 1 /\ request[q].shown = << >> /\ request[q].at = "none" /\ request[q].row = "absent"
  BY DEF Unasked
<1>4. PointFits(q)' /\ FirstIsCreated(q)'
  BY <1>1, <1>2, <1>3 DEF PointFits, FirstIsCreated, Creates
<1>5. MoveIsSound(q)'
  BY <1>1, <1>2, <1>3 DEF MoveIsSound, Creates, Unsaved
<1> QED BY <1>1, <1>2, <1>4, <1>5, OneRequestSteps DEF RecordTypes

(* A request to move one.                                                  *)
LEMMA InvAskToMove == ASSUME RecordsInv, NEW q \in Requested, AskToMove(q) PROVE RecordsInv'
<1> USE DEF AskToMove
<1>1. RecordTypes /\ PointFits(q) /\ FirstIsCreated(q) /\ MoveIsSound(q)
  BY DEF RecordsInv
<1>2. PICK target \in DOMAIN LegalMoves :
        request' = [request EXCEPT ![q] = [row |-> "pending", at |-> "asked",
                      shown |-> <<stands, target>>, seen |-> "missing", since |-> Len(saves)]]
  OBVIOUS
<1> DEFINE new == [row |-> "pending", at |-> "asked", shown |-> <<stands, target>>,
                   seen |-> "missing", since |-> Len(saves)]
<1>3. target \in Stages /\ stands \in Stages /\ Len(saves) \in Nat
  BY <1>1, StagesOfMoves DEF RecordTypes
<1>4. new \in RequestType
  BY <1>3 DEF RequestType, Shown
<1>5. request'[q] = new
  BY <1>1, <1>2 DEF RecordTypes
<1>6. request[q].at = "none" /\ q # 1
  BY <1>1 DEF Unasked, FirstIsCreated
<1>7. new.shown # << >> /\ new.shown[1] = stands
  BY <1>3
<1>8. PointFits(q)' /\ FirstIsCreated(q)'
  BY <1>1, <1>5, <1>6, <1>7 DEF PointFits, FirstIsCreated, Creates
<1>9. MoveIsSound(q)'
  BY <1>1, <1>3, <1>5, <1>6, <1>7 DEF MoveIsSound, Creates, Unsaved
<1> QED BY <1>1, <1>2, <1>4, <1>8, <1>9, OneRequestSteps DEF RecordTypes

(* The approval of a request.                                              *)
LEMMA InvApproveRecord ==
  ASSUME RecordsInv, NEW q \in Requested, ApproveRecord(q) PROVE RecordsInv'
<1> USE DEF ApproveRecord
<1>1. RecordTypes /\ PointFits(q) /\ FirstIsCreated(q) /\ MoveIsSound(q)
  BY DEF RecordsInv
<1>2. PICK new \in RequestType :
        /\ request' = [request EXCEPT ![q] = new] /\ request'[q] = new
        /\ new.row = "approved" /\ new.at = IF Creates(q) THEN "create" ELSE "check"
        /\ new.shown = request[q].shown
        /\ new.seen = request[q].seen /\ new.since = request[q].since
  <2>1. CASE Creates(q)
    BY <1>1, <2>1, WithFields
  <2>2. CASE ~Creates(q)
    BY <1>1, <2>2, WithFields
  <2> QED BY <2>1, <2>2
<1>3. request[q].row = "pending" /\ request[q].at = "asked"
  BY <1>1 DEF PointFits
<1>4. PointFits(q)' /\ FirstIsCreated(q)'
  BY <1>1, <1>2, <1>3 DEF PointFits, FirstIsCreated, Creates
<1>5. MoveIsSound(q)'
  BY <1>1, <1>2, <1>3 DEF MoveIsSound, Creates, Unsaved
<1> QED BY <1>1, <1>2, <1>4, <1>5, OneRequestSteps DEF RecordTypes

(* The record appears: all who asked before it did is who creates it.      *)
LEMMA RecordAppears ==
  ASSUME RecordsInv, NEW q \in Requested, request[q].at = "create",
         NEW at \in {"cases", "mark"}, at = "mark" => cases',
         cases' \in BOOLEAN, cases => cases',
         request' = With(q, "approved", at), stands' = FirstStatus, UNCHANGED <<family, saves, outrun>>
  PROVE  RecordsInv'
<1>1. RecordTypes /\ PointFits(q) /\ FirstIsCreated(q) /\ MoveIsSound(q)
  BY DEF RecordsInv
<1>2. PICK new \in RequestType :
        /\ request' = [request EXCEPT ![q] = new] /\ request'[q] = new
        /\ new.row = "approved" /\ new.at = at /\ new.shown = request[q].shown
        /\ new.seen = request[q].seen /\ new.since = request[q].since
  BY <1>1, WithFields
<1>3. stands = "missing" /\ stands' \in Stages /\ stands' # "missing" /\ Creates(q) /\ q = 1
  BY <1>1, StagesOfMoves DEF RecordTypes, FirstIsCreated, PointFits
<1>4. RecordTypes'
  BY <1>1, <1>2, <1>3 DEF RecordTypes
<1>5. PointFits(q)' /\ FirstIsCreated(q)'
  BY <1>1, <1>2, <1>3 DEF PointFits, FirstIsCreated, Creates
<1>6. MoveIsSound(q)'
  BY <1>1, <1>2, <1>3 DEF MoveIsSound, Creates, Unsaved, PointFits, Done
<1>7. ASSUME NEW p \in Requested, p # q
      PROVE  (PointFits(p) /\ FirstIsCreated(p) /\ MoveIsSound(p))'
  <2>1. PointFits(p) /\ FirstIsCreated(p) /\ MoveIsSound(p) /\ request'[p] = request[p]
    BY <1>1, <1>2, <1>7 DEF RecordsInv, RecordTypes
  <2>2. Creates(p) /\ request[p].at = "none"
    BY <1>3, <1>7, <2>1 DEF FirstIsCreated
  <2>3. request[p].row = "absent"
    BY <2>1, <2>2 DEF PointFits
  <2> QED BY <1>3, <1>7, <2>1, <2>2, <2>3 DEF PointFits, FirstIsCreated, MoveIsSound, Creates, Unsaved
<1> QED BY <1>4, <1>5, <1>6, <1>7 DEF RecordsInv

(* A request comes to its end without having done anything.                *)
LEMMA EndsUndone ==
  ASSUME RecordsInv, NEW q \in Requested, request[q].at \in {"create", "cases", "check"},
         NEW row \in {"approved", "failed"}, row = "approved" => family # "debt",
         request' = With(q, row, "over"), UNCHANGED <<family, stands, cases, saves, outrun>>
  PROVE  RecordsInv'
<1>1. RecordTypes /\ PointFits(q) /\ FirstIsCreated(q) /\ MoveIsSound(q)
  BY DEF RecordsInv
<1>2. PICK new \in RequestType :
        /\ request' = [request EXCEPT ![q] = new] /\ request'[q] = new
        /\ new.row = row /\ new.at = "over" /\ new.shown = request[q].shown
        /\ new.seen = request[q].seen /\ new.since = request[q].since
  BY <1>1, WithFields
<1>3. PointFits(q)' /\ FirstIsCreated(q)'
  BY <1>1, <1>2 DEF PointFits, FirstIsCreated, Creates
<1>4. MoveIsSound(q)'
  BY <1>1, <1>2 DEF MoveIsSound, Creates, Unsaved
<1> QED BY <1>1, <1>2, <1>3, <1>4, OneRequestSteps DEF RecordTypes

(* A debt item is created,                                                 *)
LEMMA InvCreateDebt == ASSUME RecordsInv, NEW q \in Requested, CreateDebt(q) PROVE RecordsInv'
BY RecordAppears, EndsUndone DEF CreateDebt

(* a benchmark or a validation,                                            *)
LEMMA InvCreateTrial == ASSUME RecordsInv, NEW q \in Requested, CreateTrial(q) PROVE RecordsInv'
BY RecordAppears DEF CreateTrial, RecordsInv, RecordTypes

(* and the cases of a benchmark.                                           *)
LEMMA InvSaveCases == ASSUME RecordsInv, NEW q \in Requested, SaveCases(q) PROVE RecordsInv'
<1> USE DEF SaveCases
<1>1. RecordTypes /\ PointFits(q) /\ FirstIsCreated(q) /\ MoveIsSound(q)
  BY DEF RecordsInv
<1>2. CASE family = "validation" /\ UNCHANGED cases /\ request' = With(q, "approved", "over")
  BY <1>2, EndsUndone
<1>3. CASE cases' = TRUE /\ request' = With(q, "approved", "mark")
  <2>1. PICK new \in RequestType :
          /\ request' = [request EXCEPT ![q] = new] /\ request'[q] = new
          /\ new.row = "approved" /\ new.at = "mark" /\ new.shown = request[q].shown
          /\ new.seen = request[q].seen /\ new.since = request[q].since
    BY <1>1, <1>3, WithFields
  <2>2. PointFits(q)' /\ FirstIsCreated(q)'
    BY <1>1, <2>1 DEF PointFits, FirstIsCreated, Creates
  <2>3. MoveIsSound(q)'
    BY <1>1, <1>3, <2>1 DEF MoveIsSound, Creates, Unsaved, PointFits, Done
  <2> QED BY <1>1, <1>3, <2>1, <2>2, <2>3, OneRequestSteps DEF RecordTypes
<1> QED BY <1>2, <1>3

(* The move is checked against the status that stands,                     *)
LEMMA InvCheckMove == ASSUME RecordsInv, NEW q \in Requested, CheckMove(q) PROVE RecordsInv'
<1> USE DEF CheckMove, Checks
<1> DEFINE new == [request[q] EXCEPT !.at = "save", !.seen = stands]
<1>1. RecordTypes /\ PointFits(q) /\ FirstIsCreated(q) /\ MoveIsSound(q)
  BY DEF RecordsInv
<1>2. request[q] \in RequestType /\ stands \in Stages \cup {"missing"}
  BY <1>1 DEF RecordTypes
<1>3. new \in RequestType
  BY <1>2 DEF RequestType
<1>4. request' = [request EXCEPT ![q] = new]
  OBVIOUS
<1>5. /\ request'[q].at = "save" /\ request'[q].seen = stands /\ request'[q].row = request[q].row
      /\ request'[q].shown = request[q].shown /\ request'[q].since = request[q].since
  BY <1>1, <1>2, <1>4 DEF RecordTypes, RequestType
<1>6. request[q].shown[2] \in LegalMoves'[stands]
  BY DEF LegalMoves
<1>7. request[q].since < Len(saves) \/ stands = request[q].shown[1]
  BY <1>1, <1>2 DEF MoveIsSound, Creates, RequestType, RecordTypes
<1>8. PointFits(q)' /\ FirstIsCreated(q)'
  BY <1>1, <1>5 DEF PointFits, FirstIsCreated, Creates
<1>9. MoveIsSound(q)'
  BY <1>1, <1>5, <1>6, <1>7 DEF MoveIsSound, Creates, Unsaved, PointFits
<1> HIDE DEF new
<1> QED BY <1>1, <1>3, <1>4, <1>8, <1>9, OneRequestSteps DEF RecordTypes

(* refused,                                                                *)
LEMMA InvRefuseMove == ASSUME RecordsInv, NEW q \in Requested, RefuseMove(q) PROVE RecordsInv'
<1>1. CASE family = "debt"
  BY <1>1, EndsUndone DEF RefuseMove
<1>2. CASE family # "debt"
  BY <1>2, EndsUndone DEF RefuseMove
<1> QED BY <1>1, <1>2

(* The save: the others' checks may be out of date now, and what they were *)
(* shown may no longer be; what they saved stays as it was.                *)
LEMMA InvSaveStatus == ASSUME RecordsInv, NEW q \in Requested, SaveStatus(q) PROVE RecordsInv'
<1> USE DEF SaveStatus
<1>1. RecordTypes /\ PointFits(q) /\ FirstIsCreated(q) /\ MoveIsSound(q)
  BY DEF RecordsInv
<1>2. PICK new \in RequestType :
        /\ request' = [request EXCEPT ![q] = new] /\ request'[q] = new
        /\ new.row = "approved" /\ new.at = "mark" /\ new.shown = request[q].shown
        /\ new.seen = request[q].seen /\ new.since = request[q].since
  BY <1>1, WithFields
<1>3. /\ saves' \in Seq(Requested) /\ Len(saves') = Len(saves) + 1
      /\ DOMAIN saves' = DOMAIN saves \cup {Len(saves) + 1}
      /\ DOMAIN saves = 1..Len(saves) /\ Len(saves) \in Nat
      /\ \A i \in DOMAIN saves : saves'[i] = saves[i]
      /\ saves'[Len(saves) + 1] = q
  BY <1>1, OneMoreSave DEF RecordTypes
<1>4. ~Creates(q) /\ request[q] \in RequestType /\ Unsaved(q)
  BY <1>1 DEF PointFits, MoveIsSound, RecordTypes
<1>5. request[q].shown[2] \in Stages /\ "missing" \notin Stages
  BY <1>1, <1>4, StagesOfMoves DEF RequestType, Shown, Creates, RecordTypes
<1>6. stands' = request[q].shown[2] /\ stands' # "missing"
  BY <1>5
<1>7. RecordTypes'
  BY <1>1, <1>2, <1>3, <1>5 DEF RecordTypes
<1>8. PointFits(q)' /\ FirstIsCreated(q)'
  BY <1>1, <1>2, <1>4, <1>6 DEF PointFits, FirstIsCreated, Creates
<1>9. Done(q)'
  <2>1. saves'[Len(saves) + 1] = q /\ \A j \in DOMAIN saves' : saves'[j] = q => j = Len(saves) + 1
    BY <1>3, <1>4 DEF Unsaved
  <2>2. request[q].seen = request[q].shown[1] \/ Len(saves) + 1 > request[q].since + 1
    BY <1>1, <1>3, <1>4 DEF MoveIsSound, RequestType
  <2> QED BY <1>2, <1>3, <1>4, <2>1, <2>2 DEF Done, Creates
<1>10. MoveIsSound(q)'
  BY <1>1, <1>2, <1>3, <1>4, <1>9 DEF MoveIsSound, Creates, RequestType
<1>11. ASSUME NEW p \in Requested, p # q
       PROVE  (PointFits(p) /\ FirstIsCreated(p) /\ MoveIsSound(p))'
  <2>1. PointFits(p) /\ FirstIsCreated(p) /\ MoveIsSound(p) /\ request'[p] = request[p]
    BY <1>1, <1>2, <1>11 DEF RecordsInv, RecordTypes
  <2>2. request[p] \in RequestType
    BY <1>1 DEF RecordTypes
  <2>3. stands # "missing" /\ LegalMoves' = LegalMoves
    BY <1>1, <1>4 DEF FirstIsCreated, LegalMoves
  <2>4. PointFits(p)' /\ FirstIsCreated(p)'
    BY <1>6, <2>1, <2>3 DEF PointFits, FirstIsCreated, Creates
  <2>5. Unsaved(p) => Unsaved(p)'
    BY <1>3, <1>11 DEF Unsaved
  <2>6. Done(p) => Done(p)'
    <3>1. CASE Creates(p)
      BY <1>6, <2>1, <3>1 DEF Done, Creates
    <3>2. CASE ~Creates(p)
      <4> SUFFICES ASSUME Done(p) PROVE Done(p)'
        OBVIOUS
      <4>1. PICK i \in DOMAIN saves :
              /\ saves[i] = p /\ \A j \in DOMAIN saves : saves[j] = p => j = i
              /\ request[p].seen = request[p].shown[1] \/ i > request[p].since + 1
        BY <3>2 DEF Done
      <4>2. i \in DOMAIN saves' /\ saves'[i] = p
        BY <1>3, <4>1
      <4>3. \A j \in DOMAIN saves' : saves'[j] = p => j = i
        BY <1>3, <1>11, <4>1
      <4> QED BY <2>1, <3>2, <4>1, <4>2, <4>3 DEF Done, Creates
    <3> QED BY <3>1, <3>2
  <2>7. p \in outrun' <=> p \in outrun
    BY <1>11
  <2>8. request[p].since < Len(saves')
    BY <1>3, <2>1, <2>2 DEF MoveIsSound, RequestType
  <2>9. MoveIsSound(p)'
    BY <1>3, <2>1, <2>2, <2>3, <2>5, <2>6, <2>7, <2>8 DEF MoveIsSound, Creates, RequestType
  <2> QED BY <2>4, <2>9
<1> QED BY <1>7, <1>8, <1>10, <1>11 DEF RecordsInv

(* or carried out and the request marked.                                  *)
LEMMA InvMarkMoved == ASSUME RecordsInv, NEW q \in Requested, MarkMoved(q) PROVE RecordsInv'
<1> USE DEF MarkMoved
<1>1. RecordTypes /\ PointFits(q) /\ FirstIsCreated(q) /\ MoveIsSound(q)
  BY DEF RecordsInv
<1>2. PICK new \in RequestType :
        /\ request' = [request EXCEPT ![q] = new] /\ request'[q] = new
        /\ new.row = "executed" /\ new.at = "over" /\ new.shown = request[q].shown
        /\ new.seen = request[q].seen /\ new.since = request[q].since
  BY <1>1, WithFields
<1>3. PointFits(q)' /\ FirstIsCreated(q)'
  BY <1>1, <1>2 DEF PointFits, FirstIsCreated, Creates
<1>4. MoveIsSound(q)'
  BY <1>1, <1>2 DEF MoveIsSound, Creates, Unsaved, Done
<1> QED BY <1>1, <1>2, <1>3, <1>4, OneRequestSteps DEF RecordTypes

(* A crash leaves rows and record as they are, and the requests it cut off *)
(* are never taken up again.                                               *)
LEMMA InvLoseProcess == ASSUME RecordsInv, LoseProcess PROVE RecordsInv'
<1> USE DEF LoseProcess
<1>1. RecordTypes
  BY DEF RecordsInv
<1>2. ASSUME NEW q \in Requested
      PROVE  /\ request'[q] \in RequestType
             /\ request'[q].at = IF Working(q) THEN "lost" ELSE request[q].at
             /\ request'[q].row = request[q].row /\ request'[q].shown = request[q].shown
             /\ request'[q].seen = request[q].seen /\ request'[q].since = request[q].since
  <2>1. request[q] \in RequestType
    BY <1>1 DEF RecordTypes
  <2> QED BY <2>1 DEF RequestType
<1>3. RecordTypes'
  BY <1>1, <1>2 DEF RecordTypes
<1>4. ASSUME NEW q \in Requested
      PROVE  (PointFits(q) /\ FirstIsCreated(q) /\ MoveIsSound(q))'
  <2>1. PointFits(q) /\ FirstIsCreated(q) /\ MoveIsSound(q) /\ LegalMoves' = LegalMoves
    BY DEF RecordsInv, LegalMoves
  <2>2. PointFits(q)' /\ FirstIsCreated(q)'
    BY <1>2, <2>1 DEF PointFits, FirstIsCreated, Creates, Working
  <2>3. MoveIsSound(q)'
    BY <1>2, <2>1 DEF MoveIsSound, Creates, Unsaved, Done, Working
  <2> QED BY <2>2, <2>3
<1> QED BY <1>3, <1>4 DEF RecordsInv

-----------------------------------------------------------------------------
(* Every step keeps the invariant.                                         *)
LEMMA RecordsInvNext == RecordsInv /\ [RecordsNext]_recordVars => RecordsInv'
<1> SUFFICES ASSUME RecordsInv, [RecordsNext]_recordVars PROVE RecordsInv'
  OBVIOUS
<1>1. CASE UNCHANGED recordVars
  BY <1>1, RecordsInvStutter
<1>2. ASSUME NEW q \in Requested,
             \/ AskToCreate(q) \/ AskToMove(q) \/ ApproveRecord(q)
             \/ CreateDebt(q) \/ CreateTrial(q) \/ SaveCases(q)
             \/ CheckMove(q) \/ RefuseMove(q) \/ SaveStatus(q) \/ MarkMoved(q)
      PROVE  RecordsInv'
  BY <1>2, InvAskToCreate, InvAskToMove, InvApproveRecord, InvCreateDebt, InvCreateTrial,
     InvSaveCases, InvCheckMove, InvRefuseMove, InvSaveStatus, InvMarkMoved
<1>3. CASE LoseProcess
  BY <1>3, InvLoseProcess
<1> QED BY <1>1, <1>2, <1>3 DEF RecordsNext

(* The record changes by its creation and by a save, and a save whose      *)
(* check still holds is a legal step.                                      *)
LEMMA LegalStep ==
  ASSUME RecordsInv, [RecordsNext]_recordVars, stands # "missing", stands' # stands
  PROVE  stands' \in LegalMoves[stands] \/ outrun' # outrun
<1>1. PICK q \in Requested : SaveStatus(q) \/ CreateDebt(q) \/ CreateTrial(q)
  BY DEF RecordsNext, recordVars, AskToCreate, AskToMove, ApproveRecord, SaveCases, CheckMove,
         Checks, RefuseMove, MarkMoved, LoseProcess
<1>2. RecordTypes /\ FirstIsCreated(q) /\ MoveIsSound(q)
  BY DEF RecordsInv
<1>3. SaveStatus(q)
  BY <1>1, <1>2 DEF FirstIsCreated, CreateDebt, CreateTrial
<1>4. CASE stands = request[q].seen
  BY <1>2, <1>3, <1>4 DEF SaveStatus, MoveIsSound
<1>5. CASE stands # request[q].seen
  BY <1>2, <1>3, <1>5 DEF SaveStatus, MoveIsSound
<1> QED BY <1>4, <1>5

(* What the invariant says of requests that came to their end.             *)
LEMMA InvIsSaid == RecordsInv => ExecutedDidIt /\ ApprovedIsUnfinished
<1> SUFFICES ASSUME RecordsInv PROVE ExecutedDidIt /\ ApprovedIsUnfinished
  OBVIOUS
<1>1. ExecutedDidIt
  BY DEF RecordsInv, MoveIsSound, Done, ExecutedDidIt
<1>2. ApprovedIsUnfinished
  BY DEF RecordsInv, MoveIsSound, PointFits, Unsaved, ApprovedIsUnfinished
<1> QED BY <1>1, <1>2

(* Whatever is asked for and approved, in whatever order, with any number  *)
(* of crashes: an executed request did what its row says, an approved one  *)
(* that is over did nothing, and only a move whose check was overtaken by  *)
(* another can take a record where its state machine does not lead.        *)
THEOREM RecordsStayLegal == RecordsSpec => RecordsMoveLegally
<1>1. RecordsSpec => []RecordsInv
  BY RecordsInvInit, RecordsInvNext, PTL DEF RecordsSpec
<1>2. RecordsSpec => [](ExecutedDidIt /\ ApprovedIsUnfinished)
  BY <1>1, InvIsSaid, PTL
<1>3. RecordsSpec => StepsAreLegal
  <2>1. RecordsInv /\ [RecordsNext]_recordVars =>
          [(stands # "missing" /\ stands' # stands) =>
             (stands' \in LegalMoves[stands] \/ outrun' # outrun)]_recordVars
    BY LegalStep
  <2> QED BY <1>1, <2>1, PTL DEF RecordsSpec, StepsAreLegal
<1> QED BY <1>2, <1>3 DEF RecordsMoveLegally

-----------------------------------------------------------------------------
(* The documents of Coordination, for any number of them and of threads,   *)
(* with crashes anywhere: each tells a walk through its table, and who is  *)
(* yet to save one holds a copy that goes on with it.                      *)

(* Who is at work on a document, and who has yet to save it.               *)
Busy(w) == worker[w].at # "idle"
AtWork(w, d) == Busy(w) /\ worker[w].doc = d
Saves(w) == worker[w].at \in {"save", "write", "rename"}
IsOver(doc) == doc.status \in {"completed", "failed", "cancelled"}
Files == Written \cup {Absent, Torn}
(* Nobody interferes with the saving of a document.                        *)
Alone(d) == d \notin raced \/ ~up

(* A document tells a walk.                                                *)
Walks(d, doc) == kind[d] \in Kinds /\ doc \in Written /\ LegalWalk(kind[d], doc)

(* A request's copy is as it may be.                                       *)
CopyFits(w) ==
  LET c == worker[w] IN
  Busy(w) =>
    /\ c.doc \in Docs /\ Walks(c.doc, c.copy)
    /\ c.at \in {"write", "rename"} => kind[c.doc] # "task"
    /\ c.at = "tell" => main[c.doc] # Absent
    /\ c.at = "tell" /\ c.doc \notin raced => main[c.doc] = c.copy

(* The file beside the document is this request's, unless others hold      *)
(* copies.                                                                 *)
FileFits(w) ==
  LET c == worker[w] IN
  Busy(w) /\ Alone(c.doc) =>
    /\ c.at = "write" => c.handle = "temp" /\ temp[c.doc] = Torn
    /\ c.at = "rename" => temp[c.doc] = c.copy

(* What the startup saves is recovered, and what is running was started.   *)
RestartFits(w) ==
  LET c == worker[w] IN
  Busy(w) =>
    /\ up /\ kind[c.doc] = "runtime" /\ c.copy.status = "running" => c.doc \in started
    /\ ~up => kind[c.doc] = "runtime" /\ c.copy.status = "recovered" /\ c.at # "tell"

NobodyMeets ==
  /\ \A v, w \in Workers : v # w /\ Busy(v) /\ Busy(w) => up
  /\ \A v, w \in Workers, d \in Docs : v # w /\ AtWork(v, d) /\ AtWork(w, d) => d \in raced

InTodo(d) == \E r \in todo : r.doc = d
TodoFits ==
  /\ up => todo = {}
  /\ \A r \in todo : r.doc \in Docs /\ kind[r.doc] = "runtime" /\ r.copy.status = "running" /\ Walks(r.doc, r.copy)

(* What is stored of a document.                                           *)
StoredFits(d) ==
  /\ kind[d] = "none" => main[d] = Absent /\ temp[d] = Absent
  /\ Readable(main[d]) => Walks(d, main[d])
  /\ Readable(temp[d]) => Walks(d, temp[d])
  /\ kind[d] = "task" => temp[d] = Absent
  /\ main[d] = Torn => d \in raced

(* Whoever is to save it, or would after a crash, found it unfinished.     *)
ToBeSaved(d) == temp[d] # Absent \/ (\E w \in Workers : AtWork(w, d) /\ Saves(w)) \/ InTodo(d)
SavedWhileOpen(d) == d \notin raced /\ ToBeSaved(d) => ~IsOver(main[d])

(* What runs was started, or is yet to be recovered.                       *)
RunsAsStarted(d) ==
  kind[d] = "runtime" /\ (main[d].status = "running" \/ temp[d].status = "running") =>
    IF up THEN d \in started
    ELSE InTodo(d) \/ \E w \in Workers : AtWork(w, d)

(* What was told.                                                          *)
ToldFits(d) ==
  /\ d \in attached \/ (\E st \in Statuses : events[d][st] > 0) => main[d] # Absent
  /\ kind[d] = "task" /\ d \notin raced =>
       LET telling == \E w \in Workers : AtWork(w, d) /\ Is(w, "tell") /\ worker[w].copy.status = "completed" IN
       /\ events[d]["completed"] > 0 => main[d].status = "completed" /\ ~telling
       /\ events[d]["completed"] \in {0, 1}
       /\ main[d].status = "completed" /\ stops = 0 => events[d]["completed"] = 1 \/ telling

CoordInv ==
  /\ CoordTypeOK /\ NobodyMeets /\ TodoFits
  /\ \A w \in Workers : CopyFits(w) /\ FileFits(w) /\ RestartFits(w)
  /\ \A d \in Docs : StoredFits(d) /\ SavedWhileOpen(d) /\ RunsAsStarted(d) /\ ToldFits(d)
  /\ ragged => stops > 0

-----------------------------------------------------------------------------
(* The tables lead from statuses to statuses, and out of none that is over.*)
LEMMA KindsAre == Kinds = {"session", "agent", "team", "runtime", "task"}
BY DEF Kinds, Moves

(* Statuses are those of the tables, and no file that cannot be read has   *)
(* one.                                                                    *)
LEMMA StatusesAre ==
  /\ \A k \in Kinds : DOMAIN Moves[k] \subseteq Statuses
  /\ "absent" \notin Statuses /\ "torn" \notin Statuses
<1>1. \A k \in Kinds : DOMAIN Moves[k] \subseteq Statuses
  BY DEF Statuses
<1>2. \A k \in Kinds : "absent" \notin DOMAIN Moves[k] /\ "torn" \notin DOMAIN Moves[k]
  BY KindsAre DEF Moves, SessionMoves, AgentMoves, TeamMoves, RuntimeMoves, TaskMoves
<1> QED BY <1>1, <1>2 DEF Statuses

(* Each kind begins in its table, which leads nowhere else, and leads no   *)
(* further from a status that is over.                                     *)
LEMMA TablesLead ==
  ASSUME NEW k \in Kinds
  PROVE  /\ First[k] \in DOMAIN Moves[k]
         /\ \A st \in DOMAIN Moves[k] :
              /\ Moves[k][st] \subseteq DOMAIN Moves[k]
              /\ st \in {"completed", "failed", "cancelled"} => Moves[k][st] = {}
<1>1. CASE k = "session"
  BY <1>1 DEF First, Moves, SessionMoves
<1>2. CASE k = "agent"
  BY <1>2 DEF First, Moves, AgentMoves
<1>3. CASE k = "team"
  BY <1>3 DEF First, Moves, TeamMoves
<1>4. CASE k = "runtime"
  BY <1>4 DEF First, Moves, RuntimeMoves
<1>5. CASE k = "task"
  BY <1>5 DEF First, Moves, TaskMoves
<1> QED BY <1>1, <1>2, <1>3, <1>4, <1>5, KindsAre

(* A walk ends in a status of its table.                                   *)
LEMMA WalkEnds ==
  ASSUME NEW k \in Kinds, NEW doc \in Written, LegalWalk(k, doc)
  PROVE  doc.status \in DOMAIN Moves[k]
<1>1. PICK h : h = doc.history
  OBVIOUS
<1>2. h \in Seq(Statuses) /\ h # << >> /\ h[1] = First[k] /\ h[Len(h)] = doc.status
  BY <1>1 DEF Written, LegalWalk
<1>3. PICK n \in Nat \ {0} : n = Len(h)
  BY <1>2
<1>4. CASE n = 1
  BY <1>2, <1>3, <1>4, TablesLead
<1>5. CASE n # 1
  <2>1. PICK i \in 1..(n - 1) : i + 1 = n
    BY <1>5
  <2>2. h[i] \in DOMAIN Moves[k] /\ h[i + 1] \in Moves[k][h[i]]
    BY <1>1, <1>3, <2>1 DEF LegalWalk
  <2> QED BY <1>2, <1>3, <2>1, <2>2, TablesLead
<1> QED BY <1>4, <1>5

(* and goes on with a legal move.                                          *)
LEMMA WalkGoesOn ==
  ASSUME NEW k \in Kinds, NEW doc \in Written, LegalWalk(k, doc), NEW st \in Moves[k][doc.status]
  PROVE  /\ Moved(doc, st) \in Written /\ LegalWalk(k, Moved(doc, st)) /\ Moved(doc, st).status = st
         /\ ~IsOver(doc)
<1>1. doc.status \in DOMAIN Moves[k]
  BY WalkEnds
<1>2. st \in Statuses /\ ~IsOver(doc)
  BY <1>1, TablesLead, StatusesAre DEF IsOver
<1>3. PICK h : h = doc.history
  OBVIOUS
<1>4. PICK g : g = Append(h, st)
  OBVIOUS
<1>5. h \in Seq(Statuses) /\ Len(h) \in Nat \ {0} /\ h[Len(h)] = doc.status /\ h[1] = First[k]
  BY <1>3 DEF Written, LegalWalk
<1>6. /\ g \in Seq(Statuses) /\ Len(g) = Len(h) + 1 /\ g[Len(h) + 1] = st
      /\ \A i \in 1..Len(h) : g[i] = h[i]
  BY <1>2, <1>4, <1>5
<1>7. ASSUME NEW i \in 1..(Len(g) - 1) PROVE g[i] \in DOMAIN Moves[k] /\ g[i + 1] \in Moves[k][g[i]]
  <2>1. i \in 1..Len(h)
    BY <1>5, <1>6
  <2>2. CASE i = Len(h)
    BY <1>1, <1>5, <1>6, <2>2
  <2>3. CASE i # Len(h)
    <3>1. i \in 1..(Len(h) - 1) /\ i + 1 \in 1..Len(h)
      BY <1>5, <2>1, <2>3
    <3> QED BY <1>3, <1>6, <2>1, <3>1 DEF LegalWalk
  <2> QED BY <2>2, <2>3
<1>8. g # << >> /\ g[1] = First[k] /\ g[Len(g)] = st
  BY <1>5, <1>6
<1>9. Moved(doc, st) = [status |-> st, history |-> g]
  BY <1>3, <1>4 DEF Moved
<1> QED BY <1>2, <1>6, <1>7, <1>8, <1>9 DEF Written, LegalWalk

(* as a new document's does.                                               *)
LEMMA WalkBegins ==
  ASSUME NEW k \in Kinds
  PROVE  /\ Moved(Absent, First[k]) \in Written /\ LegalWalk(k, Moved(Absent, First[k]))
         /\ Moved(Absent, First[k]).status = First[k]
<1>1. First[k] \in Statuses
  BY TablesLead, StatusesAre
<1>2. Moved(Absent, First[k]) = [status |-> First[k], history |-> <<First[k]>>]
  BY DEF Moved, Absent
<1> QED BY <1>1, <1>2 DEF Written, LegalWalk

(* What can be read was written.                                           *)
LEMMA ReadableIsWritten ==
  /\ \A doc \in Files : Readable(doc) <=> doc \in Written
  /\ Absent \notin Written /\ Torn \notin Written /\ Absent # Torn
  /\ Absent.status = "absent" /\ Torn.status = "torn"
BY StatusesAre DEF Files, Readable, Written, Absent, Torn

-----------------------------------------------------------------------------
(* What a step of one worker on one document leaves alone.                 *)
StepsOn(w, e) ==
  /\ \A v \in Workers \ {w} :
       /\ worker'[v].at = worker[v].at /\ worker'[v].doc = worker[v].doc /\ worker'[v].copy = worker[v].copy
       /\ worker[v].doc # e \/ ~Busy(w) => worker'[v].handle = worker[v].handle
  /\ Busy(w) => worker[w].doc = e
  /\ Busy(w)' => worker'[w].doc = e
  /\ ~Busy(w) => main'[e] = main[e] /\ temp'[e] = temp[e]
  /\ \A d \in Docs \ {e} :
       /\ main'[d] = main[d] /\ temp'[d] = temp[d] /\ kind'[d] = kind[d] /\ events'[d] = events[d]
       /\ (d \in attached' <=> d \in attached) /\ (d \in raced' <=> d \in raced)
       /\ InTodo(d)' <=> InTodo(d)
  /\ main[e] # Absent => main'[e] # Absent
  /\ kind[e] # "none" => kind'[e] = kind[e]
  /\ raced \subseteq raced' /\ started \subseteq started' /\ UNCHANGED <<up, stops>>

(* The other workers' part is kept,                                        *)
LEMMA OthersFit ==
  ASSUME CoordInv, NEW w \in Workers, NEW e \in Docs, StepsOn(w, e), NEW v \in Workers, v # w
  PROVE  CopyFits(v)' /\ FileFits(v)' /\ RestartFits(v)'
<1>1. /\ worker'[v].at = worker[v].at /\ worker'[v].doc = worker[v].doc /\ worker'[v].copy = worker[v].copy
      /\ Busy(v)' <=> Busy(v)
  BY DEF StepsOn, Busy
<1>2. CopyFits(v) /\ FileFits(v) /\ RestartFits(v)
  BY DEF CoordInv
<1>3. SUFFICES ASSUME Busy(v) PROVE CopyFits(v)' /\ FileFits(v)' /\ RestartFits(v)'
  BY <1>1 DEF CopyFits, FileFits, RestartFits
<1>4. PICK x \in Docs : x = worker[v].doc
  BY <1>2, <1>3 DEF CopyFits
<1>5. kind[x] \in Kinds /\ "none" \notin Kinds
  BY <1>2, <1>3, <1>4, KindsAre DEF CopyFits, Walks
<1>6. /\ kind'[x] = kind[x] /\ (main[x] # Absent => main'[x] # Absent)
      /\ up' = up /\ (x \in started => x \in started')
  BY <1>5 DEF StepsOn
<1>7. Walks(x, worker[v].copy)' /\ (worker[v].at \in {"write", "rename"} => kind'[x] # "task")
  BY <1>1, <1>2, <1>3, <1>4, <1>6 DEF CopyFits, Walks
<1>8. worker[v].at = "tell" => main'[x] # Absent
  BY <1>2, <1>3, <1>4, <1>6 DEF CopyFits
<1>9. RestartFits(v)'
  <2>1. /\ up /\ kind[x] = "runtime" /\ worker[v].copy.status = "running" => x \in started
        /\ ~up => kind[x] = "runtime" /\ worker[v].copy.status = "recovered" /\ worker[v].at # "tell"
    BY <1>2, <1>3, <1>4 DEF RestartFits
  <2>2. worker'[v].doc = x /\ worker'[v].copy.status = worker[v].copy.status
    BY <1>1, <1>4
  <2>3. (up' <=> up) /\ kind'[x] = kind[x] /\ (x \in started => x \in started')
    BY <1>6
  <2> QED BY <1>1, <2>1, <2>2, <2>3 DEF RestartFits
<1>10. CASE x = e /\ Busy(w)
  <2>1. x \in raced' /\ up'
    <3>1. AtWork(v, x) /\ AtWork(w, x)
      BY <1>3, <1>4, <1>10 DEF AtWork, StepsOn
    <3>2. x \in raced /\ up
      BY <1>3, <1>10, <3>1 DEF CoordInv, NobodyMeets
    <3> QED BY <1>6, <3>2 DEF StepsOn
  <2> QED BY <1>1, <1>4, <1>7, <1>8, <1>9, <2>1 DEF CopyFits, FileFits, Alone
<1>11. CASE x # e \/ ~Busy(w)
  <2>1. main'[x] = main[x] /\ temp'[x] = temp[x] /\ (x \in raced => x \in raced')
    BY <1>11 DEF StepsOn
  <2>2. worker'[v].handle = worker[v].handle
    BY <1>4, <1>11 DEF StepsOn
  <2>3. CopyFits(v)'
    BY <1>1, <1>2, <1>3, <1>4, <1>7, <1>8, <2>1 DEF CopyFits
  <2>4. FileFits(v)'
    BY <1>1, <1>2, <1>3, <1>4, <1>6, <2>1, <2>2 DEF FileFits, Alone
  <2> QED BY <1>9, <2>3, <2>4
<1> QED BY <1>10, <1>11

(* and the other documents'.                                               *)
LEMMA OtherDocsFit ==
  ASSUME CoordInv, NEW w \in Workers, NEW e \in Docs, StepsOn(w, e), NEW d \in Docs, d # e
  PROVE  StoredFits(d)' /\ SavedWhileOpen(d)' /\ RunsAsStarted(d)' /\ ToldFits(d)'
<1>1. /\ main'[d] = main[d] /\ temp'[d] = temp[d] /\ kind'[d] = kind[d] /\ events'[d] = events[d]
      /\ (d \in attached' <=> d \in attached) /\ (d \in raced' <=> d \in raced)
      /\ InTodo(d)' <=> InTodo(d)
      /\ d \in started => d \in started'
      /\ up' = up /\ stops' = stops
  BY DEF StepsOn
<1>2. StoredFits(d) /\ SavedWhileOpen(d) /\ RunsAsStarted(d) /\ ToldFits(d)
  BY DEF CoordInv
<1>3. \A v \in Workers :
        /\ AtWork(v, d)' <=> AtWork(v, d)
        /\ AtWork(v, d) => worker'[v].at = worker[v].at /\ worker'[v].copy = worker[v].copy
  BY DEF StepsOn, AtWork, Busy
<1>4. StoredFits(d)'
  BY <1>1, <1>2 DEF StoredFits, Walks
<1>5. SavedWhileOpen(d)'
  <2>1. ToBeSaved(d)' => ToBeSaved(d)
    BY <1>1, <1>3 DEF ToBeSaved, Saves
  <2> QED BY <1>1, <1>2, <2>1 DEF SavedWhileOpen
<1>6. RunsAsStarted(d)'
  BY <1>1, <1>2, <1>3 DEF RunsAsStarted
<1>7. ToldFits(d)'
  BY <1>1, <1>2, <1>3 DEF ToldFits, Is
<1> QED BY <1>4, <1>5, <1>6, <1>7

(* One worker's step keeps the invariant if it keeps its worker's and its  *)
(* document's part.                                                        *)
LEMMA OneSteps ==
  ASSUME CoordInv, NEW w \in Workers, NEW e \in Docs, StepsOn(w, e),
         CoordTypeOK', TodoFits', ragged' => stops' > 0,
         Busy(w) \/ \A v \in Workers \ {w} : AtWork(v, e) => e \in raced',
         Busy(w) \/ up \/ \A v \in Workers : ~Busy(v),
         CopyFits(w)', FileFits(w)', RestartFits(w)',
         StoredFits(e)', SavedWhileOpen(e)', RunsAsStarted(e)', ToldFits(e)'
  PROVE  CoordInv'
<1>1. \A v \in Workers : CopyFits(v)' /\ FileFits(v)' /\ RestartFits(v)'
  BY OthersFit
<1>2. \A d \in Docs : StoredFits(d)' /\ SavedWhileOpen(d)' /\ RunsAsStarted(d)' /\ ToldFits(d)'
  BY OtherDocsFit
<1>3. \A v \in Workers : /\ v # w => (Busy(v)' <=> Busy(v))
                         /\ v # w => \A d \in Docs : AtWork(v, d)' <=> AtWork(v, d)
  BY DEF StepsOn, Busy, AtWork
<1>4. up' = up /\ raced \subseteq raced' /\ \A d \in Docs : AtWork(w, d)' => d = e
  BY DEF StepsOn, AtWork
<1>5. Busy(w) => AtWork(w, e)
  BY DEF StepsOn, AtWork
<1>6. \A x, y \in Workers : x # y /\ Busy(x)' /\ Busy(y)' => up'
  BY <1>3, <1>4 DEF CoordInv, NobodyMeets
<1>7. \A x, y \in Workers, d \in Docs : x # y /\ AtWork(x, d)' /\ AtWork(y, d)' => d \in raced'
  <2> TAKE x, y \in Workers, d \in Docs
  <2>1. CASE x # w /\ y # w
    BY <1>3, <1>4, <2>1 DEF CoordInv, NobodyMeets
  <2>2. CASE x = w /\ y # w
    BY <1>3, <1>4, <1>5, <2>2 DEF CoordInv, NobodyMeets
  <2>3. CASE x # w /\ y = w
    BY <1>3, <1>4, <1>5, <2>3 DEF CoordInv, NobodyMeets
  <2> QED BY <2>1, <2>2, <2>3
<1> QED BY <1>1, <1>2, <1>6, <1>7 DEF CoordInv, NobodyMeets

(* What is true of a worker that is at work, and of its document.          *)
LEMMA AtWorkIs ==
  ASSUME CoordInv, NEW w \in Workers, Busy(w)
  PROVE  /\ worker[w].doc \in Docs /\ worker[w].copy \in Written /\ worker[w] \in Worker
         /\ kind[worker[w].doc] \in Kinds /\ kind[worker[w].doc] # "none"
         /\ Walks(worker[w].doc, worker[w].copy) /\ CopyFits(w) /\ FileFits(w) /\ RestartFits(w)
         /\ \A v \in Workers \ {w} : AtWork(v, worker[w].doc) => worker[w].doc \in raced /\ up
         /\ Saves(w) => SavedWhileOpen(worker[w].doc) /\ ToBeSaved(worker[w].doc)
<1>1. CopyFits(w) /\ FileFits(w) /\ RestartFits(w)
  BY DEF CoordInv
<1>2. worker[w].doc \in Docs /\ Walks(worker[w].doc, worker[w].copy)
  BY <1>1 DEF CopyFits
<1>3. worker[w] \in Worker
  BY DEF CoordInv, CoordTypeOK
<1>4. kind[worker[w].doc] \in Kinds /\ kind[worker[w].doc] # "none" /\ worker[w].copy \in Written
  BY <1>2, KindsAre DEF Walks
<1>5. AtWork(w, worker[w].doc)
  BY DEF AtWork
<1>6. \A v \in Workers \ {w} : AtWork(v, worker[w].doc) => worker[w].doc \in raced /\ up
  BY <1>2, <1>5 DEF CoordInv, NobodyMeets, AtWork
<1>7. Saves(w) => SavedWhileOpen(worker[w].doc) /\ ToBeSaved(worker[w].doc)
  BY <1>2, <1>5 DEF CoordInv, ToBeSaved
<1> QED BY <1>1, <1>2, <1>3, <1>4, <1>6, <1>7

(* A worker goes on with the document it is at work on, and may redirect   *)
(* the handles of the others that have its file open: what is left to show.*)
LEMMA WorkGoesOn ==
  ASSUME CoordInv, NEW w \in Workers, Busy(w), NEW e \in Docs, e = worker[w].doc,
         worker'[w] \in Worker, Busy(w)' => worker'[w].doc = e /\ worker'[w].copy = worker[w].copy,
         \A v \in Workers \ {w} :
           /\ worker'[v] \in Worker
           /\ worker'[v].at = worker[v].at /\ worker'[v].doc = worker[v].doc /\ worker'[v].copy = worker[v].copy
           /\ worker[v].doc # e => worker'[v].handle = worker[v].handle,
         DOMAIN worker' = Workers, worker' = [v \in Workers |-> worker'[v]],
         main' \in [Docs -> Files], temp' \in [Docs -> Files], events' \in [Docs -> [Statuses -> Nat]],
         attached' \subseteq Docs, ragged' \in BOOLEAN, ragged' => ragged,
         \A d \in Docs \ {e} : /\ main'[d] = main[d] /\ temp'[d] = temp[d] /\ events'[d] = events[d]
                               /\ d \in attached' <=> d \in attached,
         main[e] # Absent => main'[e] # Absent,
         UNCHANGED <<kind, Started, raced, started>>,
         CopyFits(w)', FileFits(w)', RestartFits(w)',
         StoredFits(e)', SavedWhileOpen(e)', RunsAsStarted(e)', ToldFits(e)'
  PROVE  CoordInv'
<1>1. StepsOn(w, e)
  BY DEF StepsOn, Busy, InTodo, Started
<1>2. CoordTypeOK'
  <2>1. worker' \in [Workers -> Worker]
    <3>1. \A v \in Workers : worker'[v] \in Worker
      OBVIOUS
    <3> QED BY <3>1
  <2> QED BY <2>1 DEF CoordInv, CoordTypeOK, Files, Started
<1>3. TodoFits'
  BY DEF CoordInv, TodoFits, Walks, Started
<1>4. ragged' => stops' > 0
  BY DEF CoordInv, Started
<1> QED BY <1>1, <1>2, <1>3, <1>4, OneSteps

(* In particular when the other workers are left as they are.              *)
LEMMA WorkMoves ==
  ASSUME CoordInv, NEW w \in Workers, Busy(w), NEW e \in Docs, e = worker[w].doc,
         NEW new \in Worker, worker' = [worker EXCEPT ![w] = new],
         new.at = "idle" \/ (new.doc = e /\ new.copy = worker[w].copy),
         main' \in [Docs -> Files], temp' \in [Docs -> Files], events' \in [Docs -> [Statuses -> Nat]],
         attached' \subseteq Docs, ragged' \in BOOLEAN, ragged' => ragged,
         \A d \in Docs \ {e} : /\ main'[d] = main[d] /\ temp'[d] = temp[d] /\ events'[d] = events[d]
                               /\ d \in attached' <=> d \in attached,
         main[e] # Absent => main'[e] # Absent,
         UNCHANGED <<kind, Started, raced, started>>,
         new.at # "idle" => CopyFits(w)' /\ FileFits(w)' /\ RestartFits(w)',
         StoredFits(e)', SavedWhileOpen(e)', RunsAsStarted(e)', ToldFits(e)'
  PROVE  CoordInv'
<1>1. worker \in [Workers -> Worker]
  BY DEF CoordInv, CoordTypeOK
<1>2. worker'[w] = new /\ \A v \in Workers \ {w} : worker'[v] = worker[v] /\ worker'[v] \in Worker
  BY <1>1
<1>3. DOMAIN worker' = Workers /\ worker' = [v \in Workers |-> worker'[v]]
  BY <1>1
<1>4. CopyFits(w)' /\ FileFits(w)' /\ RestartFits(w)'
  BY <1>2 DEF CopyFits, FileFits, RestartFits, Busy
<1>5. Busy(w)' => worker'[w].doc = e /\ worker'[w].copy = worker[w].copy
  BY <1>2 DEF Busy
<1> QED BY <1>2, <1>3, <1>4, <1>5, WorkGoesOn

(* The types of the variables.                                             *)
LEMMA CoordTypes ==
  ASSUME CoordInv
  PROVE  /\ main \in [Docs -> Files] /\ temp \in [Docs -> Files] /\ events \in [Docs -> [Statuses -> Nat]]
         /\ worker \in [Workers -> Worker] /\ attached \subseteq Docs /\ ragged \in BOOLEAN
         /\ kind \in [Docs -> Kinds \cup {"none"}] /\ up \in BOOLEAN
BY DEF CoordInv, CoordTypeOK, Files

(* A worker's next place and handle leave it a worker,                     *)
LEMMA WorkerIs ==
  ASSUME NEW c \in Worker, NEW at \in {"idle", "save", "write", "rename", "tell"},
         NEW handle \in {"none", "temp", "main", "gone"}
  PROVE  /\ [c EXCEPT !.at = at] \in Worker /\ [c EXCEPT !.at = at, !.handle = handle] \in Worker
         /\ [c EXCEPT !.handle = handle] \in Worker
BY DEF Worker

(* as one at rest is.                                                      *)
LEMMA RestingIs == Resting \in Worker /\ Resting.at = "idle"
BY DEF Resting, Worker

(* The row of a task.                                                      *)
LEMMA SaveRowKeeps ==
  ASSUME CoordInv, NEW w \in Workers, SaveRow(w)
  PROVE  CoordInv'
<1>1. PICK e, copy : e = worker[w].doc /\ copy = worker[w].copy
  OBVIOUS
<1>2. Busy(w) /\ Saves(w) /\ worker[w].at = "save" /\ kind[e] = "task"
  BY <1>1 DEF SaveRow, Is, Busy, Saves
<1>3. /\ e \in Docs /\ copy \in Written /\ worker[w] \in Worker /\ Walks(e, copy)
      /\ RestartFits(w) /\ SavedWhileOpen(e) /\ ToBeSaved(e)
      /\ \A v \in Workers \ {w} : AtWork(v, e) => e \in raced /\ up
  BY <1>1, <1>2, AtWorkIs
<1>4. UNCHANGED <<kind, temp, events, ragged, attached, up, todo, stops, raced, started>>
  BY DEF SaveRow, Told, Started
<1>5. /\ main'[e] = copy /\ copy # Absent /\ copy # Torn /\ main' \in [Docs -> Files]
      /\ \A d \in Docs \ {e} : main'[d] = main[d]
  BY <1>1, <1>3, CoordTypes, ReadableIsWritten DEF SaveRow, Files
<1>6. PICK new : /\ new = IF Tells(w) THEN [worker[w] EXCEPT !.at = "tell"] ELSE Resting
                 /\ worker' = [worker EXCEPT ![w] = new]
  BY CoordTypes DEF SaveRow, Steps, Rests
<1>7. /\ new \in Worker /\ new.at \in {"tell", "idle"} /\ worker'[w] = new
      /\ new.at = "idle" \/ (new.doc = e /\ new.copy = copy)
      /\ Tells(w) => new.at = "tell"
      /\ \A v \in Workers \ {w} : worker'[v] = worker[v]
  <2>1. [worker[w] EXCEPT !.at = "tell"] \in Worker
    BY <1>3, WorkerIs
  <2>2. /\ [worker[w] EXCEPT !.at = "tell"].at = "tell" /\ [worker[w] EXCEPT !.at = "tell"].doc = e
        /\ [worker[w] EXCEPT !.at = "tell"].copy = copy
    BY <1>1, <1>3 DEF Worker
  <2> QED BY <1>6, <2>1, <2>2, CoordTypes, RestingIs
<1>8. ~IsOver(main[e]) \/ e \in raced
  BY <1>1, <1>2, <1>3 DEF RestartFits, SavedWhileOpen
<1>9. up
  BY <1>1, <1>2, <1>3, CoordTypes DEF RestartFits
<1>10. ASSUME new.at # "idle" PROVE CopyFits(w)' /\ FileFits(w)' /\ RestartFits(w)'
  BY <1>1, <1>2, <1>3, <1>4, <1>5, <1>7, <1>9, <1>10 DEF CopyFits, FileFits, RestartFits, Walks, Busy
<1>11. StoredFits(e) /\ ToldFits(e)
  BY <1>3 DEF CoordInv
<1>12. StoredFits(e)'
  BY <1>2, <1>3, <1>4, <1>5, <1>11 DEF StoredFits, Walks
<1>13. SavedWhileOpen(e)'
  <2>1. ~InTodo(e)
    BY <1>2 DEF CoordInv, TodoFits, InTodo
  <2>2. e \notin raced => ~ToBeSaved(e)'
    BY <1>2, <1>3, <1>4, <1>7, <1>11, <2>1 DEF StoredFits, ToBeSaved, AtWork, Saves, Busy, InTodo
  <2> QED BY <1>4, <2>2 DEF SavedWhileOpen
<1>14. RunsAsStarted(e)'
  BY <1>2, <1>4 DEF RunsAsStarted
<1>15. ToldFits(e)'
  <2>1. CASE e \in raced
    BY <1>4, <1>5, <1>11, <2>1 DEF ToldFits
  <2>2. CASE e \notin raced
    <3>1. main[e].status # "completed" /\ events[e]["completed"] = 0
      BY <1>2, <1>8, <1>11, <2>2 DEF ToldFits, IsOver
    <3>2. copy.status = "completed" => Tells(w)
      BY <1>1, <1>2 DEF Tells, Announced
    <3>3. AtWork(w, e)' /\ Is(w, "tell")' /\ worker'[w].copy.status = "completed" <=> copy.status = "completed"
      BY <1>7, <3>2 DEF AtWork, Busy, Is, Resting
    <3> QED BY <1>2, <1>3, <1>4, <1>5, <3>1, <3>3 DEF ToldFits
  <2> QED BY <2>1, <2>2
<1> QED BY <1>1, <1>2, <1>3, <1>4, <1>5, <1>6, <1>7, <1>10, <1>12, <1>13, <1>14, <1>15, CoordTypes, WorkMoves DEF Started

(* The temporary file is truncated,                                        *)
LEMMA OpenTempKeeps ==
  ASSUME CoordInv, NEW w \in Workers, OpenTemp(w)
  PROVE  CoordInv'
<1>1. PICK e, copy : e = worker[w].doc /\ copy = worker[w].copy
  OBVIOUS
<1>2. Busy(w) /\ Saves(w) /\ worker[w].at = "save" /\ kind[e] # "task"
  BY <1>1 DEF OpenTemp, Is, Busy, Saves
<1>3. /\ e \in Docs /\ copy \in Written /\ worker[w] \in Worker /\ Walks(e, copy)
      /\ RestartFits(w) /\ SavedWhileOpen(e) /\ ToBeSaved(e) /\ kind[e] # "none"
  BY <1>1, <1>2, AtWorkIs
<1>4. UNCHANGED <<kind, main, events, ragged, attached, up, todo, stops, raced, started>>
  BY DEF OpenTemp, Told, Started
<1>5. /\ temp'[e] = Torn /\ temp' \in [Docs -> Files] /\ \A d \in Docs \ {e} : temp'[d] = temp[d]
  BY <1>1, <1>3, CoordTypes DEF OpenTemp, Files
<1>6. PICK new : new = [worker[w] EXCEPT !.at = "write", !.handle = "temp"]
  OBVIOUS
<1>7. /\ new \in Worker /\ new.at = "write" /\ new.handle = "temp" /\ new.doc = e /\ new.copy = copy
      /\ worker' = [worker EXCEPT ![w] = new]
  <2>1. new \in Worker
    BY <1>3, <1>6, WorkerIs
  <2> QED BY <1>1, <1>3, <1>6, <2>1, CoordTypes DEF OpenTemp, Worker
<1>8. worker'[w] = new /\ \A v \in Workers \ {w} : worker'[v] = worker[v]
  BY <1>7, CoordTypes
<1>9. CopyFits(w)' /\ FileFits(w)' /\ RestartFits(w)'
  BY <1>1, <1>2, <1>3, <1>4, <1>5, <1>7, <1>8 DEF CopyFits, FileFits, RestartFits, Walks, Busy
<1>10. StoredFits(e) /\ ToldFits(e) /\ RunsAsStarted(e)
  BY <1>3 DEF CoordInv
<1>11. StoredFits(e)'
  BY <1>2, <1>3, <1>4, <1>5, <1>10, ReadableIsWritten DEF StoredFits, Walks, Files
<1>12. SavedWhileOpen(e)'
  BY <1>3, <1>4 DEF SavedWhileOpen
<1>13. RunsAsStarted(e)'
  <2>1. AtWork(w, e)'
    BY <1>7, <1>8 DEF AtWork, Busy
  <2>2. temp'[e].status # "running"
    BY <1>5, ReadableIsWritten
  <2> QED BY <1>4, <1>10, <2>1, <2>2 DEF RunsAsStarted
<1>14. ToldFits(e)'
  BY <1>2, <1>4, <1>10 DEF ToldFits
<1> QED BY <1>1, <1>2, <1>3, <1>4, <1>5, <1>7, <1>9, <1>11, <1>12, <1>13, <1>14, CoordTypes, WorkMoves DEF Started

(* written,                                                                *)
LEMMA WriteTempKeeps ==
  ASSUME CoordInv, NEW w \in Workers, WriteTemp(w)
  PROVE  CoordInv'
<1>1. PICK e, copy : e = worker[w].doc /\ copy = worker[w].copy
  OBVIOUS
<1>2. Busy(w) /\ Saves(w) /\ worker[w].at = "write"
  BY <1>1 DEF WriteTemp, Is, Busy, Saves
<1>3. /\ e \in Docs /\ copy \in Written /\ worker[w] \in Worker /\ Walks(e, copy) /\ kind[e] # "task"
      /\ RestartFits(w) /\ SavedWhileOpen(e) /\ ToBeSaved(e) /\ kind[e] # "none"
      /\ Alone(e) => worker[w].handle = "temp" /\ temp[e] = Torn
  BY <1>1, <1>2, AtWorkIs DEF CopyFits, FileFits
<1>4. UNCHANGED <<kind, events, ragged, attached, up, todo, stops, raced, started>>
  BY DEF WriteTemp, Told, Started
<1>5. PICK new : new = [worker[w] EXCEPT !.at = "rename"]
  OBVIOUS
<1>6. /\ new \in Worker /\ new.at = "rename" /\ new.doc = e /\ new.copy = copy
      /\ worker' = [worker EXCEPT ![w] = new]
  <2>1. new \in Worker
    BY <1>3, <1>5, WorkerIs
  <2> QED BY <1>1, <1>3, <1>5, <2>1, CoordTypes DEF WriteTemp, Steps, Worker
<1>7. worker'[w] = new /\ \A v \in Workers \ {w} : worker'[v] = worker[v]
  BY <1>6, CoordTypes
<1>8. ASSUME NEW file, file \in [Docs -> Files], NEW next \in Filled(file, [d |-> e, copy |-> copy])
      PROVE  /\ next \in [Docs -> Files] /\ next[e] \in {copy, Torn} /\ (file[e] = Torn => next[e] = copy)
             /\ \A d \in Docs \ {e} : next[d] = file[d]
  <2>1. PICK x \in {copy} \cup (IF Readable(file[e]) THEN {Torn} ELSE {}) : next = [file EXCEPT ![e] = x]
    BY <1>8 DEF Filled
  <2> QED BY <1>3, <1>8, <2>1, ReadableIsWritten DEF Files, Readable
<1>9. /\ main' \in [Docs -> Files] /\ temp' \in [Docs -> Files]
      /\ \A d \in Docs \ {e} : main'[d] = main[d] /\ temp'[d] = temp[d]
      /\ main'[e] \in {main[e], copy, Torn} /\ temp'[e] \in {temp[e], copy, Torn}
      /\ Alone(e) => main'[e] = main[e] /\ temp'[e] = copy
  <2>1. CASE worker[w].handle = "temp" /\ temp' \in Filled(temp, [d |-> e, copy |-> copy]) /\ UNCHANGED main
    BY <1>3, <1>8, <2>1, CoordTypes
  <2>2. CASE worker[w].handle = "main" /\ main' \in Filled(main, [d |-> e, copy |-> copy]) /\ UNCHANGED temp
    BY <1>3, <1>8, <2>2, CoordTypes
  <2>3. CASE worker[w].handle = "gone" /\ UNCHANGED Stored
    BY <1>3, <2>3, CoordTypes DEF Stored
  <2> QED BY <1>1, <2>1, <2>2, <2>3 DEF WriteTemp
<1>10. CopyFits(w)' /\ FileFits(w)' /\ RestartFits(w)'
  BY <1>1, <1>2, <1>3, <1>4, <1>6, <1>7, <1>9 DEF CopyFits, FileFits, RestartFits, Walks, Busy, Alone
<1>11. StoredFits(e) /\ ToldFits(e) /\ RunsAsStarted(e)
  BY <1>3 DEF CoordInv
<1>12. StoredFits(e)'
  BY <1>3, <1>4, <1>9, <1>11, ReadableIsWritten, CoordTypes DEF StoredFits, Walks, Alone, Readable, Torn
<1>13. SavedWhileOpen(e)'
  BY <1>3, <1>4, <1>9 DEF SavedWhileOpen, Alone
<1>14. RunsAsStarted(e)'
  <2>1. AtWork(w, e)'
    BY <1>6, <1>7 DEF AtWork, Busy
  <2>2. main'[e].status = "running" \/ temp'[e].status = "running" =>
          copy.status = "running" \/ main[e].status = "running" \/ temp[e].status = "running"
    BY <1>9, ReadableIsWritten
  <2>3. up /\ kind[e] = "runtime" /\ copy.status = "running" => e \in started
    BY <1>1, <1>2, <1>3 DEF RestartFits
  <2> QED BY <1>4, <1>11, <2>1, <2>2, <2>3 DEF RunsAsStarted
<1>15. main[e] # Absent => main'[e] # Absent
  BY <1>3, <1>9, ReadableIsWritten
<1>16. ToldFits(e)'
  BY <1>3, <1>4, <1>11, <1>15 DEF ToldFits
<1> QED BY <1>1, <1>2, <1>3, <1>4, <1>6, <1>9, <1>10, <1>12, <1>13, <1>14, <1>15, <1>16, CoordTypes, WorkMoves DEF Started

(* renamed, under the handle of any other that has it open;                *)
LEMMA RenameTempKeeps ==
  ASSUME CoordInv, NEW w \in Workers, RenameTemp(w)
  PROVE  CoordInv'
<1>1. PICK e, copy : e = worker[w].doc /\ copy = worker[w].copy
  OBVIOUS
<1>2. Busy(w) /\ Saves(w) /\ worker[w].at = "rename"
  BY <1>1 DEF RenameTemp, Is, Busy, Saves
<1>3. /\ e \in Docs /\ copy \in Written /\ worker[w] \in Worker /\ Walks(e, copy) /\ kind[e] # "task"
      /\ RestartFits(w) /\ SavedWhileOpen(e) /\ ToBeSaved(e) /\ kind[e] # "none"
      /\ Alone(e) => temp[e] = copy
      /\ \A v \in Workers \ {w} : AtWork(v, e) => e \in raced /\ up
  BY <1>1, <1>2, AtWorkIs DEF CopyFits, FileFits
<1>4. UNCHANGED <<kind, events, ragged, attached, up, todo, stops, raced, started>>
  BY DEF RenameTemp, Told, Started
<1>5. /\ main'[e] = temp[e] /\ temp'[e] = Absent /\ temp[e] # Absent
      /\ main' \in [Docs -> Files] /\ temp' \in [Docs -> Files]
      /\ \A d \in Docs \ {e} : main'[d] = main[d] /\ temp'[d] = temp[d]
  BY <1>1, <1>3, CoordTypes DEF RenameTemp, Files
<1>6. PICK moved, new :
        /\ moved = [v \in Workers |->
                      IF v = w \/ worker[v].doc # e THEN worker[v]
                      ELSE [worker[v] EXCEPT !.handle = CASE @ = "temp" -> "main"
                                                          [] @ = "none" -> "none"
                                                          [] OTHER -> "gone"]]
        /\ new = IF Tells(w) THEN [moved[w] EXCEPT !.at = "tell", !.handle = "none"] ELSE Resting
        /\ worker' = [moved EXCEPT ![w] = new]
  BY <1>1 DEF RenameTemp
<1>7. \A v \in Workers \ {w} :
        /\ worker'[v] \in Worker
        /\ worker'[v].at = worker[v].at /\ worker'[v].doc = worker[v].doc /\ worker'[v].copy = worker[v].copy
        /\ worker[v].doc # e => worker'[v].handle = worker[v].handle
  <2> TAKE v \in Workers \ {w}
  <2>1. worker[v] \in Worker /\ worker'[v] = moved[v]
    BY <1>6, CoordTypes
  <2>2. CASE worker[v].doc # e
    BY <1>6, <2>1, <2>2
  <2>3. CASE worker[v].doc = e
    <3>1. PICK h \in {"none", "main", "gone"} : moved[v] = [worker[v] EXCEPT !.handle = h]
      BY <1>6, <2>3
    <3>2. [worker[v] EXCEPT !.handle = h] \in Worker
      BY <2>1, WorkerIs
    <3> QED BY <2>1, <2>3, <3>1, <3>2 DEF Worker
  <2> QED BY <2>2, <2>3
<1>8. /\ new \in Worker /\ new.at \in {"tell", "idle"}
      /\ new.at = "idle" \/ (new.doc = e /\ new.copy = copy /\ Tells(w))
      /\ worker'[w] = new
      /\ DOMAIN worker' = Workers /\ worker' = [v \in Workers |-> worker'[v]]
  <2>1. moved[w] = worker[w] /\ DOMAIN moved = Workers
    BY <1>6
  <2>2. [worker[w] EXCEPT !.at = "tell", !.handle = "none"] \in Worker
    BY <1>3, WorkerIs
  <2>3. /\ [worker[w] EXCEPT !.at = "tell", !.handle = "none"].at = "tell"
        /\ [worker[w] EXCEPT !.at = "tell", !.handle = "none"].doc = e
        /\ [worker[w] EXCEPT !.at = "tell", !.handle = "none"].copy = copy
    BY <1>1, <1>3 DEF Worker
  <2>4. /\ new \in Worker /\ new.at \in {"tell", "idle"}
        /\ new.at = "idle" \/ (new.doc = e /\ new.copy = copy /\ Tells(w))
    BY <1>6, <2>1, <2>2, <2>3, RestingIs
  <2>5. worker'[w] = new /\ DOMAIN worker' = Workers /\ worker' = [v \in Workers |-> worker'[v]]
    BY <1>6, <2>1
  <2> QED BY <2>4, <2>5
<1>9. /\ up /\ kind[e] = "runtime" /\ copy.status = "running" => e \in started
      /\ ~up => kind[e] = "runtime" /\ copy.status = "recovered"
  BY <1>1, <1>2, <1>3 DEF RestartFits
<1>10. Tells(w) => up
  BY <1>1, <1>9 DEF Tells, Announced
<1>11. CopyFits(w)' /\ FileFits(w)' /\ RestartFits(w)'
  <2> SUFFICES ASSUME new.at # "idle" PROVE CopyFits(w)' /\ FileFits(w)' /\ RestartFits(w)'
    BY <1>8 DEF CopyFits, FileFits, RestartFits, Busy
  <2>1. worker'[w].at = "tell" /\ worker'[w].doc = e /\ worker'[w].copy = copy /\ up
    BY <1>8, <1>10
  <2>2. e \notin raced => main'[e] = copy
    BY <1>3, <1>5 DEF Alone
  <2> QED BY <1>3, <1>4, <1>5, <1>9, <2>1, <2>2 DEF CopyFits, FileFits, RestartFits, Walks
<1>12. StoredFits(e) /\ ToldFits(e) /\ RunsAsStarted(e)
  BY <1>3 DEF CoordInv
<1>13. StoredFits(e)'
  <2>1. Readable(temp[e]) => Walks(e, temp[e])
    BY <1>12 DEF StoredFits
  <2>2. main'[e] = Torn => e \in raced
    BY <1>3, <1>5, ReadableIsWritten DEF Alone
  <2>3. ~Readable(Absent)
    BY DEF Readable, Absent
  <2> QED BY <1>3, <1>4, <1>5, <2>1, <2>2, <2>3 DEF StoredFits, Walks
<1>14. SavedWhileOpen(e)'
  <2> SUFFICES ASSUME e \notin raced, ToBeSaved(e)' PROVE ~IsOver(main'[e])
    BY <1>4 DEF SavedWhileOpen
  <2>1. \A v \in Workers : ~(AtWork(v, e) /\ Saves(v))'
    BY <1>3, <1>7, <1>8 DEF AtWork, Busy, Saves
  <2>2. InTodo(e)
    BY <1>4, <1>5, <2>1 DEF ToBeSaved, InTodo
  <2>3. ~up
    BY <2>2, CoordTypes DEF CoordInv, TodoFits, InTodo
  <2>4. main'[e].status = "recovered"
    BY <1>3, <1>5, <1>9, <2>3 DEF Alone
  <2> QED BY <2>4 DEF IsOver
<1>15. RunsAsStarted(e)'
  <2>1. temp'[e].status # "running"
    BY <1>5, ReadableIsWritten
  <2>2. ~up => main'[e].status = "recovered"
    BY <1>3, <1>5, <1>9 DEF Alone
  <2> QED BY <1>4, <1>5, <1>12, <2>1, <2>2 DEF RunsAsStarted
<1>16. ToldFits(e)'
  BY <1>3, <1>4, <1>5 DEF ToldFits
<1>17. /\ Busy(w)' => worker'[w].doc = e /\ worker'[w].copy = worker[w].copy
       /\ main[e] # Absent => main'[e] # Absent
  BY <1>1, <1>5, <1>8 DEF Busy
<1> QED BY <1>1, <1>2, <1>3, <1>4, <1>5, <1>7, <1>8, <1>11, <1>13, <1>14, <1>15, <1>16, <1>17, CoordTypes, WorkGoesOn
        DEF Started

(* or not found.                                                           *)
LEMMA RenameFailsKeeps ==
  ASSUME CoordInv, NEW w \in Workers, RenameFails(w)
  PROVE  CoordInv'
<1>1. PICK e, copy : e = worker[w].doc /\ copy = worker[w].copy
  OBVIOUS
<1>2. Busy(w) /\ Saves(w) /\ worker[w].at = "rename" /\ temp[e] = Absent
  BY <1>1 DEF RenameFails, Is, Busy, Saves
<1>3. e \in Docs /\ kind[e] # "task" /\ ~Alone(e) /\ copy # Absent
  BY <1>1, <1>2, AtWorkIs, ReadableIsWritten DEF CopyFits, FileFits
<1>4. UNCHANGED <<kind, main, temp, events, ragged, attached, up, todo, stops, raced, started>>
  BY DEF RenameFails, Told, Started, Stored
<1>5. worker' = [worker EXCEPT ![w] = Resting]
  BY DEF RenameFails, Rests
<1>6. StoredFits(e) /\ ToldFits(e) /\ RunsAsStarted(e)
  BY <1>3 DEF CoordInv
<1>7. StoredFits(e)' /\ SavedWhileOpen(e)' /\ RunsAsStarted(e)' /\ ToldFits(e)'
  BY <1>3, <1>4, <1>6 DEF StoredFits, Walks, SavedWhileOpen, RunsAsStarted, ToldFits, Alone
<1> QED BY <1>1, <1>2, <1>3, <1>4, <1>5, <1>7, CoordTypes, RestingIs, WorkMoves DEF Started

(* One more line in the log.                                               *)
LEMMA PublishKeeps ==
  ASSUME CoordInv, NEW w \in Workers, Publish(w)
  PROVE  CoordInv'
<1>1. PICK e, copy : e = worker[w].doc /\ copy = worker[w].copy
  OBVIOUS
<1>2. Busy(w) /\ worker[w].at = "tell"
  BY DEF Publish, Is, Busy
<1>3. /\ e \in Docs /\ copy \in Written /\ main[e] # Absent /\ (e \notin raced => main[e] = copy) /\ up
      /\ \A v \in Workers \ {w} : AtWork(v, e) => e \in raced
  BY <1>1, <1>2, AtWorkIs, CoordTypes DEF CopyFits, RestartFits
<1>4. UNCHANGED <<kind, main, temp, attached, up, todo, stops, raced, started>> /\ ragged' = FALSE
  BY DEF Publish, Stored, Started
<1>5. worker' = [worker EXCEPT ![w] = Resting]
  BY DEF Publish, Rests
<1>6. worker'[w].at = "idle" /\ \A v \in Workers \ {w} : worker'[v] = worker[v]
  BY <1>5, CoordTypes, RestingIs
<1>7. copy.status \in Statuses /\ "completed" \in Statuses
  BY <1>3, TablesLead, StatusesAre, KindsAre DEF Written, Statuses, Moves, TaskMoves
<1>8. /\ events' \in [Docs -> [Statuses -> Nat]] /\ \A d \in Docs \ {e} : events'[d] = events[d]
      /\ \A st \in Statuses : events'[e][st] = IF ~ragged /\ st = copy.status THEN events[e][st] + 1 ELSE events[e][st]
  <2>1. CASE ragged
    BY <2>1, CoordTypes DEF Publish
  <2>2. CASE ~ragged
    <3>1. events' = [events EXCEPT ![e] = [events[e] EXCEPT ![copy.status] = events[e][copy.status] + 1]]
      BY <1>1, <2>2 DEF Publish
    <3>2. events[e] \in [Statuses -> Nat] /\ events[e][copy.status] + 1 \in Nat
      BY <1>3, <1>7, CoordTypes
    <3> QED BY <1>3, <1>7, <2>2, <3>1, <3>2, CoordTypes
  <2> QED BY <2>1, <2>2
<1>9. StoredFits(e) /\ ToldFits(e) /\ RunsAsStarted(e) /\ SavedWhileOpen(e)
  BY <1>3 DEF CoordInv
<1>10. StoredFits(e)' /\ RunsAsStarted(e)'
  BY <1>3, <1>4, <1>9 DEF StoredFits, Walks, RunsAsStarted
<1>11. SavedWhileOpen(e)'
  <2>1. ToBeSaved(e)' => ToBeSaved(e)
    BY <1>4, <1>6 DEF ToBeSaved, AtWork, Saves, Busy, InTodo
  <2> QED BY <1>4, <1>9, <2>1 DEF SavedWhileOpen
<1>12. ToldFits(e)'
  <2>1. CASE e \in raced
    BY <1>3, <1>4, <2>1 DEF ToldFits
  <2>2. CASE e \notin raced
    <3>1. \A v \in Workers : ~AtWork(v, e)'
      BY <1>3, <1>6, <2>2 DEF AtWork, Busy
    <3>2. main[e] = copy /\ events[e]["completed"] \in Nat
      BY <1>3, <1>7, <2>2, CoordTypes
    <3>3. stops = 0 => ~ragged
      BY DEF CoordInv
    <3>4. kind[e] = "task" /\ copy.status = "completed" => events[e]["completed"] = 0
      <4>1. AtWork(w, e) /\ Is(w, "tell") /\ worker[w].copy.status = copy.status
        BY <1>1, <1>2 DEF AtWork, Is
      <4> QED BY <1>9, <2>2, <3>2, <4>1 DEF ToldFits
    <3>5. kind[e] = "task" /\ copy.status # "completed" => events[e]["completed"] = 0
      BY <1>9, <2>2, <3>2 DEF ToldFits
    <3>6. /\ kind[e] = "task" => /\ events'[e]["completed"] \in {0, 1}
                                 /\ events'[e]["completed"] > 0 => copy.status = "completed"
          /\ kind[e] = "task" /\ copy.status = "completed" /\ stops = 0 => events'[e]["completed"] = 1
      BY <1>7, <1>8, <3>3, <3>4, <3>5
    <3> QED BY <1>3, <1>4, <3>1, <3>2, <3>6 DEF ToldFits
  <2> QED BY <2>1, <2>2
<1> QED BY <1>1, <1>2, <1>3, <1>4, <1>5, <1>8, <1>10, <1>11, <1>12, CoordTypes, RestingIs, WorkMoves DEF Started

(* One more session that an approval names.                                *)
LEMMA AttachKeeps ==
  ASSUME CoordInv, NEW w \in Workers, AttachSession(w)
  PROVE  CoordInv'
<1>1. PICK e, copy : e = worker[w].doc /\ copy = worker[w].copy
  OBVIOUS
<1>2. Busy(w) /\ worker[w].at = "tell" /\ kind[e] = "session"
  BY <1>1 DEF AttachSession, Is, Busy
<1>3. e \in Docs /\ main[e] # Absent /\ up
  BY <1>1, <1>2, AtWorkIs, CoordTypes DEF CopyFits, RestartFits
<1>4. UNCHANGED <<kind, main, temp, events, ragged, up, todo, stops, raced, started>>
  BY DEF AttachSession, Stored, Started
<1>5. worker' = [worker EXCEPT ![w] = Resting] /\ attached' \in {attached, attached \cup {e}}
  BY <1>1 DEF AttachSession, Rests
<1>6. worker'[w].at = "idle" /\ \A v \in Workers \ {w} : worker'[v] = worker[v]
  BY <1>5, CoordTypes, RestingIs
<1>7. StoredFits(e) /\ ToldFits(e) /\ RunsAsStarted(e) /\ SavedWhileOpen(e)
  BY <1>3 DEF CoordInv
<1>8. StoredFits(e)' /\ RunsAsStarted(e)' /\ ToldFits(e)'
  BY <1>2, <1>3, <1>4, <1>7 DEF StoredFits, Walks, RunsAsStarted, ToldFits
<1>9. SavedWhileOpen(e)'
  <2>1. ToBeSaved(e)' => ToBeSaved(e)
    BY <1>4, <1>6 DEF ToBeSaved, AtWork, Saves, Busy, InTodo
  <2> QED BY <1>4, <1>7, <2>1 DEF SavedWhileOpen
<1>10. attached' \subseteq Docs /\ \A d \in Docs \ {e} : d \in attached' <=> d \in attached
  BY <1>3, <1>5, CoordTypes
<1> QED BY <1>1, <1>2, <1>3, <1>4, <1>5, <1>8, <1>9, <1>10, CoordTypes, RestingIs, WorkMoves DEF Started

(* A request begins, or the startup takes up a runtime: what is left to    *)
(* show.                                                                   *)
LEMMA WorkBegins ==
  ASSUME CoordInv, NEW w \in Workers, ~Busy(w), NEW e \in Docs,
         NEW copy \in Written, NEW creates \in BOOLEAN,
         worker' = [worker EXCEPT ![w] = Holding(e, copy, creates)],
         kind' \in [Docs -> Kinds \cup {"none"}], Walks(e, copy)',
         \A d \in Docs \ {e} : kind'[d] = kind[d] /\ (d \in raced' <=> d \in raced) /\ (InTodo(d)' <=> InTodo(d)),
         kind[e] # "none" => kind'[e] = kind[e],
         todo' \subseteq todo, raced' \subseteq Docs, started' \subseteq Docs,
         raced \subseteq raced', started \subseteq started',
         UNCHANGED <<Stored, Told, up, stops>>,
         \A v \in Workers \ {w} : AtWork(v, e) => e \in raced',
         up \/ \A v \in Workers : ~Busy(v),
         up /\ kind'[e] = "runtime" /\ copy.status = "running" => e \in started',
         ~up => kind'[e] = "runtime" /\ copy.status = "recovered",
         StoredFits(e)', e \notin raced' => ~IsOver(main[e]), RunsAsStarted(e)',
         kind'[e] = kind[e] \/ (e \notin attached /\ \A st \in Statuses : ~(events[e][st] > 0)),
         kind'[e] = kind[e] \/ main[e] = Absent
  PROVE  CoordInv'
<1>1. PICK new : new = Holding(e, copy, creates)
  OBVIOUS
<1>2. /\ new \in Worker /\ new.at = "save" /\ new.doc = e /\ new.copy = copy
  BY <1>1 DEF Holding, Worker
<1>3. worker'[w] = new /\ \A v \in Workers \ {w} : worker'[v] = worker[v]
  BY <1>1, CoordTypes
<1>4. UNCHANGED <<main, temp, events, attached, ragged, up, stops>>
  BY DEF Stored, Told
<1>5. CoordTypeOK'
  <2>1. worker' \in [Workers -> Worker]
    BY <1>1, <1>2, CoordTypes
  <2> QED BY <1>4, <2>1 DEF CoordInv, CoordTypeOK
<1>6. StepsOn(w, e)
  <2>1. Busy(w)' => worker'[w].doc = e
    BY <1>2, <1>3
  <2> QED BY <1>3, <1>4, <2>1 DEF StepsOn
<1>7. TodoFits'
  <2> SUFFICES ASSUME NEW r \in todo'
               PROVE  /\ ~up
                      /\ r.doc \in Docs /\ kind'[r.doc] = "runtime" /\ r.copy.status = "running"
                      /\ Walks(r.doc, r.copy)'
    BY <1>4 DEF TodoFits
  <2>1. /\ ~up /\ r.doc \in Docs /\ kind[r.doc] = "runtime" /\ r.copy.status = "running"
        /\ Walks(r.doc, r.copy)
    BY CoordTypes DEF CoordInv, TodoFits
  <2>2. kind'[r.doc] = kind[r.doc]
    BY <2>1
  <2> QED BY <2>1, <2>2 DEF Walks
<1>8. CopyFits(w)' /\ FileFits(w)' /\ RestartFits(w)'
  BY <1>2, <1>3, <1>4 DEF CopyFits, FileFits, RestartFits
<1>9. SavedWhileOpen(e)'
  BY <1>4 DEF SavedWhileOpen
<1>10. ToldFits(e)
  BY DEF CoordInv
<1>11. ToldFits(e)'
  <2>1. CASE kind'[e] = kind[e]
    <3>1. \A v \in Workers :
            (AtWork(v, e) /\ Is(v, "tell") /\ worker[v].copy.status = "completed")'
            <=> AtWork(v, e) /\ Is(v, "tell") /\ worker[v].copy.status = "completed"
      BY <1>2, <1>3 DEF AtWork, Is, Busy
    <3> QED BY <1>4, <1>10, <2>1, <3>1 DEF ToldFits
  <2>2. CASE kind'[e] # kind[e]
    <3>1. main[e].status # "completed" /\ e \notin attached /\ \A st \in Statuses : ~(events[e][st] > 0)
      BY <2>2, ReadableIsWritten
    <3>2. "completed" \in Statuses
      BY StatusesAre, KindsAre DEF Statuses, Moves, TaskMoves
    <3>3. events[e]["completed"] \in Nat
      BY <3>2, CoordTypes
    <3> QED BY <1>4, <3>1, <3>2, <3>3 DEF ToldFits
  <2> QED BY <2>1, <2>2
<1>12. ragged' => stops' > 0
  BY <1>4 DEF CoordInv
<1> QED BY <1>5, <1>6, <1>7, <1>8, <1>9, <1>11, <1>12, OneSteps

(* A new document is in its first status.                                  *)
LEMMA CreateKeeps ==
  ASSUME CoordInv, NEW w \in Workers, NEW e \in Docs, NEW k \in Kinds, CreateDoc(w, e, k)
  PROVE  CoordInv'
<1>1. PICK copy : copy = Moved(Absent, First[k])
  OBVIOUS
<1>2. ~Busy(w) /\ up /\ kind[e] = "none" /\ "none" \notin Kinds
  BY KindsAre DEF CreateDoc, Busy, Is
<1>3. copy \in Written /\ LegalWalk(k, copy) /\ copy.status = First[k]
  BY <1>1, WalkBegins
<1>4. worker' = [worker EXCEPT ![w] = Holding(e, copy, TRUE)]
  BY <1>1 DEF CreateDoc
<1>5. UNCHANGED <<main, temp, events, attached, ragged, up, todo, stops, raced, started>>
  BY DEF CreateDoc, Stored, Told, Started
<1>6. /\ kind' \in [Docs -> Kinds \cup {"none"}] /\ kind'[e] = k
      /\ \A d \in Docs \ {e} : kind'[d] = kind[d]
  BY CoordTypes DEF CreateDoc
<1>7. main[e] = Absent /\ temp[e] = Absent
  BY <1>2 DEF CoordInv, StoredFits
<1>8. \A v \in Workers : ~AtWork(v, e)
  BY <1>2, AtWorkIs DEF AtWork
<1>9. StoredFits(e)' /\ RunsAsStarted(e)'
  BY <1>2, <1>5, <1>6, <1>7, ReadableIsWritten DEF StoredFits, RunsAsStarted, Readable, Absent
<1>10. ~IsOver(main[e])
  BY <1>7, ReadableIsWritten DEF IsOver
<1>11. e \notin attached /\ \A st \in Statuses : ~(events[e][st] > 0)
  BY <1>7 DEF CoordInv, ToldFits
<1>12. k = "runtime" => copy.status # "running"
  BY <1>3 DEF First
<1>13. \A d \in Docs : InTodo(d)' <=> InTodo(d)
  BY <1>5 DEF InTodo
<1>14. Walks(e, copy)'
  BY <1>3, <1>6 DEF Walks
<1>15. raced \subseteq Docs /\ started \subseteq Docs
  BY DEF CoordInv, CoordTypeOK
<1> QED BY <1>2, <1>3, <1>4, <1>5, <1>6, <1>7, <1>8, <1>9, <1>10, <1>11, <1>12, <1>13, <1>14, <1>15, WorkBegins
        DEF Stored, Told

(* A stored one is moved, perhaps by several at once.                      *)
LEMMA MoveKeeps ==
  ASSUME CoordInv, NEW w \in Workers, NEW e \in Docs, NEW st \in Statuses, MoveDoc(w, e, st)
  PROVE  CoordInv'
<1>1. PICK copy : copy = Moved(main[e], st)
  OBVIOUS
<1>2. ~Busy(w) /\ up /\ Readable(main[e]) /\ st \in Moves[kind[e]][main[e].status]
  BY DEF MoveDoc, Busy, Is
<1>3. Walks(e, main[e]) /\ main[e] \in Written /\ kind[e] \in Kinds
  BY <1>2 DEF CoordInv, StoredFits, Walks
<1>4. copy \in Written /\ LegalWalk(kind[e], copy) /\ copy.status = st /\ ~IsOver(main[e])
  BY <1>1, <1>2, <1>3, WalkGoesOn DEF Walks
<1>5. worker' = [worker EXCEPT ![w] = Holding(e, copy, FALSE)]
  BY <1>1 DEF MoveDoc
<1>6. UNCHANGED <<kind, main, temp, events, attached, ragged, up, todo, stops>>
  BY DEF MoveDoc, Stored, Told, Started
<1>7. raced \subseteq Docs /\ started \subseteq Docs
  BY DEF CoordInv, CoordTypeOK
<1>8. /\ raced \subseteq raced' /\ raced' \subseteq raced \cup {e}
      /\ started \subseteq started' /\ started' \subseteq started \cup {e}
      /\ st = "running" => e \in started'
  BY DEF MoveDoc
<1>9. \A v \in Workers \ {w} : AtWork(v, e) => e \in raced'
  BY DEF MoveDoc, Holders, AtWork
<1>10. StoredFits(e)' /\ RunsAsStarted(e)'
  <2>1. StoredFits(e) /\ RunsAsStarted(e)
    BY DEF CoordInv
  <2> QED BY <1>2, <1>6, <1>8, <2>1 DEF StoredFits, RunsAsStarted, Walks
<1>11. \A d \in Docs : InTodo(d)' <=> InTodo(d)
  BY <1>6 DEF InTodo
<1>12. Walks(e, copy)'
  BY <1>3, <1>4, <1>6 DEF Walks
<1>13. raced' \subseteq Docs /\ started' \subseteq Docs /\ \A d \in Docs \ {e} : d \in raced' <=> d \in raced
  BY <1>7, <1>8
<1> QED BY <1>2, <1>4, <1>5, <1>6, <1>8, <1>9, <1>10, <1>11, <1>12, <1>13, CoordTypes, WorkBegins
        DEF Stored, Told

(* The startup moves a runtime that was running.                           *)
LEMMA RecoverKeeps ==
  ASSUME CoordInv, NEW w \in Workers, NEW r \in todo, RecoverNext(w, r)
  PROVE  CoordInv'
<1>1. PICK e, copy : e = r.doc /\ copy = Moved(r.copy, "recovered")
  OBVIOUS
<1>2. ~up /\ \A v \in Workers : ~Busy(v)
  BY DEF RecoverNext, Busy, Is
<1>3. e \in Docs /\ kind[e] = "runtime" /\ r.copy.status = "running" /\ Walks(e, r.copy)
  BY <1>1 DEF CoordInv, TodoFits
<1>4. copy \in Written /\ LegalWalk(kind[e], copy) /\ copy.status = "recovered"
  <2>1. "recovered" \in Moves[kind[e]][r.copy.status]
    BY <1>3 DEF Moves, RuntimeMoves
  <2> QED BY <1>1, <1>3, <2>1, WalkGoesOn DEF Walks
<1>5. worker' = [worker EXCEPT ![w] = Holding(e, copy, FALSE)] /\ todo' = todo \ {r}
  BY <1>1 DEF RecoverNext
<1>6. UNCHANGED <<kind, main, temp, events, attached, ragged, up, stops, raced, started>>
  BY DEF RecoverNext, Stored, Told
<1>7. raced \subseteq Docs /\ started \subseteq Docs
  BY DEF CoordInv, CoordTypeOK
<1>8. StoredFits(e)'
  BY <1>3, <1>6 DEF CoordInv, StoredFits, Walks
<1>9. RunsAsStarted(e)'
  <2>1. AtWork(w, e)'
    BY <1>5, CoordTypes DEF AtWork, Busy, Holding
  <2> QED BY <1>2, <1>6, <2>1, CoordTypes DEF RunsAsStarted
<1>10. e \notin raced => ~IsOver(main[e])
  <2>1. ToBeSaved(e)
    BY <1>1 DEF ToBeSaved, InTodo
  <2> QED BY <1>3, <2>1 DEF CoordInv, SavedWhileOpen
<1>11. \A d \in Docs \ {e} : InTodo(d)' <=> InTodo(d)
  BY <1>1, <1>5 DEF InTodo
<1>12. Walks(e, copy)'
  BY <1>3, <1>4, <1>6 DEF Walks
<1>13. \A v \in Workers \ {w} : ~AtWork(v, e)
  BY <1>2 DEF AtWork
<1> QED BY <1>2, <1>3, <1>4, <1>5, <1>6, <1>7, <1>8, <1>9, <1>10, <1>11, <1>12, <1>13, CoordTypes, WorkBegins
        DEF Stored, Told

(* The process stops, or its startup does: nobody is at work, and all that *)
(* is said to run is to be recovered.                                      *)
LEMMA StopKeeps ==
  ASSUME CoordInv, worker' = [w \in Workers |-> Resting], todo' = InterruptedRuntimes, up' = FALSE,
         UNCHANGED <<kind, Stored, events, attached, raced>>,
         stops' = stops + 1, stops' \in 0..MaxStops, ragged' \in BOOLEAN, started' \subseteq Docs
  PROVE  CoordInv'
<1>1. /\ kind' = kind /\ main' = main /\ temp' = temp /\ events' = events /\ attached' = attached
      /\ raced' = raced
  BY DEF Stored
<1>2. \A w \in Workers : ~Busy(w)' /\ worker'[w] \in Worker
  BY RestingIs DEF Busy
<1>3. \A w \in Workers, d \in Docs : ~AtWork(w, d)'
  BY <1>2 DEF AtWork
<1>4. ASSUME NEW r \in todo'
      PROVE  /\ r.doc \in Docs /\ kind[r.doc] = "runtime" /\ r.copy.status = "running"
             /\ Walks(r.doc, r.copy) /\ r \in [doc: Docs, copy: Written]
             /\ r.copy \in {main[r.doc], temp[r.doc]}
  <2>1. /\ r \in [doc: Docs, copy: {main[d] : d \in Docs} \cup {temp[d] : d \in Docs}]
        /\ kind[r.doc] = "runtime" /\ r.copy \in {main[r.doc], temp[r.doc]} /\ r.copy.status = "running"
    BY <1>4 DEF InterruptedRuntimes
  <2>2. r.doc \in Docs /\ Readable(r.copy) /\ r = [doc |-> r.doc, copy |-> r.copy]
    BY <2>1 DEF Readable
  <2>3. StoredFits(r.doc)
    BY <2>2 DEF CoordInv
  <2>4. Walks(r.doc, r.copy)
    BY <2>1, <2>2, <2>3 DEF StoredFits
  <2>5. r \in [doc: Docs, copy: Written]
    BY <2>2, <2>4 DEF Walks
  <2> QED BY <2>1, <2>2, <2>4, <2>5
<1>5. CoordTypeOK'
  <2>1. worker' \in [Workers -> Worker]
    BY RestingIs
  <2>2. todo' \subseteq [doc: Docs, copy: Written]
    BY <1>4
  <2> QED BY <1>1, <2>1, <2>2 DEF CoordInv, CoordTypeOK
<1>6. NobodyMeets' /\ \A w \in Workers : CopyFits(w)' /\ FileFits(w)' /\ RestartFits(w)'
  BY <1>2, <1>3 DEF NobodyMeets, CopyFits, FileFits, RestartFits
<1>7. TodoFits'
  BY <1>1, <1>4 DEF TodoFits, Walks
<1>8. ASSUME NEW d \in Docs PROVE StoredFits(d)' /\ SavedWhileOpen(d)' /\ RunsAsStarted(d)' /\ ToldFits(d)'
  <2>1. StoredFits(d) /\ SavedWhileOpen(d) /\ ToldFits(d)
    BY DEF CoordInv
  <2>2. StoredFits(d)'
    BY <1>1, <2>1 DEF StoredFits, Walks
  <2>3. SavedWhileOpen(d)'
    <3>1. ASSUME ToBeSaved(d)' PROVE temp[d] # Absent \/ main[d].status = "running"
      <4>1. temp[d] # Absent \/ InTodo(d)'
        BY <1>1, <1>3, <3>1 DEF ToBeSaved
      <4>2. ASSUME InTodo(d)' PROVE temp[d] # Absent \/ main[d].status = "running"
        <5>1. PICK r \in todo' : r.doc = d
          BY <4>2 DEF InTodo
        <5>2. r.copy \in {main[d], temp[d]} /\ r.copy.status = "running"
          BY <1>4, <5>1
        <5> QED BY <5>2, ReadableIsWritten
      <4> QED BY <4>1, <4>2
    <3>2. temp[d] # Absent => ToBeSaved(d)
      BY DEF ToBeSaved
    <3>3. main[d].status = "running" => ~IsOver(main[d])
      BY DEF IsOver
    <3>4. main'[d] = main[d] /\ (d \in raced' <=> d \in raced)
      BY <1>1
    <3>5. ASSUME d \notin raced, ToBeSaved(d)' PROVE ~IsOver(main[d])
      BY <2>1, <3>1, <3>2, <3>3, <3>5 DEF SavedWhileOpen
    <3>6. IsOver(main'[d]) <=> IsOver(main[d])
      BY <3>4
    <3> QED BY <3>4, <3>5, <3>6 DEF SavedWhileOpen
  <2>4. RunsAsStarted(d)'
    <3>1. ASSUME kind[d] = "runtime", main[d].status = "running" \/ temp[d].status = "running"
          PROVE  InTodo(d)'
      <4>1. PICK copy \in {main[d], temp[d]} : copy.status = "running"
        BY <3>1
      <4>2. PICK r : r = [doc |-> d, copy |-> copy]
        OBVIOUS
      <4>3. r.doc = d /\ r.copy = copy
        BY <4>2
      <4>4. r \in InterruptedRuntimes
        BY <3>1, <4>1, <4>2, <4>3 DEF InterruptedRuntimes
      <4> QED BY <4>3, <4>4 DEF InTodo
    <3> QED BY <1>1, <3>1 DEF RunsAsStarted
  <2>5. ToldFits(d)'
    <3>1. stops \in Nat /\ stops' # 0
      BY DEF CoordInv, CoordTypeOK
    <3> QED BY <1>1, <1>3, <2>1, <3>1 DEF ToldFits
  <2> QED BY <2>2, <2>3, <2>4, <2>5
<1>9. ragged' => stops' > 0
  BY DEF CoordInv, CoordTypeOK
<1> QED BY <1>5, <1>6, <1>7, <1>8, <1>9 DEF CoordInv

(* The startup is over: nothing that is said to run is left.               *)
LEMMA ServeKeeps ==
  ASSUME CoordInv, Serve
  PROVE  CoordInv'
<1>1. /\ UNCHANGED <<kind, main, temp, worker, todo, events, ragged, attached, stops, raced, started>>
      /\ up' = TRUE /\ ~up /\ todo = {}
  BY DEF Serve, Stored, Told
<1>2. \A w \in Workers : ~Busy(w) /\ ~Busy(w)'
  BY <1>1 DEF Serve, Is, Busy
<1>3. \A w \in Workers, d \in Docs : ~AtWork(w, d) /\ ~AtWork(w, d)'
  BY <1>2 DEF AtWork
<1>4. CoordTypeOK' /\ NobodyMeets' /\ TodoFits' /\ (ragged' => stops' > 0)
  BY <1>1, <1>2, <1>3 DEF CoordInv, CoordTypeOK, NobodyMeets, TodoFits
<1>5. \A w \in Workers : CopyFits(w)' /\ FileFits(w)' /\ RestartFits(w)'
  BY <1>2 DEF CopyFits, FileFits, RestartFits
<1>6. ASSUME NEW d \in Docs PROVE StoredFits(d)' /\ SavedWhileOpen(d)' /\ RunsAsStarted(d)' /\ ToldFits(d)'
  <2>1. StoredFits(d) /\ SavedWhileOpen(d) /\ RunsAsStarted(d) /\ ToldFits(d)
    BY DEF CoordInv
  <2>2. StoredFits(d)'
    BY <1>1, <2>1 DEF StoredFits, Walks
  <2>3. SavedWhileOpen(d)'
    BY <1>1, <1>3, <2>1 DEF SavedWhileOpen, ToBeSaved, InTodo
  <2>4. RunsAsStarted(d)'
    BY <1>1, <1>3, <2>1 DEF RunsAsStarted, InTodo
  <2>5. ToldFits(d)'
    BY <1>1, <1>3, <2>1 DEF ToldFits
  <2> QED BY <2>2, <2>3, <2>4, <2>5
<1> QED BY <1>4, <1>5, <1>6 DEF CoordInv

-----------------------------------------------------------------------------
(* Nothing was made yet.                                                   *)
LEMMA CoordStart == CoordInit => CoordInv
<1> SUFFICES ASSUME CoordInit PROVE CoordInv
  OBVIOUS
<1>1. \A w \in Workers : worker[w] = Resting /\ ~Busy(w)
  BY RestingIs DEF CoordInit, Busy
<1>2. \A w \in Workers, d \in Docs : ~AtWork(w, d)
  BY <1>1 DEF AtWork
<1>3. CoordTypeOK
  <2>1. worker \in [Workers -> Worker]
    BY RestingIs DEF CoordInit
  <2>2. events \in [Docs -> [Statuses -> Nat]]
    BY DEF CoordInit
  <2>3. stops \in 0..MaxStops
    BY CoordAssumption DEF CoordInit
  <2>4. kind \in [Docs -> Kinds \cup {"none"}] /\ main \in [Docs -> {Absent}] /\ temp \in [Docs -> {Absent}]
    BY DEF CoordInit
  <2> QED BY <2>1, <2>2, <2>3, <2>4 DEF CoordInit, CoordTypeOK
<1>4. NobodyMeets /\ TodoFits
  BY <1>1, <1>2 DEF CoordInit, NobodyMeets, TodoFits
<1>5. \A w \in Workers : CopyFits(w) /\ FileFits(w) /\ RestartFits(w)
  BY <1>1 DEF CopyFits, FileFits, RestartFits
<1>6. ASSUME NEW d \in Docs PROVE StoredFits(d) /\ SavedWhileOpen(d) /\ RunsAsStarted(d) /\ ToldFits(d)
  <2>1. main[d] = Absent /\ temp[d] = Absent /\ kind[d] = "none" /\ d \notin attached
    BY DEF CoordInit
  <2>2. \A st \in Statuses : events[d][st] = 0
    BY DEF CoordInit
  <2>3. StoredFits(d)
    BY <2>1, ReadableIsWritten DEF StoredFits, Files
  <2>4. SavedWhileOpen(d)
    BY <2>1, ReadableIsWritten DEF SavedWhileOpen, IsOver
  <2> QED BY <2>1, <2>2, <2>3, <2>4 DEF RunsAsStarted, ToldFits
<1> QED BY <1>3, <1>4, <1>5, <1>6 DEF CoordInit, CoordInv

(* Every step keeps the invariant.                                         *)
LEMMA CoordStep == CoordInv /\ [CoordNext]_coordVars => CoordInv'
<1> SUFFICES ASSUME CoordInv, [CoordNext]_coordVars PROVE CoordInv'
  OBVIOUS
<1>1. ASSUME NEW w \in Workers, Request(w) PROVE CoordInv'
  <2>1. ASSUME NEW d \in Docs, \/ CreateSession(w, d) \/ CreateAgent(w, d) \/ CreateTeam(w, d)
                              \/ CreateRuntime(w, d) \/ CreateTask(w, d)
        PROVE CoordInv'
    <3>1. PICK k \in Kinds : CreateDoc(w, d, k)
      BY <2>1, KindsAre DEF CreateSession, CreateAgent, CreateTeam, CreateRuntime, CreateTask
    <3> QED BY <3>1, CreateKeeps
  <2>2. ASSUME NEW d \in Docs, NEW st \in Statuses,
               \/ MoveSession(w, d, st) \/ MoveAgent(w, d, st) \/ MoveTeam(w, d, st)
               \/ MoveRuntime(w, d, st) \/ MoveTask(w, d, st)
        PROVE CoordInv'
    <3>1. MoveDoc(w, d, st)
      BY <2>2 DEF MoveSession, MoveAgent, MoveTeam, MoveRuntime, MoveTask
    <3> QED BY <3>1, MoveKeeps
  <2>3. CASE SaveRow(w)
    BY <2>3, SaveRowKeeps
  <2>4. CASE OpenTemp(w)
    BY <2>4, OpenTempKeeps
  <2>5. CASE WriteTemp(w)
    BY <2>5, WriteTempKeeps
  <2>6. CASE RenameTemp(w)
    BY <2>6, RenameTempKeeps
  <2>7. CASE RenameFails(w)
    BY <2>7, RenameFailsKeeps
  <2>8. CASE Publish(w)
    BY <2>8, PublishKeeps
  <2>9. CASE AttachSession(w)
    BY <2>9, AttachKeeps
  <2>10. CASE \E r \in todo : RecoverNext(w, r)
    BY <2>10, RecoverKeeps
  <2> QED BY <1>1, <2>1, <2>2, <2>3, <2>4, <2>5, <2>6, <2>7, <2>8, <2>9, <2>10 DEF Request
<1>2. CASE Stop
  <2>1. stops \in 0..MaxStops /\ ragged \in BOOLEAN /\ MaxStops \in Nat
    BY CoordAssumption DEF CoordInv, CoordTypeOK
  <2>2. stops' = stops + 1 /\ stops' \in 0..MaxStops
    BY <1>2, <2>1 DEF Stop
  <2>3. ragged' \in BOOLEAN
    BY <1>2, <2>1 DEF Stop
  <2> QED BY <1>2, <2>2, <2>3, StopKeeps DEF Stop
<1>3. CASE StopStartup
  <2>1. stops \in 0..MaxStops /\ MaxStops \in Nat /\ up \in BOOLEAN /\ ragged \in BOOLEAN /\ started \subseteq Docs
    BY CoordAssumption DEF CoordInv, CoordTypeOK
  <2>2. stops' = stops + 1 /\ stops' \in 0..MaxStops
    BY <1>3, <2>1 DEF StopStartup
  <2>3. up' = FALSE /\ ragged' \in BOOLEAN /\ started' \subseteq Docs
    BY <1>3, <2>1 DEF StopStartup, Told
  <2>4. UNCHANGED <<kind, Stored, events, attached, raced>>
    BY <1>3 DEF StopStartup, Told
  <2> QED BY <1>3, <2>2, <2>3, <2>4, StopKeeps DEF StopStartup
<1>4. CASE Serve
  BY <1>4, ServeKeeps
<1>5. CASE UNCHANGED coordVars
  <2>1. UNCHANGED <<kind, main, temp, worker, up, todo, events, ragged, attached, stops, raced, started>>
    BY <1>5 DEF coordVars
  <2>2. CoordTypeOK' /\ NobodyMeets' /\ TodoFits' /\ (ragged' => stops' > 0)
    BY <2>1 DEF CoordInv, CoordTypeOK, NobodyMeets, TodoFits, Busy, AtWork, Walks
  <2>3. \A w \in Workers : CopyFits(w)' /\ FileFits(w)' /\ RestartFits(w)'
    BY <2>1 DEF CoordInv, CopyFits, FileFits, RestartFits, Busy, Walks, Alone
  <2>4. \A d \in Docs : StoredFits(d)' /\ SavedWhileOpen(d)' /\ RunsAsStarted(d)' /\ ToldFits(d)'
    <3> TAKE d \in Docs
    <3>1. StoredFits(d) /\ SavedWhileOpen(d) /\ RunsAsStarted(d) /\ ToldFits(d)
      BY DEF CoordInv
    <3>2. \A w \in Workers : AtWork(w, d)' <=> AtWork(w, d)
      BY <2>1 DEF AtWork, Busy
    <3>3. StoredFits(d)' /\ SavedWhileOpen(d)'
      BY <2>1, <3>1, <3>2 DEF StoredFits, Walks, SavedWhileOpen, ToBeSaved, Saves, InTodo
    <3>4. RunsAsStarted(d)' /\ ToldFits(d)'
      BY <2>1, <3>1, <3>2 DEF RunsAsStarted, ToldFits, InTodo, Is
    <3> QED BY <3>3, <3>4
  <2> QED BY <2>2, <2>3, <2>4 DEF CoordInv
<1> QED BY <1>1, <1>2, <1>3, <1>4, <1>5 DEF CoordNext

(* What the invariant says to a reader of the files and of the log.        *)
LEMMA CoordSays ==
  CoordInv => /\ CoordTypeOK /\ HistoryIsLegalWalk /\ DocumentsStayWhole
              /\ NoRuntimeResumesByItself /\ CompletionIsAnnounced /\ NamedExists
<1> SUFFICES ASSUME CoordInv
             PROVE  /\ CoordTypeOK /\ HistoryIsLegalWalk /\ DocumentsStayWhole
                    /\ NoRuntimeResumesByItself /\ CompletionIsAnnounced /\ NamedExists
  OBVIOUS
<1>1. CoordTypeOK
  BY DEF CoordInv
<1>2. HistoryIsLegalWalk /\ DocumentsStayWhole
  BY DEF CoordInv, StoredFits, Walks, HistoryIsLegalWalk, DocumentsStayWhole
<1>3. NoRuntimeResumesByItself
  BY DEF CoordInv, RunsAsStarted, NoRuntimeResumesByItself
<1>4. CompletionIsAnnounced
  <2> SUFFICES ASSUME NEW d \in Docs, kind[d] = "task", d \notin raced
               PROVE  /\ events[d]["completed"] > 0 => main[d].status = "completed"
                      /\ main[d].status = "completed" /\ stops = 0 /\ (\A w \in Workers : worker[w].doc # d)
                           => events[d]["completed"] = 1
    BY DEF CompletionIsAnnounced
  <2>1. ToldFits(d)
    BY DEF CoordInv
  <2> QED BY <2>1 DEF ToldFits, AtWork
<1>5. NamedExists
  BY DEF CoordInv, ToldFits, NamedExists
<1> QED BY <1>1, <1>2, <1>3, <1>4, <1>5

(* Only who saves a document changes it, and only one that was open.       *)
LEMMA OverStays ==
  ASSUME CoordInv, [CoordNext]_coordVars, NEW d \in Docs, IsOver(main[d]), d \notin raced
  PROVE  main'[d] = main[d]
<1>1. ASSUME NEW w \in Workers, SaveRow(w) \/ WriteTemp(w) \/ RenameTemp(w) PROVE main'[d] = main[d]
  <2>1. PICK e : e = worker[w].doc
    OBVIOUS
  <2>2. Busy(w) /\ Saves(w)
    BY <1>1 DEF SaveRow, WriteTemp, RenameTemp, Is, Busy, Saves
  <2>3. e \in Docs /\ SavedWhileOpen(e) /\ ToBeSaved(e)
    BY <2>1, <2>2, AtWorkIs
  <2>4. e # d
    BY <2>3 DEF SavedWhileOpen
  <2>5. \A x : main[d] = [main EXCEPT ![e] = x][d]
    BY <2>4, CoordTypes
  <2>6. main' = main \/ \E x : main' = [main EXCEPT ![e] = x]
    BY <1>1, <2>1 DEF SaveRow, WriteTemp, RenameTemp, Filled, Stored
  <2> QED BY <2>5, <2>6
<1>2. ASSUME NEW w \in Workers, Request(w), ~(SaveRow(w) \/ WriteTemp(w) \/ RenameTemp(w)) PROVE main' = main
  <2>1. \A e \in Docs :
          (\/ CreateSession(w, e) \/ CreateAgent(w, e) \/ CreateTeam(w, e)
           \/ CreateRuntime(w, e) \/ CreateTask(w, e)) => main' = main
    BY DEF CreateSession, CreateAgent, CreateTeam, CreateRuntime, CreateTask, CreateDoc, Stored
  <2>2. \A e \in Docs, st \in Statuses :
          (\/ MoveSession(w, e, st) \/ MoveAgent(w, e, st) \/ MoveTeam(w, e, st)
           \/ MoveRuntime(w, e, st) \/ MoveTask(w, e, st)) => MoveDoc(w, e, st)
    BY DEF MoveSession, MoveAgent, MoveTeam, MoveRuntime, MoveTask
  <2>3. \A e \in Docs, st \in Statuses : MoveDoc(w, e, st) => main' = main
    BY DEF MoveDoc, Stored
  <2>4. OpenTemp(w) \/ RenameFails(w) \/ Publish(w) \/ AttachSession(w) => main' = main
    BY DEF OpenTemp, RenameFails, Publish, AttachSession, Stored
  <2>5. \A r : RecoverNext(w, r) => main' = main
    BY DEF RecoverNext, Stored
  <2> QED BY <1>2, <2>1, <2>2, <2>3, <2>4, <2>5 DEF Request
<1>3. Stop \/ StopStartup \/ Serve \/ UNCHANGED coordVars => main' = main
  BY DEF Stop, StopStartup, Serve, Stored, coordVars
<1> QED BY <1>1, <1>2, <1>3 DEF CoordNext

(* A task, an agent or a runtime has come to where it is by legal moves    *)
(* that somebody asked for, its document is whole, and its events tell of  *)
(* it: for any documents and threads, and crashes anywhere.                *)
THEOREM WorkStaysAccountedFor == CoordSpec => WorkIsAccountedFor
<1>1. CoordInit => CoordInv
  BY CoordStart
<1>2. CoordInv /\ [CoordNext]_coordVars => CoordInv'
  BY CoordStep
<1>3. CoordInv => CoordTypeOK /\ HistoryIsLegalWalk /\ DocumentsStayWhole
  BY CoordSays
<1>4. CoordInv => NoRuntimeResumesByItself /\ CompletionIsAnnounced /\ NamedExists
  BY CoordSays
<1>5. CoordInv /\ [CoordNext]_coordVars =>
        [\A d \in Docs :
           main[d].status \in {"completed", "failed", "cancelled"} /\ d \notin raced =>
             main'[d] = main[d]]_coordVars
  BY OverStays DEF IsOver
<1> QED BY <1>1, <1>2, <1>3, <1>4, <1>5, PTL DEF CoordSpec, WorkIsAccountedFor, OverIsFinal
=============================================================================
