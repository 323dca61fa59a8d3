------------------------ MODULE WorkflowManagerProofs ------------------------
(***************************************************************************)
(* Theorems about WorkflowManager, for every set of actions, requests and  *)
(* threads and every bound.  A thread may save a copy that is out of date, *)
(* so what holds of the document must hold of every copy: the inductive    *)
(* invariant says the same of all the documents there are.                 *)
(***************************************************************************)
EXTENDS WorkflowManager, TLAPS

-----------------------------------------------------------------------------
(* Types of the documents and of the calls.                                *)

(* Every stage type has a workflow status, also after its approval.        *)
LEMMA StatusType ==
  ASSUME NEW type \in StageTypes
  PROVE  /\ StageToStatus[type] \in WorkflowStatus \ TerminalStatuses
         /\ StatusAfter(type) \in WorkflowStatus
         /\ StatusAfter(type) = "completed" => type = "delivery"
         /\ StatusAfter(type) # "cancelled"
BY DEF StageTypes, NextStage, StageToStatus, StatusAfter, WorkflowStatus,
       WorkflowTransitions, TerminalStatuses

(* The statuses the operations write are stage statuses.                   *)
LEMMA StageStatusType ==
  {"in_progress", "reported", "waiting_approval", "approved", "rejected"}
    \subseteq StageStatus
BY DEF StageStatus, StageTransitions

(* Likewise for the workflow statuses they write.                          *)
LEMMA WorkflowStatusType ==
  {"created", "waiting_approval", "cancelled", "completed"} \subseteq WorkflowStatus
BY DEF WorkflowStatus, WorkflowTransitions

(* Replacing a stage of a document leaves a document.                      *)
LEMMA WithStageType ==
  ASSUME NEW doc \in Workflow, NEW i \in DOMAIN doc.stages, NEW s \in Stage
  PROVE  WithStage(doc, i, s) \in Workflow
BY DEF WithStage, Doc, Workflow

(* A stage of a document, edited, is a stage.                              *)
LEMMA StageType ==
  ASSUME NEW doc \in Workflow, NEW i \in DOMAIN doc.stages
  PROVE  /\ doc.stages[i] \in Stage
         /\ \A st \in StageStatus : WithStatus(doc.stages[i], st) \in Stage
         /\ \A a \in Actions : WithAction(doc.stages[i], a) \in Stage
         /\ \A q \in StageRequests : AwaitingAnswer(doc.stages[i], q) \in Stage
         /\ WithAgent(doc.stages[i]) \in Stage
         /\ WithGate(doc.stages[i]) \in Stage
<1>1. doc.stages[i] \in Stage
  BY DEF Workflow
<1>2. QED
  BY <1>1, StageStatusType
     DEF Stage, StageOf, WithStatus, WithAction, AwaitingAnswer, WithAgent, WithGate

(* Moving a stage to another status leaves a document.                     *)
LEMMA MovedType ==
  ASSUME NEW doc \in Workflow, NEW i \in DOMAIN doc.stages, NEW st \in StageStatus
  PROVE  Moved(doc, i, st) \in Workflow
BY StageType, WithStageType DEF Moved

(* So does running an action on the stage its payload names.               *)
LEMMA AppliedType ==
  ASSUME NEW doc \in Workflow, NEW a \in Actions, Applies(a, doc), Kind[a] # "write"
  PROVE  Applied(a, doc) \in Workflow
<1>1. Kind[a] \in {"test", "agent", "gate"}
  BY KindAssumption DEF Kinds
<1>2. target[a] \in DOMAIN doc.stages
  BY DEF Applies
<1>3. Moved(doc, target[a], "reported") \in Workflow
  BY <1>2, MovedType, StageStatusType
<1>4. /\ WithStage(doc, target[a], WithAgent(doc.stages[target[a]])) \in Workflow
      /\ WithStage(doc, target[a], WithGate(doc.stages[target[a]])) \in Workflow
  BY <1>2, StageType, WithStageType
<1>5. QED
  BY <1>1, <1>3, <1>4 DEF Applied

(* Changing the status of a document, or appending a new stage to it.      *)
LEMMA DocType ==
  ASSUME NEW doc \in Workflow, NEW status \in WorkflowStatus
  PROVE  /\ Doc(status, doc.stages) \in Workflow
         /\ \A type \in StageTypes :
              Doc(status, Append(doc.stages, NewStage(type))) \in Workflow
         /\ \A i \in DOMAIN doc.stages, s \in Stage :
              Doc(status, [doc.stages EXCEPT ![i] = s]) \in Workflow
<1>1. doc.stages \in Seq(Stage)
  BY DEF Workflow
<1>2. \A type \in StageTypes : NewStage(type) \in Stage
  BY StageStatusType DEF NewStage, StageOf, Stage
<1>3. QED
  BY <1>1, <1>2 DEF Doc, Workflow

(* The stages a request is looked up in are stages of the document.        *)
LEMMA LocateType ==
  ASSUME NEW doc, NEW q
  PROVE  Locate(doc, q) \subseteq DOMAIN doc.stages
BY DEF Locate

(* A call's type; a thread at "idle" holds nothing.                        *)
CallOK(c) ==
  c \in Calls /\ (c.at = "idle" => c = Idle) /\ Fits(c.op, c.at, c.row)

(* A fresh document is one, and an idle thread's call is a call.           *)
LEMMA FreshTypes == NewWorkflow \in Workflow /\ CallOK(Idle)
<1>1. NewWorkflow \in Workflow
  BY WorkflowStatusType DEF NewWorkflow, Doc, Workflow
<1>2. QED
  BY <1>1 DEF CallOK, Idle, Waiting, CallOf, Calls, Ops, Points, Rows, PointsOf, Fits

(* A call under way.                                                       *)
LEMMA CallType ==
  ASSUME NEW op \in Ops, NEW at \in Points \ {"idle"}, NEW row \in Rows \cup {NoRow},
         Fits(op, at, row), NEW copy \in Workflow, NEW todo \in SUBSET Rows, NEW batch \in SUBSET Actions
  PROVE  CallOK(CallOf(op, at, row, copy, todo, batch))
BY DEF CallOK, CallOf, Calls, Idle, Waiting

(* A call that holds no document.                                          *)
LEMMA WaitingType ==
  ASSUME NEW op \in Ops, NEW at \in Points \ {"idle"}, NEW row \in Rows \cup {NoRow},
         Fits(op, at, row)
  PROVE  CallOK(Waiting(op, at, row))
BY FreshTypes, CallType DEF Waiting

(* What TypeOK says of the threads, call by call.                          *)
LEMMA CallsType ==
  ASSUME TypeOK, NEW h \in Handlers, NEW c, CallOK(c), Becomes(h, c)
  PROVE  /\ call' \in [Handlers -> Calls]
         /\ \A g \in Handlers :
              /\ At(g, "idle")' <=> call'[g] = Idle
              /\ Fits(call'[g].op, call'[g].at, call'[g].row)
<1>1. Idle.at = "idle"
  BY DEF Idle, Waiting, CallOf
<1>2. call' \in [Handlers -> Calls]
  BY DEF TypeOK, Becomes, CallOK
<1>3. ASSUME NEW g \in Handlers
      PROVE  /\ At(g, "idle")' <=> call'[g] = Idle
             /\ Fits(call'[g].op, call'[g].at, call'[g].row)
  <2>1. CASE g = h
    <3>1. call'[g] = c
      BY <2>1 DEF TypeOK, Becomes
    <3>2. QED
      BY <3>1, <1>1 DEF CallOK, At
  <2>2. CASE g # h
    <3>1. call'[g] = call[g]
      BY <2>2 DEF TypeOK, Becomes
    <3>2. QED
      BY <3>1 DEF TypeOK, At
  <2>3. QED
    BY <2>1, <2>2
<1>4. QED
  BY <1>2, <1>3

(* The sweep and the voiding keep the rows' types.                         *)
LEMMA SweepType ==
  ASSUME approval \in [Rows -> ApprovalStatus]
  PROVE  ExpireDue \in [Rows -> ApprovalStatus]
BY DEF ExpireDue, ApprovalStatus, Open

-----------------------------------------------------------------------------
(* Type correctness: documents, copies, rows and calls keep their types,   *)
(* and a thread holds a document only while it serves a call.              *)

(* Documents, rows and copies keep their types, for any stages and         *)
(* threads.                                                                *)
THEOREM TypeCorrect == Spec => []TypeOK
  <1>1. Init => TypeOK
    BY FreshTypes, BoundsAssumption
       DEF Init, TypeOK, At, ApprovalStatus, Open, CallOK, Idle, Waiting, CallOf
  <1>2. TypeOK /\ [Next]_vars => TypeOK'
    <2> SUFFICES ASSUME TypeOK, [Next]_vars
                 PROVE  TypeOK'
      OBVIOUS
    <2>a. /\ workflow \in Workflow
          /\ approval \in [Rows -> ApprovalStatus]
          /\ ExpireDue \in [Rows -> ApprovalStatus]
          /\ \A h \in Handlers : CallOK(call[h])
          /\ Actions \subseteq Rows /\ StageRequests \subseteq Rows
      BY SweepType DEF TypeOK, CallOK, At, Rows
    <2>b. \A h \in Handlers :
            /\ call[h].row \in Rows \cup {NoRow} /\ call[h].copy \in Workflow
            /\ call[h].todo \in SUBSET Rows /\ call[h].batch \in SUBSET Actions
            /\ Fits(call[h].op, call[h].at, call[h].row)
            /\ call[h].at = "apply" => call[h].row \in Actions
            /\ call[h].at \in {"locate", "bound", "run", "keep", "record", "revert"} =>
                 call[h].row \in StageRequests
            /\ call[h].op \in {"stage", "revert"} => call[h].row \in StageRequests
            /\ call[h].op = "own" => call[h].row \in Actions
      BY <2>a DEF CallOK, Calls, Fits, Ops, PointsOf
    <2>c. ASSUME NEW h \in Handlers, NEW c, CallOK(c), Becomes(h, c),
                 UNCHANGED <<target, due, restarts>>, UNCHANGED lost,
                 workflow' \in Workflow,
                 approval' \in [Rows -> ApprovalStatus],
                 consented' \subseteq Rows
          PROVE  TypeOK'
      BY <2>c, CallsType DEF TypeOK
    <2>1. ASSUME NEW h \in Handlers, NEW type \in StartTypes, StartStage(h, type)
          PROVE  TypeOK'
      <3>1. Doc(StageToStatus[type], Append(workflow.stages, NewStage(type))) \in Workflow
        BY <2>a, StartTypesAssumption, StatusType, DocType
      <3>2. QED
        BY <3>1, <2>1, <2>a, <2>c, CallType
           DEF StartStage, Edit, TypeOK, rowVars, historyVars, Ops, Points, PointsOf, Fits
    <2>2. ASSUME NEW h \in Handlers, NEW i \in DOMAIN workflow.stages, SubmitReport(h, i)
          PROVE  TypeOK'
      <3>1. Moved(workflow, i, "reported") \in Workflow
        BY <2>a, MovedType, StageStatusType
      <3>2. QED
        BY <3>1, <2>2, <2>a, <2>c, CallType
           DEF SubmitReport, Edit, TypeOK, rowVars, historyVars, Ops, Points, PointsOf, Fits
    <2>3. ASSUME NEW h \in Handlers, NEW i \in DOMAIN workflow.stages, NEW a \in Actions, AttachAction(h, i, a)
          PROVE  TypeOK'
      <3>1. WithStage(workflow, i, WithAction(workflow.stages[i], a)) \in Workflow
        BY <2>a, StageType, WithStageType
      <3>2. QED
        BY <3>1, <2>3, <2>a, <2>c, CallType
           DEF AttachAction, Edit, TypeOK, rowVars, historyVars, Ops, Points, PointsOf, Fits
    <2>4. ASSUME NEW h \in Handlers, NEW i \in DOMAIN workflow.stages, NEW q \in StageRequests, RequestStageApproval(h, i, q)
          PROVE  TypeOK'
      <3>1. Doc("waiting_approval", [workflow.stages EXCEPT
                  ![i] = AwaitingAnswer(workflow.stages[i], q)]) \in Workflow
        BY <2>a, StageType, DocType, WorkflowStatusType
      <3>2. approval' \in [Rows -> ApprovalStatus]
        BY <2>4, <2>a DEF RequestStageApproval, ApprovalStatus, Open
      <3>3. CASE WorkflowMoves(workflow.status, "waiting_approval")
        BY <3>1, <3>2, <3>3, <2>4, <2>a, <2>c, CallType
           DEF RequestStageApproval, Edit, TypeOK, historyVars, Ops, Points, PointsOf, Fits
      <3>4. CASE ~WorkflowMoves(workflow.status, "waiting_approval")
        BY <3>2, <3>4, <2>4 DEF RequestStageApproval, TypeOK, At, historyVars
      <3>5. QED
        BY <3>3, <3>4
    <2>5. ASSUME NEW h \in Handlers, Cancel(h)
          PROVE  TypeOK'
      <3> DEFINE stages == workflow.stages
                 named == UNION {stages[i].actions \cup {stages[i].req} : i \in DOMAIN stages}
      <3>1. named \ {NoRow} \in SUBSET Rows
        BY <2>a, StageType DEF Stage, Rows
      <3>2. CallOK(CallOf("cancel", "void", NoRow, workflow, named \ {NoRow}, {}))
        BY <3>1, <2>a, CallType DEF Ops, Points, PointsOf, Fits
      <3>3. QED
        BY <3>2, <2>5, <2>a, <2>c DEF Cancel, TypeOK, rowVars, historyVars
    <2>6. ASSUME NEW h \in Handlers, VoidCancelled(h)
          PROVE  TypeOK'
      <3>1. Doc("cancelled", call[h].copy.stages) \in Workflow
        BY <2>b, DocType, WorkflowStatusType
      <3>2. approval' \in [Rows -> ApprovalStatus]
        BY <2>6, <2>a DEF VoidCancelled, VoidPending, ApprovalStatus, Open
      <3>3. QED
        BY <3>1, <3>2, <2>6, <2>a, <2>c, CallType
           DEF VoidCancelled, TypeOK, historyVars, Ops, Points, PointsOf, Fits
    <2>7. ASSUME NEW h \in Handlers, Save(h)
          PROVE  TypeOK'
      <3> DEFINE c == call[h]
      <3>1. /\ c.op = "stage" => CallOK(CallOf("stage", "run", c.row, NewWorkflow, {}, c.batch))
            /\ c.op = "own" => CallOK(Waiting("own", "settle", c.row))
            /\ CallOK(Idle)
        BY <2>a, <2>b, FreshTypes, CallType, WaitingType DEF Ops, Points, PointsOf, Fits
      <3>2. QED
        BY <3>1, <2>7, <2>a, <2>b, <2>c DEF Save, TypeOK, rowVars, historyVars
    <2>8. ASSUME NEW a \in Actions, NEW i \in 0..MaxStages, CreateAction(a, i)
          PROVE  TypeOK'
      BY <2>8 DEF CreateAction, TypeOK, At, historyVars, ApprovalStatus, Open
    <2>9. ASSUME NEW r \in Rows, TtlElapses(r)
          PROVE  TypeOK'
      BY <2>9 DEF TtlElapses, TypeOK, At, historyVars
    <2>10. ASSUME Sweep
          PROVE  TypeOK'
      BY <2>10, <2>a DEF Sweep, TypeOK, At, historyVars
    <2>11. ASSUME NEW r \in Rows, Reconfirm(r)
          PROVE  TypeOK'
      BY <2>11, <2>a DEF Reconfirm, TypeOK, At, historyVars, ApprovalStatus, Open
    <2>12. ASSUME NEW h \in Handlers, NEW q \in StageRequests, ApproveStage(h, q)
          PROVE  TypeOK'
      <3>1. approval' \in [Rows -> ApprovalStatus] /\ consented' \subseteq Rows
        BY <2>12, <2>a DEF ApproveStage, MarkApproved, TypeOK, ApprovalStatus
      <3>2. CallOK(Waiting("stage", "locate", q))
        BY <2>a, WaitingType DEF Ops, Points, PointsOf, Fits
      <3>3. QED
        BY <3>1, <3>2, <2>12, <2>a, <2>c DEF ApproveStage, MarkApproved
    <2>13. ASSUME NEW h \in Handlers, NEW a \in Actions, ApproveAction(h, a)
          PROVE  TypeOK'
      <3>1. approval' \in [Rows -> ApprovalStatus] /\ consented' \subseteq Rows
        BY <2>13, <2>a DEF ApproveAction, MarkApproved, TypeOK, ApprovalStatus
      <3>2. CallOK(Waiting("own", "apply", a))
        BY <2>a, WaitingType DEF Ops, Points, PointsOf, Fits
      <3>3. QED
        BY <3>1, <3>2, <2>13, <2>a, <2>c DEF ApproveAction, MarkApproved
    <2>14. ASSUME NEW h \in Handlers, LocateStage(h)
          PROVE  TypeOK'
      <3> DEFINE q == call[h].row
      <3>0. call[h].row \in StageRequests
        BY <2>14, <2>b DEF LocateStage, At
      <3>1. CallOK(Waiting("stage", "fail", q))
        BY <3>0, <2>a, <2>b, WaitingType DEF Ops, Points, PointsOf, Fits
      <3>2. ASSUME NEW i \in Locate(workflow, q)
            PROVE  CallOK(CallOf("stage", "bound", q, Moved(workflow, i, "approved"),
                                 workflow.stages[i].actions, {}))
        <4>1. i \in DOMAIN workflow.stages
          BY LocateType
        <4>2. Moved(workflow, i, "approved") \in Workflow
          BY <4>1, <2>a, MovedType, StageStatusType
        <4>3. workflow.stages[i].actions \in SUBSET Rows
          BY <4>1, <2>a, StageType DEF Stage
        <4>4. QED
          BY <4>2, <4>3, <3>0, <2>a, <2>b, CallType DEF Ops, Points, PointsOf, Fits
      <3>3. PICK c : CallOK(c) /\ Becomes(h, c)
        BY <3>1, <3>2, <2>14 DEF LocateStage
      <3>4. QED
        BY <3>3, <2>14, <2>a, <2>c DEF LocateStage, TypeOK, rowVars, historyVars
    <2>15. ASSUME NEW h \in Handlers, NEW a \in Actions, ApproveBound(h, a)
          PROVE  TypeOK'
      <3> DEFINE c == call[h]
      <3>0. call[h].row \in StageRequests
        BY <2>15, <2>b DEF ApproveBound, At
      <3>1. /\ CallOK(CallOf("stage", "bound", c.row, c.copy, c.todo \ {a}, c.batch))
            /\ CallOK(CallOf("stage", "bound", c.row, c.copy, c.todo \ {a}, c.batch \cup {a}))
            /\ CallOK(Waiting("stage", "fail", c.row))
        BY <3>0, <2>a, <2>b, CallType, WaitingType DEF Ops, Points, PointsOf, Fits
      <3>2. PICK d : CallOK(d) /\ Becomes(h, d)
        BY <3>1, <2>15 DEF ApproveBound
      <3>3. approval' \in [Rows -> ApprovalStatus]
        BY <2>15, <2>a DEF ApproveBound, ApprovalStatus
      <3>4. QED
        BY <3>2, <3>3, <2>15, <2>a, <2>c DEF ApproveBound, TypeOK, historyVars
    <2>16. ASSUME NEW h \in Handlers, Advance(h)
          PROVE  TypeOK'
      <3> DEFINE c == call[h]
      <3>0. call[h].row \in StageRequests
        BY <2>16, <2>b DEF Advance, At
      <3>1. ASSUME NEW i \in Locate(c.copy, c.row)
            PROVE  CallOK(CallOf("stage", "save", c.row,
                     Doc(StatusAfter(c.copy.stages[i].type), c.copy.stages), {}, c.batch))
        <4>1. c.copy.stages[i].type \in StageTypes
          BY <2>b, LocateType, StageType DEF Stage
        <4>2. Doc(StatusAfter(c.copy.stages[i].type), c.copy.stages) \in Workflow
          BY <4>1, <2>b, StatusType, DocType
        <4>3. QED
          BY <4>2, <3>0, <2>a, <2>b, CallType DEF Ops, Points, PointsOf, Fits
      <3>2. CallOK(Waiting("stage", "fail", c.row))
        BY <3>0, <2>a, <2>b, WaitingType DEF Ops, Points, PointsOf, Fits
      <3>3. PICK d : CallOK(d) /\ Becomes(h, d)
        BY <3>1, <3>2, <2>16 DEF Advance
      <3>4. QED
        BY <3>3, <2>16, <2>a, <2>c DEF Advance, TypeOK, rowVars, historyVars
    <2>17. ASSUME NEW h \in Handlers, NEW a \in Actions, RunBound(h, a)
          PROVE  TypeOK'
      <3>1. call[h].row \in StageRequests
        BY <2>17, <2>b DEF RunBound, At
      <3>2. approval' \in [Rows -> ApprovalStatus]
        BY <2>17, <2>a DEF RunBound, ApprovalStatus
      <3>3. CallOK(CallOf("stage", "run", call[h].row, NewWorkflow, {}, call[h].batch \ {a}))
        BY <3>1, <2>a, <2>b, FreshTypes, CallType DEF Ops, Points, PointsOf, Fits
      <3>4. QED
        BY <3>2, <3>3, <2>17, <2>a, <2>c DEF RunBound, TypeOK, historyVars
    <2>18. ASSUME NEW h \in Handlers, RunOwn(h)
          PROVE  TypeOK'
      <3> DEFINE a == call[h].row
      <3>0. a \in Actions
        BY <2>18, <2>b DEF RunOwn, At
      <3>1. CallOK(Waiting("own", "settle", a)) /\ CallOK(Waiting("own", "fail", a))
        BY <3>0, <2>a, <2>b, WaitingType DEF Ops, Points, PointsOf, Fits
      <3>2. ASSUME a \in Actions, Kind[a] # "write", Applies(a, workflow)
            PROVE  CallOK(CallOf("own", "save", a, Applied(a, workflow), {}, {}))
        BY <3>2, <2>a, <2>b, AppliedType, CallType DEF Ops, Points, PointsOf, Fits
      <3>3. PICK d : CallOK(d) /\ Becomes(h, d)
        BY <3>0, <3>1, <3>2, <2>18 DEF RunOwn
      <3>4. QED
        BY <3>3, <2>18, <2>a, <2>c DEF RunOwn, TypeOK, rowVars, historyVars
    <2>19. ASSUME NEW h \in Handlers, Settle(h)
          PROVE  TypeOK'
      <3>1. approval' \in [Rows -> ApprovalStatus]
        BY <2>19, <2>a DEF Settle, ApprovalStatus
      <3>2. QED
        BY <3>1, <2>19, <2>a, <2>c, FreshTypes DEF Settle, TypeOK, historyVars
    <2>20. ASSUME NEW h \in Handlers, Fail(h)
          PROVE  TypeOK'
      <3>1. approval' \in [Rows -> ApprovalStatus]
        BY <2>20, <2>a DEF Fail, ApprovalStatus
      <3>2. /\ call[h].op = "stage" => CallOK(Waiting("revert", "revert", call[h].row))
            /\ CallOK(Idle)
        BY <2>a, <2>b, FreshTypes, WaitingType DEF Ops, Points, PointsOf, Fits
      <3>3. QED
        BY <3>1, <3>2, <2>20, <2>a, <2>c DEF Fail, TypeOK, historyVars
    <2>21. ASSUME NEW h \in Handlers, NEW r \in Rows, Reject(h, r)
          PROVE  TypeOK'
      <3>1. approval' \in [Rows -> ApprovalStatus]
        BY <2>21, <2>a DEF Reject, ApprovalStatus
      <3>2. /\ r \in StageRequests => CallOK(Waiting("revert", "revert", r))
            /\ CallOK(Idle)
        BY <2>a, FreshTypes, WaitingType DEF Ops, Points, PointsOf, Fits
      <3>3. QED
        BY <3>1, <3>2, <2>21, <2>a, <2>c DEF Reject, TypeOK, historyVars
    <2>22. ASSUME NEW h \in Handlers, Revert(h)
          PROVE  TypeOK'
      <3> DEFINE q == call[h].row
      <3>0. call[h].row \in StageRequests
        BY <2>22, <2>b DEF Revert, At
      <3>1. ASSUME NEW i \in Locate(workflow, q)
            PROVE  CallOK(CallOf("revert", "void", q, Moved(workflow, i, "rejected"),
                                 workflow.stages[i].actions, {}))
        <4>1. i \in DOMAIN workflow.stages
          BY LocateType
        <4>2. Moved(workflow, i, "rejected") \in Workflow
          BY <4>1, <2>a, MovedType, StageStatusType
        <4>3. workflow.stages[i].actions \in SUBSET Rows
          BY <4>1, <2>a, StageType DEF Stage
        <4>4. QED
          BY <4>2, <4>3, <3>0, <2>a, <2>b, CallType DEF Ops, Points, PointsOf, Fits
      <3>2. PICK c : CallOK(c) /\ Becomes(h, c)
        BY <3>1, FreshTypes, <2>22 DEF Revert
      <3>3. QED
        BY <3>2, <2>22, <2>a, <2>c DEF Revert, TypeOK, rowVars, historyVars
    <2>23. ASSUME NEW h \in Handlers, VoidRejected(h)
          PROVE  TypeOK'
      <3> DEFINE c == call[h]
      <3>0. call[h].row \in StageRequests
        BY <2>23, <2>b DEF VoidRejected, At
      <3>1. ASSUME NEW i \in Locate(c.copy, c.row)
            PROVE  CallOK(CallOf("revert", "save", c.row,
                     Doc(StageToStatus[c.copy.stages[i].type], c.copy.stages), {}, {}))
        <4>1. c.copy.stages[i].type \in StageTypes
          BY <2>b, LocateType, StageType DEF Stage
        <4>2. Doc(StageToStatus[c.copy.stages[i].type], c.copy.stages) \in Workflow
          BY <4>1, <2>b, StatusType, DocType
        <4>3. QED
          BY <4>2, <3>0, <2>a, <2>b, CallType DEF Ops, Points, PointsOf, Fits
      <3>2. PICK d : CallOK(d) /\ Becomes(h, d)
        BY <3>1, FreshTypes, <2>23 DEF VoidRejected
      <3>3. approval' \in [Rows -> ApprovalStatus]
        BY <2>23, <2>a DEF VoidRejected, VoidPending, ApprovalStatus, Open
      <3>4. QED
        BY <3>2, <3>3, <2>23, <2>a, <2>c DEF VoidRejected, TypeOK, historyVars
    <2>24. ASSUME Crash
          PROVE  TypeOK'
      <3>1. approval' \in [Rows -> ApprovalStatus]
        BY <2>24, <2>a DEF Crash, ApprovalStatus, Open
      <3>2. call' \in [Handlers -> Calls] /\ \A g \in Handlers : call'[g] = Idle
        BY <2>24, FreshTypes DEF Crash, CallOK
      <3>3. \A g \in Handlers :
              At(g, "idle")' /\ Fits(call'[g].op, call'[g].at, call'[g].row)
        BY <3>2, FreshTypes DEF At, CallOK, Idle, Waiting, CallOf
      <3>4. QED
        BY <3>1, <3>2, <3>3, <2>24, BoundsAssumption DEF Crash, TypeOK
    <2>25. CASE UNCHANGED vars
      BY <2>25 DEF vars, TypeOK, At
    <2>26. ASSUME NEW h \in Handlers, NEW a \in Actions, LoadBound(h, a)
          PROVE  TypeOK'
      <3>1. call[h].row \in StageRequests
        BY <2>26, <2>b DEF LoadBound, At
      <3>2. Applied(a, workflow) \in Workflow /\ {a} \in SUBSET Rows
        BY <2>26, <2>a, AppliedType DEF LoadBound
      <3>3. CallOK(CallOf("stage", "keep", call[h].row, Applied(a, workflow), {a},
                          call[h].batch \ {a}))
        BY <3>1, <3>2, <2>a, <2>b, CallType DEF Ops, Points, PointsOf, Fits
      <3>4. QED
        BY <3>3, <2>26, <2>a, <2>c DEF LoadBound, TypeOK, rowVars, historyVars
    <2>27. ASSUME NEW h \in Handlers, SaveBound(h)
          PROVE  TypeOK'
      <3>1. call[h].row \in StageRequests
        BY <2>27, <2>b DEF SaveBound, At
      <3>2. CallOK(CallOf("stage", "record", call[h].row, NewWorkflow, call[h].todo,
                          call[h].batch))
        BY <3>1, <2>a, <2>b, FreshTypes, CallType DEF Ops, Points, PointsOf, Fits
      <3>3. QED
        BY <3>2, <2>27, <2>a, <2>b, <2>c DEF SaveBound, TypeOK, rowVars, historyVars
    <2>28. ASSUME NEW h \in Handlers, NEW a \in Actions, RecordBound(h, a)
          PROVE  TypeOK'
      <3>1. call[h].row \in StageRequests
        BY <2>28, <2>b DEF RecordBound, At
      <3>2. approval' \in [Rows -> ApprovalStatus]
        BY <2>28, <2>a DEF RecordBound, ApprovalStatus
      <3>3. CallOK(CallOf("stage", "run", call[h].row, NewWorkflow, {}, call[h].batch))
        BY <3>1, <2>a, <2>b, FreshTypes, CallType DEF Ops, Points, PointsOf, Fits
      <3>4. QED
        BY <3>2, <3>3, <2>28, <2>a, <2>c DEF RecordBound, TypeOK, historyVars
    <2>29. QED
      BY <2>1, <2>2, <2>3, <2>4, <2>5, <2>6, <2>7, <2>8, <2>9, <2>10, <2>11,
         <2>12, <2>13, <2>14, <2>15, <2>16, <2>17, <2>18, <2>19, <2>20, <2>21,
         <2>22, <2>23, <2>24, <2>25, <2>26, <2>27, <2>28
      DEF Next, Begin, EditStage, Continue
  <1>3. QED
    BY <1>1, <1>2, PTL DEF Spec

-----------------------------------------------------------------------------
(* What is said of a document, given the stage requests that exist and the *)
(* requests the user approved: its submitted stages are gated, its         *)
(* approved stages consented, no two stages carry one request, and if it   *)
(* is completed an approved DELIVERY stage completed it.                   *)

SoundStage(s, asked, yes) ==
  /\ Submitted(s) => GateHolds(s)
  /\ s.status = "approved" => s.req \in yes
  /\ s.req # NoRow => s.req \in asked

Delivered(s) == s.type = "delivery" /\ s.status = "approved"

Sound(doc, asked, yes) ==
  /\ \A i \in DOMAIN doc.stages : SoundStage(doc.stages[i], asked, yes)
  /\ \A i, j \in DOMAIN doc.stages :
       doc.stages[i].req = doc.stages[j].req /\ doc.stages[i].req # NoRow => i = j
  /\ doc.status = "completed" =>
       \E i \in DOMAIN doc.stages : Delivered(doc.stages[i])

Asked == {q \in StageRequests : approval[q] # "absent"}

(* The inductive invariant: every document is sound, the saved one and all *)
(* copies, so it does not matter which copy is saved when; and a call that *)
(* resolves a stage approval has the user's consent.                       *)
SoundInv ==
  /\ Sound(workflow, Asked, consented)
  /\ \A h \in Handlers :
       /\ Sound(call[h].copy, Asked, consented)
       /\ call[h].op = "stage" => call[h].row \in consented
       /\ At(h, "bound") => \A i \in Locate(call[h].copy, call[h].row) :
            call[h].copy.stages[i].status = "approved"

(* Soundness survives new requests and new consent.                        *)
LEMMA SoundGrows ==
  ASSUME NEW doc, NEW A, NEW B, NEW C, NEW D,
         Sound(doc, A, C), A \subseteq B, C \subseteq D
  PROVE  Sound(doc, B, D)
BY DEF Sound, SoundStage

(* A fresh document is sound.                                              *)
LEMMA FreshSound == ASSUME NEW A, NEW C PROVE Sound(NewWorkflow, A, C)
BY DEF NewWorkflow, Doc, Sound

(* Replacing a stage by a sound one that carries the same request, and     *)
(* that is still delivered if it was, keeps a document sound.              *)
LEMMA ReplaceSound ==
  ASSUME NEW doc \in Workflow, NEW A, NEW C, Sound(doc, A, C),
         NEW i \in DOMAIN doc.stages, NEW s, SoundStage(s, A, C),
         s.req = doc.stages[i].req, Delivered(doc.stages[i]) => Delivered(s)
  PROVE  Sound(WithStage(doc, i, s), A, C)
<1> DEFINE new == WithStage(doc, i, s)
<1>1. /\ new.status = doc.status
      /\ DOMAIN new.stages = DOMAIN doc.stages
      /\ \A j \in DOMAIN doc.stages : new.stages[j] = IF j = i THEN s ELSE doc.stages[j]
  BY DEF WithStage, Doc, Workflow
<1>2. \A j \in DOMAIN new.stages : SoundStage(new.stages[j], A, C)
  BY <1>1 DEF Sound
<1>3. \A j, k \in DOMAIN new.stages :
        new.stages[j].req = new.stages[k].req /\ new.stages[j].req # NoRow => j = k
  <2>1. \A j \in DOMAIN doc.stages : new.stages[j].req = doc.stages[j].req
    BY <1>1
  <2>2. QED
    BY <1>1, <2>1 DEF Sound
<1>4. new.status = "completed" => \E j \in DOMAIN new.stages : Delivered(new.stages[j])
  BY <1>1 DEF Sound
<1>5. QED
  BY <1>2, <1>3, <1>4 DEF Sound

(* A document is sound under any status but COMPLETED, and also with a new *)
(* stage, which is in progress and carries no request.                     *)
LEMMA StatusSound ==
  ASSUME NEW doc \in Workflow, NEW A, NEW C, Sound(doc, A, C),
         NEW status, status # "completed"
  PROVE  /\ Sound(Doc(status, doc.stages), A, C)
         /\ \A type \in StageTypes :
              Sound(Doc(status, Append(doc.stages, NewStage(type))), A, C)
<1>1. Sound(Doc(status, doc.stages), A, C)
  BY DEF Sound, Doc
<1>2. ASSUME NEW type \in StageTypes
      PROVE  Sound(Doc(status, Append(doc.stages, NewStage(type))), A, C)
  <2> DEFINE s == NewStage(type)
             new == Append(doc.stages, s)
             n == Len(doc.stages)
  <2>1. s \in Stage
    BY StageStatusType DEF NewStage, StageOf, Stage
  <2>2. /\ DOMAIN new = 1..(n + 1) /\ DOMAIN doc.stages = 1..n /\ n \in Nat
        /\ new[n + 1] = s
        /\ \A j \in 1..n : new[j] = doc.stages[j]
    BY <2>1 DEF Workflow
  <2>3. SoundStage(s, A, C) /\ s.req = NoRow
    BY DEF NewStage, StageOf, SoundStage, Submitted
  <2>4. \A j \in 1..(n + 1) : j \in 1..n \/ j = n + 1
    BY <2>2
  <2>5. \A j \in 1..(n + 1) : SoundStage(new[j], A, C)
    BY <2>2, <2>3, <2>4 DEF Sound
  <2>6. \A j, k \in 1..(n + 1) : new[j].req = new[k].req /\ new[j].req # NoRow => j = k
    BY <2>2, <2>3, <2>4 DEF Sound
  <2>7. QED
    BY <2>2, <2>5, <2>6 DEF Sound, Doc
<1>3. QED
  BY <1>1, <1>2

(* Submitting a reported and gated stage with a request nobody carries.    *)
LEMMA RequestSound ==
  ASSUME NEW doc \in Workflow, NEW A, NEW C, Sound(doc, A, C),
         NEW i \in DOMAIN doc.stages, NEW q \in StageRequests, q \notin A,
         doc.stages[i].status = "reported", GateHolds(doc.stages[i])
  PROVE  Sound(Doc("waiting_approval",
                   [doc.stages EXCEPT ![i] = AwaitingAnswer(doc.stages[i], q)]),
               A \cup {q}, C)
<1> DEFINE s == AwaitingAnswer(doc.stages[i], q)
           new == Doc("waiting_approval", [doc.stages EXCEPT ![i] = s])
<1>1. /\ new.status = "waiting_approval"
      /\ DOMAIN new.stages = DOMAIN doc.stages
      /\ \A j \in DOMAIN doc.stages : new.stages[j] = IF j = i THEN s ELSE doc.stages[j]
  BY DEF Doc, Workflow
<1>2. s.req = q /\ SoundStage(s, A \cup {q}, C)
  BY DEF AwaitingAnswer, StageOf, SoundStage, GateHolds
<1>3. \A j \in DOMAIN doc.stages : doc.stages[j].req # q
  <2>1. q # NoRow
    BY RowsAssumption DEF Rows
  <2>2. QED
    BY <2>1 DEF Sound, SoundStage
<1>4. \A j \in DOMAIN new.stages : SoundStage(new.stages[j], A \cup {q}, C)
  BY <1>1, <1>2 DEF Sound, SoundStage
<1>5. \A j, k \in DOMAIN new.stages :
        new.stages[j].req = new.stages[k].req /\ new.stages[j].req # NoRow => j = k
  BY <1>1, <1>2, <1>3 DEF Sound
<1>6. QED
  BY <1>1, <1>4, <1>5 DEF Sound

(* A stage that is not submitted may change its status to one that is not,  *)
(* its actions, agents and gate: the document stays sound.                 *)
LEMMA EditSound ==
  ASSUME NEW doc \in Workflow, NEW A, NEW C, Sound(doc, A, C),
         NEW i \in DOMAIN doc.stages, ~Submitted(doc.stages[i])
  PROVE  /\ Sound(Moved(doc, i, "reported"), A, C)
         /\ \A a \in Actions :
              Sound(WithStage(doc, i, WithAction(doc.stages[i], a)), A, C)
         /\ Sound(WithStage(doc, i, WithAgent(doc.stages[i])), A, C)
         /\ Sound(WithStage(doc, i, WithGate(doc.stages[i])), A, C)
<1> DEFINE s == doc.stages[i]
<1>1. SoundStage(s, A, C) /\ ~Delivered(s)
  BY DEF Sound, Submitted, Delivered
<1>2. /\ SoundStage(WithStatus(s, "reported"), A, C) /\ WithStatus(s, "reported").req = s.req
      /\ SoundStage(WithAgent(s), A, C) /\ WithAgent(s).req = s.req
      /\ SoundStage(WithGate(s), A, C) /\ WithGate(s).req = s.req
  BY <1>1 DEF SoundStage, Submitted, WithStatus, WithAgent, WithGate, StageOf
<1>3. ASSUME NEW a \in Actions
      PROVE  SoundStage(WithAction(s, a), A, C) /\ WithAction(s, a).req = s.req
  BY <1>1 DEF SoundStage, Submitted, WithAction, StageOf
<1>4. QED
  BY <1>1, <1>2, <1>3, ReplaceSound DEF Moved

(* Running an action edits a stage that is not submitted.                  *)
LEMMA AppliedSound ==
  ASSUME NEW doc \in Workflow, NEW A, NEW C, Sound(doc, A, C),
         NEW a \in Actions, Applies(a, doc), Kind[a] # "write"
  PROVE  Sound(Applied(a, doc), A, C)
<1>1. Kind[a] \in {"test", "agent", "gate"}
  BY KindAssumption DEF Kinds
<1>2. target[a] \in DOMAIN doc.stages /\ ~Submitted(doc.stages[target[a]])
  BY DEF Applies, Editable, Submitted
<1>3. QED
  BY <1>1, <1>2, EditSound DEF Applied

(* A stage is approved or rejected only while it waits, or it is already.  *)
LEMMA StageMovesFrom ==
  ASSUME NEW st \in StageStatus
  PROVE  /\ StageMoves(st, "approved") => st \in {"approved", "waiting_approval"}
         /\ StageMoves(st, "rejected") => st \in {"rejected", "waiting_approval"}
BY DEF StageMoves, StageTransitions, StageStatus

(* Moving a waiting stage keeps a document sound: it is gated already, and *)
(* it is approved on a request with consent.                               *)
LEMMA ResolveSound ==
  ASSUME NEW doc \in Workflow, NEW A, NEW C, Sound(doc, A, C),
         NEW i \in DOMAIN doc.stages
  PROVE  /\ StageMoves(doc.stages[i].status, "approved") /\ doc.stages[i].req \in C
              => Sound(Moved(doc, i, "approved"), A, C)
         /\ StageMoves(doc.stages[i].status, "rejected")
              => Sound(Moved(doc, i, "rejected"), A, C)
<1> DEFINE s == doc.stages[i]
           yes == WithStatus(s, "approved")
           no == WithStatus(s, "rejected")
<1>1. SoundStage(s, A, C) /\ s.status \in StageStatus
  BY StageType DEF Sound, Stage
<1>2. ASSUME StageMoves(s.status, "approved"), s.req \in C
      PROVE  Sound(Moved(doc, i, "approved"), A, C)
  <2>1. Submitted(s)
    BY <1>1, <1>2, StageMovesFrom DEF Submitted
  <2>2. SoundStage(yes, A, C) /\ yes.req = s.req /\ (Delivered(s) => Delivered(yes))
    BY <1>1, <1>2, <2>1 DEF SoundStage, Submitted, GateHolds, Delivered, WithStatus,
       StageOf
  <2>3. QED
    BY <2>2, ReplaceSound DEF Moved
<1>3. ASSUME StageMoves(s.status, "rejected")
      PROVE  Sound(Moved(doc, i, "rejected"), A, C)
  <2>1. ~Delivered(s)
    BY <1>1, <1>3, StageMovesFrom DEF Delivered
  <2>2. SoundStage(no, A, C) /\ no.req = s.req
    BY <1>1 DEF SoundStage, Submitted, WithStatus, StageOf
  <2>3. QED
    BY <2>1, <2>2, ReplaceSound DEF Moved
<1>4. QED
  BY <1>2, <1>3

(* The stages that carry the request whose stage was just approved.        *)
LEMMA LocatedApproved ==
  ASSUME NEW doc \in Workflow, NEW A, NEW C, Sound(doc, A, C),
         NEW q \in StageRequests, NEW i \in Locate(doc, q),
         NEW j \in Locate(Moved(doc, i, "approved"), q)
  PROVE  Moved(doc, i, "approved").stages[j].status = "approved"
<1> DEFINE new == Moved(doc, i, "approved")
<1>1. i \in DOMAIN doc.stages /\ doc.stages[i].req = q /\ q # NoRow
  BY RowsAssumption DEF Locate, Rows
<1>2. /\ DOMAIN new.stages = DOMAIN doc.stages
      /\ new.stages[i].status = "approved"
      /\ \A k \in DOMAIN doc.stages : new.stages[k].req = doc.stages[k].req
  BY <1>1 DEF Moved, WithStage, WithStatus, StageOf, Doc, Workflow
<1>3. j \in DOMAIN doc.stages /\ doc.stages[j].req = q
  BY <1>2 DEF Locate
<1>4. i = j
  BY <1>1, <1>3 DEF Sound
<1>5. QED
  BY <1>2, <1>4

(* A document with a delivered stage is sound under any status.            *)
LEMMA DeliveredSound ==
  ASSUME NEW doc \in Workflow, NEW A, NEW C, Sound(doc, A, C),
         NEW i \in DOMAIN doc.stages, Delivered(doc.stages[i]), NEW status
  PROVE  Sound(Doc(status, doc.stages), A, C)
BY DEF Sound, Doc

(* No step forgets that a stage request exists.                            *)
LEMMA AskedGrows ==
  ASSUME TypeOK, TypeOK', \A q \in StageRequests : approval[q] # "absent" => approval'[q] # "absent"
  PROVE  Asked \subseteq Asked'
BY DEF Asked

-----------------------------------------------------------------------------
(* The invariant holds of every behaviour of the specification.            *)

(* What is stored always satisfies the invariant.                          *)
THEOREM DocumentsAreSound == Spec => []SoundInv
  <1>1. Init => SoundInv
    <2> SUFFICES ASSUME Init PROVE SoundInv
      OBVIOUS
    <2>1. \A h \in Handlers : call[h] = Idle
      BY DEF Init
    <2>2. Idle.copy = NewWorkflow /\ Idle.op = "none" /\ Idle.at = "idle"
      BY DEF Idle, Waiting, CallOf
    <2>3. workflow = NewWorkflow
      BY DEF Init
    <2>4. QED
      BY <2>1, <2>2, <2>3, FreshSound DEF SoundInv, At
  <1>2. TypeOK /\ TypeOK' /\ SoundInv /\ [Next]_vars => SoundInv'
    <2> SUFFICES ASSUME TypeOK, TypeOK', SoundInv, [Next]_vars
                 PROVE  SoundInv'
      OBVIOUS
    <2>a. /\ workflow \in Workflow
          /\ \A h \in Handlers : call[h] \in Calls /\ call[h].copy \in Workflow
          /\ \A h \in Handlers : Fits(call[h].op, call[h].at, call[h].row)
          /\ \A r \in Rows : ExpireDue[r] = "absent" => approval[r] = "absent"
          /\ StageRequests \subseteq Rows /\ Actions \subseteq Rows
      BY DEF TypeOK, Calls, ExpireDue, Rows
    <2>b. ASSUME NEW op, NEW at, NEW row
          PROVE  /\ Waiting(op, at, row).copy = NewWorkflow
                 /\ Waiting(op, at, row).op = op /\ Waiting(op, at, row).at = at
                 /\ Waiting(op, at, row).row = row
      BY DEF Waiting, CallOf
    <2>c. ASSUME NEW op, NEW at, NEW row, NEW copy, NEW todo, NEW batch
          PROVE  /\ CallOf(op, at, row, copy, todo, batch).copy = copy
                 /\ CallOf(op, at, row, copy, todo, batch).op = op
                 /\ CallOf(op, at, row, copy, todo, batch).at = at
                 /\ CallOf(op, at, row, copy, todo, batch).row = row
      BY DEF CallOf
    <2>d. ASSUME UNCHANGED <<workflow, call>>, consented \subseteq consented',
                 Asked \subseteq Asked'
          PROVE  SoundInv'
      BY <2>d, SoundGrows DEF SoundInv, At, Locate
    <2>e. ASSUME NEW h \in Handlers, NEW c, Becomes(h, c),
                 consented \subseteq consented', Asked \subseteq Asked',
                 Sound(workflow', Asked', consented'),
                 Sound(c.copy, Asked', consented'),
                 c.op = "stage" => c.row \in consented',
                 c.at = "bound" => \A i \in Locate(c.copy, c.row) :
                                     c.copy.stages[i].status = "approved"
          PROVE  SoundInv'
      <3>1. ASSUME NEW g \in Handlers
            PROVE  /\ Sound(call'[g].copy, Asked', consented')
                   /\ call'[g].op = "stage" => call'[g].row \in consented'
                   /\ At(g, "bound")' => \A i \in Locate(call'[g].copy, call'[g].row) :
                        call'[g].copy.stages[i].status = "approved"
        <4>1. CASE g = h
          <5>1. call'[g] = c
            BY <4>1, <2>e DEF Becomes, TypeOK
          <5>2. QED
            BY <5>1, <2>e DEF At
        <4>2. CASE g # h
          <5>1. call'[g] = call[g]
            BY <4>2, <2>e DEF Becomes, TypeOK
          <5>2. QED
            BY <5>1, <2>e, SoundGrows DEF SoundInv, At
        <4>3. QED
          BY <4>1, <4>2
      <3>2. QED
        BY <3>1, <2>e DEF SoundInv
    <2>f. /\ Sound(workflow, Asked, consented)
          /\ \A h \in Handlers : Sound(call[h].copy, Asked, consented)
          /\ \A h \in Handlers : call[h].op = "stage" => call[h].row \in consented
      BY DEF SoundInv
    <2>g. UNCHANGED approval => Asked = Asked'
      BY DEF Asked
    <2>h. Sound(NewWorkflow, Asked', consented')
      BY FreshSound
    <2>1. ASSUME NEW h \in Handlers, NEW type \in StartTypes, StartStage(h, type)
          PROVE  SoundInv'
      <3> DEFINE c == CallOf("edit", "save", NoRow, Doc(StageToStatus[type], Append(workflow.stages, NewStage(type))), {}, {})
      <3>1. Sound(Doc(StageToStatus[type], Append(workflow.stages, NewStage(type))), Asked, consented)
        BY <2>a, <2>f, StartTypesAssumption, StatusType, StatusSound DEF TerminalStatuses
      <3>2. Becomes(h, c) /\ UNCHANGED <<workflow, approval, consented>>
        BY <2>1 DEF StartStage, Edit, rowVars, historyVars
      <3>3. QED
        BY <3>1, <3>2, <2>c, <2>e, <2>f, <2>g
    <2>2. ASSUME NEW h \in Handlers, NEW i \in DOMAIN workflow.stages, SubmitReport(h, i)
          PROVE  SoundInv'
      <3> DEFINE c == CallOf("edit", "save", NoRow, Moved(workflow, i, "reported"), {}, {})
      <3>1. Sound(Moved(workflow, i, "reported"), Asked, consented)
        BY <2>2, <2>a, <2>f, EditSound DEF SubmitReport, Reportable, Submitted
      <3>2. Becomes(h, c) /\ UNCHANGED <<workflow, approval, consented>>
        BY <2>2 DEF SubmitReport, Edit, rowVars, historyVars
      <3>3. QED
        BY <3>1, <3>2, <2>c, <2>e, <2>f, <2>g
    <2>3. ASSUME NEW h \in Handlers, NEW i \in DOMAIN workflow.stages, NEW a \in Actions, AttachAction(h, i, a)
          PROVE  SoundInv'
      <3> DEFINE c == CallOf("edit", "save", NoRow, WithStage(workflow, i, WithAction(workflow.stages[i], a)), {}, {})
      <3>1. Sound(WithStage(workflow, i, WithAction(workflow.stages[i], a)), Asked, consented)
        BY <2>3, <2>a, <2>f, EditSound DEF AttachAction, Editable, Submitted
      <3>2. Becomes(h, c) /\ UNCHANGED <<workflow, approval, consented>>
        BY <2>3 DEF AttachAction, Edit, rowVars, historyVars
      <3>3. QED
        BY <3>1, <3>2, <2>c, <2>e, <2>f, <2>g
    <2>4. ASSUME NEW h \in Handlers, NEW i \in DOMAIN workflow.stages, NEW q \in StageRequests, RequestStageApproval(h, i, q)
          PROVE  SoundInv'
      <3> DEFINE doc == Doc("waiting_approval", [workflow.stages EXCEPT
                             ![i] = AwaitingAnswer(workflow.stages[i], q)])
      <3>1. q \notin Asked /\ Asked' = Asked \cup {q} /\ UNCHANGED <<workflow, consented>>
        BY <2>4, <2>a DEF RequestStageApproval, Asked, Edit, TypeOK, historyVars
      <3>2. CASE WorkflowMoves(workflow.status, "waiting_approval")
        <4>1. Becomes(h, CallOf("edit", "save", NoRow, doc, {}, {}))
          BY <3>2, <2>4 DEF RequestStageApproval, Edit
        <4>2. Sound(doc, Asked', consented')
          BY <3>1, <2>4, <2>a, <2>f, RequestSound DEF RequestStageApproval
        <4>3. Sound(workflow', Asked', consented')
          BY <3>1, <2>f, SoundGrows
        <4>4. Asked \subseteq Asked' /\ consented \subseteq consented'
          BY <3>1
        <4> HIDE DEF doc
        <4>5. QED
          BY <4>1, <4>2, <4>3, <4>4, <2>c, <2>e
      <3>3. CASE ~WorkflowMoves(workflow.status, "waiting_approval")
        BY <3>1, <3>3, <2>4, <2>d DEF RequestStageApproval
      <3>4. QED
        BY <3>2, <3>3
    <2>5. ASSUME NEW h \in Handlers, Cancel(h)
          PROVE  SoundInv'
      <3>1. PICK todo : Becomes(h, CallOf("cancel", "void", NoRow, workflow, todo, {}))
        BY <2>5 DEF Cancel
      <3>2. UNCHANGED <<workflow, approval, consented>>
        BY <2>5 DEF Cancel, rowVars, historyVars
      <3>3. QED
        BY <3>1, <3>2, <2>c, <2>e, <2>f, <2>g
    <2>6. ASSUME NEW h \in Handlers, VoidCancelled(h)
          PROVE  SoundInv'
      <3> DEFINE doc == Doc("cancelled", call[h].copy.stages)
      <3>1. Becomes(h, CallOf("cancel", "save", NoRow, doc, {}, {}))
            /\ UNCHANGED <<workflow, consented>>
        BY <2>6 DEF VoidCancelled, historyVars
      <3>2. Asked \subseteq Asked'
        BY <2>6, <2>a DEF VoidCancelled, VoidPending, Asked
      <3>3. Sound(doc, Asked', consented') /\ Sound(workflow', Asked', consented')
        BY <3>1, <3>2, <2>a, <2>f, StatusSound, SoundGrows
      <3>4. QED
        BY <3>1, <3>2, <3>3, <2>c, <2>e
    <2>7. ASSUME NEW h \in Handlers, Save(h)
          PROVE  SoundInv'
      <3>1. workflow' = call[h].copy /\ UNCHANGED <<approval, consented>>
        BY <2>7 DEF Save, rowVars, historyVars
      <3>2. CASE call[h].op = "stage"
        BY <3>1, <3>2, <2>7, <2>c, <2>e, <2>f, <2>g, <2>h DEF Save
      <3>3. CASE call[h].op = "own"
        BY <3>1, <3>3, <2>7, <2>b, <2>e, <2>f, <2>g, <2>h DEF Save
      <3>4. CASE call[h].op \notin {"stage", "own"}
        BY <3>1, <3>4, <2>7, <2>b, <2>e, <2>f, <2>g, <2>h DEF Save, Idle
      <3>5. QED
        BY <3>2, <3>3, <3>4
    <2>8. ASSUME NEW a \in Actions, NEW i \in 0..MaxStages, CreateAction(a, i)
          PROVE  SoundInv'
      BY <2>8, <2>a, <2>d DEF CreateAction, Asked, historyVars, TypeOK
    <2>9. ASSUME NEW r \in Rows, TtlElapses(r)
          PROVE  SoundInv'
      BY <2>9, <2>d, <2>g DEF TtlElapses, historyVars
    <2>10. ASSUME Sweep
          PROVE  SoundInv'
      BY <2>10, <2>a, <2>d DEF Sweep, Asked, historyVars
    <2>11. ASSUME NEW r \in Rows, Reconfirm(r)
          PROVE  SoundInv'
      <3>1. \A q \in Rows : approval'[q] = "absent" => approval[q] = "absent"
        BY <2>11, <2>a DEF Reconfirm, ExpireDue
      <3>2. QED
        BY <3>1, <2>11, <2>a, <2>d DEF Reconfirm, Asked, historyVars
    <2>12. ASSUME NEW h \in Handlers, NEW q \in StageRequests, ApproveStage(h, q)
          PROVE  SoundInv'
      <3>1. /\ Becomes(h, Waiting("stage", "locate", q))
            /\ workflow' = workflow /\ consented' = consented \cup {q}
        BY <2>12 DEF ApproveStage, MarkApproved
      <3>2. \A r \in Rows : approval'[r] = "absent" => approval[r] = "absent"
        BY <2>12, <2>a DEF ApproveStage, MarkApproved, ExpireDue
      <3>3. Asked \subseteq Asked'
        BY <3>2, <2>a DEF Asked
      <3>4. Sound(workflow', Asked', consented')
        BY <3>1, <3>3, <2>f, SoundGrows
      <3> DEFINE c == Waiting("stage", "locate", q)
      <3>5. /\ c.copy = NewWorkflow /\ c.at # "bound"
            /\ c.op = "stage" => c.row \in consented'
        BY <3>1 DEF Waiting, CallOf
      <3>6. Becomes(h, c) /\ consented \subseteq consented'
        BY <3>1
      <3> HIDE DEF c
      <3>7. QED
        BY <3>3, <3>4, <3>5, <3>6, <2>e, <2>h
    <2>13. ASSUME NEW h \in Handlers, NEW a \in Actions, ApproveAction(h, a)
          PROVE  SoundInv'
      <3>1. /\ Becomes(h, Waiting("own", "apply", a))
            /\ workflow' = workflow /\ consented' = consented \cup {a}
        BY <2>13 DEF ApproveAction, MarkApproved
      <3>2. \A r \in Rows : approval'[r] = "absent" => approval[r] = "absent"
        BY <2>13, <2>a DEF ApproveAction, MarkApproved, ExpireDue
      <3>3. Asked \subseteq Asked'
        BY <3>2, <2>a DEF Asked
      <3>4. Sound(workflow', Asked', consented')
        BY <3>1, <3>3, <2>f, SoundGrows
      <3> DEFINE c == Waiting("own", "apply", a)
      <3>5. /\ c.copy = NewWorkflow /\ c.at # "bound"
            /\ c.op = "stage" => c.row \in consented'
        BY <3>1 DEF Waiting, CallOf
      <3>6. Becomes(h, c) /\ consented \subseteq consented'
        BY <3>1
      <3> HIDE DEF c
      <3>7. QED
        BY <3>3, <3>4, <3>5, <3>6, <2>e, <2>h
    <2>14. ASSUME NEW h \in Handlers, LocateStage(h)
          PROVE  SoundInv'
      <3> DEFINE q == call[h].row
      <3>0. q \in StageRequests /\ q \in consented
        BY <2>14, <2>a, <2>f DEF LocateStage, At, Fits, PointsOf, Ops, Calls
      <3>1. ASSUME NEW i \in Locate(workflow, q), StageMoves(workflow.stages[i].status, "approved"),
                   Becomes(h, CallOf("stage", "bound", q, Moved(workflow, i, "approved"),
                                     workflow.stages[i].actions, {}))
            PROVE  SoundInv'
        <4>1. i \in DOMAIN workflow.stages /\ workflow.stages[i].req = q
          BY DEF Locate
        <4>2. Sound(Moved(workflow, i, "approved"), Asked, consented)
          BY <3>0, <3>1, <4>1, <2>a, <2>f, ResolveSound
        <4>3. UNCHANGED <<workflow, approval, consented>>
          BY <2>14 DEF LocateStage, rowVars, historyVars
        <4>4. \A j \in Locate(Moved(workflow, i, "approved"), q) :
                Moved(workflow, i, "approved").stages[j].status = "approved"
          BY <3>0, <3>1, <2>a, <2>f, LocatedApproved
        <4>5. QED
          BY <3>0, <4>4, <3>1, <4>2, <4>3, <2>c, <2>e, <2>f, <2>g
      <3>2. ASSUME Becomes(h, Waiting("stage", "fail", q))
            PROVE  SoundInv'
        BY <3>0, <3>2, <2>14, <2>b, <2>e, <2>f, <2>g, <2>h DEF LocateStage, Idle,
           rowVars, historyVars
      <3>3. QED
        BY <3>1, <3>2, <2>14 DEF LocateStage
    <2>15. ASSUME NEW h \in Handlers, Revert(h)
          PROVE  SoundInv'
      <3> DEFINE q == call[h].row
      <3>1. ASSUME NEW i \in Locate(workflow, q), StageMoves(workflow.stages[i].status, "rejected"),
                   Becomes(h, CallOf("revert", "void", q, Moved(workflow, i, "rejected"),
                                     workflow.stages[i].actions, {}))
            PROVE  SoundInv'
        <4>1. i \in DOMAIN workflow.stages /\ workflow.stages[i].req = q
          BY DEF Locate
        <4>2. Sound(Moved(workflow, i, "rejected"), Asked, consented)
          BY <3>1, <4>1, <2>a, <2>f, ResolveSound
        <4>3. UNCHANGED <<workflow, approval, consented>>
          BY <2>15 DEF Revert, rowVars, historyVars
        <4>5. QED
          BY <3>1, <4>2, <4>3, <2>c, <2>e, <2>f, <2>g
      <3>2. ASSUME Becomes(h, Idle)
            PROVE  SoundInv'
        BY <3>2, <2>15, <2>b, <2>e, <2>f, <2>g, <2>h DEF Revert, Idle, rowVars,
           historyVars
      <3>3. QED
        BY <3>1, <3>2, <2>15 DEF Revert
    <2>16. ASSUME NEW h \in Handlers, NEW a \in Actions, ApproveBound(h, a)
          PROVE  SoundInv'
      <3> DEFINE c == call[h]
      <3>0. c.row \in consented /\ UNCHANGED <<workflow, consented>>
        BY <2>16, <2>a, <2>f DEF ApproveBound, At, Fits, PointsOf, Ops, Calls, historyVars
      <3>1. \A q \in Rows : approval'[q] = "absent" => approval[q] = "absent"
        BY <2>16, <2>a DEF ApproveBound, ExpireDue
      <3>2. Asked \subseteq Asked'
        BY <3>1, <2>a DEF Asked
      <3>3. \A i \in Locate(c.copy, c.row) : c.copy.stages[i].status = "approved"
        BY <2>16 DEF ApproveBound, SoundInv
      <3>4. Sound(c.copy, Asked', consented') /\ Sound(workflow', Asked', consented')
        BY <3>0, <3>2, <2>f, SoundGrows
      <3>5. ASSUME NEW batch,
                   Becomes(h, CallOf("stage", "bound", c.row, c.copy, c.todo \ {a}, batch))
            PROVE  SoundInv'
        BY <3>0, <3>2, <3>3, <3>4, <3>5, <2>c, <2>e
      <3>6. ASSUME Becomes(h, Waiting("stage", "fail", c.row))
            PROVE  SoundInv'
        BY <3>0, <3>2, <3>4, <3>6, <2>b, <2>e, <2>h
      <3>7. QED
        BY <3>5, <3>6, <2>16 DEF ApproveBound
    <2>17. ASSUME NEW h \in Handlers, Advance(h)
          PROVE  SoundInv'
      <3> DEFINE c == call[h]
      <3>0. c.row \in consented /\ UNCHANGED <<workflow, approval, consented>>
        BY <2>17, <2>a, <2>f DEF Advance, At, Fits, PointsOf, Ops, Calls, rowVars,
           historyVars
      <3>1. PICK i \in Locate(c.copy, c.row) :
              Becomes(h, IF WorkflowMoves(c.copy.status, StatusAfter(c.copy.stages[i].type))
                         THEN CallOf("stage", "save", c.row,
                                Doc(StatusAfter(c.copy.stages[i].type), c.copy.stages),
                                {}, c.batch)
                         ELSE Waiting("stage", "fail", c.row))
        BY <2>17 DEF Advance
      <3> DEFINE next == StatusAfter(c.copy.stages[i].type)
      <3>2. /\ c.copy.stages[i].status = "approved"
            /\ i \in DOMAIN c.copy.stages
            /\ c.copy.stages[i].type \in StageTypes
        BY <2>17, <2>a, StageType DEF Advance, SoundInv, Locate, Stage
      <3>3. Sound(Doc(next, c.copy.stages), Asked, consented)
        <4>1. CASE next = "completed"
          BY <3>2, <4>1, <2>a, <2>f, StatusType, DeliveredSound DEF Delivered
        <4>2. CASE next # "completed"
          BY <4>2, <2>a, <2>f, StatusSound
        <4>3. QED
          BY <4>1, <4>2
      <3>4. CASE WorkflowMoves(c.copy.status, next)
        BY <3>0, <3>1, <3>3, <3>4, <2>c, <2>e, <2>f, <2>g
      <3>5. CASE ~WorkflowMoves(c.copy.status, next)
        BY <3>0, <3>1, <3>5, <2>b, <2>e, <2>f, <2>g, <2>h
      <3>6. QED
        BY <3>4, <3>5
    <2>18. ASSUME NEW h \in Handlers, NEW a \in Actions, RunBound(h, a)
          PROVE  SoundInv'
      <3> DEFINE c == call[h]
      <3>1. c.at = "run" /\ UNCHANGED <<workflow, consented>>
        BY <2>18 DEF RunBound, At, historyVars
      <3>2. c.op = "stage"
        BY <3>1, <2>a DEF Fits, PointsOf, Ops, Calls
      <3>3. \/ approval' = [approval EXCEPT ![a] = "executed"]
            \/ approval' = [approval EXCEPT ![a] = "failed"]
        BY <2>18 DEF RunBound
      <3>4. Asked \subseteq Asked'
        BY <3>3, <2>a DEF Asked, TypeOK
      <3>5. Becomes(h, CallOf("stage", "run", c.row, NewWorkflow, {}, c.batch \ {a}))
        BY <2>18 DEF RunBound
      <3>6. QED
        BY <3>1, <3>2, <3>4, <3>5, <2>c, <2>e, <2>f, <2>h, SoundGrows
    <2>19. ASSUME NEW h \in Handlers, RunOwn(h)
          PROVE  SoundInv'
      <3> DEFINE a == call[h].row
      <3>0. a \in Actions /\ UNCHANGED <<workflow, approval, consented>>
        BY <2>19, <2>a DEF RunOwn, At, Fits, PointsOf, Ops, Calls, rowVars, historyVars
      <3>1. ASSUME NEW at, Becomes(h, Waiting("own", at, a)), at # "bound"
            PROVE  SoundInv'
        BY <3>0, <3>1, <2>b, <2>e, <2>f, <2>g, <2>h
      <3>2. ASSUME Applies(a, workflow), Kind[a] # "write",
                   Becomes(h, CallOf("own", "save", a, Applied(a, workflow), {}, {}))
            PROVE  SoundInv'
        <4>1. Sound(Applied(a, workflow), Asked, consented)
          BY <3>0, <3>2, <2>a, <2>f, AppliedSound
        <4>2. QED
          BY <3>0, <3>2, <4>1, <2>c, <2>e, <2>f, <2>g
      <3>3. QED
        BY <3>1, <3>2, <2>19 DEF RunOwn
    <2>20. ASSUME NEW h \in Handlers, Settle(h)
          PROVE  SoundInv'
      <3>1. Asked \subseteq Asked' /\ Becomes(h, Idle) /\ UNCHANGED <<workflow, consented>>
        BY <2>20, <2>a DEF Settle, Asked, historyVars
      <3>2. QED
        BY <3>1, <2>b, <2>e, <2>f, <2>h, SoundGrows DEF Idle
    <2>21. ASSUME NEW h \in Handlers, Fail(h)
          PROVE  SoundInv'
      <3>1. Asked \subseteq Asked' /\ UNCHANGED <<workflow, consented>>
        BY <2>21, <2>a DEF Fail, Asked, historyVars
      <3>2. \/ Becomes(h, Waiting("revert", "revert", call[h].row))
            \/ Becomes(h, Waiting("none", "idle", NoRow))
        BY <2>21 DEF Fail, Idle
      <3>3. Sound(workflow', Asked', consented')
        BY <3>1, <2>f, SoundGrows
      <3>4. QED
        BY <3>1, <3>2, <3>3, <2>b, <2>e, <2>h
    <2>22. ASSUME NEW h \in Handlers, NEW r \in Rows, Reject(h, r)
          PROVE  SoundInv'
      <3>1. Asked \subseteq Asked' /\ UNCHANGED <<workflow, consented>>
        BY <2>22, <2>a DEF Reject, Asked, historyVars
      <3>2. \/ Becomes(h, Waiting("revert", "revert", r))
            \/ Becomes(h, Waiting("none", "idle", NoRow))
        BY <2>22 DEF Reject, Idle
      <3>3. Sound(workflow', Asked', consented')
        BY <3>1, <2>f, SoundGrows
      <3>4. QED
        BY <3>1, <3>2, <3>3, <2>b, <2>e, <2>h
    <2>23. ASSUME NEW h \in Handlers, VoidRejected(h)
          PROVE  SoundInv'
      <3> DEFINE c == call[h]
      <3>1. Asked \subseteq Asked' /\ UNCHANGED <<workflow, consented>>
        BY <2>23, <2>a DEF VoidRejected, VoidPending, Asked, historyVars
      <3>2. Sound(workflow', Asked', consented')
        BY <3>1, <2>f, SoundGrows
      <3>3. ASSUME NEW i \in Locate(c.copy, c.row),
                   Becomes(h, CallOf("revert", "save", c.row,
                     Doc(StageToStatus[c.copy.stages[i].type], c.copy.stages), {}, {}))
            PROVE  SoundInv'
        <4>1. StageToStatus[c.copy.stages[i].type] # "completed"
          BY <2>a, LocateType, StageType, StatusType DEF Stage, TerminalStatuses
        <4>2. Sound(Doc(StageToStatus[c.copy.stages[i].type], c.copy.stages), Asked', consented')
          BY <3>1, <4>1, <2>a, <2>f, StatusSound, SoundGrows
        <4>3. PICK doc : doc = Doc(StageToStatus[c.copy.stages[i].type], c.copy.stages)
          OBVIOUS
        <4>4. Becomes(h, CallOf("revert", "save", c.row, doc, {}, {})) /\ Sound(doc, Asked', consented')
          BY <3>3, <4>2, <4>3
        <4>5. QED
          BY <3>1, <3>2, <4>4, <2>c, <2>e
      <3>4. ASSUME Becomes(h, Idle)
            PROVE  SoundInv'
        BY <3>1, <3>2, <3>4, <2>b, <2>e, <2>h DEF Idle
      <3>5. QED
        BY <3>3, <3>4, <2>23 DEF VoidRejected
    <2>24. ASSUME Crash
          PROVE  SoundInv'
      <3>1. Asked \subseteq Asked' /\ UNCHANGED <<workflow, consented>>
        BY <2>24, <2>a DEF Crash, Asked
      <3>2. \A h \in Handlers : call'[h] = Waiting("none", "idle", NoRow)
        BY <2>24 DEF Crash, Idle
      <3>3. Sound(workflow', Asked', consented')
        BY <3>1, <2>f, SoundGrows
      <3>4. QED
        BY <3>2, <3>3, <2>b, <2>h DEF SoundInv, At
    <2>25. CASE UNCHANGED vars
      BY <2>25, <2>d, <2>g DEF vars
    <2>26. ASSUME NEW h \in Handlers, NEW a \in Actions, LoadBound(h, a)
          PROVE  SoundInv'
      <3> DEFINE c == call[h]
      <3>1. c.at = "run" /\ UNCHANGED <<workflow, approval, consented>>
        BY <2>26 DEF LoadBound, At, rowVars, historyVars
      <3>2. c.op = "stage"
        BY <3>1, <2>a DEF Fits, PointsOf, Ops, Calls
      <3>3. Sound(Applied(a, workflow), Asked, consented)
        BY <2>26, <2>a, <2>f, AppliedSound DEF LoadBound
      <3>4. Becomes(h, CallOf("stage", "keep", c.row, Applied(a, workflow), {a}, c.batch \ {a}))
        BY <2>26 DEF LoadBound
      <3>5. QED
        BY <3>1, <3>2, <3>3, <3>4, <2>c, <2>e, <2>f, <2>g
    <2>27. ASSUME NEW h \in Handlers, SaveBound(h)
          PROVE  SoundInv'
      <3> DEFINE c == call[h]
      <3>1. /\ c.at = "keep" /\ workflow' = c.copy
            /\ UNCHANGED <<approval, consented>>
        BY <2>27 DEF SaveBound, At, rowVars, historyVars
      <3>2. c.op = "stage"
        BY <3>1, <2>a DEF Fits, PointsOf, Ops, Calls
      <3>3. Becomes(h, CallOf("stage", "record", c.row, NewWorkflow, c.todo, c.batch))
        BY <2>27 DEF SaveBound
      <3>4. QED
        BY <3>1, <3>2, <3>3, <2>c, <2>e, <2>f, <2>g, <2>h
    <2>28. ASSUME NEW h \in Handlers, NEW a \in Actions, RecordBound(h, a)
          PROVE  SoundInv'
      <3> DEFINE c == call[h]
      <3>1. c.at = "record" /\ UNCHANGED <<workflow, consented>>
        BY <2>28 DEF RecordBound, At, historyVars
      <3>2. c.op = "stage"
        BY <3>1, <2>a DEF Fits, PointsOf, Ops, Calls
      <3>3. Asked \subseteq Asked'
        BY <2>28, <2>a DEF RecordBound, Asked, TypeOK
      <3>4. Becomes(h, CallOf("stage", "run", c.row, NewWorkflow, {}, c.batch))
        BY <2>28 DEF RecordBound
      <3>5. QED
        BY <3>1, <3>2, <3>3, <3>4, <2>c, <2>e, <2>f, <2>h, SoundGrows
    <2>29. QED
      BY <2>1, <2>2, <2>3, <2>4, <2>5, <2>6, <2>7, <2>8, <2>9, <2>10, <2>11,
         <2>12, <2>13, <2>14, <2>15, <2>16, <2>17, <2>18, <2>19, <2>20, <2>21,
         <2>22, <2>23, <2>24, <2>25, <2>26, <2>27, <2>28
      DEF Next, Begin, EditStage, Continue
  <1>3. QED
    BY <1>1, <1>2, TypeCorrect, PTL DEF Spec

-----------------------------------------------------------------------------
(* What follows for the saved document.                                    *)

(* Nothing the threads save, however stale, shows a DELIVERY stage that    *)
(* agents worked on to the human, or as accepted, without a quality gate.  *)
THEOREM DeliveryNeedsGate == Spec => []DeliveryIsGated
<1>1. SoundInv => DeliveryIsGated
  BY DEF SoundInv, Sound, SoundStage, DeliveryIsGated
<1>2. QED
  BY <1>1, DocumentsAreSound, PTL

(* Nothing the threads save shows a stage as APPROVED whose request the    *)
(* user did not approve.                                                   *)
THEOREM ApprovalNeedsConsent == Spec => []ApprovedStageHasConsent
<1>1. SoundInv => ApprovedStageHasConsent
  BY DEF SoundInv, Sound, SoundStage, ApprovedStageHasConsent
<1>2. QED
  BY <1>1, DocumentsAreSound, PTL

(* Nothing the threads save shows a workflow as COMPLETED in which no      *)
(* DELIVERY stage is approved.                                             *)
THEOREM CompletionNeedsDelivery == Spec => []CompletedByDelivery
<1>1. SoundInv => CompletedByDelivery
  BY DEF SoundInv, Sound, Delivered, CompletedByDelivery
<1>2. QED
  BY <1>1, DocumentsAreSound, PTL

(* The gate of the delivery cannot be got around, by whatever copies of    *)
(* the document are saved over each other.                                 *)
THEOREM DeliveryWasEarned == Spec => []DeliveryIsEarned
<1>1. DeliveryIsGated /\ CompletedByDelivery => DeliveryIsEarned
  BY DEF DeliveryIsEarned
<1> QED BY <1>1, DeliveryNeedsGate, CompletionNeedsDelivery, PTL

-----------------------------------------------------------------------------
(* Requests on their way: who is going to give an approved request its     *)
(* outcome.                                                                *)

(* The requests a call has approved and not run yet, and the request it    *)
(* serves.                                                                 *)
Held(c) == c.batch \cup (IF c.at \in {"keep", "record"} THEN c.todo ELSE {})
Deciding(c) == c.op \in {"stage", "own"}
Failing(c, q) == c.op = "stage" /\ c.at = "fail" /\ c.row = q

(* Only a stage's approval holds requests, from the point where it collects *)
(* them, and it runs one at a time.                                        *)
HoldsInTurn(c) ==
  /\ Held(c) # {} => c.op = "stage" /\ c.at \in {"bound", "save", "run", "keep", "record"}
  /\ c.at \in {"keep", "record"} => c.todo \cap c.batch = {} /\ \A a, b \in c.todo : a = b

(* Why a request that is approved has no outcome.                          *)
Explained(a) ==
  \/ \E h \in Handlers : call[h].op = "own" /\ call[h].row = a
  \/ \E h \in Handlers : a \in Held(call[h])
  \/ /\ a \notin consented
     /\ \E q \in StageRequests \cap consented :
          approval[q] = "failed" \/ \E h \in Handlers : Failing(call[h], q)

(* The inductive invariant of the requests: a request is in the hands of   *)
(* one call, which got it approved, and stays approved until that call     *)
(* gives it an outcome; nothing the user consented to is open again; and   *)
(* whatever is approved is explained.                                      *)
RunInv ==
  /\ \A h \in Handlers :
       /\ HoldsInTurn(call[h])
       /\ Deciding(call[h]) => approval[call[h].row] = "approved" /\ call[h].row \in consented
       /\ \A a \in Held(call[h]) : a \in Actions /\ approval[a] = "approved" /\ a \notin consented
  /\ \A g, h \in Handlers : g # h =>
       /\ Deciding(call[g]) /\ Deciding(call[h]) => call[g].row # call[h].row
       /\ Held(call[g]) \cap Held(call[h]) = {}
  /\ \A r \in consented : approval[r] \notin Open \cup {"absent"}
  /\ \A a \in Actions : approval[a] = "approved" /\ a \notin lost => Explained(a)

(* What befalls rows that no call decides or runs.                         *)
RowsAge ==
  \A r \in Rows :
    /\ approval'[r] = "approved" <=> approval[r] = "approved"
    /\ approval[r] = "failed" => approval'[r] = "failed"
    /\ approval[r] \notin Open \cup {"absent"} => approval'[r] \notin Open \cup {"absent"}

(* The calls after a step of one of them.                                  *)
LEMMA CallsAfter ==
  ASSUME TypeOK, NEW h \in Handlers, NEW c, Becomes(h, c), NEW g \in Handlers
  PROVE  call'[g] = IF g = h THEN c ELSE call[g]
BY DEF TypeOK, Becomes

(* A step that leaves the call what it held and decided.                   *)
LEMMA RunsGoOn ==
  ASSUME TypeOK, RunInv, NEW h \in Handlers, NEW c, Becomes(h, c), HoldsInTurn(c),
         Held(c) = Held(call[h]), RowsAge, UNCHANGED <<consented, lost>>,
         Deciding(c) <=> Deciding(call[h]),
         Deciding(c) => c.op = call[h].op /\ c.row = call[h].row,
         \A q : Failing(call[h], q) => Failing(c, q)
  PROVE  RunInv'
<1>1. \A g \in Handlers : call'[g] = IF g = h THEN c ELSE call[g]
  BY CallsAfter
<1>2. \A g \in Handlers : /\ Held(call'[g]) = Held(call[g]) /\ HoldsInTurn(call'[g])
                          /\ Deciding(call'[g]) <=> Deciding(call[g])
                          /\ Deciding(call'[g]) => call'[g].op = call[g].op /\ call'[g].row = call[g].row
                          /\ \A q : Failing(call[g], q) => Failing(call'[g], q)
  BY <1>1 DEF RunInv
<1>3. /\ consented \subseteq Rows /\ Actions \subseteq Rows /\ StageRequests \subseteq Rows
      /\ \A g \in Handlers : Deciding(call[g]) => call[g].row \in Rows
  BY DEF TypeOK, Rows, RunInv
<1>4. ASSUME NEW a \in Actions, approval'[a] = "approved", a \notin lost' PROVE Explained(a)'
  <2>1. Explained(a)
    BY <1>3, <1>4 DEF RunInv, RowsAge
  <2>2. CASE \E g \in Handlers : call[g].op = "own" /\ call[g].row = a
    <3>1. PICK g \in Handlers : call[g].op = "own" /\ call[g].row = a
      BY <2>2
    <3>2. call'[g].op = "own" /\ call'[g].row = a
      BY <1>2, <3>1 DEF Deciding
    <3> QED
      BY <3>2 DEF Explained
  <2>3. CASE \E g \in Handlers : a \in Held(call[g])
    BY <1>2, <2>3 DEF Explained
  <2>4. CASE a \notin consented /\ \E q \in StageRequests \cap consented :
                approval[q] = "failed" \/ \E g \in Handlers : Failing(call[g], q)
    <3>1. PICK q \in StageRequests \cap consented :
                approval[q] = "failed" \/ \E g \in Handlers : Failing(call[g], q)
      BY <2>4
    <3>2. approval'[q] = "failed" \/ \E g \in Handlers : Failing(call'[g], q)
      BY <1>2, <1>3, <3>1 DEF RowsAge
    <3> QED
      BY <2>4, <3>1, <3>2 DEF Explained
  <2> QED
    BY <2>1, <2>2, <2>3, <2>4 DEF Explained
<1>5. \A g \in Handlers :
        /\ Deciding(call'[g]) => approval'[call'[g].row] = "approved" /\ call'[g].row \in consented'
        /\ \A a \in Held(call'[g]) : a \in Actions /\ approval'[a] = "approved" /\ a \notin consented'
  BY <1>2, <1>3 DEF RunInv, RowsAge
<1>6. \A f, g \in Handlers : f # g =>
       /\ Deciding(call'[f]) /\ Deciding(call'[g]) => call'[f].row # call'[g].row
       /\ Held(call'[f]) \cap Held(call'[g]) = {}
  BY <1>2 DEF RunInv
<1>7. \A r \in consented' : approval'[r] \notin Open \cup {"absent"}
  BY <1>3 DEF RunInv, RowsAge
<1> QED
  BY <1>2, <1>4, <1>5, <1>6, <1>7 DEF RunInv

(* A step of the queue alone.                                              *)
LEMMA RunsStand ==
  ASSUME TypeOK, RunInv, RowsAge, UNCHANGED <<call, consented, lost>>
  PROVE  RunInv'
<1>1. /\ consented \subseteq Rows /\ Actions \subseteq Rows /\ StageRequests \subseteq Rows
      /\ \A g \in Handlers : Deciding(call[g]) => call[g].row \in Rows
  BY DEF TypeOK, Rows, RunInv
<1>2. \A a \in Actions : approval'[a] = "approved" /\ a \notin lost' => Explained(a)'
  BY <1>1 DEF RunInv, RowsAge, Explained
<1> QED
  BY <1>1, <1>2 DEF RunInv, RowsAge

(* The user approves a request that no call has in hand.                   *)
LEMMA RunsBegin ==
  ASSUME TypeOK, RunInv, NEW h \in Handlers, NEW r \in Rows, NEW op, NEW point,
         MarkApproved(h, r, op, point), Fits(op, point, r),
         \/ op = "stage" /\ point = "locate" /\ r \in StageRequests
         \/ op = "own" /\ point = "apply" /\ r \in Actions
  PROVE  RunInv'
<1> DEFINE c == Waiting(op, point, r)
<1>1. /\ c.op = op /\ c.at = point /\ c.row = r /\ c.batch = {} /\ c.todo = {}
  BY DEF Waiting, CallOf
<1>2. /\ At(h, "idle") /\ Becomes(h, c) /\ ExpireDue[r] \in Approvable
      /\ approval' = [ExpireDue EXCEPT ![r] = "approved"]
      /\ consented' = consented \cup {r} /\ lost' = lost
  BY DEF MarkApproved
<1>3. \A g \in Handlers : call'[g] = IF g = h THEN c ELSE call[g]
  BY <1>2, CallsAfter
<1> HIDE DEF c
<1>4. call[h].op = "none" /\ Held(call[h]) = {} /\ \A q : ~Failing(call[h], q)
  BY <1>2 DEF TypeOK, Idle, Waiting, CallOf, Held, Failing
<1>5. Held(c) = {} /\ HoldsInTurn(c) /\ Deciding(c) /\ \A q : ~Failing(c, q)
  BY <1>1 DEF Held, HoldsInTurn, Deciding, Failing
<1>6. /\ consented \subseteq Rows /\ Actions \subseteq Rows /\ StageRequests \subseteq Rows
      /\ \A g \in Handlers : Deciding(call[g]) => call[g].row \in Rows
      /\ Actions \cap StageRequests = {}
  BY RowsAssumption DEF TypeOK, Rows, RunInv
<1>7. approval[r] \in Open /\ approval'[r] = "approved"
  BY <1>2 DEF ExpireDue, Approvable, Open, TypeOK
<1>8. \A s \in Rows \ {r} : /\ approval'[s] = "approved" <=> approval[s] = "approved"
                            /\ approval[s] = "failed" => approval'[s] = "failed"
                            /\ approval[s] \notin Open \cup {"absent"} =>
                                 approval'[s] \notin Open \cup {"absent"}
  BY <1>2 DEF ExpireDue, Open, TypeOK
<1>9. /\ \A g \in Handlers : ~(Deciding(call[g]) /\ call[g].row = r) /\ r \notin Held(call[g])
      /\ r \notin consented
  BY <1>7 DEF RunInv, Open
<1>10. \A g \in Handlers :
        /\ HoldsInTurn(call'[g])
        /\ Deciding(call'[g]) => approval'[call'[g].row] = "approved" /\ call'[g].row \in consented'
        /\ \A a \in Held(call'[g]) : a \in Actions /\ approval'[a] = "approved" /\ a \notin consented'
  BY <1>1, <1>2, <1>3, <1>5, <1>6, <1>7, <1>8, <1>9 DEF RunInv
<1>11. \A f, g \in Handlers : f # g =>
       /\ Deciding(call'[f]) /\ Deciding(call'[g]) => call'[f].row # call'[g].row
       /\ Held(call'[f]) \cap Held(call'[g]) = {}
  BY <1>1, <1>3, <1>5, <1>9 DEF RunInv
<1>12. \A s \in consented' : approval'[s] \notin Open \cup {"absent"}
  BY <1>2, <1>6, <1>7, <1>8 DEF RunInv, Open
<1>13. ASSUME NEW a \in Actions, approval'[a] = "approved", a \notin lost' PROVE Explained(a)'
  <2>1. CASE a = r
    BY <1>1, <1>3, <1>6, <2>1 DEF Explained
  <2>2. CASE a # r
    <3>1. Explained(a)
      BY <1>2, <1>6, <1>8, <1>13, <2>2 DEF RunInv
    <3>2. CASE \E g \in Handlers : call[g].op = "own" /\ call[g].row = a
      <4>1. PICK g \in Handlers : call[g].op = "own" /\ call[g].row = a
        BY <3>2
      <4>2. call'[g] = call[g]
        BY <1>3, <1>4, <4>1
      <4> QED
        BY <4>1, <4>2 DEF Explained
    <3>3. CASE \E g \in Handlers : a \in Held(call[g])
      <4>1. PICK g \in Handlers : a \in Held(call[g])
        BY <3>3
      <4>2. call'[g] = call[g]
        BY <1>3, <1>4, <4>1
      <4> QED
        BY <4>1, <4>2 DEF Explained
    <3>4. CASE a \notin consented /\ \E q \in StageRequests \cap consented :
                  approval[q] = "failed" \/ \E g \in Handlers : Failing(call[g], q)
      <4>1. PICK q \in StageRequests \cap consented :
                  approval[q] = "failed" \/ \E g \in Handlers : Failing(call[g], q)
        BY <3>4
      <4>2. q # r
        BY <1>9, <4>1
      <4>3. approval'[q] = "failed" \/ \E g \in Handlers : Failing(call'[g], q)
        BY <1>3, <1>4, <1>6, <1>8, <4>1, <4>2
      <4> QED
        BY <1>2, <2>2, <3>4, <4>1, <4>3 DEF Explained
    <3> QED
      BY <3>1, <3>2, <3>3, <3>4 DEF Explained
  <2> QED
    BY <2>1, <2>2
<1> QED
  BY <1>10, <1>11, <1>12, <1>13 DEF RunInv

(* A call gives one row its outcome, and holds or decides it no more.      *)
Settles(h, c, r, outcome) ==
  /\ outcome \in {"executed", "failed"}
  /\ approval' = [approval EXCEPT ![r] = outcome]
  /\ UNCHANGED <<consented, lost>>
  /\ Becomes(h, c) /\ HoldsInTurn(c)
  /\ \/ /\ r \in Held(call[h]) /\ Held(c) = Held(call[h]) \ {r}
        /\ c.op = call[h].op /\ c.row = call[h].row /\ call[h].at # "fail"
     \/ /\ r = call[h].row /\ Deciding(call[h]) /\ Held(call[h]) = {} /\ Held(c) = {}
        /\ ~Deciding(c) /\ (call[h].at = "fail" => outcome = "failed")

(* A run that settles keeps what is known of the others.                   *)
LEMMA RunsSettle ==
  ASSUME TypeOK, RunInv, NEW h \in Handlers, NEW c, NEW r \in Rows, NEW outcome,
         Settles(h, c, r, outcome)
  PROVE  RunInv'
<1>1. \A g \in Handlers : call'[g] = IF g = h THEN c ELSE call[g]
  BY CallsAfter DEF Settles
<1>2. /\ consented \subseteq Rows /\ Actions \subseteq Rows /\ StageRequests \subseteq Rows
      /\ \A g \in Handlers : Deciding(call[g]) => call[g].row \in Rows
      /\ Actions \cap StageRequests = {}
  BY RowsAssumption DEF TypeOK, Rows, RunInv
<1>3. /\ approval[r] = "approved" /\ approval'[r] = outcome
      /\ outcome \notin Open \cup {"absent", "approved"}
      /\ \A s \in Rows \ {r} : approval'[s] = approval[s]
      /\ UNCHANGED <<consented, lost>>
  BY DEF Settles, RunInv, Open, TypeOK
<1>4. /\ \A a \in Held(c) : a \in Held(call[h]) /\ a # r
      /\ Deciding(c) => Deciding(call[h]) /\ c.op = call[h].op /\ c.row = call[h].row /\ c.row # r
      /\ HoldsInTurn(c)
  BY DEF Settles, Deciding, RunInv
<1>5. \A g \in Handlers : g # h => r \notin Held(call[g]) /\ ~(Deciding(call[g]) /\ call[g].row = r)
  BY DEF Settles, RunInv, Deciding
<1>6. \A g \in Handlers :
        /\ HoldsInTurn(call'[g])
        /\ Deciding(call'[g]) => approval'[call'[g].row] = "approved" /\ call'[g].row \in consented'
        /\ \A a \in Held(call'[g]) : a \in Actions /\ approval'[a] = "approved" /\ a \notin consented'
  BY <1>1, <1>2, <1>3, <1>4, <1>5 DEF RunInv
<1>7. \A f, g \in Handlers : f # g =>
       /\ Deciding(call'[f]) /\ Deciding(call'[g]) => call'[f].row # call'[g].row
       /\ Held(call'[f]) \cap Held(call'[g]) = {}
  BY <1>1, <1>4 DEF RunInv
<1>8. \A s \in consented' : approval'[s] \notin Open \cup {"absent"}
  BY <1>2, <1>3 DEF RunInv
<1>9. \A q : Failing(call[h], q) =>
         (r = q /\ outcome = "failed") \/ Failing(c, q)
  BY DEF Settles, Failing, Held, HoldsInTurn
<1>10. ASSUME NEW a \in Actions, approval'[a] = "approved", a \notin lost' PROVE Explained(a)'
  <2>1. a # r /\ Explained(a)
    BY <1>2, <1>3, <1>10 DEF RunInv
  <2>2. CASE \E g \in Handlers : call[g].op = "own" /\ call[g].row = a
    <3>1. PICK g \in Handlers : call[g].op = "own" /\ call[g].row = a
      BY <2>2
    <3>2. call'[g].op = "own" /\ call'[g].row = a
      BY <1>1, <2>1, <3>1 DEF Settles, Deciding
    <3> QED
      BY <3>2 DEF Explained
  <2>3. CASE \E g \in Handlers : a \in Held(call[g])
    <3>1. PICK g \in Handlers : a \in Held(call[g])
      BY <2>3
    <3>2. a \in Held(call'[g])
      BY <1>1, <2>1, <3>1 DEF Settles
    <3> QED
      BY <3>2 DEF Explained
  <2>4. CASE a \notin consented /\ \E q \in StageRequests \cap consented :
                approval[q] = "failed" \/ \E g \in Handlers : Failing(call[g], q)
    <3>1. PICK q \in StageRequests \cap consented :
                approval[q] = "failed" \/ \E g \in Handlers : Failing(call[g], q)
      BY <2>4
    <3>2. approval'[q] = "failed" \/ \E g \in Handlers : Failing(call'[g], q)
      BY <1>1, <1>2, <1>3, <1>9, <3>1
    <3> QED
      BY <1>3, <2>4, <3>1, <3>2 DEF Explained
  <2> QED
    BY <2>1, <2>2, <2>3, <2>4 DEF Explained
<1> QED
  BY <1>6, <1>7, <1>8, <1>10 DEF RunInv

(* A stage's approval collects one more request.                           *)
LEMMA RunsCollect ==
  ASSUME TypeOK, RunInv, NEW h \in Handlers, NEW a \in Actions, At(h, "bound"),
         approval[a] = "pending", approval' = [ExpireDue EXCEPT ![a] = "approved"],
         UNCHANGED <<consented, lost>>,
         Becomes(h, CallOf("stage", "bound", call[h].row, call[h].copy,
                           call[h].todo \ {a}, call[h].batch \cup {a}))
  PROVE  RunInv'
<1>1. PICK c : c = CallOf("stage", "bound", call[h].row, call[h].copy,
                           call[h].todo \ {a}, call[h].batch \cup {a})
  OBVIOUS
<1>2. \A g \in Handlers : call'[g] = IF g = h THEN c ELSE call[g]
  BY <1>1, CallsAfter
<1>3. /\ c.op = "stage" /\ c.at = "bound" /\ c.row = call[h].row
      /\ Held(c) = Held(call[h]) \cup {a}
      /\ call[h].op = "stage"
  BY <1>1 DEF CallOf, Held, At, TypeOK, Fits, PointsOf, Calls, Ops
<1>4. /\ consented \subseteq Rows /\ Actions \subseteq Rows /\ StageRequests \subseteq Rows
      /\ \A g \in Handlers : Deciding(call[g]) => call[g].row \in Rows
      /\ Actions \cap StageRequests = {}
  BY RowsAssumption DEF TypeOK, Rows, RunInv
<1>5. /\ approval'[a] = "approved" /\ a \notin consented
      /\ \A g \in Handlers : ~(Deciding(call[g]) /\ call[g].row = a) /\ a \notin Held(call[g])
  BY <1>4 DEF RunInv, Open, TypeOK, ExpireDue
<1>6. \A s \in Rows \ {a} : /\ approval'[s] = "approved" <=> approval[s] = "approved"
                            /\ approval[s] = "failed" => approval'[s] = "failed"
                            /\ approval[s] \notin Open \cup {"absent"} =>
                                 approval'[s] \notin Open \cup {"absent"}
  BY DEF ExpireDue, Open, TypeOK
<1>7. HoldsInTurn(c) /\ Deciding(c) /\ Deciding(call[h])
  BY <1>3 DEF HoldsInTurn, Deciding
<1>8. \A g \in Handlers :
        /\ HoldsInTurn(call'[g])
        /\ Deciding(call'[g]) => approval'[call'[g].row] = "approved" /\ call'[g].row \in consented'
        /\ \A b \in Held(call'[g]) : b \in Actions /\ approval'[b] = "approved" /\ b \notin consented'
  BY <1>2, <1>3, <1>4, <1>5, <1>6, <1>7 DEF RunInv
<1>9. \A f, g \in Handlers : f # g =>
       /\ Deciding(call'[f]) /\ Deciding(call'[g]) => call'[f].row # call'[g].row
       /\ Held(call'[f]) \cap Held(call'[g]) = {}
  BY <1>2, <1>3, <1>5, <1>7 DEF RunInv
<1>10. \A s \in consented' : approval'[s] \notin Open \cup {"absent"}
  BY <1>4, <1>5, <1>6 DEF RunInv
<1>11. \A q : ~Failing(call[h], q)
  BY DEF At, Failing
<1>12. ASSUME NEW b \in Actions, approval'[b] = "approved", b \notin lost' PROVE Explained(b)'
  <2>1. CASE b = a
    BY <1>2, <1>3, <2>1 DEF Explained
  <2>2. CASE b # a
    <3>1. Explained(b)
      BY <1>4, <1>6, <1>12, <2>2 DEF RunInv
    <3>2. \A g \in Handlers : /\ call'[g].op = call[g].op /\ call'[g].row = call[g].row
                              /\ Held(call[g]) \subseteq Held(call'[g])
                              /\ \A q : Failing(call[g], q) => Failing(call'[g], q)
      BY <1>2, <1>3, <1>11
    <3>3. \A q \in StageRequests : approval[q] = "failed" => approval'[q] = "failed"
      BY <1>4, <1>6
    <3> QED
      BY <3>1, <3>2, <3>3 DEF Explained
  <2> QED
    BY <2>1, <2>2
<1> QED
  BY <1>8, <1>9, <1>10, <1>12 DEF RunInv

(* A stage's approval fails, and lets go of what it held.                  *)
LEMMA RunsFail ==
  ASSUME TypeOK, RunInv, NEW h \in Handlers, RowsAge, UNCHANGED <<consented, lost>>,
         At(h, "bound"), Becomes(h, Waiting("stage", "fail", call[h].row))
  PROVE  RunInv'
<1>1. PICK c : c = Waiting("stage", "fail", call[h].row)
  OBVIOUS
<1>2. \A g \in Handlers : call'[g] = IF g = h THEN c ELSE call[g]
  BY <1>1, CallsAfter
<1>3. /\ Failing(c, call[h].row) /\ Held(c) = {} /\ HoldsInTurn(c) /\ Deciding(c)
      /\ c.row = call[h].row /\ call[h].op = "stage" /\ Deciding(call[h])
      /\ call[h].row \in StageRequests /\ call[h].row \in consented
      /\ \A q : ~Failing(call[h], q)
  BY <1>1 DEF Waiting, CallOf, Held, HoldsInTurn, Deciding, Failing, At, TypeOK, Fits, PointsOf,
     Calls, Ops, RunInv
<1>4. /\ consented \subseteq Rows /\ Actions \subseteq Rows /\ StageRequests \subseteq Rows
      /\ \A g \in Handlers : Deciding(call[g]) => call[g].row \in Rows
  BY DEF TypeOK, Rows, RunInv
<1>5. \A g \in Handlers :
        /\ HoldsInTurn(call'[g])
        /\ Deciding(call'[g]) => approval'[call'[g].row] = "approved" /\ call'[g].row \in consented'
        /\ \A b \in Held(call'[g]) : b \in Actions /\ approval'[b] = "approved" /\ b \notin consented'
  BY <1>2, <1>3, <1>4 DEF RunInv, RowsAge
<1>6. \A f, g \in Handlers : f # g =>
       /\ Deciding(call'[f]) /\ Deciding(call'[g]) => call'[f].row # call'[g].row
       /\ Held(call'[f]) \cap Held(call'[g]) = {}
  BY <1>2, <1>3 DEF RunInv
<1>7. \A s \in consented' : approval'[s] \notin Open \cup {"absent"}
  BY <1>4 DEF RunInv, RowsAge
<1>8. ASSUME NEW b \in Actions, approval'[b] = "approved", b \notin lost' PROVE Explained(b)'
  <2>1. Explained(b)
    BY <1>4, <1>8 DEF RunInv, RowsAge
  <2>2. CASE b \in Held(call[h])
    <3>1. b \notin consented
      BY <2>2 DEF RunInv
    <3>2. call[h].row \in StageRequests \cap consented' /\ Failing(call'[h], call[h].row)
      BY <1>2, <1>3
    <3> QED
      BY <3>1, <3>2 DEF Explained
  <2>3. CASE b \notin Held(call[h])
    <3>1. \A g \in Handlers : /\ call'[g].op = call[g].op /\ call'[g].row = call[g].row
                              /\ b \in Held(call[g]) => b \in Held(call'[g])
                              /\ \A q : Failing(call[g], q) => Failing(call'[g], q)
      BY <1>1, <1>2, <1>3, <2>3 DEF Waiting, CallOf
    <3>2. \A q \in StageRequests : approval[q] = "failed" => approval'[q] = "failed"
      BY <1>4 DEF RowsAge
    <3> QED
      BY <2>1, <3>1, <3>2 DEF Explained
  <2> QED
    BY <2>2, <2>3
<1> QED
  BY <1>5, <1>6, <1>7, <1>8 DEF RunInv

(* A crash takes the calls, and marks what was approved as lost.           *)
LEMMA RunsCrash ==
  ASSUME TypeOK, RunInv, Crash
  PROVE  RunInv'
<1>1. \A g \in Handlers : call'[g] = Idle
  BY DEF Crash
<1>2. Held(Idle) = {} /\ ~Deciding(Idle) /\ HoldsInTurn(Idle)
  BY DEF Idle, Waiting, CallOf, Held, Deciding, HoldsInTurn
<1>3. /\ lost' = lost \cup {r \in Rows : approval[r] = "approved"} /\ UNCHANGED consented
      /\ \A r \in Rows : approval'[r] = "approved" <=> approval[r] = "approved"
      /\ \A r \in Rows : approval[r] \notin Open \cup {"absent"} =>
           approval'[r] \notin Open \cup {"absent"}
  BY DEF Crash, ExpireDue, Open, TypeOK
<1>4. Actions \subseteq Rows /\ consented \subseteq Rows
  BY DEF Rows, TypeOK
<1>5. \A a \in Actions : approval'[a] = "approved" => a \in lost'
  BY <1>3, <1>4
<1>6. \A s \in consented' : approval'[s] \notin Open \cup {"absent"}
  BY <1>3, <1>4 DEF RunInv
<1> QED
  BY <1>1, <1>2, <1>5, <1>6 DEF RunInv

(* Every step is one of these.                                             *)
LEMMA RunsStep == TypeOK /\ RunInv /\ [Next]_vars => RunInv'
<1> SUFFICES ASSUME TypeOK, RunInv, [Next]_vars PROVE RunInv'
  OBVIOUS
<1>a. /\ \A r \in Rows : /\ ExpireDue[r] = "approved" <=> approval[r] = "approved"
                         /\ approval[r] = "failed" => ExpireDue[r] = "failed"
                         /\ approval[r] \notin Open \cup {"absent"} =>
                              ExpireDue[r] \notin Open \cup {"absent"}
      /\ Actions \subseteq Rows /\ StageRequests \subseteq Rows
      /\ approval \in [Rows -> ApprovalStatus]
  BY DEF ExpireDue, Open, TypeOK, Rows
<1>b. UNCHANGED approval => RowsAge
  BY DEF RowsAge
<1>c. ASSUME NEW rows, VoidPending(rows) PROVE RowsAge
  BY <1>c DEF VoidPending, RowsAge, Open
<1>d. ASSUME NEW r \in Rows, approval[r] \in Open \cup {"absent"}, NEW st, st # "approved",
             approval' = [approval EXCEPT ![r] = st]
      PROVE  RowsAge
  BY <1>a, <1>d DEF RowsAge, Open
<1>e. \A h \in Handlers : At(h, "idle") => /\ Held(call[h]) = {} /\ ~Deciding(call[h])
                                           /\ \A q : ~Failing(call[h], q)
  BY DEF TypeOK, Idle, Waiting, CallOf, Held, Deciding, Failing
<1>f. \A h \in Handlers : HoldsInTurn(call[h])
  BY DEF RunInv
<1>g. \A h \in Handlers : /\ Fits(call[h].op, call[h].at, call[h].row) /\ call[h].op \in Ops
  BY DEF TypeOK, Calls
<1>h. \A h \in Handlers, point \in {"locate", "bound", "run", "keep", "record"} :
        At(h, point) => call[h].op = "stage" /\ ~\E q : Failing(call[h], q)
  BY <1>g DEF At, Fits, PointsOf, Ops, Failing
<1>s. ASSUME NEW h \in Handlers, NEW op \in {"none", "edit", "cancel", "revert"}, NEW at \in Points, NEW row,
             NEW copy, NEW todo, Becomes(h, CallOf(op, at, row, copy, todo, {})), at \notin {"keep", "record"},
             RowsAge, UNCHANGED <<consented, lost>>,
             Held(call[h]) = {}, ~Deciding(call[h]), \A q : ~Failing(call[h], q)
      PROVE  RunInv'
  <2>1. PICK c : c = CallOf(op, at, row, copy, todo, {})
    OBVIOUS
  <2>2. Held(c) = {} /\ ~Deciding(c) /\ HoldsInTurn(c)
    BY <1>s, <2>1 DEF CallOf, Held, Deciding, HoldsInTurn
  <2> QED
    BY <1>s, <2>1, <2>2, RunsGoOn
<1>t. ASSUME NEW h \in Handlers, NEW at \in Points, NEW row, Becomes(h, Waiting("revert", at, row)),
             at \notin {"keep", "record"}, RowsAge, UNCHANGED <<consented, lost>>,
             Held(call[h]) = {}, ~Deciding(call[h]), \A q : ~Failing(call[h], q)
      PROVE  RunInv'
  BY <1>s, <1>t DEF Waiting
<1>u. ASSUME NEW h \in Handlers, Becomes(h, Idle),
             RowsAge, UNCHANGED <<consented, lost>>,
             Held(call[h]) = {}, ~Deciding(call[h]), \A q : ~Failing(call[h], q)
      PROVE  RunInv'
  BY <1>s, <1>u DEF Waiting, Idle, Points
<1>v. ASSUME NEW h \in Handlers, NEW doc, At(h, "idle"), Edit(h, doc), RowsAge PROVE RunInv'
  BY <1>e, <1>s, <1>v DEF Edit, historyVars, Points
<1>1. ASSUME NEW h \in Handlers, Begin(h) PROVE RunInv'
  <2>1. ASSUME NEW type \in StartTypes, StartStage(h, type) PROVE RunInv'
    BY <1>b, <1>v, <2>1 DEF StartStage, rowVars
  <2>2. ASSUME NEW i \in DOMAIN workflow.stages, EditStage(h, i) PROVE RunInv'
    <3>1. CASE SubmitReport(h, i)
      BY <1>b, <1>v, <3>1 DEF SubmitReport, rowVars
    <3>2. ASSUME NEW a \in Actions, AttachAction(h, i, a) PROVE RunInv'
      BY <1>b, <1>v, <3>2 DEF AttachAction, rowVars
    <3>3. ASSUME NEW q \in StageRequests, RequestStageApproval(h, i, q) PROVE RunInv'
      <4>1. RowsAge
        BY <1>a, <1>d, <3>3 DEF RequestStageApproval
      <4>2. CASE WorkflowMoves(workflow.status, "waiting_approval")
        BY <1>v, <3>3, <4>1, <4>2 DEF RequestStageApproval
      <4>3. CASE ~WorkflowMoves(workflow.status, "waiting_approval")
        BY <3>3, <4>1, <4>3, RunsStand DEF RequestStageApproval, historyVars
      <4> QED
        BY <4>2, <4>3
    <3> QED
      BY <2>2, <3>1, <3>2, <3>3 DEF EditStage
  <2>3. CASE Cancel(h)
    <3>1. PICK todo : Becomes(h, CallOf("cancel", "void", NoRow, workflow, todo, {}))
      BY <2>3 DEF Cancel
    <3> QED
      BY <1>b, <1>e, <1>s, <2>3, <3>1 DEF Cancel, rowVars, historyVars, Points
  <2>4. ASSUME NEW q \in StageRequests, ApproveStage(h, q) PROVE RunInv'
    BY <1>a, <2>4, RunsBegin DEF ApproveStage, Fits, PointsOf
  <2>5. ASSUME NEW a \in Actions, ApproveAction(h, a) PROVE RunInv'
    BY <1>a, <2>5, RunsBegin DEF ApproveAction, Fits, PointsOf
  <2>6. ASSUME NEW r \in Rows, Reject(h, r) PROVE RunInv'
    <3>1. RowsAge /\ At(h, "idle") /\ UNCHANGED <<consented, lost>>
      BY <1>d, <2>6 DEF Reject, historyVars
    <3>2. CASE r \in StageRequests
      BY <1>e, <1>t, <2>6, <3>1, <3>2 DEF Reject, Points
    <3>3. CASE r \notin StageRequests
      BY <1>e, <1>u, <2>6, <3>1, <3>3 DEF Reject
    <3> QED
      BY <3>2, <3>3
  <2> QED
    BY <1>1, <2>1, <2>2, <2>3, <2>4, <2>5, <2>6 DEF Begin
<1>2. ASSUME NEW h \in Handlers, Continue(h) PROVE RunInv'
  <2>1. CASE Save(h)
    <3>1. /\ call[h].at = "save" /\ RowsAge /\ UNCHANGED <<consented, lost>>
          /\ \A q : ~Failing(call[h], q)
      BY <1>b, <2>1 DEF Save, At, rowVars, historyVars, Failing
    <3>2. CASE call[h].op = "stage"
      <4>1. PICK c : c = CallOf("stage", "run", call[h].row, NewWorkflow, {}, call[h].batch)
        OBVIOUS
      <4>2. /\ Held(c) = Held(call[h]) /\ HoldsInTurn(c) /\ Deciding(c) /\ Deciding(call[h])
            /\ c.op = call[h].op /\ c.row = call[h].row
        BY <3>1, <3>2, <4>1 DEF CallOf, Held, HoldsInTurn, Deciding
      <4> QED
        BY <2>1, <3>1, <3>2, <4>1, <4>2, RunsGoOn DEF Save
    <3>3. CASE call[h].op = "own"
      <4>1. PICK c : c = Waiting("own", "settle", call[h].row)
        OBVIOUS
      <4>2. /\ Held(c) = Held(call[h]) /\ HoldsInTurn(c) /\ Deciding(c) /\ Deciding(call[h])
            /\ c.op = call[h].op /\ c.row = call[h].row
        BY <1>f, <3>3, <4>1 DEF Waiting, CallOf, Held, HoldsInTurn, Deciding
      <4> QED
        BY <2>1, <3>1, <3>3, <4>1, <4>2, RunsGoOn DEF Save
    <3>4. CASE ~Deciding(call[h])
      BY <1>f, <1>u, <2>1, <3>1, <3>4 DEF Save, Deciding, HoldsInTurn
    <3> QED
      BY <3>2, <3>3, <3>4 DEF Deciding
  <2>2. CASE VoidCancelled(h)
    <3>1. /\ Held(call[h]) = {} /\ ~Deciding(call[h]) /\ \A q : ~Failing(call[h], q)
      BY <1>f, <2>2 DEF VoidCancelled, HoldsInTurn, Deciding, Failing
    <3> QED
      BY <1>c, <1>s, <2>2, <3>1 DEF VoidCancelled, Points, historyVars
  <2>3. CASE LocateStage(h)
    <3>1. /\ call[h].op = "stage" /\ Held(call[h]) = {} /\ RowsAge /\ UNCHANGED <<consented, lost>>
          /\ \A q : ~Failing(call[h], q)
      BY <1>b, <1>f, <1>h, <2>3 DEF LocateStage, At, HoldsInTurn, rowVars, historyVars
    <3>2. PICK at \in {"bound", "fail"}, copy \in {call'[h].copy}, todo \in {call'[h].todo} :
            Becomes(h, CallOf("stage", at, call[h].row, copy, todo, {}))
      <4>1. CASE Becomes(h, Waiting("stage", "fail", call[h].row))
        <5>1. call'[h] = Waiting("stage", "fail", call[h].row)
          BY <4>1, CallsAfter
        <5> QED
          BY <4>1, <5>1 DEF Waiting, CallOf
      <4>2. ASSUME NEW doc, NEW names, Becomes(h, CallOf("stage", "bound", call[h].row, doc, names, {}))
            PROVE  \E at \in {"bound", "fail"}, copy \in {call'[h].copy}, todo \in {call'[h].todo} :
                     Becomes(h, CallOf("stage", at, call[h].row, copy, todo, {}))
        <5>1. call'[h] = CallOf("stage", "bound", call[h].row, doc, names, {})
          BY <4>2, CallsAfter
        <5> QED
          BY <4>2, <5>1 DEF CallOf
      <4> QED
        BY <2>3, <4>1, <4>2 DEF LocateStage
    <3>3. PICK c : c = CallOf("stage", at, call[h].row, copy, todo, {})
      OBVIOUS
    <3>4. /\ Held(c) = {} /\ HoldsInTurn(c) /\ Deciding(c) /\ Deciding(call[h])
          /\ c.op = call[h].op /\ c.row = call[h].row
      BY <3>1, <3>3 DEF CallOf, Held, HoldsInTurn, Deciding
    <3> QED
      BY <3>1, <3>2, <3>3, <3>4, RunsGoOn
  <2>4. CASE Advance(h)
    <3>1. /\ At(h, "bound") /\ RowsAge /\ UNCHANGED <<consented, lost>> /\ call[h].op = "stage"
          /\ \A q : ~Failing(call[h], q)
      BY <1>b, <1>h, <2>4 DEF Advance, rowVars, historyVars
    <3>2. CASE Becomes(h, Waiting("stage", "fail", call[h].row))
      BY <3>1, <3>2, RunsFail
    <3>3. ASSUME NEW doc, Becomes(h, CallOf("stage", "save", call[h].row, doc, {}, call[h].batch))
          PROVE  RunInv'
      <4>1. PICK c : c = CallOf("stage", "save", call[h].row, doc, {}, call[h].batch)
        OBVIOUS
      <4>2. /\ Held(c) = Held(call[h]) /\ HoldsInTurn(c) /\ Deciding(c) /\ Deciding(call[h])
            /\ c.op = call[h].op /\ c.row = call[h].row
        BY <3>1, <4>1 DEF CallOf, Held, HoldsInTurn, Deciding, At
      <4> QED
        BY <3>1, <3>3, <4>1, <4>2, RunsGoOn
    <3> QED
      BY <2>4, <3>2, <3>3 DEF Advance
  <2>5. ASSUME NEW a \in Actions, ApproveBound(h, a) PROVE RunInv'
    <3>1. /\ At(h, "bound") /\ UNCHANGED <<consented, lost>> /\ call[h].op = "stage"
          /\ \A q : ~Failing(call[h], q)
      BY <1>h, <2>5 DEF ApproveBound, historyVars
    <3>2. CASE /\ approval' = approval
               /\ Becomes(h, CallOf("stage", "bound", call[h].row, call[h].copy,
                                    call[h].todo \ {a}, call[h].batch))
      <4>1. PICK c : c = CallOf("stage", "bound", call[h].row, call[h].copy,
                                    call[h].todo \ {a}, call[h].batch)
        OBVIOUS
      <4>2. /\ Held(c) = Held(call[h]) /\ HoldsInTurn(c) /\ Deciding(c) /\ Deciding(call[h])
            /\ c.op = call[h].op /\ c.row = call[h].row
        BY <3>1, <4>1 DEF CallOf, Held, HoldsInTurn, Deciding, At
      <4> QED
        BY <1>b, <3>1, <3>2, <4>1, <4>2, RunsGoOn
    <3>3. CASE approval' = ExpireDue /\ Becomes(h, Waiting("stage", "fail", call[h].row))
      <4>1. RowsAge
        BY <1>a, <3>3 DEF RowsAge
      <4> QED
        BY <3>1, <3>3, <4>1, RunsFail
    <3> QED
      BY <2>5, <3>1, <3>2, <3>3, RunsCollect DEF ApproveBound
  <2>6. ASSUME NEW a \in Actions, RunBound(h, a) PROVE RunInv'
    <3>1. PICK c : c = CallOf("stage", "run", call[h].row, NewWorkflow, {}, call[h].batch \ {a})
      OBVIOUS
    <3>2. PICK outcome \in {approval'[a]} : approval' = [approval EXCEPT ![a] = outcome]
      BY <1>a, <2>6 DEF RunBound
    <3>3. outcome = "executed" \/ outcome = "failed"
      BY <1>a, <2>6, <3>2 DEF RunBound
    <3>4. Settles(h, c, a, outcome)
      BY <1>h, <2>6, <3>1, <3>2, <3>3
         DEF RunBound, Settles, Held, HoldsInTurn, CallOf, At, historyVars
    <3> QED
      BY <1>a, <3>4, RunsSettle
  <2>7. ASSUME NEW a \in Actions, LoadBound(h, a) PROVE RunInv'
    <3>1. PICK c : c = CallOf("stage", "keep", call[h].row, Applied(a, workflow), {a}, call[h].batch \ {a})
      OBVIOUS
    <3>2. /\ Held(c) = Held(call[h]) /\ HoldsInTurn(c) /\ Deciding(c) /\ Deciding(call[h])
          /\ c.op = call[h].op /\ c.row = call[h].row
      BY <1>h, <2>7, <3>1 DEF LoadBound, CallOf, Held, HoldsInTurn, Deciding, At
    <3> QED
      BY <1>b, <1>h, <2>7, <3>1, <3>2, RunsGoOn DEF LoadBound, rowVars, historyVars
  <2>8. CASE SaveBound(h)
    <3>1. PICK c : c = CallOf("stage", "record", call[h].row, NewWorkflow, call[h].todo, call[h].batch)
      OBVIOUS
    <3>2. /\ Held(c) = Held(call[h]) /\ HoldsInTurn(c) /\ Deciding(c) /\ Deciding(call[h])
          /\ c.op = call[h].op /\ c.row = call[h].row
      BY <1>f, <1>h, <2>8, <3>1 DEF SaveBound, CallOf, Held, HoldsInTurn, Deciding, At
    <3> QED
      BY <1>b, <1>h, <2>8, <3>1, <3>2, RunsGoOn DEF SaveBound, rowVars, historyVars
  <2>9. ASSUME NEW a \in Actions, RecordBound(h, a) PROVE RunInv'
    <3>1. PICK c : c = CallOf("stage", "run", call[h].row, NewWorkflow, {}, call[h].batch)
      OBVIOUS
    <3>2. /\ call[h].at = "record" /\ call[h].op = "stage" /\ a \in Held(call[h])
          /\ call[h].todo = {a} /\ a \notin call[h].batch
      BY <1>f, <1>h, <2>9 DEF RecordBound, At, Held, HoldsInTurn
    <3>3. Settles(h, c, a, "executed")
      BY <2>9, <3>1, <3>2 DEF RecordBound, Settles, Held, HoldsInTurn, CallOf, historyVars
    <3> QED
      BY <1>a, <3>3, RunsSettle
  <2>10. CASE RunOwn(h)
    <3>1. /\ call[h].op = "own" /\ Held(call[h]) = {} /\ RowsAge /\ UNCHANGED <<consented, lost>>
          /\ \A q : ~Failing(call[h], q)
      BY <1>b, <1>f, <1>g, <2>10 DEF RunOwn, At, HoldsInTurn, rowVars, historyVars, Fits, PointsOf,
         Ops, Failing
    <3>2. ASSUME NEW at \in {"settle", "save", "fail"}, NEW copy,
                 Becomes(h, CallOf("own", at, call[h].row, copy, {}, {}))
          PROVE  RunInv'
      <4>1. PICK c : c = CallOf("own", at, call[h].row, copy, {}, {})
        OBVIOUS
      <4>2. /\ Held(c) = {} /\ HoldsInTurn(c) /\ Deciding(c) /\ Deciding(call[h])
            /\ c.op = call[h].op /\ c.row = call[h].row
        BY <3>1, <4>1 DEF CallOf, Held, HoldsInTurn, Deciding
      <4> QED
        BY <3>1, <3>2, <4>1, <4>2, RunsGoOn
    <3> QED
      BY <2>10, <3>2 DEF RunOwn, Waiting
  <2>11. CASE Settle(h)
    <3>1. /\ Deciding(call[h]) /\ Held(call[h]) = {} /\ call[h].at # "fail"
      BY <1>f, <1>g, <2>11 DEF Settle, At, Held, HoldsInTurn, Deciding, Fits, PointsOf, Ops
    <3>2. call[h].row \in Rows
      BY <1>a, <1>g, <3>1 DEF Deciding, Fits
    <3>3. Settles(h, Idle, call[h].row, "executed")
      BY <2>11, <3>1 DEF Settle, Settles, Idle, Waiting, CallOf, Held, Deciding, HoldsInTurn,
         historyVars
    <3> QED
      BY <3>2, <3>3, RunsSettle
  <2>12. CASE Fail(h)
    <3>1. /\ Deciding(call[h]) /\ Held(call[h]) = {} /\ call[h].at = "fail"
      BY <1>f, <1>g, <2>12 DEF Fail, At, Held, HoldsInTurn, Deciding, Fits, PointsOf, Ops
    <3>2. call[h].row \in Rows
      BY <1>a, <1>g, <3>1 DEF Deciding, Fits
    <3>3. PICK c \in {Idle, Waiting("revert", "revert", call[h].row)} : Becomes(h, c)
      BY <2>12 DEF Fail
    <3>4. Held(c) = {} /\ ~Deciding(c) /\ HoldsInTurn(c)
      BY <3>3 DEF Idle, Waiting, CallOf, Held, Deciding, HoldsInTurn
    <3>5. Settles(h, c, call[h].row, "failed")
      BY <2>12, <3>1, <3>3, <3>4 DEF Fail, Settles, historyVars
    <3> QED
      BY <3>2, <3>5, RunsSettle
  <2>13. CASE Revert(h) \/ VoidRejected(h)
    <3>1. /\ Held(call[h]) = {} /\ ~Deciding(call[h]) /\ \A q : ~Failing(call[h], q)
          /\ RowsAge /\ UNCHANGED <<consented, lost>>
      <4>1. call[h].at \in {"revert", "void"} /\ UNCHANGED <<consented, lost>>
        BY <2>13 DEF Revert, VoidRejected, At, historyVars
      <4>2. call[h].op = "revert"
        <5>1. call[h].at = "revert" \/ call[h].op = "revert"
          BY <2>13 DEF Revert, VoidRejected, At
        <5>2. call[h].op \in Ops /\ call[h].at \in PointsOf[call[h].op]
          BY <1>g DEF Fits
        <5> QED
          BY <5>1, <5>2 DEF PointsOf, Ops
      <4>3. RowsAge
        BY <1>b, <1>c, <2>13 DEF Revert, VoidRejected, rowVars
      <4> QED
        BY <1>f, <4>1, <4>2, <4>3 DEF HoldsInTurn, Deciding, Failing
    <3>2. ASSUME NEW at \in {"void", "save"}, NEW copy, NEW todo,
                 Becomes(h, CallOf("revert", at, call[h].row, copy, todo, {}))
          PROVE  RunInv'
      BY <1>s, <3>1, <3>2 DEF Points
    <3>3. ASSUME Becomes(h, Idle) PROVE RunInv'
      BY <1>u, <3>1, <3>3
    <3> QED
      BY <2>13, <3>2, <3>3 DEF Revert, VoidRejected
  <2> QED
    BY <1>2, <2>1, <2>2, <2>3, <2>4, <2>5, <2>6, <2>7, <2>8, <2>9, <2>10, <2>11, <2>12, <2>13
       DEF Continue
<1>3. ASSUME NEW a \in Actions, NEW i \in 0..MaxStages, CreateAction(a, i) PROVE RunInv'
  BY <1>a, <1>d, <1>3, RunsStand DEF CreateAction, historyVars
<1>4. ASSUME NEW r \in Rows, TtlElapses(r) PROVE RunInv'
  BY <1>b, <1>4, RunsStand DEF TtlElapses, historyVars
<1>5. ASSUME NEW r \in Rows, Reconfirm(r) PROVE RunInv'
  <2>1. RowsAge
    BY <1>5 DEF Reconfirm, RowsAge, ExpireDue, Open, TypeOK
  <2> QED
    BY <1>5, <2>1, RunsStand DEF Reconfirm, historyVars
<1>6. CASE Sweep
  <2>1. RowsAge
    BY <1>a, <1>6 DEF RowsAge, Sweep
  <2> QED
    BY <1>6, <2>1, RunsStand DEF Sweep, historyVars
<1>7. CASE UNCHANGED vars
  BY <1>b, <1>7, RunsStand DEF vars
<1> QED
  BY <1>1, <1>2, <1>3, <1>4, <1>5, <1>6, <1>7, RunsCrash DEF Next

-----------------------------------------------------------------------------
(* The requests a document names.                                          *)

NamesOf(stage) == stage.actions \cup ({stage.req} \ {NoRow})
NamedIn(doc) == UNION {NamesOf(doc.stages[i]) : i \in DOMAIN doc.stages}

(* Every request that is named exists; none is pending once the document   *)
(* reads CANCELLED.                                                        *)
Voided(doc, rows) ==
  \A r \in NamedIn(doc) : rows[r] # "absent" /\ (doc.status = "cancelled" => rows[r] # "pending")

(* The inductive invariant: so it is in every document, saved or not, and  *)
(* a cancellation is about to void all that its copy names.                *)
VoidInv ==
  /\ Voided(workflow, approval)
  /\ \A h \in Handlers :
       /\ Voided(call[h].copy, approval)
       /\ call[h].op = "cancel" /\ call[h].at = "void" => NamedIn(call[h].copy) \subseteq call[h].todo

(* No row that exists becomes pending, or ceases to exist.                 *)
RowsStay ==
  \A r \in Rows :
    approval[r] # "absent" => approval'[r] # "absent" /\ (approval'[r] = "pending" => approval[r] = "pending")

(* What a document names are requests.                                     *)
LEMMA NamedAreRows ==
  ASSUME NEW doc \in Workflow
  PROVE  NamedIn(doc) \subseteq Rows
BY StageType DEF NamedIn, NamesOf, Stage, Rows

(* A document that names no more than another, and is cancelled only if    *)
(* that is, later.                                                         *)
LEMMA VoidedStays ==
  ASSUME TypeOK, NEW doc \in Workflow, Voided(doc, approval), RowsStay,
         NEW new, NamedIn(new) \subseteq NamedIn(doc), new.status = "cancelled" => doc.status = "cancelled"
  PROVE  Voided(new, approval')
BY NamedAreRows DEF Voided, RowsStay

(* A document that names nothing.                                          *)
LEMMA FreshVoided == ASSUME NEW rows PROVE Voided(NewWorkflow, rows) /\ NamedIn(NewWorkflow) = {}
BY DEF Voided, NamedIn, NewWorkflow, Doc

(* What the edits of a document name.                                      *)
LEMMA EditNames ==
  ASSUME NEW doc \in Workflow, NEW i \in DOMAIN doc.stages, NEW s
  PROVE  /\ NamedIn(WithStage(doc, i, s)) \subseteq NamedIn(doc) \cup NamesOf(s)
         /\ NamesOf(doc.stages[i]) \subseteq NamedIn(doc)
         /\ WithStage(doc, i, s).status = doc.status
<1>1. /\ DOMAIN WithStage(doc, i, s).stages = DOMAIN doc.stages
      /\ \A j \in DOMAIN doc.stages : WithStage(doc, i, s).stages[j] = IF j = i THEN s ELSE doc.stages[j]
  BY DEF WithStage, Doc, Workflow
<1> QED
  BY <1>1 DEF NamedIn, WithStage, Doc

(* A stage keeps its requests whatever becomes of it otherwise.            *)
LEMMA NamesKept ==
  ASSUME NEW s
  PROVE  /\ \A st : NamesOf(WithStatus(s, st)) = NamesOf(s)
         /\ NamesOf(WithAgent(s)) = NamesOf(s) /\ NamesOf(WithGate(s)) = NamesOf(s)
         /\ \A a : NamesOf(WithAction(s, a)) = NamesOf(s) \cup {a}
         /\ \A q : NamesOf(AwaitingAnswer(s, q)) \subseteq NamesOf(s) \cup {q}
BY DEF NamesOf, WithStatus, WithAgent, WithGate, WithAction, AwaitingAnswer, StageOf

(* Moving a stage, or running an action, names nothing new.                *)
LEMMA MovedNames ==
  ASSUME NEW doc \in Workflow, NEW i \in DOMAIN doc.stages, NEW st
  PROVE  NamedIn(Moved(doc, i, st)) \subseteq NamedIn(doc) /\ Moved(doc, i, st).status = doc.status
<1>1. PICK s : s = WithStatus(doc.stages[i], st)
  OBVIOUS
<1>2. NamesOf(s) = NamesOf(doc.stages[i])
  BY <1>1, NamesKept
<1> QED
  BY <1>1, <1>2, EditNames DEF Moved

(* So it is when an action runs on its stage.                              *)
LEMMA AppliedNames ==
  ASSUME NEW doc \in Workflow, NEW a \in Actions, Kind[a] # "write", Applies(a, doc)
  PROVE  NamedIn(Applied(a, doc)) \subseteq NamedIn(doc) /\ Applied(a, doc).status = doc.status
<1>1. Kind[a] \in {"test", "agent", "gate"} /\ target[a] \in DOMAIN doc.stages
  BY KindAssumption DEF Kinds, Applies
<1>2. /\ NamedIn(Moved(doc, target[a], "reported")) \subseteq NamedIn(doc)
      /\ Moved(doc, target[a], "reported").status = doc.status
  BY <1>1, MovedNames
<1>3. ASSUME NEW s, NamesOf(s) = NamesOf(doc.stages[target[a]])
      PROVE  /\ NamedIn(WithStage(doc, target[a], s)) \subseteq NamedIn(doc)
             /\ WithStage(doc, target[a], s).status = doc.status
  BY <1>1, <1>3, EditNames
<1> QED
  BY <1>1, <1>2, <1>3, NamesKept DEF Applied

(* Every step keeps the invariant.                                         *)
LEMMA VoidStep == TypeOK /\ VoidInv /\ [Next]_vars => VoidInv'
<1> SUFFICES ASSUME TypeOK, VoidInv, [Next]_vars PROVE VoidInv'
  OBVIOUS
<1>a. /\ workflow \in Workflow /\ \A h \in Handlers : call[h].copy \in Workflow
      /\ Actions \subseteq Rows /\ StageRequests \subseteq Rows
      /\ approval \in [Rows -> ApprovalStatus] /\ NoRow \notin Rows
      /\ \A r \in Rows : /\ ExpireDue[r] = "absent" <=> approval[r] = "absent"
                         /\ ExpireDue[r] = "pending" => approval[r] = "pending"
  <2>1. \A r \in Rows : /\ ExpireDue[r] = "absent" <=> approval[r] = "absent"
                        /\ ExpireDue[r] = "pending" => approval[r] = "pending"
    <3> SUFFICES ASSUME NEW r \in Rows
                 PROVE  /\ ExpireDue[r] = "absent" <=> approval[r] = "absent"
                        /\ ExpireDue[r] = "pending" => approval[r] = "pending"
      OBVIOUS
    <3>1. (ExpireDue[r] = "expired" /\ approval[r] \in Open) \/ ExpireDue[r] = approval[r]
      BY DEF ExpireDue
    <3> QED
      BY <3>1 DEF Open
  <2>2. Actions \subseteq Rows /\ StageRequests \subseteq Rows /\ NoRow \notin Rows
    BY RowsAssumption DEF Rows
  <2>3. workflow \in Workflow /\ approval \in [Rows -> ApprovalStatus]
    BY DEF TypeOK
  <2>4. \A h \in Handlers : call[h].copy \in Workflow
    BY DEF TypeOK, Calls
  <2> QED
    BY <2>1, <2>2, <2>3, <2>4
<1>b. UNCHANGED approval => RowsStay
  BY DEF RowsStay
<1>c. ASSUME NEW rows, VoidPending(rows) PROVE RowsStay
  BY <1>c DEF VoidPending, RowsStay
<1>d. ASSUME NEW r \in Rows, NEW st, st # "absent", st # "pending" \/ approval[r] = "absent",
             approval' = [approval EXCEPT ![r] = st]
      PROVE  RowsStay
  BY <1>a, <1>d DEF RowsStay
<1>m. ASSUME NEW r \in Rows, NEW st, st \notin {"absent", "pending"},
             approval' = [ExpireDue EXCEPT ![r] = st]
      PROVE  RowsStay
  <2>1. ExpireDue \in [Rows -> ApprovalStatus]
    BY <1>a, SweepType
  <2>2. \A s \in Rows : approval'[s] = IF s = r THEN st ELSE ExpireDue[s]
    BY <1>m, <2>1
  <2> QED
    BY <1>a, <1>m, <2>2 DEF RowsStay
<1>e. approval' = ExpireDue => RowsStay
  BY <1>a DEF RowsStay
<1>f. ASSUME RowsStay PROVE /\ Voided(workflow, approval')
                            /\ \A h \in Handlers : Voided(call[h].copy, approval')
  BY <1>a, <1>f, VoidedStays DEF VoidInv
<1>g. ASSUME NEW h \in Handlers, NEW c, Becomes(h, c), RowsStay, Voided(workflow', approval'),
             Voided(c.copy, approval'), c.op = "cancel" /\ c.at = "void" => NamedIn(c.copy) \subseteq c.todo
      PROVE  VoidInv'
  <2>1. \A g \in Handlers : call'[g] = IF g = h THEN c ELSE call[g]
    BY <1>g, CallsAfter
  <2> QED
    BY <1>f, <1>g, <2>1 DEF VoidInv
<1>h. RowsStay /\ UNCHANGED <<workflow, call>> => VoidInv'
  BY <1>f DEF VoidInv
<1>i. ASSUME NEW h \in Handlers, NEW op, NEW at, NEW row, NEW copy, NEW todo, NEW batch,
             Becomes(h, CallOf(op, at, row, copy, todo, batch)), RowsStay, Voided(workflow', approval'),
             Voided(copy, approval'), op = "cancel" => at # "void" \/ NamedIn(copy) \subseteq todo
      PROVE  VoidInv'
  <2>1. PICK c : c = CallOf(op, at, row, copy, todo, batch)
    OBVIOUS
  <2>2. c.op = op /\ c.at = at /\ c.copy = copy /\ c.todo = todo
    BY <2>1 DEF CallOf
  <2> QED
    BY <1>g, <1>i, <2>1, <2>2
<1>j. ASSUME NEW h \in Handlers, NEW op, NEW at, NEW row, op # "cancel",
             Becomes(h, Waiting(op, at, row)), RowsStay, Voided(workflow', approval')
      PROVE  VoidInv'
  BY <1>i, <1>j, FreshVoided DEF Waiting
<1>k. ASSUME NEW h \in Handlers, Becomes(h, Idle), RowsStay, Voided(workflow', approval')
      PROVE  VoidInv'
  BY <1>j, <1>k DEF Idle
<1>l. ASSUME NEW h \in Handlers, NEW doc, Edit(h, doc), RowsStay, Voided(doc, approval')
      PROVE  VoidInv'
  BY <1>f, <1>i, <1>l DEF Edit
<1>1. ASSUME NEW h \in Handlers, Begin(h) PROVE VoidInv'
  <2>1. ASSUME NEW type \in StartTypes, StartStage(h, type) PROVE VoidInv'
    <3>1. PICK doc : doc = Doc(StageToStatus[type], Append(workflow.stages, NewStage(type)))
      OBVIOUS
    <3>2. doc.status # "cancelled"
      BY <3>1, StatusType, StartTypesAssumption DEF Doc, TerminalStatuses
    <3>3. NamedIn(doc) \subseteq NamedIn(workflow)
      <4>1. PICK n \in Nat : n = Len(workflow.stages) /\ DOMAIN workflow.stages = 1..n
        BY <1>a DEF Workflow
      <4>2. /\ DOMAIN doc.stages = 1..(n + 1) /\ doc.stages[n + 1] = NewStage(type)
            /\ \A i \in 1..n : doc.stages[i] = workflow.stages[i]
        BY <1>a, <3>1, <4>1 DEF Doc, Workflow
      <4>3. NamesOf(doc.stages[n + 1]) = {}
        BY <4>2 DEF NamesOf, NewStage, StageOf
      <4>4. \A i \in DOMAIN doc.stages : i \in 1..n \/ i = n + 1
        BY <4>1, <4>2
      <4> QED
        BY <4>1, <4>2, <4>3, <4>4 DEF NamedIn
    <3>4. UNCHANGED approval
      BY <2>1 DEF StartStage, rowVars
    <3>5. Voided(doc, approval')
      BY <1>a, <1>b, <3>2, <3>3, <3>4, VoidedStays DEF VoidInv
    <3> QED
      BY <1>b, <1>l, <2>1, <3>1, <3>4, <3>5 DEF StartStage
  <2>2. ASSUME NEW i \in DOMAIN workflow.stages, EditStage(h, i) PROVE VoidInv'
    <3>1. CASE SubmitReport(h, i)
      BY <1>a, <1>b, <1>l, <3>1, MovedNames, VoidedStays DEF SubmitReport, rowVars, VoidInv
    <3>2. ASSUME NEW a \in Actions, AttachAction(h, i, a) PROVE VoidInv'
      <4>1. PICK doc : doc = WithStage(workflow, i, WithAction(workflow.stages[i], a))
        OBVIOUS
      <4>2. /\ Edit(h, doc) /\ UNCHANGED approval /\ approval[a] # "absent"
            /\ workflow.status # "cancelled"
        BY <3>2, <4>1 DEF AttachAction, rowVars, TerminalStatuses
      <4>3. NamedIn(doc) \subseteq NamedIn(workflow) \cup {a} /\ doc.status = workflow.status
        <5>1. PICK s : s = WithAction(workflow.stages[i], a)
          OBVIOUS
        <5>2. NamesOf(s) = NamesOf(workflow.stages[i]) \cup {a}
          BY <5>1, NamesKept
        <5> QED
          BY <1>a, <4>1, <5>1, <5>2, EditNames
      <4>4. Voided(doc, approval')
        BY <4>2, <4>3 DEF Voided, VoidInv
      <4> QED
        BY <1>b, <1>l, <4>2, <4>4
    <3>3. ASSUME NEW q \in StageRequests, RequestStageApproval(h, i, q) PROVE VoidInv'
      <4>1. RowsStay /\ approval'[q] = "pending" /\ \A r \in Rows \ {q} : approval'[r] = approval[r]
        BY <1>a, <1>d, <3>3 DEF RequestStageApproval
      <4>2. CASE WorkflowMoves(workflow.status, "waiting_approval")
        <5>1. PICK doc : doc = Doc("waiting_approval",
                      [workflow.stages EXCEPT ![i] = AwaitingAnswer(workflow.stages[i], q)])
          OBVIOUS
        <5>2. Edit(h, doc) /\ doc.status = "waiting_approval"
          BY <3>3, <4>2, <5>1 DEF RequestStageApproval, Doc
        <5>3. NamedIn(doc) \subseteq NamedIn(workflow) \cup {q}
          <6>1. doc.stages = WithStage(workflow, i, AwaitingAnswer(workflow.stages[i], q)).stages
            BY <5>1 DEF Doc, WithStage
          <6>2. NamedIn(doc) = NamedIn(WithStage(workflow, i, AwaitingAnswer(workflow.stages[i], q)))
            BY <6>1 DEF NamedIn
          <6> QED
            BY <1>a, <6>2, EditNames, NamesKept
        <5>4. Voided(doc, approval')
          BY <1>a, <4>1, <5>2, <5>3, NamedAreRows DEF Voided, VoidInv
        <5> QED
          BY <1>l, <4>1, <5>2, <5>4
      <4>3. CASE ~WorkflowMoves(workflow.status, "waiting_approval")
        BY <1>h, <3>3, <4>1, <4>3 DEF RequestStageApproval
      <4> QED
        BY <4>2, <4>3
    <3> QED
      BY <2>2, <3>1, <3>2, <3>3 DEF EditStage
  <2>3. CASE Cancel(h)
    <3>1. PICK todo \in SUBSET Rows : /\ Becomes(h, CallOf("cancel", "void", NoRow, workflow, todo, {}))
                                      /\ NamedIn(workflow) \subseteq todo
      <4> DEFINE named == UNION {workflow.stages[i].actions \cup {workflow.stages[i].req} :
                                   i \in DOMAIN workflow.stages}
      <4>1. Becomes(h, CallOf("cancel", "void", NoRow, workflow, named \ {NoRow}, {}))
        BY <2>3 DEF Cancel
      <4>2. NamedIn(workflow) \subseteq named \ {NoRow}
        BY <1>a, NamedAreRows DEF NamedIn, NamesOf
      <4>3. named \ {NoRow} \subseteq Rows
        BY <1>a, StageType DEF Stage, Rows
      <4> QED
        BY <4>1, <4>2, <4>3
    <3> QED
      BY <1>b, <1>f, <1>i, <2>3, <3>1 DEF Cancel, rowVars
  <2>4. ASSUME NEW r \in Rows, NEW op, NEW point, op # "cancel", MarkApproved(h, r, op, point) PROVE VoidInv'
    <3>1. RowsStay
      BY <1>m, <2>4 DEF MarkApproved
    <3> QED
      BY <1>f, <1>j, <2>4, <3>1 DEF MarkApproved
  <2>5. ASSUME NEW r \in Rows, Reject(h, r) PROVE VoidInv'
    <3>1. approval' = [approval EXCEPT ![r] = "rejected"] /\ UNCHANGED workflow
      BY <2>5 DEF Reject
    <3>2. RowsStay
      BY <1>d, <3>1
    <3> QED
      BY <1>f, <1>j, <1>k, <2>5, <3>1, <3>2 DEF Reject
  <2> QED
    BY <1>1, <1>a, <2>1, <2>2, <2>3, <2>4, <2>5 DEF Begin, ApproveStage, ApproveAction
<1>2. ASSUME NEW h \in Handlers, Continue(h) PROVE VoidInv'
  <2>1. CASE Save(h)
    <3>1. RowsStay /\ Voided(workflow', approval')
      BY <1>b, <1>f, <2>1 DEF Save, rowVars
    <3> QED
      BY <1>i, <1>j, <1>k, <2>1, <3>1, FreshVoided DEF Save
  <2>2. CASE VoidCancelled(h)
    <3>1. PICK doc : doc = Doc("cancelled", call[h].copy.stages)
      OBVIOUS
    <3>2. NamedIn(doc) = NamedIn(call[h].copy)
      BY <3>1 DEF NamedIn, Doc
    <3>3. RowsStay /\ NamedIn(call[h].copy) \subseteq call[h].todo
      BY <1>c, <2>2 DEF VoidCancelled, VoidInv, At
    <3>4. \A r \in Rows : r \in call[h].todo => approval'[r] # "pending"
      BY <2>2 DEF VoidCancelled, VoidPending
    <3>5. Voided(doc, approval')
      BY <1>a, <1>f, <3>2, <3>3, <3>4, NamedAreRows DEF Voided
    <3> QED
      BY <1>f, <1>i, <2>2, <3>1, <3>3, <3>5 DEF VoidCancelled
  <2>3. CASE LocateStage(h)
    <3>1. RowsStay /\ Voided(workflow', approval')
      BY <1>b, <1>f, <2>3 DEF LocateStage, rowVars
    <3>2. ASSUME NEW i \in Locate(workflow, call[h].row), NEW todo,
                 Becomes(h, CallOf("stage", "bound", call[h].row, Moved(workflow, i, "approved"), todo, {}))
          PROVE  VoidInv'
      <4>1. Voided(Moved(workflow, i, "approved"), approval')
        BY <1>a, <3>1, LocateType, MovedNames, VoidedStays DEF VoidInv
      <4> QED
        BY <1>i, <3>1, <3>2, <4>1
    <3> QED
      BY <1>j, <2>3, <3>1, <3>2 DEF LocateStage
  <2>4. CASE Advance(h)
    <3>1. RowsStay /\ Voided(workflow', approval')
      BY <1>b, <1>f, <2>4 DEF Advance, rowVars
    <3>2. PICK i \in Locate(call[h].copy, call[h].row) :
            LET next == StatusAfter(call[h].copy.stages[i].type) IN
            Becomes(h, IF WorkflowMoves(call[h].copy.status, next)
                       THEN CallOf("stage", "save", call[h].row, Doc(next, call[h].copy.stages), {}, call[h].batch)
                       ELSE Waiting("stage", "fail", call[h].row))
      BY <2>4 DEF Advance
    <3>3. PICK doc : doc = Doc(StatusAfter(call[h].copy.stages[i].type), call[h].copy.stages)
      OBVIOUS
    <3>4. doc.status # "cancelled" /\ NamedIn(doc) = NamedIn(call[h].copy)
      <4>1. call[h].copy.stages[i].type \in StageTypes
        BY <1>a, LocateType, StageType DEF Stage
      <4>2. StatusAfter(call[h].copy.stages[i].type) # "cancelled"
        BY <4>1, StatusType
      <4> QED
        BY <3>3, <4>2 DEF Doc, NamedIn
    <3>5. Voided(doc, approval')
      BY <1>f, <3>1, <3>4 DEF Voided
    <3> QED
      BY <1>i, <1>j, <3>1, <3>2, <3>3, <3>5
  <2>5. ASSUME NEW a \in Actions, ApproveBound(h, a) PROVE VoidInv'
    <3>1. RowsStay
      BY <1>a, <1>b, <1>e, <1>m, <2>5 DEF ApproveBound
    <3> QED
      BY <1>f, <1>i, <1>j, <2>5, <3>1 DEF ApproveBound
  <2>6. ASSUME NEW a \in Actions, RunBound(h, a) PROVE VoidInv'
    <3>1. RowsStay
      BY <1>a, <1>d, <2>6 DEF RunBound
    <3> QED
      BY <1>f, <1>i, <2>6, <3>1, FreshVoided DEF RunBound
  <2>7. ASSUME NEW a \in Actions, LoadBound(h, a) PROVE VoidInv'
    <3>1. RowsStay /\ Voided(workflow', approval')
      BY <1>b, <1>f, <2>7 DEF LoadBound, rowVars
    <3>2. Voided(Applied(a, workflow), approval')
      BY <1>a, <2>7, <3>1, AppliedNames, VoidedStays DEF VoidInv, LoadBound
    <3> QED
      BY <1>i, <2>7, <3>1, <3>2 DEF LoadBound
  <2>8. CASE SaveBound(h)
    <3>1. RowsStay /\ Voided(workflow', approval')
      BY <1>b, <1>f, <2>8 DEF SaveBound, rowVars
    <3> QED
      BY <1>i, <2>8, <3>1, FreshVoided DEF SaveBound
  <2>9. ASSUME NEW a \in Actions, RecordBound(h, a) PROVE VoidInv'
    <3>1. RowsStay
      BY <1>a, <1>d, <2>9 DEF RecordBound
    <3> QED
      BY <1>f, <1>i, <2>9, <3>1, FreshVoided DEF RecordBound
  <2>10. CASE RunOwn(h)
    <3>1. RowsStay /\ Voided(workflow', approval') /\ call[h].row \in Actions
      BY <1>b, <1>f, <2>10 DEF RunOwn, rowVars, At, TypeOK, Fits, PointsOf, Calls, Ops
    <3>2. CASE Kind[call[h].row] # "write" /\ Applies(call[h].row, workflow)
      <4>1. Voided(Applied(call[h].row, workflow), approval')
        BY <1>a, <3>1, <3>2, AppliedNames, VoidedStays DEF VoidInv
      <4> QED
        BY <1>i, <1>j, <2>10, <3>1, <4>1 DEF RunOwn
    <3>3. CASE ~(Kind[call[h].row] # "write" /\ Applies(call[h].row, workflow))
      BY <1>j, <2>10, <3>1, <3>3 DEF RunOwn
    <3> QED
      BY <3>2, <3>3
  <2>11. CASE Settle(h) \/ Fail(h)
    <3>1. call[h].row \in Rows
      BY <1>a, <2>11 DEF Settle, Fail, At, TypeOK, Fits, PointsOf, Calls, Ops
    <3>2. RowsStay
      BY <1>d, <2>11, <3>1 DEF Settle, Fail
    <3> QED
      BY <1>f, <1>j, <1>k, <2>11, <3>2 DEF Settle, Fail
  <2>12. CASE Revert(h)
    <3>1. RowsStay /\ Voided(workflow', approval')
      BY <1>b, <1>f, <2>12 DEF Revert, rowVars
    <3>2. ASSUME NEW i \in Locate(workflow, call[h].row), NEW todo,
                 Becomes(h, CallOf("revert", "void", call[h].row, Moved(workflow, i, "rejected"), todo, {}))
          PROVE  VoidInv'
      <4>1. Voided(Moved(workflow, i, "rejected"), approval')
        BY <1>a, <3>1, LocateType, MovedNames, VoidedStays DEF VoidInv
      <4> QED
        BY <1>i, <3>1, <3>2, <4>1
    <3> QED
      BY <1>k, <2>12, <3>1, <3>2 DEF Revert
  <2>13. CASE VoidRejected(h)
    <3>1. RowsStay /\ Voided(workflow', approval')
      BY <1>c, <1>f, <2>13 DEF VoidRejected
    <3>2. PICK i \in Locate(call[h].copy, call[h].row) :
            LET back == StageToStatus[call[h].copy.stages[i].type] IN
            Becomes(h, IF WorkflowMoves(call[h].copy.status, back)
                       THEN CallOf("revert", "save", call[h].row, Doc(back, call[h].copy.stages), {}, {})
                       ELSE Idle)
      BY <2>13 DEF VoidRejected
    <3>3. PICK doc : doc = Doc(StageToStatus[call[h].copy.stages[i].type], call[h].copy.stages)
      OBVIOUS
    <3>4. doc.status # "cancelled" /\ NamedIn(doc) = NamedIn(call[h].copy)
      <4>1. call[h].copy.stages[i].type \in StageTypes
        BY <1>a, LocateType, StageType DEF Stage
      <4> QED
        BY <3>3, <4>1, StatusType DEF Doc, NamedIn, TerminalStatuses
    <3>5. Voided(doc, approval')
      BY <1>f, <3>1, <3>4 DEF Voided
    <3> QED
      BY <1>i, <1>k, <3>1, <3>2, <3>3, <3>5
  <2> QED
    BY <1>2, <2>1, <2>2, <2>3, <2>4, <2>5, <2>6, <2>7, <2>8, <2>9, <2>10, <2>11, <2>12, <2>13
       DEF Continue
<1>3. ASSUME NEW a \in Actions, NEW i \in 0..MaxStages, CreateAction(a, i) PROVE VoidInv'
  BY <1>a, <1>d, <1>h, <1>3 DEF CreateAction
<1>4. ASSUME NEW r \in Rows, TtlElapses(r) PROVE VoidInv'
  BY <1>b, <1>h, <1>4 DEF TtlElapses
<1>5. ASSUME NEW r \in Rows, Reconfirm(r) PROVE VoidInv'
  BY <1>h, <1>m, <1>5 DEF Reconfirm
<1>6. CASE Sweep
  BY <1>e, <1>h, <1>6 DEF Sweep
<1>7. CASE Crash
  <2>1. RowsStay /\ UNCHANGED workflow /\ \A h \in Handlers : call'[h] = Idle
    BY <1>7, <1>a DEF Crash, RowsStay
  <2>2. Idle.copy = NewWorkflow /\ Idle.op = "none"
    BY DEF Idle, Waiting, CallOf
  <2> QED
    BY <1>f, <2>1, <2>2, FreshVoided DEF VoidInv
<1>8. CASE UNCHANGED vars
  BY <1>b, <1>h, <1>8 DEF vars
<1> QED
  BY <1>1, <1>2, <1>3, <1>4, <1>5, <1>6, <1>7, <1>8 DEF Next

(* Both invariants hold in every reachable state.                          *)
LEMMA RequestsHold == Spec => [](TypeOK /\ RunInv /\ VoidInv)
<1>1. Init => RunInv /\ VoidInv
  <2>1. Idle.op = "none" /\ Idle.at = "idle" /\ Idle.batch = {} /\ Idle.copy = NewWorkflow
    BY DEF Idle, Waiting, CallOf
  <2>2. Held(Idle) = {} /\ ~Deciding(Idle) /\ HoldsInTurn(Idle)
    BY <2>1 DEF Held, Deciding, HoldsInTurn
  <2> SUFFICES ASSUME Init PROVE RunInv /\ VoidInv
    OBVIOUS
  <2>3. \A h \in Handlers : call[h] = Idle
    BY DEF Init
  <2>4. Actions \subseteq Rows /\ \A r \in Rows : approval[r] = "absent"
    BY DEF Rows, Init
  <2>5. RunInv
    BY <2>2, <2>3, <2>4 DEF Init, RunInv
  <2>6. VoidInv
    BY <2>1, <2>3, FreshVoided DEF Init, VoidInv
  <2> QED
    BY <2>5, <2>6
<1> QED
  BY <1>1, RunsStep, VoidStep, TypeCorrect, PTL DEF Spec

(* Whatever two calls do to each other, to the queue and to the document:  *)
(* a request stays approved without an outcome only for a reason, and      *)
(* cancelling leaves no request of the workflow pending.                   *)
THEOREM NothingStaysBehind == Spec => []NothingIsLeftBehind
<1>1. TypeOK /\ RunInv /\ VoidInv => NothingIsLeftBehind
  <2> SUFFICES ASSUME TypeOK, RunInv, VoidInv PROVE NothingIsLeftBehind
    OBVIOUS
  <2>1. StrandedOnlyByFailedStage
    <3> SUFFICES ASSUME Quiet, NEW a \in Actions, approval[a] = "approved", a \notin lost
                 PROVE  a \notin consented /\ \E q \in StageRequests \cap consented : approval[q] = "failed"
      BY DEF StrandedOnlyByFailedStage
    <3>1. \A h \in Handlers : call[h] = Idle
      BY DEF Quiet, TypeOK
    <3>2. Idle.op = "none" /\ Held(Idle) = {} /\ \A q : ~Failing(Idle, q)
      BY DEF Idle, Waiting, CallOf, Held, Failing
    <3>3. Explained(a)
      BY DEF RunInv
    <3> QED
      BY <3>1, <3>2, <3>3 DEF Explained
  <2>2. CancelVoidsPending
    <3>1. Named = NamedIn(workflow)
      BY DEF Named, NamedIn, NamesOf
    <3> QED
      BY <3>1 DEF CancelVoidsPending, VoidInv, Voided
  <2> QED
    BY <2>1, <2>2 DEF NothingIsLeftBehind
<1> QED
  BY <1>1, RequestsHold, PTL

-----------------------------------------------------------------------------
(* One thread serving the calls: a copy is never out of date, so what a    *)
(* call saves follows from the document it replaces.                       *)

(* A later document of one that is over, or that has approved stages.      *)
Follows(doc, new) ==
  /\ doc.status \in TerminalStatuses => new.status = doc.status
  /\ \A i \in DOMAIN doc.stages : doc.stages[i].status = "approved" =>
       i \in DOMAIN new.stages /\ new.stages[i] = doc.stages[i]

(* An approved stage holds these requests, on that stage request.          *)
Carries(doc, q, rows) ==
  \E i \in DOMAIN doc.stages :
    doc.stages[i].req = q /\ doc.stages[i].status = "approved" /\ rows \subseteq doc.stages[i].actions

(* The points at which a call holds a copy that it may still save.         *)
Holding == {"save", "void", "bound", "keep"}

(* The inductive invariant of the only call: its copy follows from the     *)
(* document, a cancellation is of a workflow that is not over, and the     *)
(* requests it has approved are those of the stage it approves.            *)
InStep(doc, c) ==
  /\ c.at \in Holding => Follows(doc, c.copy)
  /\ c.op = "cancel" => doc.status \notin TerminalStatuses
  /\ c.at = "bound" => Carries(c.copy, c.row, c.todo \cup c.batch)
  /\ c.op = "stage" /\ c.at = "save" => Carries(c.copy, c.row, c.batch)
  /\ c.at \in {"run", "keep", "record"} => Carries(doc, c.row, Held(c))

(* An approved stage holds its requests in whatever follows.               *)
LEMMA CarriesOn ==
  ASSUME NEW doc, NEW new, Follows(doc, new), NEW q, NEW rows, Carries(doc, q, rows),
         NEW less, less \subseteq rows
  PROVE  Carries(doc, q, less) /\ Carries(new, q, less)
BY DEF Follows, Carries

(* A document follows from itself, from what it becomes when a stage that  *)
(* is not approved is replaced, and when a stage is appended.              *)
LEMMA EditFollows ==
  ASSUME NEW doc \in Workflow
  PROVE  /\ Follows(doc, doc)
         /\ \A i \in DOMAIN doc.stages : doc.stages[i].status # "approved" =>
              \A s : Follows(doc, WithStage(doc, i, s))
         /\ \A s \in Stage : Follows(doc, Doc(doc.status, Append(doc.stages, s)))
<1>1. ASSUME NEW i \in DOMAIN doc.stages, NEW s, doc.stages[i].status # "approved"
      PROVE  Follows(doc, WithStage(doc, i, s))
  BY <1>1 DEF Follows, WithStage, Doc, Workflow
<1>2. ASSUME NEW s \in Stage PROVE Follows(doc, Doc(doc.status, Append(doc.stages, s)))
  BY DEF Follows, Doc, Workflow
<1> QED
  BY <1>1, <1>2 DEF Follows

(* A legal move of the status keeps what follows.                          *)
LEMMA MoveFollows ==
  ASSUME NEW doc \in Workflow, NEW new \in Workflow, Follows(doc, new), NEW status,
         WorkflowMoves(new.status, status)
  PROVE  Follows(doc, Doc(status, new.stages))
<1>1. new.status \in TerminalStatuses => status = new.status
  BY DEF WorkflowMoves, WorkflowTransitions, TerminalStatuses
<1> QED
  BY <1>1 DEF Follows, Doc

(* Running an action on its stage: the stage is not approved.              *)
LEMMA AppliedFollows ==
  ASSUME NEW doc \in Workflow, NEW a \in Actions, Kind[a] # "write", Applies(a, doc)
  PROVE  Follows(doc, Applied(a, doc))
<1>1. /\ Kind[a] \in {"test", "agent", "gate"} /\ target[a] \in DOMAIN doc.stages
      /\ doc.stages[target[a]].status # "approved"
  BY KindAssumption DEF Kinds, Applies, Editable
<1> QED
  BY <1>1, EditFollows DEF Applied, Moved

(* Moving a stage that may be approved, or that may be rejected.           *)
LEMMA ResolveFollows ==
  ASSUME NEW doc \in Workflow, NEW i \in DOMAIN doc.stages, NEW st \in {"approved", "rejected"},
         StageMoves(doc.stages[i].status, st)
  PROVE  /\ Follows(doc, Moved(doc, i, st))
         /\ Moved(doc, i, st) \in Workflow /\ i \in DOMAIN Moved(doc, i, st).stages
         /\ Moved(doc, i, st).stages[i].status = st
         /\ Moved(doc, i, st).stages[i].req = doc.stages[i].req
         /\ Moved(doc, i, st).stages[i].actions = doc.stages[i].actions
<1>1. doc.stages[i] \in Stage /\ Moved(doc, i, st) \in Workflow
  BY StageType, MovedType, StageStatusType
<1>2. CASE doc.stages[i].status # "approved"
  <2>1. Follows(doc, Moved(doc, i, st))
    BY <1>2, EditFollows DEF Moved
  <2> QED
    BY <1>1, <2>1 DEF Moved, WithStage, WithStatus, StageOf, Doc, Workflow
<1>3. CASE doc.stages[i].status = "approved"
  <2>1. st = "approved"
    BY <1>3, StageMovesFrom DEF Stage, StageStatus, StageTransitions
  <2>2. WithStatus(doc.stages[i], st) = doc.stages[i]
    BY <1>1, <1>3, <2>1 DEF WithStatus, StageOf, Stage
  <2>3. /\ Moved(doc, i, st).status = doc.status
        /\ Moved(doc, i, st).stages = doc.stages
    BY <2>2 DEF Moved, WithStage, Doc, Workflow
  <2> QED
    BY <1>1, <1>3, <2>1, <2>3 DEF Follows
<1> QED
  BY <1>2, <1>3

(* Every step of the only thread keeps the invariant.                      *)
LEMMA InStepStep ==
  ASSUME NEW h, Handlers = {h}
  PROVE  TypeOK /\ InStep(workflow, call[h]) /\ [Next]_vars => InStep(workflow', call'[h])
<1> SUFFICES ASSUME TypeOK, InStep(workflow, call[h]), [Next]_vars PROVE InStep(workflow', call'[h])
  OBVIOUS
<1>a. /\ workflow \in Workflow /\ call[h].copy \in Workflow /\ h \in Handlers
      /\ call \in [Handlers -> Calls]
  BY DEF TypeOK, Calls
<1>b. ASSUME NEW op, NEW at, NEW row, NEW copy, NEW todo, NEW batch, NEW g \in Handlers,
             Becomes(g, CallOf(op, at, row, copy, todo, batch)),
             InStep(workflow', CallOf(op, at, row, copy, todo, batch))
      PROVE  InStep(workflow', call'[h])
  <2>1. call'[h] = CallOf(op, at, row, copy, todo, batch)
    BY <1>a, <1>b, CallsAfter
  <2> QED
    BY <1>b, <2>1
<1>c. ASSUME NEW op, NEW at, NEW row, at \notin Holding, at \notin {"run", "keep", "record"}, op # "cancel",
             NEW g \in Handlers, Becomes(g, Waiting(op, at, row))
      PROVE  InStep(workflow', call'[h])
  <2>1. call'[h] = Waiting(op, at, row)
    BY <1>a, <1>c, CallsAfter
  <2> QED
    BY <1>c, <2>1 DEF InStep, Waiting, CallOf, Holding
<1>d. ASSUME NEW g \in Handlers, Becomes(g, Idle) PROVE InStep(workflow', call'[h])
  BY <1>c, <1>d DEF Idle, Holding
<1>e. ASSUME NEW g \in Handlers, NEW doc, Edit(g, doc), Follows(workflow, doc) PROVE InStep(workflow', call'[h])
  <2>1. InStep(workflow', CallOf("edit", "save", NoRow, doc, {}, {})) /\ Becomes(g, CallOf("edit", "save", NoRow, doc, {}, {}))
    BY <1>e DEF Edit, InStep, CallOf
  <2> QED
    BY <1>b, <2>1
<1>f. UNCHANGED <<workflow, call>> => InStep(workflow', call'[h])
  OBVIOUS
<1>1. ASSUME Begin(h) PROVE InStep(workflow', call'[h])
  <2>1. ASSUME NEW type \in StartTypes, StartStage(h, type) PROVE InStep(workflow', call'[h])
    <3>1. NewStage(type) \in Stage
      BY StartTypesAssumption, StageStatusType DEF NewStage, StageOf, Stage
    <3>2. PICK new : new = Doc(workflow.status, Append(workflow.stages, NewStage(type)))
      OBVIOUS
    <3>3. Follows(workflow, new) /\ new.status = workflow.status
      BY <1>a, <3>1, <3>2, EditFollows DEF Doc
    <3>4. workflow.status \notin TerminalStatuses /\ new.stages = Append(workflow.stages, NewStage(type))
      BY <2>1, <3>2 DEF StartStage, Doc
    <3>5. Follows(workflow, Doc(StageToStatus[type], Append(workflow.stages, NewStage(type))))
      BY <3>3, <3>4 DEF Follows, Doc
    <3> QED
      BY <1>a, <1>e, <2>1, <3>5 DEF StartStage
  <2>2. ASSUME NEW i \in DOMAIN workflow.stages, EditStage(h, i) PROVE InStep(workflow', call'[h])
    <3>1. CASE SubmitReport(h, i)
      <4>1. Follows(workflow, Moved(workflow, i, "reported"))
        BY <1>a, <3>1, EditFollows DEF SubmitReport, Moved, Reportable
      <4> QED
        BY <1>a, <1>e, <3>1, <4>1 DEF SubmitReport
    <3>2. ASSUME NEW a \in Actions, AttachAction(h, i, a) PROVE InStep(workflow', call'[h])
      <4>1. Follows(workflow, WithStage(workflow, i, WithAction(workflow.stages[i], a)))
        BY <1>a, <3>2, EditFollows DEF AttachAction, Editable
      <4> QED
        BY <1>a, <1>e, <3>2, <4>1 DEF AttachAction
    <3>3. ASSUME NEW q \in StageRequests, RequestStageApproval(h, i, q) PROVE InStep(workflow', call'[h])
      <4>1. CASE WorkflowMoves(workflow.status, "waiting_approval")
        <5>1. PICK new : new = WithStage(workflow, i, AwaitingAnswer(workflow.stages[i], q))
          OBVIOUS
        <5>2. Follows(workflow, new)
          BY <1>a, <3>3, <5>1, EditFollows DEF RequestStageApproval
        <5>3. /\ new.status = workflow.status
              /\ new.stages = [workflow.stages EXCEPT ![i] = AwaitingAnswer(workflow.stages[i], q)]
              /\ new \in Workflow
          BY <1>a, <5>1, StageType, WithStageType DEF WithStage, Doc
        <5>4. Follows(workflow, Doc("waiting_approval", new.stages))
          BY <1>a, <4>1, <5>2, <5>3, MoveFollows
        <5>5. Edit(h, Doc("waiting_approval", new.stages))
          BY <3>3, <4>1, <5>3 DEF RequestStageApproval
        <5> QED
          BY <1>a, <1>e, <5>4, <5>5
      <4>2. CASE ~WorkflowMoves(workflow.status, "waiting_approval")
        BY <1>f, <3>3, <4>2 DEF RequestStageApproval
      <4> QED
        BY <4>1, <4>2
    <3> QED
      BY <2>2, <3>1, <3>2, <3>3 DEF EditStage
  <2>3. CASE Cancel(h)
    <3>1. PICK todo : Becomes(h, CallOf("cancel", "void", NoRow, workflow, todo, {}))
      BY <2>3 DEF Cancel
    <3>2. InStep(workflow', CallOf("cancel", "void", NoRow, workflow, todo, {}))
      BY <1>a, <2>3, EditFollows DEF Cancel, InStep, CallOf
    <3> QED
      BY <1>a, <1>b, <3>1, <3>2
  <2>4. ASSUME NEW r, NEW op \in {"stage", "own"}, NEW point \in {"locate", "apply"}, MarkApproved(h, r, op, point)
        PROVE  InStep(workflow', call'[h])
    BY <1>a, <1>c, <2>4 DEF MarkApproved, Holding
  <2>5. ASSUME NEW r \in Rows, Reject(h, r) PROVE InStep(workflow', call'[h])
    BY <1>a, <1>c, <1>d, <2>5 DEF Reject, Holding
  <2> QED
    BY <1>1, <2>1, <2>2, <2>3, <2>4, <2>5 DEF Begin, ApproveStage, ApproveAction
<1>2. ASSUME Continue(h) PROVE InStep(workflow', call'[h])
  <2>1. CASE Save(h)
    <3>1. /\ call[h].op = "stage" => InStep(workflow', CallOf("stage", "run", call[h].row, NewWorkflow, {}, call[h].batch))
      BY <2>1, CarriesOn DEF Save, At, InStep, CallOf, Held, Holding
    <3> QED
      BY <1>a, <1>b, <1>c, <1>d, <2>1, <3>1 DEF Save, Holding
  <2>2. CASE VoidCancelled(h)
    <3>1. InStep(workflow', CallOf("cancel", "save", NoRow, Doc("cancelled", call[h].copy.stages), {}, {}))
      BY <2>2 DEF VoidCancelled, At, InStep, CallOf, Holding, Follows, Doc
    <3> QED
      BY <1>a, <1>b, <2>2, <3>1 DEF VoidCancelled
  <2>3. CASE LocateStage(h)
    <3>1. ASSUME NEW i \in Locate(workflow, call[h].row), StageMoves(workflow.stages[i].status, "approved"),
                 Becomes(h, CallOf("stage", "bound", call[h].row, Moved(workflow, i, "approved"),
                                   workflow.stages[i].actions, {}))
          PROVE  InStep(workflow', call'[h])
      <4>1. PICK new : new = Moved(workflow, i, "approved")
        OBVIOUS
      <4>2. /\ Follows(workflow, new) /\ Carries(new, call[h].row, workflow.stages[i].actions)
            /\ workflow' = workflow
        BY <1>a, <2>3, <3>1, <4>1, ResolveFollows DEF Locate, Carries, LocateStage
      <4>3. InStep(workflow', CallOf("stage", "bound", call[h].row, new, workflow.stages[i].actions, {}))
        BY <4>2 DEF InStep, CallOf
      <4> QED
        BY <1>a, <1>b, <3>1, <4>1, <4>3
    <3> QED
      BY <1>a, <1>c, <2>3, <3>1 DEF LocateStage, Holding
  <2>4. CASE Advance(h)
    <3>1. PICK i \in Locate(call[h].copy, call[h].row) :
            LET next == StatusAfter(call[h].copy.stages[i].type) IN
            Becomes(h, IF WorkflowMoves(call[h].copy.status, next)
                       THEN CallOf("stage", "save", call[h].row, Doc(next, call[h].copy.stages), {}, call[h].batch)
                       ELSE Waiting("stage", "fail", call[h].row))
      BY <2>4 DEF Advance
    <3>2. PICK next : next = StatusAfter(call[h].copy.stages[i].type)
      OBVIOUS
    <3>3. CASE WorkflowMoves(call[h].copy.status, next)
      <4>1. PICK new : new = Doc(next, call[h].copy.stages)
        OBVIOUS
      <4>2. Follows(workflow, new) /\ workflow' = workflow
        BY <1>a, <2>4, <3>3, <4>1, MoveFollows DEF InStep, Advance, At, Holding
      <4>3. Carries(call[h].copy, call[h].row, call[h].batch)
        BY <2>4, CarriesOn DEF InStep, Advance, At, Holding, Carries
      <4>4. Carries(new, call[h].row, call[h].batch)
        BY <4>1, <4>3 DEF Carries, Doc
      <4>5. InStep(workflow', CallOf("stage", "save", call[h].row, new, {}, call[h].batch))
        BY <4>2, <4>4 DEF InStep, CallOf
      <4> QED
        BY <1>a, <1>b, <3>1, <3>2, <3>3, <4>1, <4>5
    <3>4. CASE ~WorkflowMoves(call[h].copy.status, next)
      BY <1>a, <1>c, <3>1, <3>2, <3>4 DEF Holding
    <3> QED
      BY <3>3, <3>4
  <2>5. ASSUME NEW a \in Actions, ApproveBound(h, a) PROVE InStep(workflow', call'[h])
    <3>1. /\ Follows(workflow, call[h].copy) /\ Carries(call[h].copy, call[h].row, call[h].todo \cup call[h].batch)
          /\ a \in call[h].todo /\ workflow' = workflow
      BY <2>5 DEF ApproveBound, InStep, At, Holding
    <3>2. Carries(call[h].copy, call[h].row, (call[h].todo \ {a}) \cup call[h].batch)
      BY <3>1 DEF Carries
    <3>3. Carries(call[h].copy, call[h].row, (call[h].todo \ {a}) \cup (call[h].batch \cup {a}))
      BY <3>1 DEF Carries
    <3>4. /\ InStep(workflow', CallOf("stage", "bound", call[h].row, call[h].copy, call[h].todo \ {a}, call[h].batch))
          /\ InStep(workflow', CallOf("stage", "bound", call[h].row, call[h].copy, call[h].todo \ {a},
                                      call[h].batch \cup {a}))
      BY <3>1, <3>2, <3>3 DEF InStep, CallOf
    <3> QED
      BY <1>a, <1>b, <1>c, <2>5, <3>4 DEF ApproveBound, Holding
  <2>6. ASSUME NEW a \in Actions, RunBound(h, a) PROVE InStep(workflow', call'[h])
    <3>1. Carries(workflow, call[h].row, call[h].batch \ {a}) /\ workflow' = workflow
      BY <2>6 DEF RunBound, InStep, At, Held, Carries
    <3>2. InStep(workflow', CallOf("stage", "run", call[h].row, NewWorkflow, {}, call[h].batch \ {a}))
      BY <3>1 DEF InStep, CallOf, Held, Holding
    <3> QED
      BY <1>a, <1>b, <2>6, <3>2 DEF RunBound
  <2>7. ASSUME NEW a \in Actions, LoadBound(h, a) PROVE InStep(workflow', call'[h])
    <3>1. Carries(workflow, call[h].row, {a} \cup (call[h].batch \ {a})) /\ workflow' = workflow
      BY <2>7 DEF LoadBound, InStep, At, Held, Carries
    <3>2. Follows(workflow, Applied(a, workflow))
      BY <1>a, <2>7, AppliedFollows DEF LoadBound
    <3>3. InStep(workflow', CallOf("stage", "keep", call[h].row, Applied(a, workflow), {a}, call[h].batch \ {a}))
      BY <3>1, <3>2 DEF InStep, CallOf, Held, Holding
    <3> QED
      BY <1>a, <1>b, <2>7, <3>3 DEF LoadBound
  <2>8. CASE SaveBound(h)
    <3>1. Carries(workflow, call[h].row, call[h].todo \cup call[h].batch) /\ Follows(workflow, call[h].copy)
      BY <2>8 DEF SaveBound, InStep, At, Held, Carries, Holding
    <3>2. Carries(workflow', call[h].row, call[h].todo \cup call[h].batch)
      BY <2>8, <3>1, CarriesOn DEF SaveBound
    <3>3. InStep(workflow', CallOf("stage", "record", call[h].row, NewWorkflow, call[h].todo, call[h].batch))
      BY <3>2 DEF InStep, CallOf, Held, Holding, Carries
    <3> QED
      BY <1>a, <1>b, <2>8, <3>3 DEF SaveBound
  <2>9. ASSUME NEW a \in Actions, RecordBound(h, a) PROVE InStep(workflow', call'[h])
    <3>1. Carries(workflow, call[h].row, call[h].batch) /\ workflow' = workflow
      BY <2>9 DEF RecordBound, InStep, At, Held, Carries
    <3>2. InStep(workflow', CallOf("stage", "run", call[h].row, NewWorkflow, {}, call[h].batch))
      BY <3>1 DEF InStep, CallOf, Held, Holding
    <3> QED
      BY <1>a, <1>b, <2>9, <3>2 DEF RecordBound
  <2>10. CASE RunOwn(h)
    <3>1. workflow' = workflow /\ call[h].row \in Actions
      BY <1>a, <2>10 DEF RunOwn, At, TypeOK, Fits, PointsOf, Calls, Ops
    <3>2. CASE Kind[call[h].row] # "write" /\ Applies(call[h].row, workflow)
      <4>1. InStep(workflow', CallOf("own", "save", call[h].row, Applied(call[h].row, workflow), {}, {}))
        BY <1>a, <3>1, <3>2, AppliedFollows DEF InStep, CallOf
      <4> QED
        BY <1>a, <1>b, <1>c, <2>10, <4>1 DEF RunOwn, Holding
    <3>3. CASE ~(Kind[call[h].row] # "write" /\ Applies(call[h].row, workflow))
      BY <1>a, <1>c, <2>10, <3>3 DEF RunOwn, Holding
    <3> QED
      BY <3>2, <3>3
  <2>11. CASE Settle(h) \/ Fail(h)
    BY <1>a, <1>c, <1>d, <2>11 DEF Settle, Fail, Holding
  <2>12. CASE Revert(h)
    <3>1. ASSUME NEW i \in Locate(workflow, call[h].row), StageMoves(workflow.stages[i].status, "rejected"),
                 Becomes(h, CallOf("revert", "void", call[h].row, Moved(workflow, i, "rejected"),
                                   workflow.stages[i].actions, {}))
          PROVE  InStep(workflow', call'[h])
      <4>1. PICK new : new = Moved(workflow, i, "rejected")
        OBVIOUS
      <4>2. Follows(workflow, new) /\ workflow' = workflow
        BY <1>a, <2>12, <3>1, <4>1, ResolveFollows DEF Locate, Revert
      <4>3. InStep(workflow', CallOf("revert", "void", call[h].row, new, workflow.stages[i].actions, {}))
        BY <4>2 DEF InStep, CallOf
      <4> QED
        BY <1>a, <1>b, <3>1, <4>1, <4>3
    <3> QED
      BY <1>a, <1>d, <2>12, <3>1 DEF Revert
  <2>13. CASE VoidRejected(h)
    <3>1. PICK i \in Locate(call[h].copy, call[h].row) :
            LET back == StageToStatus[call[h].copy.stages[i].type] IN
            Becomes(h, IF WorkflowMoves(call[h].copy.status, back)
                       THEN CallOf("revert", "save", call[h].row, Doc(back, call[h].copy.stages), {}, {})
                       ELSE Idle)
      BY <2>13 DEF VoidRejected
    <3>2. PICK back : back = StageToStatus[call[h].copy.stages[i].type]
      OBVIOUS
    <3>3. CASE WorkflowMoves(call[h].copy.status, back)
      <4>1. Follows(workflow, Doc(back, call[h].copy.stages)) /\ workflow' = workflow
        BY <1>a, <2>13, <3>3, MoveFollows DEF InStep, VoidRejected, At, Holding
      <4>2. InStep(workflow', CallOf("revert", "save", call[h].row, Doc(back, call[h].copy.stages), {}, {}))
        BY <4>1 DEF InStep, CallOf
      <4> QED
        BY <1>a, <1>b, <3>1, <3>2, <3>3, <4>2
    <3>4. CASE ~WorkflowMoves(call[h].copy.status, back)
      BY <1>a, <1>d, <3>1, <3>2, <3>4
    <3> QED
      BY <3>3, <3>4
  <2> QED
    BY <1>2, <2>1, <2>2, <2>3, <2>4, <2>5, <2>6, <2>7, <2>8, <2>9, <2>10, <2>11, <2>12, <2>13
       DEF Continue
<1>3. CASE Crash
  <2>1. call'[h] = Idle
    BY <1>a, <1>3 DEF Crash
  <2> QED
    BY <2>1 DEF InStep, Idle, Waiting, CallOf, Holding
<1>4. CASE UNCHANGED <<workflow, call>>
  BY <1>4
<1> QED
  BY <1>1, <1>2, <1>3, <1>4 DEF Next, CreateAction, TtlElapses, Reconfirm, Sweep, vars

(* One thread serves the calls.                                            *)
OneThread == \E h : Handlers = {h}

(* Only the two steps that save a copy change the document.                *)
LEMMA OnlySavesChange ==
  ASSUME [Next]_vars
  PROVE  \/ workflow' = workflow
         \/ \E h \in Handlers : call[h].at \in {"save", "keep"} /\ workflow' = call[h].copy
<1>1. ASSUME NEW h \in Handlers, Begin(h) PROVE workflow' = workflow
  BY <1>1 DEF Begin, EditStage, StartStage, SubmitReport, AttachAction, RequestStageApproval,
     Cancel, Edit,
              ApproveStage, ApproveAction, MarkApproved, Reject
<1>2. ASSUME NEW h \in Handlers, Continue(h)
      PROVE  workflow' = workflow \/ (call[h].at \in {"save", "keep"} /\ workflow' = call[h].copy)
  BY <1>2 DEF Continue, Save, VoidCancelled, LocateStage, Advance, ApproveBound, RunBound, LoadBound,
              SaveBound, RecordBound, RunOwn, Settle, Fail, Revert, VoidRejected, At
<1> QED
  BY <1>1, <1>2 DEF Next, CreateAction, TtlElapses, Reconfirm, Sweep, Crash, vars

(* Only running a request, or settling the one decided, executes one.      *)
LEMMA OnlyRunsExecute ==
  ASSUME TypeOK, [Next]_vars, NEW r \in Rows, approval[r] # "executed", approval'[r] = "executed"
  PROVE  \E h \in Handlers :
           \/ r \in Held(call[h]) /\ call[h].at \in {"run", "record"}
           \/ r = call[h].row /\ Deciding(call[h])
<1>a. ExpireDue[r] # "executed" /\ approval \in [Rows -> ApprovalStatus] /\ ExpireDue \in [Rows -> ApprovalStatus]
  BY SweepType DEF ExpireDue, TypeOK
<1>1. ASSUME NEW h \in Handlers PROVE ~Begin(h)
  BY <1>1, <1>a DEF Begin, EditStage, StartStage, SubmitReport, AttachAction, RequestStageApproval,
     Cancel, Edit,
              ApproveStage, ApproveAction, MarkApproved, Reject, rowVars
<1>2. ASSUME NEW h \in Handlers, Continue(h)
      PROVE  \/ r \in Held(call[h]) /\ call[h].at \in {"run", "record"}
             \/ r = call[h].row /\ Deciding(call[h])
  <2>1. CASE \E a \in Actions : RunBound(h, a) \/ RecordBound(h, a)
    BY <2>1, <1>a DEF RunBound, RecordBound, At, Held
  <2>2. CASE Settle(h)
    <3>1. r = call[h].row
      BY <2>2, <1>a DEF Settle
    <3>2. Fits(call[h].op, call[h].at, call[h].row) /\ call[h].op \in Ops /\ call[h].at \in {"settle", "run"}
      BY <2>2 DEF Settle, At, TypeOK, Calls
    <3>3. call[h].op \in {"stage", "own"}
      BY <3>2 DEF Fits, PointsOf, Ops
    <3> QED
      BY <3>1, <3>3 DEF Deciding
  <2>3. CASE \E a \in Actions : ApproveBound(h, a)
    BY <2>3, <1>a DEF ApproveBound
  <2>4. CASE VoidCancelled(h) \/ VoidRejected(h)
    BY <2>4 DEF VoidCancelled, VoidRejected, VoidPending
  <2>5. CASE Fail(h)
    BY <2>5, <1>a DEF Fail
  <2> QED
    BY <1>2, <2>1, <2>2, <2>3, <2>4, <2>5 DEF Continue, Save, LocateStage, Advance, LoadBound,
              SaveBound, RunOwn, Revert, rowVars
<1>3. ASSUME NEW a \in Actions, NEW i \in 0..MaxStages PROVE ~CreateAction(a, i)
  BY <1>a DEF CreateAction
<1>4. ASSUME NEW s \in Rows PROVE ~TtlElapses(s) /\ ~Reconfirm(s)
  BY <1>a DEF TtlElapses, Reconfirm
<1>5. ~Sweep /\ ~Crash
  BY <1>a DEF Sweep, Crash
<1>6. ~UNCHANGED vars
  BY DEF vars
<1> QED
  BY <1>1, <1>2, <1>3, <1>4, <1>5, <1>6 DEF Next

(* The only call is in step with the document in every reachable state.    *)
LEMMA StaysInStep ==
  ASSUME NEW h, Handlers = {h}
  PROVE  Spec => [](TypeOK /\ InStep(workflow, call[h]))
<1>1. Init => InStep(workflow, call[h])
  BY DEF Init, InStep, Idle, Waiting, CallOf, Holding
<1>2. TypeOK /\ InStep(workflow, call[h]) /\ [Next]_vars => InStep(workflow, call[h])'
  BY InStepStep
<1> QED
  BY <1>1, <1>2, TypeCorrect, PTL DEF Spec

(* What the document becomes follows from what it was.                     *)
LEMMA DocumentFollows ==
  ASSUME NEW h, Handlers = {h}
  PROVE  TypeOK /\ InStep(workflow, call[h]) /\ [Next]_vars => Follows(workflow, workflow')
BY OnlySavesChange, EditFollows DEF InStep, Holding, TypeOK

(* With one thread a workflow that is over stays what it is: no saved copy *)
(* revives it.                                                             *)
THEOREM OverStaysOver == ASSUME OneThread PROVE Spec => TerminalIsFinal
<1>1. PICK h : Handlers = {h}
  BY DEF OneThread
<1>2. TypeOK /\ InStep(workflow, call[h]) /\ [Next]_vars
        => [workflow.status \in TerminalStatuses => workflow'.status = workflow.status]_vars
  BY <1>1, DocumentFollows DEF Follows
<1>3. Spec => [](TypeOK /\ InStep(workflow, call[h]))
  BY <1>1, StaysInStep
<1> QED
  BY <1>2, <1>3, PTL DEF Spec, TerminalIsFinal

(* With one thread an approved stage stays as the user approved it.        *)
THEOREM ApprovedStaysFrozen == ASSUME OneThread PROVE Spec => ApprovedStageIsFrozen
<1>1. PICK h : Handlers = {h}
  BY DEF OneThread
<1>2. TypeOK /\ InStep(workflow, call[h]) /\ [Next]_vars
        => [\A i \in DOMAIN workflow.stages :
              workflow.stages[i].status = "approved" =>
                i \in DOMAIN workflow'.stages /\ workflow'.stages[i] = workflow.stages[i]]_vars
  BY <1>1, DocumentFollows DEF Follows
<1>3. Spec => [](TypeOK /\ InStep(workflow, call[h]))
  BY <1>1, StaysInStep
<1> QED
  BY <1>2, <1>3, PTL DEF Spec, ApprovedStageIsFrozen

(* With one thread a request that the user did not approve by itself runs  *)
(* as part of a stage that holds it and that is saved as approved, on a    *)
(* stage request the user approved.                                        *)
THEOREM BatchesRunApproved == ASSUME OneThread PROVE Spec => BatchRunsInApprovedStage
<1>1. PICK h : Handlers = {h}
  BY DEF OneThread
<1>2. ASSUME TypeOK, InStep(workflow, call[h]), RunInv, [Next]_vars,
             NEW a \in Actions \ consented, approval[a] = "approved", approval'[a] = "executed"
      PROVE  \E i \in DOMAIN workflow.stages :
               /\ a \in workflow.stages[i].actions
               /\ workflow.stages[i].status = "approved"
               /\ workflow.stages[i].req \in consented
  <2>1. a \in Held(call[h]) /\ call[h].at \in {"run", "record"}
    <3>1. \/ a \in Held(call[h]) /\ call[h].at \in {"run", "record"}
          \/ a = call[h].row /\ Deciding(call[h])
      BY <1>1, <1>2, OnlyRunsExecute DEF Rows
    <3> QED
      BY <1>1, <1>2, <3>1 DEF RunInv
  <2>2. call[h].row \in consented
    BY <1>1, <1>2, <2>1 DEF RunInv, HoldsInTurn, Deciding
  <2>3. Carries(workflow, call[h].row, Held(call[h]))
    BY <1>2, <2>1 DEF InStep
  <2> QED
    BY <2>1, <2>2, <2>3 DEF Carries
<1>3. TypeOK /\ InStep(workflow, call[h]) /\ RunInv /\ [Next]_vars
        => [\A a \in Actions \ consented :
              approval[a] = "approved" /\ approval'[a] = "executed" =>
                \E i \in DOMAIN workflow.stages :
                  /\ a \in workflow.stages[i].actions
                  /\ workflow.stages[i].status = "approved"
                  /\ workflow.stages[i].req \in consented]_vars
  BY <1>2
<1>4. Spec => [](TypeOK /\ InStep(workflow, call[h]))
  BY <1>1, StaysInStep
<1> QED
  BY <1>3, <1>4, RequestsHold, PTL DEF Spec, BatchRunsInApprovedStage

-----------------------------------------------------------------------------
(* The document and the rows, with one thread and until the first crash.   *)

(* The statuses a stage and the row of its request may have together.      *)
Told(status, row) ==
  \/ status = "approved" /\ row = "executed"
  \/ status = "waiting_approval" /\ row \notin {"absent", "approved", "executed"}
  \/ status \in {"in_progress", "reported", "rejected"} /\ row \in {"rejected", "failed"}

(* So it is for the stages of a document, but for those that carry q.      *)
Tells(doc, rows, q) ==
  \A i \in DOMAIN doc.stages :
    doc.stages[i].req \notin {NoRow, q} => Told(doc.stages[i].status, rows[doc.stages[i].req])

(* A stage request in the queue is carried by a stage that waits.          *)
Awaits(doc, rows) ==
  doc.status \notin TerminalStatuses =>
    \A q \in StageRequests : rows[q] \in Open =>
      \E i \in Locate(doc, q) : doc.stages[i].status = "waiting_approval"

AllAre(doc, q, status) == \A i \in Locate(doc, q) : doc.stages[i].status = status

(* The request whose row and stage are just being changed, one after the   *)
(* other, and what the stages that carry it are meanwhile.                 *)
Exempt(c) == IF c.op = "stage" THEN c.row ELSE NoRow
Resolving(doc, c) ==
  /\ c.at \in {"locate", "bound", "save", "fail"} => AllAre(doc, c.row, "waiting_approval")
  /\ c.at \in {"run", "keep", "record"} => AllAre(doc, c.row, "approved")
  /\ c.at \in {"bound", "save", "keep"} => AllAre(c.copy, c.row, "approved")

(* The inductive invariant: document, copy and rows tell the same story.   *)
Story(doc, rows, c) ==
  /\ Tells(doc, rows, Exempt(c))
  /\ c.at # "save" => Awaits(doc, rows)
  /\ c.at \in Holding => Tells(c.copy, rows, Exempt(c)) /\ Awaits(c.copy, rows)
  /\ c.op = "stage" => Resolving(doc, c)
  /\ c.op = "revert" => rows[c.row] \in {"rejected", "failed"}

(* No row of a stage request opens, and those but q's that change were     *)
(* open and are not approved.                                              *)
RowsClose(q) ==
  \A r \in StageRequests :
    /\ approval'[r] \in Open => approval[r] \in Open
    /\ \/ r = q
       \/ approval'[r] = approval[r]
       \/ approval[r] \in Open /\ approval'[r] \notin {"absent", "approved", "executed"}

(* A document tells the same story when rows close.                        *)
LEMMA StoryKept ==
  ASSUME NEW doc \in Workflow, NEW q, RowsClose(q)
  PROVE  /\ Tells(doc, approval, q) => Tells(doc, approval', q)
         /\ Tells(doc, approval, NoRow) => Tells(doc, approval', q)
         /\ Awaits(doc, approval) => Awaits(doc, approval')
<1>1. \A i \in DOMAIN doc.stages : doc.stages[i].req \in StageRequests \cup {NoRow}
  BY StageType DEF Stage
<1>2. ASSUME NEW i \in DOMAIN doc.stages, doc.stages[i].req \notin {NoRow, q},
             Told(doc.stages[i].status, approval[doc.stages[i].req])
      PROVE  Told(doc.stages[i].status, approval'[doc.stages[i].req])
  <2>1. PICK r \in StageRequests : r = doc.stages[i].req /\ r # q
    BY <1>1, <1>2
  <2>2. CASE approval'[r] = approval[r]
    BY <1>2, <2>1, <2>2
  <2>3. CASE approval[r] \in Open /\ approval'[r] \notin {"absent", "approved", "executed"}
    <3>1. doc.stages[i].status = "waiting_approval"
      BY <1>2, <2>1, <2>3 DEF Told, Open
    <3> QED
      BY <2>1, <2>3, <3>1 DEF Told
  <2> QED
    BY <2>1, <2>2, <2>3 DEF RowsClose
<1>3. Awaits(doc, approval) => Awaits(doc, approval')
  BY DEF Awaits, RowsClose
<1> QED
  BY <1>2, <1>3 DEF Tells

(* When the stages that carry q tell it too, all do.                       *)
LEMMA AllTell ==
  ASSUME NEW doc, NEW rows, NEW q, NEW st, Tells(doc, rows, q), AllAre(doc, q, st), Told(st, rows[q])
  PROVE  Tells(doc, rows, NoRow)
BY DEF Tells, AllAre, Locate

(* The stages of a document, whatever its status is said to be.            *)
LEMMA StatusTells ==
  ASSUME NEW doc, NEW rows, NEW status, status \notin TerminalStatuses => doc.status \notin TerminalStatuses
  PROVE  /\ \A q : Tells(doc, rows, q) => Tells(Doc(status, doc.stages), rows, q)
         /\ Awaits(doc, rows) => Awaits(Doc(status, doc.stages), rows)
         /\ \A q, st : AllAre(doc, q, st) => AllAre(Doc(status, doc.stages), q, st)
BY DEF Tells, Awaits, AllAre, Locate, Doc

(* No legal move leads out of a status that is terminal.                   *)
LEMMA MovesWithin ==
  ASSUME NEW from, NEW to, WorkflowMoves(from, to), to \notin TerminalStatuses
  PROVE  from \notin TerminalStatuses
BY DEF WorkflowMoves, WorkflowTransitions, TerminalStatuses

(* Replacing a stage by one that carries the same request and tells the    *)
(* same; if it no longer waits, its request is not in the queue.           *)
LEMMA ReplaceTells ==
  ASSUME NEW doc \in Workflow, NEW rows, NEW i \in DOMAIN doc.stages, NEW s, s.req = doc.stages[i].req
  PROVE  /\ \A q : Tells(doc, rows, q) /\ (s.req \notin {NoRow, q} => Told(s.status, rows[s.req]))
                     => Tells(WithStage(doc, i, s), rows, q)
         /\ Awaits(doc, rows) /\ (doc.stages[i].status = "waiting_approval" => rows[s.req] \notin Open)
              => Awaits(WithStage(doc, i, s), rows)
         /\ \A q, st : AllAre(doc, q, st) /\ (doc.stages[i].req = q => s.status = st)
                     => AllAre(WithStage(doc, i, s), q, st)
<1>1. PICK new : new = WithStage(doc, i, s)
  OBVIOUS
<1>2. /\ new.status = doc.status /\ DOMAIN new.stages = DOMAIN doc.stages
      /\ \A j \in DOMAIN doc.stages : new.stages[j] = IF j = i THEN s ELSE doc.stages[j]
  BY <1>1 DEF WithStage, Doc, Workflow
<1>3. ASSUME NEW q, Tells(doc, rows, q), s.req \notin {NoRow, q} => Told(s.status, rows[s.req])
      PROVE  Tells(new, rows, q)
  BY <1>2, <1>3 DEF Tells
<1>4. ASSUME Awaits(doc, rows), doc.stages[i].status = "waiting_approval" => rows[s.req] \notin Open
      PROVE  Awaits(new, rows)
  <2> SUFFICES ASSUME new.status \notin TerminalStatuses, NEW q \in StageRequests, rows[q] \in Open
               PROVE  \E j \in Locate(new, q) : new.stages[j].status = "waiting_approval"
    BY DEF Awaits
  <2>1. PICK j \in Locate(doc, q) : doc.stages[j].status = "waiting_approval"
    BY <1>2, <1>4 DEF Awaits
  <2>2. j \in DOMAIN doc.stages /\ doc.stages[j].req = q
    BY <2>1 DEF Locate
  <2>3. j # i
    BY <1>4, <2>1, <2>2
  <2> QED
    BY <1>2, <2>1, <2>2, <2>3 DEF Locate
<1>5. ASSUME NEW q, NEW st, AllAre(doc, q, st), doc.stages[i].req = q => s.status = st
      PROVE  AllAre(new, q, st)
  BY <1>2, <1>5 DEF AllAre, Locate
<1> QED
  BY <1>1, <1>3, <1>4, <1>5

(* Likewise for a move of the stage.                                       *)
LEMMA MovedTells ==
  ASSUME NEW doc \in Workflow, NEW rows, NEW i \in DOMAIN doc.stages, NEW to
  PROVE  /\ \A q : /\ Tells(doc, rows, q)
                   /\ doc.stages[i].req \notin {NoRow, q} => Told(to, rows[doc.stages[i].req])
                   => Tells(Moved(doc, i, to), rows, q)
         /\ Awaits(doc, rows) /\ (doc.stages[i].status = "waiting_approval" => rows[doc.stages[i].req] \notin Open)
              => Awaits(Moved(doc, i, to), rows)
         /\ \A q, st : AllAre(doc, q, st) /\ (doc.stages[i].req = q => to = st) => AllAre(Moved(doc, i, to), q, st)
<1>1. PICK s : s = WithStatus(doc.stages[i], to)
  OBVIOUS
<1>2. s.req = doc.stages[i].req /\ s.status = to
  BY <1>1 DEF WithStatus, StageOf
<1> QED
  BY <1>1, <1>2, ReplaceTells DEF Moved

(* Editing a stage that is in progress or reported, or reporting one that  *)
(* was rejected, tells the same.                                           *)
LEMMA EditTells ==
  ASSUME NEW doc \in Workflow, NEW rows, NEW i \in DOMAIN doc.stages, NEW q, Tells(doc, rows, q), Awaits(doc, rows),
         doc.stages[i].status \in Reportable, NEW s, s.req = doc.stages[i].req,
         s.status \in {doc.stages[i].status, "reported"}
  PROVE  /\ Tells(WithStage(doc, i, s), rows, q) /\ Awaits(WithStage(doc, i, s), rows)
         /\ \A r : AllAre(doc, r, "approved") => AllAre(WithStage(doc, i, s), r, "approved")
<1>1. s.req \notin {NoRow, q} => Told(s.status, rows[s.req])
  BY DEF Tells, Told, Reportable
<1>2. doc.stages[i].status \notin {"waiting_approval", "approved"}
  BY DEF Reportable
<1>3. \A r : AllAre(doc, r, "approved") => doc.stages[i].req # r
  BY <1>2 DEF AllAre, Locate
<1> QED
  BY <1>1, <1>2, <1>3, ReplaceTells

(* So does running an action on its stage.                                 *)
LEMMA AppliedTells ==
  ASSUME NEW doc \in Workflow, NEW rows, NEW q, Tells(doc, rows, q), Awaits(doc, rows),
         NEW a \in Actions, Kind[a] # "write", Applies(a, doc)
  PROVE  /\ Tells(Applied(a, doc), rows, q) /\ Awaits(Applied(a, doc), rows)
         /\ \A r : AllAre(doc, r, "approved") => AllAre(Applied(a, doc), r, "approved")
<1>1. PICK i \in DOMAIN doc.stages : i = target[a] /\ doc.stages[i].status \in Reportable
  BY DEF Applies, Editable, Reportable
<1>2. Kind[a] \in {"test", "agent", "gate"}
  BY KindAssumption DEF Kinds
<1>3. \E s : /\ Applied(a, doc) = WithStage(doc, i, s) /\ s.req = doc.stages[i].req
             /\ s.status \in {doc.stages[i].status, "reported"}
  <2>1. CASE Kind[a] = "test"
    <3>1. PICK s : s = WithStatus(doc.stages[i], "reported")
      OBVIOUS
    <3> QED
      BY <1>1, <2>1, <3>1 DEF Applied, Moved, WithStatus, StageOf
  <2>2. CASE Kind[a] = "agent"
    <3>1. PICK s : s = WithAgent(doc.stages[i])
      OBVIOUS
    <3> QED
      BY <1>1, <2>2, <3>1 DEF Applied, WithAgent, StageOf
  <2>3. CASE Kind[a] = "gate"
    <3>1. PICK s : s = WithGate(doc.stages[i])
      OBVIOUS
    <3> QED
      BY <1>1, <2>3, <3>1 DEF Applied, WithGate, StageOf
  <2> QED
    BY <1>2, <2>1, <2>2, <2>3
<1> QED
  BY <1>1, <1>3, EditTells

(* Every step of the only thread keeps the invariant.                      *)
LEMMA StoryStep ==
  ASSUME NEW h, Handlers = {h}
  PROVE  TypeOK /\ RunInv /\ SoundInv /\ (restarts = 0 => Story(workflow, approval, call[h])) /\ [Next]_vars
           => (restarts' = 0 => Story(workflow', approval', call'[h]))
<1> SUFFICES ASSUME TypeOK, RunInv, SoundInv, restarts = 0 => Story(workflow, approval, call[h]), [Next]_vars,
                    restarts' = 0
             PROVE  Story(workflow', approval', call'[h])
  OBVIOUS
<1>a. /\ workflow \in Workflow /\ call[h].copy \in Workflow /\ h \in Handlers
      /\ call \in [Handlers -> Calls] /\ approval \in [Rows -> ApprovalStatus]
      /\ Actions \subseteq Rows /\ StageRequests \subseteq Rows /\ NoRow \notin Rows
      /\ Actions \cap StageRequests = {} /\ ExpireDue \in [Rows -> ApprovalStatus]
  BY SweepType, RowsAssumption DEF TypeOK, Calls, Rows
<1>b. ASSUME NEW c, Story(workflow', approval', c), Becomes(h, c)
      PROVE  Story(workflow', approval', call'[h])
  BY <1>a, <1>b, CallsAfter
<1>c. restarts = 0 => Story(workflow, approval, call[h])
  OBVIOUS
<1>d. /\ call[h].at = "idle" => call[h] = Idle
      /\ Idle.op = "none" /\ Idle.at = "idle" /\ Idle.row = NoRow
  BY <1>a DEF TypeOK, At, Idle, Waiting, CallOf
<1>e. ASSUME Tells(workflow', approval', NoRow), Awaits(workflow', approval')
      PROVE  /\ Story(workflow', approval', Idle)
             /\ \A at, r : at \notin Holding => Story(workflow', approval', Waiting("own", at, r))
             /\ \A at, r : at \notin Holding /\ approval'[r] \in {"rejected", "failed"}
                             => Story(workflow', approval', Waiting("revert", at, r))
  BY <1>e DEF Story, Idle, Waiting, CallOf, Holding, Exempt
<1>f. ASSUME NEW r \in StageRequests, Tells(workflow', approval', r), Awaits(workflow', approval'),
             AllAre(workflow', r, "waiting_approval"), NEW at \in {"locate", "fail"}
      PROVE  Story(workflow', approval', Waiting("stage", at, r))
  BY <1>f DEF Story, Waiting, CallOf, Holding, Exempt, Resolving
<1>g. ASSUME NEW op \in {"edit", "cancel", "own", "revert"}, NEW at \in Holding, NEW row, NEW copy, NEW todo, NEW batch,
             Tells(workflow', approval', NoRow), at # "save" => Awaits(workflow', approval'),
             Tells(copy, approval', NoRow), Awaits(copy, approval'),
             op = "revert" => approval'[row] \in {"rejected", "failed"}
      PROVE  Story(workflow', approval', CallOf(op, at, row, copy, todo, batch))
  BY <1>g DEF Story, CallOf, Exempt
<1>h. ASSUME NEW doc, Edit(h, doc), Tells(workflow', approval', NoRow),
             Tells(doc, approval', NoRow), Awaits(doc, approval')
      PROVE  Story(workflow', approval', call'[h])
  BY <1>b, <1>g, <1>h DEF Edit, Holding
<1>i. ASSUME UNCHANGED approval, NEW q PROVE RowsClose(q)
  BY <1>i DEF RowsClose
<1>j. ASSUME NEW q, approval' = ExpireDue PROVE RowsClose(q)
  BY <1>a, <1>j DEF RowsClose, ExpireDue, Open
<1>k. ASSUME NEW q, NEW rows, VoidPending(rows) PROVE RowsClose(q)
  BY <1>a, <1>k DEF RowsClose, VoidPending, Open
<1>l. ASSUME NEW r \in Rows, NEW st, st \notin Open, r \in StageRequests => approval[r] \in Open,
             st \notin {"absent", "approved", "executed"} \/ r \notin StageRequests,
             approval' = [approval EXCEPT ![r] = st], NEW q
      PROVE  RowsClose(q)
  BY <1>a, <1>l DEF RowsClose
<1>m. ASSUME NEW r \in Rows, NEW st, st \notin Open, approval' = [ExpireDue EXCEPT ![r] = st], NEW q,
             r = q \/ r \notin StageRequests
      PROVE  RowsClose(q)
  <2>1. \A s \in Rows : approval'[s] = IF s = r THEN st ELSE ExpireDue[s]
    BY <1>a, <1>m
  <2>2. \A s \in Rows : (ExpireDue[s] = "expired" /\ approval[s] \in Open) \/ ExpireDue[s] = approval[s]
    BY DEF ExpireDue
  <2> QED
    BY <1>a, <1>m, <2>1, <2>2 DEF RowsClose, Open
<1>n. ASSUME NEW r \in StageRequests, NEW st, st \notin Open, approval' = [approval EXCEPT ![r] = st]
      PROVE  RowsClose(r)
  BY <1>a, <1>n DEF RowsClose
<1>1. ASSUME Begin(h) PROVE Story(workflow', approval', call'[h])
  <2>1. UNCHANGED <<workflow, restarts>>
    BY <1>1 DEF Begin, EditStage, StartStage, SubmitReport, AttachAction, RequestStageApproval,
       Cancel, Edit,
                ApproveStage, ApproveAction, MarkApproved, Reject
  <2>2. call[h].at = "idle"
    BY <1>1 DEF Begin, EditStage, StartStage, SubmitReport, AttachAction, RequestStageApproval,
       Cancel, At,
                ApproveStage, ApproveAction, MarkApproved, Reject
  <2>3. Tells(workflow, approval, NoRow) /\ Awaits(workflow, approval)
    BY <1>c, <1>d, <2>1, <2>2 DEF Story, Exempt
  <2>4. ASSUME NEW type \in StartTypes, StartStage(h, type) PROVE Story(workflow', approval', call'[h])
    <3>1. PICK new : new = Doc(StageToStatus[type], Append(workflow.stages, NewStage(type)))
      OBVIOUS
    <3>2. PICK n \in Nat : n = Len(workflow.stages) /\ DOMAIN workflow.stages = 1..n
      BY <1>a DEF Workflow
    <3>3. /\ DOMAIN new.stages = 1..(n + 1) /\ new.stages[n + 1] = NewStage(type)
          /\ \A i \in 1..n : new.stages[i] = workflow.stages[i]
      BY <1>a, <3>1, <3>2 DEF Doc, Workflow
    <3>4. NewStage(type).req = NoRow /\ \A i \in DOMAIN new.stages : i \in 1..n \/ i = n + 1
      BY <3>2, <3>3 DEF NewStage, StageOf
    <3>5. Tells(new, approval, NoRow)
      BY <2>3, <3>2, <3>3, <3>4 DEF Tells
    <3>6. Awaits(new, approval)
      BY <2>3, <2>4, <3>2, <3>3 DEF Awaits, Locate, StartStage
    <3> QED
      BY <1>h, <2>1, <2>3, <2>4, <3>1, <3>5, <3>6 DEF StartStage, rowVars
  <2>5. ASSUME NEW i \in DOMAIN workflow.stages, EditStage(h, i) PROVE Story(workflow', approval', call'[h])
    <3>1. CASE SubmitReport(h, i)
      <4>1. PICK s : s = WithStatus(workflow.stages[i], "reported")
        OBVIOUS
      <4>2. s.req = workflow.stages[i].req /\ s.status = "reported"
        BY <4>1 DEF WithStatus, StageOf
      <4>3. Tells(WithStage(workflow, i, s), approval, NoRow) /\ Awaits(WithStage(workflow, i, s), approval)
        BY <1>a, <2>3, <3>1, <4>2, EditTells DEF SubmitReport
      <4> QED
        BY <1>h, <2>1, <2>3, <3>1, <4>1, <4>3 DEF SubmitReport, rowVars, Moved
    <3>2. ASSUME NEW a \in Actions, AttachAction(h, i, a) PROVE Story(workflow', approval', call'[h])
      <4>1. PICK s : s = WithAction(workflow.stages[i], a)
        OBVIOUS
      <4>2. s.req = workflow.stages[i].req /\ s.status = workflow.stages[i].status
        BY <4>1 DEF WithAction, StageOf
      <4>3. Tells(WithStage(workflow, i, s), approval, NoRow) /\ Awaits(WithStage(workflow, i, s), approval)
        BY <1>a, <2>3, <3>2, <4>2, EditTells DEF AttachAction, Editable, Reportable
      <4> QED
        BY <1>h, <2>1, <2>3, <3>2, <4>1, <4>3 DEF AttachAction, rowVars
    <3>3. ASSUME NEW q \in StageRequests, RequestStageApproval(h, i, q) PROVE Story(workflow', approval', call'[h])
      <4>1. /\ approval[q] = "absent" /\ approval'[q] = "pending" /\ workflow.stages[i].status = "reported"
            /\ \A r \in Rows \ {q} : approval'[r] = approval[r]
        BY <1>a, <3>3 DEF RequestStageApproval
      <4>2. \A j \in DOMAIN workflow.stages : workflow.stages[j].req \in (StageRequests \cup {NoRow}) \ {q}
        <5>1. q \notin Asked /\ q # NoRow
          BY <1>a, <4>1 DEF Asked
        <5>2. \A j \in DOMAIN workflow.stages : workflow.stages[j].req # NoRow => workflow.stages[j].req \in Asked
          BY DEF SoundInv, Sound, SoundStage
        <5> QED
          BY <5>1, <5>2 DEF Asked
      <4>3. Tells(workflow, approval', NoRow)
        BY <1>a, <2>3, <4>1, <4>2 DEF Tells
      <4>4. CASE WorkflowMoves(workflow.status, "waiting_approval")
        <5>1. PICK s : s = AwaitingAnswer(workflow.stages[i], q)
          OBVIOUS
        <5>2. s.req = q /\ s.status = "waiting_approval"
          BY <5>1 DEF AwaitingAnswer, StageOf
        <5>3. PICK new : new = Doc("waiting_approval", [workflow.stages EXCEPT ![i] = s])
          OBVIOUS
        <5>4. /\ DOMAIN new.stages = DOMAIN workflow.stages
              /\ \A j \in DOMAIN workflow.stages : new.stages[j] = IF j = i THEN s ELSE workflow.stages[j]
          BY <1>a, <5>3 DEF Doc, Workflow
        <5>5. Tells(new, approval', NoRow)
          BY <4>1, <4>3, <5>2, <5>4 DEF Tells, Told
        <5>6. workflow.status \notin TerminalStatuses
          BY <4>4, MovesWithin DEF TerminalStatuses
        <5>7. ASSUME NEW r \in StageRequests, approval'[r] \in Open
              PROVE  \E j \in Locate(new, r) : new.stages[j].status = "waiting_approval"
          <6>1. CASE r = q
            BY <5>2, <5>4, <6>1 DEF Locate
          <6>2. CASE r # q
            <7>1. approval[r] \in Open
              BY <1>a, <4>1, <5>7, <6>2
            <7>2. PICK j \in Locate(workflow, r) : workflow.stages[j].status = "waiting_approval"
              BY <2>3, <5>6, <7>1 DEF Awaits
            <7>3. j # i
              BY <4>1, <7>2
            <7> QED
              BY <5>4, <7>2, <7>3 DEF Locate
          <6> QED
            BY <6>1, <6>2
        <5>8. Awaits(new, approval')
          BY <5>7 DEF Awaits
        <5>9. Edit(h, new)
          BY <3>3, <4>4, <5>1, <5>3 DEF RequestStageApproval
        <5> QED
          BY <1>h, <2>1, <4>3, <5>5, <5>8, <5>9
      <4>5. CASE ~WorkflowMoves(workflow.status, "waiting_approval")
        <5>1. UNCHANGED <<workflow, call>>
          BY <3>3, <4>5 DEF RequestStageApproval
        <5>2. workflow.status \in TerminalStatuses
          BY <1>a, <4>5 DEF WorkflowMoves, WorkflowTransitions, TerminalStatuses, Workflow,
             WorkflowStatus, Ended
        <5>3. Awaits(workflow', approval')
          BY <5>1, <5>2 DEF Awaits
        <5> QED
          BY <1>d, <1>e, <2>2, <4>3, <5>1, <5>3
      <4> QED
        BY <4>4, <4>5
    <3> QED
      BY <2>5, <3>1, <3>2, <3>3 DEF EditStage
  <2>6. CASE Cancel(h)
    <3>1. PICK todo : Becomes(h, CallOf("cancel", "void", NoRow, workflow, todo, {}))
      BY <2>6 DEF Cancel
    <3>2. Story(workflow', approval', CallOf("cancel", "void", NoRow, workflow, todo, {}))
      BY <1>g, <2>1, <2>3, <2>6 DEF Cancel, rowVars, Holding
    <3> QED
      BY <1>b, <3>1, <3>2
  <2>7. ASSUME NEW q \in StageRequests, ApproveStage(h, q) PROVE Story(workflow', approval', call'[h])
    <3>1. /\ approval' = [ExpireDue EXCEPT ![q] = "approved"] /\ ExpireDue[q] \in Approvable
          /\ Becomes(h, Waiting("stage", "locate", q))
      BY <2>7 DEF ApproveStage, MarkApproved
    <3>2. RowsClose(q)
      BY <1>a, <1>m, <3>1 DEF Open
    <3>3. Tells(workflow', approval', q) /\ Awaits(workflow', approval')
      BY <1>a, <2>1, <2>3, <3>2, StoryKept
    <3>4. approval[q] \in Open
      BY <1>a, <3>1 DEF ExpireDue, Approvable, Open
    <3>5. AllAre(workflow', q, "waiting_approval")
      BY <1>a, <2>1, <2>3, <3>4 DEF AllAre, Locate, Tells, Told, Open
    <3> QED
      BY <1>b, <1>f, <3>1, <3>3, <3>5
  <2>8. ASSUME NEW a \in Actions, ApproveAction(h, a) PROVE Story(workflow', approval', call'[h])
    <3>1. approval' = [ExpireDue EXCEPT ![a] = "approved"] /\ Becomes(h, Waiting("own", "apply", a))
      BY <2>8 DEF ApproveAction, MarkApproved
    <3>2. RowsClose(NoRow)
      BY <1>a, <1>m, <3>1 DEF Open
    <3>3. Tells(workflow', approval', NoRow) /\ Awaits(workflow', approval')
      BY <1>a, <2>1, <2>3, <3>2, StoryKept
    <3> QED
      BY <1>b, <1>e, <3>1, <3>3 DEF Holding
  <2>9. ASSUME NEW r \in Rows, Reject(h, r) PROVE Story(workflow', approval', call'[h])
    <3>1. approval' = [approval EXCEPT ![r] = "rejected"] /\ approval[r] \in Open
      BY <2>9 DEF Reject
    <3>2. RowsClose(NoRow)
      BY <1>a, <1>l, <3>1 DEF Open
    <3>3. Tells(workflow', approval', NoRow) /\ Awaits(workflow', approval')
      BY <1>a, <2>1, <2>3, <3>2, StoryKept
    <3>4. approval'[r] = "rejected"
      BY <1>a, <3>1
    <3> QED
      BY <1>b, <1>e, <2>9, <3>3, <3>4 DEF Holding, Reject
  <2> QED
    BY <1>1, <2>4, <2>5, <2>6, <2>7, <2>8, <2>9 DEF Begin
<1>o. /\ call[h].at \in {"locate", "bound", "run", "keep", "record"} => call[h].op = "stage"
      /\ call[h].at \in {"apply", "settle"} => call[h].op = "own"
      /\ call[h].at = "revert" => call[h].op = "revert"
      /\ call[h].at = "fail" => call[h].op \in {"stage", "own"}
      /\ call[h].op \in {"stage", "revert"} => call[h].row \in StageRequests
      /\ call[h].op = "own" => call[h].row \in Actions
  <2>1. Fits(call[h].op, call[h].at, call[h].row) /\ call[h].op \in Ops /\ call[h].at \in Points
    BY <1>a DEF TypeOK, Calls
  <2> QED
    BY <2>1 DEF Fits, PointsOf, Ops
<1>p. call[h].op = "stage" => approval[call[h].row] = "approved"
  BY <1>a DEF RunInv, Deciding
<1>2. ASSUME Continue(h) PROVE Story(workflow', approval', call'[h])
  <2>0. restarts = 0 /\ Story(workflow, approval, call[h])
    BY <1>2, <1>c DEF Continue, Save, VoidCancelled, LocateStage, Advance, ApproveBound, RunBound,
       LoadBound,
                      SaveBound, RecordBound, RunOwn, Settle, Fail, Revert, VoidRejected
  <2> DEFINE q == call[h].row
             copy == call[h].copy
  <2>s. ASSUME call[h].op = "stage"
        PROVE  /\ Tells(workflow, approval, q) /\ Resolving(workflow, call[h]) /\ q \in StageRequests
               /\ call[h].at \in Holding => Tells(copy, approval, q) /\ Awaits(copy, approval)
               /\ call[h].at # "save" => Awaits(workflow, approval)
    BY <2>0, <2>s, <1>o DEF Story, Exempt
  <2>o. ASSUME call[h].op # "stage"
        PROVE  /\ Tells(workflow, approval, NoRow)
               /\ call[h].at \in Holding => Tells(copy, approval, NoRow) /\ Awaits(copy, approval)
               /\ call[h].at # "save" => Awaits(workflow, approval)
    BY <2>0, <2>o DEF Story, Exempt
  <2>r. ASSUME NEW at, NEW doc, NEW todo, NEW batch, at \in {"bound", "save", "run", "keep", "record"},
               q \in StageRequests, Tells(workflow', approval', q), at # "save" => Awaits(workflow', approval'),
               at \in Holding => Tells(doc, approval', q) /\ Awaits(doc, approval'),
               at \in {"bound", "save"} => AllAre(workflow', q, "waiting_approval"),
               at \in {"run", "keep", "record"} => AllAre(workflow', q, "approved"),
               at \in {"bound", "save", "keep"} => AllAre(doc, q, "approved"),
               Becomes(h, CallOf("stage", at, q, doc, todo, batch))
        PROVE  Story(workflow', approval', call'[h])
    <3>1. Story(workflow', approval', CallOf("stage", at, q, doc, todo, batch))
      BY <2>r DEF Story, CallOf, Exempt, Resolving
    <3> QED
      BY <1>b, <2>r, <3>1
  <2>a. ASSUME NEW a \in Actions, NEW st, approval' = [approval EXCEPT ![a] = st], NEW r PROVE RowsClose(r)
    BY <1>a, <2>a DEF RowsClose
  <2> HIDE DEF q, copy
  <2>1. CASE Save(h)
    <3>1. workflow' = copy /\ call[h].at = "save" /\ approval' = approval
      BY <2>1 DEF Save, At, rowVars, copy
    <3>2. CASE call[h].op = "stage"
      <4>1. Becomes(h, CallOf("stage", "run", q, NewWorkflow, {}, call[h].batch))
        BY <2>1, <3>2 DEF Save, q
      <4>2. /\ Tells(workflow', approval', q) /\ Awaits(workflow', approval') /\ AllAre(workflow', q, "approved")
            /\ q \in StageRequests
        BY <2>s, <3>1, <3>2 DEF Resolving, Holding, q, copy
      <4> QED
        BY <2>r, <4>1, <4>2 DEF Holding
    <3>3. CASE call[h].op # "stage"
      <4>1. Tells(workflow', approval', NoRow) /\ Awaits(workflow', approval')
        BY <2>o, <3>1, <3>3 DEF Holding
      <4> QED
        BY <1>b, <1>e, <2>1, <3>3, <4>1 DEF Save, Holding
    <3> QED
      BY <3>2, <3>3
  <2>2. CASE VoidCancelled(h)
    <3>1. /\ workflow' = workflow /\ VoidPending(call[h].todo) /\ call[h].at = "void" /\ call[h].op = "cancel"
          /\ Becomes(h, CallOf("cancel", "save", NoRow, Doc("cancelled", copy.stages), {}, {}))
      BY <2>2 DEF VoidCancelled, At, copy
    <3>2. RowsClose(NoRow)
      BY <1>k, <3>1
    <3>3. Tells(workflow', approval', NoRow) /\ Tells(copy, approval', NoRow) /\ Awaits(copy, approval')
      BY <1>a, <2>o, <3>1, <3>2, StoryKept DEF Holding, copy
    <3>4. PICK new : new = Doc("cancelled", copy.stages)
      OBVIOUS
    <3>5. Tells(new, approval', NoRow) /\ Awaits(new, approval')
      BY <3>3, <3>4, StatusTells DEF TerminalStatuses
    <3> QED
      BY <1>b, <1>g, <3>1, <3>3, <3>4, <3>5 DEF Holding
  <2>3. CASE LocateStage(h)
    <3>1. workflow' = workflow /\ approval' = approval /\ call[h].at = "locate" /\ call[h].op = "stage"
      BY <1>o, <2>3 DEF LocateStage, At, rowVars
    <3>2. /\ Tells(workflow, approval, q) /\ Awaits(workflow, approval) /\ AllAre(workflow, q, "waiting_approval")
          /\ q \in StageRequests
      BY <2>s, <3>1 DEF Resolving, q
    <3>3. ASSUME NEW i \in Locate(workflow, q),
                 Becomes(h, CallOf("stage", "bound", q, Moved(workflow, i, "approved"),
                                   workflow.stages[i].actions, {}))
          PROVE  Story(workflow', approval', call'[h])
      <4>1. i \in DOMAIN workflow.stages /\ workflow.stages[i].req = q
        BY DEF Locate
      <4>2. PICK new : new = Moved(workflow, i, "approved")
        OBVIOUS
      <4>3. approval[q] \notin Open
        BY <1>p, <3>1 DEF Open, q
      <4>4. Tells(new, approval', q) /\ Awaits(new, approval')
        BY <1>a, <3>1, <3>2, <4>1, <4>2, <4>3, MovedTells
      <4>5. AllAre(new, q, "approved")
        BY <1>a, <3>2, <3>3, <4>2, LocatedApproved DEF AllAre, SoundInv
      <4> QED
        BY <2>r, <3>1, <3>2, <3>3, <4>2, <4>4, <4>5
    <3>4. CASE Becomes(h, Waiting("stage", "fail", q))
      BY <1>b, <1>f, <3>1, <3>2, <3>4
    <3> QED
      BY <2>3, <3>3, <3>4 DEF LocateStage, q
  <2>4. CASE Advance(h)
    <3>1. workflow' = workflow /\ approval' = approval /\ call[h].at = "bound" /\ call[h].op = "stage"
      BY <1>o, <2>4 DEF Advance, At, rowVars
    <3>2. /\ Tells(workflow, approval, q) /\ Awaits(workflow, approval) /\ AllAre(workflow, q, "waiting_approval")
          /\ Tells(copy, approval, q) /\ Awaits(copy, approval) /\ AllAre(copy, q, "approved") /\ q \in StageRequests
      BY <2>s, <3>1 DEF Resolving, Holding, q, copy
    <3>3. PICK i \in Locate(copy, q) :
            LET next == StatusAfter(copy.stages[i].type) IN
            Becomes(h, IF WorkflowMoves(copy.status, next)
                       THEN CallOf("stage", "save", q, Doc(next, copy.stages), {}, call[h].batch)
                       ELSE Waiting("stage", "fail", q))
      BY <2>4 DEF Advance, q, copy
    <3>4. PICK next : next = StatusAfter(copy.stages[i].type)
      OBVIOUS
    <3>5. CASE WorkflowMoves(copy.status, next)
      <4>1. PICK new : new = Doc(next, copy.stages)
        OBVIOUS
      <4>2. next \notin TerminalStatuses => copy.status \notin TerminalStatuses
        BY <3>5, MovesWithin
      <4>3. Tells(new, approval, q) /\ Awaits(new, approval) /\ AllAre(new, q, "approved")
        BY <3>2, <4>1, <4>2, StatusTells
      <4>4. Becomes(h, CallOf("stage", "save", q, new, {}, call[h].batch))
        BY <3>3, <3>4, <3>5, <4>1
      <4> QED
        BY <2>r, <3>1, <3>2, <4>3, <4>4
    <3>6. CASE ~WorkflowMoves(copy.status, next)
      BY <1>b, <1>f, <3>1, <3>2, <3>3, <3>4, <3>6
    <3> QED
      BY <3>5, <3>6
  <2>5. ASSUME NEW a \in Actions, ApproveBound(h, a) PROVE Story(workflow', approval', call'[h])
    <3>1. workflow' = workflow /\ call[h].at = "bound" /\ call[h].op = "stage"
      BY <1>o, <2>5 DEF ApproveBound, At
    <3>2. RowsClose(q)
      BY <1>a, <1>i, <1>j, <1>m, <2>5 DEF ApproveBound, Open
    <3>3. /\ Tells(workflow, approval, q) /\ Awaits(workflow, approval) /\ AllAre(workflow, q, "waiting_approval")
          /\ Tells(copy, approval, q) /\ Awaits(copy, approval) /\ AllAre(copy, q, "approved") /\ q \in StageRequests
      BY <2>s, <3>1 DEF Resolving, Holding, q, copy
    <3>4. /\ Tells(workflow', approval', q) /\ Awaits(workflow', approval')
          /\ Tells(copy, approval', q) /\ Awaits(copy, approval')
      BY <1>a, <3>1, <3>2, <3>3, StoryKept DEF copy
    <3>5. \/ \E todo, batch : Becomes(h, CallOf("stage", "bound", q, copy, todo, batch))
          \/ Becomes(h, Waiting("stage", "fail", q))
      BY <2>5 DEF ApproveBound, q, copy
    <3>6. CASE \E todo, batch : Becomes(h, CallOf("stage", "bound", q, copy, todo, batch))
      BY <2>r, <3>1, <3>3, <3>4, <3>6
    <3>7. CASE Becomes(h, Waiting("stage", "fail", q))
      BY <1>b, <1>f, <3>1, <3>3, <3>4, <3>7
    <3> QED
      BY <3>5, <3>6, <3>7
  <2>6. ASSUME NEW a \in Actions, RunBound(h, a) \/ RecordBound(h, a) PROVE Story(workflow', approval', call'[h])
    <3>1. workflow' = workflow /\ call[h].at \in {"run", "record"} /\ call[h].op = "stage"
      BY <1>o, <2>6 DEF RunBound, RecordBound, At
    <3>2. RowsClose(q)
      BY <2>6, <2>a DEF RunBound, RecordBound
    <3>3. /\ Tells(workflow, approval, q) /\ Awaits(workflow, approval) /\ AllAre(workflow, q, "approved")
          /\ q \in StageRequests
      BY <2>s, <3>1 DEF Resolving, q
    <3>4. Tells(workflow', approval', q) /\ Awaits(workflow', approval')
      BY <1>a, <3>1, <3>2, <3>3, StoryKept
    <3>5. PICK batch : Becomes(h, CallOf("stage", "run", q, NewWorkflow, {}, batch))
      BY <2>6 DEF RunBound, RecordBound, q
    <3> QED
      BY <2>r, <3>1, <3>3, <3>4, <3>5 DEF Holding
  <2>7. ASSUME NEW a \in Actions, LoadBound(h, a) PROVE Story(workflow', approval', call'[h])
    <3>1. workflow' = workflow /\ approval' = approval /\ call[h].at = "run" /\ call[h].op = "stage"
      BY <1>o, <2>7 DEF LoadBound, At, rowVars
    <3>2. /\ Tells(workflow, approval, q) /\ Awaits(workflow, approval) /\ AllAre(workflow, q, "approved")
          /\ q \in StageRequests
      BY <2>s, <3>1 DEF Resolving, q
    <3>3. PICK new : new = Applied(a, workflow)
      OBVIOUS
    <3>4. Tells(new, approval, q) /\ Awaits(new, approval) /\ AllAre(new, q, "approved")
      BY <1>a, <2>7, <3>2, <3>3, AppliedTells DEF LoadBound
    <3>5. Becomes(h, CallOf("stage", "keep", q, new, {a}, call[h].batch \ {a}))
      BY <2>7, <3>3 DEF LoadBound, q
    <3> QED
      BY <2>r, <3>1, <3>2, <3>4, <3>5
  <2>8. CASE SaveBound(h)
    <3>1. workflow' = copy /\ approval' = approval /\ call[h].at = "keep" /\ call[h].op = "stage"
      BY <1>o, <2>8 DEF SaveBound, At, rowVars, copy
    <3>2. /\ Tells(copy, approval, q) /\ Awaits(copy, approval) /\ AllAre(copy, q, "approved")
          /\ q \in StageRequests
      BY <2>s, <3>1 DEF Resolving, Holding, q, copy
    <3>3. Becomes(h, CallOf("stage", "record", q, NewWorkflow, call[h].todo, call[h].batch))
      BY <2>8 DEF SaveBound, q
    <3> QED
      BY <2>r, <3>1, <3>2, <3>3 DEF Holding
  <2>10. CASE RunOwn(h)
    <3>1. workflow' = workflow /\ approval' = approval /\ call[h].at = "apply" /\ call[h].op = "own" /\ q \in Actions
      BY <1>o, <2>10 DEF RunOwn, At, rowVars, q
    <3>2. Tells(workflow, approval, NoRow) /\ Awaits(workflow, approval)
      BY <2>o, <3>1
    <3>3. CASE /\ Kind[q] # "write" /\ Applies(q, workflow)
               /\ Becomes(h, CallOf("own", "save", q, Applied(q, workflow), {}, {}))
      <4>1. PICK new : new = Applied(q, workflow)
        OBVIOUS
      <4>2. Tells(new, approval, NoRow) /\ Awaits(new, approval)
        BY <1>a, <3>1, <3>2, <3>3, <4>1, AppliedTells
      <4> QED
        BY <1>b, <1>g, <3>1, <3>2, <3>3, <4>1, <4>2 DEF Holding
    <3>4. CASE Becomes(h, Waiting("own", "settle", q)) \/ Becomes(h, Waiting("own", "fail", q))
      BY <1>b, <1>e, <3>1, <3>2, <3>4 DEF Holding
    <3> QED
      BY <2>10, <3>3, <3>4 DEF RunOwn, q
  <2>11. CASE Settle(h)
    <3>1. /\ workflow' = workflow /\ call[h].at \in {"settle", "run"} /\ Becomes(h, Idle)
          /\ approval' = [approval EXCEPT ![q] = "executed"]
      BY <2>11 DEF Settle, At, q
    <3>2. CASE call[h].at = "run"
      <4>1. /\ Tells(workflow, approval, q) /\ Awaits(workflow, approval) /\ AllAre(workflow, q, "approved")
            /\ q \in StageRequests
        BY <1>o, <2>s, <3>2 DEF Resolving, q
      <4>2. RowsClose(q)
        BY <1>n, <3>1, <4>1 DEF Open
      <4>3. Tells(workflow', approval', q) /\ Awaits(workflow', approval')
        BY <1>a, <3>1, <4>1, <4>2, StoryKept
      <4>4. approval'[q] = "executed"
        BY <1>a, <3>1, <4>1
      <4>5. Tells(workflow', approval', NoRow)
        BY <3>1, <4>1, <4>3, <4>4, AllTell DEF Told
      <4> QED
        BY <1>b, <1>e, <3>1, <4>3, <4>5
    <3>3. CASE call[h].at = "settle"
      <4>1. Tells(workflow, approval, NoRow) /\ Awaits(workflow, approval) /\ q \in Actions
        BY <1>o, <2>o, <3>3 DEF q
      <4>2. RowsClose(NoRow)
        BY <2>a, <3>1, <4>1
      <4>3. Tells(workflow', approval', NoRow) /\ Awaits(workflow', approval')
        BY <1>a, <3>1, <4>1, <4>2, StoryKept
      <4> QED
        BY <1>b, <1>e, <3>1, <4>3
    <3> QED
      BY <3>1, <3>2, <3>3
  <2>12. CASE Fail(h)
    <3>1. /\ workflow' = workflow /\ call[h].at = "fail" /\ approval' = [approval EXCEPT ![q] = "failed"]
          /\ Becomes(h, IF call[h].op = "stage" THEN Waiting("revert", "revert", q) ELSE Idle)
      BY <2>12 DEF Fail, At, q
    <3>2. CASE call[h].op = "stage"
      <4>1. /\ Tells(workflow, approval, q) /\ Awaits(workflow, approval) /\ AllAre(workflow, q, "waiting_approval")
            /\ q \in StageRequests
        BY <2>s, <3>1, <3>2 DEF Resolving, q
      <4>2. RowsClose(q)
        BY <1>n, <3>1, <4>1 DEF Open
      <4>3. Tells(workflow', approval', q) /\ Awaits(workflow', approval')
        BY <1>a, <3>1, <4>1, <4>2, StoryKept
      <4>4. approval'[q] = "failed"
        BY <1>a, <3>1, <4>1
      <4>5. Tells(workflow', approval', NoRow)
        BY <3>1, <4>1, <4>3, <4>4, AllTell DEF Told
      <4> QED
        BY <1>b, <1>e, <3>1, <3>2, <4>3, <4>4, <4>5 DEF Holding
    <3>3. CASE call[h].op = "own"
      <4>1. Tells(workflow, approval, NoRow) /\ Awaits(workflow, approval) /\ q \in Actions
        BY <1>o, <2>o, <3>1, <3>3 DEF q
      <4>2. RowsClose(NoRow)
        BY <2>a, <3>1, <4>1
      <4>3. Tells(workflow', approval', NoRow) /\ Awaits(workflow', approval')
        BY <1>a, <3>1, <4>1, <4>2, StoryKept
      <4> QED
        BY <1>b, <1>e, <3>1, <3>3, <4>3
    <3> QED
      BY <1>o, <3>1, <3>2, <3>3
  <2>13. CASE Revert(h)
    <3>1. workflow' = workflow /\ approval' = approval /\ call[h].at = "revert" /\ call[h].op = "revert"
      BY <1>o, <2>13 DEF Revert, At, rowVars
    <3>2. /\ Tells(workflow, approval, NoRow) /\ Awaits(workflow, approval)
          /\ approval[q] \in {"rejected", "failed"}
      BY <2>0, <2>o, <3>1 DEF Story, q
    <3>3. ASSUME NEW i \in Locate(workflow, q), NEW todo,
                 Becomes(h, CallOf("revert", "void", q, Moved(workflow, i, "rejected"), todo, {}))
          PROVE  Story(workflow', approval', call'[h])
      <4>1. i \in DOMAIN workflow.stages /\ workflow.stages[i].req = q
        BY DEF Locate
      <4>2. PICK new : new = Moved(workflow, i, "rejected")
        OBVIOUS
      <4>3. Told("rejected", approval[q]) /\ approval[q] \notin Open
        BY <3>2 DEF Told, Open
      <4>4. Tells(new, approval, NoRow) /\ Awaits(new, approval)
        BY <1>a, <3>2, <4>1, <4>2, <4>3, MovedTells
      <4> QED
        BY <1>b, <1>g, <3>1, <3>2, <3>3, <4>2, <4>4 DEF Holding
    <3>4. CASE Becomes(h, Idle)
      BY <1>b, <1>e, <3>1, <3>2, <3>4
    <3> QED
      BY <2>13, <3>3, <3>4 DEF Revert, q
  <2>14. CASE VoidRejected(h)
    <3>1. workflow' = workflow /\ VoidPending(call[h].todo) /\ call[h].at = "void" /\ call[h].op = "revert"
      BY <2>14 DEF VoidRejected, At
    <3>2. RowsClose(NoRow)
      BY <1>k, <3>1
    <3>3. /\ Tells(workflow', approval', NoRow) /\ Awaits(workflow', approval')
          /\ Tells(copy, approval', NoRow) /\ Awaits(copy, approval')
      BY <1>a, <2>o, <3>1, <3>2, StoryKept DEF Holding, copy
    <3>4. approval'[q] \in {"rejected", "failed"}
      <4>1. approval[q] \in {"rejected", "failed"} /\ q \in Rows
        BY <1>a, <1>o, <2>0, <3>1 DEF Story, q
      <4> QED
        BY <3>1, <4>1 DEF VoidPending
    <3>5. PICK i \in Locate(copy, q) :
            LET back == StageToStatus[copy.stages[i].type] IN
            Becomes(h, IF WorkflowMoves(copy.status, back)
                       THEN CallOf("revert", "save", q, Doc(back, copy.stages), {}, {})
                       ELSE Idle)
      BY <2>14 DEF VoidRejected, q, copy
    <3>6. PICK back : back = StageToStatus[copy.stages[i].type]
      OBVIOUS
    <3>7. CASE WorkflowMoves(copy.status, back)
      <4>1. PICK new : new = Doc(back, copy.stages)
        OBVIOUS
      <4>2. back \notin TerminalStatuses => copy.status \notin TerminalStatuses
        BY <3>7, MovesWithin
      <4>3. Tells(new, approval', NoRow) /\ Awaits(new, approval')
        BY <3>3, <4>1, <4>2, StatusTells
      <4>4. Becomes(h, CallOf("revert", "save", q, new, {}, {}))
        BY <3>5, <3>6, <3>7, <4>1
      <4> QED
        BY <1>b, <1>g, <3>3, <3>4, <4>3, <4>4 DEF Holding
    <3>8. CASE ~WorkflowMoves(copy.status, back)
      BY <1>b, <1>e, <3>3, <3>5, <3>6, <3>8
    <3> QED
      BY <3>7, <3>8
  <2>9. \A a \in Actions : RunBound(h, a) => Story(workflow', approval', call'[h])
    BY <2>6
  <2>15. \A a \in Actions : RecordBound(h, a) => Story(workflow', approval', call'[h])
    BY <2>6
  <2> QED
    BY <1>2, <2>1, <2>2, <2>3, <2>4, <2>5, <2>9, <2>15, <2>7, <2>8, <2>10, <2>11, <2>12, <2>13,
       <2>14 DEF Continue
<1>q. ASSUME RowsClose(NoRow), UNCHANGED <<workflow, call, restarts>> PROVE Story(workflow', approval', call'[h])
  <2>1. RowsClose(Exempt(call[h]))
    BY <1>a, <1>q DEF RowsClose
  <2>2. Story(workflow, approval, call[h])
    BY <1>c, <1>q
  <2>3. /\ Tells(workflow', approval', Exempt(call'[h]))
        /\ call'[h].at # "save" => Awaits(workflow', approval')
        /\ call'[h].at \in Holding => Tells(call'[h].copy, approval', Exempt(call'[h])) /\ Awaits(call'[h].copy, approval')
    BY <1>a, <1>q, <2>1, <2>2, StoryKept DEF Story
  <2>4. call[h].op = "revert" => approval'[call[h].row] \in {"rejected", "failed"}
    <3>1. SUFFICES ASSUME call[h].op = "revert" PROVE approval'[call[h].row] \in {"rejected", "failed"}
      OBVIOUS
    <3>2. approval[call[h].row] \in {"rejected", "failed"} /\ call[h].row \in StageRequests
      BY <1>o, <2>2, <3>1 DEF Story
    <3> QED
      BY <1>a, <1>q, <3>2 DEF RowsClose, Open
  <2> QED
    BY <1>q, <2>2, <2>3, <2>4 DEF Story
<1>3. ASSUME NEW a \in Actions, NEW i \in 0..MaxStages, CreateAction(a, i) PROVE Story(workflow', approval', call'[h])
  <2>1. RowsClose(NoRow)
    BY <1>a, <1>3 DEF CreateAction, RowsClose
  <2> QED
    BY <1>q, <1>3, <2>1 DEF CreateAction
<1>4. ASSUME NEW r \in Rows, TtlElapses(r) PROVE Story(workflow', approval', call'[h])
  BY <1>i, <1>q, <1>4 DEF TtlElapses
<1>5. ASSUME NEW r \in Rows, Reconfirm(r) PROVE Story(workflow', approval', call'[h])
  <2>1. approval[r] = "recovered"
    BY <1>a, <1>5 DEF Reconfirm, ExpireDue
  <2>2. \A s \in Rows : approval'[s] = IF s = r THEN "reconfirmed" ELSE ExpireDue[s]
    BY <1>a, <1>5 DEF Reconfirm
  <2>3. \A s \in Rows : (ExpireDue[s] = "expired" /\ approval[s] \in Open) \/ ExpireDue[s] = approval[s]
    BY DEF ExpireDue
  <2>4. RowsClose(NoRow)
    BY <1>a, <2>1, <2>2, <2>3 DEF RowsClose, Open
  <2> QED
    BY <1>q, <1>5, <2>4 DEF Reconfirm
<1>6. CASE Sweep
  BY <1>j, <1>q, <1>6 DEF Sweep
<1>7. ~Crash
  BY BoundsAssumption DEF Crash, TypeOK
<1>8. CASE UNCHANGED vars
  BY <1>i, <1>q, <1>8 DEF vars
<1> QED
  BY <1>1, <1>2, <1>3, <1>4, <1>5, <1>6, <1>7, <1>8 DEF Next

(* With one thread, and until a crash cuts a call off between the row and  *)
(* the document, stages and requests match whenever no call is under way:  *)
(* a stage is approved exactly if its request is executed, and a request   *)
(* in the queue has a stage that waits for its answer.                     *)
THEOREM StagesMatch == ASSUME OneThread PROVE Spec => []StagesMatchRequests
<1>1. PICK h : Handlers = {h}
  BY DEF OneThread
<1>2. Init => (restarts = 0 => Story(workflow, approval, call[h]))
  <2> SUFFICES ASSUME Init PROVE Story(workflow, approval, call[h])
    OBVIOUS
  <2>1. call[h] = Idle /\ DOMAIN workflow.stages = {} /\ \A q \in StageRequests : approval[q] = "absent"
    BY <1>1 DEF Init, NewWorkflow, Doc, Rows
  <2>2. Idle.op = "none" /\ Idle.at = "idle"
    BY DEF Idle, Waiting, CallOf
  <2> QED
    BY <2>1, <2>2 DEF Story, Tells, Awaits, Holding, Open
<1>3. TypeOK /\ RunInv /\ SoundInv /\ (restarts = 0 => Story(workflow, approval, call[h])) /\ [Next]_vars
        => (restarts = 0 => Story(workflow, approval, call[h]))'
  BY <1>1, StoryStep
<1>4. TypeOK /\ (restarts = 0 => Story(workflow, approval, call[h])) => StagesMatchRequests
  <2> SUFFICES ASSUME TypeOK, restarts = 0 => Story(workflow, approval, call[h]) PROVE StagesMatchRequests
    OBVIOUS
  <2>1. Quiet => call[h] = Idle
    BY <1>1 DEF Quiet, TypeOK
  <2>2. Idle.op = "none" /\ Idle.at = "idle"
    BY DEF Idle, Waiting, CallOf
  <2>3. Quiet /\ restarts = 0 => Tells(workflow, approval, NoRow) /\ Awaits(workflow, approval)
    BY <2>1, <2>2 DEF Story, Exempt
  <2>4. RowAgreesWithStage
    BY <2>3 DEF RowAgreesWithStage, Tells, Told
  <2>5. QueuedRequestIsAwaited
    BY <2>3 DEF QueuedRequestIsAwaited, Awaits
  <2> QED
    BY <2>4, <2>5 DEF StagesMatchRequests
<1> QED
  BY <1>2, <1>3, <1>4, RequestsHold, DocumentsAreSound, PTL DEF Spec
=============================================================================
