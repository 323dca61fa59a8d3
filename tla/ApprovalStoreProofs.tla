------------------------- MODULE ApprovalStoreProofs -------------------------
(***************************************************************************)
(* Theorems about ApprovalStore, for every set of requests and threads and *)
(* every number of restarts.  Each safety property of the module gets a    *)
(* strengthening that is inductive relative to TypeOK: what the property   *)
(* says of a thread that is about to run an action, the strengthening says *)
(* of the row and of every copy from which such a thread can come.         *)
(***************************************************************************)
EXTENDS ApprovalStore, TLAPS

-----------------------------------------------------------------------------
(* Type correctness: the variables keep their types through every step,    *)
(* and a thread holds a request and a copy only while it serves a call.    *)

(* Rows, copies and calls keep their types, for any threads and requests.  *)
THEOREM TypeCorrect == Spec => []TypeOK
  <1> USE RestartsAssumption
  <1>1. Init => TypeOK
    BY DEF Init, TypeOK, At, Idle, CallOf, Calls, Ops, Points, Status, Open, Terminal
  <1>2. TypeOK /\ [Next]_vars => TypeOK'
    <2> SUFFICES ASSUME TypeOK, [Next]_vars
                 PROVE  TypeOK'
      OBVIOUS
    <2> USE DEF TypeOK, At, Calls, CallOf, Idle, Ops, Points,
                Status, Open, Terminal,
                storeVars, historyVars
    <2>1. ASSUME NEW r \in Requests, Create(r)
          PROVE  TypeOK'
      BY <2>1 DEF Create
    <2>2. ASSUME NEW r \in Requests, TtlElapses(r)
          PROVE  TypeOK'
      BY <2>2 DEF TtlElapses
    <2>3. ASSUME NEW h \in Handlers, ListPending(h)
          PROVE  TypeOK'
      BY <2>3 DEF ListPending, ExpireDue
    <2>4. ASSUME NEW h \in Handlers, NEW r \in Requests, BeginApprove(h, r)
          PROVE  TypeOK'
      BY <2>4 DEF BeginApprove, BeginExpiring, ExpireDue, Serving
    <2>5. ASSUME NEW h \in Handlers, NEW r \in Requests, BeginReconfirm(h, r)
          PROVE  TypeOK'
      BY <2>5 DEF BeginReconfirm, BeginExpiring, ExpireDue, Serving
    <2>6. ASSUME NEW h \in Handlers, NEW r \in Requests, BeginReject(h, r)
          PROVE  TypeOK'
      BY <2>6 DEF BeginReject, BeginReading, Serving
    <2>7. ASSUME NEW h \in Handlers, NEW r \in Requests, BeginAttach(h, r)
          PROVE  TypeOK'
      BY <2>7 DEF BeginAttach, BeginReading, Serving
    <2>8. ASSUME NEW h \in Handlers, NEW r \in Requests, BeginVoid(h, r)
          PROVE  TypeOK'
      BY <2>8 DEF BeginVoid, Serving
    <2>9. ASSUME NEW h \in Handlers, Get(h)
          PROVE  TypeOK'
      BY <2>9 DEF Get, ReadTo
    <2>10. ASSUME NEW h \in Handlers, GetExecuted(h)
          PROVE  TypeOK'
      BY <2>10 DEF GetExecuted, ReadTo
    <2>11. ASSUME NEW h \in Handlers, GetFailed(h)
          PROVE  TypeOK'
      BY <2>11 DEF GetFailed, ReadTo
    <2>12. ASSUME NEW h \in Handlers, WriteApproved(h)
          PROVE  TypeOK'
      BY <2>12 DEF WriteApproved, Write
    <2>13. ASSUME NEW h \in Handlers, WriteReconfirmed(h)
          PROVE  TypeOK'
      BY <2>13 DEF WriteReconfirmed, Write, Finish
    <2>14. ASSUME NEW h \in Handlers, WriteRejected(h)
          PROVE  TypeOK'
      BY <2>14 DEF WriteRejected, Write, Finish
    <2>15. ASSUME NEW h \in Handlers, WriteBinding(h)
          PROVE  TypeOK'
      BY <2>15 DEF WriteBinding, Write, Finish
    <2>16. ASSUME NEW h \in Handlers, Refuse(h)
          PROVE  TypeOK'
      BY <2>16 DEF Refuse, Finish
    <2>17. ASSUME NEW h \in Handlers, RunSucceeds(h)
          PROVE  TypeOK'
      BY <2>17 DEF RunSucceeds, Run, CountRun
    <2>18. ASSUME NEW h \in Handlers, RunFails(h)
          PROVE  TypeOK'
      BY <2>18 DEF RunFails, Run, CountRun
    <2>19. ASSUME NEW h \in Handlers, RunBreaks(h)
          PROVE  TypeOK'
      BY <2>19 DEF RunBreaks, CountRun, Finish
    <2>20. ASSUME NEW h \in Handlers, WriteExecuted(h)
          PROVE  TypeOK'
      BY <2>20 DEF WriteExecuted, Write, Finish
    <2>21. ASSUME NEW h \in Handlers, WriteFailed(h)
          PROVE  TypeOK'
      BY <2>21 DEF WriteFailed, Write, Finish
    <2>22. ASSUME NEW h \in Handlers, RefuseOutcome(h)
          PROVE  TypeOK'
      BY <2>22 DEF RefuseOutcome, Finish
    <2>23. CASE Crash
      BY <2>23 DEF Crash
    <2>24. CASE StartupExpire
      BY <2>24 DEF StartupExpire, ExpireDue
    <2>25. ASSUME NEW r \in Requests, RecoverRow(r)
          PROVE  TypeOK'
      BY <2>25 DEF RecoverRow
    <2>26. CASE StartupDone
      BY <2>26 DEF StartupDone, ExpireDue
    <2>27. CASE UNCHANGED vars
      BY <2>27 DEF vars, At, Settled
    <2>28. QED
      BY <2>1, <2>2, <2>3, <2>4, <2>5, <2>6, <2>7, <2>8, <2>9, <2>10, <2>11, <2>12,
         <2>13, <2>14, <2>15, <2>16, <2>17, <2>18, <2>19, <2>20, <2>21, <2>22, <2>23,
         <2>24, <2>25, <2>26, <2>27
      DEF Next, Begin, Continue, Startup
  <1>3. QED
    BY <1>1, <1>2, PTL DEF Spec

-----------------------------------------------------------------------------
(* A recovered request lies dormant: neither its row nor any copy of it    *)
(* has a status that can be approved, and no thread is past the approval.  *)

Dormant == {"recovered", "expired", "rejected", "failed"}

AwaitingInv ==
  \A r \in awaiting :
    /\ status[r] \in Dormant
    /\ \A h \in Handlers : call[h].req = r =>
         /\ call[h].at \notin {"run", "get_executed", "write_executed"}
         /\ call[h].at \in {"write", "write_failed"} => call[h].seen \in Dormant

(* A request that a startup recovered is not run before it is reconfirmed, *)
(* for any number of threads and restarts.                                 *)
THEOREM RecoveredIsNotRun == Spec => []RecoveredNeedsReconfirmation
  <1>1. Init => AwaitingInv
    BY DEF Init, AwaitingInv
  <1>2. TypeOK /\ AwaitingInv /\ [Next]_vars => AwaitingInv'
    <2> SUFFICES ASSUME TypeOK, AwaitingInv, [Next]_vars
                 PROVE  AwaitingInv'
      OBVIOUS
    <2> USE DEF AwaitingInv, Dormant, Approvable, TypeOK, At, Calls, CallOf, Idle, Ops, Points,
                Status, Open, Terminal,
                storeVars, historyVars
    <2>1. ASSUME NEW r \in Requests, Create(r)
          PROVE  AwaitingInv'
      BY <2>1 DEF Create
    <2>2. ASSUME NEW r \in Requests, TtlElapses(r)
          PROVE  AwaitingInv'
      BY <2>2 DEF TtlElapses
    <2>3. ASSUME NEW h \in Handlers, ListPending(h)
          PROVE  AwaitingInv'
      BY <2>3 DEF ListPending, ExpireDue
    <2>4. ASSUME NEW h \in Handlers, NEW r \in Requests, BeginApprove(h, r)
          PROVE  AwaitingInv'
      BY <2>4 DEF BeginApprove, BeginExpiring, ExpireDue, Serving
    <2>5. ASSUME NEW h \in Handlers, NEW r \in Requests, BeginReconfirm(h, r)
          PROVE  AwaitingInv'
      BY <2>5 DEF BeginReconfirm, BeginExpiring, ExpireDue, Serving
    <2>6. ASSUME NEW h \in Handlers, NEW r \in Requests, BeginReject(h, r)
          PROVE  AwaitingInv'
      BY <2>6 DEF BeginReject, BeginReading, Serving
    <2>7. ASSUME NEW h \in Handlers, NEW r \in Requests, BeginAttach(h, r)
          PROVE  AwaitingInv'
      BY <2>7 DEF BeginAttach, BeginReading, Serving
    <2>8. ASSUME NEW h \in Handlers, NEW r \in Requests, BeginVoid(h, r)
          PROVE  AwaitingInv'
      BY <2>8 DEF BeginVoid, Serving
    <2>9. ASSUME NEW h \in Handlers, Get(h)
          PROVE  AwaitingInv'
      BY <2>9 DEF Get, ReadTo
    <2>10. ASSUME NEW h \in Handlers, GetExecuted(h)
          PROVE  AwaitingInv'
      BY <2>10 DEF GetExecuted, ReadTo
    <2>11. ASSUME NEW h \in Handlers, GetFailed(h)
          PROVE  AwaitingInv'
      BY <2>11 DEF GetFailed, ReadTo
    <2>12. ASSUME NEW h \in Handlers, WriteApproved(h)
          PROVE  AwaitingInv'
      BY <2>12 DEF WriteApproved, Write
    <2>13. ASSUME NEW h \in Handlers, WriteReconfirmed(h)
          PROVE  AwaitingInv'
      BY <2>13 DEF WriteReconfirmed, Write, Finish
    <2>14. ASSUME NEW h \in Handlers, WriteRejected(h)
          PROVE  AwaitingInv'
      BY <2>14 DEF WriteRejected, Write, Finish
    <2>15. ASSUME NEW h \in Handlers, WriteBinding(h)
          PROVE  AwaitingInv'
      BY <2>15 DEF WriteBinding, Write, Finish
    <2>16. ASSUME NEW h \in Handlers, Refuse(h)
          PROVE  AwaitingInv'
      BY <2>16 DEF Refuse, Finish
    <2>17. ASSUME NEW h \in Handlers, RunSucceeds(h)
          PROVE  AwaitingInv'
      BY <2>17 DEF RunSucceeds, Run, CountRun
    <2>18. ASSUME NEW h \in Handlers, RunFails(h)
          PROVE  AwaitingInv'
      BY <2>18 DEF RunFails, Run, CountRun
    <2>19. ASSUME NEW h \in Handlers, RunBreaks(h)
          PROVE  AwaitingInv'
      BY <2>19 DEF RunBreaks, CountRun, Finish
    <2>20. ASSUME NEW h \in Handlers, WriteExecuted(h)
          PROVE  AwaitingInv'
      BY <2>20 DEF WriteExecuted, Write, Finish
    <2>21. ASSUME NEW h \in Handlers, WriteFailed(h)
          PROVE  AwaitingInv'
      BY <2>21 DEF WriteFailed, Write, Finish
    <2>22. ASSUME NEW h \in Handlers, RefuseOutcome(h)
          PROVE  AwaitingInv'
      BY <2>22 DEF RefuseOutcome, Finish
    <2>23. CASE Crash
      BY <2>23 DEF Crash
    <2>24. CASE StartupExpire
      BY <2>24 DEF StartupExpire, ExpireDue
    <2>25. ASSUME NEW r \in Requests, RecoverRow(r)
          PROVE  AwaitingInv'
      BY <2>25 DEF RecoverRow
    <2>26. CASE StartupDone
      BY <2>26 DEF StartupDone, ExpireDue
    <2>27. CASE UNCHANGED vars
      BY <2>27 DEF vars, At, Settled
    <2>28. QED
      BY <2>1, <2>2, <2>3, <2>4, <2>5, <2>6, <2>7, <2>8, <2>9, <2>10, <2>11, <2>12,
         <2>13, <2>14, <2>15, <2>16, <2>17, <2>18, <2>19, <2>20, <2>21, <2>22, <2>23,
         <2>24, <2>25, <2>26, <2>27
      DEF Next, Begin, Continue, Startup
  <1>3. TypeOK /\ AwaitingInv => RecoveredNeedsReconfirmation
    BY DEF AwaitingInv, RecoveredNeedsReconfirmation, At, TypeOK
  <1>4. QED
    BY <1>1, <1>2, <1>3, TypeCorrect, PTL DEF Spec

-----------------------------------------------------------------------------
(* After an approval that came too late swept the queue, the row is closed *)
(* and stays closed, so the approval's own copy is refused: only a write   *)
(* from an out-of-date copy can open the row again.                        *)

LateInv ==
  \A h \in Handlers :
    call[h].late /\ call[h].req \notin stale =>
      /\ status[call[h].req] \notin Open \cup {"absent"}
      /\ call[h].at # "run"
      /\ call[h].at = "write" => call[h].seen \notin Open

(* A request past its time to live is not run, unless its row was rewritten*)
(* from an out-of-date copy.                                               *)
THEOREM LateApprovalIsNotRun == Spec => []LateApprovalNeverRuns
  <1>1. Init => LateInv
    BY DEF Init, LateInv, Idle, CallOf
  <1>2. TypeOK /\ LateInv /\ [Next]_vars => LateInv'
    <2> SUFFICES ASSUME TypeOK, LateInv, [Next]_vars
                 PROVE  LateInv'
      OBVIOUS
    <2> USE DEF LateInv, Approvable, TypeOK, At, Calls, CallOf, Idle, Ops, Points,
                Status, Open, Terminal,
                storeVars, historyVars
    <2>1. ASSUME NEW r \in Requests, Create(r)
          PROVE  LateInv'
      BY <2>1 DEF Create
    <2>2. ASSUME NEW r \in Requests, TtlElapses(r)
          PROVE  LateInv'
      BY <2>2 DEF TtlElapses
    <2>3. ASSUME NEW h \in Handlers, ListPending(h)
          PROVE  LateInv'
      BY <2>3 DEF ListPending, ExpireDue
    <2>4. ASSUME NEW h \in Handlers, NEW r \in Requests, BeginApprove(h, r)
          PROVE  LateInv'
      BY <2>4 DEF BeginApprove, BeginExpiring, ExpireDue, Serving
    <2>5. ASSUME NEW h \in Handlers, NEW r \in Requests, BeginReconfirm(h, r)
          PROVE  LateInv'
      BY <2>5 DEF BeginReconfirm, BeginExpiring, ExpireDue, Serving
    <2>6. ASSUME NEW h \in Handlers, NEW r \in Requests, BeginReject(h, r)
          PROVE  LateInv'
      BY <2>6 DEF BeginReject, BeginReading, Serving
    <2>7. ASSUME NEW h \in Handlers, NEW r \in Requests, BeginAttach(h, r)
          PROVE  LateInv'
      BY <2>7 DEF BeginAttach, BeginReading, Serving
    <2>8. ASSUME NEW h \in Handlers, NEW r \in Requests, BeginVoid(h, r)
          PROVE  LateInv'
      BY <2>8 DEF BeginVoid, Serving
    <2>9. ASSUME NEW h \in Handlers, Get(h)
          PROVE  LateInv'
      BY <2>9 DEF Get, ReadTo
    <2>10. ASSUME NEW h \in Handlers, GetExecuted(h)
          PROVE  LateInv'
      BY <2>10 DEF GetExecuted, ReadTo
    <2>11. ASSUME NEW h \in Handlers, GetFailed(h)
          PROVE  LateInv'
      BY <2>11 DEF GetFailed, ReadTo
    <2>12. ASSUME NEW h \in Handlers, WriteApproved(h)
          PROVE  LateInv'
      BY <2>12 DEF WriteApproved, Write
    <2>13. ASSUME NEW h \in Handlers, WriteReconfirmed(h)
          PROVE  LateInv'
      BY <2>13 DEF WriteReconfirmed, Write, Finish
    <2>14. ASSUME NEW h \in Handlers, WriteRejected(h)
          PROVE  LateInv'
      BY <2>14 DEF WriteRejected, Write, Finish
    <2>15. ASSUME NEW h \in Handlers, WriteBinding(h)
          PROVE  LateInv'
      BY <2>15 DEF WriteBinding, Write, Finish
    <2>16. ASSUME NEW h \in Handlers, Refuse(h)
          PROVE  LateInv'
      BY <2>16 DEF Refuse, Finish
    <2>17. ASSUME NEW h \in Handlers, RunSucceeds(h)
          PROVE  LateInv'
      BY <2>17 DEF RunSucceeds, Run, CountRun
    <2>18. ASSUME NEW h \in Handlers, RunFails(h)
          PROVE  LateInv'
      BY <2>18 DEF RunFails, Run, CountRun
    <2>19. ASSUME NEW h \in Handlers, RunBreaks(h)
          PROVE  LateInv'
      BY <2>19 DEF RunBreaks, CountRun, Finish
    <2>20. ASSUME NEW h \in Handlers, WriteExecuted(h)
          PROVE  LateInv'
      BY <2>20 DEF WriteExecuted, Write, Finish
    <2>21. ASSUME NEW h \in Handlers, WriteFailed(h)
          PROVE  LateInv'
      BY <2>21 DEF WriteFailed, Write, Finish
    <2>22. ASSUME NEW h \in Handlers, RefuseOutcome(h)
          PROVE  LateInv'
      BY <2>22 DEF RefuseOutcome, Finish
    <2>23. CASE Crash
      BY <2>23 DEF Crash
    <2>24. CASE StartupExpire
      BY <2>24 DEF StartupExpire, ExpireDue
    <2>25. ASSUME NEW r \in Requests, RecoverRow(r)
          PROVE  LateInv'
      BY <2>25 DEF RecoverRow
    <2>26. CASE StartupDone
      BY <2>26 DEF StartupDone, ExpireDue
    <2>27. CASE UNCHANGED vars
      BY <2>27 DEF vars, At, Settled
    <2>28. QED
      BY <2>1, <2>2, <2>3, <2>4, <2>5, <2>6, <2>7, <2>8, <2>9, <2>10, <2>11, <2>12,
         <2>13, <2>14, <2>15, <2>16, <2>17, <2>18, <2>19, <2>20, <2>21, <2>22, <2>23,
         <2>24, <2>25, <2>26, <2>27
      DEF Next, Begin, Continue, Startup
  <1>3. TypeOK /\ LateInv => LateApprovalNeverRuns
    BY DEF LateInv, LateApprovalNeverRuns, At
  <1>4. QED
    BY <1>1, <1>2, <1>3, TypeCorrect, PTL DEF Spec

-----------------------------------------------------------------------------
(* A row that was never rewritten from an out-of-date copy is run by one   *)
(* thread at most, which finds it not run; while the row can be approved   *)
(* (or is open, so that it may become approvable) it has not been run.     *)

Running(h, r) == call[h].req = r /\ call[h].at = "run"

OnceInv ==
  \A r \in Requests \ stale :
    /\ ran[r] # 2
    /\ status[r] \in Open \cup {"absent"} =>
         ran[r] = 0 /\ \A h \in Handlers : ~Running(h, r)
    /\ \A h \in Handlers : Running(h, r) => ran[r] = 0
    /\ \A g, h \in Handlers : Running(g, r) /\ Running(h, r) => g = h

(* Whatever the number of threads, an action is run twice only for a       *)
(* request whose row was rewritten from an out-of-date copy.               *)
THEOREM RunAtMostOnce == Spec => []AtMostOnceUnlessStale
  <1>1. Init => OnceInv
    BY DEF Init, OnceInv, Running, Idle, CallOf
  <1>2. TypeOK /\ OnceInv /\ [Next]_vars => OnceInv'
    <2> SUFFICES ASSUME TypeOK, OnceInv, [Next]_vars
                 PROVE  OnceInv'
      OBVIOUS
    <2> USE DEF OnceInv, Running, Approvable, TypeOK, At, Calls, CallOf, Idle, Ops, Points,
                Status, Open, Terminal,
                storeVars, historyVars
    <2>1. ASSUME NEW r \in Requests, Create(r)
          PROVE  OnceInv'
      BY <2>1 DEF Create
    <2>2. ASSUME NEW r \in Requests, TtlElapses(r)
          PROVE  OnceInv'
      BY <2>2 DEF TtlElapses
    <2>3. ASSUME NEW h \in Handlers, ListPending(h)
          PROVE  OnceInv'
      BY <2>3 DEF ListPending, ExpireDue
    <2>4. ASSUME NEW h \in Handlers, NEW r \in Requests, BeginApprove(h, r)
          PROVE  OnceInv'
      BY <2>4 DEF BeginApprove, BeginExpiring, ExpireDue, Serving
    <2>5. ASSUME NEW h \in Handlers, NEW r \in Requests, BeginReconfirm(h, r)
          PROVE  OnceInv'
      BY <2>5 DEF BeginReconfirm, BeginExpiring, ExpireDue, Serving
    <2>6. ASSUME NEW h \in Handlers, NEW r \in Requests, BeginReject(h, r)
          PROVE  OnceInv'
      BY <2>6 DEF BeginReject, BeginReading, Serving
    <2>7. ASSUME NEW h \in Handlers, NEW r \in Requests, BeginAttach(h, r)
          PROVE  OnceInv'
      BY <2>7 DEF BeginAttach, BeginReading, Serving
    <2>8. ASSUME NEW h \in Handlers, NEW r \in Requests, BeginVoid(h, r)
          PROVE  OnceInv'
      BY <2>8 DEF BeginVoid, Serving
    <2>9. ASSUME NEW h \in Handlers, Get(h)
          PROVE  OnceInv'
      BY <2>9 DEF Get, ReadTo
    <2>10. ASSUME NEW h \in Handlers, GetExecuted(h)
          PROVE  OnceInv'
      BY <2>10 DEF GetExecuted, ReadTo
    <2>11. ASSUME NEW h \in Handlers, GetFailed(h)
          PROVE  OnceInv'
      BY <2>11 DEF GetFailed, ReadTo
    <2>12. ASSUME NEW h \in Handlers, WriteApproved(h)
          PROVE  OnceInv'
      BY <2>12 DEF WriteApproved, Write
    <2>13. ASSUME NEW h \in Handlers, WriteReconfirmed(h)
          PROVE  OnceInv'
      BY <2>13 DEF WriteReconfirmed, Write, Finish
    <2>14. ASSUME NEW h \in Handlers, WriteRejected(h)
          PROVE  OnceInv'
      BY <2>14 DEF WriteRejected, Write, Finish
    <2>15. ASSUME NEW h \in Handlers, WriteBinding(h)
          PROVE  OnceInv'
      BY <2>15 DEF WriteBinding, Write, Finish
    <2>16. ASSUME NEW h \in Handlers, Refuse(h)
          PROVE  OnceInv'
      BY <2>16 DEF Refuse, Finish
    <2>17. ASSUME NEW h \in Handlers, RunSucceeds(h)
          PROVE  OnceInv'
      BY <2>17 DEF RunSucceeds, Run, CountRun
    <2>18. ASSUME NEW h \in Handlers, RunFails(h)
          PROVE  OnceInv'
      BY <2>18 DEF RunFails, Run, CountRun
    <2>19. ASSUME NEW h \in Handlers, RunBreaks(h)
          PROVE  OnceInv'
      BY <2>19 DEF RunBreaks, CountRun, Finish
    <2>20. ASSUME NEW h \in Handlers, WriteExecuted(h)
          PROVE  OnceInv'
      BY <2>20 DEF WriteExecuted, Write, Finish
    <2>21. ASSUME NEW h \in Handlers, WriteFailed(h)
          PROVE  OnceInv'
      BY <2>21 DEF WriteFailed, Write, Finish
    <2>22. ASSUME NEW h \in Handlers, RefuseOutcome(h)
          PROVE  OnceInv'
      BY <2>22 DEF RefuseOutcome, Finish
    <2>23. CASE Crash
      BY <2>23 DEF Crash
    <2>24. CASE StartupExpire
      BY <2>24 DEF StartupExpire, ExpireDue
    <2>25. ASSUME NEW r \in Requests, RecoverRow(r)
          PROVE  OnceInv'
      BY <2>25 DEF RecoverRow
    <2>26. CASE StartupDone
      BY <2>26 DEF StartupDone, ExpireDue
    <2>27. CASE UNCHANGED vars
      BY <2>27 DEF vars, At, Settled
    <2>28. QED
      BY <2>1, <2>2, <2>3, <2>4, <2>5, <2>6, <2>7, <2>8, <2>9, <2>10, <2>11, <2>12,
         <2>13, <2>14, <2>15, <2>16, <2>17, <2>18, <2>19, <2>20, <2>21, <2>22, <2>23,
         <2>24, <2>25, <2>26, <2>27
      DEF Next, Begin, Continue, Startup
  <1>3. TypeOK /\ OnceInv => AtMostOnceUnlessStale
    BY DEF OnceInv, AtMostOnceUnlessStale
  <1>4. QED
    BY <1>1, <1>2, <1>3, TypeCorrect, PTL DEF Spec

-----------------------------------------------------------------------------
(* Wherever "executed" is written or copied to, and wherever a thread is   *)
(* about to write it, the action has been run.                             *)

RanInv ==
  /\ \A r \in Requests : status[r] = "executed" => ran[r] # 0
  /\ \A h \in Handlers :
       call[h].seen = "executed" \/ call[h].at \in {"get_executed", "write_executed"}
         => ran[call[h].req] # 0

(* An "executed" row stands for an action that was run, crashes and        *)
(* out-of-date copies included.                                            *)
THEOREM ExecutedWasRun == Spec => []ExecutedHasRun
  <1>1. Init => RanInv
    BY DEF Init, RanInv, Idle, CallOf
  <1>2. TypeOK /\ RanInv /\ [Next]_vars => RanInv'
    <2> SUFFICES ASSUME TypeOK, RanInv, [Next]_vars
                 PROVE  RanInv'
      OBVIOUS
    <2> USE DEF RanInv, TypeOK, At, Calls, CallOf, Idle, Ops, Points,
                Status, Open, Terminal,
                storeVars, historyVars
    <2>1. ASSUME NEW r \in Requests, Create(r)
          PROVE  RanInv'
      BY <2>1 DEF Create
    <2>2. ASSUME NEW r \in Requests, TtlElapses(r)
          PROVE  RanInv'
      BY <2>2 DEF TtlElapses
    <2>3. ASSUME NEW h \in Handlers, ListPending(h)
          PROVE  RanInv'
      BY <2>3 DEF ListPending, ExpireDue
    <2>4. ASSUME NEW h \in Handlers, NEW r \in Requests, BeginApprove(h, r)
          PROVE  RanInv'
      BY <2>4 DEF BeginApprove, BeginExpiring, ExpireDue, Serving
    <2>5. ASSUME NEW h \in Handlers, NEW r \in Requests, BeginReconfirm(h, r)
          PROVE  RanInv'
      BY <2>5 DEF BeginReconfirm, BeginExpiring, ExpireDue, Serving
    <2>6. ASSUME NEW h \in Handlers, NEW r \in Requests, BeginReject(h, r)
          PROVE  RanInv'
      BY <2>6 DEF BeginReject, BeginReading, Serving
    <2>7. ASSUME NEW h \in Handlers, NEW r \in Requests, BeginAttach(h, r)
          PROVE  RanInv'
      BY <2>7 DEF BeginAttach, BeginReading, Serving
    <2>8. ASSUME NEW h \in Handlers, NEW r \in Requests, BeginVoid(h, r)
          PROVE  RanInv'
      BY <2>8 DEF BeginVoid, Serving
    <2>9. ASSUME NEW h \in Handlers, Get(h)
          PROVE  RanInv'
      BY <2>9 DEF Get, ReadTo
    <2>10. ASSUME NEW h \in Handlers, GetExecuted(h)
          PROVE  RanInv'
      BY <2>10 DEF GetExecuted, ReadTo
    <2>11. ASSUME NEW h \in Handlers, GetFailed(h)
          PROVE  RanInv'
      BY <2>11 DEF GetFailed, ReadTo
    <2>12. ASSUME NEW h \in Handlers, WriteApproved(h)
          PROVE  RanInv'
      BY <2>12 DEF WriteApproved, Write
    <2>13. ASSUME NEW h \in Handlers, WriteReconfirmed(h)
          PROVE  RanInv'
      BY <2>13 DEF WriteReconfirmed, Write, Finish
    <2>14. ASSUME NEW h \in Handlers, WriteRejected(h)
          PROVE  RanInv'
      BY <2>14 DEF WriteRejected, Write, Finish
    <2>15. ASSUME NEW h \in Handlers, WriteBinding(h)
          PROVE  RanInv'
      BY <2>15 DEF WriteBinding, Write, Finish
    <2>16. ASSUME NEW h \in Handlers, Refuse(h)
          PROVE  RanInv'
      BY <2>16 DEF Refuse, Finish
    <2>17. ASSUME NEW h \in Handlers, RunSucceeds(h)
          PROVE  RanInv'
      BY <2>17 DEF RunSucceeds, Run, CountRun
    <2>18. ASSUME NEW h \in Handlers, RunFails(h)
          PROVE  RanInv'
      BY <2>18 DEF RunFails, Run, CountRun
    <2>19. ASSUME NEW h \in Handlers, RunBreaks(h)
          PROVE  RanInv'
      BY <2>19 DEF RunBreaks, CountRun, Finish
    <2>20. ASSUME NEW h \in Handlers, WriteExecuted(h)
          PROVE  RanInv'
      BY <2>20 DEF WriteExecuted, Write, Finish
    <2>21. ASSUME NEW h \in Handlers, WriteFailed(h)
          PROVE  RanInv'
      BY <2>21 DEF WriteFailed, Write, Finish
    <2>22. ASSUME NEW h \in Handlers, RefuseOutcome(h)
          PROVE  RanInv'
      BY <2>22 DEF RefuseOutcome, Finish
    <2>23. CASE Crash
      BY <2>23 DEF Crash
    <2>24. CASE StartupExpire
      BY <2>24 DEF StartupExpire, ExpireDue
    <2>25. ASSUME NEW r \in Requests, RecoverRow(r)
          PROVE  RanInv'
      BY <2>25 DEF RecoverRow
    <2>26. CASE StartupDone
      BY <2>26 DEF StartupDone, ExpireDue
    <2>27. CASE UNCHANGED vars
      BY <2>27 DEF vars, At, Settled
    <2>28. QED
      BY <2>1, <2>2, <2>3, <2>4, <2>5, <2>6, <2>7, <2>8, <2>9, <2>10, <2>11, <2>12,
         <2>13, <2>14, <2>15, <2>16, <2>17, <2>18, <2>19, <2>20, <2>21, <2>22, <2>23,
         <2>24, <2>25, <2>26, <2>27
      DEF Next, Begin, Continue, Startup
  <1>3. TypeOK /\ RanInv => ExecutedHasRun
    BY DEF RanInv, ExecutedHasRun
  <1>4. QED
    BY <1>1, <1>2, <1>3, TypeCorrect, PTL DEF Spec

-----------------------------------------------------------------------------
(* A settled request changes neither its status nor its being settled: a   *)
(* call that holds a copy writes back the status it saw, and a call that   *)
(* reads later sees that same terminal status.                             *)

Kept(r) == Settled(r)' /\ status'[r] = status[r]

(* A terminal decision is final once no call holds an older copy.          *)
THEOREM SettledIsFinal == Spec => SettledForever
  <1>1. TypeOK /\ [Next]_vars => (\A r \in Requests : Settled(r) => Kept(r))
    <2> SUFFICES ASSUME TypeOK, [Next]_vars, NEW q \in Requests, Settled(q)
                 PROVE  Kept(q)
      OBVIOUS
    <2> USE DEF Kept, Settled, NeverFailed, Approvable, TypeOK, At, Calls, CallOf, Idle, Ops, Points,
                Status, Open, Terminal,
                storeVars, historyVars
    <2>1. ASSUME NEW r \in Requests, Create(r)
          PROVE  Kept(q)
      BY <2>1 DEF Create
    <2>2. ASSUME NEW r \in Requests, TtlElapses(r)
          PROVE  Kept(q)
      BY <2>2 DEF TtlElapses
    <2>3. ASSUME NEW h \in Handlers, ListPending(h)
          PROVE  Kept(q)
      BY <2>3 DEF ListPending, ExpireDue
    <2>4. ASSUME NEW h \in Handlers, NEW r \in Requests, BeginApprove(h, r)
          PROVE  Kept(q)
      BY <2>4 DEF BeginApprove, BeginExpiring, ExpireDue, Serving
    <2>5. ASSUME NEW h \in Handlers, NEW r \in Requests, BeginReconfirm(h, r)
          PROVE  Kept(q)
      BY <2>5 DEF BeginReconfirm, BeginExpiring, ExpireDue, Serving
    <2>6. ASSUME NEW h \in Handlers, NEW r \in Requests, BeginReject(h, r)
          PROVE  Kept(q)
      BY <2>6 DEF BeginReject, BeginReading, Serving
    <2>7. ASSUME NEW h \in Handlers, NEW r \in Requests, BeginAttach(h, r)
          PROVE  Kept(q)
      BY <2>7 DEF BeginAttach, BeginReading, Serving
    <2>8. ASSUME NEW h \in Handlers, NEW r \in Requests, BeginVoid(h, r)
          PROVE  Kept(q)
      BY <2>8 DEF BeginVoid, Serving
    <2>9. ASSUME NEW h \in Handlers, Get(h)
          PROVE  Kept(q)
      BY <2>9 DEF Get, ReadTo
    <2>10. ASSUME NEW h \in Handlers, GetExecuted(h)
          PROVE  Kept(q)
      BY <2>10 DEF GetExecuted, ReadTo
    <2>11. ASSUME NEW h \in Handlers, GetFailed(h)
          PROVE  Kept(q)
      BY <2>11 DEF GetFailed, ReadTo
    <2>12. ASSUME NEW h \in Handlers, WriteApproved(h)
          PROVE  Kept(q)
      BY <2>12 DEF WriteApproved, Write
    <2>13. ASSUME NEW h \in Handlers, WriteReconfirmed(h)
          PROVE  Kept(q)
      BY <2>13 DEF WriteReconfirmed, Write, Finish
    <2>14. ASSUME NEW h \in Handlers, WriteRejected(h)
          PROVE  Kept(q)
      BY <2>14 DEF WriteRejected, Write, Finish
    <2>15. ASSUME NEW h \in Handlers, WriteBinding(h)
          PROVE  Kept(q)
      BY <2>15 DEF WriteBinding, Write, Finish
    <2>16. ASSUME NEW h \in Handlers, Refuse(h)
          PROVE  Kept(q)
      BY <2>16 DEF Refuse, Finish
    <2>17. ASSUME NEW h \in Handlers, RunSucceeds(h)
          PROVE  Kept(q)
      BY <2>17 DEF RunSucceeds, Run, CountRun
    <2>18. ASSUME NEW h \in Handlers, RunFails(h)
          PROVE  Kept(q)
      BY <2>18 DEF RunFails, Run, CountRun
    <2>19. ASSUME NEW h \in Handlers, RunBreaks(h)
          PROVE  Kept(q)
      BY <2>19 DEF RunBreaks, CountRun, Finish
    <2>20. ASSUME NEW h \in Handlers, WriteExecuted(h)
          PROVE  Kept(q)
      BY <2>20 DEF WriteExecuted, Write, Finish
    <2>21. ASSUME NEW h \in Handlers, WriteFailed(h)
          PROVE  Kept(q)
      BY <2>21 DEF WriteFailed, Write, Finish
    <2>22. ASSUME NEW h \in Handlers, RefuseOutcome(h)
          PROVE  Kept(q)
      BY <2>22 DEF RefuseOutcome, Finish
    <2>23. CASE Crash
      BY <2>23 DEF Crash
    <2>24. CASE StartupExpire
      BY <2>24 DEF StartupExpire, ExpireDue
    <2>25. ASSUME NEW r \in Requests, RecoverRow(r)
          PROVE  Kept(q)
      BY <2>25 DEF RecoverRow
    <2>26. CASE StartupDone
      BY <2>26 DEF StartupDone, ExpireDue
    <2>27. CASE UNCHANGED vars
      BY <2>27 DEF vars, At, Settled
    <2>28. QED
      BY <2>1, <2>2, <2>3, <2>4, <2>5, <2>6, <2>7, <2>8, <2>9, <2>10, <2>11, <2>12,
         <2>13, <2>14, <2>15, <2>16, <2>17, <2>18, <2>19, <2>20, <2>21, <2>22, <2>23,
         <2>24, <2>25, <2>26, <2>27
      DEF Next, Begin, Continue, Startup
  <1>2. QED
    BY <1>1, TypeCorrect, PTL DEF Spec, SettledForever, Kept

(* An action is run only on a decision that still holds, whatever restarts,*)
(* lapses of time and copies written back come in between.                 *)
THEOREM RunsNeedADecision == Spec => []RunsWereAllowed
<1>1. RecoveredNeedsReconfirmation /\ LateApprovalNeverRuns /\ AtMostOnceUnlessStale
        => RunsWereAllowed
  BY DEF RunsWereAllowed
<1> QED BY <1>1, RecoveredIsNotRun, LateApprovalIsNotRun, RunAtMostOnce, PTL

(* What the queue's rows say is what happened.                             *)
THEOREM RowsTellTheTruth == Spec => []StatusIsTrue
<1>1. TypeOK /\ ExecutedHasRun => StatusIsTrue
  BY DEF StatusIsTrue
<1> QED BY <1>1, TypeCorrect, ExecutedWasRun, PTL
-----------------------------------------------------------------------------
(* With one call at a time, a thread's copy is what the row holds: nothing *)
(* but a crash, which takes the copy away, comes between get and _write.   *)

OneAtATime == \A g, h \in Handlers : g = h

SerialInv ==
  /\ \A h \in Handlers :
       LET r == call[h].req IN
       /\ call[h].at # "idle" => status[r] # "absent"
       /\ call[h].at \in {"write", "write_executed", "write_failed"} =>
            call[h].seen = status[r] /\ call[h].seenBound = bound[r]
       /\ call[h].at = "run" => status[r] = "approved" /\ ran[r] = 0
       /\ call[h].at \in {"get_executed", "write_executed"} => status[r] = "approved" /\ ran[r] # 0
       /\ call[h].at \in {"get_failed", "write_failed"} =>
            status[r] = "pending" \/ (status[r] = "approved" /\ ran[r] # 0)
  /\ \A r \in Requests : ran[r] < 2
  /\ \A r \in Requests : status[r] \in {"absent"} \cup Open => ran[r] = 0

(* At first no call is under way.                                          *)
LEMMA SerialInit == Init => SerialInv
<1> SUFFICES ASSUME Init PROVE SerialInv
  OBVIOUS
<1>1. \A h \in Handlers : call[h].at = "idle"
  BY DEF Init, Idle, CallOf
<1>2. \A r \in Requests : ran[r] = 0
  BY DEF Init
<1> QED BY <1>1, <1>2 DEF SerialInv

(* With one thread, every step keeps the invariant: nothing comes between  *)
(* a copy and the row it is written to.                                    *)
LEMMA SerialStep ==
  ASSUME OneAtATime, TypeOK, SerialInv, [Next]_vars
  PROVE  SerialInv'
<1> USE DEF OneAtATime, SerialInv, Approvable, NeverFailed, TypeOK, At, Calls, CallOf, Idle, Ops, Points,
            Status, Open, Terminal, storeVars, historyVars
<1>1. ASSUME NEW r \in Requests, Create(r)
      PROVE  SerialInv'
  BY <1>1 DEF Create
<1>2. ASSUME NEW r \in Requests, TtlElapses(r)
      PROVE  SerialInv'
  BY <1>2 DEF TtlElapses
<1>3. ASSUME NEW h \in Handlers, ListPending(h)
      PROVE  SerialInv'
  BY <1>3 DEF ListPending, ExpireDue
<1>4. ASSUME NEW h \in Handlers, NEW r \in Requests, BeginApprove(h, r)
      PROVE  SerialInv'
  BY <1>4 DEF BeginApprove, BeginExpiring, ExpireDue, Serving
<1>5. ASSUME NEW h \in Handlers, NEW r \in Requests, BeginReconfirm(h, r)
      PROVE  SerialInv'
  BY <1>5 DEF BeginReconfirm, BeginExpiring, ExpireDue, Serving
<1>6. ASSUME NEW h \in Handlers, NEW r \in Requests, BeginReject(h, r)
      PROVE  SerialInv'
  BY <1>6 DEF BeginReject, BeginReading, Serving
<1>7. ASSUME NEW h \in Handlers, NEW r \in Requests, BeginAttach(h, r)
      PROVE  SerialInv'
  BY <1>7 DEF BeginAttach, BeginReading, Serving
<1>8. ASSUME NEW h \in Handlers, NEW r \in Requests, BeginVoid(h, r)
      PROVE  SerialInv'
  BY <1>8 DEF BeginVoid, Serving
<1>9. ASSUME NEW h \in Handlers, Get(h)
      PROVE  SerialInv'
  BY <1>9 DEF Get, ReadTo
<1>10. ASSUME NEW h \in Handlers, GetExecuted(h)
      PROVE  SerialInv'
  BY <1>10 DEF GetExecuted, ReadTo
<1>11. ASSUME NEW h \in Handlers, GetFailed(h)
      PROVE  SerialInv'
  BY <1>11 DEF GetFailed, ReadTo
<1>12. ASSUME NEW h \in Handlers, WriteApproved(h)
      PROVE  SerialInv'
  BY <1>12 DEF WriteApproved, Write
<1>13. ASSUME NEW h \in Handlers, WriteReconfirmed(h)
      PROVE  SerialInv'
  BY <1>13 DEF WriteReconfirmed, Write, Finish
<1>14. ASSUME NEW h \in Handlers, WriteRejected(h)
      PROVE  SerialInv'
  BY <1>14 DEF WriteRejected, Write, Finish
<1>15. ASSUME NEW h \in Handlers, WriteBinding(h)
      PROVE  SerialInv'
  <2>1. call[h].req \in Requests /\ call[h].seen = status[call[h].req]
    BY <1>15 DEF WriteBinding
  <2>2. status' = status /\ ran' = ran /\ call' = [call EXCEPT ![h] = Idle]
    BY <1>15, <2>1 DEF WriteBinding, Write, Finish
  <2>3. \A g \in Handlers : call'[g].at = "idle"
    BY <2>2
  <2> QED BY <2>2, <2>3
<1>16. ASSUME NEW h \in Handlers, Refuse(h)
      PROVE  SerialInv'
  BY <1>16 DEF Refuse, Finish
<1>17. ASSUME NEW h \in Handlers, RunSucceeds(h)
      PROVE  SerialInv'
  BY <1>17 DEF RunSucceeds, Run, CountRun
<1>18. ASSUME NEW h \in Handlers, RunFails(h)
      PROVE  SerialInv'
  BY <1>18 DEF RunFails, Run, CountRun
<1>19. ASSUME NEW h \in Handlers, RunBreaks(h)
      PROVE  SerialInv'
  BY <1>19 DEF RunBreaks, CountRun, Finish
<1>20. ASSUME NEW h \in Handlers, WriteExecuted(h)
      PROVE  SerialInv'
  BY <1>20 DEF WriteExecuted, Write, Finish
<1>21. ASSUME NEW h \in Handlers, WriteFailed(h)
      PROVE  SerialInv'
  BY <1>21 DEF WriteFailed, Write, Finish
<1>22. ASSUME NEW h \in Handlers, RefuseOutcome(h)
      PROVE  SerialInv'
  BY <1>22 DEF RefuseOutcome, Finish
<1>23. CASE Crash
  BY <1>23 DEF Crash
<1>24. CASE StartupExpire
  BY <1>24 DEF StartupExpire, ExpireDue
<1>25. ASSUME NEW r \in Requests, RecoverRow(r)
      PROVE  SerialInv'
  BY <1>25 DEF RecoverRow
<1>26. CASE StartupDone
  BY <1>26 DEF StartupDone, ExpireDue
<1>27. CASE UNCHANGED vars
  BY <1>27 DEF vars, At, Settled
<1>28. QED
  BY <1>1, <1>2, <1>3, <1>4, <1>5, <1>6, <1>7, <1>8, <1>9, <1>10, <1>11, <1>12, <1>13,
     <1>14, <1>15, <1>16, <1>17, <1>18, <1>19, <1>20, <1>21, <1>22, <1>23, <1>24,
     <1>25, <1>26, <1>27
  DEF Next, Begin, Continue, Startup

(* An action is run at most once, as test_double_approval_is_rejected      *)
(* says, by a pool of one thread.                                          *)
THEOREM SerialRunsOnce ==
  ASSUME OneAtATime
  PROVE  Spec => []AtMostOnce
<1>1. Init => SerialInv
  BY SerialInit
<1>2. TypeOK /\ SerialInv /\ [Next]_vars => SerialInv'
  BY SerialStep
<1>3. SerialInv => AtMostOnce
  BY DEF SerialInv, AtMostOnce
<1> QED BY <1>1, <1>2, <1>3, TypeCorrect, PTL DEF Spec

-----------------------------------------------------------------------------
(* Steps of the lifecycle, as steps of the queue make them.                *)

(* Some requests move on together.                                         *)
LEMMA LifecycleMoves ==
  ASSUME NEW S \in SUBSET Requests, NEW to \in Status, TypeOK,
         \A r \in S : to \in Lifecycle!Successors[status[r]] /\ (to = "executed" => ran[r] # 0),
         status' = [r \in Requests |-> IF r \in S THEN to ELSE status[r]],
         UNCHANGED <<bound, ran>>
  PROVE  Lifecycle!Next
<1>1. Lifecycle!Move(S, to)
  BY DEF Lifecycle!Move
<1>2. to \in DOMAIN Lifecycle!Successors
  BY DEF Lifecycle!Successors, Status, Open, Terminal
<1> QED BY <1>1, <1>2 DEF Lifecycle!Next

(* One request does.                                                       *)
LEMMA LifecycleMovesOne ==
  ASSUME NEW q \in Requests, NEW to \in Status, TypeOK,
         to \in Lifecycle!Successors[status[q]], to = "executed" => ran[q] # 0,
         status' = [status EXCEPT ![q] = to], UNCHANGED <<bound, ran>>
  PROVE  Lifecycle!Next
<1>1. status' = [r \in Requests |-> IF r \in {q} THEN to ELSE status[r]]
  BY DEF TypeOK
<1> QED BY <1>1, LifecycleMoves

(* A sweep over the rows that are open and past their time.                *)
LEMMA LifecycleExpires ==
  ASSUME TypeOK, status' = ExpireDue(status), UNCHANGED <<bound, ran>>
  PROVE  Lifecycle!Next
<1> DEFINE S == {r \in Requests : r \in due /\ status[r] \in Open}
<1>1. status' = [r \in Requests |-> IF r \in S THEN "expired" ELSE status[r]]
  BY DEF ExpireDue
<1>2. \A r \in S : "expired" \in Lifecycle!Successors[status[r]]
  BY DEF Lifecycle!Successors, Open
<1> QED BY <1>1, <1>2, LifecycleMoves DEF Status, Open, Terminal

(* A copy that is the row's is written back with another status.           *)
LEMMA LifecycleWrites ==
  ASSUME TypeOK, SerialInv, NEW h \in Handlers, NEW to \in Status,
         call[h].at \in {"write", "write_executed", "write_failed"},
         Write(h, to, call[h].seenBound), UNCHANGED ran,
         to \in Lifecycle!Successors[call[h].seen], to = "executed" => ran[call[h].req] # 0
  PROVE  Lifecycle!Next
<1>1. call[h].req \in Requests /\ call[h].seen = status[call[h].req]
      /\ call[h].seenBound = bound[call[h].req]
  BY DEF TypeOK, SerialInv, At
<1>2. bound' = bound /\ status' = [status EXCEPT ![call[h].req] = to]
  BY <1>1 DEF Write, TypeOK
<1> QED BY <1>1, <1>2, LifecycleMovesOne

(* The action is run, while its request is approved and not run yet.       *)
LEMMA LifecycleRuns ==
  ASSUME TypeOK, SerialInv, NEW h \in Handlers, At(h, "run"), CountRun(call[h].req),
         UNCHANGED <<status, bound>>
  PROVE  Lifecycle!Next
<1>0. call[h].req \in Requests
  BY DEF TypeOK, At
<1> PICK q \in Requests : q = call[h].req
  BY <1>0
<1>1. status[q] = "approved" /\ ran[q] = 0
  BY DEF SerialInv, At
<1>2. {r \in Requests : ran'[r] # 0} = {r \in Requests : ran[r] # 0} \cup {q}
  BY <1>1 DEF CountRun, TypeOK
<1>3. Lifecycle!RunAction(q)
  BY <1>1, <1>2 DEF Lifecycle!RunAction
<1> QED BY <1>1, <1>3 DEF Lifecycle!Next

(* A stuttering step: nothing that the lifecycle knows of changes.         *)
LEMMA LifecycleStutters ==
  ASSUME UNCHANGED <<status, bound, ran>>
  PROVE  UNCHANGED Lifecycle!vars
BY DEF Lifecycle!vars

(* With one thread, every step of the queue is a step of the lifecycle or  *)
(* none.                                                                   *)
LEMMA LifecycleStep ==
  ASSUME OneAtATime, TypeOK, SerialInv, [Next]_vars
  PROVE  [Lifecycle!Next]_Lifecycle!vars
<1> USE DEF At, storeVars, historyVars
<1>1. ASSUME NEW r \in Requests, Create(r)
      PROVE  [Lifecycle!Next]_Lifecycle!vars
  <2>1. status[r] = "absent" /\ status' = [status EXCEPT ![r] = "pending"] /\ UNCHANGED <<bound, ran>>
    BY <1>1 DEF Create
  <2>2. "pending" \in Lifecycle!Successors["absent"] /\ "pending" \in Status
    BY DEF Lifecycle!Successors, Status, Open
  <2> QED BY <2>1, <2>2, LifecycleMovesOne
<1>2. ASSUME NEW r \in Requests, TtlElapses(r)
      PROVE  [Lifecycle!Next]_Lifecycle!vars
  BY <1>2, LifecycleStutters DEF TtlElapses
<1>3. ASSUME NEW h \in Handlers, ListPending(h)
      PROVE  [Lifecycle!Next]_Lifecycle!vars
  BY <1>3, LifecycleExpires DEF ListPending
<1>4. ASSUME NEW h \in Handlers, NEW r \in Requests, BeginApprove(h, r)
      PROVE  [Lifecycle!Next]_Lifecycle!vars
  BY <1>4, LifecycleExpires DEF BeginApprove, BeginExpiring, Serving
<1>5. ASSUME NEW h \in Handlers, NEW r \in Requests, BeginReconfirm(h, r)
      PROVE  [Lifecycle!Next]_Lifecycle!vars
  BY <1>5, LifecycleExpires DEF BeginReconfirm, BeginExpiring, Serving
<1>6. ASSUME NEW h \in Handlers, NEW r \in Requests, BeginReject(h, r)
      PROVE  [Lifecycle!Next]_Lifecycle!vars
  BY <1>6, LifecycleStutters DEF BeginReject, BeginReading, Serving
<1>7. ASSUME NEW h \in Handlers, NEW r \in Requests, BeginAttach(h, r)
      PROVE  [Lifecycle!Next]_Lifecycle!vars
  BY <1>7, LifecycleStutters DEF BeginAttach, BeginReading, Serving
<1>8. ASSUME NEW h \in Handlers, NEW r \in Requests, BeginVoid(h, r)
      PROVE  [Lifecycle!Next]_Lifecycle!vars
  BY <1>8, LifecycleStutters DEF BeginVoid, Serving
<1>9. ASSUME NEW h \in Handlers, Get(h)
      PROVE  [Lifecycle!Next]_Lifecycle!vars
  BY <1>9, LifecycleStutters DEF Get, ReadTo
<1>10. ASSUME NEW h \in Handlers, GetExecuted(h)
      PROVE  [Lifecycle!Next]_Lifecycle!vars
  BY <1>10, LifecycleStutters DEF GetExecuted, ReadTo
<1>11. ASSUME NEW h \in Handlers, GetFailed(h)
      PROVE  [Lifecycle!Next]_Lifecycle!vars
  BY <1>11, LifecycleStutters DEF GetFailed, ReadTo
<1>12. ASSUME NEW h \in Handlers, WriteApproved(h)
      PROVE  [Lifecycle!Next]_Lifecycle!vars
  <2>1. /\ Write(h, "approved", call[h].seenBound) /\ UNCHANGED ran
        /\ call[h].at \in {"write", "write_executed", "write_failed"}
    BY <1>12 DEF WriteApproved
  <2>2. "approved" \in Lifecycle!Successors[call[h].seen] /\ "approved" \in Status
    BY <1>12 DEF WriteApproved, Lifecycle!Successors, SerialInv, TypeOK, Calls, NeverFailed,
           Approvable, Status, Open, Terminal
  <2> QED BY <1>12, <2>1, <2>2, LifecycleWrites DEF SerialInv
<1>13. ASSUME NEW h \in Handlers, WriteReconfirmed(h)
      PROVE  [Lifecycle!Next]_Lifecycle!vars
  <2>1. /\ Write(h, "reconfirmed", call[h].seenBound) /\ UNCHANGED ran
        /\ call[h].at \in {"write", "write_executed", "write_failed"}
    BY <1>13 DEF WriteReconfirmed
  <2>2. "reconfirmed" \in Lifecycle!Successors[call[h].seen] /\ "reconfirmed" \in Status
    BY <1>13 DEF WriteReconfirmed, Lifecycle!Successors, SerialInv, TypeOK, Calls, NeverFailed,
           Approvable, Status, Open, Terminal
  <2> QED BY <1>13, <2>1, <2>2, LifecycleWrites DEF SerialInv
<1>14. ASSUME NEW h \in Handlers, WriteRejected(h)
      PROVE  [Lifecycle!Next]_Lifecycle!vars
  <2>1. /\ Write(h, "rejected", call[h].seenBound) /\ UNCHANGED ran
        /\ call[h].at \in {"write", "write_executed", "write_failed"}
    BY <1>14 DEF WriteRejected
  <2>2. "rejected" \in Lifecycle!Successors[call[h].seen] /\ "rejected" \in Status
    BY <1>14 DEF WriteRejected, Lifecycle!Successors, SerialInv, TypeOK, Calls, NeverFailed,
           Approvable, Status, Open, Terminal
  <2> QED BY <1>14, <2>1, <2>2, LifecycleWrites DEF SerialInv
<1>15. ASSUME NEW h \in Handlers, WriteBinding(h)
      PROVE  [Lifecycle!Next]_Lifecycle!vars
  <2>0. call[h].req \in Requests
    BY <1>15 DEF WriteBinding, TypeOK
  <2> PICK q \in Requests : q = call[h].req
    BY <2>0
  <2>1. status[q] # "absent" /\ call[h].seen = status[q]
    BY <1>15 DEF WriteBinding, SerialInv
  <2>2. status' = status /\ ran' = ran /\ bound' = [bound EXCEPT ![q] = TRUE]
    BY <1>15, <2>1 DEF WriteBinding, Write, TypeOK
  <2>3. {r \in Requests : bound'[r]} = {r \in Requests : bound[r]} \cup {q}
    BY <2>1, <2>2 DEF TypeOK
  <2>4. Lifecycle!Tie(q)
    BY <2>1, <2>2, <2>3 DEF Lifecycle!Tie
  <2> QED BY <2>1, <2>4 DEF Lifecycle!Next
<1>16. ASSUME NEW h \in Handlers, Refuse(h)
      PROVE  [Lifecycle!Next]_Lifecycle!vars
  BY <1>16, LifecycleStutters DEF Refuse, Finish
<1>17. ASSUME NEW h \in Handlers, RunSucceeds(h)
      PROVE  [Lifecycle!Next]_Lifecycle!vars
  BY <1>17, LifecycleRuns DEF RunSucceeds, Run
<1>18. ASSUME NEW h \in Handlers, RunFails(h)
      PROVE  [Lifecycle!Next]_Lifecycle!vars
  BY <1>18, LifecycleRuns DEF RunFails, Run
<1>19. ASSUME NEW h \in Handlers, RunBreaks(h)
      PROVE  [Lifecycle!Next]_Lifecycle!vars
  BY <1>19, LifecycleRuns DEF RunBreaks
<1>20. ASSUME NEW h \in Handlers, WriteExecuted(h)
      PROVE  [Lifecycle!Next]_Lifecycle!vars
  <2>1. /\ Write(h, "executed", call[h].seenBound) /\ UNCHANGED ran
        /\ call[h].at \in {"write", "write_executed", "write_failed"}
    BY <1>20 DEF WriteExecuted
  <2>2. "executed" \in Lifecycle!Successors[call[h].seen] /\ "executed" \in Status
    BY <1>20 DEF WriteExecuted, Lifecycle!Successors, SerialInv, TypeOK, Calls, NeverFailed,
           Approvable, Status, Open, Terminal
  <2>3. ran[call[h].req] # 0
    BY <1>20 DEF WriteExecuted, SerialInv
  <2> QED BY <2>1, <2>2, <2>3, LifecycleWrites
<1>21. ASSUME NEW h \in Handlers, WriteFailed(h)
      PROVE  [Lifecycle!Next]_Lifecycle!vars
  <2>1. /\ Write(h, "failed", call[h].seenBound) /\ UNCHANGED ran
        /\ call[h].at \in {"write", "write_executed", "write_failed"}
    BY <1>21 DEF WriteFailed
  <2>2. "failed" \in Lifecycle!Successors[call[h].seen] /\ "failed" \in Status
    BY <1>21 DEF WriteFailed, Lifecycle!Successors, SerialInv, TypeOK, Calls, NeverFailed,
           Approvable, Status, Open, Terminal
  <2> QED BY <1>21, <2>1, <2>2, LifecycleWrites DEF SerialInv
<1>22. ASSUME NEW h \in Handlers, RefuseOutcome(h)
      PROVE  [Lifecycle!Next]_Lifecycle!vars
  BY <1>22, LifecycleStutters DEF RefuseOutcome, Finish
<1>23. CASE Crash
  BY <1>23, LifecycleStutters DEF Crash
<1>24. CASE StartupExpire
  BY <1>24, LifecycleExpires DEF StartupExpire
<1>25. ASSUME NEW r \in Requests, RecoverRow(r)
      PROVE  [Lifecycle!Next]_Lifecycle!vars
  <2>1. status[r] = "pending" /\ status' = [status EXCEPT ![r] = "recovered"] /\ UNCHANGED <<bound, ran>>
    BY <1>25 DEF RecoverRow
  <2>2. "recovered" \in Lifecycle!Successors["pending"] /\ "recovered" \in Status
    BY DEF Lifecycle!Successors, Status, Open
  <2> QED BY <2>1, <2>2, LifecycleMovesOne
<1>26. CASE StartupDone
  BY <1>26, LifecycleExpires DEF StartupDone
<1>27. CASE UNCHANGED vars
  BY <1>27, LifecycleStutters DEF vars
<1>28. QED
  BY <1>1, <1>2, <1>3, <1>4, <1>5, <1>6, <1>7, <1>8, <1>9, <1>10, <1>11, <1>12, <1>13,
     <1>14, <1>15, <1>16, <1>17, <1>18, <1>19, <1>20, <1>21, <1>22, <1>23, <1>24,
     <1>25, <1>26, <1>27
  DEF Next, Begin, Continue, Startup

(* With one call at a time the queue implements the lifecycle: each of its *)
(* steps, reads and crashes included, is one step of the lifecycle or none.*)
THEOREM SerialQueueIsLifecycle ==
  ASSUME OneAtATime
  PROVE  Spec => ImplementsLifecycle
<1>1. Init => SerialInv
  BY SerialInit
<1>2. TypeOK /\ SerialInv /\ [Next]_vars => SerialInv'
  BY SerialStep
<1>3. Init => Lifecycle!Init
  BY DEF Init, Lifecycle!Init
<1>4. TypeOK /\ SerialInv /\ [Next]_vars => [Lifecycle!Next]_Lifecycle!vars
  BY LifecycleStep
<1> QED BY <1>1, <1>2, <1>3, <1>4, TypeCorrect, PTL DEF Spec, ImplementsLifecycle, Lifecycle!Spec
=============================================================================
