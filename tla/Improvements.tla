---------------------------- MODULE Improvements ----------------------------
(***************************************************************************)
(* The knowledge improvements and their list                               *)
(* (local-bridge/app/intelligence/validation/knowledge.py, routes.py and   *)
(* the action in main.py): a proposal waits in the approval queue, its     *)
(* approval stores a validated record in another database and then marks   *)
(* the request executed; the dashboard's list joins the two, the records   *)
(* first, and leaves out the requests that were executed.                  *)
(***************************************************************************)
EXTENDS Naturals, FiniteSets

CONSTANTS
  Proposals,
  Readers,    \* requests for the list
  MaxOutages  \* bound: crashes

ASSUME ImprovementsAssumption == MaxOutages \in Nat

VARIABLES
  queued,    \* the approval queue: the status of each proposal's request
  records,   \* intelligence_knowledge_improvements: how often each is stored
  reading,   \* per reader: what it has read
  outages,
  \* history variable: no guard reads it
  blurred    \* per reader: proposals that were being approved while it read

improvementVars == <<queued, records, reading, outages, blurred>>

-----------------------------------------------------------------------------
Unread == [at |-> "start"]
Underway == {p \in Proposals : queued[p] \in {"approved", "saved"}}

ImprovementInit ==
  /\ queued = [p \in Proposals |-> "absent"] /\ records = [p \in Proposals |-> 0]
  /\ reading = [r \in Readers |-> Unread] /\ outages = 0
  /\ blurred = [r \in Readers |-> {}]

Midway(r) == reading[r].at = "rows"
Moves(p, from, to) ==
  /\ queued[p] = from /\ queued' = [queued EXCEPT ![p] = to]
  /\ blurred' = [r \in Readers |->
       IF to = "approved" /\ Midway(r) THEN blurred[r] \cup {p} ELSE blurred[r]]
  /\ UNCHANGED <<reading, outages>>

(* build_proposal: checked, and queued.                                    *)
ProposeImprovement(p) == Moves(p, "absent", "pending") /\ UNCHANGED records
Approve(p) == Moves(p, "pending", "approved") /\ UNCHANGED records
Reject(p) == Moves(p, "pending", "rejected") /\ UNCHANGED records

(* Slip: the request is marked first.                                      *)
SaveImprovementLast(p) == Moves(p, "approved", "executed") /\ UNCHANGED records

(* apply_after_approval and save_improvement.                              *)
SaveImprovement(p) ==
  Moves(p, "approved", "saved") /\ records' = [records EXCEPT ![p] = @ + 1]

MarkExecuted(p) == Moves(p, "saved", "executed") /\ UNCHANGED records

(* A crash: the request stays approved, whether or not its record is       *)
(* stored, and is not run again.                                           *)
Outage ==
  /\ outages < MaxOutages /\ outages' = outages + 1
  /\ queued' = [p \in Proposals |-> IF p \in Underway THEN "stuck" ELSE queued[p]]
  /\ reading' = [r \in Readers |-> IF Midway(r) THEN Unread ELSE reading[r]]
  /\ UNCHANGED <<records, blurred>>

(* The list: the stored records, then the queue.                           *)
ReadRecords(r) ==
  /\ reading[r].at # "rows"
  /\ reading' = [reading EXCEPT ![r] = [at |-> "rows", rows |-> records, asked |-> {p \in Proposals : queued[p] # "absent"}]]
  /\ blurred' = [blurred EXCEPT ![r] = Underway]
  /\ UNCHANGED <<queued, records, outages>>

(* Slip: executed requests are listed as well.                             *)
ReadQueueAll(r) ==
  /\ Midway(r)
  /\ reading' = [reading EXCEPT ![r] = [at |-> "shown", asked |-> reading[r].asked,
       shows |-> [p \in Proposals |-> reading[r].rows[p] + IF queued[p] = "absent" THEN 0 ELSE 1]]]
  /\ UNCHANGED <<queued, records, outages, blurred>>

ReadQueue(r) ==
  /\ Midway(r)
  /\ reading' = [reading EXCEPT ![r] = [at |-> "shown", asked |-> reading[r].asked,
       shows |-> [p \in Proposals |->
         reading[r].rows[p] + IF queued[p] \in {"absent", "executed"} THEN 0 ELSE 1]]]
  /\ UNCHANGED <<queued, records, outages, blurred>>

ImprovementNext ==
  \/ Outage
  \/ \E p \in Proposals : ProposeImprovement(p) \/ Approve(p) \/ Reject(p) \/ SaveImprovement(p) \/ MarkExecuted(p)
  \/ \E r \in Readers : ReadRecords(r) \/ ReadQueue(r)

ImprovementSpec == ImprovementInit /\ [][ImprovementNext]_improvementVars

-----------------------------------------------------------------------------
(* Properties.                                                             *)

(* Every proposal made before the list was asked for is in it, and once:   *)
(* as the request it is or as the record it became.  Only one that was     *)
(* being approved while the list was read, or whose approval a crash cut   *)
(* off after the record was stored, shows twice or not at all.             *)
ListedOnce ==
  \A r \in Readers :
    reading[r].at = "shown" =>
      \A p \in reading[r].asked \ blurred[r] :
        reading[r].shows[p] = 1 \/ (queued[p] = "stuck" /\ records[p] = 1 /\ reading[r].shows[p] = 2)

(* Nothing is known that no human approved: a stored improvement's request *)
(* was approved, and an executed request has just one record.              *)
KnownWasApproved ==
  \A p \in Proposals :
    /\ records[p] > 0 => queued[p] \in {"saved", "executed", "stuck"}
    /\ queued[p] = "executed" => records[p] = 1

(* What counts as learned was approved, and is listed once.                *)
LearnedIsApproved == ListedOnce /\ KnownWasApproved
=============================================================================
