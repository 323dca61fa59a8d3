------------------------------- MODULE Backups -------------------------------
(***************************************************************************)
(* Backups (BackupManager of local-bridge/app/hardening/maintenance.py):   *)
(* one is made by every startup, and by the middleware before a request if *)
(* the latest is as old as the interval.  Both run in the event loop, so   *)
(* that backups never overlap; the threads that run approved requests go   *)
(* on meanwhile, so that a backup is no single moment's state.             *)
(***************************************************************************)
EXTENDS Naturals, FiniteSets, FiniteSetsExt

CONSTANTS
  Requests,    \* approval requests that change a workflow
  Interval,    \* backup_interval_seconds
  MaxTime,     \* bound: the clock
  MaxCrashed   \* bound: crashes

ASSUME BackupAssumption ==
  Requests # {} /\ Interval \in Nat \ {0} /\ MaxTime \in Nat /\ MaxCrashed \in Nat

VARIABLES
  row,         \* per request: its state in the approval database
  effects,     \* requests that have changed their workflow's document
  backups,     \* the backup directories
  copying,     \* the one that is being made, or Idle
  service,     \* the event loop: "starting", "passing" a request, or "open"
  time,
  crashed,
  \* history variables: no guard reads them
  life,        \* how often the process has been started
  gate         \* when the middleware saw the request it lets pass

backupVars == <<row, effects, backups, copying, service, time, crashed, life, gate>>

-----------------------------------------------------------------------------
Undecided == "pending"
RowStates == {Undecided, "approved", "executed"}

(* at: the time of the directory, which each new entry in it sets.         *)
Backup == [at: 0..MaxTime, docs: SUBSET Requests, rows: [Requests -> RowStates \cup {"none"}],
           complete: BOOLEAN, life: Nat]
NoRows == [q \in Requests |-> "none"]
Copying == [step: {"idle", "docs", "rows", "finish"}, backup: Backup]
Idle == [step |-> "idle", backup |-> [at |-> 0, docs |-> {}, rows |-> NoRows,
                                      complete |-> FALSE, life |-> 0]]

BackupInit ==
  /\ row = [q \in Requests |-> Undecided] /\ effects = {}
  /\ backups = {} /\ copying = Idle
  /\ service = "starting" /\ time = 0 /\ crashed = 0 /\ life = 1 /\ gate = 0

(* Slip: the approvals are copied first.                                   *)
CopyOrderApprovals == [docs |-> "finish", rows |-> "docs", start |-> "rows"]

(* Slip: the approvals are left out.                                       *)
CopyOrderNoRows == [docs |-> "finish", rows |-> "finish", start |-> "docs"]

(* create_backup: memory, workflows, agents, then approvals, then metadata. *)
CopyOrder == [docs |-> "rows", rows |-> "finish", start |-> "docs"]

BeginBackup ==
  copying' = [step |-> CopyOrder.start,
              backup |-> [Idle.backup EXCEPT !.at = time, !.life = life]]

-----------------------------------------------------------------------------
(* approve, in another thread: the row, the workflow, the row.             *)
WorkOn(q) ==
  /\ service # "starting"
  /\ \/ /\ row[q] = Undecided
        /\ row' = [row EXCEPT ![q] = "approved"] /\ UNCHANGED effects
     \/ /\ row[q] = "approved" /\ q \notin effects
        /\ effects' = effects \cup {q} /\ UNCHANGED row
     \/ /\ row[q] = "approved" /\ q \in effects
        /\ row' = [row EXCEPT ![q] = "executed"] /\ UNCHANGED effects
  /\ UNCHANGED <<backups, copying, service, time, crashed, life, gate>>

CopyDocs ==
  /\ copying.step = "docs"
  /\ copying' = [copying EXCEPT !.step = CopyOrder.docs, !.backup.docs = effects, !.backup.at = time]
  /\ UNCHANGED <<row, effects, backups, service, time, crashed, life, gate>>

(* ApprovalStore.snapshot, one SELECT.                                     *)
CopyRows ==
  /\ copying.step = "rows"
  /\ copying' = [copying EXCEPT !.step = CopyOrder.rows, !.backup.rows = row, !.backup.at = time]
  /\ UNCHANGED <<row, effects, backups, service, time, crashed, life, gate>>

FinishBackup ==
  /\ copying.step = "finish"
  /\ backups' = backups \cup {[copying.backup EXCEPT !.at = time, !.complete = TRUE]}
  /\ copying' = Idle
  /\ service' = IF service = "starting" THEN "open" ELSE service
  /\ UNCHANGED <<row, effects, time, crashed, life, gate>>

(* latest_backup, whether it was completed or not.                         *)
Latest == CHOOSE b \in backups : \A other \in backups : other.at <= b.at

(* Slip: the startup makes a backup only when one is due.                  *)
StartupWhenDue ==
  /\ service = "starting" /\ copying = Idle
  /\ IF backups # {} /\ time < Latest.at + Interval
     THEN service' = "open" /\ UNCHANGED copying
     ELSE BeginBackup /\ UNCHANGED service
  /\ UNCHANGED <<row, effects, backups, time, crashed, life, gate>>

(* startup: maybe_backup(force=True).                                      *)
Startup ==
  /\ service = "starting" /\ copying = Idle
  /\ BeginBackup
  /\ UNCHANGED <<row, effects, backups, service, time, crashed, life, gate>>

(* Slip: any backup will do.                                               *)
DueOnce == backups = {}

(* maybe_backup.                                                           *)
Due == backups = {} \/ time >= Latest.at + Interval

(* maintenance_middleware, then the request passes.                        *)
OnRequest ==
  /\ service = "open" /\ copying = Idle
  /\ service' = "passing" /\ gate' = time
  /\ IF Due THEN BeginBackup ELSE UNCHANGED copying
  /\ UNCHANGED <<row, effects, backups, time, crashed, life>>

PassRequest ==
  /\ service = "passing" /\ copying = Idle
  /\ service' = "open"
  /\ UNCHANGED <<row, effects, backups, copying, time, crashed, life, gate>>

Tick ==
  /\ time < MaxTime /\ time' = time + 1
  /\ UNCHANGED <<row, effects, backups, copying, service, crashed, life, gate>>

(* A crash leaves the directory of a backup as far as it got.              *)
Crash ==
  /\ crashed < MaxCrashed /\ crashed' = crashed + 1 /\ life' = life + 1
  /\ backups' = IF copying = Idle THEN backups ELSE backups \cup {copying.backup}
  /\ copying' = Idle /\ service' = "starting"
  /\ UNCHANGED <<row, effects, time, gate>>

BackupNext ==
  \/ \E q \in Requests : WorkOn(q)
  \/ CopyDocs \/ CopyRows \/ FinishBackup \/ Startup \/ OnRequest \/ PassRequest \/ Tick \/ Crash

BackupSpec == BackupInit /\ [][BackupNext]_backupVars

-----------------------------------------------------------------------------
(* Properties.                                                             *)

(* Type correctness, and a complete backup has all its parts.              *)
BackupTypeOK ==
  /\ row \in [Requests -> RowStates] /\ effects \subseteq Requests
  /\ backups \subseteq Backup /\ copying \in Copying
  /\ service \in {"starting", "open", "passing"} /\ time \in 0..MaxTime
  /\ crashed \in 0..MaxCrashed /\ life \in 1..MaxCrashed + 1 /\ gate \in 0..MaxTime
  /\ \A b \in backups : b.complete => b.rows # NoRows

(* A backup has the state of several moments, but never the effect of a    *)
(* request that it shows as still to be decided.                           *)
EffectsWereApproved ==
  \A b \in backups : b.complete => \A q \in b.docs : b.rows[q] # Undecided

(* Whenever requests are served there is a complete backup made since the  *)
(* last startup, whatever directories crashed backups have left.           *)
ServedWithBackup ==
  service # "starting" => \E b \in backups : b.complete /\ b.life = life

(* When the middleware lets a request pass, there is a complete backup     *)
(* that was younger than the interval when the request came.               *)
PassedWithFreshBackup ==
  [][service = "passing" /\ service' = "open" =>
       \E b \in backups : b.complete /\ gate < b.at + Interval]_backupVars

(* Nothing has an effect that was not approved, and nothing is served      *)
(* before a backup was made.                                               *)
ServedSafely ==
  /\ [](BackupTypeOK /\ EffectsWereApproved /\ ServedWithBackup)
  /\ PassedWithFreshBackup
=============================================================================
