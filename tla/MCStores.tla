------------------------------ MODULE MCStores ------------------------------
(* Small instances, for TLC, of the modules about what the bridge keeps on *)
(* disk, and what it does for a call.  They share no state: a run looks at *)
(* one, as chosen at the start.                                            *)
EXTENDS Coordination, StageRollback, Memory, AuditTrail, Backups,
        Conflicts, Gateway, Records, TLC

CONSTANTS d1, a1, a2, f1

VARIABLE focus

(* Two requests of a stage that write the same file.                       *)
SameTarget == (a1 :> f1) @@ (a2 :> f1)

(* The configuration has the same threads everywhere.                      *)
Symmetry == Permutations(Workers) \cup Permutations(Actions)

Init ==
  /\ focus \in {"documents", "rollback", "memory", "audit", "backups", "conflicts",
               "gateway", "records"}
  /\ CoordInit /\ RollbackInit /\ MemoryInit /\ AuditInit /\ BackupInit /\ ConflictInit
  /\ GatewayInit /\ RecordsInit
  /\ focus # "rollback" => heads = {} /\ target = [t \in Targets |-> Nothing]
  /\ focus # "gateway" => menu = Sample
  /\ focus # "records" => family = "debt"

Next ==
  /\ UNCHANGED focus
  /\ \/ /\ focus = "documents" /\ CoordNext
        /\ UNCHANGED <<rollbackVars, memoryVars, auditVars, backupVars, conflictVars, gatewayVars, recordVars>>
     \/ /\ focus = "rollback" /\ RollbackNext
        /\ UNCHANGED <<coordVars, memoryVars, auditVars, backupVars, conflictVars, gatewayVars, recordVars>>
     \/ /\ focus = "memory" /\ MemoryNext
        /\ UNCHANGED <<coordVars, rollbackVars, auditVars, backupVars, conflictVars, gatewayVars, recordVars>>
     \/ /\ focus = "audit" /\ AuditNext
        /\ UNCHANGED <<coordVars, rollbackVars, memoryVars, backupVars, conflictVars, gatewayVars, recordVars>>
     \/ /\ focus = "backups" /\ BackupNext
        /\ UNCHANGED <<coordVars, rollbackVars, memoryVars, auditVars, conflictVars, gatewayVars, recordVars>>
     \/ /\ focus = "conflicts" /\ ConflictNext
        /\ UNCHANGED <<coordVars, rollbackVars, memoryVars, auditVars, backupVars, gatewayVars, recordVars>>
     \/ /\ focus = "gateway" /\ GatewayNext
        /\ UNCHANGED <<coordVars, rollbackVars, memoryVars, auditVars, backupVars, conflictVars, recordVars>>
     \/ /\ focus = "records" /\ RecordsNext
        /\ UNCHANGED <<coordVars, rollbackVars, memoryVars, auditVars, backupVars, conflictVars, gatewayVars>>

Spec == Init /\ [][Next]_<<focus, coordVars, rollbackVars, memoryVars, auditVars, backupVars,
                         conflictVars, gatewayVars, recordVars>>
=============================================================================
