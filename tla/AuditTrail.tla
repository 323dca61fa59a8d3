----------------------------- MODULE AuditTrail -----------------------------
(***************************************************************************)
(* The audit log (local-bridge/app/audit/logger.py) and its recovery at    *)
(* startup (local-bridge/app/hardening/maintenance.py): entries are lines  *)
(* of JSON, appended under a lock; a full log is moved to the archive; the *)
(* startup moves a log with unreadable lines to the recovery directory and *)
(* writes the readable ones anew.                                          *)
(***************************************************************************)
EXTENDS Naturals, Sequences, FiniteSets, SequencesExt

CONSTANTS
  MaxLines,    \* what fits into the log (max_bytes)
  MaxRecords,  \* bound: entries
  MaxHalts     \* bound: crashes

ASSUME AuditAssumption == MaxLines \in Nat \ {0} /\ MaxRecords \in Nat /\ MaxHalts \in Nat

VARIABLES
  log,          \* the lines of audit.jsonl; none also when there is no file
  archives,     \* the archived logs
  quarantined,  \* the logs in the recovery directory
  stage,        \* of the startup, then "serving"
  kept,         \* the lines that the startup is about to write
  entries,      \* how many entries there have been
  halts,
  \* history variables: no guard reads them
  recorded,     \* the entries of which the writing was reported as done
  orphaned      \* entries of a log that was moved away but not written anew

auditVars == <<log, archives, quarantined, stage, kept, entries, halts, recorded, orphaned>>

-----------------------------------------------------------------------------
(* A line holds more than one entry if an earlier one lost its end; it is  *)
(* clean if none lost more than that.                                      *)
Line == [holds: Seq(1..MaxRecords), clean: BOOLEAN, ended: BOOLEAN]
Parses(line) == line.clean /\ Len(line.holds) = 1
FullLine(e) == [holds |-> <<e>>, clean |-> TRUE, ended |-> TRUE]

(* valid_lines of _check_audit: those that parse, in their order.          *)
ValidLines(lines) ==
  LET valid[n \in 0..Len(lines)] ==
        IF n = 0 THEN << >>
        ELSE IF Parses(lines[n]) THEN Append(valid[n - 1], lines[n]) ELSE valid[n - 1]
  IN  valid[Len(lines)]

(* What an append makes of the file.                                       *)
Joined(lines, line) ==
  IF lines # << >> /\ ~Last(lines).ended
  THEN Append(Front(lines), [holds |-> Last(lines).holds \o line.holds,
                             clean |-> Last(lines).clean /\ line.clean, ended |-> line.ended])
  ELSE Append(lines, line)

AuditInit ==
  /\ log = << >> /\ archives = << >> /\ quarantined = << >>
  /\ stage = "check" /\ kept = << >>
  /\ entries = 0 /\ halts = 0 /\ recorded = {} /\ orphaned = {}

-----------------------------------------------------------------------------
(* Slip: the log may grow by one more line.                                *)
RecordOver ==
  /\ stage = "serving" /\ entries < MaxRecords
  /\ entries' = entries + 1
  /\ IF Len(log) <= MaxLines
     THEN log' = Joined(log, FullLine(entries + 1)) /\ UNCHANGED archives
     ELSE log' = <<FullLine(entries + 1)>> /\ archives' = Append(archives, log)
  /\ recorded' = recorded \cup {entries + 1}
  /\ UNCHANGED <<quarantined, stage, kept, halts, orphaned>>

(* record, with the lock held throughout; the rotation is seen by nobody   *)
(* in between.                                                             *)
Record ==
  /\ stage = "serving" /\ entries < MaxRecords
  /\ entries' = entries + 1
  /\ IF Len(log) < MaxLines
     THEN log' = Joined(log, FullLine(entries + 1)) /\ UNCHANGED archives
     ELSE log' = <<FullLine(entries + 1)>> /\ archives' = Append(archives, log)
  /\ recorded' = recorded \cup {entries + 1}
  /\ UNCHANGED <<quarantined, stage, kept, halts, orphaned>>

(* Slip: the unreadable log is rewritten in place.                         *)
CheckAuditInPlace ==
  /\ stage = "check"
  /\ IF \A i \in DOMAIN log : Parses(log[i])
     THEN stage' = "serving" /\ UNCHANGED <<log, quarantined, kept>>
     ELSE /\ kept' = ValidLines(log)
          /\ log' = << >>
          /\ stage' = "rewrite" /\ UNCHANGED quarantined
  /\ UNCHANGED <<archives, entries, halts, recorded, orphaned>>

(* Slip: nothing is checked.                                               *)
CheckAuditNot ==
  /\ stage = "check"
  /\ stage' = "serving" /\ UNCHANGED <<log, quarantined, kept>>
  /\ UNCHANGED <<archives, entries, halts, recorded, orphaned>>

(* _check_audit: a log with an unreadable line is moved away.  That the    *)
(* last line has no end is not seen.                                       *)
CheckAudit ==
  /\ stage = "check"
  /\ IF \A i \in DOMAIN log : Parses(log[i])
     THEN stage' = "serving" /\ UNCHANGED <<log, quarantined, kept>>
     ELSE /\ kept' = ValidLines(log)
          /\ quarantined' = Append(quarantined, log)
          /\ log' = << >>
          /\ stage' = "rewrite"
  /\ UNCHANGED <<archives, entries, halts, recorded, orphaned>>

(* _atomic_text: all at once, each line with its end.                      *)
RewriteAudit ==
  /\ stage = "rewrite"
  /\ log' = [i \in DOMAIN kept |-> [kept[i] EXCEPT !.ended = TRUE]]
  /\ kept' = << >> /\ stage' = "serving"
  /\ UNCHANGED <<archives, quarantined, entries, halts, recorded, orphaned>>

(* A crash.  It may cut off an entry that is being recorded, at any point  *)
(* of its line.                                                            *)
Halt ==
  /\ halts < MaxHalts /\ halts' = halts + 1
  /\ \/ UNCHANGED <<log, archives, entries>>
     \/ /\ stage = "serving" /\ entries < MaxRecords
        /\ entries' = entries + 1
        /\ \E clean, ended \in BOOLEAN :
             LET part == [holds |-> <<entries + 1>>, clean |-> clean, ended |-> ended] IN
             /\ ended => clean
             /\ IF Len(log) < MaxLines THEN log' = Joined(log, part) /\ UNCHANGED archives
                ELSE /\ archives' = Append(archives, log)
                     /\ log' \in {<<part>>, << >>}
  /\ stage' = "check" /\ kept' = << >>
  /\ orphaned' = orphaned \cup {kept[i].holds[1] : i \in DOMAIN kept}
  /\ UNCHANGED <<quarantined, recorded>>

AuditNext == Record \/ CheckAudit \/ RewriteAudit \/ Halt

AuditSpec == AuditInit /\ [][AuditNext]_auditVars

-----------------------------------------------------------------------------
(* Properties.                                                             *)

LinesOf(lines) == {lines[i] : i \in DOMAIN lines}
LinesIn(files) == UNION {LinesOf(files[i]) : i \in DOMAIN files}

(* Type correctness of the log and the files made of it.                   *)
AuditTypeOK ==
  /\ log \in Seq(Line) /\ kept \in Seq(Line) /\ Len(log) <= MaxLines
  /\ archives \in Seq(Seq(Line)) /\ quarantined \in Seq(Seq(Line))
  /\ stage \in {"check", "rewrite", "serving"}
  /\ entries \in 0..MaxRecords /\ halts \in 0..MaxHalts
  /\ recorded \subseteq 1..entries /\ orphaned \subseteq 1..entries

(* Whatever was recorded is still written somewhere, readable or not:      *)
(* neither rotation nor recovery nor a crash between their steps drops it. *)
EveryEntryIsKept ==
  \A e \in recorded :
    \E line \in LinesOf(log) \cup LinesIn(archives) \cup LinesIn(quarantined) :
      e \in ToSet(line.holds)

(* While requests are served, a recorded entry can be read from the log or *)
(* the archive, except behind one that a crash left without just its end   *)
(* (that line parses, so the startup leaves it, and the next entry joins   *)
(* it) or in a log that a crashed startup had moved away.                  *)
ReadableUnlessJoined ==
  stage = "serving" =>
    \A e \in recorded \ orphaned :
      \/ \E line \in LinesOf(log) \cup LinesIn(archives) : line.holds = <<e>> /\ Parses(line)
      \/ \E line \in LinesOf(log) \cup LinesIn(archives) \cup LinesIn(quarantined) :
           line.clean /\ Len(line.holds) = 2 /\ line.holds[2] = e

(* The trail keeps every entry, and reads as it was written.               *)
TrailIsKept == AuditTypeOK /\ EveryEntryIsKept /\ ReadableUnlessJoined
=============================================================================
