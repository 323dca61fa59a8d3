------------------------------ MODULE Conflicts ------------------------------
(***************************************************************************)
(* Conflicts between agents (ConflictManager and CollaborationStorage of   *)
(* local-bridge/app/collaboration): a journal gets a line when a conflict  *)
(* is raised and another when a human resolves it; a conflict is what the  *)
(* newest readable line about it says, among the last lines of the file.   *)
(***************************************************************************)
EXTENDS Naturals, Sequences, FiniteSets, SequencesExt

CONSTANTS
  Issues,       \* conflicts
  Options,      \* what each may be resolved to
  Resolvers,    \* threads
  Window,       \* how many lines are looked at (500)
  MaxJournal,   \* bound: lines
  MaxTears      \* bound: crashes

ASSUME ConflictAssumption == Window \in Nat \ {0} /\ MaxJournal \in Nat /\ MaxTears \in Nat
ASSUME IssueNames == Issues \cap {"none", "torn"} = {}

VARIABLES
  journal,    \* conflicts.jsonl
  raised,     \* conflicts that exist
  resolver,   \* per thread: the conflict it holds a copy of, and its choice
  tears,
  \* history variables: no guard reads them
  settled,    \* the first resolution that was reported
  contested   \* conflicts that two threads held open, or of which a line was
              \* swallowed by one without an end

conflictVars == <<journal, raised, resolver, tears, settled, contested>>

-----------------------------------------------------------------------------
Open == "open"
Unknown == "unknown"
(* A line is about a conflict, or about none that can be read ("torn").    *)
JournalLine == [about: Issues \cup {"torn"}, says: Options \cup {Open}, ended: BOOLEAN]
AtEase == [holds |-> "none", choice |-> Open]

Says(id, st) == [about |-> id, says |-> st, ended |-> TRUE]

(* The last line has no end: the next one joins it.                        *)
Swallows == journal # << >> /\ ~Last(journal).ended
(* Slip: a line is begun anew.                                             *)
JournaledBehind(line) == Append(journal, line)

Journaled(line) ==
  IF Swallows THEN Append(Front(journal), [about |-> "torn", says |-> Open, ended |-> TRUE])
  ELSE Append(journal, line)

(* Slip: the oldest line counts.                                           *)
GetConflictOldest(id) ==
  LET seen == {i \in DOMAIN journal : i + Window > Len(journal) /\ journal[i].about = id} IN
  IF seen = {} THEN Unknown ELSE journal[Min(seen)].says

(* get_conflict.                                                           *)
GetConflict(id) ==
  LET seen == {i \in DOMAIN journal : i + Window > Len(journal) /\ journal[i].about = id} IN
  IF seen = {} THEN Unknown ELSE journal[Max(seen)].says

ConflictInit ==
  /\ journal = << >> /\ raised = {}
  /\ resolver = [r \in Resolvers |-> AtEase] /\ tears = 0
  /\ settled = [id \in Issues |-> Open] /\ contested = {}

-----------------------------------------------------------------------------
CreateConflict(id) ==
  /\ id \notin raised /\ Len(journal) < MaxJournal
  /\ raised' = raised \cup {id}
  /\ journal' = Journaled(Says(id, Open))
  /\ contested' = IF Swallows THEN contested \cup {id} ELSE contested
  /\ UNCHANGED <<resolver, tears, settled>>

(* Slip: a resolved conflict may be resolved again.                        *)
BeginResolveAny(r, id) ==
  /\ resolver[r] = AtEase /\ GetConflict(id) # Unknown
  /\ \E choice \in Options : resolver' = [resolver EXCEPT ![r] = [holds |-> id, choice |-> choice]]
  /\ contested' = contested \cup {i \in {id} : \E v \in Resolvers : resolver[v].holds = id}
  /\ UNCHANGED <<journal, raised, tears, settled>>

(* resolve: the conflict must be open, the choice one of its options.      *)
BeginResolve(r, id) ==
  /\ resolver[r] = AtEase /\ GetConflict(id) = Open
  /\ \E choice \in Options : resolver' = [resolver EXCEPT ![r] = [holds |-> id, choice |-> choice]]
  /\ contested' = contested \cup {i \in {id} : \E v \in Resolvers : resolver[v].holds = id}
  /\ UNCHANGED <<journal, raised, tears, settled>>

FinishResolve(r) ==
  LET c == resolver[r] IN
  /\ c # AtEase /\ Len(journal) < MaxJournal
  /\ journal' = Journaled(Says(c.holds, c.choice))
  /\ settled' = IF settled[c.holds] = Open THEN [settled EXCEPT ![c.holds] = c.choice] ELSE settled
  /\ contested' = IF Swallows THEN contested \cup {c.holds} ELSE contested
  /\ resolver' = [resolver EXCEPT ![r] = AtEase]
  /\ UNCHANGED <<raised, tears>>

(* A crash, perhaps in the middle of a line; nothing repairs it later.     *)
Tear ==
  /\ tears < MaxTears /\ tears' = tears + 1
  /\ \/ UNCHANGED journal
     \/ /\ Len(journal) < MaxJournal /\ ~Swallows
        /\ journal' = Append(journal, [about |-> "torn", says |-> Open, ended |-> FALSE])
  /\ resolver' = [r \in Resolvers |-> AtEase]
  /\ UNCHANGED <<raised, settled, contested>>

ConflictNext ==
  \/ \E id \in Issues : CreateConflict(id)
  \/ \E r \in Resolvers : FinishResolve(r) \/ \E id \in Issues : BeginResolve(r, id)
  \/ Tear

ConflictSpec == ConflictInit /\ [][ConflictNext]_conflictVars

-----------------------------------------------------------------------------
(* Properties.                                                             *)

(* Type correctness.                                                       *)
ConflictTypeOK ==
  /\ journal \in Seq(JournalLine) /\ raised \subseteq Issues
  /\ resolver \in [Resolvers -> [holds: Issues \cup {"none"}, choice: Options \cup {Open}]]
  /\ tears \in 0..MaxTears
  /\ settled \in [Issues -> Options \cup {Open}] /\ contested \subseteq Issues
  /\ \A i \in DOMAIN journal : i < Len(journal) => journal[i].ended

(* A conflict is resolved once: from then on it reads as it was resolved   *)
(* first, or is too old to be found, but never as open or as resolved to   *)
(* something else; only two humans at the same time, or a crash within the *)
(* line before, undo that.                                                 *)
ResolutionStands ==
  \A id \in Issues \ contested :
    settled[id] # Open => GetConflict(id) \in {settled[id], Unknown}

(* What was decided of a conflict stays decided.                           *)
ConflictsStayResolved == ConflictTypeOK /\ ResolutionStands
=============================================================================
