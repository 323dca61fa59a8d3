---------------------------- MODULE Coordination ----------------------------
(***************************************************************************)
(* Sessions, agents, teams, runtimes and tasks (local-bridge/app/session,  *)
(* agent, collaboration, runtime, task, event): documents with a status    *)
(* that a table lets move on and a history of the moves.  A request loads  *)
(* the document, moves its copy and saves it whole; each request has a     *)
(* storage of its own, so the storages' locks exclude nobody.  Tasks are   *)
(* rows of a database, the others are files, written beside and renamed.   *)
(* Some moves are then told to the event log or to an approval request.    *)
(***************************************************************************)
EXTENDS Naturals, Sequences, FiniteSets, SequencesExt

CONSTANTS
  Docs,        \* ids: each is drawn at random for one document
  Workers,     \* threads that serve requests
  MaxMoves,    \* bound: the length of a history
  MaxStops     \* bound: how often the process may crash

ASSUME CoordAssumption == MaxMoves \in Nat \ {0} /\ MaxStops \in Nat

VARIABLES
  kind,       \* what a document is; "none" until its creation
  main,       \* the document as it is stored
  temp,       \* the file beside it, between the writing and the renaming
  worker,     \* per thread: the copy it holds and where it is with it
  up,         \* the startup is over
  todo,       \* the runtimes that the startup has yet to save
  events,     \* per document and status: the readable events in the log
  ragged,     \* the log's last line was cut off and has no end
  attached,   \* sessions that an approval request names
  stops,      \* crashes so far
  \* history variables: no guard reads them
  raced,      \* documents of which two threads held a copy at the same time
  started     \* runtimes that a request moved to RUNNING since the start

coordVars == <<kind, main, temp, worker, up, todo, events, ragged, attached, stops, raced, started>>

-----------------------------------------------------------------------------
(* The tables _ALLOWED.                                                    *)

SessionMoves ==
  [create |-> {"active", "completed"}, active |-> {"paused", "completed"},
   paused |-> {"active", "completed"}, completed |-> {}]
AgentMoves ==
  [created |-> {"active", "failed"}, active |-> {"paused", "completed", "failed"},
   paused |-> {"active", "completed", "failed"}, completed |-> {}, failed |-> {}]
TeamMoves ==
  [created |-> {"planning", "failed"},
   planning |-> {"executing", "waiting_approval", "failed"},
   executing |-> {"waiting_approval", "reviewing", "failed"},
   waiting_approval |-> {"executing", "reviewing", "failed"},
   reviewing |-> {"completed", "failed"}, completed |-> {}, failed |-> {}]
RuntimeMoves ==
  [created |-> {"ready", "failed"}, ready |-> {"running", "failed"},
   running |-> {"waiting_approval", "waiting_feedback", "completed", "failed", "recovered"},
   waiting_approval |-> {"running", "waiting_feedback", "failed"},
   waiting_feedback |-> {"running", "completed", "failed"},
   recovered |-> {"ready", "failed"}, completed |-> {}, failed |-> {}]
(* Slip: a failed task can be queued again.                                *)
TaskMovesRetry ==
  [pending |-> {"running", "waiting_approval", "blocked", "cancelled"},
   running |-> {"waiting_approval", "completed", "failed", "blocked", "cancelled"},
   waiting_approval |-> {"running", "blocked", "cancelled"},
   blocked |-> {"pending", "waiting_approval", "cancelled", "failed"},
   completed |-> {}, failed |-> {"pending"}, cancelled |-> {}]

TaskMoves ==
  [pending |-> {"running", "waiting_approval", "blocked", "cancelled"},
   running |-> {"waiting_approval", "completed", "failed", "blocked", "cancelled"},
   waiting_approval |-> {"running", "blocked", "cancelled"},
   blocked |-> {"pending", "waiting_approval", "cancelled", "failed"},
   completed |-> {}, failed |-> {}, cancelled |-> {}]

Moves == [session |-> SessionMoves, agent |-> AgentMoves, team |-> TeamMoves,
          runtime |-> RuntimeMoves, task |-> TaskMoves]
Kinds == DOMAIN Moves
First == [session |-> "create", agent |-> "created", team |-> "created",
          runtime |-> "created", task |-> "pending"]
Statuses == UNION {DOMAIN Moves[k] : k \in Kinds}

(* Slip: a task is announced when it is run, not when it is over.          *)
AnnouncedStart(k, st) ==
  \/ k = "task" /\ st \in {"pending", "running"}
  \/ k = "runtime" /\ st \in {"created", "running"}
  \/ k = "team"

(* What is published: a task that is created or completed, a runtime that  *)
(* is created or started, and whatever a team does.                        *)
Announced(k, st) ==
  \/ k = "task" /\ st \in {"pending", "completed"}
  \/ k = "runtime" /\ st \in {"created", "running"}
  \/ k = "team"

-----------------------------------------------------------------------------
(* Documents and threads.                                                  *)

Absent == [status |-> "absent", history |-> << >>]
Torn == [status |-> "torn", history |-> << >>]    \* cannot be parsed
Written == [status: Statuses, history: Seq(Statuses)]
Readable(doc) == doc.status \notin {"absent", "torn"}

(* Slip: the move is not recorded.                                         *)
MovedSilently(doc, st) == [doc EXCEPT !.status = st]

Moved(doc, st) == [status |-> st, history |-> Append(doc.history, st)]

(* Where a thread is, and which file its open handle writes to: the one at *)
(* temp, at main if that was renamed, or one that was replaced ("gone").   *)
Worker ==
  [at: {"idle", "save", "write", "rename", "tell"}, doc: Docs \cup {"none"},
   copy: Written \cup {Absent}, creates: BOOLEAN, handle: {"none", "temp", "main", "gone"}]
Resting == [at |-> "idle", doc |-> "none", copy |-> Absent, creates |-> FALSE, handle |-> "none"]
Holding(d, doc, creates) ==
  [at |-> "save", doc |-> d, copy |-> doc, creates |-> creates, handle |-> "none"]

Is(w, at) == worker[w].at = at
Steps(w, at) == worker' = [worker EXCEPT ![w].at = at]
Rests(w) == worker' = [worker EXCEPT ![w] = Resting]
Holders(d, w) == {v \in Workers \ {w} : worker[v].doc = d}

CoordInit ==
  /\ kind = [d \in Docs |-> "none"]
  /\ main = [d \in Docs |-> Absent] /\ temp = [d \in Docs |-> Absent]
  /\ worker = [w \in Workers |-> Resting]
  /\ up = TRUE /\ todo = {}
  /\ events = [d \in Docs |-> [st \in Statuses |-> 0]]
  /\ ragged = FALSE /\ attached = {} /\ stops = 0
  /\ raced = {} /\ started = {}

Stored == <<main, temp>>
Told == <<events, ragged, attached>>
Started == <<up, todo, stops>>

-----------------------------------------------------------------------------
(* Slip: the approval is told before the session is saved.                 *)
CreateDocTold(w, d, k) ==
  /\ up /\ Is(w, "idle") /\ kind[d] = "none"
  /\ kind' = [kind EXCEPT ![d] = k]
  /\ worker' = [worker EXCEPT ![w] = Holding(d, Moved(Absent, First[k]), FALSE)]
  /\ attached' = IF k = "session" THEN attached \cup {d} ELSE attached
  /\ UNCHANGED <<Stored, events, ragged, Started, raced, started>>

(* create: the new document is in its first status.                        *)
CreateDoc(w, d, k) ==
  /\ up /\ Is(w, "idle") /\ kind[d] = "none"
  /\ kind' = [kind EXCEPT ![d] = k]
  /\ worker' = [worker EXCEPT ![w] = Holding(d, Moved(Absent, First[k]), TRUE)]
  /\ UNCHANGED <<Stored, Told, Started, raced, started>>

(* transition: the document is loaded and the move looked up; a document   *)
(* that cannot be read, or a move that is not in the table, is refused.    *)
MoveDoc(w, d, st) ==
  LET doc == main[d] IN
  /\ up /\ Is(w, "idle") /\ Readable(doc)
  /\ st \in Moves[kind[d]][doc.status]
  /\ Len(doc.history) < MaxMoves
  /\ worker' = [worker EXCEPT ![w] = Holding(d, Moved(doc, st), FALSE)]
  /\ raced' = IF Holders(d, w) = {} THEN raced ELSE raced \cup {d}
  /\ started' = IF st = "running" THEN started \cup {d} ELSE started
  /\ UNCHANGED <<kind, Stored, Told, Started>>

(* The operations of the managers, one for each kind.  A session is made   *)
(* for a stage that exists and an agent with no more permissions than its  *)
(* role has; those are checked on data that is not modelled.               *)
CreateSession(w, d) == CreateDoc(w, d, "session")
CreateAgent(w, d) == CreateDoc(w, d, "agent")
CreateTeam(w, d) == CreateDoc(w, d, "team")
CreateRuntime(w, d) == CreateDoc(w, d, "runtime")
CreateTask(w, d) == CreateDoc(w, d, "task")

MoveSession(w, d, st) == kind[d] = "session" /\ MoveDoc(w, d, st)
MoveAgent(w, d, st) == kind[d] = "agent" /\ MoveDoc(w, d, st)
MoveTeam(w, d, st) == kind[d] = "team" /\ MoveDoc(w, d, st)
MoveRuntime(w, d, st) == kind[d] = "runtime" /\ MoveDoc(w, d, st)
MoveTask(w, d, st) == kind[d] = "task" /\ MoveDoc(w, d, st)

(* After the save: the event, and the approval that a new session is for.  *)
Tells(w) ==
  LET c == worker[w] IN
  \/ Announced(kind[c.doc], c.copy.status)
  \/ kind[c.doc] = "session" /\ c.creates

(* TaskStorage.save: one statement.                                        *)
SaveRow(w) ==
  LET c == worker[w] IN
  /\ Is(w, "save") /\ kind[c.doc] = "task"
  /\ main' = [main EXCEPT ![c.doc] = c.copy]
  /\ IF Tells(w) THEN Steps(w, "tell") ELSE Rests(w)
  /\ UNCHANGED <<kind, temp, Told, Started, raced, started>>

(* Slip: the document is written in its place.                             *)
OpenInPlace(w) ==
  LET c == worker[w] IN
  /\ Is(w, "save") /\ kind[c.doc] # "task"
  /\ main' = [main EXCEPT ![c.doc] = Torn]
  /\ temp' = [temp EXCEPT ![c.doc] = c.copy]
  /\ worker' = [worker EXCEPT ![w].at = "write", ![w].handle = "temp"]
  /\ UNCHANGED <<kind, Told, Started, raced, started>>

(* save of a file: write_text truncates the temporary file, whoever else   *)
(* has it open,                                                            *)
OpenTemp(w) ==
  LET c == worker[w] IN
  /\ Is(w, "save") /\ kind[c.doc] # "task"
  /\ temp' = [temp EXCEPT ![c.doc] = Torn]
  /\ worker' = [worker EXCEPT ![w].at = "write", ![w].handle = "temp"]
  /\ UNCHANGED <<kind, main, Told, Started, raced, started>>

(* and writes it, to wherever that file is by now; over what another       *)
(* thread wrote to it, of which a longer text's end may remain,            *)
Filled(file, doc) == {[file EXCEPT ![doc.d] = x] :
                      x \in {doc.copy} \cup (IF Readable(file[doc.d]) THEN {Torn} ELSE {})}

WriteTemp(w) ==
  LET c == worker[w]
      doc == [d |-> c.doc, copy |-> c.copy]
  IN
  /\ Is(w, "write")
  /\ \/ c.handle = "temp" /\ temp' \in Filled(temp, doc) /\ UNCHANGED main
     \/ c.handle = "main" /\ main' \in Filled(main, doc) /\ UNCHANGED temp
     \/ c.handle = "gone" /\ UNCHANGED Stored
  /\ Steps(w, "rename")
  /\ UNCHANGED <<kind, Told, Started, raced, started>>

(* and renames it; if another thread did so before, there is none, and the *)
(* request fails.                                                          *)
RenameTemp(w) ==
  LET d == worker[w].doc
      moved == [v \in Workers |->
                  IF v = w \/ worker[v].doc # d THEN worker[v]
                  ELSE [worker[v] EXCEPT !.handle = CASE @ = "temp" -> "main"
                                                      [] @ = "none" -> "none"
                                                      [] OTHER -> "gone"]]
  IN
  /\ Is(w, "rename") /\ temp[d] # Absent
  /\ main' = [main EXCEPT ![d] = temp[d]]
  /\ temp' = [temp EXCEPT ![d] = Absent]
  /\ worker' = [moved EXCEPT ![w] = IF Tells(w) THEN [@ EXCEPT !.at = "tell", !.handle = "none"]
                                    ELSE Resting]
  /\ UNCHANGED <<kind, Told, Started, raced, started>>

RenameFails(w) ==
  /\ Is(w, "rename") /\ temp[worker[w].doc] = Absent
  /\ Rests(w)
  /\ UNCHANGED <<kind, Stored, Told, Started, raced, started>>

(* publish: one line at the end of the log, or of a line that was cut off, *)
(* which is then lost with it; attach_session, if an approval was named.   *)
Publish(w) ==
  LET c == worker[w] IN
  /\ Is(w, "tell") /\ kind[c.doc] # "session"
  /\ events' = IF ragged THEN events ELSE [events EXCEPT ![c.doc][c.copy.status] = @ + 1]
  /\ ragged' = FALSE
  /\ Rests(w)
  /\ UNCHANGED <<kind, Stored, attached, Started, raced, started>>

AttachSession(w) ==
  LET d == worker[w].doc IN
  /\ Is(w, "tell") /\ kind[d] = "session"
  /\ attached' \in {attached, attached \cup {d}}
  /\ Rests(w)
  /\ UNCHANGED <<kind, Stored, events, ragged, Started, raced, started>>

-----------------------------------------------------------------------------
(* Slip: a file that cannot be parsed is not skipped.                      *)
InterruptedOrTorn ==
  {r \in [doc: Docs, copy: {main[d] : d \in Docs} \cup {temp[d] : d \in Docs}] :
     /\ kind[r.doc] = "runtime" /\ r.copy \in {main[r.doc], temp[r.doc]}
     /\ r.copy.status \in {"running", "torn"}}

(* A crash, which may cut off a line of the log, and the startup.  running *)
(* lists rt_*.json, which the temporary file of a runtime matches too.     *)
InterruptedRuntimes ==
  {r \in [doc: Docs, copy: {main[d] : d \in Docs} \cup {temp[d] : d \in Docs}] :
     /\ kind[r.doc] = "runtime" /\ r.copy \in {main[r.doc], temp[r.doc]}
     /\ r.copy.status = "running"}

Stop ==
  /\ stops < MaxStops /\ up
  /\ stops' = stops + 1
  /\ up' = FALSE
  /\ worker' = [w \in Workers |-> Resting]
  /\ ragged' \in {ragged, ragged \/ \E w \in Workers : Is(w, "tell") /\ kind[worker[w].doc] # "session"}
  /\ todo' = InterruptedRuntimes
  /\ started' = {}
  /\ UNCHANGED <<kind, Stored, events, attached, raced>>

(* A crash of the startup itself: it begins anew.                          *)
StopStartup ==
  /\ stops < MaxStops /\ ~up
  /\ stops' = stops + 1
  /\ worker' = [w \in Workers |-> Resting]
  /\ todo' = InterruptedRuntimes
  /\ UNCHANGED <<kind, Stored, up, Told, raced, started>>

(* recover: each in turn is marked RECOVERED and saved.                    *)
RecoverNext(w, r) ==
  /\ ~up /\ r \in todo /\ \A v \in Workers : Is(v, "idle")
  /\ todo' = todo \ {r}
  /\ worker' = [worker EXCEPT ![w] = Holding(r.doc, Moved(r.copy, "recovered"), FALSE)]
  /\ UNCHANGED <<kind, Stored, up, Told, stops, raced, started>>

(* Slip: one runtime is enough.                                            *)
ServeEarly ==
  /\ ~up /\ \A v \in Workers : Is(v, "idle")
  /\ up' = TRUE
  /\ todo' = {}
  /\ UNCHANGED <<kind, Stored, worker, Told, stops, raced, started>>

Serve ==
  /\ ~up /\ todo = {} /\ \A v \in Workers : Is(v, "idle")
  /\ up' = TRUE
  /\ UNCHANGED <<kind, Stored, worker, todo, Told, stops, raced, started>>

Request(w) ==
  \/ \E d \in Docs :
       \/ CreateSession(w, d) \/ CreateAgent(w, d) \/ CreateTeam(w, d)
       \/ CreateRuntime(w, d) \/ CreateTask(w, d)
       \/ \E st \in Statuses :
            \/ MoveSession(w, d, st) \/ MoveAgent(w, d, st) \/ MoveTeam(w, d, st)
            \/ MoveRuntime(w, d, st) \/ MoveTask(w, d, st)
  \/ SaveRow(w) \/ OpenTemp(w) \/ WriteTemp(w) \/ RenameTemp(w) \/ RenameFails(w)
  \/ Publish(w) \/ AttachSession(w)
  \/ \E r \in todo : RecoverNext(w, r)

CoordNext == (\E w \in Workers : Request(w)) \/ Stop \/ StopStartup \/ Serve

CoordSpec == CoordInit /\ [][CoordNext]_coordVars

-----------------------------------------------------------------------------
(* Properties.                                                             *)

(* Type correctness of the stored documents, the copies and the log.       *)
CoordTypeOK ==
  /\ kind \in [Docs -> Kinds \cup {"none"}]
  /\ main \in [Docs -> Written \cup {Absent, Torn}]
  /\ temp \in [Docs -> Written \cup {Absent, Torn}]
  /\ worker \in [Workers -> Worker]
  /\ up \in BOOLEAN /\ ragged \in BOOLEAN
  /\ todo \subseteq [doc: Docs, copy: Written]
  /\ events \in [Docs -> [Statuses -> Nat]]
  /\ attached \subseteq Docs /\ raced \subseteq Docs /\ started \subseteq Docs
  /\ stops \in 0..MaxStops

(* A stored document tells a possible story, whatever was saved over what  *)
(* and whatever a crash left behind: its history is a walk through its     *)
(* table from the first status to the one it is in.                        *)
LegalWalk(k, doc) ==
  LET h == doc.history IN
  /\ h # << >> /\ h[1] = First[k] /\ h[Len(h)] = doc.status
  /\ \A i \in 1..(Len(h) - 1) : h[i] \in DOMAIN Moves[k] /\ h[i + 1] \in Moves[k][h[i]]

HistoryIsLegalWalk == \A d \in Docs : Readable(main[d]) => LegalWalk(kind[d], main[d])

(* A document that is over stays so, unless two requests held copies of it *)
(* at the same time.                                                       *)
OverIsFinal ==
  [][\A d \in Docs :
       main[d].status \in {"completed", "failed", "cancelled"} /\ d \notin raced =>
         main'[d] = main[d]]_coordVars

(* A crash never leaves a half-written document, only a half-written file  *)
(* beside it; two threads that save the same one may.                      *)
DocumentsStayWhole == \A d \in Docs : main[d] = Torn => d \in raced

(* After a restart no runtime goes on by itself: one that is RUNNING was   *)
(* moved there by a request of this run of the process, also if the crash  *)
(* came between the writing and the renaming of its file.                  *)
NoRuntimeResumesByItself ==
  up => \A d \in Docs : kind[d] = "runtime" /\ main[d].status = "running" => d \in started

(* The log's TASK_COMPLETED is true, and is there exactly once for a task  *)
(* that is COMPLETED, unless a crash came between the row and the event.   *)
CompletionIsAnnounced ==
  \A d \in Docs : kind[d] = "task" /\ d \notin raced =>
    /\ events[d]["completed"] > 0 => main[d].status = "completed"
    /\ main[d].status = "completed" /\ stops = 0 /\ (\A w \in Workers : worker[w].doc # d)
         => events[d]["completed"] = 1

(* Whoever finds a document named in the log, or by an approval, finds the *)
(* document: it was saved before it was told of.                           *)
NamedExists ==
  \A d \in Docs :
    d \in attached \/ (\E st \in Statuses : events[d][st] > 0) => main[d] # Absent

(* A task, an agent or a runtime has come to where it is by legal moves    *)
(* that somebody asked for, its document is whole, and its events tell of  *)
(* it.                                                                     *)
WorkIsAccountedFor ==
  /\ [](CoordTypeOK /\ HistoryIsLegalWalk /\ DocumentsStayWhole)
  /\ [](NoRuntimeResumesByItself /\ CompletionIsAnnounced /\ NamedExists)
  /\ OverIsFinal
=============================================================================
