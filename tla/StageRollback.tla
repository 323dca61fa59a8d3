--------------------------- MODULE StageRollback ---------------------------
(***************************************************************************)
(* Undoing a workflow stage (local-bridge/app/workflow/rollback.py): just  *)
(* before an approved request of the stage is run, its target (a file, a   *)
(* memory document, or the repository's HEAD) is captured, once for each   *)
(* request; a rollback puts the captured states back, latest first, and    *)
(* goes on when one of them cannot be.                                     *)
(***************************************************************************)
EXTENDS Naturals, FiniteSets, Functions

CONSTANTS
  Actions,      \* the stage's requests
  Targets,      \* what they write
  TargetOf,     \* the target of each
  Runners,      \* threads
  MaxRollbacks, \* bound
  MaxMishaps    \* bound: writes that no request of the stage makes, captured
                \* states that cannot be put back, and crashes

ASSUME RollbackAssumption ==
  TargetOf \in [Actions -> Targets] /\ {MaxRollbacks, MaxMishaps} \subseteq Nat
ASSUME RollbackNames == Actions \cap {"none", "missing", "half written"} = {}

VARIABLES
  heads,      \* the targets that are a repository's HEAD, not a file
  target,     \* what is at each target
  snapshot,   \* the captured state of each request
  clock,      \* time_ns
  runner,     \* per thread: what it does, and with which values
  taken,      \* how many threads have begun to run a request
  spent,      \* requests of which a crash cut off the run
  bounds,     \* mishaps and rollbacks so far
  \* history variables: no guard reads them
  original,   \* what was at a target before its first request
  muddled,    \* targets with two requests under way at the same time
  edited,     \* targets that others have written since their first request
  changed     \* requests that have changed their target

rollbackVars == <<heads, target, snapshot, clock, runner, taken, spent, bounds,
                  original, muddled, edited, changed>>

-----------------------------------------------------------------------------
Nothing == "nothing"     \* no file, no commit
Before == "before"
Others == "others"       \* content of somebody else
States == Actions \cup {Nothing, Before, Others}

Missing == [at |-> 0, state |-> "missing"]
HalfWritten == [at |-> 0, state |-> "half written"]
Snapshot == [at: Nat, state: States]
Whole(s) == s \notin {Missing, HalfWritten}

Runner ==
  [at: {"rest", "read", "store", "act", "restore", "restored"}, action: Actions \cup {"none"},
   since: Nat, state: States, todo: SUBSET Actions, failed: SUBSET Actions]
AtRest == [at |-> "rest", action |-> "none", since |-> 0, state |-> Nothing,
           todo |-> {}, failed |-> {}]
Counters == [mishaps: 0..MaxMishaps, rollbacks: 0..MaxRollbacks]
Counts(name, bound) == bounds[name] < bound /\ bounds' = [bounds EXCEPT ![name] = @ + 1]
Mishap == Counts("mishaps", MaxMishaps)

DoesAt(w, at) == runner[w].at = at
TargetsOf(A) == {TargetOf[a] : a \in A}
Running(w) == runner[w].at \in {"read", "store", "act"}
Rollbacks == {w \in Runners : runner[w].at \in {"restore", "restored"}}

RollbackInit ==
  /\ heads \in SUBSET Targets
  /\ target \in [Targets -> {Nothing, Before}]
  /\ snapshot = [a \in Actions |-> Missing]
  /\ clock = 1
  /\ runner = [w \in Runners |-> AtRest]
  /\ taken = [a \in Actions |-> 0] /\ spent = {}
  /\ bounds = [mishaps |-> 0, rollbacks |-> 0]
  /\ original = [t \in Targets |-> "none"]
  /\ muddled = {} /\ edited = {} /\ changed = {}

-----------------------------------------------------------------------------
(* Slip: the state is captured anew by each thread.                        *)
BeginRunAnew(w, a) ==
  LET t == TargetOf[a] IN
  /\ DoesAt(w, "rest") /\ taken[a] < 2 /\ a \notin spent
  /\ taken' = [taken EXCEPT ![a] = @ + 1]
  /\ runner' = [runner EXCEPT ![w] = [AtRest EXCEPT !.at = "read", !.action = a, !.since = clock]]
  /\ clock' = clock + 1
  /\ original' = IF original[t] = "none" THEN [original EXCEPT ![t] = target[t]] ELSE original
  /\ muddled' = muddled \cup {u \in {t} : Rollbacks # {} \/
                  \E v \in Runners \ {w} : Running(v) /\ TargetOf[runner[v].action] = u}
  /\ UNCHANGED <<heads, target, snapshot, spent, bounds, edited, changed>>

(* An approved request is run, by two threads if both approved it before   *)
(* either wrote that.  capture: nothing to do if there is a file already;  *)
(* else the time is taken first, then the state.                           *)
BeginRun(w, a) ==
  LET t == TargetOf[a]
      fresh == snapshot[a] = Missing
  IN
  /\ DoesAt(w, "rest") /\ taken[a] < 2 /\ a \notin spent
  /\ taken' = [taken EXCEPT ![a] = @ + 1]
  /\ runner' = [runner EXCEPT ![w] = [AtRest EXCEPT !.at = IF fresh THEN "read" ELSE "act",
                                                    !.action = a, !.since = clock]]
  /\ clock' = IF fresh THEN clock + 1 ELSE clock
  /\ original' = IF original[t] = "none" THEN [original EXCEPT ![t] = target[t]] ELSE original
  /\ muddled' = muddled \cup {u \in {t} : Rollbacks # {} \/
                  \E v \in Runners \ {w} : Running(v) /\ TargetOf[runner[v].action] = u}
  /\ UNCHANGED <<heads, target, snapshot, spent, bounds, edited, changed>>

(* Slip: the action is run before its snapshot is stored.                  *)
ReadTargetActs(w) ==
  LET a == runner[w].action IN
  /\ DoesAt(w, "read")
  /\ runner' = [runner EXCEPT ![w].at = "store", ![w].state = target[TargetOf[a]]]
  /\ target' = [target EXCEPT ![TargetOf[a]] = a]
  /\ changed' = changed \cup {a}
  /\ UNCHANGED <<heads, snapshot, clock, taken, spent, bounds, original, muddled, edited>>

(* _capture_file, or git rev-parse HEAD.                                   *)
ReadTarget(w) ==
  /\ DoesAt(w, "read")
  /\ runner' = [runner EXCEPT ![w].at = "store", ![w].state = target[TargetOf[runner[w].action]]]
  /\ UNCHANGED <<heads, target, snapshot, clock, taken, spent, bounds, original, muddled,
                 edited, changed>>

(* Slip: the snapshot holds the target's name, not its content.            *)
StoreSnapshotName(w) ==
  LET c == runner[w] IN
  /\ DoesAt(w, "store")
  /\ snapshot' = [snapshot EXCEPT ![c.action] = [at |-> c.since, state |-> TargetOf[c.action]]]
  /\ runner' = [runner EXCEPT ![w].at = "act"]
  /\ UNCHANGED <<heads, target, clock, taken, spent, bounds, original, muddled, edited, changed>>

(* write_text: not beside and renamed, but in its place.                   *)
StoreSnapshot(w) ==
  LET c == runner[w] IN
  /\ DoesAt(w, "store")
  /\ snapshot' = [snapshot EXCEPT ![c.action] = [at |-> c.since, state |-> c.state]]
  /\ runner' = [runner EXCEPT ![w].at = "act"]
  /\ UNCHANGED <<heads, target, clock, taken, spent, bounds, original, muddled, edited, changed>>

(* The action itself; it may fail and change nothing.                      *)
Act(w) ==
  LET a == runner[w].action IN
  /\ DoesAt(w, "act")
  /\ \/ target' = [target EXCEPT ![TargetOf[a]] = a] /\ changed' = changed \cup {a}
     \/ UNCHANGED <<heads, target, changed>>
  /\ runner' = [runner EXCEPT ![w] = AtRest]
  /\ UNCHANGED <<heads, snapshot, clock, taken, spent, bounds, original, muddled, edited>>

(* Slip: the snapshots are put back in the order of their capture.         *)
NextToRestoreOldest(todo) ==
  CHOOSE a \in todo : \A b \in todo : snapshot[a].at <= snapshot[b].at

(* _ordered_snapshots: newest first.                                       *)
NextToRestore(todo) ==
  CHOOSE a \in todo : \A b \in todo : snapshot[a].at >= snapshot[b].at

(* restore, an action of its own.  A snapshot that cannot be parsed stops  *)
(* it before anything is put back, and so does having none.                *)
BeginRollback(w) ==
  LET found == {a \in Actions : snapshot[a] # Missing} IN
  /\ DoesAt(w, "rest") /\ found # {} /\ \A a \in found : Whole(snapshot[a])
  /\ Counts("rollbacks", MaxRollbacks)
  /\ runner' = [runner EXCEPT ![w] = [AtRest EXCEPT !.at = "restore", !.todo = found]]
  /\ muddled' = muddled \cup TargetsOf({runner[v].action : v \in {u \in Runners : Running(u)}})
                        \cup (IF Rollbacks = {} THEN {} ELSE Targets)
  /\ UNCHANGED <<heads, target, snapshot, clock, taken, spent, original, edited, changed>>

Finished(w) == runner[w].todo = {}

(* One captured state is put back, or it cannot be; a HEAD that had no     *)
(* commit is left alone.                                                   *)
RestoreOne(w) ==
  LET c == runner[w]
      a == NextToRestore(c.todo)
      t == TargetOf[a]
  IN
  /\ DoesAt(w, "restore") /\ ~Finished(w)
  /\ \/ /\ target' = IF t \in heads /\ snapshot[a].state = Nothing THEN target
                     ELSE [target EXCEPT ![t] = snapshot[a].state]
        /\ runner' = [runner EXCEPT ![w].todo = @ \ {a}]
        /\ UNCHANGED bounds
     \/ /\ Mishap
        /\ runner' = [runner EXCEPT ![w].todo = @ \ {a}, ![w].failed = @ \cup {a}]
        /\ UNCHANGED target
  /\ UNCHANGED <<heads, snapshot, clock, taken, spent, original, muddled, edited, changed>>

EndRollback(w) ==
  \/ /\ DoesAt(w, "restore") /\ Finished(w)
     /\ runner' = [runner EXCEPT ![w].at = "restored"]
     /\ UNCHANGED <<heads, target, snapshot, clock, taken, spent, bounds, original,
                    muddled, edited, changed>>
  \/ /\ DoesAt(w, "restored")
     /\ runner' = [runner EXCEPT ![w] = AtRest]
     /\ UNCHANGED <<heads, target, snapshot, clock, taken, spent, bounds, original,
                    muddled, edited, changed>>

(* The user, or a request that is bound to no stage.                       *)
EditTarget(t) ==
  /\ Mishap
  /\ target' = [target EXCEPT ![t] = Others]
  /\ edited' = IF original[t] = "none" THEN edited ELSE edited \cup {t}
  /\ UNCHANGED <<heads, snapshot, clock, runner, taken, spent, original, muddled, changed>>

(* A crash.  A request whose run was cut off stays APPROVED and is not run *)
(* again; its snapshot may be half written.                                *)
CutOff ==
  /\ Mishap
  /\ LET storing == {runner[w].action : w \in {v \in Runners : DoesAt(v, "store")}} IN
     \E half \in SUBSET storing :
       snapshot' = [a \in Actions |-> IF a \in half THEN HalfWritten ELSE snapshot[a]]
  /\ runner' = [w \in Runners |-> AtRest]
  /\ spent' = spent \cup {a \in Actions : taken[a] > 0}
  /\ UNCHANGED <<heads, target, clock, taken, original, muddled, edited, changed>>

RollbackNext ==
  \/ \E w \in Runners :
       \/ \E a \in Actions : BeginRun(w, a)
       \/ ReadTarget(w) \/ StoreSnapshot(w) \/ Act(w)
       \/ BeginRollback(w) \/ RestoreOne(w) \/ EndRollback(w)
  \/ \E t \in Targets : EditTarget(t)
  \/ CutOff

RollbackSpec == RollbackInit /\ [][RollbackNext]_rollbackVars

-----------------------------------------------------------------------------
(* Properties.                                                             *)

(* Type correctness of targets, snapshots and threads.                     *)
RollbackTypeOK ==
  /\ heads \subseteq Targets /\ target \in [Targets -> States]
  /\ snapshot \in [Actions -> Snapshot \cup {Missing, HalfWritten}]
  /\ clock \in Nat /\ runner \in [Runners -> Runner]
  /\ taken \in [Actions -> 0..2] /\ spent \subseteq Actions /\ bounds \in Counters
  /\ original \in [Targets -> States \cup {"none"}]
  /\ muddled \subseteq Targets /\ edited \subseteq Targets /\ changed \subseteq Actions

(* What a rollback has put back is what was there before the stage's first *)
(* request: through requests that were run twice, earlier rollbacks, later *)
(* requests and states of other requests that could not be put back; only  *)
(* not where two requests overlapped, somebody else wrote, the first state *)
(* itself failed, or HEAD had no commit.                                   *)
FirstOf(t) == {a \in Actions : TargetOf[a] = t /\ Whole(snapshot[a]) /\
                 \A b \in Actions : TargetOf[b] = t /\ Whole(snapshot[b]) =>
                   snapshot[a].at <= snapshot[b].at}

RollbackBringsBack ==
  \A w \in Runners : DoesAt(w, "restored") =>
    \A t \in Targets \ (muddled \cup edited) :
      /\ FirstOf(t) # {} /\ FirstOf(t) \cap runner[w].failed = {}
      /\ ~(t \in heads /\ original[t] = Nothing)
      => target[t] = original[t]

(* Whatever a request of the stage has changed can be undone: its state    *)
(* was captured, whole, before the change, also when a crash follows.      *)
ChangedIsCaptured ==
  \A a \in changed : TargetOf[a] \notin muddled => Whole(snapshot[a])

(* A stage can be rolled back, to what was there before it.                *)
StageCanBeUndone == RollbackTypeOK /\ RollbackBringsBack /\ ChangedIsCaptured
=============================================================================
