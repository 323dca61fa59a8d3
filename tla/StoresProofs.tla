---------------------------- MODULE StoresProofs -----------------------------
(***************************************************************************)
(* Theorems about what the bridge keeps on disk, for any number of         *)
(* threads, requests and crashes.                                          *)
(***************************************************************************)
EXTENDS StageRollback, Conflicts, Backups, Memory, AuditTrail, NaturalsInduction,
        WellFoundedInduction, SequenceTheorems, TLAPS

-----------------------------------------------------------------------------
(* StageRollback.  What is at a target changes only behind a snapshot that *)
(* is whole, and the earliest snapshot of a target has what was there      *)
(* before the stage, because nothing had been run on it by then.  Where    *)
(* requests do not overlap on a target, a snapshot that is about to be     *)
(* stored is later than all there are.                                     *)

Captures(w) == runner[w].at \in {"read", "store"}

RollbackTypes ==
  /\ RollbackTypeOK
  /\ \A a \in Actions : snapshot[a].at < clock
  /\ \A w \in Runners :
       /\ Running(w) => runner[w].action \in Actions
       /\ Captures(w) => runner[w].since < clock
       /\ w \in Rollbacks => \A a \in runner[w].todo : Whole(snapshot[a])

WorksOn(w, t) == Running(w) /\ TargetOf[runner[w].action] = t

RunsInv ==
  /\ \A w \in Runners : Running(w) =>
       taken[runner[w].action] > 0 /\ original[TargetOf[runner[w].action]] # "none"
  /\ \A a \in Actions : snapshot[a] = HalfWritten => a \in spent
  /\ \A w \in Runners : DoesAt(w, "act") => Whole(snapshot[runner[w].action])
  /\ \A t \in Targets \ muddled :
       /\ \A w, v \in Runners : WorksOn(w, t) /\ WorksOn(v, t) => w = v
       /\ \A w \in Runners : WorksOn(w, t) => Rollbacks = {}
       /\ \A w \in Runners : WorksOn(w, t) /\ Captures(w) =>
            /\ snapshot[runner[w].action] = Missing
            /\ \A b \in Actions : TargetOf[b] = t /\ Whole(snapshot[b]) =>
                 snapshot[b].at < runner[w].since
       /\ \A a \in changed : TargetOf[a] = t => Whole(snapshot[a])

FirstInv ==
  /\ \A t \in Targets : original[t] = "none" =>
       \A a \in Actions : TargetOf[a] = t => snapshot[a] = Missing
  /\ \A t \in Targets \ (muddled \cup edited) : original[t] # "none" =>
       /\ (\A a \in Actions : TargetOf[a] = t => ~Whole(snapshot[a])) => target[t] = original[t]
       /\ \A a \in FirstOf(t) : snapshot[a].state = original[t]
       /\ \A w \in Runners : WorksOn(w, t) /\ DoesAt(w, "store") => runner[w].state = target[t]

(* A rollback has the first snapshot of a target still before it, or has   *)
(* put it back and has no other one of the target left.                    *)
BringsBack(w, t) ==
  /\ FirstOf(t) # {} /\ FirstOf(t) \cap runner[w].failed = {}
  /\ ~(t \in heads /\ original[t] = Nothing)
  => \/ FirstOf(t) \cap runner[w].todo # {}
     \/ target[t] = original[t] /\ \A a \in runner[w].todo : TargetOf[a] # t

RestoreInv ==
  /\ \A w, v \in Rollbacks : w # v => Targets \subseteq muddled
  /\ \A w \in Rollbacks : DoesAt(w, "restored") => Finished(w)
  /\ \A w \in Rollbacks, t \in Targets \ (muddled \cup edited) : BringsBack(w, t)

StageInv == RollbackTypes /\ RunsInv /\ FirstInv /\ RestoreInv

(* A set of numbers that is not empty has a smallest one.                  *)
LEMMA SmallestExists ==
  ASSUME NEW S \in SUBSET Nat, S # {}
  PROVE  \E k \in S : \A j \in S : k <= j
<1>1. PICK k \in S : \A j \in S : ~ (<<j, k>> \in OpToRel(<, Nat))
  BY WFMin, NatLessThanWellFounded
<1>2. SUFFICES ASSUME NEW j \in S, j < k
               PROVE  FALSE
  OBVIOUS
<1>3. <<j, k>> \in Nat \X Nat /\ <<j, k>>[1] < <<j, k>>[2]
  BY <1>2
<1> QED
  BY <1>1, <1>3, Zenon DEF OpToRel

(* A bounded set of numbers that is not empty has a largest one.           *)
LEMMA LargestExists ==
  ASSUME NEW S \in SUBSET Nat, NEW n \in Nat, S # {}, \A i \in S : i <= n
  PROVE  \E i \in S : \A j \in S : j <= i
<1> DEFINE back == {n - i : i \in S}
<1>1. back \subseteq Nat /\ back # {}
  <2>1. \A i \in S : n - i \in Nat
    OBVIOUS
  <2> QED BY <2>1
<1>3. PICK k \in back : \A j \in back : k <= j
  <2> HIDE DEF back
  <2> QED
    BY <1>1, SmallestExists
<1>4. PICK i \in S : k = n - i
  OBVIOUS
<1>5. ASSUME NEW j \in S
      PROVE  j <= i
  <2>1. k <= n - j
    BY <1>3
  <2> QED BY <2>1, <1>4
<1> QED BY <1>5

(* The time of a snapshot, or of none.                                     *)
LEMMA SnapshotTimes == RollbackTypeOK => \A b \in Actions : snapshot[b].at \in Nat
<1> SUFFICES ASSUME RollbackTypeOK, NEW b \in Actions
             PROVE  snapshot[b].at \in Nat
  OBVIOUS
<1>1. snapshot[b] \in Snapshot \cup {Missing, HalfWritten}
  BY DEF RollbackTypeOK
<1>2. Missing.at = 0 /\ HalfWritten.at = 0
  BY DEF Missing, HalfWritten
<1>3. snapshot[b] \in Snapshot => snapshot[b].at \in Nat
  BY DEF Snapshot
<1> QED BY <1>1, <1>2, <1>3

(* The next snapshot to put back is one of those left, and the latest.     *)
LEMMA NextIsLatest ==
  ASSUME RollbackTypes, NEW todo \in SUBSET Actions, todo # {},
         \A a \in todo : Whole(snapshot[a])
  PROVE  /\ NextToRestore(todo) \in todo
         /\ \A b \in todo : snapshot[b].at <= snapshot[NextToRestore(todo)].at
<1> DEFINE S == {snapshot[a].at : a \in todo}
<1>1. \A a \in todo : snapshot[a].at \in Nat /\ snapshot[a].at <= clock
  BY DEF RollbackTypes, RollbackTypeOK, Snapshot, Whole
<1>2. S \in SUBSET Nat /\ S # {} /\ \A i \in S : i <= clock
  BY <1>1
<1>3. PICK i \in S : \A j \in S : j <= i
  <2>1. clock \in Nat
    BY DEF RollbackTypes, RollbackTypeOK
  <2> HIDE DEF S
  <2> QED BY <1>2, <2>1, LargestExists
<1>4. \E a \in todo : \A b \in todo : snapshot[a].at >= snapshot[b].at
  BY <1>1, <1>3
<1> QED BY <1>1, <1>4 DEF NextToRestore

(* What one thread goes on to.                                             *)
GoesTo(w, at, a, since, st, todo, failed) ==
  /\ runner' \in [Runners -> Runner]
  /\ \A v \in Runners : v # w => runner'[v] = runner[v]
  /\ runner'[w].at = at /\ runner'[w].action = a /\ runner'[w].since = since
  /\ runner'[w].state = st /\ runner'[w].todo = todo /\ runner'[w].failed = failed

(* Where each step of a run or a rollback leads its thread.                *)
LEMMA BeginRunGoes ==
  ASSUME RollbackTypes, NEW w \in Runners, NEW a \in Actions, BeginRun(w, a)
  PROVE  GoesTo(w, IF snapshot[a] = Missing THEN "read" ELSE "act", a, clock, Nothing, {}, {})
BY DEF BeginRun, GoesTo, RollbackTypes, RollbackTypeOK, Runner, AtRest, States

(* The state of the target is read,                                        *)
LEMMA ReadTargetGoes ==
  ASSUME RollbackTypes, NEW w \in Runners, ReadTarget(w)
  PROVE  GoesTo(w, "store", runner[w].action, runner[w].since, target[TargetOf[runner[w].action]],
                runner[w].todo, runner[w].failed)
<1>1. target[TargetOf[runner[w].action]] \in States
  BY RollbackAssumption DEF ReadTarget, RollbackTypes, RollbackTypeOK, Running, DoesAt
<1> QED BY <1>1 DEF ReadTarget, GoesTo, RollbackTypes, RollbackTypeOK, Runner

(* stored,                                                                 *)
LEMMA StoreSnapshotGoes ==
  ASSUME RollbackTypes, NEW w \in Runners, StoreSnapshot(w)
  PROVE  GoesTo(w, "act", runner[w].action, runner[w].since, runner[w].state,
                runner[w].todo, runner[w].failed)
BY DEF StoreSnapshot, GoesTo, RollbackTypes, RollbackTypeOK, Runner

(* and the action carried out.                                             *)
LEMMA ActGoes ==
  ASSUME RollbackTypes, NEW w \in Runners, Act(w)
  PROVE  GoesTo(w, "rest", "none", 0, Nothing, {}, {})
BY DEF Act, GoesTo, RollbackTypes, RollbackTypeOK, Runner, AtRest, States

(* A rollback begins with the snapshots that are there,                    *)
LEMMA BeginRollbackGoes ==
  ASSUME RollbackTypes, NEW w \in Runners, BeginRollback(w)
  PROVE  GoesTo(w, "restore", "none", 0, Nothing, {a \in Actions : snapshot[a] # Missing}, {})
BY DEF BeginRollback, GoesTo, RollbackTypes, RollbackTypeOK, Runner, AtRest, States

(* restores one after the other,                                           *)
LEMMA RestoreOneGoes ==
  ASSUME RollbackTypes, NEW w \in Runners, RestoreOne(w)
  PROVE  LET c == runner[w]
             a == NextToRestore(c.todo)
         IN /\ a \in c.todo /\ a \in Actions /\ Whole(snapshot[a])
            /\ \A b \in c.todo : snapshot[b].at <= snapshot[a].at
            /\ \/ /\ GoesTo(w, "restore", c.action, c.since, c.state, c.todo \ {a}, c.failed)
                  /\ target' = IF TargetOf[a] \in heads /\ snapshot[a].state = Nothing THEN target
                               ELSE [target EXCEPT ![TargetOf[a]] = snapshot[a].state]
               \/ /\ GoesTo(w, "restore", c.action, c.since, c.state, c.todo \ {a}, c.failed \cup {a})
                  /\ target' = target
<1> DEFINE c == runner[w]
           a == NextToRestore(c.todo)
<1>1. /\ c \in Runner /\ c.todo \in SUBSET Actions /\ c.todo # {} /\ c.at = "restore"
      /\ \A b \in c.todo : Whole(snapshot[b])
  BY DEF RestoreOne, Finished, DoesAt, RollbackTypes, RollbackTypeOK, Runner, Rollbacks
<1>2. a \in c.todo /\ \A b \in c.todo : snapshot[b].at <= snapshot[a].at
  BY <1>1, NextIsLatest
<1>3. a \in Actions /\ Whole(snapshot[a])
  BY <1>1, <1>2
<1>4. \/ /\ runner' = [runner EXCEPT ![w].todo = @ \ {a}]
         /\ target' = IF TargetOf[a] \in heads /\ snapshot[a].state = Nothing THEN target
                      ELSE [target EXCEPT ![TargetOf[a]] = snapshot[a].state]
      \/ runner' = [runner EXCEPT ![w].todo = @ \ {a}, ![w].failed = @ \cup {a}] /\ target' = target
  BY DEF RestoreOne
<1> HIDE DEF a
<1>5. runner \in [Runners -> Runner]
  BY DEF RollbackTypes, RollbackTypeOK
<1>6. \/ /\ GoesTo(w, "restore", c.action, c.since, c.state, c.todo \ {a}, c.failed)
         /\ target' = IF TargetOf[a] \in heads /\ snapshot[a].state = Nothing THEN target
                      ELSE [target EXCEPT ![TargetOf[a]] = snapshot[a].state]
      \/ /\ GoesTo(w, "restore", c.action, c.since, c.state, c.todo \ {a}, c.failed \cup {a})
         /\ target' = target
  BY <1>1, <1>3, <1>4, <1>5 DEF GoesTo, Runner
<1> QED BY <1>2, <1>3, <1>6 DEF a

(* and ends.                                                               *)
LEMMA EndRollbackGoes ==
  ASSUME RollbackTypes, NEW w \in Runners, EndRollback(w)
  PROVE  \/ /\ DoesAt(w, "restore") /\ Finished(w)
            /\ GoesTo(w, "restored", runner[w].action, runner[w].since, runner[w].state,
                      runner[w].todo, runner[w].failed)
         \/ DoesAt(w, "restored") /\ GoesTo(w, "rest", "none", 0, Nothing, {}, {})
<1>1. runner \in [Runners -> Runner]
  BY DEF RollbackTypes, RollbackTypeOK
<1>2. CASE DoesAt(w, "restore") /\ Finished(w) /\ runner' = [runner EXCEPT ![w].at = "restored"]
  <2>1. runner'[w] = [runner[w] EXCEPT !.at = "restored"] /\ runner[w] \in Runner
    BY <1>1, <1>2
  <2>2. runner'[w] \in Runner
    BY <2>1 DEF Runner
  <2>3. runner' \in [Runners -> Runner] /\ \A v \in Runners : v # w => runner'[v] = runner[v]
    BY <1>1, <1>2, <2>1, <2>2
  <2> QED BY <1>2, <2>1, <2>3 DEF GoesTo, Runner
<1>3. CASE DoesAt(w, "restored") /\ runner' = [runner EXCEPT ![w] = AtRest]
  <2>1. AtRest \in Runner
    BY DEF AtRest, Runner, States
  <2> QED BY <1>1, <1>3, <2>1 DEF GoesTo, AtRest
<1> QED BY <1>2, <1>3 DEF EndRollback

(* At first no snapshot is taken.                                          *)
LEMMA RollbackTypesInit == RollbackInit => RollbackTypes
BY RollbackAssumption
DEF RollbackInit, RollbackTypes, RollbackTypeOK, AtRest, Runner, States, Missing, Counters,
    Running, Captures, Rollbacks

(* The threads' part of it, after a step of one.                           *)
LEMMA RollbackTypesGo ==
  ASSUME RollbackTypes, RollbackTypeOK', NEW w \in Runners, NEW at, NEW a, NEW since, NEW st,
         NEW todo, NEW failed, GoesTo(w, at, a, since, st, todo, failed),
         clock <= clock', \A b \in Actions : snapshot'[b].at < clock',
         \A b \in Actions : Whole(snapshot[b]) => Whole(snapshot'[b]),
         at \in {"read", "store", "act"} => a \in Actions,
         at \in {"read", "store"} => since < clock',
         at \in {"restore", "restored"} => todo \subseteq Actions /\ \A b \in todo : Whole(snapshot'[b])
  PROVE  RollbackTypes'
<1>1. ASSUME NEW v \in Runners, v # w
      PROVE  /\ Running(v)' => runner'[v].action \in Actions
             /\ Captures(v)' => runner'[v].since < clock'
             /\ v \in Rollbacks' => \A b \in runner'[v].todo : Whole(snapshot[b])'
  <2>1. runner'[v] = runner[v] /\ runner[v].todo \subseteq Actions
    BY <1>1 DEF GoesTo, RollbackTypes, RollbackTypeOK, Runner
  <2>2. runner[v].since \in Nat /\ clock \in Nat /\ clock' \in Nat
    BY <1>1 DEF RollbackTypes, RollbackTypeOK, Runner
  <2> QED BY <2>1, <2>2 DEF RollbackTypes, Running, Captures, Rollbacks, Whole
<1>2. /\ Running(w)' => runner'[w].action \in Actions
      /\ Captures(w)' => runner'[w].since < clock'
      /\ w \in Rollbacks' => \A b \in runner'[w].todo : Whole(snapshot[b])'
  BY DEF GoesTo, Running, Captures, Rollbacks, Whole
<1> QED BY <1>1, <1>2 DEF RollbackTypes

(* Every step keeps the types.                                             *)
LEMMA RollbackTypesStep ==
  ASSUME RollbackTypes, [RollbackNext]_rollbackVars
  PROVE  RollbackTypes'
<1>t. RollbackTypeOK /\ clock \in Nat /\ \A b \in Actions : snapshot[b].at < clock
  BY DEF RollbackTypes, RollbackTypeOK
<1> USE RollbackAssumption
<1>1. ASSUME NEW w \in Runners, NEW a \in Actions, BeginRun(w, a)
      PROVE  RollbackTypes'
  <2>1. GoesTo(w, IF snapshot[a] = Missing THEN "read" ELSE "act", a, clock, Nothing, {}, {})
    BY <1>1, BeginRunGoes
  <2>2. taken' \in [Actions -> 0..2]
    BY <1>1, <1>t DEF BeginRun, RollbackTypeOK
  <2>3. original' \in [Targets -> States \cup {"none"}]
    BY <1>1, <1>t DEF BeginRun, RollbackTypeOK
  <2>4. muddled' \subseteq Targets
    BY <1>1, <1>t DEF BeginRun, RollbackTypeOK
  <2>5. clock' = IF snapshot[a] = Missing THEN clock + 1 ELSE clock
    BY <1>1 DEF BeginRun
  <2>6. UNCHANGED <<heads, target, snapshot, spent, bounds, edited, changed>>
    BY <1>1 DEF BeginRun
  <2>7. RollbackTypeOK'
    <3>1. clock' \in Nat /\ runner' \in [Runners -> Runner]
      BY <1>t, <2>1, <2>5 DEF GoesTo
    <3> QED BY <1>t, <2>2, <2>3, <2>4, <2>6, <3>1 DEF RollbackTypeOK
  <2>8. clock <= clock' /\ (\A b \in Actions : snapshot'[b].at < clock')
        /\ \A b \in Actions : Whole(snapshot[b]) => Whole(snapshot'[b])
    <3>1. \A b \in Actions : snapshot[b].at \in Nat
      BY <1>t, SnapshotTimes
    <3> QED BY <1>t, <2>5, <2>6, <3>1
  <2>10. CASE snapshot[a] = Missing
    BY <1>t, <2>1, <2>5, <2>7, <2>8, <2>10, RollbackTypesGo
  <2>11. CASE snapshot[a] # Missing
    BY <2>1, <2>7, <2>8, <2>11, RollbackTypesGo
  <2> QED BY <2>10, <2>11
<1>2. ASSUME NEW w \in Runners, ReadTarget(w)
      PROVE  RollbackTypes'
  <2>1. GoesTo(w, "store", runner[w].action, runner[w].since, target[TargetOf[runner[w].action]],
               runner[w].todo, runner[w].failed)
    BY <1>2, ReadTargetGoes
  <2>2. UNCHANGED <<heads, target, snapshot, clock, taken, spent, bounds, original, muddled,
                    edited, changed>>
    BY <1>2 DEF ReadTarget
  <2>3. RollbackTypeOK'
    BY <1>t, <2>1, <2>2 DEF RollbackTypeOK, GoesTo
  <2>4. runner[w].action \in Actions /\ runner[w].since < clock
    BY <1>2 DEF ReadTarget, DoesAt, RollbackTypes, Running, Captures
  <2> QED BY <1>t, <2>1, <2>2, <2>3, <2>4, RollbackTypesGo
<1>3. ASSUME NEW w \in Runners, StoreSnapshot(w)
      PROVE  RollbackTypes'
  <2>1. GoesTo(w, "act", runner[w].action, runner[w].since, runner[w].state,
               runner[w].todo, runner[w].failed)
    BY <1>3, StoreSnapshotGoes
  <2>2. UNCHANGED <<heads, target, clock, taken, spent, bounds, original, muddled, edited, changed>>
    BY <1>3 DEF StoreSnapshot
  <2>3. /\ runner[w].action \in Actions /\ runner[w].since \in Nat /\ runner[w].since < clock
        /\ runner[w].state \in States
    BY <1>3 DEF StoreSnapshot, DoesAt, RollbackTypes, RollbackTypeOK, Running, Captures, Runner
  <2>4. snapshot' = [snapshot EXCEPT ![runner[w].action] =
                       [at |-> runner[w].since, state |-> runner[w].state]]
    BY <1>3 DEF StoreSnapshot
  <2>5. /\ snapshot' \in [Actions -> Snapshot \cup {Missing, HalfWritten}]
        /\ \A b \in Actions : snapshot'[b].at < clock'
    BY <1>t, <2>2, <2>3, <2>4 DEF RollbackTypeOK, Snapshot
  <2>6. \A b \in Actions : Whole(snapshot[b]) => Whole(snapshot'[b])
    <3>1. [at |-> runner[w].since, state |-> runner[w].state] \notin {Missing, HalfWritten}
      BY <2>3, RollbackNames DEF Missing, HalfWritten, States, Nothing, Before, Others
    <3> QED BY <1>t, <2>3, <2>4, <3>1 DEF Whole, RollbackTypeOK
  <2>7. RollbackTypeOK'
    BY <1>t, <2>1, <2>2, <2>5 DEF RollbackTypeOK, GoesTo
  <2> QED BY <1>t, <2>1, <2>2, <2>3, <2>5, <2>6, <2>7, RollbackTypesGo
<1>4. ASSUME NEW w \in Runners, Act(w)
      PROVE  RollbackTypes'
  <2>1. GoesTo(w, "rest", "none", 0, Nothing, {}, {})
    BY <1>4, ActGoes
  <2>2. UNCHANGED <<heads, snapshot, clock, taken, spent, bounds, original, muddled, edited>>
    BY <1>4 DEF Act
  <2>3. runner[w].action \in Actions
    BY <1>4 DEF Act, DoesAt, RollbackTypes, Running
  <2>4. target' \in [Targets -> States] /\ changed' \subseteq Actions
    BY <1>4, <1>t, <2>3 DEF Act, RollbackTypeOK, States
  <2>5. RollbackTypeOK'
    BY <1>t, <2>1, <2>2, <2>4 DEF RollbackTypeOK, GoesTo
  <2> QED BY <1>t, <2>1, <2>2, <2>5, RollbackTypesGo
<1>5. ASSUME NEW w \in Runners, BeginRollback(w)
      PROVE  RollbackTypes'
  <2>1. GoesTo(w, "restore", "none", 0, Nothing, {a \in Actions : snapshot[a] # Missing}, {})
    BY <1>5, BeginRollbackGoes
  <2>2. /\ UNCHANGED <<heads, target, snapshot, clock, taken, spent, original, edited, changed>>
        /\ \A a \in {b \in Actions : snapshot[b] # Missing} : Whole(snapshot[a])
    BY <1>5 DEF BeginRollback
  <2>3. bounds' \in Counters
    BY <1>5, <1>t DEF BeginRollback, Counts, RollbackTypeOK, Counters
  <2>4. muddled' \subseteq Targets
    BY <1>5, <1>t DEF BeginRollback, TargetsOf, RollbackTypeOK, RollbackTypes
  <2>5. RollbackTypeOK'
    BY <1>t, <2>1, <2>2, <2>3, <2>4 DEF RollbackTypeOK, GoesTo
  <2> QED BY <1>t, <2>1, <2>2, <2>5, RollbackTypesGo
<1>6. ASSUME NEW w \in Runners, RestoreOne(w)
      PROVE  RollbackTypes'
  <2> DEFINE c == runner[w]
             a == NextToRestore(c.todo)
  <2>1. PICK failed : /\ a \in Actions /\ Whole(snapshot[a])
                      /\ GoesTo(w, "restore", c.action, c.since, c.state, c.todo \ {a}, failed)
    BY <1>6, RestoreOneGoes
  <2>2. UNCHANGED <<heads, snapshot, clock, taken, spent, original, muddled, edited, changed>>
    BY <1>6 DEF RestoreOne
  <2>3. bounds' \in Counters
    BY <1>6, <1>t DEF RestoreOne, Mishap, Counts, RollbackTypeOK, Counters
  <2>4. target' \in [Targets -> States]
    <3>1. snapshot[a].state \in States
      BY <1>t, <2>1 DEF RollbackTypeOK, Whole, Snapshot
    <3>2. \/ target' = target
          \/ target' = [target EXCEPT ![TargetOf[a]] = snapshot[a].state]
      BY <1>6 DEF RestoreOne
    <3> HIDE DEF a
    <3> QED BY <1>t, <3>1, <3>2 DEF RollbackTypeOK
  <2>5. c.todo \subseteq Actions /\ \A b \in c.todo : Whole(snapshot[b])
    BY <1>6, <1>t DEF RestoreOne, DoesAt, RollbackTypes, RollbackTypeOK, Rollbacks, Runner
  <2> HIDE DEF a
  <2>6. RollbackTypeOK'
    BY <1>t, <2>1, <2>2, <2>3, <2>4 DEF RollbackTypeOK, GoesTo
  <2> QED BY <1>t, <2>1, <2>2, <2>5, <2>6, RollbackTypesGo
<1>7. ASSUME NEW w \in Runners, EndRollback(w)
      PROVE  RollbackTypes'
  <2>1. UNCHANGED <<heads, target, snapshot, clock, taken, spent, bounds, original,
                    muddled, edited, changed>>
    BY <1>7 DEF EndRollback
  <2>2. CASE GoesTo(w, "restored", runner[w].action, runner[w].since, runner[w].state,
                    runner[w].todo, runner[w].failed) /\ Finished(w)
    <3>1. RollbackTypeOK'
      BY <1>t, <2>1, <2>2 DEF RollbackTypeOK, GoesTo
    <3> QED BY <1>t, <2>1, <2>2, <3>1, RollbackTypesGo DEF Finished
  <2>3. CASE GoesTo(w, "rest", "none", 0, Nothing, {}, {})
    <3>1. RollbackTypeOK'
      BY <1>t, <2>1, <2>3 DEF RollbackTypeOK, GoesTo
    <3> QED BY <1>t, <2>1, <2>3, <3>1, RollbackTypesGo
  <2> QED BY <1>7, <2>2, <2>3, EndRollbackGoes
<1>8. ASSUME NEW t \in Targets, EditTarget(t)
      PROVE  RollbackTypes'
  <2>1. UNCHANGED <<heads, snapshot, clock, runner, taken, spent, original, muddled, changed>>
    BY <1>8 DEF EditTarget
  <2>2. bounds' \in Counters
    BY <1>8, <1>t DEF EditTarget, Mishap, Counts, RollbackTypeOK, Counters
  <2>3. target' \in [Targets -> States] /\ edited' \subseteq Targets
    BY <1>8, <1>t DEF EditTarget, RollbackTypeOK, States
  <2> QED BY <2>1, <2>2, <2>3 DEF RollbackTypes, RollbackTypeOK, Running, Captures, Rollbacks
<1>9. CASE CutOff
  <2>1. UNCHANGED <<heads, target, clock, taken, original, muddled, edited, changed>>
    BY <1>9 DEF CutOff
  <2>2. bounds' \in Counters
    BY <1>9, <1>t DEF CutOff, Mishap, Counts, RollbackTypeOK, Counters
  <2>3. spent' \subseteq Actions /\ runner' = [v \in Runners |-> AtRest]
    BY <1>9, <1>t DEF CutOff, RollbackTypeOK
  <2>4. PICK half : snapshot' = [a \in Actions |-> IF a \in half THEN HalfWritten ELSE snapshot[a]]
    BY <1>9 DEF CutOff
  <2>5. /\ snapshot' \in [Actions -> Snapshot \cup {Missing, HalfWritten}]
        /\ \A b \in Actions : snapshot'[b].at < clock'
    <3>1. \A b \in Actions : snapshot[b].at \in Nat
      BY <1>t, SnapshotTimes
    <3>2. 0 < clock \/ Actions = {}
      BY <1>t, <3>1
    <3> QED BY <1>t, <2>1, <2>4, <3>2 DEF RollbackTypeOK, HalfWritten
  <2>6. runner' \in [Runners -> Runner] /\ \A v \in Runners : runner'[v].at = "rest"
    BY <2>3 DEF AtRest, Runner, States
  <2> QED BY <1>t, <2>1, <2>2, <2>3, <2>5, <2>6
          DEF RollbackTypes, RollbackTypeOK, Running, Captures, Rollbacks
<1>10. CASE UNCHANGED rollbackVars
  BY <1>10 DEF rollbackVars, RollbackTypes, RollbackTypeOK, Running, Captures, Rollbacks, Whole
<1> QED BY <1>1, <1>2, <1>3, <1>4, <1>5, <1>6, <1>7, <1>8, <1>9, <1>10 DEF RollbackNext

(* What a thread's step keeps of RunsInv, unless it stores a snapshot.     *)
LEMMA RunsGo ==
  ASSUME RollbackTypes, RunsInv, NEW w \in Runners, NEW at, NEW a, NEW since, NEW st,
         NEW todo, NEW failed, GoesTo(w, at, a, since, st, todo, failed),
         snapshot' = snapshot, spent' = spent, muddled \subseteq muddled',
         \A b \in changed' : b \in changed \/ Whole(snapshot[b]),
         \A b \in Actions : taken[b] > 0 => taken'[b] > 0,
         \A t \in Targets : original[t] # "none" => original'[t] # "none",
         at \in {"read", "store", "act"} =>
           /\ a \in Actions /\ taken'[a] > 0 /\ original'[TargetOf[a]] # "none"
           /\ TargetOf[a] \notin muddled' =>
                /\ \A v \in Runners : v # w => v \notin Rollbacks /\ ~WorksOn(v, TargetOf[a])
                /\ at \in {"read", "store"} =>
                     /\ snapshot[a] = Missing
                     /\ \A b \in Actions : TargetOf[b] = TargetOf[a] /\ Whole(snapshot[b]) =>
                          snapshot[b].at < since,
         at = "act" => Whole(snapshot[a]),
         at \in {"restore", "restored"} =>
           \A v \in Runners : v # w /\ Running(v) => TargetOf[runner[v].action] \in muddled'
  PROVE  RunsInv'
<1>1. \A v \in Runners : v # w => runner'[v] = runner[v]
  BY DEF GoesTo
<1>2. runner'[w].at = at /\ runner'[w].action = a /\ runner'[w].since = since
  BY DEF GoesTo
<1>3. \A v \in Runners : Running(v)' =>
        taken'[runner'[v].action] > 0 /\ original'[TargetOf[runner'[v].action]] # "none"
  <2> SUFFICES ASSUME NEW v \in Runners, Running(v)'
               PROVE  taken'[runner'[v].action] > 0 /\ original'[TargetOf[runner'[v].action]] # "none"
    OBVIOUS
  <2>1. CASE v = w
    BY <1>2, <2>1 DEF Running
  <2>2. CASE v # w
    <3>1. runner'[v] = runner[v] /\ Running(v)
      BY <1>1, <2>2 DEF Running
    <3>2. runner[v].action \in Actions /\ TargetOf[runner[v].action] \in Targets
      BY <3>1, RollbackAssumption DEF RollbackTypes
    <3> QED BY <3>1, <3>2 DEF RunsInv
  <2> QED BY <2>1, <2>2
<1>4. \A v \in Runners : DoesAt(v, "act")' => Whole(snapshot[runner'[v].action])
  BY <1>1, <1>2 DEF DoesAt, RunsInv
<1>5. ASSUME NEW t \in Targets \ muddled'
      PROVE  /\ \A v, u \in Runners : WorksOn(v, t)' /\ WorksOn(u, t)' => v = u
             /\ \A v \in Runners : WorksOn(v, t)' => Rollbacks' = {}
             /\ \A v \in Runners : WorksOn(v, t)' /\ Captures(v)' =>
                  /\ snapshot[runner'[v].action] = Missing
                  /\ \A b \in Actions : TargetOf[b] = t /\ Whole(snapshot[b]) =>
                       snapshot[b].at < runner'[v].since
             /\ \A b \in changed' : TargetOf[b] = t => Whole(snapshot[b])
  <2>1. \A v \in Runners : v # w =>
          /\ WorksOn(v, t)' <=> WorksOn(v, t)
          /\ Captures(v)' <=> Captures(v)
          /\ v \in Rollbacks' <=> v \in Rollbacks
    BY <1>1 DEF WorksOn, Captures, Rollbacks, Running
  <2>2. WorksOn(w, t)' => at \in {"read", "store", "act"} /\ TargetOf[a] = t
    BY <1>2 DEF WorksOn, Running
  <2>3. w \in Rollbacks' => at \in {"restore", "restored"}
    BY <1>2 DEF Rollbacks
  <2>4. Captures(w)' => at \in {"read", "store"}
    BY <1>2 DEF Captures
  <2>5. \A v, u \in Runners : WorksOn(v, t)' /\ WorksOn(u, t)' => v = u
    BY <1>5, <2>1, <2>2 DEF RunsInv
  <2>6. ASSUME NEW v \in Runners, NEW u \in Runners, WorksOn(v, t)', u \in Rollbacks'
        PROVE  FALSE
    <3>1. CASE v = w
      BY <1>5, <2>1, <2>2, <2>3, <2>6, <3>1
    <3>2. CASE v # w /\ u = w
      BY <1>5, <2>1, <2>3, <2>6, <3>2 DEF WorksOn
    <3>3. CASE v # w /\ u # w
      BY <1>5, <2>1, <2>6, <3>3 DEF RunsInv
    <3> QED BY <3>1, <3>2, <3>3
  <2>7. \A v \in Runners : WorksOn(v, t)' => Rollbacks' = {}
    BY <2>6 DEF Rollbacks
  <2>8. ASSUME NEW v \in Runners, WorksOn(v, t)', Captures(v)'
        PROVE  /\ snapshot[runner'[v].action] = Missing
               /\ \A b \in Actions : TargetOf[b] = t /\ Whole(snapshot[b]) =>
                    snapshot[b].at < runner'[v].since
    <3>1. CASE v = w
      BY <1>2, <1>5, <2>2, <2>4, <2>8, <3>1
    <3>2. CASE v # w
      BY <1>1, <1>5, <2>1, <2>8, <3>2 DEF RunsInv
    <3> QED BY <3>1, <3>2
  <2>9. \A b \in changed' : TargetOf[b] = t => Whole(snapshot[b])
    BY <1>5 DEF RunsInv
  <2> QED BY <2>5, <2>7, <2>8, <2>9
<1>6. \A b \in Actions : snapshot'[b] = HalfWritten => b \in spent'
  BY DEF RunsInv
<1> HIDE DEF Missing, HalfWritten
<1>7. \A b : Whole(snapshot[b])' <=> Whole(snapshot[b])
  BY DEF Whole
<1> QED BY <1>3, <1>4, <1>5, <1>6, <1>7 DEF RunsInv, Whole

(* Every step keeps what is known of runs under way.                       *)
LEMMA RunsStep ==
  ASSUME RollbackTypes, RunsInv, [RollbackNext]_rollbackVars
  PROVE  RunsInv'
<1>t. RollbackTypeOK /\ clock \in Nat /\ \A b \in Actions : snapshot[b].at < clock
  BY DEF RollbackTypes, RollbackTypeOK
<1>n. "none" \notin States
  BY RollbackNames DEF States, Nothing, Before, Others
<1>w. ASSUME NEW w \in Runners, Running(w)
      PROVE  /\ runner[w].action \in Actions /\ TargetOf[runner[w].action] \in Targets
             /\ taken[runner[w].action] > 0 /\ original[TargetOf[runner[w].action]] # "none"
             /\ DoesAt(w, "act") => Whole(snapshot[runner[w].action])
             /\ TargetOf[runner[w].action] \notin muddled =>
                  /\ \A v \in Runners : v # w =>
                       v \notin Rollbacks /\ ~WorksOn(v, TargetOf[runner[w].action])
                  /\ Captures(w) =>
                       /\ snapshot[runner[w].action] = Missing
                       /\ \A b \in Actions :
                            TargetOf[b] = TargetOf[runner[w].action] /\ Whole(snapshot[b]) =>
                              snapshot[b].at < runner[w].since
  <2>1. PICK a \in Actions, t \in Targets : a = runner[w].action /\ t = TargetOf[a]
    BY <1>w, RollbackAssumption DEF RollbackTypes
  <2>2. WorksOn(w, t)
    BY <1>w, <2>1 DEF WorksOn
  <2> QED BY <1>w, <2>1, <2>2 DEF RunsInv
<1> USE RollbackAssumption
<1>1. ASSUME NEW w \in Runners, NEW a \in Actions, BeginRun(w, a)
      PROVE  RunsInv'
  <2>1. GoesTo(w, IF snapshot[a] = Missing THEN "read" ELSE "act", a, clock, Nothing, {}, {})
    BY <1>1, BeginRunGoes
  <2>2. UNCHANGED <<heads, target, snapshot, spent, bounds, edited, changed>>
    BY <1>1 DEF BeginRun
  <2>3. \A b \in Actions : taken'[b] = IF b = a THEN taken[b] + 1 ELSE taken[b]
    BY <1>1, <1>t DEF BeginRun, RollbackTypeOK
  <2>4. (\A b \in Actions : taken[b] > 0 => taken'[b] > 0) /\ taken'[a] > 0
    <3>1. \A b \in Actions : taken[b] \in Nat
      BY <1>t DEF RollbackTypeOK
    <3> QED BY <2>3, <3>1
  <2>5. /\ \A t \in Targets : original[t] # "none" => original'[t] # "none"
        /\ original'[TargetOf[a]] # "none"
    <3>1. \A t \in Targets : target[t] # "none"
      BY <1>t, <1>n DEF RollbackTypeOK
    <3>2. \A t \in Targets : original'[t] = IF t = TargetOf[a] /\ original[t] = "none"
                                            THEN target[t] ELSE original[t]
      BY <1>1, <1>t DEF BeginRun, RollbackTypeOK
    <3>3. TargetOf[a] \in Targets
      OBVIOUS
    <3> QED BY <3>1, <3>2, <3>3
  <2>6. muddled \subseteq muddled'
    BY <1>1 DEF BeginRun
  <2>7. TargetOf[a] \notin muddled' =>
          \A v \in Runners : v # w => v \notin Rollbacks /\ ~WorksOn(v, TargetOf[a])
    BY <1>1 DEF BeginRun, WorksOn
  <2>8. \A b \in Actions : Whole(snapshot[b]) => snapshot[b].at < clock
    BY <1>t
  <2>9. CASE snapshot[a] = Missing
    BY <2>1, <2>2, <2>4, <2>5, <2>6, <2>7, <2>8, <2>9, RunsGo
  <2>10. CASE snapshot[a] # Missing
    <3>1. Whole(snapshot[a])
      BY <1>1, <2>10 DEF BeginRun, Whole, RunsInv
    <3> QED BY <2>1, <2>2, <2>4, <2>5, <2>6, <2>7, <2>10, <3>1, RunsGo
  <2> QED BY <2>9, <2>10
<1>2. ASSUME NEW w \in Runners, ReadTarget(w)
      PROVE  RunsInv'
  <2>1. GoesTo(w, "store", runner[w].action, runner[w].since, target[TargetOf[runner[w].action]],
               runner[w].todo, runner[w].failed)
    BY <1>2, ReadTargetGoes
  <2>2. UNCHANGED <<heads, target, snapshot, clock, taken, spent, bounds, original, muddled,
                    edited, changed>>
    BY <1>2 DEF ReadTarget
  <2>3. Running(w) /\ Captures(w)
    BY <1>2 DEF ReadTarget, DoesAt, Running, Captures
  <2> QED BY <1>w, <2>1, <2>2, <2>3, RunsGo
<1>3. ASSUME NEW w \in Runners, StoreSnapshot(w)
      PROVE  RunsInv'
  <2>1. GoesTo(w, "act", runner[w].action, runner[w].since, runner[w].state,
               runner[w].todo, runner[w].failed)
    BY <1>3, StoreSnapshotGoes
  <2>2. UNCHANGED <<heads, target, clock, taken, spent, bounds, original, muddled, edited, changed>>
    BY <1>3 DEF StoreSnapshot
  <2>3. Running(w) /\ Captures(w) /\ runner[w].state \in States
    BY <1>3, <1>t DEF StoreSnapshot, DoesAt, Running, Captures, RollbackTypeOK, Runner
  <2>4. PICK a \in Actions, t0 \in Targets : a = runner[w].action /\ t0 = TargetOf[a]
    BY <1>w, <2>3
  <2>5. /\ \A b \in Actions : b # a => snapshot'[b] = snapshot[b]
        /\ Whole(snapshot'[a])
    <3>1. snapshot' = [snapshot EXCEPT ![a] = [at |-> runner[w].since, state |-> runner[w].state]]
      BY <1>3, <2>4 DEF StoreSnapshot
    <3>2. [at |-> runner[w].since, state |-> runner[w].state] \notin {Missing, HalfWritten}
      BY <2>3, RollbackNames DEF Missing, HalfWritten, States, Nothing, Before, Others
    <3> QED BY <1>t, <3>1, <3>2 DEF Whole, RollbackTypeOK
  <2>6. \A v \in Runners : /\ runner'[v].action = runner[v].action
                           /\ runner'[v].since = runner[v].since
                           /\ Running(v)' <=> Running(v)
                           /\ \A t : WorksOn(v, t)' <=> WorksOn(v, t)
                           /\ v \in Rollbacks' <=> v \in Rollbacks
                           /\ Captures(v)' <=> v # w /\ Captures(v)
                           /\ DoesAt(v, "act")' <=> v = w \/ DoesAt(v, "act")
    BY <2>1, <2>3 DEF GoesTo, Running, WorksOn, Rollbacks, Captures, DoesAt
  <2>7. \A b \in Actions : snapshot'[b] = HalfWritten => b \in spent
    BY <2>5 DEF RunsInv, Whole
  <2>8. \A v \in Runners : DoesAt(v, "act")' => Whole(snapshot'[runner'[v].action])
    <3> SUFFICES ASSUME NEW v \in Runners, DoesAt(v, "act")'
                 PROVE  Whole(snapshot'[runner[v].action])
      BY <2>6
    <3>1. CASE v = w
      BY <2>4, <2>5, <3>1
    <3>2. CASE v # w
      <4>1. Running(v) /\ DoesAt(v, "act")
        BY <2>6, <3>2 DEF DoesAt, Running
      <4> QED BY <1>w, <2>5, <4>1
    <3> QED BY <3>1, <3>2
  <2>9. ASSUME NEW t \in Targets \ muddled, NEW v \in Runners, WorksOn(v, t), Captures(v), v # w
        PROVE  /\ snapshot'[runner[v].action] = Missing
               /\ \A b \in Actions : TargetOf[b] = t /\ Whole(snapshot'[b]) =>
                    snapshot'[b].at < runner[v].since
    <3>1. t0 # t
      BY <2>3, <2>4, <2>9 DEF RunsInv, WorksOn
    <3>2. runner[v].action \in Actions /\ TargetOf[runner[v].action] = t
      BY <2>9, <1>w DEF WorksOn
    <3>3. /\ snapshot[runner[v].action] = Missing
          /\ \A b \in Actions : TargetOf[b] = t /\ Whole(snapshot[b]) =>
               snapshot[b].at < runner[v].since
      BY <2>9 DEF RunsInv
    <3> QED BY <2>4, <2>5, <3>1, <3>2, <3>3
  <2>10. \A t \in Targets \ muddled :
           /\ \A v, u \in Runners : WorksOn(v, t) /\ WorksOn(u, t) => v = u
           /\ \A v \in Runners : WorksOn(v, t) => Rollbacks' = {}
           /\ \A b \in changed : TargetOf[b] = t => Whole(snapshot'[b])
    <3>1. Rollbacks' = Rollbacks
      BY <2>6 DEF Rollbacks
    <3>2. changed \subseteq Actions
      BY <1>t DEF RollbackTypeOK
    <3> QED BY <2>5, <3>1, <3>2 DEF RunsInv
  <2>11. \A v \in Runners : Running(v) =>
           taken[runner[v].action] > 0 /\ original[TargetOf[runner[v].action]] # "none"
    BY DEF RunsInv
  <2> HIDE DEF Missing, HalfWritten
  <2> QED BY <2>2, <2>6, <2>7, <2>8, <2>9, <2>10, <2>11 DEF RunsInv, Whole
<1>4. ASSUME NEW w \in Runners, Act(w)
      PROVE  RunsInv'
  <2>1. GoesTo(w, "rest", "none", 0, Nothing, {}, {})
    BY <1>4, ActGoes
  <2>2. UNCHANGED <<heads, snapshot, clock, taken, spent, bounds, original, muddled, edited>>
    BY <1>4 DEF Act
  <2>3. Running(w) /\ DoesAt(w, "act") /\ changed' \subseteq changed \cup {runner[w].action}
    BY <1>4 DEF Act, DoesAt, Running
  <2> QED BY <1>w, <2>1, <2>2, <2>3, RunsGo
<1>5. ASSUME NEW w \in Runners, BeginRollback(w)
      PROVE  RunsInv'
  <2>1. GoesTo(w, "restore", "none", 0, Nothing, {a \in Actions : snapshot[a] # Missing}, {})
    BY <1>5, BeginRollbackGoes
  <2>2. UNCHANGED <<heads, target, snapshot, clock, taken, spent, original, edited, changed>>
    BY <1>5 DEF BeginRollback
  <2>3. /\ muddled \subseteq muddled'
        /\ \A v \in Runners : v # w /\ Running(v) => TargetOf[runner[v].action] \in muddled'
    BY <1>5 DEF BeginRollback, TargetsOf
  <2> QED BY <2>1, <2>2, <2>3, RunsGo
<1>6. ASSUME NEW w \in Runners, w \in Rollbacks, NEW at \in {"restore", "restored", "rest"},
             NEW a, NEW since, NEW st, NEW todo, NEW failed,
             GoesTo(w, at, a, since, st, todo, failed),
             UNCHANGED <<snapshot, taken, spent, original, muddled, changed>>
      PROVE  RunsInv'
  <2>1. \A v \in Runners : v # w /\ Running(v) => TargetOf[runner[v].action] \in muddled'
    BY <1>6, <1>w
  <2> QED BY <1>6, <2>1, RunsGo
<1>7. ASSUME NEW w \in Runners, RestoreOne(w)
      PROVE  RunsInv'
  <2>1. w \in Rollbacks /\ UNCHANGED <<snapshot, taken, spent, original, muddled, changed>>
    BY <1>7 DEF RestoreOne, DoesAt, Rollbacks
  <2>2. PICK todo, failed :
          GoesTo(w, "restore", runner[w].action, runner[w].since, runner[w].state, todo, failed)
    BY <1>7, RestoreOneGoes
  <2> QED BY <1>6, <2>1, <2>2
<1>8. ASSUME NEW w \in Runners, EndRollback(w)
      PROVE  RunsInv'
  <2>1. w \in Rollbacks /\ UNCHANGED <<snapshot, taken, spent, original, muddled, changed>>
    BY <1>8 DEF EndRollback, DoesAt, Rollbacks
  <2> QED BY <1>6, <1>8, <2>1, EndRollbackGoes
<1>9. ASSUME NEW t \in Targets, EditTarget(t)
      PROVE  RunsInv'
  <2>1. UNCHANGED <<snapshot, runner, taken, spent, original, muddled, changed>>
    BY <1>9 DEF EditTarget
  <2> QED BY <2>1 DEF RunsInv, Running, DoesAt, Whole, WorksOn, Captures, Rollbacks
<1>10. CASE CutOff
  <2>1. UNCHANGED <<taken, original, muddled, changed>> /\ runner' = [v \in Runners |-> AtRest]
        /\ spent' = spent \cup {a \in Actions : taken[a] > 0}
    BY <1>10 DEF CutOff
  <2>2. PICK half \in SUBSET {runner[w].action : w \in {v \in Runners : DoesAt(v, "store")}} :
          snapshot' = [a \in Actions |-> IF a \in half THEN HalfWritten ELSE snapshot[a]]
    BY <1>10 DEF CutOff
  <2>3. \A v \in Runners : runner'[v].at = "rest"
    BY <2>1 DEF AtRest
  <2>4. \A a \in half : \E w \in Runners : Running(w) /\ Captures(w) /\ a = runner[w].action
    BY <2>2 DEF DoesAt, Running, Captures
  <2>5. \A a \in Actions : snapshot'[a] = HalfWritten => a \in spent'
    <3>1. \A a \in half : taken[a] > 0
      BY <1>w, <2>4
    <3> QED BY <2>1, <2>2, <3>1 DEF RunsInv
  <2>6. \A t \in Targets \ muddled : \A a \in changed : TargetOf[a] = t => Whole(snapshot'[a])
    <3> SUFFICES ASSUME NEW t \in Targets \ muddled, NEW a \in changed, TargetOf[a] = t
                 PROVE  Whole(snapshot'[a])
      OBVIOUS
    <3>1. Whole(snapshot[a]) /\ a \in Actions
      BY <1>t DEF RunsInv, RollbackTypeOK
    <3>2. a \notin half
      BY <1>w, <2>4, <3>1 DEF Whole
    <3> QED BY <2>2, <3>1, <3>2
  <2> HIDE DEF Missing, HalfWritten
  <2> QED BY <2>1, <2>3, <2>5, <2>6 DEF RunsInv, Running, DoesAt, Whole, WorksOn
<1>11. CASE UNCHANGED rollbackVars
  BY <1>11 DEF rollbackVars, RunsInv, Running, DoesAt, Whole, WorksOn, Captures, Rollbacks
<1> QED BY <1>1, <1>2, <1>3, <1>4, <1>5, <1>7, <1>8, <1>9, <1>10, <1>11 DEF RollbackNext

(* The thread that works on a target, while the target is not muddled.     *)
LEMMA WorksAlone ==
  ASSUME RollbackTypes, RunsInv, NEW w \in Runners, Running(w)
  PROVE  /\ runner[w].action \in Actions /\ TargetOf[runner[w].action] \in Targets
         /\ original[TargetOf[runner[w].action]] # "none"
         /\ TargetOf[runner[w].action] \notin muddled =>
              /\ Rollbacks = {}
              /\ \A v \in Runners : v # w => ~WorksOn(v, TargetOf[runner[w].action])
              /\ Captures(w) =>
                   /\ snapshot[runner[w].action] = Missing
                   /\ \A b \in Actions :
                        TargetOf[b] = TargetOf[runner[w].action] /\ Whole(snapshot[b]) =>
                          snapshot[b].at < runner[w].since
<1>1. PICK a \in Actions, t \in Targets : a = runner[w].action /\ t = TargetOf[a]
  BY RollbackAssumption DEF RollbackTypes
<1>2. WorksOn(w, t)
  BY <1>1 DEF WorksOn
<1> QED BY <1>1, <1>2 DEF RunsInv

(* The first snapshots of a target stay while its snapshots do.            *)
LEMMA FirstOfStays ==
  ASSUME NEW t, \A b \in Actions : TargetOf[b] = t => snapshot'[b] = snapshot[b]
  PROVE  FirstOf(t)' = FirstOf(t)
<1> HIDE DEF Missing, HalfWritten
<1> QED BY DEF FirstOf, Whole

(* What a step keeps of FirstInv for a target that it leaves alone, with   *)
(* its snapshots.                                                          *)
FirstAt(t) ==
  /\ (\A a \in Actions : TargetOf[a] = t => ~Whole(snapshot[a])) => target[t] = original[t]
  /\ \A a \in FirstOf(t) : snapshot[a].state = original[t]
  /\ \A w \in Runners : WorksOn(w, t) /\ DoesAt(w, "store") => runner[w].state = target[t]

(* A target whose snapshots and state stay keeps its first snapshot.       *)
LEMMA FirstStays ==
  ASSUME NEW t \in Targets, FirstAt(t), target'[t] = target[t], original'[t] = original[t],
         \A b \in Actions : TargetOf[b] = t => snapshot'[b] = snapshot[b],
         NEW w, \A v \in Runners : v # w => runner'[v] = runner[v],
         WorksOn(w, t)' /\ DoesAt(w, "store")' => runner'[w].state = target[t]
  PROVE  FirstAt(t)'
<1>1. FirstOf(t)' = FirstOf(t)
  BY FirstOfStays
<1>2. \A a \in FirstOf(t) : snapshot'[a] = snapshot[a]
  BY DEF FirstOf
<1>3. \A a \in Actions : TargetOf[a] = t => (Whole(snapshot[a])' <=> Whole(snapshot[a]))
  BY DEF Whole
<1>4. \A v \in Runners : WorksOn(v, t)' /\ DoesAt(v, "store")' => runner'[v].state = target'[t]
  BY DEF FirstAt, WorksOn, Running, DoesAt
<1> QED BY <1>1, <1>2, <1>3, <1>4 DEF FirstAt

(* Every step keeps the first snapshot of a target the one that tells its  *)
(* original state.                                                         *)
LEMMA FirstStep ==
  ASSUME RollbackTypes, RunsInv, FirstInv, [RollbackNext]_rollbackVars
  PROVE  FirstInv'
<1>t. RollbackTypeOK /\ TargetOf \in [Actions -> Targets]
  BY RollbackAssumption DEF RollbackTypes
<1>a. \A t \in Targets \ (muddled \cup edited) : original[t] # "none" => FirstAt(t)
  BY DEF FirstInv, FirstAt
<1>b. ASSUME \A t \in Targets : original'[t] = "none" =>
               \A a \in Actions : TargetOf[a] = t => snapshot'[a] = Missing,
             \A t \in Targets \ (muddled' \cup edited') : original'[t] # "none" => FirstAt(t)'
      PROVE  FirstInv'
  BY <1>b DEF FirstInv, FirstAt
<1>1. ASSUME NEW w \in Runners, NEW a \in Actions, BeginRun(w, a)
      PROVE  FirstInv'
  <2>1. GoesTo(w, IF snapshot[a] = Missing THEN "read" ELSE "act", a, clock, Nothing, {}, {})
    BY <1>1, BeginRunGoes
  <2>2. UNCHANGED <<heads, target, snapshot, spent, bounds, edited, changed>>
    BY <1>1 DEF BeginRun
  <2>3. muddled \subseteq muddled'
    BY <1>1 DEF BeginRun
  <2>4. \A t \in Targets : original'[t] = IF t = TargetOf[a] /\ original[t] = "none"
                                          THEN target[t] ELSE original[t]
    BY <1>1, <1>t DEF BeginRun, RollbackTypeOK
  <2>5. \A v \in Runners : v # w => runner'[v] = runner[v]
    BY <2>1 DEF GoesTo
  <2>6. ~DoesAt(w, "store")'
    BY <2>1 DEF GoesTo, DoesAt
  <2>7. ASSUME NEW t \in Targets \ (muddled' \cup edited'), original'[t] # "none"
        PROVE  FirstAt(t)'
    <3>1. CASE original[t] # "none"
      BY <1>a, <2>2, <2>3, <2>4, <2>5, <2>6, <3>1, FirstStays
    <3>2. CASE original[t] = "none"
      <4>1. t = TargetOf[a] /\ original'[t] = target[t]
        BY <2>4, <2>7, <3>2
      <4>2. \A b \in Actions : TargetOf[b] = t => ~Whole(snapshot[b])
        BY <3>2 DEF FirstInv, Whole
      <4>3. FirstOf(t) = {}
        BY <4>2 DEF FirstOf
      <4>4. \A v \in Runners : WorksOn(v, t)' => v = w
        <5>1. \A v \in Runners : ~WorksOn(v, t)
          BY <3>2, WorksAlone DEF WorksOn
        <5> QED BY <2>5, <5>1 DEF WorksOn, Running
      <4>5. FirstOf(t)' = {}
        BY <2>2, <4>3, FirstOfStays
      <4> QED BY <2>2, <2>6, <4>1, <4>4, <4>5 DEF FirstAt
    <3> QED BY <3>1, <3>2
  <2>8. \A t \in Targets : original'[t] = "none" =>
          \A b \in Actions : TargetOf[b] = t => snapshot'[b] = Missing
    <3>1. "none" \notin States
      BY RollbackNames DEF States, Nothing, Before, Others
    <3>2. \A t \in Targets : original'[t] = "none" => original[t] = "none"
      BY <1>t, <2>4, <3>1 DEF RollbackTypeOK
    <3> QED BY <2>2, <3>2 DEF FirstInv
  <2> QED BY <1>b, <2>7, <2>8
(* A step of one thread that leaves what there is alone.                   *)
<1>c. ASSUME NEW w \in Runners, \A v \in Runners : v # w => runner'[v] = runner[v],
             UNCHANGED <<target, snapshot, original, edited>>, muddled \subseteq muddled',
             DoesAt(w, "store")' => runner'[w].state = target[TargetOf[runner'[w].action]]
      PROVE  FirstInv'
  <2>1. \A t \in Targets : WorksOn(w, t)' /\ DoesAt(w, "store")' => runner'[w].state = target[t]
    BY <1>c DEF WorksOn
  <2>2. \A t \in Targets \ (muddled' \cup edited') : original'[t] # "none" => FirstAt(t)'
    BY <1>a, <1>c, <2>1, FirstStays
  <2>3. \A t \in Targets : original'[t] = "none" =>
          \A a \in Actions : TargetOf[a] = t => snapshot'[a] = Missing
    BY <1>c DEF FirstInv
  <2> QED BY <1>b, <2>2, <2>3
<1>2. ASSUME NEW w \in Runners, ReadTarget(w)
      PROVE  FirstInv'
  <2>1. GoesTo(w, "store", runner[w].action, runner[w].since, target[TargetOf[runner[w].action]],
               runner[w].todo, runner[w].failed)
    BY <1>2, ReadTargetGoes
  <2>2. UNCHANGED <<target, snapshot, original, edited>> /\ muddled \subseteq muddled'
    BY <1>2 DEF ReadTarget
  <2>3. /\ \A v \in Runners : v # w => runner'[v] = runner[v]
        /\ runner'[w].state = target[TargetOf[runner'[w].action]]
    BY <2>1 DEF GoesTo
  <2> QED BY <1>c, <2>2, <2>3
<1>3. ASSUME NEW w \in Runners, StoreSnapshot(w)
      PROVE  FirstInv'
  <2>1. GoesTo(w, "act", runner[w].action, runner[w].since, runner[w].state,
               runner[w].todo, runner[w].failed)
    BY <1>3, StoreSnapshotGoes
  <2>2. UNCHANGED <<heads, target, clock, taken, spent, bounds, original, muddled, edited, changed>>
    BY <1>3 DEF StoreSnapshot
  <2>3. Running(w) /\ Captures(w) /\ runner[w].state \in States /\ DoesAt(w, "store")
    BY <1>3, <1>t DEF StoreSnapshot, DoesAt, Running, Captures, RollbackTypeOK, Runner
  <2>4. PICK a \in Actions, t0 \in Targets : a = runner[w].action /\ t0 = TargetOf[a]
    BY <2>3, WorksAlone
  <2>5. /\ \A b \in Actions : b # a => snapshot'[b] = snapshot[b]
        /\ Whole(snapshot'[a])
        /\ snapshot'[a].at = runner[w].since /\ snapshot'[a].state = runner[w].state
    <3>1. snapshot' = [snapshot EXCEPT ![a] = [at |-> runner[w].since, state |-> runner[w].state]]
      BY <1>3, <2>4 DEF StoreSnapshot
    <3>2. [at |-> runner[w].since, state |-> runner[w].state] \notin {Missing, HalfWritten}
      BY <2>3, RollbackNames DEF Missing, HalfWritten, States, Nothing, Before, Others
    <3> QED BY <1>t, <3>1, <3>2 DEF Whole, RollbackTypeOK
  <2>6. /\ \A v \in Runners : v # w => runner'[v] = runner[v]
        /\ ~DoesAt(w, "store")'
    BY <2>1 DEF GoesTo, DoesAt
  <2>7. original[t0] # "none"
    BY <2>3, <2>4, WorksAlone
  <2>8. \A t \in Targets : original'[t] = "none" =>
          \A b \in Actions : TargetOf[b] = t => snapshot'[b] = Missing
    BY <2>2, <2>4, <2>5, <2>7 DEF FirstInv
  <2>9. ASSUME NEW t \in Targets \ (muddled \cup edited), original[t] # "none"
        PROVE  FirstAt(t)'
    <3>1. CASE t # t0
      BY <1>a, <2>2, <2>4, <2>5, <2>6, <2>9, <3>1, FirstStays
    <3>2. CASE t = t0
      <4>1. /\ snapshot[a] = Missing
            /\ \A b \in Actions : TargetOf[b] = t /\ Whole(snapshot[b]) =>
                 snapshot[b].at < runner[w].since
            /\ \A v \in Runners : v # w => ~WorksOn(v, t)
        BY <2>3, <2>4, <2>9, <3>2, WorksAlone
      <4>2. WorksOn(w, t)
        BY <2>3, <2>4, <3>2 DEF WorksOn
      <4>3. runner[w].state = target[t]
        BY <1>a, <2>3, <2>9, <4>2 DEF FirstAt
      <4>4. \A b \in Actions : snapshot[b].at \in Nat
        BY <1>t, SnapshotTimes
      <4>5. runner[w].since \in Nat
        BY <1>t DEF RollbackTypeOK, Runner
      <4>6. ASSUME NEW b \in FirstOf(t)'
            PROVE  snapshot'[b].state = original[t]
        <5>0. /\ b \in Actions /\ TargetOf[b] = t /\ Whole(snapshot'[b])
              /\ \A c \in Actions : TargetOf[c] = t /\ Whole(snapshot'[c]) =>
                   snapshot'[b].at <= snapshot'[c].at
          <6> HIDE DEF Missing, HalfWritten
          <6> QED BY <4>6 DEF FirstOf, Whole
        <5>1. CASE b = a
          <6>1. \A c \in Actions : TargetOf[c] = t => ~Whole(snapshot[c])
            <7> SUFFICES ASSUME NEW c \in Actions, TargetOf[c] = t, Whole(snapshot[c])
                         PROVE  FALSE
              OBVIOUS
            <7>1. c # a
              BY <4>1 DEF Whole
            <7>2. snapshot[c].at < runner[w].since /\ runner[w].since <= snapshot[c].at
              BY <2>5, <4>1, <5>0, <5>1, <7>1
            <7> QED BY <4>4, <4>5, <7>2
          <6>2. target[t] = original[t]
            BY <1>a, <2>9, <6>1 DEF FirstAt
          <6> QED BY <2>5, <4>3, <5>1, <6>2
        <5>2. CASE b # a
          <6>1. \A c \in Actions : TargetOf[c] = t /\ Whole(snapshot[c]) =>
                  c # a /\ snapshot'[c] = snapshot[c]
            BY <2>5, <4>1 DEF Whole
          <6>2. b \in FirstOf(t)
            BY <2>5, <5>0, <5>2, <6>1 DEF FirstOf
          <6> QED BY <1>a, <2>5, <2>9, <5>0, <5>2, <6>2 DEF FirstAt
        <5> QED BY <5>1, <5>2
      <4>7. \A v \in Runners : ~(WorksOn(v, t)' /\ DoesAt(v, "store")')
        BY <2>6, <4>1 DEF WorksOn, Running
      <4>8. ~(\A b \in Actions : TargetOf[b] = t => ~Whole(snapshot'[b]))
        BY <2>4, <2>5, <3>2
      <4> HIDE DEF Missing, HalfWritten
      <4>9. ~(\A b \in Actions : TargetOf[b] = t => ~Whole(snapshot[b])')
        BY <4>8 DEF Whole
      <4> QED BY <2>2, <4>6, <4>7, <4>9 DEF FirstAt
    <3> QED BY <3>1, <3>2
  <2> QED BY <1>b, <2>2, <2>8, <2>9
<1>4. ASSUME NEW w \in Runners, Act(w)
      PROVE  FirstInv'
  <2>1. GoesTo(w, "rest", "none", 0, Nothing, {}, {})
    BY <1>4, ActGoes
  <2>2. UNCHANGED <<heads, snapshot, clock, taken, spent, bounds, original, muddled, edited>>
    BY <1>4 DEF Act
  <2>3. Running(w) /\ DoesAt(w, "act")
    BY <1>4 DEF Act, DoesAt, Running
  <2>4. PICK a \in Actions, t0 \in Targets : a = runner[w].action /\ t0 = TargetOf[a]
    BY <2>3, WorksAlone
  <2>5. \A t \in Targets : t # t0 => target'[t] = target[t]
    BY <1>4, <1>t, <2>4 DEF Act, RollbackTypeOK
  <2>6. /\ \A v \in Runners : v # w => runner'[v] = runner[v]
        /\ ~DoesAt(w, "store")'
    BY <2>1 DEF GoesTo, DoesAt
  <2>7. ASSUME NEW t \in Targets \ (muddled \cup edited), original[t] # "none"
        PROVE  FirstAt(t)'
    <3>1. CASE t # t0
      BY <1>a, <2>2, <2>5, <2>6, <2>7, <3>1, FirstStays
    <3>2. CASE t = t0
      <4>1. Whole(snapshot[a])
        BY <2>3, <2>4 DEF RunsInv
      <4>2. \A v \in Runners : v # w => ~WorksOn(v, t)
        BY <2>3, <2>4, <2>7, <3>2, WorksAlone
      <4>3. \A v \in Runners : ~(WorksOn(v, t)' /\ DoesAt(v, "store")')
        BY <2>6, <4>2 DEF WorksOn, Running
      <4>4. FirstOf(t)' = FirstOf(t)
        BY <2>2, FirstOfStays
      <4>5. \A b \in Actions : Whole(snapshot[b])' <=> Whole(snapshot[b])
        BY <2>2 DEF Whole
      <4> QED BY <1>a, <2>2, <2>4, <2>7, <3>2, <4>1, <4>3, <4>4, <4>5 DEF FirstAt
    <3> QED BY <3>1, <3>2
  <2> QED BY <1>b, <2>2, <2>7 DEF FirstInv
<1>5. ASSUME NEW w \in Runners, BeginRollback(w)
      PROVE  FirstInv'
  BY <1>5, <1>c, BeginRollbackGoes DEF BeginRollback, GoesTo, DoesAt
<1>6. ASSUME NEW w \in Runners, RestoreOne(w)
      PROVE  FirstInv'
  <2> DEFINE c == runner[w]
  <2>1. PICK a, todo, failed :
          /\ a \in Actions /\ Whole(snapshot[a])
          /\ GoesTo(w, "restore", c.action, c.since, c.state, todo, failed)
          /\ a = NextToRestore(c.todo)
    BY <1>6, RestoreOneGoes
  <2>2. UNCHANGED <<heads, snapshot, clock, taken, spent, original, muddled, edited, changed>>
    BY <1>6 DEF RestoreOne
  <2>3. w \in Rollbacks
    BY <1>6 DEF RestoreOne, DoesAt, Rollbacks
  <2>4. \A t \in Targets : t # TargetOf[a] => target'[t] = target[t]
    <3>1. \/ target' = target
          \/ target' = [target EXCEPT ![TargetOf[a]] = snapshot[a].state]
      BY <1>6, <2>1 DEF RestoreOne
    <3> QED BY <1>t, <3>1 DEF RollbackTypeOK
  <2>5. /\ \A v \in Runners : v # w => runner'[v] = runner[v]
        /\ ~DoesAt(w, "store")'
    BY <2>1 DEF GoesTo, DoesAt
  <2>6. ASSUME NEW t \in Targets \ (muddled \cup edited), original[t] # "none"
        PROVE  FirstAt(t)'
    <3>1. CASE t # TargetOf[a]
      BY <1>a, <2>2, <2>4, <2>5, <2>6, <3>1, FirstStays
    <3>2. CASE t = TargetOf[a]
      <4>1. \A v \in Runners : ~WorksOn(v, t)
        BY <2>3, <2>6 DEF RunsInv
      <4>2. \A v \in Runners : ~(WorksOn(v, t)' /\ DoesAt(v, "store")')
        BY <2>5, <4>1 DEF WorksOn, Running
      <4>3. FirstOf(t)' = FirstOf(t)
        BY <2>2, FirstOfStays
      <4>4. \A b \in Actions : Whole(snapshot[b])' <=> Whole(snapshot[b])
        BY <2>2 DEF Whole
      <4> QED BY <1>a, <2>1, <2>2, <2>6, <3>2, <4>2, <4>3, <4>4 DEF FirstAt
    <3> QED BY <3>1, <3>2
  <2> QED BY <1>b, <2>2, <2>6 DEF FirstInv
<1>7. ASSUME NEW w \in Runners, EndRollback(w)
      PROVE  FirstInv'
  <2>1. UNCHANGED <<target, snapshot, original, muddled, edited>>
    BY <1>7 DEF EndRollback
  <2>2. (\A v \in Runners : v # w => runner'[v] = runner[v]) /\ ~DoesAt(w, "store")'
    BY <1>7, EndRollbackGoes DEF GoesTo, DoesAt
  <2> QED BY <1>c, <2>1, <2>2
<1>8. ASSUME NEW t1 \in Targets, EditTarget(t1)
      PROVE  FirstInv'
  <2>1. UNCHANGED <<heads, snapshot, clock, runner, taken, spent, original, muddled, changed>>
    BY <1>8 DEF EditTarget
  <2>2. /\ \A t \in Targets : t # t1 => target'[t] = target[t]
        /\ edited \subseteq edited' /\ (original[t1] # "none" => t1 \in edited')
    BY <1>8, <1>t DEF EditTarget, RollbackTypeOK
  <2>3. ASSUME NEW t \in Targets \ (muddled' \cup edited'), original'[t] # "none"
        PROVE  FirstAt(t)'
    <3>1. t # t1 /\ FirstAt(t) /\ target'[t] = target[t]
      BY <1>a, <2>1, <2>2, <2>3
    <3>2. FirstOf(t)' = FirstOf(t)
      BY <2>1, FirstOfStays
    <3> QED BY <2>1, <3>1, <3>2 DEF FirstAt, Whole, WorksOn, Running, DoesAt
  <2> QED BY <1>b, <2>1, <2>3 DEF FirstInv
<1>9. CASE CutOff
  <2>1. UNCHANGED <<target, taken, original, muddled, edited>>
        /\ runner' = [v \in Runners |-> AtRest]
    BY <1>9 DEF CutOff
  <2>2. PICK half \in SUBSET {runner[w].action : w \in {v \in Runners : DoesAt(v, "store")}} :
          snapshot' = [a \in Actions |-> IF a \in half THEN HalfWritten ELSE snapshot[a]]
    BY <1>9 DEF CutOff
  <2>3. \A v \in Runners : ~DoesAt(v, "store")'
    BY <2>1 DEF AtRest, DoesAt
  <2>4. \A a \in half : /\ original[TargetOf[a]] # "none"
                        /\ TargetOf[a] \notin muddled => snapshot[a] = Missing
    <3>1. \A a \in half : \E w \in Runners : Running(w) /\ Captures(w) /\ a = runner[w].action
      BY <2>2 DEF DoesAt, Running, Captures
    <3> QED BY <3>1, WorksAlone
  <2>5. \A t \in Targets : original'[t] = "none" =>
          \A b \in Actions : TargetOf[b] = t => snapshot'[b] = Missing
    BY <2>1, <2>2, <2>4 DEF FirstInv
  <2>6. ASSUME NEW t \in Targets \ (muddled \cup edited), original[t] # "none"
        PROVE  FirstAt(t)'
    <3>1. \A b \in Actions : TargetOf[b] = t =>
            /\ Whole(snapshot'[b]) <=> Whole(snapshot[b])
            /\ Whole(snapshot'[b]) => snapshot'[b] = snapshot[b]
      <4> SUFFICES ASSUME NEW b \in Actions, TargetOf[b] = t
                   PROVE  /\ Whole(snapshot'[b]) <=> Whole(snapshot[b])
                          /\ Whole(snapshot'[b]) => snapshot'[b] = snapshot[b]
        OBVIOUS
      <4>1. CASE b \in half
        BY <2>2, <2>4, <2>6, <4>1 DEF Whole
      <4>2. CASE b \notin half
        BY <2>2, <4>2
      <4> QED BY <4>1, <4>2
    <3> HIDE DEF Missing, HalfWritten
    <3>2. \A b \in Actions : Whole(snapshot[b])' <=> Whole(snapshot'[b])
      BY DEF Whole
    <3>3. FirstOf(t)' = FirstOf(t)
      BY <3>1, <3>2 DEF FirstOf
    <3>4. \A b \in FirstOf(t) : snapshot'[b] = snapshot[b]
      BY <3>1 DEF FirstOf
    <3> QED BY <1>a, <2>1, <2>3, <2>6, <3>1, <3>2, <3>3, <3>4 DEF FirstAt
  <2> QED BY <1>b, <2>1, <2>5, <2>6
<1>10. CASE UNCHANGED rollbackVars
  <2>1. UNCHANGED <<target, snapshot, runner, original, muddled, edited>>
    BY <1>10 DEF rollbackVars
  <2>2. \A t \in Targets : FirstOf(t)' = FirstOf(t)
    BY <2>1, FirstOfStays
  <2> QED BY <2>1, <2>2 DEF FirstInv, WorksOn, Running, DoesAt, Whole
<1> QED BY <1>1, <1>2, <1>3, <1>4, <1>5, <1>6, <1>7, <1>8, <1>9, <1>10 DEF RollbackNext

(* Every step keeps what a rollback has restored and has yet to restore.   *)
LEMMA RestoreStep ==
  ASSUME RollbackTypes, RunsInv, FirstInv, RestoreInv, [RollbackNext]_rollbackVars
  PROVE  RestoreInv'
<1>t. RollbackTypeOK /\ TargetOf \in [Actions -> Targets]
  BY RollbackAssumption DEF RollbackTypes
<1>r. /\ \A w, v \in Rollbacks : w # v => Targets \subseteq muddled
      /\ \A w \in Rollbacks : DoesAt(w, "restored") => Finished(w)
      /\ \A w \in Rollbacks, t \in Targets \ (muddled \cup edited) : BringsBack(w, t)
  BY DEF RestoreInv
(* A step that leaves the rollbacks alone, and what they bring back.       *)
<1>a. ASSUME \A v \in Rollbacks' : v \in Rollbacks /\ runner'[v] = runner[v],
             UNCHANGED <<heads, edited>>, muddled \subseteq muddled',
             \A v \in Rollbacks', t \in Targets \ (muddled' \cup edited) :
               /\ target'[t] = target[t] /\ original'[t] = original[t]
               /\ \A b \in Actions : TargetOf[b] = t => snapshot'[b] = snapshot[b]
      PROVE  RestoreInv'
  <2>1. \A v \in Rollbacks', t \in Targets \ (muddled' \cup edited) : FirstOf(t)' = FirstOf(t)
    BY <1>a, FirstOfStays
  <2>2. \A v \in Rollbacks', t \in Targets \ (muddled' \cup edited') : BringsBack(v, t)'
    BY <1>a, <1>r, <2>1 DEF BringsBack
  <2>3. \A w, v \in Rollbacks' : w # v => Targets \subseteq muddled'
    BY <1>a, <1>r
  <2>4. \A w \in Rollbacks' : DoesAt(w, "restored")' => Finished(w)'
    BY <1>a, <1>r DEF DoesAt, Finished
  <2> QED BY <2>2, <2>3, <2>4 DEF RestoreInv
(* The same of a step of a thread that runs a request.                     *)
<1>b. ASSUME NEW w \in Runners, Running(w)', \A v \in Runners : v # w => runner'[v] = runner[v]
      PROVE  \A v \in Rollbacks' : v \in Rollbacks /\ runner'[v] = runner[v]
  BY <1>b DEF Rollbacks, Running
<1>1. ASSUME NEW w \in Runners, NEW a \in Actions, BeginRun(w, a)
      PROVE  RestoreInv'
  <2>1. GoesTo(w, IF snapshot[a] = Missing THEN "read" ELSE "act", a, clock, Nothing, {}, {})
    BY <1>1, BeginRunGoes
  <2>2. UNCHANGED <<heads, target, snapshot, edited>> /\ muddled \subseteq muddled'
    BY <1>1 DEF BeginRun
  <2>3. \A t \in Targets : t # TargetOf[a] => original'[t] = original[t]
    BY <1>1, <1>t DEF BeginRun, RollbackTypeOK
  <2>4. Rollbacks # {} => TargetOf[a] \in muddled'
    BY <1>1 DEF BeginRun
  <2>5. \A v \in Rollbacks' : v \in Rollbacks /\ runner'[v] = runner[v]
    BY <1>b, <2>1 DEF GoesTo, Running
  <2> QED BY <1>a, <2>2, <2>3, <2>4, <2>5
<1>2. ASSUME NEW w \in Runners, ReadTarget(w)
      PROVE  RestoreInv'
  <2>1. \A v \in Rollbacks' : v \in Rollbacks /\ runner'[v] = runner[v]
    BY <1>2, <1>b, ReadTargetGoes DEF GoesTo, Running
  <2> QED BY <1>2, <1>a, <2>1 DEF ReadTarget
<1>3. ASSUME NEW w \in Runners, StoreSnapshot(w)
      PROVE  RestoreInv'
  <2>1. \A v \in Rollbacks' : v \in Rollbacks /\ runner'[v] = runner[v]
    BY <1>3, <1>b, StoreSnapshotGoes DEF GoesTo, Running
  <2>2. Running(w)
    BY <1>3 DEF StoreSnapshot, DoesAt, Running
  <2>3. PICK a \in Actions, t0 \in Targets : a = runner[w].action /\ t0 = TargetOf[a]
    BY <2>2, WorksAlone
  <2>4. Rollbacks # {} => t0 \in muddled
    BY <2>2, <2>3, WorksAlone
  <2>5. \A b \in Actions : b # a => snapshot'[b] = snapshot[b]
    BY <1>3, <1>t, <2>3 DEF StoreSnapshot, RollbackTypeOK
  <2>6. UNCHANGED <<heads, target, original, muddled, edited>>
    BY <1>3 DEF StoreSnapshot
  <2> QED BY <1>a, <2>1, <2>3, <2>4, <2>5, <2>6
<1>4. ASSUME NEW w \in Runners, Act(w)
      PROVE  RestoreInv'
  <2>1. \A v \in Rollbacks' : v \in Rollbacks /\ runner'[v] = runner[v]
    BY <1>4, ActGoes DEF GoesTo, Rollbacks
  <2>2. Running(w)
    BY <1>4 DEF Act, DoesAt, Running
  <2>3. PICK a \in Actions, t0 \in Targets : a = runner[w].action /\ t0 = TargetOf[a]
    BY <2>2, WorksAlone
  <2>4. Rollbacks # {} => t0 \in muddled
    BY <2>2, <2>3, WorksAlone
  <2>5. \A t \in Targets : t # t0 => target'[t] = target[t]
    BY <1>4, <1>t, <2>3 DEF Act, RollbackTypeOK
  <2>6. UNCHANGED <<heads, snapshot, original, muddled, edited>>
    BY <1>4 DEF Act
  <2> QED BY <1>a, <2>1, <2>4, <2>5, <2>6
<1>5. ASSUME NEW w \in Runners, BeginRollback(w)
      PROVE  RestoreInv'
  <2> DEFINE found == {a \in Actions : snapshot[a] # Missing}
  <2>1. GoesTo(w, "restore", "none", 0, Nothing, found, {})
    BY <1>5, BeginRollbackGoes
  <2>2. /\ UNCHANGED <<heads, target, snapshot, original, edited>>
        /\ muddled \subseteq muddled' /\ (Rollbacks # {} => Targets \subseteq muddled')
    BY <1>5 DEF BeginRollback
  <2>3. \A v \in Rollbacks' : v # w => v \in Rollbacks
    BY <2>1 DEF GoesTo, Rollbacks
  <2>4. \A u, v \in Rollbacks' : u # v => Targets \subseteq muddled'
    BY <2>2, <2>3
  <2>5. \A v \in Rollbacks' : DoesAt(v, "restored")' => Finished(v)'
    BY <1>r, <2>1, <2>3 DEF GoesTo, DoesAt, Finished, Rollbacks
  <2>6. ASSUME NEW v \in Rollbacks', NEW t \in Targets \ (muddled' \cup edited')
        PROVE  BringsBack(v, t)'
    <3>1. v = w
      BY <2>2, <2>3, <2>6
    <3>2. runner'[v].todo = found
      BY <2>1, <3>1 DEF GoesTo
    <3>3. FirstOf(t)' = FirstOf(t)
      BY <2>2, FirstOfStays
    <3>4. FirstOf(t) \subseteq found
      BY DEF FirstOf, Whole
    <3> QED BY <3>2, <3>3, <3>4 DEF BringsBack
  <2> QED BY <2>4, <2>5, <2>6 DEF RestoreInv
<1>6. ASSUME NEW w \in Runners, RestoreOne(w)
      PROVE  RestoreInv'
  <2> DEFINE c == runner[w]
  <2>1. PICK a, failed :
          /\ a \in c.todo /\ a \in Actions /\ Whole(snapshot[a])
          /\ \A b \in c.todo : snapshot[b].at <= snapshot[a].at
          /\ GoesTo(w, "restore", c.action, c.since, c.state, c.todo \ {a}, failed)
          /\ \/ /\ failed = c.failed
                /\ target' = IF TargetOf[a] \in heads /\ snapshot[a].state = Nothing THEN target
                             ELSE [target EXCEPT ![TargetOf[a]] = snapshot[a].state]
             \/ failed = c.failed \cup {a} /\ target' = target
    BY <1>6, RestoreOneGoes
  <2>2. UNCHANGED <<heads, snapshot, original, muddled, edited>> /\ DoesAt(w, "restore")
    BY <1>6 DEF RestoreOne
  <2>3. w \in Rollbacks /\ c.todo \subseteq Actions
    BY <1>t, <2>2 DEF DoesAt, Rollbacks, RollbackTypeOK, Runner
  <2>4. (\A v \in Runners : v # w => runner'[v] = runner[v]) /\ runner'[w].at = "restore"
        /\ runner'[w].todo = c.todo \ {a} /\ runner'[w].failed = failed
    BY <2>1 DEF GoesTo
  <2>5. Rollbacks' = Rollbacks
    BY <2>2, <2>4 DEF Rollbacks, DoesAt
  <2>6. \A v \in Rollbacks' : DoesAt(v, "restored")' => Finished(v)'
    BY <1>r, <2>4, <2>5 DEF DoesAt, Finished, Rollbacks
  <2>7. ASSUME NEW v \in Rollbacks', NEW t \in Targets \ (muddled' \cup edited')
        PROVE  BringsBack(v, t)'
    <3>1. v = w
      BY <1>r, <2>2, <2>3, <2>5, <2>7
    <3>2. FirstOf(t)' = FirstOf(t)
      BY <2>2, FirstOfStays
    <3>3. BringsBack(w, t)
      BY <1>r, <2>2, <2>3, <2>7
    <3> SUFFICES ASSUME FirstOf(t) # {}, FirstOf(t) \cap failed = {},
                        ~(t \in heads /\ original[t] = Nothing)
                 PROVE  \/ FirstOf(t) \cap (c.todo \ {a}) # {}
                        \/ target'[t] = original[t] /\ \A b \in c.todo \ {a} : TargetOf[b] # t
      BY <2>2, <2>4, <3>1, <3>2 DEF BringsBack
    <3>4. \/ FirstOf(t) \cap c.todo # {}
          \/ target[t] = original[t] /\ \A b \in c.todo : TargetOf[b] # t
      BY <2>1, <3>3 DEF BringsBack
    <3>5. CASE TargetOf[a] # t
      <4>1. target'[t] = target[t]
        BY <1>t, <2>1, <3>5 DEF RollbackTypeOK
      <4>2. a \notin FirstOf(t)
        BY <3>5 DEF FirstOf
      <4> QED BY <3>4, <4>1, <4>2
    <3>6. CASE TargetOf[a] = t /\ a \notin FirstOf(t)
      BY <2>1, <3>4, <3>6
    <3>7. CASE TargetOf[a] = t /\ a \in FirstOf(t)
      <4>1. original[t] # "none"
        BY <2>1, <3>7 DEF FirstInv, Whole
      <4>2. snapshot[a].state = original[t]
        BY <2>2, <2>7, <3>7, <4>1 DEF FirstInv
      <4>3. target'[t] = original[t]
        BY <1>t, <2>1, <3>7, <4>2 DEF RollbackTypeOK
      <4>4. ASSUME NEW b \in c.todo, TargetOf[b] = t
            PROVE  b \in FirstOf(t)
        <5>1. \A d \in Actions : snapshot[d].at \in Nat
          BY <1>t, SnapshotTimes
        <5>2. b \in Actions /\ Whole(snapshot[b]) /\ snapshot[b].at <= snapshot[a].at
          BY <2>1, <2>3, <4>4 DEF RollbackTypes
        <5>3. ASSUME NEW d \in Actions, TargetOf[d] = t, Whole(snapshot[d])
              PROVE  snapshot[b].at <= snapshot[d].at
          <6>1. snapshot[a].at <= snapshot[d].at
            BY <3>7, <5>3 DEF FirstOf
          <6> QED BY <2>1, <5>1, <5>2, <6>1
        <5> QED BY <4>4, <5>2, <5>3 DEF FirstOf
      <4> QED BY <4>3, <4>4
    <3> QED BY <3>5, <3>6, <3>7
  <2>8. \A u, v \in Rollbacks' : u # v => Targets \subseteq muddled'
    BY <1>r, <2>2, <2>5
  <2> QED BY <2>6, <2>7, <2>8 DEF RestoreInv
<1>7. ASSUME NEW w \in Runners, EndRollback(w)
      PROVE  RestoreInv'
  <2>1. UNCHANGED <<heads, target, snapshot, original, muddled, edited>>
    BY <1>7 DEF EndRollback
  <2>2. CASE /\ DoesAt(w, "restore") /\ Finished(w)
             /\ GoesTo(w, "restored", runner[w].action, runner[w].since, runner[w].state,
                       runner[w].todo, runner[w].failed)
    <3>1. /\ \A v \in Runners : v # w => runner'[v] = runner[v]
          /\ runner'[w].at = "restored" /\ runner'[w].todo = runner[w].todo
          /\ runner'[w].failed = runner[w].failed
      BY <2>2 DEF GoesTo
    <3>2. Rollbacks' = Rollbacks
      BY <2>2, <3>1 DEF Rollbacks, DoesAt
    <3>3. \A v \in Rollbacks' : DoesAt(v, "restored")' => Finished(v)'
      BY <1>r, <2>2, <3>1, <3>2 DEF DoesAt, Finished, Rollbacks
    <3>4. \A t \in Targets : FirstOf(t)' = FirstOf(t)
      BY <2>1, FirstOfStays
    <3>5. \A v \in Rollbacks', t \in Targets \ (muddled' \cup edited') : BringsBack(v, t)'
      <4>1. \A v \in Rollbacks' : /\ runner'[v].todo = runner[v].todo
                                  /\ runner'[v].failed = runner[v].failed
        BY <3>1 DEF Rollbacks
      <4> QED BY <1>r, <2>1, <3>2, <3>4, <4>1 DEF BringsBack
    <3>6. \A u, v \in Rollbacks' : u # v => Targets \subseteq muddled'
      BY <1>r, <2>1, <3>2
    <3> QED BY <3>3, <3>5, <3>6 DEF RestoreInv
  <2>3. CASE GoesTo(w, "rest", "none", 0, Nothing, {}, {})
    <3>1. \A v \in Rollbacks' : v \in Rollbacks /\ runner'[v] = runner[v]
      BY <2>3 DEF GoesTo, Rollbacks
    <3> QED BY <1>a, <2>1, <3>1
  <2> QED BY <1>7, <2>2, <2>3, EndRollbackGoes
<1>8. ASSUME NEW t1 \in Targets, EditTarget(t1)
      PROVE  RestoreInv'
  <2>1. UNCHANGED <<heads, snapshot, runner, original, muddled>>
    BY <1>8 DEF EditTarget
  <2>2. /\ \A t \in Targets : t # t1 => target'[t] = target[t]
        /\ edited \subseteq edited' /\ (original[t1] # "none" => t1 \in edited')
    BY <1>8, <1>t DEF EditTarget, RollbackTypeOK
  <2>3. Rollbacks' = Rollbacks
    BY <2>1 DEF Rollbacks
  <2>4. ASSUME NEW v \in Rollbacks', NEW t \in Targets \ (muddled' \cup edited')
        PROVE  BringsBack(v, t)'
    <3>1. FirstOf(t)' = FirstOf(t)
      BY <2>1, FirstOfStays
    <3>2. BringsBack(v, t)
      BY <1>r, <2>1, <2>2, <2>3, <2>4
    <3>3. CASE t # t1
      BY <2>1, <2>2, <3>1, <3>2, <3>3 DEF BringsBack
    <3>4. CASE t = t1
      <4>1. FirstOf(t) = {}
        BY <2>2, <2>4, <3>4 DEF FirstInv, FirstOf, Whole
      <4> QED BY <3>1, <4>1 DEF BringsBack
    <3> QED BY <3>3, <3>4
  <2>5. /\ \A u, v \in Rollbacks' : u # v => Targets \subseteq muddled'
        /\ \A v \in Rollbacks' : DoesAt(v, "restored")' => Finished(v)'
    BY <1>r, <2>1, <2>3 DEF DoesAt, Finished
  <2> QED BY <2>4, <2>5 DEF RestoreInv
<1>9. CASE CutOff
  <2>1. Rollbacks' = {}
    BY <1>9 DEF CutOff, AtRest, Rollbacks
  <2> QED BY <2>1 DEF RestoreInv
<1>10. CASE UNCHANGED rollbackVars
  <2>1. UNCHANGED <<heads, target, snapshot, runner, original, muddled, edited>>
    BY <1>10 DEF rollbackVars
  <2> QED BY <1>a, <2>1 DEF Rollbacks
<1> QED BY <1>1, <1>2, <1>3, <1>4, <1>5, <1>6, <1>7, <1>8, <1>9, <1>10 DEF RollbackNext

(* The four parts together always hold.                                    *)
LEMMA StageInvHolds == RollbackSpec => []StageInv
<1>1. RollbackInit => StageInv
  <2> SUFFICES ASSUME RollbackInit
               PROVE  StageInv
    OBVIOUS
  <2>1. RollbackTypes
    BY RollbackTypesInit
  <2>2. /\ \A a \in Actions : snapshot[a] = Missing
        /\ \A w \in Runners : runner[w].at = "rest"
        /\ \A t \in Targets : original[t] = "none"
        /\ changed = {}
    BY DEF RollbackInit, AtRest
  <2>3. Missing # HalfWritten
    BY DEF Missing, HalfWritten
  <2>4. RunsInv
    BY <2>2, <2>3 DEF RunsInv, Running, DoesAt, WorksOn
  <2>5. FirstInv
    BY <2>2 DEF FirstInv
  <2>6. RestoreInv
    BY <2>2 DEF RestoreInv, Rollbacks
  <2> QED BY <2>1, <2>4, <2>5, <2>6 DEF StageInv
<1>2. StageInv /\ [RollbackNext]_rollbackVars => StageInv'
  BY RollbackTypesStep, RunsStep, FirstStep, RestoreStep DEF StageInv
<1> QED BY <1>1, <1>2, PTL DEF RollbackSpec

(* A stage can be rolled back (rollback.py restore): whatever a request    *)
(* has changed was captured before, and what a rollback puts back is what  *)
(* was there before the stage, for any requests, threads, mishaps and      *)
(* rollbacks, where no two of them were at a target at once.               *)
THEOREM StagesCanBeUndone == RollbackSpec => []StageCanBeUndone
<1>1. StageInv => StageCanBeUndone
  <2> SUFFICES ASSUME StageInv
               PROVE  StageCanBeUndone
    OBVIOUS
  <2>1. RollbackTypeOK
    BY DEF StageInv, RollbackTypes
  <2>2. ChangedIsCaptured
    <3>1. changed \subseteq Actions /\ \A a \in Actions : TargetOf[a] \in Targets
      BY <2>1, RollbackAssumption DEF RollbackTypeOK
    <3> QED BY <3>1 DEF StageInv, RunsInv, ChangedIsCaptured
  <2>3. RollbackBringsBack
    <3> SUFFICES ASSUME NEW w \in Runners, DoesAt(w, "restored"),
                        NEW t \in Targets \ (muddled \cup edited),
                        FirstOf(t) # {}, FirstOf(t) \cap runner[w].failed = {},
                        ~(t \in heads /\ original[t] = Nothing)
                 PROVE  target[t] = original[t]
      BY DEF RollbackBringsBack
    <3>1. w \in Rollbacks
      BY DEF DoesAt, Rollbacks
    <3>2. BringsBack(w, t) /\ runner[w].todo = {}
      BY <3>1 DEF StageInv, RestoreInv, Finished
    <3> QED BY <3>2 DEF BringsBack
  <2> QED BY <2>1, <2>2, <2>3 DEF StageCanBeUndone
<1> QED BY <1>1, StageInvHolds, PTL

-----------------------------------------------------------------------------
(* Conflicts.  A resolution that was reported is the newest line about its *)
(* conflict, and nobody holds the conflict any longer: whoever begins to   *)
(* resolve it would have to read it as open.                               *)

IsNewest(m, id) == \A j \in DOMAIN journal : journal[j].about = id => j <= m

ConflictInv ==
  /\ ConflictTypeOK
  /\ \A i \in DOMAIN journal :
       /\ ~journal[i].ended => journal[i].about = "torn"
       /\ journal[i].about # "torn" => journal[i].about \in raised
  /\ \A r \in Resolvers : resolver[r] = AtEase \/ resolver[r].holds \in raised
  /\ \A id \in Issues : settled[id] # Open => id \in raised
  /\ \A id \in Issues \ contested :
       /\ \A r, v \in Resolvers : resolver[r].holds = id /\ resolver[v].holds = id => r = v
       /\ settled[id] # Open =>
            /\ \A r \in Resolvers : resolver[r].holds # id
            /\ \E m \in DOMAIN journal : journal[m] = Says(id, settled[id]) /\ IsNewest(m, id)

(* What the newest line about a conflict says is what the conflict is read *)
(* as, unless that line is beyond the window.                              *)
LEMMA NewestIsRead ==
  ASSUME ConflictTypeOK, NEW id \in Issues, NEW m \in DOMAIN journal,
         journal[m].about = id, IsNewest(m, id)
  PROVE  GetConflict(id) \in {journal[m].says, Unknown}
<1> DEFINE seen == {i \in DOMAIN journal : i + Window > Len(journal) /\ journal[i].about = id}
<1>1. journal \in Seq(JournalLine) /\ Window \in Nat
  BY ConflictAssumption DEF ConflictTypeOK
<1>2. DOMAIN journal = 1..Len(journal) /\ Len(journal) \in Nat
  BY <1>1
<1>3. CASE seen = {}
  BY <1>3 DEF GetConflict
<1>4. CASE seen # {}
  <2>1. PICK i \in seen : TRUE
    BY <1>4
  <2>2. i <= m
    BY <2>1 DEF IsNewest
  <2>3. m \in seen
    BY <1>1, <1>2, <2>1, <2>2
  <2>4. \A x \in seen : m >= x
    BY <1>2 DEF IsNewest
  <2>5. \A x \in seen : (\A y \in seen : x >= y) => x = m
    BY <1>2, <2>3, <2>4
  <2> HIDE DEF seen
  <2>6. Max(seen) = m
    BY <2>3, <2>4, <2>5 DEF Max
  <2>7. GetConflict(id) = journal[Max(seen)].says
    BY <1>4 DEF GetConflict, seen
  <2> QED
    BY <2>6, <2>7
<1> QED
  BY <1>3, <1>4

(* A conflict that reads as open has a line.                               *)
LEMMA OpenHasLine ==
  ASSUME NEW id \in Issues, GetConflict(id) = Open
  PROVE  \E i \in DOMAIN journal : journal[i].about = id
<1> DEFINE seen == {i \in DOMAIN journal : i + Window > Len(journal) /\ journal[i].about = id}
<1>1. seen # {}
  BY DEF GetConflict, Unknown, Open
<1> QED
  BY <1>1

(* A new line takes the last place, or is lost in the torn one there.      *)
LEMMA JournaledGoes ==
  ASSUME ConflictTypeOK, NEW line \in JournalLine, line.ended, NEW new, new = Journaled(line)
  PROVE  /\ new \in Seq(JournalLine)
         /\ (Swallows => Len(new) = Len(journal)) /\ (~Swallows => Len(new) = Len(journal) + 1)
         /\ Len(new) > 0
         /\ \A i \in 1..(Len(new) - 1) : i \in DOMAIN journal /\ new[i] = journal[i]
         /\ Swallows => new[Len(new)] = [about |-> "torn", says |-> Open, ended |-> TRUE]
         /\ ~Swallows => new[Len(new)] = line
         /\ Swallows => ~journal[Len(journal)].ended
<1> DEFINE torn == [about |-> "torn", says |-> Open, ended |-> TRUE]
<1>1. journal \in Seq(JournalLine)
  BY DEF ConflictTypeOK
<1>2. torn \in JournalLine
  BY DEF JournalLine
<1> HIDE DEF torn
<1>3. CASE Swallows
  <2>1. Journaled(line) = Append(Front(journal), torn) /\ journal # << >>
    BY <1>3 DEF Journaled, Swallows, torn
  <2>2. Len(journal) \in Nat \ {0}
    BY <1>1, <2>1
  <2>3. /\ Front(journal) \in Seq(JournalLine) /\ Len(Front(journal)) = Len(journal) - 1
        /\ \A i \in 1..(Len(journal) - 1) : Front(journal)[i] = journal[i]
    <3>1. PICK n \in Nat : n = Len(journal) - 1
      BY <2>2
    <3>2. Front(journal) = SubSeq(journal, 1, n) /\ n <= Len(journal) /\ n + 1 = Len(journal)
      BY <2>2, <3>1 DEF Front
    <3>3. SubSeq(journal, 1, n) \in Seq(JournalLine) /\ Len(SubSeq(journal, 1, n)) = n
      BY <1>1, <2>2, <3>2
    <3>4. \A i \in 1..n : SubSeq(journal, 1, n)[i] = journal[i]
      BY <1>1, <2>2, <3>2
    <3> QED
      BY <3>1, <3>2, <3>3, <3>4
  <2>4. ~journal[Len(journal)].ended
    BY <1>3 DEF Swallows, Last
  <2> QED
    BY <1>1, <1>2, <1>3, <2>1, <2>2, <2>3, <2>4 DEF torn
<1>4. CASE ~Swallows
  <2>1. Journaled(line) = Append(journal, line)
    BY <1>4 DEF Journaled
  <2> QED
    BY <1>1, <1>4, <2>1
<1> QED
  BY <1>3, <1>4

(* The lines that are there stay the newest about their conflicts, except  *)
(* about the one that gets a line.                                         *)
LEMMA LineKeeps ==
  ASSUME ConflictInv, NEW id \in Issues, NEW says \in Options \cup {Open},
         journal' = Journaled(Says(id, says)), raised \subseteq raised', id \in raised'
  PROVE  /\ journal' \in Seq(JournalLine)
         /\ \A i \in DOMAIN journal' :
              /\ i < Len(journal') => journal'[i].ended
              /\ ~journal'[i].ended => journal'[i].about = "torn"
              /\ journal'[i].about # "torn" => journal'[i].about \in raised'
         /\ \A m \in DOMAIN journal, other \in Issues \ {id} :
              journal[m].about = other /\ IsNewest(m, other) =>
                m \in DOMAIN journal' /\ journal'[m] = journal[m] /\ IsNewest(m, other)'
         /\ ~Swallows => \E m \in DOMAIN journal' :
              journal'[m] = Says(id, says) /\ IsNewest(m, id)'
<1> DEFINE line == Says(id, says)
<1>1. line \in JournalLine /\ line.ended /\ line.about = id
  BY DEF Says, JournalLine
<1> HIDE DEF line
<1>2. ConflictTypeOK
  BY DEF ConflictInv
<1>0. PICK n : n = Len(journal')
  OBVIOUS
<1>3. /\ journal' \in Seq(JournalLine) /\ n \in Nat \ {0} /\ DOMAIN journal' = 1..n
      /\ (Swallows => n = Len(journal)) /\ (~Swallows => n = Len(journal) + 1)
      /\ \A i \in 1..(n - 1) : i \in DOMAIN journal /\ journal'[i] = journal[i]
      /\ Swallows => journal'[n] = [about |-> "torn", says |-> Open, ended |-> TRUE]
      /\ ~Swallows => journal'[n] = line
      /\ Swallows => ~journal[Len(journal)].ended
  <2>1. journal' = Journaled(line)
    BY DEF line
  <2>2. /\ journal' \in Seq(JournalLine)
        /\ (Swallows => n = Len(journal)) /\ (~Swallows => n = Len(journal) + 1)
        /\ n > 0
        /\ \A i \in 1..(n - 1) : i \in DOMAIN journal /\ journal'[i] = journal[i]
        /\ Swallows => journal'[n] = [about |-> "torn", says |-> Open, ended |-> TRUE]
        /\ ~Swallows => journal'[n] = line
        /\ Swallows => ~journal[Len(journal)].ended
    <3>1. PICK new : new = Journaled(line)
      OBVIOUS
    <3>2. /\ new \in Seq(JournalLine)
          /\ (Swallows => Len(new) = Len(journal)) /\ (~Swallows => Len(new) = Len(journal) + 1)
          /\ Len(new) > 0
          /\ \A i \in 1..(Len(new) - 1) : i \in DOMAIN journal /\ new[i] = journal[i]
          /\ Swallows => new[Len(new)] = [about |-> "torn", says |-> Open, ended |-> TRUE]
          /\ ~Swallows => new[Len(new)] = line
          /\ Swallows => ~journal[Len(journal)].ended
      BY <1>1, <1>2, <3>1, JournaledGoes
    <3> QED
      BY <1>0, <2>1, <3>1, <3>2
  <2>3. n \in Nat /\ DOMAIN journal' = 1..n
    BY <1>0, <2>2
  <2> QED
    BY <2>2, <2>3
<1>4. journal \in Seq(JournalLine) /\ Len(journal) \in Nat /\ DOMAIN journal = 1..Len(journal)
  BY <1>2 DEF ConflictTypeOK
<1>11. PICK k \in Nat : k = Len(journal)
  BY <1>4
<1>12. /\ n \in Nat /\ n > 0 /\ DOMAIN journal = 1..k /\ DOMAIN journal' = 1..n
       /\ Swallows => n = k /\ ~journal[k].ended
       /\ ~Swallows => n = k + 1
  <2>1. n \in Nat \ {0} /\ DOMAIN journal' = 1..n
    BY <1>3
  <2>2. DOMAIN journal = 1..k
    BY <1>4, <1>11
  <2>3. (Swallows => n = k /\ ~journal[k].ended) /\ (~Swallows => n = k + 1)
    BY <1>3, <1>11
  <2>4. n \in Nat /\ n > 0
    BY <2>1
  <2> QED BY <2>1, <2>2, <2>3, <2>4
<1>13. \A i \in 1..(n - 1) : journal[i].ended
  <2> TAKE i \in 1..(n - 1)
  <2>1. i \in DOMAIN journal
    BY <1>3
  <2>2. CASE i = Len(journal)
    <3>1. ~Swallows
      <4>1. i \in Nat /\ i = k /\ i <= n - 1
        BY <1>11, <1>12, <2>2
      <4> QED
        BY <1>12, <4>1
    <3> QED
      BY <1>4, <2>1, <2>2, <3>1 DEF Swallows, Last
  <2>3. CASE i # Len(journal)
    BY <1>2, <1>4, <2>1, <2>3 DEF ConflictTypeOK
  <2> QED
    BY <2>2, <2>3
<1>5. journal'[n].ended /\ (journal'[n].about = "torn" \/ (~Swallows /\ journal'[n] = line))
  BY <1>1, <1>3
<1>6. \A i \in DOMAIN journal' :
        /\ i < n => journal'[i].ended
        /\ ~journal'[i].ended => journal'[i].about = "torn"
        /\ journal'[i].about # "torn" => journal'[i].about \in raised'
  <2> TAKE i \in DOMAIN journal'
  <2>1. CASE i = n
    BY <1>1, <1>3, <1>5, <2>1
  <2>2. CASE i # n
    <3>1. i \in 1..(n - 1)
      BY <1>3, <2>2
    <3>2. i \in DOMAIN journal /\ journal'[i] = journal[i] /\ journal[i].ended
      BY <1>3, <1>13, <3>1
    <3> QED
      BY <3>2 DEF ConflictInv
  <2> QED
    BY <2>1, <2>2
<1>7. ASSUME NEW m \in DOMAIN journal, NEW other \in Issues \ {id},
             journal[m].about = other, IsNewest(m, other)
      PROVE  m \in DOMAIN journal' /\ journal'[m] = journal[m] /\ IsNewest(m, other)'
  <2>1. other # "torn"
    BY IssueNames
  <2>2. journal[m].ended
    BY <1>7, <2>1 DEF ConflictInv
  <2>3. m \in 1..(n - 1) /\ m \in DOMAIN journal'
    <3>1. CASE Swallows
      <4>1. n = k /\ m # k /\ m \in 1..k
        BY <1>12, <2>2, <3>1
      <4> QED
        BY <1>12, <4>1
    <3>2. CASE ~Swallows
      <4>1. n = k + 1 /\ m \in 1..k
        BY <1>12, <3>2
      <4> QED
        BY <1>12, <4>1
    <3> QED
      BY <3>1, <3>2
  <2>4. \A j \in DOMAIN journal' : journal'[j].about = other => j <= m
    <3> TAKE j \in DOMAIN journal'
    <3>1. CASE j = n
      BY <1>1, <1>5, <2>1, <3>1
    <3>2. CASE j # n
      BY <1>3, <1>7, <3>2 DEF IsNewest
    <3> QED
      BY <3>1, <3>2
  <2> QED
    BY <1>3, <2>3, <2>4 DEF IsNewest
<1>8. ASSUME ~Swallows
      PROVE  \E m \in DOMAIN journal' : journal'[m] = Says(id, says) /\ IsNewest(m, id)'
  <2>1. n \in DOMAIN journal' /\ journal'[n] = Says(id, says)
    BY <1>3, <1>8 DEF line
  <2>2. IsNewest(n, id)'
    BY <1>3 DEF IsNewest
  <2> QED
    BY <2>1, <2>2
<1> QED
  BY <1>0, <1>3, <1>6, <1>7, <1>8

(* At first there is no conflict.                                          *)
LEMMA ConflictInvInit == ConflictInit => ConflictInv
<1> SUFFICES ASSUME ConflictInit PROVE ConflictInv
  OBVIOUS
<1>1. ConflictTypeOK
  BY ConflictAssumption DEF ConflictInit, ConflictTypeOK, AtEase
<1> QED
  BY <1>1, IssueNames DEF ConflictInit, ConflictInv, AtEase

(* Every step keeps the invariant.                                         *)
LEMMA ConflictInvStep == ConflictInv /\ [ConflictNext]_conflictVars => ConflictInv'
<1> SUFFICES ASSUME ConflictInv, [ConflictNext]_conflictVars PROVE ConflictInv'
  OBVIOUS
<1> USE IssueNames
<1>1. ASSUME NEW id \in Issues, CreateConflict(id) PROVE ConflictInv'
  <2>1. /\ journal' = Journaled(Says(id, Open)) /\ raised' = raised \cup {id}
        /\ id \notin raised /\ contested \subseteq contested'
        /\ UNCHANGED <<resolver, tears, settled>>
        /\ contested' \subseteq contested \cup {id}
    BY <1>1 DEF CreateConflict
  <2>2. /\ journal' \in Seq(JournalLine)
        /\ \A i \in DOMAIN journal' :
             /\ i < Len(journal') => journal'[i].ended
             /\ ~journal'[i].ended => journal'[i].about = "torn"
             /\ journal'[i].about # "torn" => journal'[i].about \in raised'
        /\ \A m \in DOMAIN journal, other \in Issues \ {id} :
             journal[m].about = other /\ IsNewest(m, other) =>
               m \in DOMAIN journal' /\ journal'[m] = journal[m] /\ IsNewest(m, other)'
    BY <2>1, LineKeeps
  <2>3. ConflictTypeOK'
    BY <2>1, <2>2 DEF ConflictInv, ConflictTypeOK
  <2>4. settled[id] = Open
    BY <2>1 DEF ConflictInv
  <2>5. ASSUME NEW k \in (Issues \ contested)', settled'[k] # Open
        PROVE  /\ \A r \in Resolvers : resolver'[r].holds # k
               /\ \E m \in DOMAIN journal' : journal'[m] = Says(k, settled'[k]) /\ IsNewest(m, k)'
    <3>1. k \in Issues \ contested /\ settled[k] # Open /\ k # id
      BY <2>1, <2>4, <2>5
    <3>2. PICK m \in DOMAIN journal : journal[m] = Says(k, settled[k]) /\ IsNewest(m, k)
      BY <3>1 DEF ConflictInv
    <3>3. journal[m].about = k
      BY <3>2 DEF Says
    <3> QED
      BY <2>1, <2>2, <3>1, <3>2, <3>3 DEF ConflictInv
  <2> QED
    BY <2>1, <2>2, <2>3, <2>5 DEF ConflictInv
<1>2. ASSUME NEW r \in Resolvers, NEW id \in Issues, BeginResolve(r, id) PROVE ConflictInv'
  <2>1. /\ resolver[r] = AtEase /\ GetConflict(id) = Open
        /\ UNCHANGED <<journal, raised, tears, settled>>
        /\ contested' = contested \cup {i \in {id} : \E v \in Resolvers : resolver[v].holds = id}
    BY <1>2 DEF BeginResolve
  <2>2. PICK choice \in Options :
          resolver' = [resolver EXCEPT ![r] = [holds |-> id, choice |-> choice]]
    BY <1>2 DEF BeginResolve
  <2>3. ConflictTypeOK'
    BY <2>1, <2>2 DEF ConflictInv, ConflictTypeOK
  <2>4. resolver'[r].holds = id /\ \A v \in Resolvers : v # r => resolver'[v] = resolver[v]
    BY <2>2 DEF ConflictInv, ConflictTypeOK
  <2>5. PICK i \in DOMAIN journal : journal[i].about = id
    BY <2>1, OpenHasLine
  <2>6. id \in raised /\ id # "none"
    BY <2>5 DEF ConflictInv
  <2>7. id \notin contested => settled[id] = Open
    <3> SUFFICES ASSUME id \notin contested, settled[id] # Open PROVE FALSE
      OBVIOUS
    <3>1. PICK m \in DOMAIN journal : journal[m] = Says(id, settled[id]) /\ IsNewest(m, id)
      BY DEF ConflictInv
    <3>2. journal[m].about = id /\ journal[m].says = settled[id]
      BY <3>1 DEF Says
    <3>3. GetConflict(id) \in {settled[id], Unknown}
      BY <3>1, <3>2, NewestIsRead DEF ConflictInv
    <3> QED
      BY <2>1, <3>3 DEF Unknown, Open
  <2>8. ASSUME NEW k \in (Issues \ contested)', NEW u \in Resolvers, NEW v \in Resolvers,
               resolver'[u].holds = k, resolver'[v].holds = k
        PROVE  u = v
    <3>1. k \in Issues \ contested
      BY <2>1, <2>8
    <3>2. CASE k = id
      <4>1. \A w \in Resolvers : resolver[w].holds # id
        BY <2>1, <2>8, <3>2
      <4> QED
        BY <2>4, <2>8, <3>2, <4>1
    <3>3. CASE k # id
      BY <2>4, <2>8, <3>1, <3>3 DEF ConflictInv
    <3> QED
      BY <3>2, <3>3
  <2>9. ASSUME NEW k \in (Issues \ contested)', settled'[k] # Open
        PROVE  /\ \A v \in Resolvers : resolver'[v].holds # k
               /\ \E m \in DOMAIN journal' : journal'[m] = Says(k, settled'[k]) /\ IsNewest(m, k)'
    <3>1. k \in Issues \ contested /\ k # id /\ settled[k] # Open
      BY <2>1, <2>7, <2>9
    <3>2. PICK m \in DOMAIN journal : journal[m] = Says(k, settled[k]) /\ IsNewest(m, k)
      BY <3>1 DEF ConflictInv
    <3>3. IsNewest(m, k)'
      BY <2>1, <3>2 DEF IsNewest
    <3> QED
      BY <2>1, <2>4, <3>1, <3>2, <3>3 DEF ConflictInv
  <2>10. \A v \in Resolvers : resolver'[v] = AtEase \/ resolver'[v].holds \in raised'
    BY <2>1, <2>4, <2>6 DEF ConflictInv
  <2> QED
    BY <2>1, <2>3, <2>8, <2>9, <2>10 DEF ConflictInv
<1>3. ASSUME NEW r \in Resolvers, FinishResolve(r) PROVE ConflictInv'
  <2>1. PICK c \in [holds: Issues \cup {"none"}, choice: Options \cup {Open}] : c = resolver[r]
    BY DEF ConflictInv, ConflictTypeOK
  <2>2. c.holds \in raised /\ c.holds \in Issues /\ c # AtEase
    BY <1>3, <2>1 DEF FinishResolve, ConflictInv, ConflictTypeOK
  <2>3. /\ journal' = Journaled(Says(c.holds, c.choice)) /\ UNCHANGED <<raised, tears>>
        /\ settled' = IF settled[c.holds] = Open THEN [settled EXCEPT ![c.holds] = c.choice]
                                                 ELSE settled
        /\ contested' = IF Swallows THEN contested \cup {c.holds} ELSE contested
        /\ resolver' = [resolver EXCEPT ![r] = AtEase]
    BY <1>3, <2>1 DEF FinishResolve
  <2>4. PICK id \in Issues : id = c.holds
    BY <2>2
  <2>5. PICK choice \in Options \cup {Open} : choice = c.choice
    BY <2>1
  <2>6. journal' = Journaled(Says(id, choice)) /\ raised \subseteq raised' /\ id \in raised'
    BY <2>2, <2>3, <2>4, <2>5
  <2>7. /\ journal' \in Seq(JournalLine)
        /\ \A i \in DOMAIN journal' :
             /\ i < Len(journal') => journal'[i].ended
             /\ ~journal'[i].ended => journal'[i].about = "torn"
             /\ journal'[i].about # "torn" => journal'[i].about \in raised'
        /\ \A m \in DOMAIN journal, other \in Issues \ {id} :
             journal[m].about = other /\ IsNewest(m, other) =>
               m \in DOMAIN journal' /\ journal'[m] = journal[m] /\ IsNewest(m, other)'
        /\ ~Swallows => \E m \in DOMAIN journal' :
             journal'[m] = Says(id, choice) /\ IsNewest(m, id)'
    BY <2>6, LineKeeps
  <2>8. ConflictTypeOK'
    <3>1. settled' \in [Issues -> Options \cup {Open}]
      BY <2>1, <2>3, <2>4 DEF ConflictInv, ConflictTypeOK
    <3>2. resolver' \in [Resolvers -> [holds: Issues \cup {"none"}, choice: Options \cup {Open}]]
      BY <2>3 DEF ConflictInv, ConflictTypeOK, AtEase
    <3> QED
      BY <2>3, <2>4, <2>7, <3>1, <3>2 DEF ConflictInv, ConflictTypeOK
  <2>9. /\ resolver'[r] = AtEase
        /\ \A v \in Resolvers : v # r => resolver'[v] = resolver[v]
        /\ \A k \in Issues : k # id => settled'[k] = settled[k]
        /\ settled[id] = Open => settled'[id] = choice
        /\ settled[id] # Open => settled'[id] = settled[id]
    BY <2>3, <2>4, <2>5 DEF ConflictInv, ConflictTypeOK
  <2>10. AtEase.holds \notin Issues
    BY DEF AtEase
  <2>11. ASSUME NEW k \in (Issues \ contested)'
         PROVE  /\ \A u, v \in Resolvers :
                     resolver'[u].holds = k /\ resolver'[v].holds = k => u = v
                /\ settled'[k] # Open =>
                     /\ \A v \in Resolvers : resolver'[v].holds # k
                     /\ \E m \in DOMAIN journal' :
                          journal'[m] = Says(k, settled'[k]) /\ IsNewest(m, k)'
    <3>1. k \in Issues \ contested /\ (k = id => ~Swallows)
      BY <2>3, <2>4, <2>11
    <3>2. \A u, v \in Resolvers : resolver'[u].holds = k /\ resolver'[v].holds = k => u = v
      BY <2>9, <2>10, <3>1 DEF ConflictInv
    <3>3. CASE k = id
      <4>1. settled[id] = Open
        BY <2>1, <2>4, <3>1, <3>3 DEF ConflictInv
      <4>2. \A v \in Resolvers : resolver'[v].holds # k
        BY <2>1, <2>4, <2>9, <2>10, <3>1, <3>3 DEF ConflictInv
      <4> QED
        BY <2>7, <2>9, <3>1, <3>2, <3>3, <4>1, <4>2
    <3>4. CASE k # id
      <4> SUFFICES ASSUME settled'[k] # Open
                   PROVE  /\ \A v \in Resolvers : resolver'[v].holds # k
                          /\ \E m \in DOMAIN journal' :
                               journal'[m] = Says(k, settled'[k]) /\ IsNewest(m, k)'
        BY <3>2
      <4>1. settled'[k] = settled[k]
        BY <2>9, <3>1, <3>4
      <4>2. PICK m \in DOMAIN journal : journal[m] = Says(k, settled[k]) /\ IsNewest(m, k)
        BY <3>1, <4>1 DEF ConflictInv
      <4>3. journal[m].about = k
        BY <4>2 DEF Says
      <4> QED
        BY <2>7, <2>9, <2>10, <3>1, <3>4, <4>1, <4>2, <4>3 DEF ConflictInv
    <3> QED
      BY <3>3, <3>4
  <2>12. \A v \in Resolvers : resolver'[v] = AtEase \/ resolver'[v].holds \in raised'
    BY <2>3, <2>9 DEF ConflictInv
  <2>13. \A k \in Issues : settled'[k] # Open => k \in raised'
    BY <2>3, <2>6, <2>9 DEF ConflictInv
  <2> QED
    BY <2>7, <2>8, <2>11, <2>12, <2>13 DEF ConflictInv
<1>4. ASSUME Tear PROVE ConflictInv'
  <2>1. /\ resolver' = [r \in Resolvers |-> AtEase]
        /\ UNCHANGED <<raised, settled, contested>>
        /\ tears' = tears + 1 /\ tears < MaxTears
    BY <1>4 DEF Tear
  <2>2. \A r \in Resolvers : resolver'[r] = AtEase /\ resolver'[r].holds \notin Issues
    BY <2>1 DEF AtEase
  <2>3. /\ journal' \in Seq(JournalLine)
        /\ \A i \in DOMAIN journal' :
             /\ i < Len(journal') => journal'[i].ended
             /\ ~journal'[i].ended => journal'[i].about = "torn"
             /\ journal'[i].about # "torn" => journal'[i].about \in raised
        /\ \A m \in DOMAIN journal, k \in Issues : IsNewest(m, k) =>
             m \in DOMAIN journal' /\ journal'[m] = journal[m] /\ IsNewest(m, k)'
    <3>1. CASE UNCHANGED journal
      BY <3>1 DEF ConflictInv, ConflictTypeOK, IsNewest
    <3>2. CASE /\ ~Swallows
               /\ journal' = Append(journal, [about |-> "torn", says |-> Open, ended |-> FALSE])
      <4> DEFINE half == [about |-> "torn", says |-> Open, ended |-> FALSE]
      <4>0. half \in JournalLine /\ half.about = "torn"
        BY DEF JournalLine
      <4> HIDE DEF half
      <4>1. PICK line \in JournalLine : line = half /\ line.about = "torn"
        BY <4>0
      <4>2. journal \in Seq(JournalLine) /\ journal' = Append(journal, line)
        BY <3>2, <4>1 DEF ConflictInv, ConflictTypeOK, half
      <4>3. /\ journal' \in Seq(JournalLine) /\ Len(journal') = Len(journal) + 1
            /\ Len(journal) \in Nat /\ DOMAIN journal = 1..Len(journal)
            /\ DOMAIN journal' = 1..(Len(journal) + 1)
            /\ \A i \in DOMAIN journal : journal'[i] = journal[i]
            /\ journal'[Len(journal) + 1] = line
        BY <4>2
      <4>4. \A i \in DOMAIN journal : journal[i].ended
        <5> TAKE i \in DOMAIN journal
        <5>1. CASE i = Len(journal)
          BY <3>2, <4>2, <4>3, <5>1 DEF Swallows, Last
        <5>2. CASE i # Len(journal)
          BY <4>3, <5>2 DEF ConflictInv, ConflictTypeOK
        <5> QED
          BY <5>1, <5>2
      <4>5. \A i \in DOMAIN journal' : i \in DOMAIN journal \/ i = Len(journal) + 1
        BY <4>3
      <4>6. ASSUME NEW m \in DOMAIN journal, NEW k \in Issues, IsNewest(m, k)
            PROVE  m \in DOMAIN journal' /\ journal'[m] = journal[m] /\ IsNewest(m, k)'
        BY <4>1, <4>3, <4>5, <4>6 DEF IsNewest
      <4>7. \A i \in DOMAIN journal' :
              /\ i < Len(journal') => journal'[i].ended
              /\ ~journal'[i].ended => journal'[i].about = "torn"
              /\ journal'[i].about # "torn" => journal'[i].about \in raised
        BY <4>1, <4>3, <4>4, <4>5 DEF ConflictInv
      <4> QED
        BY <4>3, <4>6, <4>7
    <3> QED
      BY <1>4, <3>1, <3>2 DEF Tear
  <2>4. ConflictTypeOK'
    <3>1. tears' \in 0..MaxTears
      BY <2>1, ConflictAssumption DEF ConflictInv, ConflictTypeOK
    <3>2. resolver' \in [Resolvers -> [holds: Issues \cup {"none"}, choice: Options \cup {Open}]]
      BY <2>1 DEF AtEase
    <3> QED
      BY <2>1, <2>3, <3>1, <3>2 DEF ConflictInv, ConflictTypeOK
  <2>5. ASSUME NEW k \in Issues \ contested, settled[k] # Open
        PROVE  \E m \in DOMAIN journal' : journal'[m] = Says(k, settled[k]) /\ IsNewest(m, k)'
    BY <2>3, <2>5 DEF ConflictInv
  <2> QED
    BY <2>1, <2>2, <2>3, <2>4, <2>5 DEF ConflictInv
<1>5. CASE UNCHANGED conflictVars
  BY <1>5 DEF conflictVars, ConflictInv, ConflictTypeOK, IsNewest
<1> QED
  BY <1>1, <1>2, <1>3, <1>4, <1>5 DEF ConflictNext

(* What a human decided of a conflict stays decided: conflicts that no two *)
(* threads held open, and of which no line was lost behind a torn one,     *)
(* read as they were resolved first or not at all, however many crashes    *)
(* and other conflicts there are.                                          *)
THEOREM ResolutionsStand == ConflictSpec => []ConflictsStayResolved
<1>1. ConflictInv => ConflictsStayResolved
  <2> SUFFICES ASSUME ConflictInv, NEW id \in Issues \ contested, settled[id] # Open
               PROVE  GetConflict(id) \in {settled[id], Unknown}
    BY DEF ConflictInv, ConflictsStayResolved, ResolutionStands
  <2>1. PICK m \in DOMAIN journal : journal[m] = Says(id, settled[id]) /\ IsNewest(m, id)
    BY DEF ConflictInv
  <2>2. journal[m].about = id /\ journal[m].says = settled[id]
    BY <2>1 DEF Says
  <2> QED
    BY <2>1, <2>2, NewestIsRead DEF ConflictInv
<1> QED
  BY <1>1, ConflictInvInit, ConflictInvStep, PTL DEF ConflictSpec

-----------------------------------------------------------------------------
(* Backups.  The rows are copied after the documents, so that they show    *)
(* the approval of every effect the documents have.  What a crashed backup *)
(* left is never later than a complete backup of this life, so that where  *)
(* the latest one is recent, a complete one is.                            *)

CopyInv ==
  /\ copying = Idle <=> copying.step = "idle"
  /\ copying # Idle =>
       ~copying.backup.complete /\ copying.backup.life = life /\ copying.backup.at <= time
  /\ copying.step = "rows" => copying.backup.docs \subseteq effects
  /\ copying.step = "finish" =>
       /\ copying.backup.rows \in [Requests -> RowStates]
       /\ \A q \in copying.backup.docs : copying.backup.rows[q] # Undecided

(* The backup that stands for all those that crashes left behind.          *)
Covers(b) == b.complete /\ \A c \in backups : c.complete \/ c.at <= b.at

BackupInv ==
  /\ BackupTypeOK /\ EffectsWereApproved /\ CopyInv
  /\ \A q \in effects : row[q] # Undecided
  /\ \A b \in backups : b.at <= time
  /\ gate <= time /\ life = crashed + 1
  /\ service # "starting" => \E b \in backups : Covers(b) /\ b.life = life
  /\ service = "passing" /\ copying = Idle =>
       \E b \in backups : b.complete /\ gate < b.at + Interval

(* There is a latest backup, unless there is none.                         *)
LEMMA LatestIsThere ==
  ASSUME BackupTypeOK, backups # {}
  PROVE  Latest \in backups /\ \A b \in backups : b.at <= Latest.at
<1> DEFINE times == {b.at : b \in backups}
<1>1. times \subseteq Nat /\ times # {} /\ \A i \in times : i <= MaxTime
  BY DEF BackupTypeOK, Backup
<1>2. MaxTime \in Nat
  BY BackupAssumption
<1>3. PICK i \in times : \A j \in times : j <= i
  <2> HIDE DEF times
  <2> QED BY <1>1, <1>2, LargestExists
<1>4. \E b \in backups : \A other \in backups : other.at <= b.at
  BY <1>3
<1> QED
  BY <1>4 DEF Latest

(* What a step of a backup makes of it.                                    *)
BackupGoes(step, at, docs, rows, complete, born) ==
  /\ copying' \in Copying
  /\ copying'.step = step /\ copying'.backup \in Backup
  /\ copying'.backup.at = at /\ copying'.backup.docs = docs /\ copying'.backup.rows = rows
  /\ copying'.backup.complete = complete /\ copying'.backup.life = born

(* What a maintenance thread at rest is made of.                           *)
LEMMA IdleIs ==
  /\ Idle \in Copying /\ Idle.step = "idle" /\ Idle.backup \in Backup /\ Idle.backup.at = 0
  /\ Idle.backup.docs = {} /\ Idle.backup.rows = NoRows /\ Idle.backup.life = 0
  /\ NoRows \in [Requests -> RowStates \cup {"none"}]
<1>1. NoRows \in [Requests -> RowStates \cup {"none"}]
  BY DEF NoRows
<1>2. 0 \in 0..MaxTime
  BY BackupAssumption
<1> QED
  BY <1>1, <1>2 DEF Idle, Copying, Backup

(* Where each step of a backup leads: the documents come first,            *)
LEMMA BeginBackupGoes ==
  ASSUME BackupInv, BeginBackup
  PROVE  BackupGoes("docs", time, {}, NoRows, FALSE, life) /\ copying' # Idle
<1>1. time \in 0..MaxTime /\ life \in Nat
  BY DEF BackupInv, BackupTypeOK
<1>2. Idle.backup \in Backup /\ ~Idle.backup.complete
  BY IdleIs DEF Idle
<1>3. copying' = [step |-> "docs", backup |-> [Idle.backup EXCEPT !.at = time, !.life = life]]
  BY DEF BeginBackup, CopyOrder
<1>4. PICK b \in Backup : b = [Idle.backup EXCEPT !.at = time, !.life = life]
  BY <1>1, <1>2 DEF Backup
<1>5. /\ b.at = time /\ b.docs = {} /\ b.rows = NoRows /\ b.life = life /\ b.complete = FALSE
  BY <1>1, <1>4, IdleIs DEF Idle
<1>6. copying' = [step |-> "docs", backup |-> b]
  BY <1>3, <1>4
<1>7. copying' \in Copying /\ copying'.step = "docs" /\ copying'.backup = b
  BY <1>6 DEF Copying
<1>8. copying' # Idle
  BY <1>7, IdleIs
<1> QED
  BY <1>5, <1>7, <1>8 DEF BackupGoes

(* then the rows of the queue,                                             *)
LEMMA CopyDocsGoes ==
  ASSUME BackupInv, CopyDocs
  PROVE  /\ BackupGoes("rows", time, effects, copying.backup.rows, FALSE, life)
         /\ copying' # Idle /\ copying # Idle
<1>1. time \in 0..MaxTime /\ effects \subseteq Requests
  BY DEF BackupInv, BackupTypeOK
<1>2. copying \in Copying /\ copying.step = "docs" /\ copying # Idle
  BY IdleIs DEF CopyDocs, BackupInv, BackupTypeOK
<1>3. PICK b \in Backup : b = copying.backup /\ b.complete = FALSE /\ b.life = life
  BY <1>2 DEF BackupInv, CopyInv, Copying, Backup
<1>4. copying' = [copying EXCEPT !.step = "rows", !.backup.docs = effects, !.backup.at = time]
  BY DEF CopyDocs, CopyOrder
<1> DEFINE new == [b EXCEPT !.docs = effects, !.at = time]
<1>5. /\ new \in Backup /\ new.complete = b.complete /\ new.life = b.life
      /\ new.at = time /\ new.docs = effects /\ new.rows = b.rows
  BY <1>1 DEF Backup
<1>6. copying' = [step |-> "rows", backup |-> new]
  BY <1>2, <1>3, <1>4 DEF Copying
<1> HIDE DEF new
<1>7. copying' \in Copying /\ copying'.step = "rows" /\ copying'.backup = new
  BY <1>5, <1>6 DEF Copying
<1>8. copying' # Idle
  BY <1>7, IdleIs
<1> QED
  BY <1>2, <1>3, <1>5, <1>7, <1>8 DEF BackupGoes

(* then the manifest.                                                      *)
LEMMA CopyRowsGoes ==
  ASSUME BackupInv, CopyRows
  PROVE  /\ BackupGoes("finish", time, copying.backup.docs, row, FALSE, life)
         /\ copying' # Idle /\ copying # Idle
<1>1. time \in 0..MaxTime /\ row \in [Requests -> RowStates \cup {"none"}]
  BY DEF BackupInv, BackupTypeOK
<1>2. copying \in Copying /\ copying.step = "rows" /\ copying # Idle
  BY IdleIs DEF CopyRows, BackupInv, BackupTypeOK
<1>3. PICK b \in Backup : b = copying.backup /\ b.complete = FALSE /\ b.life = life
  BY <1>2 DEF BackupInv, CopyInv, Copying, Backup
<1>4. copying' = [copying EXCEPT !.step = "finish", !.backup.rows = row, !.backup.at = time]
  BY DEF CopyRows, CopyOrder
<1> DEFINE new == [b EXCEPT !.rows = row, !.at = time]
<1>5. /\ new \in Backup /\ new.complete = b.complete /\ new.life = b.life
      /\ new.at = time /\ new.docs = b.docs /\ new.rows = row
  BY <1>1 DEF Backup
<1>6. copying' = [step |-> "finish", backup |-> new]
  BY <1>2, <1>3, <1>4 DEF Copying
<1> HIDE DEF new
<1>7. copying' \in Copying /\ copying'.step = "finish" /\ copying'.backup = new
  BY <1>5, <1>6 DEF Copying
<1>8. copying' # Idle
  BY <1>7, IdleIs
<1> QED
  BY <1>2, <1>3, <1>5, <1>7, <1>8 DEF BackupGoes

(* At first there is no backup.                                            *)
LEMMA BackupInvInit == BackupInit => BackupInv
<1> SUFFICES ASSUME BackupInit PROVE BackupInv
  OBVIOUS
<1>1. BackupTypeOK
  BY IdleIs, BackupAssumption DEF BackupInit, BackupTypeOK, RowStates
<1> QED
  BY <1>1, IdleIs DEF BackupInit, BackupInv, CopyInv, EffectsWereApproved

(* Every step keeps the invariant.                                         *)
LEMMA BackupInvStep == BackupInv /\ [BackupNext]_backupVars => BackupInv'
<1> SUFFICES ASSUME BackupInv, [BackupNext]_backupVars PROVE BackupInv'
  OBVIOUS
<1>0. /\ BackupTypeOK /\ time \in Nat /\ gate \in Nat /\ Interval \in Nat \ {0} /\ MaxTime \in Nat
      /\ life \in Nat /\ row \in [Requests -> RowStates] /\ copying \in Copying
      /\ MaxCrashed \in Nat /\ copying.backup \in Backup
      /\ \A b \in backups : b \in Backup /\ b.at \in Nat /\ b.at <= time
  BY BackupAssumption DEF BackupInv, BackupTypeOK, Backup, Copying
<1>1. ASSUME NEW q \in Requests, WorkOn(q) PROVE BackupInv'
  <2>1. UNCHANGED <<backups, copying, service, time, crashed, life, gate>>
    BY <1>1 DEF WorkOn
  <2>2. row' \in [Requests -> RowStates] /\ effects' \subseteq Requests /\ effects \subseteq effects'
    BY <1>0, <1>1 DEF WorkOn, RowStates, BackupTypeOK
  <2>3. \A k \in effects' : row'[k] # Undecided
    BY <1>0, <1>1 DEF WorkOn, BackupInv, BackupTypeOK, Undecided
  <2>4. BackupTypeOK'
    BY <1>0, <2>1, <2>2 DEF BackupTypeOK
  <2> QED
    BY <2>1, <2>2, <2>3, <2>4 DEF BackupInv, CopyInv, EffectsWereApproved, Covers
<1>2. ASSUME CopyDocs PROVE BackupInv'
  <2>1. /\ BackupGoes("rows", time, effects, copying.backup.rows, FALSE, life)
        /\ copying' # Idle /\ copying # Idle
    BY <1>2, CopyDocsGoes
  <2>2. UNCHANGED <<row, effects, backups, service, time, crashed, life, gate>>
    BY <1>2 DEF CopyDocs
  <2>3. BackupTypeOK' /\ CopyInv'
    BY <1>0, <2>1, <2>2 DEF BackupTypeOK, BackupGoes, CopyInv
  <2> QED
    BY <2>1, <2>2, <2>3 DEF BackupInv, EffectsWereApproved, Covers
<1>3. ASSUME CopyRows PROVE BackupInv'
  <2>1. /\ BackupGoes("finish", time, copying.backup.docs, row, FALSE, life)
        /\ copying' # Idle /\ copying # Idle
    BY <1>3, CopyRowsGoes
  <2>2. UNCHANGED <<row, effects, backups, service, time, crashed, life, gate>>
    BY <1>3 DEF CopyRows
  <2>3. \A q \in copying.backup.docs : row[q] # Undecided
    BY <1>3 DEF CopyRows, BackupInv, CopyInv
  <2>4. BackupTypeOK' /\ CopyInv'
    BY <1>0, <2>1, <2>2, <2>3 DEF BackupTypeOK, BackupGoes, CopyInv
  <2> QED
    BY <2>1, <2>2, <2>4 DEF BackupInv, EffectsWereApproved, Covers
<1>4. ASSUME FinishBackup PROVE BackupInv'
  <2>1. /\ copying' = Idle /\ copying.step = "finish"
        /\ service' = IF service = "starting" THEN "open" ELSE service
        /\ UNCHANGED <<row, effects, time, crashed, life, gate>>
    BY <1>4 DEF FinishBackup
  <2>2. copying # Idle
    BY <2>1, IdleIs
  <2>3. PICK old \in Backup : /\ old = copying.backup /\ old.rows \in [Requests -> RowStates]
                              /\ \A q \in old.docs : old.rows[q] # Undecided
                              /\ old.life = life
    BY <1>0, <2>1, <2>2 DEF BackupInv, CopyInv
  <2>4. PICK b : b = [old EXCEPT !.at = time, !.complete = TRUE]
    OBVIOUS
  <2>14. /\ b \in Backup /\ b.at = time /\ b.complete /\ b.docs = old.docs
        /\ b.rows = old.rows /\ b.life = life
    BY <1>0, <2>3, <2>4 DEF Backup, BackupTypeOK
  <2>5. backups' = backups \cup {b}
    BY <1>4, <2>3, <2>4 DEF FinishBackup
  <2>6. b.rows # NoRows
    <3>1. PICK q \in Requests : TRUE
      BY BackupAssumption
    <3>2. b.rows[q] \in RowStates /\ NoRows[q] \notin RowStates
      BY <2>3, <2>14 DEF NoRows, RowStates, Undecided
    <3> QED
      BY <3>2
  <2>7. BackupTypeOK'
    <3>1. backups' \subseteq Backup /\ \A c \in backups' : c.complete => c.rows # NoRows
      BY <1>0, <2>14, <2>5, <2>6 DEF BackupTypeOK
    <3>2. copying' \in Copying /\ service' \in {"starting", "open", "passing"}
      BY <1>0, <2>1, IdleIs DEF BackupTypeOK
    <3> QED
      BY <1>0, <2>1, <3>1, <3>2 DEF BackupTypeOK
  <2>8. EffectsWereApproved'
    BY <2>3, <2>14, <2>5 DEF BackupInv, EffectsWereApproved
  <2>9. CopyInv'
    <3>1. copying' = Idle
      BY <2>1
    <3> QED
      BY <3>1, IdleIs DEF CopyInv
  <2>10. \A c \in backups' : c.at \in Nat /\ c.at <= time
    BY <1>0, <2>14, <2>5
  <2>11. Covers(b)' /\ b.life = life
    BY <2>14, <2>5, <2>10 DEF Covers
  <2>12. gate < b.at + Interval
    BY <1>0, <2>14 DEF BackupInv
  <2> QED
    BY <2>1, <2>14, <2>5, <2>7, <2>8, <2>9, <2>10, <2>11, <2>12 DEF BackupInv
<1>5. ASSUME Startup PROVE BackupInv'
  <2>1. BackupGoes("docs", time, {}, NoRows, FALSE, life) /\ copying' # Idle
    BY <1>5, BeginBackupGoes DEF Startup
  <2>2. service = "starting" /\ UNCHANGED <<row, effects, backups, service, time, crashed, life, gate>>
    BY <1>5 DEF Startup
  <2>3. BackupTypeOK' /\ CopyInv'
    BY <1>0, <2>1, <2>2 DEF BackupTypeOK, BackupGoes, CopyInv
  <2> QED
    BY <2>1, <2>2, <2>3 DEF BackupInv, EffectsWereApproved
<1>6. ASSUME OnRequest PROVE BackupInv'
  <2>1. /\ service = "open" /\ copying = Idle /\ service' = "passing" /\ gate' = time
        /\ UNCHANGED <<row, effects, backups, time, crashed, life>>
    BY <1>6 DEF OnRequest
  <2>2. gate' \in 0..MaxTime /\ service' \in {"starting", "open", "passing"}
    BY <1>0, <2>1 DEF BackupTypeOK
  <2>3. PICK b \in backups : Covers(b) /\ b.life = life
    BY <2>1 DEF BackupInv
  <2>4. Covers(b)' /\ b \in backups'
    BY <2>1, <2>3 DEF Covers
  <2>5. CASE Due
    <3>1. BackupGoes("docs", time, {}, NoRows, FALSE, life) /\ copying' # Idle
      BY <1>6, <2>5, BeginBackupGoes DEF OnRequest
    <3>2. BackupTypeOK' /\ CopyInv'
      BY <1>0, <2>1, <2>2, <3>1 DEF BackupTypeOK, BackupGoes, CopyInv
    <3> QED
      BY <1>0, <2>1, <2>3, <2>4, <3>1, <3>2 DEF BackupInv, EffectsWereApproved
  <2>6. CASE ~Due
    <3>1. UNCHANGED copying
      BY <1>6, <2>6 DEF OnRequest
    <3>2. Latest \in backups /\ time < Latest.at + Interval
      <4>1. backups # {} /\ ~(time >= Latest.at + Interval)
        BY <2>6 DEF Due
      <4>2. Latest \in backups
        BY <1>0, <4>1, LatestIsThere
      <4>3. Latest.at \in Nat
        BY <1>0, <4>2
      <4> QED
        BY <1>0, <4>1, <4>2, <4>3
    <3>3. \E c \in backups : c.complete /\ time < c.at + Interval
      <4>1. CASE Latest.complete
        BY <3>2, <4>1
      <4>2. CASE ~Latest.complete
        <5>1. Latest.at <= b.at /\ b.complete /\ Latest.at \in Nat /\ b.at \in Nat
          BY <1>0, <2>3, <3>2, <4>2 DEF Covers
        <5>2. time < b.at + Interval
          BY <1>0, <3>2, <5>1
        <5> QED
          BY <5>1, <5>2
      <4> QED
        BY <4>1, <4>2
    <3>4. BackupTypeOK' /\ CopyInv'
      BY <1>0, <2>1, <2>2, <3>1 DEF BackupInv, BackupTypeOK, CopyInv
    <3> QED
      BY <1>0, <2>1, <2>3, <2>4, <3>3, <3>4 DEF BackupInv, EffectsWereApproved
  <2> QED
    BY <2>5, <2>6
<1>7. ASSUME PassRequest PROVE BackupInv'
  <2>1. /\ service = "passing" /\ service' = "open"
        /\ UNCHANGED <<row, effects, backups, copying, time, crashed, life, gate>>
    BY <1>7 DEF PassRequest
  <2> QED
    BY <2>1 DEF BackupInv, BackupTypeOK, CopyInv, EffectsWereApproved, Covers
<1>8. ASSUME Tick PROVE BackupInv'
  <2>1. /\ time' = time + 1 /\ time < MaxTime
        /\ UNCHANGED <<row, effects, backups, copying, service, crashed, life, gate>>
    BY <1>8 DEF Tick
  <2>2. BackupTypeOK' /\ time' \in Nat
    BY <1>0, <2>1 DEF BackupTypeOK
  <2>3. gate' <= time' /\ \A b \in backups' : b.at <= time'
    BY <1>0, <2>1 DEF BackupInv
  <2>4. copying.backup.at \in Nat
    BY <1>0 DEF Backup
  <2>5. CopyInv'
    BY <1>0, <2>1, <2>4 DEF BackupInv, CopyInv
  <2> QED
    BY <2>1, <2>2, <2>3, <2>5 DEF BackupInv, EffectsWereApproved, Covers
<1>9. ASSUME Crash PROVE BackupInv'
  <2>1. /\ crashed < MaxCrashed /\ crashed' = crashed + 1 /\ life' = life + 1
        /\ backups' = IF copying = Idle THEN backups ELSE backups \cup {copying.backup}
        /\ copying' = Idle /\ service' = "starting"
        /\ UNCHANGED <<row, effects, time, gate>>
    BY <1>9 DEF Crash
  <2>2. \A b \in backups' :
          b \in backups \/ (b = copying.backup /\ ~b.complete /\ b.at <= time /\ b \in Backup)
    BY <1>0, <2>1 DEF BackupInv, CopyInv
  <2>3. BackupTypeOK'
    <3>1. backups' \subseteq Backup /\ \A b \in backups' : b.complete => b.rows # NoRows
      BY <1>0, <2>2 DEF BackupTypeOK
    <3>2. crashed' \in 0..MaxCrashed
      <4>1. crashed \in Nat /\ crashed < MaxCrashed /\ crashed' = crashed + 1
        BY <1>0, <2>1 DEF BackupTypeOK
      <4> QED
        BY <1>0, <4>1
    <3>3. life' \in 1..MaxCrashed + 1
      BY <1>0, <2>1, <3>2 DEF BackupInv
    <3> QED
      BY <1>0, <2>1, <3>1, <3>2, <3>3, IdleIs DEF BackupTypeOK
  <2>4. CopyInv'
    BY <2>1, IdleIs DEF CopyInv
  <2>5. EffectsWereApproved'
    BY <2>2 DEF BackupInv, EffectsWereApproved
  <2>6. \A b \in backups' : b.at <= time
    BY <1>0, <2>2
  <2>7. life' = crashed' + 1
    BY <2>1 DEF BackupInv
  <2> QED
    BY <2>1, <2>3, <2>4, <2>5, <2>6, <2>7 DEF BackupInv
<1>10. CASE UNCHANGED backupVars
  BY <1>10 DEF backupVars, BackupInv, BackupTypeOK, CopyInv, EffectsWereApproved, Covers
<1> QED
  BY <1>1, <1>2, <1>3, <1>4, <1>5, <1>6, <1>7, <1>8, <1>9, <1>10 DEF BackupNext

(* A backup never holds an effect that it shows as undecided, nothing is   *)
(* served before there is a complete backup of this life, and a request    *)
(* passes only behind one that was younger than the interval: for any      *)
(* number of requests and crashes, and any interval.                       *)
THEOREM RequestsAreServedSafely == BackupSpec => ServedSafely
<1>1. BackupInv => BackupTypeOK /\ EffectsWereApproved /\ ServedWithBackup
  BY DEF BackupInv, ServedWithBackup, Covers
<1>2. BackupInv /\ [BackupNext]_backupVars =>
        [service = "passing" /\ service' = "open" =>
           \E b \in backups : b.complete /\ gate < b.at + Interval]_backupVars
  <2> SUFFICES ASSUME BackupInv, BackupNext, service = "passing", service' = "open"
               PROVE  \E b \in backups : b.complete /\ gate < b.at + Interval
    BY DEF backupVars
  <2>1. PassRequest
    BY DEF BackupNext, WorkOn, CopyDocs, CopyRows, FinishBackup, Startup, OnRequest, Tick, Crash
  <2> QED
    BY <2>1 DEF PassRequest, BackupInv
<1> QED
  BY <1>1, <1>2, BackupInvInit, BackupInvStep, PTL
     DEF BackupSpec, ServedSafely, PassedWithFreshBackup

-----------------------------------------------------------------------------
(* Memory.  As long as requests follow each other, at most one is under    *)
(* way, so that the number it read is above those of the document it       *)
(* appends to; snapshots hold documents that were in order themselves.     *)

Ascends(doc) ==
  \A i, j \in DOMAIN doc : i < j /\ doc[j].what = "decision" => doc[i].number < doc[j].number
Decided(doc, n, t) ==
  \E i \in DOMAIN doc : doc[i] = [what |-> "decision", number |-> n, title |-> t]

OneAtWork ==
  /\ \A w, v \in Busy : w = v
  /\ \A doc \in captures \cup {document} : Ascends(doc)
  /\ \A w \in Writers :
       /\ WriterAt(w, "header") => document = None
       /\ WriterAt(w, "append") /\ writer[w].decides =>
            /\ writer[w].number > 0
            /\ \A i \in DOMAIN document : document[i].number < writer[w].number
       /\ undone = 0 /\ WriterAt(w, "index") =>
            Decided(document, writer[w].number, writer[w].title)
  /\ undone = 0 => \A r \in index : Decided(document, r.number, r.title)

MemoryInv ==
  /\ MemoryTypeOK
  /\ \A w \in Writers : ~WriterAt(w, "free") => writer[w].title \in 1..MaxEntries
  /\ ~crowded => OneAtWork

(* Finitely many numbers have a bound.                                     *)
LEMMA NumbersBounded ==
  ASSUME NEW len \in Nat, NEW f \in [1..len -> Nat]
  PROVE  \E m \in Nat : \A i \in 1..len : f[i] <= m
<1> DEFINE odd == {n \in 0..len : \A m \in Nat : \E i \in 1..n : ~(f[i] <= m)}
<1>1. ASSUME odd # {} PROVE FALSE
  <2>1. PICK n \in odd : \A k \in odd : n <= k
    <3>1. odd \in SUBSET Nat
      OBVIOUS
    <3> HIDE DEF odd
    <3> QED
      BY <1>1, <3>1, SmallestExists
  <2>2. n \in 0..len /\ n # 0
    OBVIOUS
  <2>3. n - 1 \in 0..len /\ n - 1 \notin odd
    <3>1. n - 1 \in 0..len /\ ~(n <= n - 1)
      BY <2>2
    <3> HIDE DEF odd
    <3> QED
      BY <2>1, <3>1
  <2>4. PICK m \in Nat : \A i \in 1..(n - 1) : f[i] <= m
    BY <2>3
  <2>5. PICK x \in Nat : x = f[n]
    BY <2>2
  <2>6. PICK top \in Nat : m <= top /\ x <= top
    <3>1. m + x \in Nat /\ m <= m + x /\ x <= m + x
      OBVIOUS
    <3> QED
      BY <3>1
  <2>7. ASSUME NEW i \in 1..n PROVE f[i] <= top
    <3>1. CASE i = n
      BY <2>5, <2>6, <3>1
    <3>2. CASE i # n
      <4>1. i \in 1..(n - 1) /\ f[i] \in Nat
        BY <2>2, <3>2
      <4> QED
        BY <2>4, <2>6, <4>1
    <3> QED
      BY <3>1, <3>2
  <2> QED
    BY <2>7
<1>2. len \notin odd
  BY <1>1
<1> QED
  BY <1>2

(* The next number is above all there are.                                 *)
LEMMA NextAdrIsAbove ==
  ASSUME NEW doc \in Seq(Entry)
  PROVE  NextAdr(doc) \in Nat \ {0} /\ \A i \in DOMAIN doc : doc[i].number < NextAdr(doc)
<1>1. Len(doc) \in Nat /\ DOMAIN doc = 1..Len(doc)
  OBVIOUS
<1>2. \A i \in DOMAIN doc : doc[i] \in Entry
  OBVIOUS
<1>3. \A i \in DOMAIN doc : doc[i].number \in Nat
  BY <1>2 DEF Entry
<1>4. PICK m \in Nat : \A i \in DOMAIN doc : doc[i].number <= m
  <2> DEFINE f == [i \in 1..Len(doc) |-> doc[i].number]
  <2>1. f \in [1..Len(doc) -> Nat]
    BY <1>1, <1>3
  <2>2. \A i \in DOMAIN doc : f[i] = doc[i].number
    BY <1>1
  <2> HIDE DEF f
  <2>3. \E m \in Nat : \A i \in 1..Len(doc) : f[i] <= m
    BY <1>1, <2>1, NumbersBounded
  <2> QED
    BY <1>1, <2>2, <2>3
<1> DEFINE numbers == {0} \cup {doc[i].number : i \in DOMAIN doc}
<1>5. /\ numbers \in SUBSET Nat /\ numbers # {} /\ \A n \in numbers : n <= m
      /\ \A i \in DOMAIN doc : doc[i].number \in numbers
  BY <1>3, <1>4
<1>6. NextAdr(doc) = 1 + Max(numbers)
  BY DEF NextAdr
<1> HIDE DEF numbers
<1>7. PICK top \in numbers : \A k \in numbers : k <= top
  BY <1>5, LargestExists
<1>8. \E n \in numbers : \A k \in numbers : n >= k
  BY <1>5, <1>7
<1>9. Max(numbers) \in numbers /\ \A k \in numbers : Max(numbers) >= k
  BY <1>8 DEF Max
<1>10. PICK most \in Nat : most = Max(numbers) /\ \A k \in numbers : k \in Nat /\ k <= most
  BY <1>5, <1>9
<1>11. \A i \in DOMAIN doc : doc[i].number <= most
  BY <1>5, <1>10
<1> QED
  BY <1>3, <1>6, <1>10, <1>11

(* An entry takes the last place of a document that stays as it was, but   *)
(* for the header of one that is begun anew.                               *)
LEMMA AppendedGoes ==
  ASSUME MemoryTypeOK, NEW entry \in Entry, NEW new, new = Appended(entry)
  PROVE  /\ new \in Seq(Entry) /\ Len(new) > 0 /\ new[Len(new)] = entry
         /\ Len(document) < Len(new)
         /\ \A i \in DOMAIN document : i \in DOMAIN new /\ i < Len(new) /\ new[i] = document[i]
         /\ \A i \in DOMAIN new : i = Len(new) \/ i \in DOMAIN document \/ new[i] = Header
<1>1. document \in Seq(Entry) /\ Header \in Entry
  BY MemoryAssumption DEF MemoryTypeOK, Header, Entry
<1>2. CASE document = None
  <2>1. new = Append(<<Header>>, entry)
    BY <1>2 DEF Appended
  <2>2. <<Header>> \in Seq(Entry) /\ Len(<<Header>>) = 1 /\ <<Header>>[1] = Header
    BY <1>1
  <2>3. new \in Seq(Entry) /\ Len(new) = 2 /\ new[2] = entry /\ new[1] = Header
    BY <2>1, <2>2
  <2>4. Len(document) = 0 /\ DOMAIN document = {}
    BY <1>2 DEF None
  <2> QED
    BY <2>3, <2>4
<1>3. CASE document # None
  <2>1. new = Append(document, entry)
    BY <1>3 DEF Appended
  <2> QED
    BY <1>1, <2>1
<1> QED
  BY <1>2, <1>3

(* What one thread goes on to.                                             *)
WriterGoes(w, at, decides, n, t) ==
  /\ writer' \in [Writers -> WriterState]
  /\ \A v \in Writers : v # w => writer'[v] = writer[v]
  /\ writer'[w].at = at /\ writer'[w].decides = decides
  /\ writer'[w].number = n /\ writer'[w].title = t

(* Where a thread goes on with its entry, the others are at what they were,*)
(* and none of them at anything if requests follow each other.             *)
LEMMA WriterAlone ==
  ASSUME MemoryInv, NEW w \in Writers, ~WriterAt(w, "free"), ~crowded
  PROVE  \A v \in Writers : v # w => WriterAt(v, "free")
BY DEF MemoryInv, OneAtWork, Busy

(* At first the memory is empty and nobody writes.                         *)
LEMMA MemoryInvInit == MemoryInit => MemoryInv
<1> SUFFICES ASSUME MemoryInit PROVE MemoryInv
  OBVIOUS
<1>1. MemoryTypeOK
  <2>1. Free \in WriterState /\ None \in Seq(Entry)
    BY MemoryAssumption DEF Free, WriterState, None
  <2>2. 0 \in 0..MaxEntries /\ 0 \in 0..MaxUndone /\ 0 \in 0..MaxKills
    BY MemoryAssumption
  <2> QED
    BY <2>1, <2>2 DEF MemoryInit, MemoryTypeOK
<1>2. /\ \A w \in Writers : WriterAt(w, "free")
      /\ Busy = {} /\ document = None /\ index = {} /\ captures = {}
  BY DEF MemoryInit, WriterAt, Free, Busy
<1>3. Ascends(None)
  BY DEF Ascends, None
<1> QED
  BY <1>1, <1>2, <1>3 DEF MemoryInv, OneAtWork, WriterAt

(* A writer begins an entry,                                               *)
LEMMA BeginEntryKeeps ==
  ASSUME MemoryInv, NEW w \in Writers, BeginEntry(w)
  PROVE  MemoryInv'
<1>1. /\ WriterAt(w, "free") /\ begun < MaxEntries /\ begun' = begun + 1
      /\ captures' = captures \cup {document}
      /\ UNCHANGED <<document, index, undone, kills>>
      /\ crowded' = (crowded \/ Busy # {})
  BY DEF BeginEntry
<1>2. /\ document \in Seq(Entry) /\ writer \in [Writers -> WriterState] /\ begun \in 0..MaxEntries
      /\ MaxEntries \in Nat
  BY MemoryAssumption DEF MemoryInv, MemoryTypeOK
<1>3. /\ begun + 1 \in 0..MaxEntries /\ begun + 1 \in 1..MaxEntries
  BY <1>1, <1>2
<1>4. /\ writer' \in [Writers -> WriterState]
      /\ \A v \in Writers : v # w => writer'[v] = writer[v]
      /\ writer'[w].title = begun + 1
      /\ WriterAt(w, "header")' => document = None
      /\ WriterAt(w, "append")' => ~writer'[w].decides
      /\ ~WriterAt(w, "index")'
  <2>1. PICK decides \in BOOLEAN :
          writer' = [writer EXCEPT ![w] =
            [at |-> IF document = None THEN "header" ELSE IF decides THEN "number" ELSE "append",
             decides |-> decides, number |-> 0, title |-> begun + 1]]
    BY DEF BeginEntry
  <2> QED
    BY <1>2, <1>3, <2>1 DEF WriterState, WriterAt
<1>5. crowded \in BOOLEAN /\ crowded' \in BOOLEAN
  BY <1>1 DEF MemoryInv, MemoryTypeOK
<1>6. MemoryTypeOK'
  BY <1>1, <1>2, <1>3, <1>4, <1>5 DEF MemoryInv, MemoryTypeOK
<1>7. \A v \in Writers : ~WriterAt(v, "free")' => writer'[v].title \in 1..MaxEntries
  BY <1>3, <1>4 DEF MemoryInv, WriterAt
<1>8. ASSUME ~crowded' PROVE OneAtWork'
  <2>1. ~crowded /\ Busy = {} /\ OneAtWork
    BY <1>1, <1>5, <1>8 DEF MemoryInv
  <2>2. \A v \in Writers : v # w => WriterAt(v, "free")'
    BY <1>4, <2>1 DEF Busy, WriterAt
  <2>3. \A u, v \in Busy' : u = v
    BY <2>2 DEF Busy
  <2>4. \A v \in Writers : v # w =>
          ~WriterAt(v, "header")' /\ ~WriterAt(v, "append")' /\ ~WriterAt(v, "index")'
    BY <2>2 DEF WriterAt
  <2> QED
    BY <1>1, <1>4, <2>1, <2>3, <2>4 DEF OneAtWork
<1> QED
  BY <1>6, <1>7, <1>8 DEF MemoryInv

(* A thread that goes on with its entry disturbs no other one's, and what  *)
(* it has to show for itself depends on where it is.                       *)
LEMMA GoingOnKeeps ==
  ASSUME MemoryInv, NEW w \in Writers, ~WriterAt(w, "free"),
         NEW at, NEW n \in Nat,
         WriterGoes(w, at, writer[w].decides, n, writer[w].title) \/ writer' = [writer EXCEPT ![w] = Free],
         MemoryTypeOK', UNCHANGED <<captures, undone, crowded>>,
         ~crowded =>
           /\ Ascends(document')
           /\ WriterAt(w, "header")' => document' = None
           /\ WriterAt(w, "append")' /\ writer'[w].decides =>
                /\ writer'[w].number > 0
                /\ \A i \in DOMAIN document' : document'[i].number < writer'[w].number
           /\ undone = 0 /\ WriterAt(w, "index")' =>
                Decided(document', writer'[w].number, writer'[w].title)
           /\ undone = 0 => \A r \in index' : Decided(document', r.number, r.title)
  PROVE  MemoryInv'
<1>1. writer \in [Writers -> WriterState] /\ writer' \in [Writers -> WriterState]
  BY DEF MemoryInv, MemoryTypeOK
<1>2. /\ \A v \in Writers : v # w => writer'[v] = writer[v]
      /\ WriterAt(w, "free")' \/ writer'[w].title = writer[w].title
  BY <1>1 DEF WriterGoes, WriterAt, Free
<1>3. \A v \in Writers : ~WriterAt(v, "free")' => writer'[v].title \in 1..MaxEntries
  BY <1>2 DEF MemoryInv, WriterAt
<1>4. ASSUME ~crowded' PROVE OneAtWork'
  <2>1. ~crowded /\ OneAtWork
    BY <1>4 DEF MemoryInv
  <2>2. \A v \in Writers : v # w => WriterAt(v, "free")'
    BY <1>2, <2>1, WriterAlone DEF WriterAt
  <2>3. \A u, v \in Busy' : u = v
    BY <2>2 DEF Busy
  <2>4. \A v \in Writers : v # w =>
          ~WriterAt(v, "header")' /\ ~WriterAt(v, "append")' /\ ~WriterAt(v, "index")'
    BY <2>2 DEF WriterAt
  <2>5. \A doc \in captures' \cup {document'} : Ascends(doc)
    BY <2>1 DEF OneAtWork
  <2> QED
    BY <2>1, <2>3, <2>4, <2>5 DEF OneAtWork
<1> QED
  BY <1>3, <1>4 DEF MemoryInv

(* An entry that is appended keeps the order of the document if it is no   *)
(* decision, or has a number above all there are.                          *)
LEMMA AppendedAscends ==
  ASSUME MemoryTypeOK, Ascends(document), NEW entry \in Entry, NEW new, new = Appended(entry),
         entry.what = "decision" =>
           entry.number > 0 /\ \A i \in DOMAIN document : document[i].number < entry.number
  PROVE  Ascends(new)
<1>1. /\ new \in Seq(Entry) /\ Len(new) > 0 /\ new[Len(new)] = entry
      /\ \A i \in DOMAIN document : i \in DOMAIN new /\ i < Len(new) /\ new[i] = document[i]
      /\ \A i \in DOMAIN new : i = Len(new) \/ i \in DOMAIN document \/ new[i] = Header
  BY AppendedGoes
<1>2. /\ document \in Seq(Entry) /\ DOMAIN document = 1..Len(document) /\ Len(document) \in Nat
      /\ DOMAIN new = 1..Len(new) /\ Len(new) \in Nat
  BY <1>1 DEF MemoryTypeOK
<1>3. Header.number = 0 /\ Header.what # "decision"
  BY DEF Header
<1>4. ASSUME NEW i \in DOMAIN new, NEW j \in DOMAIN new, i < j, new[j].what = "decision"
      PROVE  new[i].number < new[j].number
  <2>1. i # Len(new) /\ i \in Nat /\ j \in Nat
    BY <1>2, <1>4
  <2>2. CASE j = Len(new)
    BY <1>1, <1>3, <1>4, <2>1, <2>2
  <2>3. CASE j # Len(new)
    <3>1. j \in DOMAIN document
      BY <1>1, <1>3, <1>4, <2>3
    <3>2. i \in DOMAIN document
      BY <1>2, <1>4, <2>1, <3>1
    <3> QED
      BY <1>1, <1>4, <3>1, <3>2 DEF Ascends
  <2> QED
    BY <2>2, <2>3
<1> QED
  BY <1>4 DEF Ascends

(* What was decided stays so behind an entry more.                         *)
LEMMA AppendedDecided ==
  ASSUME MemoryTypeOK, NEW entry \in Entry, NEW n, NEW t, NEW new, new = Appended(entry),
         Decided(document, n, t)
  PROVE  Decided(new, n, t)
BY AppendedGoes DEF Decided

(* writes the header of a file that is not there,                          *)
LEMMA WriteHeaderKeeps ==
  ASSUME MemoryInv, NEW w \in Writers, WriteHeader(w)
  PROVE  MemoryInv'
<1> DEFINE at == IF writer[w].decides THEN "number" ELSE "append"
<1>1. /\ WriterAt(w, "header") /\ ~WriterAt(w, "free")
      /\ document' = <<Header>> /\ UNCHANGED <<index, begun, captures, undone, kills, crowded>>
  BY DEF WriteHeader, WriterAt
<1>2. /\ writer \in [Writers -> WriterState] /\ writer[w] \in WriterState /\ writer[w].number \in Nat
      /\ at \in {"number", "append"}
  BY DEF MemoryInv, MemoryTypeOK, WriterState
<1>3. /\ WriterGoes(w, at, writer[w].decides, writer[w].number, writer[w].title)
      /\ WriterAt(w, "append")' => ~writer'[w].decides
  BY <1>2 DEF WriteHeader, GoesOn, WriterGoes, WriterState, WriterAt
<1>4. document' \in Seq(Entry)
  <2>1. Header \in Entry
    BY MemoryAssumption DEF Header, Entry
  <2> QED
    BY <1>1, <2>1
<1>5. MemoryTypeOK'
  BY <1>1, <1>3, <1>4 DEF MemoryInv, MemoryTypeOK, WriterGoes
<1>6. Ascends(document')
  <2>1. Len(<<Header>>) = 1 /\ <<Header>>[1] = Header /\ Header.what # "decision"
    BY DEF Header
  <2>2. \A j \in DOMAIN document' : document'[j].what # "decision"
    BY <1>1, <2>1
  <2> QED
    BY <2>2 DEF Ascends
<1>7. ASSUME ~crowded, undone = 0
      PROVE  \A r \in index' : Decided(document', r.number, r.title)
  <2>1. document = None
    BY <1>1, <1>7 DEF MemoryInv, OneAtWork
  <2>2. \A r \in index : FALSE
    BY <1>7, <2>1 DEF MemoryInv, OneAtWork, Decided, None
  <2> QED
    BY <1>1, <2>2
<1>8. ~WriterAt(w, "header")' /\ ~WriterAt(w, "index")'
  BY <1>2, <1>3 DEF WriterGoes, WriterAt
<1> HIDE DEF at
<1> QED
  BY <1>1, <1>2, <1>3, <1>5, <1>6, <1>7, <1>8, GoingOnKeeps

(* numbers a decision,                                                     *)
LEMMA NumberDecisionKeeps ==
  ASSUME MemoryInv, NEW w \in Writers, NumberDecision(w)
  PROVE  MemoryInv'
<1>1. /\ WriterAt(w, "number") /\ ~WriterAt(w, "free")
      /\ UNCHANGED <<document, index, begun, captures, undone, kills, crowded>>
  BY DEF NumberDecision, WriterAt
<1>2. PICK n \in Nat : /\ n = IF document = None THEN 1 ELSE NextAdr(document)
                       /\ n > 0 /\ \A i \in DOMAIN document : document[i].number < n
  <2>1. document \in Seq(Entry)
    BY DEF MemoryInv, MemoryTypeOK
  <2>2. CASE document = None
    <3>1. DOMAIN document = {}
      BY <2>2 DEF None
    <3> QED
      BY <2>2, <3>1
  <2>3. CASE document # None
    BY <2>1, <2>3, NextAdrIsAbove
  <2> QED
    BY <2>2, <2>3
<1>3. writer' = [writer EXCEPT ![w].at = "append", ![w].number = n]
  BY <1>2 DEF NumberDecision
<1>4. WriterGoes(w, "append", writer[w].decides, n, writer[w].title)
  BY <1>2, <1>3 DEF MemoryInv, MemoryTypeOK, WriterGoes, WriterState
<1>5. MemoryTypeOK'
  BY <1>1, <1>4 DEF MemoryInv, MemoryTypeOK, WriterGoes
<1>6. ~WriterAt(w, "header")' /\ ~WriterAt(w, "index")' /\ writer'[w].number = n
  BY <1>4 DEF WriterGoes, WriterAt
<1>7. ~crowded => Ascends(document') /\ (undone = 0 => \A r \in index' : Decided(document', r.number, r.title))
  BY <1>1 DEF MemoryInv, OneAtWork
<1> QED
  BY <1>1, <1>2, <1>4, <1>5, <1>6, <1>7, GoingOnKeeps

(* appends the entry                                                       *)
LEMMA AppendEntryKeeps ==
  ASSUME MemoryInv, NEW w \in Writers, AppendEntry(w)
  PROVE  MemoryInv'
<1>1. /\ WriterAt(w, "append") /\ ~WriterAt(w, "free")
      /\ UNCHANGED <<index, begun, captures, undone, kills, crowded>>
  BY DEF AppendEntry, WriterAt
<1>2. PICK c \in WriterState : c = writer[w]
  BY DEF MemoryInv, MemoryTypeOK
<1>3. MemoryTypeOK /\ c.title \in 0..MaxEntries /\ c.number \in Nat
  BY <1>2 DEF MemoryInv, WriterState
<1>4. CASE /\ c.decides
           /\ document' = Appended([what |-> "decision", number |-> c.number, title |-> c.title])
           /\ GoesOn(w, "index")
  <2>1. PICK entry \in Entry : /\ entry = [what |-> "decision", number |-> c.number, title |-> c.title]
                               /\ entry.what = "decision" /\ entry.number = c.number
    <3> DEFINE entry == [what |-> "decision", number |-> c.number, title |-> c.title]
    <3>1. entry \in Entry /\ entry.what = "decision" /\ entry.number = c.number
      BY <1>3 DEF Entry
    <3> QED
      BY <3>1
  <2>2. PICK new : new = document' /\ new = Appended(entry)
    BY <1>4, <2>1
  <2>3. new \in Seq(Entry) /\ Len(new) > 0 /\ new[Len(new)] = entry
    BY <1>3, <2>2, AppendedGoes
  <2>4. WriterGoes(w, "index", writer[w].decides, c.number, writer[w].title)
    BY <1>2, <1>4 DEF MemoryInv, MemoryTypeOK, GoesOn, WriterGoes, WriterState
  <2>5. MemoryTypeOK'
    BY <1>1, <2>2, <2>3, <2>4 DEF MemoryInv, MemoryTypeOK, WriterGoes
  <2>6. /\ ~WriterAt(w, "header")' /\ ~WriterAt(w, "append")'
        /\ writer'[w].number = c.number /\ writer'[w].title = c.title
    BY <1>2, <2>4 DEF WriterGoes, WriterAt
  <2>7. Decided(new, c.number, c.title)
    <3>1. Len(new) \in DOMAIN new
      BY <2>3
    <3> QED
      BY <2>1, <2>3, <3>1 DEF Decided
  <2>8. ASSUME ~crowded
        PROVE  /\ Ascends(new)
               /\ undone = 0 => \A r \in index : Decided(new, r.number, r.title)
    <3>1. OneAtWork
      BY <2>8 DEF MemoryInv
    <3>2. c.number > 0 /\ \A i \in DOMAIN document : document[i].number < c.number
      BY <1>1, <1>2, <1>4, <3>1 DEF OneAtWork
    <3>3. Ascends(new)
      BY <1>3, <2>1, <2>2, <3>1, <3>2, AppendedAscends DEF OneAtWork
    <3>4. ASSUME undone = 0, NEW r \in index PROVE Decided(new, r.number, r.title)
      BY <1>3, <2>2, <3>1, <3>4, AppendedDecided DEF OneAtWork
    <3> QED
      BY <3>3, <3>4
  <2>9. ~crowded => /\ Ascends(document')
                    /\ undone = 0 => \A r \in index' : Decided(document', r.number, r.title)
    BY <1>1, <2>2, <2>8
  <2>10. Decided(document', writer'[w].number, writer'[w].title)
    BY <2>2, <2>6, <2>7
  <2> QED
    BY <1>1, <1>3, <2>4, <2>5, <2>6, <2>9, <2>10, GoingOnKeeps
<1>5. CASE /\ ~c.decides
           /\ \E n \in Cited : document' = Appended([what |-> "text", number |-> n, title |-> c.title])
           /\ writer' = [writer EXCEPT ![w] = Free]
  <2>1. PICK n \in Cited : document' = Appended([what |-> "text", number |-> n, title |-> c.title])
    BY <1>5
  <2>2. PICK entry \in Entry : /\ entry = [what |-> "text", number |-> n, title |-> c.title]
                               /\ entry.what = "text"
    <3> DEFINE entry == [what |-> "text", number |-> n, title |-> c.title]
    <3>1. entry \in Entry /\ entry.what = "text"
      BY <1>3, MemoryAssumption DEF Entry
    <3> QED
      BY <3>1
  <2>3. PICK new : new = document' /\ new = Appended(entry)
    BY <2>1, <2>2
  <2>4. new \in Seq(Entry)
    BY <1>3, <2>3, AppendedGoes
  <2>5. writer' \in [Writers -> WriterState] /\ WriterAt(w, "free")'
    BY <1>5, MemoryAssumption DEF MemoryInv, MemoryTypeOK, WriterState, Free, WriterAt
  <2>6. MemoryTypeOK'
    BY <1>1, <2>3, <2>4, <2>5 DEF MemoryInv, MemoryTypeOK
  <2>7. ASSUME ~crowded
        PROVE  /\ Ascends(new)
               /\ undone = 0 => \A r \in index : Decided(new, r.number, r.title)
    <3>1. OneAtWork
      BY <2>7 DEF MemoryInv
    <3>2. Ascends(new)
      BY <1>3, <2>2, <2>3, <3>1, AppendedAscends DEF OneAtWork
    <3>3. ASSUME undone = 0, NEW r \in index PROVE Decided(new, r.number, r.title)
      BY <1>3, <2>3, <3>1, <3>3, AppendedDecided DEF OneAtWork
    <3> QED
      BY <3>2, <3>3
  <2>8. ~crowded => /\ Ascends(document')
                    /\ undone = 0 => \A r \in index' : Decided(document', r.number, r.title)
    BY <1>1, <2>3, <2>7
  <2>9. ~WriterAt(w, "header")' /\ ~WriterAt(w, "append")' /\ ~WriterAt(w, "index")'
    BY <2>5 DEF WriterAt
  <2> QED
    BY <1>1, <1>3, <1>5, <2>6, <2>8, <2>9, GoingOnKeeps
<1> QED
  BY <1>2, <1>4, <1>5 DEF AppendEntry

(* and indexes the decision.                                               *)
LEMMA IndexDecisionKeeps ==
  ASSUME MemoryInv, NEW w \in Writers, IndexDecision(w)
  PROVE  MemoryInv'
<1>1. /\ WriterAt(w, "index") /\ ~WriterAt(w, "free") /\ writer' = [writer EXCEPT ![w] = Free]
      /\ UNCHANGED <<document, begun, captures, undone, kills, crowded>>
  BY DEF IndexDecision, WriterAt
<1>2. writer[w].number \in Nat /\ writer[w].title \in 1..MaxEntries
  BY <1>1 DEF MemoryInv, MemoryTypeOK, WriterState
<1> DEFINE told == [number |-> writer[w].number, title |-> writer[w].title]
<1>3. told \in Row
  BY <1>2 DEF Row
<1>4. index' = {r \in index : r.number # told.number} \cup {told}
  BY DEF IndexDecision, Inserted
<1>5. index' \subseteq Row /\ \A r, s \in index' : r.number = s.number => r = s
  <2> HIDE DEF told
  <2> QED
    BY <1>3, <1>4 DEF MemoryInv, MemoryTypeOK
<1>6. writer' \in [Writers -> WriterState] /\ WriterAt(w, "free")'
  BY <1>1, MemoryAssumption DEF MemoryInv, MemoryTypeOK, WriterState, Free, WriterAt
<1>7. MemoryTypeOK'
  BY <1>1, <1>5, <1>6 DEF MemoryInv, MemoryTypeOK
<1>8. ASSUME ~crowded, undone = 0
      PROVE  \A r \in index' : Decided(document', r.number, r.title)
  <2>1. OneAtWork
    BY <1>8 DEF MemoryInv
  <2>2. Decided(document, told.number, told.title)
    BY <1>1, <1>8, <2>1 DEF OneAtWork
  <2> HIDE DEF told
  <2>3. \A r \in index' : r \in index \/ r = told
    BY <1>4
  <2>4. \A r \in index' : Decided(document, r.number, r.title)
    BY <1>8, <2>1, <2>2, <2>3 DEF OneAtWork
  <2> QED
    BY <1>1, <2>4
<1>9. ~WriterAt(w, "header")' /\ ~WriterAt(w, "append")' /\ ~WriterAt(w, "index")'
  BY <1>6 DEF WriterAt
<1>10. ~crowded => Ascends(document')
  BY <1>1 DEF MemoryInv, OneAtWork
<1> QED
  BY <1>1, <1>2, <1>7, <1>8, <1>9, <1>10, GoingOnKeeps

(* A rollback removes the entries of a stage.                              *)
LEMMA UndoEntriesKeeps ==
  ASSUME MemoryInv, UndoEntries
  PROVE  MemoryInv'
<1>1. /\ undone < MaxUndone /\ undone' = undone + 1 /\ document' \in captures
      /\ crowded' = (crowded \/ Busy # {})
      /\ UNCHANGED <<index, writer, begun, captures, kills>>
  BY DEF UndoEntries
<1>2. undone \in 0..MaxUndone /\ MaxUndone \in Nat /\ crowded \in BOOLEAN /\ captures \subseteq Seq(Entry)
  BY MemoryAssumption DEF MemoryInv, MemoryTypeOK
<1>3. undone' \in 0..MaxUndone /\ undone' # 0 /\ crowded' \in BOOLEAN
  BY <1>1, <1>2
<1>4. MemoryTypeOK'
  BY <1>1, <1>2, <1>3 DEF MemoryInv, MemoryTypeOK
<1>5. ASSUME ~crowded' PROVE OneAtWork'
  <2>1. ~crowded /\ Busy = {} /\ OneAtWork
    BY <1>1, <1>2, <1>5 DEF MemoryInv
  <2>2. \A w \in Writers : writer'[w] = writer[w] /\ WriterAt(w, "free")
    BY <1>1, <2>1 DEF Busy
  <2>3. /\ Busy' = {}
        /\ \A w \in Writers :
             ~WriterAt(w, "header")' /\ ~WriterAt(w, "append")' /\ ~WriterAt(w, "index")'
    BY <2>2 DEF Busy, WriterAt
  <2>4. \A doc \in captures' \cup {document'} : Ascends(doc)
    BY <1>1, <2>1 DEF OneAtWork
  <2> QED
    BY <1>3, <2>3, <2>4 DEF OneAtWork
<1> QED
  BY <1>1, <1>4, <1>5 DEF MemoryInv, WriterAt

(* The process dies, wherever the writers are.                             *)
LEMMA KillKeeps ==
  ASSUME MemoryInv, Kill
  PROVE  MemoryInv'
<1>1. /\ kills < MaxKills /\ kills' = kills + 1 /\ writer' = [w \in Writers |-> Free]
      /\ UNCHANGED <<index, begun, captures, undone, crowded>>
  BY DEF Kill
<1>2. kills' \in 0..MaxKills
  BY <1>1, MemoryAssumption DEF MemoryInv, MemoryTypeOK
<1>3. /\ writer' \in [Writers -> WriterState]
      /\ \A w \in Writers : WriterAt(w, "free")'
  BY <1>1, MemoryAssumption DEF WriterState, Free, WriterAt
<1>4. /\ Busy' = {}
      /\ \A w \in Writers :
           ~WriterAt(w, "header")' /\ ~WriterAt(w, "append")' /\ ~WriterAt(w, "index")'
  BY <1>3 DEF Busy, WriterAt
<1>5. /\ document' \in Seq(Entry)
      /\ Ascends(document) => Ascends(document')
      /\ \A n, t : Decided(document, n, t) => Decided(document', n, t)
  <2>1. CASE UNCHANGED document
    BY <2>1 DEF MemoryInv, MemoryTypeOK
  <2>2. CASE \E w \in Writers : \E n \in {0, writer[w].number} :
               document' = Appended([what |-> "torn", number |-> n, title |-> writer[w].title])
    <3>1. PICK w \in Writers, n \in Nat, t \in 0..MaxEntries :
            document' = Appended([what |-> "torn", number |-> n, title |-> t])
      BY <2>2 DEF MemoryInv, MemoryTypeOK, WriterState
    <3>2. PICK entry \in Entry : entry = [what |-> "torn", number |-> n, title |-> t] /\ entry.what = "torn"
      <4> DEFINE entry == [what |-> "torn", number |-> n, title |-> t]
      <4>1. entry \in Entry /\ entry.what = "torn"
        BY <3>1 DEF Entry
      <4> QED
        BY <4>1
    <3>3. PICK new : new = document' /\ new = Appended(entry)
      BY <3>1, <3>2
    <3>4. MemoryTypeOK
      BY DEF MemoryInv
    <3>5. new \in Seq(Entry)
      BY <3>3, <3>4, AppendedGoes
    <3>6. Ascends(document) => Ascends(new)
      BY <3>2, <3>3, <3>4, AppendedAscends
    <3>7. \A m, u : Decided(document, m, u) => Decided(new, m, u)
      BY <3>3, <3>4, AppendedDecided
    <3> QED
      BY <3>3, <3>5, <3>6, <3>7
  <2> QED
    BY <2>1, <2>2 DEF Kill
<1>6. MemoryTypeOK'
  BY <1>1, <1>2, <1>3, <1>5 DEF MemoryInv, MemoryTypeOK
<1>7. ASSUME ~crowded' PROVE OneAtWork'
  BY <1>1, <1>4, <1>5, <1>7 DEF MemoryInv, OneAtWork
<1> QED
  BY <1>3, <1>6, <1>7 DEF MemoryInv

(* Every step keeps the invariant.                                         *)
LEMMA MemoryInvStep == MemoryInv /\ [MemoryNext]_memoryVars => MemoryInv'
<1> SUFFICES ASSUME MemoryInv, [MemoryNext]_memoryVars PROVE MemoryInv'
  OBVIOUS
<1>1. CASE UNCHANGED memoryVars
  BY <1>1 DEF memoryVars, MemoryInv, MemoryTypeOK, OneAtWork, Busy, WriterAt
<1> QED
  BY <1>1, BeginEntryKeeps, WriteHeaderKeeps, NumberDecisionKeeps, AppendEntryKeeps,
     IndexDecisionKeeps, UndoEntriesKeeps, KillKeeps DEF MemoryNext

(* A sequence that has the elements of another in front starts with it.    *)
LEMMA PrefixOf ==
  ASSUME NEW S, NEW s \in Seq(S), NEW t \in Seq(S),
         \A i \in DOMAIN s : i \in DOMAIN t /\ t[i] = s[i]
  PROVE  IsPrefix(s, t)
<1>1. Len(s) \in Nat /\ Len(t) \in Nat /\ DOMAIN s = 1..Len(s) /\ DOMAIN t = 1..Len(t)
  OBVIOUS
<1>2. Len(s) <= Len(t)
  <2>1. CASE Len(s) = 0
    BY <1>1, <2>1
  <2>2. CASE Len(s) # 0
    BY <1>1, <2>2
  <2> QED
    BY <2>1, <2>2
<1>3. /\ SubSeq(s, 1, Len(s)) = s
      /\ SubSeq(t, 1, Len(s)) \in Seq(S) /\ Len(SubSeq(t, 1, Len(s))) = Len(s)
      /\ \A i \in 1..Len(s) : SubSeq(t, 1, Len(s))[i] = t[i]
  BY <1>1, <1>2
<1>4. SubSeq(t, 1, Len(s)) = s
  BY <1>1, <1>3, SeqEqual
<1> QED
  BY <1>2, <1>3, <1>4 DEF IsPrefix

(* Decisions have numbers above every heading before them, the index names *)
(* only decisions that are there, and the document is only appended to: as *)
(* long as requests follow each other, for any text that cites numbers,    *)
(* any number of requests, and crashes at any point of them.               *)
THEOREM DecisionsStayFound == MemorySpec => DecisionsAreFound
<1>1. MemoryInv => MemoryTypeOK /\ NumbersAscend /\ IndexNamesDecisions
  <2>1. MemoryInv => NumbersAscend
    BY DEF MemoryInv, OneAtWork, NumbersAscend, Ascends
  <2>2. MemoryInv => IndexNamesDecisions
    BY DEF MemoryInv, OneAtWork, IndexNamesDecisions, Decided
  <2> QED
    BY <2>1, <2>2 DEF MemoryInv
<1>2. MemoryInv /\ [MemoryNext]_memoryVars =>
        [IsPrefix(document, document') \/ undone' # undone \/ crowded]_memoryVars
  <2> SUFFICES ASSUME MemoryInv, MemoryNext, ~crowded, undone' = undone
               PROVE  IsPrefix(document, document')
    BY DEF memoryVars
  <2>1. MemoryTypeOK /\ OneAtWork /\ document \in Seq(Entry)
    BY DEF MemoryInv, MemoryTypeOK
  <2>2. document' \in Seq(Entry)
    BY MemoryInvStep DEF MemoryInv, MemoryTypeOK
  <2>3. \/ document' = document \/ document = None
        \/ \E entry \in Entry : document' = Appended(entry)
    <3>1. \A w \in Writers : BeginEntry(w) \/ NumberDecision(w) \/ IndexDecision(w) =>
            document' = document
      BY DEF BeginEntry, NumberDecision, IndexDecision
    <3>2. \A w \in Writers : WriteHeader(w) => document = None
      BY <2>1 DEF WriteHeader, OneAtWork
    <3>3. \A w \in Writers : AppendEntry(w) => \E entry \in Entry : document' = Appended(entry)
      <4> SUFFICES ASSUME NEW w \in Writers, AppendEntry(w)
                   PROVE  \E entry \in Entry : document' = Appended(entry)
        OBVIOUS
      <4>1. writer[w].number \in Nat /\ writer[w].title \in 0..MaxEntries
        BY <2>1 DEF MemoryTypeOK, WriterState
      <4>2. [what |-> "decision", number |-> writer[w].number, title |-> writer[w].title] \in Entry
        BY <4>1 DEF Entry
      <4>3. \A n \in Cited : [what |-> "text", number |-> n, title |-> writer[w].title] \in Entry
        BY <4>1, MemoryAssumption DEF Entry
      <4> QED
        BY <4>2, <4>3 DEF AppendEntry
    <3>4. ~UndoEntries
      <4>1. undone \in Nat
        BY <2>1, MemoryAssumption DEF MemoryTypeOK
      <4> QED
        BY <4>1 DEF UndoEntries
    <3>5. Kill => document' = document \/ \E entry \in Entry : document' = Appended(entry)
      <4> SUFFICES ASSUME Kill, document' # document
                   PROVE  \E entry \in Entry : document' = Appended(entry)
        OBVIOUS
      <4>1. PICK w \in Writers, n \in Nat, t \in 0..MaxEntries :
              document' = Appended([what |-> "torn", number |-> n, title |-> t])
        BY <2>1 DEF Kill, MemoryTypeOK, WriterState
      <4>2. [what |-> "torn", number |-> n, title |-> t] \in Entry
        BY <4>1 DEF Entry
      <4> QED
        BY <4>1, <4>2
    <3> QED
      BY <3>1, <3>2, <3>3, <3>4, <3>5 DEF MemoryNext
  <2>4. \A i \in DOMAIN document : i \in DOMAIN document' /\ document'[i] = document[i]
    <3>1. CASE document' = document
      BY <3>1
    <3>2. CASE document = None
      BY <3>2 DEF None
    <3>3. CASE \E entry \in Entry : document' = Appended(entry)
      BY <2>1, <3>3, AppendedGoes
    <3> QED
      BY <2>3, <3>1, <3>2, <3>3
  <2> QED
    BY <2>1, <2>2, <2>4, PrefixOf
<1> QED
  BY <1>1, <1>2, MemoryInvInit, MemoryInvStep, PTL DEF MemorySpec, DecisionsAreFound, OnlyAppends

-----------------------------------------------------------------------------
(* AuditTrail.  A line without its end has no entry whose writing was      *)
(* reported, and while requests are served it parses; the entry that joins *)
(* it is then its second one.  What a startup moved away is in the lines   *)
(* it is about to write, until it writes them or a crash loses them.       *)

(* An entry on a line of its own, and one behind an entry without an end.  *)
Clear(e) ==
  \E line \in LinesOf(log) \cup LinesOf(kept) \cup LinesIn(archives) :
    line.holds = <<e>> /\ Parses(line)
Behind(e) ==
  \E line \in LinesOf(log) \cup LinesIn(archives) \cup LinesIn(quarantined) :
    line.clean /\ Len(line.holds) = 2 /\ line.holds[2] = e

OpenLinesInv ==
  \A i \in DOMAIN log :
    /\ i < Len(log) => log[i].ended
    /\ ~log[i].ended =>
         ToSet(log[i].holds) \cap recorded = {} /\ (stage = "serving" => Parses(log[i]))

AuditInv ==
  /\ AuditTypeOK /\ OpenLinesInv /\ EveryEntryIsKept
  /\ stage # "rewrite" => kept = << >>
  /\ stage = "rewrite" => log = << >> /\ Len(kept) <= MaxLines
  /\ \A i \in DOMAIN kept : Parses(kept[i])
  /\ \A line \in LinesOf(log) \cup LinesOf(kept) : ToSet(line.holds) \subseteq 1..entries
  /\ \A e \in recorded \ orphaned : Clear(e) \/ Behind(e)

(* The recursion of ValidLines, as its definition means it.                *)
LEMMA ReadableUnfolds ==
  ASSUME NEW lines \in Seq(Line)
  PROVE  \E valid :
           /\ valid = [n \in 0..Len(lines) |->
                         IF n = 0 THEN << >>
                         ELSE IF Parses(lines[n]) THEN Append(valid[n - 1], lines[n])
                              ELSE valid[n - 1]]
           /\ ValidLines(lines) = valid[Len(lines)]
<1> DEFINE Next1(f, n) == IF n = 0 THEN << >>
                          ELSE IF Parses(lines[n]) THEN Append(f[n - 1], lines[n]) ELSE f[n - 1]
           len == Len(lines)
           odd == {k \in 0..len : ~\E f : f = [n \in 0..k |-> Next1(f, n)]}
<1>1. len \in Nat
  OBVIOUS
<1>2. ASSUME odd # {} PROVE FALSE
  <2>1. PICK k \in odd : \A j \in odd : k <= j
    <3>1. odd \in SUBSET Nat
      BY <1>1
    <3> HIDE DEF odd
    <3> QED
      BY <1>2, <3>1, SmallestExists
  <2>2. k \in 0..len
    OBVIOUS
  <2>3. k # 0
    <3> DEFINE f == [n \in 0..0 |-> << >>]
    <3>1. f = [n \in 0..0 |-> Next1(f, n)]
      OBVIOUS
    <3> QED
      BY <3>1
  <2>4. k - 1 \in 0..len /\ k - 1 \notin odd
    <3>1. k - 1 \in 0..len /\ ~(k <= k - 1)
      BY <1>1, <2>2, <2>3
    <3> HIDE DEF odd
    <3> QED
      BY <2>1, <3>1
  <2>5. PICK f : f = [n \in 0..(k - 1) |-> Next1(f, n)]
    BY <2>4
  <2> DEFINE g == [n \in 0..k |-> IF n = k THEN Next1(f, k) ELSE f[n]]
  <2>6. g = [n \in 0..k |-> Next1(g, n)]
    <3>1. \A n \in 0..k : n = k \/ n \in 0..(k - 1)
      BY <1>1, <2>2
    <3>2. \A n \in 0..(k - 1) : g[n] = f[n] /\ f[n] = Next1(f, n)
      <4>1. \A n \in 0..(k - 1) : n \in 0..k /\ n # k
        BY <1>1, <2>2
      <4> HIDE DEF Next1
      <4>2. \A n \in 0..(k - 1) : f[n] = Next1(f, n)
        BY <2>5
      <4> QED
        BY <4>1, <4>2
    <3>3. \A n \in 0..k : n # 0 => n - 1 \in 0..(k - 1)
      BY <1>1, <2>2
    <3>4. ASSUME NEW n \in 0..k PROVE g[n] = Next1(g, n)
      <4>1. Next1(g, n) = Next1(f, n)
        BY <3>2, <3>3
      <4>2. CASE n = k
        BY <4>1, <4>2
      <4>3. CASE n # k
        BY <3>1, <3>2, <4>1, <4>3
      <4> QED
        BY <4>2, <4>3
    <3> QED
      BY <3>4
  <2> QED
    BY <2>1, <2>6
<1>3. len \notin odd
  BY <1>2
<1>4. \E f : f = [n \in 0..len |-> Next1(f, n)]
  BY <1>1, <1>3
<1>5. ValidLines(lines) = (CHOOSE f : f = [n \in 0..len |-> Next1(f, n)])[len]
  BY DEF ValidLines
<1> QED
  BY <1>4, <1>5

(* What parses is kept, and nothing else.                                  *)
LEMMA ReadableKeeps ==
  ASSUME NEW lines \in Seq(Line)
  PROVE  /\ ValidLines(lines) \in Seq(Line) /\ Len(ValidLines(lines)) <= Len(lines)
         /\ \A i \in DOMAIN ValidLines(lines) :
              Parses(ValidLines(lines)[i]) /\ ValidLines(lines)[i] \in LinesOf(lines)
         /\ \A i \in DOMAIN lines : Parses(lines[i]) => lines[i] \in LinesOf(ValidLines(lines))
<1>1. PICK valid :
        /\ valid = [n \in 0..Len(lines) |->
                      IF n = 0 THEN << >>
                      ELSE IF Parses(lines[n]) THEN Append(valid[n - 1], lines[n])
                           ELSE valid[n - 1]]
        /\ ValidLines(lines) = valid[Len(lines)]
  BY ReadableUnfolds
<1>2. PICK len \in Nat : len = Len(lines) /\ DOMAIN lines = 1..len
  OBVIOUS
<1>3. valid[0] = << >>
  BY <1>1, <1>2
<1>4. ASSUME NEW n \in 1..len
      PROVE  /\ Parses(lines[n]) => valid[n] = Append(valid[n - 1], lines[n])
             /\ ~Parses(lines[n]) => valid[n] = valid[n - 1]
  <2>1. n \in 0..Len(lines) /\ n # 0
    BY <1>2
  <2>2. valid[n] = IF n = 0 THEN << >>
                   ELSE IF Parses(lines[n]) THEN Append(valid[n - 1], lines[n])
                        ELSE valid[n - 1]
    BY <1>1, <2>1
  <2> QED
    BY <2>1, <2>2 DEF Parses
<1> DEFINE Good(n) ==
      /\ valid[n] \in Seq(Line) /\ Len(valid[n]) <= n
      /\ \A i \in DOMAIN valid[n] : Parses(valid[n][i]) /\ valid[n][i] \in LinesOf(lines)
      /\ \A i \in 1..n : Parses(lines[i]) => lines[i] \in LinesOf(valid[n])
    odd == {n \in 0..len : ~Good(n)}
<1>5. Good(0)
  BY <1>3 DEF LinesOf
<1>6. ASSUME NEW n \in 1..len, Good(n - 1) PROVE Good(n)
  <2>1. PICK s \in Seq(Line) : s = valid[n - 1]
    BY <1>6
  <2>2. Len(s) <= n - 1 /\ n \in Nat /\ Len(s) \in Nat /\ DOMAIN s = 1..Len(s)
    BY <1>6, <2>1
  <2>3. /\ \A i \in DOMAIN s : Parses(s[i]) /\ s[i] \in LinesOf(lines)
        /\ \A i \in 1..(n - 1) : Parses(lines[i]) => \E j \in DOMAIN s : lines[i] = s[j]
    BY <1>6, <2>1 DEF LinesOf
  <2>4. \A i \in 1..n : i = n \/ i \in 1..(n - 1)
    BY <2>2
  <2>5. lines[n] \in Line /\ lines[n] \in LinesOf(lines)
    BY <1>2 DEF LinesOf
  <2>6. CASE Parses(lines[n])
    <3>1. PICK t : t = valid[n] /\ t = Append(s, lines[n])
      BY <1>4, <2>1, <2>6
    <3>2. /\ t \in Seq(Line) /\ Len(t) = Len(s) + 1 /\ DOMAIN t = 1..(Len(s) + 1)
          /\ t[Len(s) + 1] = lines[n] /\ \A i \in DOMAIN s : t[i] = s[i]
      BY <2>2, <2>5, <3>1
    <3>3. Len(t) <= n
      BY <2>2, <3>2
    <3>4. \A i \in DOMAIN t : i \in DOMAIN s \/ i = Len(s) + 1
      BY <2>2, <3>2
    <3>5. \A i \in DOMAIN t : Parses(t[i]) /\ t[i] \in LinesOf(lines)
      BY <2>3, <2>5, <2>6, <3>2, <3>4
    <3>6. \A i \in DOMAIN s : i \in DOMAIN t
      BY <2>2, <3>2
    <3>7. Len(s) + 1 \in DOMAIN t
      BY <2>2, <3>2
    <3>8. ASSUME NEW i \in 1..n, Parses(lines[i]) PROVE lines[i] \in LinesOf(t)
      <4>1. \E j \in DOMAIN t : lines[i] = t[j]
        BY <2>3, <2>4, <3>2, <3>6, <3>7, <3>8
      <4> QED
        BY <4>1 DEF LinesOf
    <3> QED
      BY <3>1, <3>2, <3>3, <3>5, <3>8
  <2>7. CASE ~Parses(lines[n])
    <3>1. valid[n] = s
      BY <1>4, <2>1, <2>7
    <3>2. \A i \in 1..n : Parses(lines[i]) => lines[i] \in LinesOf(s)
      BY <2>3, <2>4, <2>7 DEF LinesOf
    <3>3. Len(s) <= n
      BY <2>2
    <3> QED
      BY <2>3, <3>1, <3>2, <3>3
  <2> QED
    BY <2>6, <2>7
<1>7. ASSUME odd # {} PROVE FALSE
  <2>1. PICK n \in odd : \A k \in odd : n <= k
    <3>1. odd \in SUBSET Nat
      OBVIOUS
    <3> HIDE DEF odd
    <3> QED
      BY <1>7, <3>1, SmallestExists
  <2>2. n \in 0..len /\ ~Good(n)
    OBVIOUS
  <2> HIDE DEF Good
  <2>3. n # 0
    BY <1>5, <2>2
  <2>4. n \in 1..len /\ n - 1 \in 0..len /\ ~(n <= n - 1)
    BY <2>2, <2>3
  <2>5. n - 1 \notin odd
    <3> HIDE DEF odd
    <3> QED
      BY <2>1, <2>4
  <2>6. Good(n - 1)
    BY <2>4, <2>5
  <2> QED
    BY <1>6, <2>2, <2>4, <2>6
<1>8. Good(len)
  <2> HIDE DEF Good
  <2>1. len \in 0..len
    OBVIOUS
  <2> QED
    BY <1>7, <2>1
<1> QED
  BY <1>1, <1>2, <1>8

Together(front, back) == front \o back

(* What an append makes of the file: the last line of it takes the new one *)
(* if it has no end.                                                       *)
AllButLastEnded(lines) == \A i \in DOMAIN lines : i < Len(lines) => lines[i].ended
JoinsTo(lines, part, new) ==
  /\ new \in Seq(Line) /\ Len(new) > 0 /\ Len(new) <= Len(lines) + 1
  /\ \A i \in 1..(Len(new) - 1) : i \in DOMAIN lines /\ new[i] = lines[i] /\ lines[i].ended
  /\ new[Len(new)].ended = part.ended
  /\ \/ /\ new[Len(new)] = part
        /\ \A i \in DOMAIN lines : i \in 1..(Len(new) - 1)
     \/ \E last \in DOMAIN lines :
          /\ ~lines[last].ended
          /\ new[Len(new)].holds = Together(lines[last].holds, part.holds)
          /\ (lines[last].clean /\ part.clean => new[Len(new)].clean)
          /\ \A i \in DOMAIN lines : i \in 1..(Len(new) - 1) \/ i = last

(* Where a part that is appended ends up: behind an unfinished line, or on *)
(* a line of its own.                                                      *)
LEMMA JoinedGoes ==
  ASSUME NEW lines \in Seq(Line), NEW part \in Line, NEW new, new = Joined(lines, part),
         AllButLastEnded(lines)
  PROVE  JoinsTo(lines, part, new)
<1>0. \A i \in DOMAIN lines : i < Len(lines) => lines[i].ended
  BY DEF AllButLastEnded
<1>1. PICK len \in Nat : len = Len(lines) /\ DOMAIN lines = 1..len
  OBVIOUS
<1>2. CASE lines # << >> /\ ~Last(lines).ended
  <2>1. len \in DOMAIN lines /\ len # 0 /\ Last(lines) = lines[len]
    BY <1>1, <1>2 DEF Last
  <2>2. PICK last \in Line : last = lines[len]
    BY <2>1
  <2> DEFINE join == [holds |-> last.holds \o part.holds, clean |-> last.clean /\ part.clean,
                      ended |-> part.ended]
  <2>3. join \in Line
    <3>1. last.holds \in Seq(1..MaxRecords) /\ part.holds \in Seq(1..MaxRecords)
      BY DEF Line
    <3>2. last.holds \o part.holds \in Seq(1..MaxRecords)
      BY <3>1
    <3>3. (last.clean /\ part.clean) \in BOOLEAN /\ part.ended \in BOOLEAN
      BY DEF Line
    <3> QED
      BY <3>2, <3>3 DEF Line
  <2>4. /\ join.holds = last.holds \o part.holds /\ join.clean = (last.clean /\ part.clean)
        /\ join.ended = part.ended
    OBVIOUS
  <2>5. new = Append(Front(lines), join)
    BY <1>2, <2>1, <2>2 DEF Joined
  <2> HIDE DEF join
  <2>6. PICK front : front = SubSeq(lines, 1, len - 1) /\ front = Front(lines)
    BY <1>1 DEF Front
  <2>7. /\ front \in Seq(Line) /\ Len(front) = len - 1
        /\ \A i \in 1..(len - 1) : front[i] = lines[i]
    <3>1. len - 1 \in Nat /\ len - 1 <= Len(lines)
      BY <1>1, <2>1
    <3> QED
      BY <1>1, <2>1, <2>6, <3>1
  <2>8. /\ new \in Seq(Line) /\ Len(new) = len /\ new[len] = join
        /\ \A i \in 1..(len - 1) : new[i] = lines[i]
    <3>1. new = Append(front, join)
      BY <2>5, <2>6
    <3>2. len \in Nat /\ len > 0
      BY <1>1, <2>1
    <3>3. new \in Seq(Line) /\ Len(new) = len
      BY <2>3, <2>7, <3>1, <3>2
    <3>4. new[len] = join /\ \A i \in 1..(len - 1) : new[i] = front[i]
      BY <2>3, <2>7, <3>1, <3>2
    <3> QED BY <2>7, <3>3, <3>4
  <2>9. \A i \in 1..(len - 1) : i \in DOMAIN lines /\ i < Len(lines)
    BY <1>1
  <2>10. \A i \in DOMAIN lines : i \in 1..(len - 1) \/ i = len
    BY <1>1
  <2>11. /\ new \in Seq(Line) /\ Len(new) > 0 /\ Len(new) <= Len(lines) + 1
         /\ \A i \in 1..(len - 1) : i \in DOMAIN lines /\ new[i] = lines[i] /\ lines[i].ended
    <3>1. \A i \in 1..(len - 1) : lines[i].ended
      BY <1>0, <2>9
    <3>2. Len(new) > 0 /\ Len(new) <= Len(lines) + 1
      BY <1>1, <2>1, <2>8
    <3> QED
      BY <2>8, <2>9, <3>1, <3>2
  <2>12. ~lines[len].ended
    BY <1>2, <2>1
  <2>13. /\ new[len].holds = Together(lines[len].holds, part.holds)
         /\ new[len].clean = (lines[len].clean /\ part.clean) /\ new[len].ended = part.ended
    BY <2>2, <2>4, <2>8 DEF Together
  <2>14. PICK k \in Nat : k = Len(new) /\ k = len
    BY <2>8
  <2> QED
    BY <2>1, <2>10, <2>11, <2>12, <2>13, <2>14 DEF JoinsTo
<1>3. CASE ~(lines # << >> /\ ~Last(lines).ended)
  <2>1. new = Append(lines, part)
    BY <1>3 DEF Joined
  <2>2. /\ new \in Seq(Line) /\ Len(new) = len + 1 /\ new[len + 1] = part
        /\ \A i \in 1..len : new[i] = lines[i]
    BY <1>1, <2>1
  <2>3. \A i \in 1..len : lines[i].ended
    <3> TAKE i \in 1..len
    <3>1. CASE i = len
      <4>1. lines # << >> /\ Last(lines) = lines[len]
        BY <1>1, <3>1 DEF Last
      <4> QED
        BY <1>3, <3>1, <4>1
    <3>2. CASE i # len
      BY <1>0, <1>1, <3>2
    <3> QED
      BY <3>1, <3>2
  <2>4. PICK k \in Nat : k = Len(new) /\ k = len + 1 /\ k - 1 = len
    BY <2>2
  <2>5. /\ new \in Seq(Line) /\ Len(new) > 0 /\ Len(new) <= Len(lines) + 1
    BY <1>1, <2>2
  <2>6. \A i \in 1..(Len(new) - 1) : i \in DOMAIN lines /\ new[i] = lines[i] /\ lines[i].ended
    BY <1>1, <2>2, <2>3, <2>4
  <2>7. new[Len(new)] = part /\ \A i \in DOMAIN lines : i \in 1..(Len(new) - 1)
    BY <1>1, <2>2, <2>4
  <2> QED
    BY <2>5, <2>6, <2>7 DEF JoinsTo
<1> QED
  BY <1>2, <1>3

(* Entries behind those of a line.                                         *)
LEMMA OneMore ==
  ASSUME NEW S, NEW s \in Seq(S), NEW e \in S, NEW more, more = s \o <<e>>
  PROVE  /\ Len(more) = Len(s) + 1 /\ more[Len(s) + 1] = e
         /\ ToSet(more) = ToSet(s) \cup {e}
<1>1. /\ more \in Seq(S) /\ Len(s) \in Nat /\ DOMAIN s = 1..Len(s)
      /\ Len(more) = Len(s) + 1 /\ more[Len(s) + 1] = e
      /\ \A i \in 1..Len(s) : more[i] = s[i]
      /\ DOMAIN more = 1..(Len(s) + 1)
  OBVIOUS
<1>2. \A i \in 1..(Len(s) + 1) : i \in 1..Len(s) \/ i = Len(s) + 1
  BY <1>1
<1>3. \A i \in 1..Len(s) : i \in 1..(Len(s) + 1)
  BY <1>1
<1>4. Len(s) + 1 \in 1..(Len(s) + 1)
  BY <1>1
<1> QED
  BY <1>1, <1>2, <1>3, <1>4 DEF ToSet

(* And so to the entries of a line.                                        *)
LEMMA OneMoreRecord ==
  ASSUME NEW s \in Seq(1..MaxRecords), NEW e \in 1..MaxRecords
  PROVE  /\ Len(s \o <<e>>) = Len(s) + 1 /\ (s \o <<e>>)[Len(s) + 1] = e
         /\ ToSet(s \o <<e>>) = ToSet(s) \cup {e}
BY OneMore

(* The lines of the files, and of one more.                                *)
LEMMA LinesOfMore ==
  ASSUME NEW files \in Seq(Seq(Line)), NEW lines \in Seq(Line)
  PROVE  /\ Append(files, lines) \in Seq(Seq(Line))
         /\ LinesIn(Append(files, lines)) = LinesIn(files) \cup LinesOf(lines)
<1>1. /\ Append(files, lines) \in Seq(Seq(Line)) /\ Len(files) \in Nat /\ DOMAIN files = 1..Len(files)
      /\ DOMAIN Append(files, lines) = 1..(Len(files) + 1)
      /\ Append(files, lines)[Len(files) + 1] = lines
      /\ \A i \in 1..Len(files) : Append(files, lines)[i] = files[i]
  OBVIOUS
<1>2. \A i \in 1..(Len(files) + 1) : i \in 1..Len(files) \/ i = Len(files) + 1
  BY <1>1
<1>3. \A i \in 1..Len(files) : i \in 1..(Len(files) + 1)
  BY <1>1
<1>4. Len(files) + 1 \in 1..(Len(files) + 1)
  BY <1>1
<1> QED
  BY <1>1, <1>2, <1>3, <1>4 DEF LinesIn

(* The next entry gets its line, or what a crash leaves of it, in the log  *)
(* or in a new one.                                                        *)
WritesEntry(part) ==
  /\ stage = "serving" /\ entries < MaxRecords /\ entries' = entries + 1
  /\ part.holds = <<entries + 1>>
  /\ UNCHANGED quarantined
  /\ \/ Len(log) < MaxLines /\ log' = Joined(log, part) /\ UNCHANGED archives
     \/ archives' = Append(archives, log) /\ log' = <<part>>

(* An entry that is written, whole or in part, is in the log and among the *)
(* entries.                                                                *)
LEMMA EntryIsWritten ==
  ASSUME AuditInv, NEW part \in Line, WritesEntry(part)
  PROVE  /\ log' \in Seq(Line) /\ Len(log)' <= MaxLines /\ archives' \in Seq(Seq(Line))
         /\ \A line \in LinesOf(log') : ToSet(line.holds) \subseteq 1..entries'
         /\ \A i \in DOMAIN log' :
              /\ i < Len(log') => log'[i].ended
              /\ ~log'[i].ended => ~part.ended /\ ToSet(log'[i].holds) \cap recorded = {}
         /\ \A line \in LinesOf(log) \cup LinesIn(archives) :
              \/ line \in LinesOf(log') \cup LinesIn(archives')
              \/ /\ line \in LinesOf(log) /\ ToSet(line.holds) \cap recorded = {}
         /\ \E line \in LinesOf(log') :
              /\ entries + 1 \in ToSet(line.holds)
              /\ part.clean /\ part.ended =>
                   (line = part \/ (line.clean /\ Len(line.holds) = 2 /\ line.holds[2] = entries + 1))
<1>1. /\ log \in Seq(Line) /\ archives \in Seq(Seq(Line)) /\ entries \in Nat /\ MaxRecords \in Nat
      /\ MaxLines \in Nat \ {0} /\ recorded \subseteq 1..entries
  BY AuditAssumption DEF AuditInv, AuditTypeOK
<1>2. PICK next \in Nat : next = entries + 1 /\ next \in 1..MaxRecords /\ entries' = next
  BY <1>1 DEF WritesEntry
<1>3. part.holds = <<next>> /\ ToSet(part.holds) = {next} /\ next \notin recorded
  <2>1. part.holds = <<next>>
    BY <1>2 DEF WritesEntry
  <2>2. ToSet(<<next>>) = {next}
    BY DEF ToSet
  <2> QED
    BY <1>1, <1>2, <2>1, <2>2
<1>4. \A line \in LinesOf(log) : line \in Line /\ ToSet(line.holds) \subseteq 1..next
  <2>1. \A line \in LinesOf(log) : line \in Line
    BY <1>1 DEF LinesOf
  <2>2. \A e \in 1..entries : e \in 1..next
    BY <1>1, <1>2
  <2> QED
    BY <2>1, <2>2 DEF AuditInv
<1>5. \A i \in DOMAIN log : i < Len(log) => log[i].ended
  BY DEF AuditInv, OpenLinesInv
<1>6. CASE Len(log) < MaxLines /\ log' = Joined(log, part) /\ UNCHANGED archives
  <2>1. PICK new : new = log'
    OBVIOUS
  <2>2. /\ new \in Seq(Line) /\ Len(new) > 0 /\ Len(new) <= Len(log) + 1
        /\ \A i \in 1..(Len(new) - 1) : i \in DOMAIN log /\ new[i] = log[i] /\ log[i].ended
        /\ new[Len(new)].ended = part.ended
        /\ \/ /\ new[Len(new)] = part
              /\ \A i \in DOMAIN log : i \in 1..(Len(new) - 1)
           \/ \E last \in DOMAIN log :
                /\ ~log[last].ended
                /\ new[Len(new)].holds = Together(log[last].holds, part.holds)
                /\ (log[last].clean /\ part.clean => new[Len(new)].clean)
                /\ \A i \in DOMAIN log : i \in 1..(Len(new) - 1) \/ i = last
    <3>1. new = Joined(log, part) /\ log \in Seq(Line)
      BY <1>1, <1>6, <2>1
    <3>2. part \in Line /\ AllButLastEnded(log)
      BY <1>5 DEF AllButLastEnded
    <3>3. JoinsTo(log, part, new)
      BY <3>1, <3>2, JoinedGoes
    <3> QED
      BY <3>3 DEF JoinsTo
  <2>3. PICK n \in Nat : n = Len(new) /\ n > 0 /\ DOMAIN new = 1..n /\ n \in DOMAIN new
    BY <2>2
  <2>4. \A i \in DOMAIN new : i = n \/ (i \in 1..(n - 1) /\ i < n)
    BY <2>3
  <2>5. \A i \in 1..(n - 1) : i \in DOMAIN new /\ new[i] \in LinesOf(log) /\ log[i] \in LinesOf(new)
    <3>1. \A i \in 1..(n - 1) : i \in DOMAIN new
      BY <2>3
    <3> QED
      BY <2>2, <2>3, <3>1 DEF LinesOf
  <2>6. /\ next \in ToSet(new[n].holds) /\ ToSet(new[n].holds) \subseteq 1..next
        /\ part.clean /\ part.ended =>
             (new[n] = part \/ (new[n].clean /\ Len(new[n].holds) = 2 /\ new[n].holds[2] = next))
        /\ ~new[n].ended => ~part.ended /\ ToSet(new[n].holds) \cap recorded = {}
        /\ \A i \in DOMAIN log : i \in 1..(n - 1) \/ ToSet(log[i].holds) \cap recorded = {}
    <3>1. CASE new[n] = part /\ \A i \in DOMAIN log : i \in 1..(n - 1)
      BY <1>2, <1>3, <3>1
    <3>2. ASSUME NEW last \in DOMAIN log, ~log[last].ended,
                 new[n].holds = Together(log[last].holds, part.holds),
                 log[last].clean /\ part.clean => new[n].clean,
                 \A i \in DOMAIN log : i \in 1..(n - 1) \/ i = last
          PROVE  /\ next \in ToSet(new[n].holds) /\ ToSet(new[n].holds) \subseteq 1..next
                 /\ part.clean /\ part.ended =>
                      new[n].clean /\ Len(new[n].holds) = 2 /\ new[n].holds[2] = next
                 /\ ToSet(new[n].holds) \cap recorded = {}
                 /\ \A i \in DOMAIN log : i \in 1..(n - 1) \/ ToSet(log[i].holds) \cap recorded = {}
      <4>1. PICK old \in Seq(1..MaxRecords) : old = log[last].holds
        <5>1. log[last] \in Line
          BY <1>1
        <5> QED
          BY <5>1 DEF Line
      <4>2. ToSet(old) \cap recorded = {} /\ Parses(log[last])
        BY <3>2, <4>1 DEF AuditInv, OpenLinesInv, WritesEntry
      <4>3. log[last].clean /\ Len(old) = 1
        BY <4>1, <4>2 DEF Parses
      <4>4. /\ Len(old \o <<next>>) = 2 /\ (old \o <<next>>)[2] = next
            /\ ToSet(old \o <<next>>) = ToSet(old) \cup {next}
        <5>1. /\ Len(old \o <<next>>) = Len(old) + 1 /\ (old \o <<next>>)[Len(old) + 1] = next
              /\ ToSet(old \o <<next>>) = ToSet(old) \cup {next}
          <6>1. old \in Seq(1..MaxRecords) /\ next \in 1..MaxRecords
            BY <1>2, <4>1
          <6> QED
            BY <6>1, OneMoreRecord
        <5>2. Len(old) + 1 = 2
          BY <4>3
        <5> QED
          BY <5>1, <5>2
      <4>5. new[n].holds = old \o <<next>>
        BY <1>3, <3>2, <4>1 DEF Together
      <4>6. ToSet(old) \subseteq 1..next
        BY <1>4, <4>1 DEF LinesOf
      <4>7. next \in 1..next
        BY <1>2
      <4> QED
        BY <1>3, <3>2, <4>1, <4>2, <4>3, <4>4, <4>5, <4>6, <4>7
    <3>3. new[n].ended = part.ended
      BY <2>2, <2>3
    <3> QED
      BY <2>2, <2>3, <3>1, <3>2, <3>3
  <2>7. \A line \in LinesOf(new) : ToSet(line.holds) \subseteq 1..entries'
    BY <1>2, <1>4, <2>4, <2>5, <2>6 DEF LinesOf
  <2>8. \A i \in DOMAIN new :
          /\ i < Len(new) => new[i].ended
          /\ ~new[i].ended => ~part.ended /\ ToSet(new[i].holds) \cap recorded = {}
    BY <2>2, <2>3, <2>4, <2>6
  <2>9. \A line \in LinesOf(log) : line \in LinesOf(new) \/ ToSet(line.holds) \cap recorded = {}
    BY <2>5, <2>6 DEF LinesOf
  <2>10. new[n] \in LinesOf(new)
    BY <2>3 DEF LinesOf
  <2>11. Len(new) <= MaxLines
    BY <1>1, <1>6, <2>2
  <2> QED
    BY <1>1, <1>2, <1>6, <2>1, <2>2, <2>6, <2>7, <2>8, <2>9, <2>10, <2>11
<1>7. CASE archives' = Append(archives, log) /\ log' = <<part>>
  <2>1. /\ log' \in Seq(Line) /\ Len(log') = 1 /\ DOMAIN log' = {1} /\ log'[1] = part
    BY <1>7
  <2>2. LinesOf(log') = {part}
    BY <2>1 DEF LinesOf
  <2>3. archives' \in Seq(Seq(Line)) /\ LinesIn(archives') = LinesIn(archives) \cup LinesOf(log)
    BY <1>1, <1>7, LinesOfMore
  <2>4. next \in 1..next
    BY <1>2
  <2>5. 1 <= MaxLines
    BY <1>1
  <2>6. \A line \in LinesOf(log') : ToSet(line.holds) \subseteq 1..entries'
    BY <1>2, <1>3, <2>2, <2>4
  <2>7. \A i \in DOMAIN log' :
          /\ i < Len(log') => log'[i].ended
          /\ ~log'[i].ended => ~part.ended /\ ToSet(log'[i].holds) \cap recorded = {}
    BY <1>3, <2>1
  <2>8. \A line \in LinesOf(log) \cup LinesIn(archives) : line \in LinesOf(log') \cup LinesIn(archives')
    BY <2>3
  <2>9. part \in LinesOf(log') /\ entries + 1 \in ToSet(part.holds)
    BY <1>2, <1>3, <2>2
  <2> QED
    BY <2>1, <2>3, <2>5, <2>6, <2>7, <2>8, <2>9
<1> QED
  BY <1>6, <1>7 DEF WritesEntry

(* The entries that are there stay, and stay readable if they were.        *)
LEMMA EntriesStay ==
  ASSUME AuditInv, NEW part \in Line, WritesEntry(part), UNCHANGED kept, stage = "serving"
  PROVE  /\ \A e \in recorded :
              (\E line \in LinesOf(log) \cup LinesIn(archives) \cup LinesIn(quarantined) :
                 e \in ToSet(line.holds)) =>
              \E line \in LinesOf(log') \cup LinesIn(archives') \cup LinesIn(quarantined') :
                e \in ToSet(line.holds)
         /\ \A e \in recorded : Clear(e) \/ Behind(e) => Clear(e)' \/ Behind(e)'
<1>1. /\ \A line \in LinesOf(log) \cup LinesIn(archives) :
           \/ line \in LinesOf(log') \cup LinesIn(archives')
           \/ /\ line \in LinesOf(log) /\ ToSet(line.holds) \cap recorded = {}
      /\ quarantined' = quarantined
  BY EntryIsWritten DEF WritesEntry
<1>2. ASSUME NEW e \in recorded,
             NEW line \in LinesOf(log) \cup LinesIn(archives) \cup LinesIn(quarantined),
             e \in ToSet(line.holds)
      PROVE  line \in LinesOf(log') \cup LinesIn(archives') \cup LinesIn(quarantined')
  BY <1>1, <1>2
<1>3. ASSUME NEW e \in recorded, NEW line \in LinesOf(log) \cup LinesIn(archives),
             e \in ToSet(line.holds)
      PROVE  line \in LinesOf(log') \cup LinesIn(archives')
  BY <1>1, <1>3
<1>4. ASSUME NEW e \in recorded, Clear(e) PROVE Clear(e)'
  <2>1. kept = << >> /\ LinesOf(kept) = {} /\ kept' = kept
    BY DEF AuditInv, LinesOf
  <2>2. PICK line \in LinesOf(log) \cup LinesIn(archives) : line.holds = <<e>> /\ Parses(line)
    BY <1>4, <2>1 DEF Clear
  <2>3. e \in ToSet(<<e>>)
    BY DEF ToSet
  <2>4. line \in LinesOf(log') \cup LinesIn(archives')
    BY <1>3, <2>2, <2>3
  <2> QED
    BY <2>2, <2>4 DEF Clear
<1>5. ASSUME NEW e \in recorded, Behind(e) PROVE Behind(e)'
  <2>1. PICK line \in LinesOf(log) \cup LinesIn(archives) \cup LinesIn(quarantined) :
          line.clean /\ Len(line.holds) = 2 /\ line.holds[2] = e
    BY <1>5 DEF Behind
  <2>2. line \in Line
    BY <2>1 DEF AuditInv, AuditTypeOK, LinesOf, LinesIn
  <2>3. e \in ToSet(line.holds)
    <3>1. line.holds \in Seq(1..MaxRecords)
      BY <2>2 DEF Line
    <3>2. 2 \in DOMAIN line.holds
      BY <2>1, <3>1
    <3> QED
      BY <2>1, <3>2 DEF ToSet
  <2>4. line \in LinesOf(log') \cup LinesIn(archives') \cup LinesIn(quarantined')
    BY <1>2, <2>1, <2>3
  <2> QED
    BY <2>1, <2>4 DEF Behind
<1> QED
  BY <1>2, <1>4, <1>5

(* At first the log is empty.                                              *)
LEMMA AuditInvInit == AuditInit => AuditInv
<1> SUFFICES ASSUME AuditInit PROVE AuditInv
  OBVIOUS
<1>1. AuditTypeOK
  BY AuditAssumption DEF AuditInit, AuditTypeOK
<1> QED
  BY <1>1 DEF AuditInit, AuditInv, OpenLinesInv, EveryEntryIsKept, LinesOf

(* An entry is appended.                                                   *)
LEMMA RecordKeeps == AuditInv /\ Record => AuditInv'
<1> SUFFICES ASSUME AuditInv, Record PROVE AuditInv'
  OBVIOUS
<1>1. /\ stage = "serving" /\ entries < MaxRecords /\ entries' = entries + 1
      /\ recorded' = recorded \cup {entries + 1}
      /\ UNCHANGED <<quarantined, stage, kept, halts, orphaned>>
  BY DEF Record
<1>2. /\ entries \in 0..MaxRecords /\ MaxRecords \in Nat /\ MaxLines \in Nat \ {0}
      /\ recorded \subseteq 1..entries /\ orphaned \subseteq 1..entries
      /\ kept = << >> /\ kept' = << >>
  BY <1>1, AuditAssumption DEF AuditInv, AuditTypeOK
<1>3. PICK next \in Nat : next = entries + 1 /\ next \in 1..MaxRecords /\ entries' = next
  BY <1>1, <1>2
<1>4. PICK part \in Line : /\ part = FullLine(next) /\ part.clean /\ part.ended
                           /\ part.holds = <<next>> /\ Parses(part)
  <2>1. <<next>> \in Seq(1..MaxRecords) /\ Len(<<next>>) = 1
    BY <1>3
  <2>2. /\ FullLine(next) \in Line /\ FullLine(next).clean /\ FullLine(next).ended
        /\ FullLine(next).holds = <<next>>
    BY <2>1 DEF FullLine, Line
  <2> QED
    BY <2>1, <2>2 DEF Parses
<1>5. WritesEntry(part)
  BY <1>1, <1>3, <1>4 DEF Record, WritesEntry
<1>6. /\ log' \in Seq(Line) /\ Len(log') <= MaxLines /\ archives' \in Seq(Seq(Line))
      /\ \A line \in LinesOf(log') : ToSet(line.holds) \subseteq 1..entries'
      /\ \A i \in DOMAIN log' : (i < Len(log') => log'[i].ended) /\ log'[i].ended
      /\ \E line \in LinesOf(log') :
           /\ next \in ToSet(line.holds)
           /\ line = part \/ (line.clean /\ Len(line.holds) = 2 /\ line.holds[2] = next)
  BY <1>3, <1>4, <1>5, EntryIsWritten
<1>7. /\ \A e \in recorded :
           (\E line \in LinesOf(log) \cup LinesIn(archives) \cup LinesIn(quarantined) :
              e \in ToSet(line.holds)) =>
           \E line \in LinesOf(log') \cup LinesIn(archives') \cup LinesIn(quarantined') :
             e \in ToSet(line.holds)
      /\ \A e \in recorded : Clear(e) \/ Behind(e) => Clear(e)' \/ Behind(e)'
  BY <1>1, <1>5, EntriesStay
<1>8. \A e \in 1..entries : e \in 1..next
  BY <1>2, <1>3
<1>9. AuditTypeOK'
  <2>1. entries' \in 0..MaxRecords /\ recorded' \subseteq 1..entries' /\ orphaned' \subseteq 1..entries'
    BY <1>1, <1>2, <1>3, <1>8
  <2> QED
    BY <1>1, <1>6, <2>1 DEF AuditInv, AuditTypeOK
<1>10. OpenLinesInv'
  BY <1>6 DEF OpenLinesInv
<1>11. recorded' = recorded \cup {next}
  BY <1>1, <1>3
<1>12. PICK line \in LinesOf(log') :
         /\ next \in ToSet(line.holds)
         /\ line = part \/ (line.clean /\ Len(line.holds) = 2 /\ line.holds[2] = next)
  BY <1>6
<1>13. EveryEntryIsKept'
  <2>1. \A e \in recorded :
          \E l \in LinesOf(log') \cup LinesIn(archives') \cup LinesIn(quarantined') : e \in ToSet(l.holds)
    BY <1>7 DEF AuditInv, EveryEntryIsKept
  <2> QED
    BY <1>11, <1>12, <2>1 DEF EveryEntryIsKept
<1>14. ASSUME NEW e \in recorded' \ orphaned' PROVE Clear(e)' \/ Behind(e)'
  <2>1. CASE e = next
    BY <1>4, <1>12, <2>1 DEF Clear, Behind
  <2>2. CASE e # next
    <3>1. e \in recorded \ orphaned
      BY <1>1, <1>11, <1>14, <2>2
    <3> QED
      BY <1>7, <3>1 DEF AuditInv
  <2> QED
    BY <2>1, <2>2
<1>15. LinesOf(kept') = {} /\ DOMAIN kept' = {}
  BY <1>2 DEF LinesOf
<1> QED
  BY <1>1, <1>2, <1>6, <1>9, <1>10, <1>13, <1>14, <1>15 DEF AuditInv

(* The check at start-up keeps every line that can be read.                *)
LEMMA CheckAuditKeeps == AuditInv /\ CheckAudit => AuditInv'
<1> SUFFICES ASSUME AuditInv, CheckAudit PROVE AuditInv'
  OBVIOUS
<1>1. /\ stage = "check" /\ kept = << >> /\ UNCHANGED <<archives, entries, halts, recorded, orphaned>>
      /\ log \in Seq(Line) /\ quarantined \in Seq(Seq(Line)) /\ Len(log) <= MaxLines
      /\ Len(log) \in Nat /\ MaxLines \in Nat
  BY AuditAssumption DEF CheckAudit, AuditInv, AuditTypeOK
<1>2. CASE /\ \A i \in DOMAIN log : Parses(log[i])
           /\ stage' = "serving" /\ UNCHANGED <<log, quarantined, kept>>
  <2>1. AuditTypeOK'
    BY <1>1, <1>2 DEF AuditInv, AuditTypeOK
  <2>2. OpenLinesInv'
    BY <1>1, <1>2 DEF AuditInv, OpenLinesInv
  <2>3. EveryEntryIsKept'
    BY <1>1, <1>2 DEF AuditInv, EveryEntryIsKept
  <2>4. \A e \in recorded' \ orphaned' : Clear(e)' \/ Behind(e)'
    BY <1>1, <1>2 DEF AuditInv, Clear, Behind
  <2> QED
    BY <1>1, <1>2, <2>1, <2>2, <2>3, <2>4 DEF AuditInv
<1>3. CASE /\ kept' = ValidLines(log)
           /\ quarantined' = Append(quarantined, log)
           /\ log' = << >>
           /\ stage' = "rewrite"
  <2>1. PICK new : new = kept'
    OBVIOUS
  <2>2. /\ new \in Seq(Line) /\ Len(new) <= Len(log)
        /\ \A i \in DOMAIN new : Parses(new[i]) /\ new[i] \in LinesOf(log)
        /\ \A i \in DOMAIN log : Parses(log[i]) => log[i] \in LinesOf(new)
    BY <1>1, <1>3, <2>1, ReadableKeeps
  <2>3. /\ quarantined' \in Seq(Seq(Line))
        /\ LinesIn(quarantined') = LinesIn(quarantined) \cup LinesOf(log)
    BY <1>1, <1>3, LinesOfMore
  <2>4. Len(new) <= MaxLines
    BY <1>1, <2>2
  <2>5. log' \in Seq(Line) /\ Len(log') <= MaxLines /\ DOMAIN log' = {} /\ LinesOf(log') = {}
    BY <1>1, <1>3 DEF LinesOf
  <2>6. AuditTypeOK'
    BY <1>1, <1>3, <2>1, <2>2, <2>3, <2>5 DEF AuditInv, AuditTypeOK
  <2>7. OpenLinesInv'
    BY <2>5 DEF OpenLinesInv
  <2>8. EveryEntryIsKept'
    BY <1>1, <2>3 DEF AuditInv, EveryEntryIsKept
  <2>9. LinesOf(new) \subseteq LinesOf(log)
    BY <2>2 DEF LinesOf
  <2>10. LinesOf(kept) = {}
    BY <1>1 DEF LinesOf
  <2>11. \A line \in LinesOf(log) : Parses(line) => line \in LinesOf(new)
    BY <2>2 DEF LinesOf
  <2>12. ASSUME NEW e \in recorded' \ orphaned' PROVE Clear(e)' \/ Behind(e)'
    <3>1. e \in recorded \ orphaned
      BY <1>1
    <3>2. CASE Clear(e)
      <4>1. PICK line \in LinesOf(log) \cup LinesIn(archives) : line.holds = <<e>> /\ Parses(line)
        BY <2>10, <3>2 DEF Clear
      <4>2. line \in LinesOf(kept') \cup LinesIn(archives')
        BY <1>1, <2>1, <2>11, <4>1
      <4> QED
        BY <4>1, <4>2 DEF Clear
    <3>3. CASE Behind(e)
      BY <1>1, <2>3, <3>3 DEF Behind
    <3> QED
      BY <3>1, <3>2, <3>3 DEF AuditInv
  <2>13. \A line \in LinesOf(log') \cup LinesOf(kept') : ToSet(line.holds) \subseteq 1..entries'
    BY <1>1, <2>1, <2>5, <2>9 DEF AuditInv
  <2> QED
    BY <1>3, <2>1, <2>2, <2>4, <2>6, <2>7, <2>8, <2>12, <2>13 DEF AuditInv
<1> QED
  BY <1>2, <1>3 DEF CheckAudit

(* What it kept replaces the log, and the log as it was goes to an         *)
(* archive.                                                                *)
LEMMA RewriteAuditKeeps == AuditInv /\ RewriteAudit => AuditInv'
<1> SUFFICES ASSUME AuditInv, RewriteAudit PROVE AuditInv'
  OBVIOUS
<1>1. /\ stage = "rewrite" /\ stage' = "serving" /\ kept' = << >>
      /\ log' = [i \in DOMAIN kept |-> [kept[i] EXCEPT !.ended = TRUE]]
      /\ UNCHANGED <<archives, quarantined, entries, halts, recorded, orphaned>>
  BY DEF RewriteAudit
<1>2. /\ kept \in Seq(Line) /\ Len(kept) <= MaxLines /\ log = << >>
      /\ \A i \in DOMAIN kept : Parses(kept[i])
  BY <1>1 DEF AuditInv, AuditTypeOK
<1>3. PICK len \in Nat : len = Len(kept) /\ DOMAIN kept = 1..len
  BY <1>2
<1>4. \A line \in Line : /\ [line EXCEPT !.ended = TRUE] \in Line
                         /\ [line EXCEPT !.ended = TRUE].holds = line.holds
                         /\ [line EXCEPT !.ended = TRUE].clean = line.clean
                         /\ [line EXCEPT !.ended = TRUE].ended
  BY DEF Line
<1>5. /\ log' \in Seq(Line) /\ Len(log') = len /\ DOMAIN log' = 1..len
      /\ \A i \in 1..len : log'[i].holds = kept[i].holds /\ log'[i].clean = kept[i].clean /\ log'[i].ended
  <2>1. log' = [i \in 1..len |-> [kept[i] EXCEPT !.ended = TRUE]]
    BY <1>1, <1>3
  <2>2. \A i \in 1..len : kept[i] \in Line /\ log'[i] = [kept[i] EXCEPT !.ended = TRUE]
    BY <1>2, <1>3, <2>1
  <2>3. log' \in [1..len -> Line]
    BY <1>4, <2>1, <2>2
  <2>4. log' \in Seq(Line) /\ Len(log') = len /\ DOMAIN log' = 1..len
    BY <1>3, <2>3
  <2>5. ASSUME NEW i \in 1..len
        PROVE  log'[i].holds = kept[i].holds /\ log'[i].clean = kept[i].clean /\ log'[i].ended
    <3>1. PICK line \in Line : line = kept[i] /\ log'[i] = [line EXCEPT !.ended = TRUE]
      BY <2>2
    <3> QED
      BY <1>4, <3>1
  <2> QED
    BY <2>4, <2>5
<1>6. \A line \in LinesOf(log') : \E old \in LinesOf(kept) :
        line.holds = old.holds /\ line.clean = old.clean
  BY <1>3, <1>5 DEF LinesOf
<1>7. \A old \in LinesOf(kept) : \E line \in LinesOf(log') :
        line.holds = old.holds /\ line.clean = old.clean
  BY <1>3, <1>5 DEF LinesOf
<1>8. AuditTypeOK'
  BY <1>1, <1>2, <1>3, <1>5 DEF AuditInv, AuditTypeOK
<1>9. OpenLinesInv'
  BY <1>5 DEF OpenLinesInv
<1>10. LinesOf(log) = {} /\ LinesOf(kept') = {} /\ DOMAIN kept' = {}
  BY <1>1, <1>2 DEF LinesOf
<1>11. EveryEntryIsKept'
  BY <1>1, <1>10 DEF AuditInv, EveryEntryIsKept
<1>12. \A line \in LinesOf(log') \cup LinesOf(kept') : ToSet(line.holds) \subseteq 1..entries'
  BY <1>1, <1>6, <1>10 DEF AuditInv
<1>13. ASSUME NEW e \in recorded' \ orphaned' PROVE Clear(e)' \/ Behind(e)'
  <2>1. e \in recorded \ orphaned
    BY <1>1
  <2>2. CASE Clear(e)
    <3>1. PICK old \in LinesOf(kept) \cup LinesIn(archives) : old.holds = <<e>> /\ Parses(old)
      BY <1>10, <2>2 DEF Clear
    <3>2. \E line \in LinesOf(log') \cup LinesIn(archives') : line.holds = <<e>> /\ Parses(line)
      BY <1>1, <1>7, <3>1 DEF Parses
    <3> QED
      BY <3>2 DEF Clear
  <2>3. CASE Behind(e)
    BY <1>1, <1>10, <2>3 DEF Behind
  <2> QED
    BY <2>1, <2>2, <2>3 DEF AuditInv
<1> QED
  BY <1>1, <1>8, <1>9, <1>10, <1>11, <1>12, <1>13 DEF AuditInv

(* The process dies, between two writes or within one.                     *)
LEMMA HaltKeeps == AuditInv /\ Halt => AuditInv'
<1> SUFFICES ASSUME AuditInv, Halt PROVE AuditInv'
  OBVIOUS
<1>1. /\ halts' = halts + 1 /\ halts < MaxHalts /\ stage' = "check" /\ kept' = << >>
      /\ orphaned' = orphaned \cup {kept[i].holds[1] : i \in DOMAIN kept}
      /\ UNCHANGED <<quarantined, recorded>>
  BY DEF Halt
<1>2. /\ entries \in 0..MaxRecords /\ MaxRecords \in Nat /\ MaxLines \in Nat \ {0} /\ MaxHalts \in Nat
      /\ halts \in 0..MaxHalts /\ recorded \subseteq 1..entries /\ orphaned \subseteq 1..entries
      /\ log \in Seq(Line) /\ kept \in Seq(Line) /\ archives \in Seq(Seq(Line))
  BY AuditAssumption DEF AuditInv, AuditTypeOK
<1>3. halts' \in 0..MaxHalts
  BY <1>1, <1>2
<1>4. orphaned' \subseteq 1..entries
  <2>1. ASSUME NEW i \in DOMAIN kept PROVE kept[i].holds[1] \in 1..entries
    <3>1. kept[i] \in Line /\ kept[i] \in LinesOf(kept) /\ Parses(kept[i])
      BY <1>2 DEF AuditInv, LinesOf
    <3>2. PICK holds \in Seq(1..MaxRecords) : holds = kept[i].holds
      BY <3>1 DEF Line
    <3>3. Len(holds) = 1 /\ ToSet(holds) \subseteq 1..entries
      BY <3>1, <3>2 DEF AuditInv, Parses
    <3>4. holds[1] \in ToSet(holds)
      BY <3>3 DEF ToSet
    <3> QED
      BY <3>2, <3>3, <3>4
  <2> QED
    BY <1>1, <1>2, <2>1
<1>5. LinesOf(kept') = {} /\ DOMAIN kept' = {} /\ kept' \in Seq(Line)
  BY <1>1 DEF LinesOf
<1>6. \A e : Clear(e) =>
        \/ e \in orphaned'
        \/ \E line \in LinesOf(log) \cup LinesIn(archives) : line.holds = <<e>> /\ Parses(line)
  <2> SUFFICES ASSUME NEW e, Clear(e), e \notin orphaned'
               PROVE  \E line \in LinesOf(log) \cup LinesIn(archives) : line.holds = <<e>> /\ Parses(line)
    OBVIOUS
  <2>1. ASSUME NEW i \in DOMAIN kept PROVE kept[i].holds # <<e>>
    <3>1. kept[i].holds[1] # e
      BY <1>1
    <3> QED
      BY <3>1
  <2> QED
    BY <2>1 DEF Clear, LinesOf
<1>7. CASE UNCHANGED <<log, archives, entries>>
  <2>1. AuditTypeOK'
    BY <1>1, <1>2, <1>3, <1>4, <1>5, <1>7 DEF AuditInv, AuditTypeOK
  <2>2. OpenLinesInv' /\ EveryEntryIsKept'
    BY <1>1, <1>7 DEF AuditInv, OpenLinesInv, EveryEntryIsKept
  <2>3. ASSUME NEW e \in recorded' \ orphaned' PROVE Clear(e)' \/ Behind(e)'
    <3>1. e \in recorded \ orphaned
      BY <1>1, <2>3
    <3>2. CASE Clear(e)
      BY <1>6, <1>7, <2>3, <3>2 DEF Clear
    <3>3. CASE Behind(e)
      BY <1>1, <1>7, <3>3 DEF Behind
    <3> QED
      BY <3>1, <3>2, <3>3 DEF AuditInv
  <2> QED
    BY <1>1, <1>5, <1>7, <2>1, <2>2, <2>3 DEF AuditInv
<1>8. ASSUME stage = "serving", entries < MaxRecords, entries' = entries + 1,
             NEW clean \in BOOLEAN, NEW ended \in BOOLEAN, ended => clean,
             LET part == [holds |-> <<entries + 1>>, clean |-> clean, ended |-> ended] IN
             IF Len(log) < MaxLines THEN log' = Joined(log, part) /\ UNCHANGED archives
             ELSE archives' = Append(archives, log) /\ log' \in {<<part>>, << >>}
      PROVE  AuditInv'
  <2>1. PICK next \in Nat : next = entries + 1 /\ next \in 1..MaxRecords /\ entries' = next
    BY <1>2, <1>8
  <2>2. PICK part \in Line : /\ part = [holds |-> <<next>>, clean |-> clean, ended |-> ended]
                             /\ part.holds = <<next>>
    <3>1. <<next>> \in Seq(1..MaxRecords)
      BY <2>1
    <3>2. [holds |-> <<next>>, clean |-> clean, ended |-> ended] \in Line
      BY <3>1 DEF Line
    <3> QED
      BY <3>2
  <2>3. /\ \A e \in 1..entries : e \in 1..next
        /\ IF Len(log) < MaxLines THEN log' = Joined(log, part) /\ UNCHANGED archives
           ELSE archives' = Append(archives, log) /\ log' \in {<<part>>, << >>}
    BY <1>2, <1>8, <2>1, <2>2
  <2>4. kept = << >> /\ LinesOf(kept) = {} /\ UNCHANGED kept
    BY <1>1, <1>8 DEF AuditInv, LinesOf
  <2>5. /\ log' \in Seq(Line) /\ Len(log') <= MaxLines /\ archives' \in Seq(Seq(Line))
        /\ \A line \in LinesOf(log') : ToSet(line.holds) \subseteq 1..entries'
        /\ \A i \in DOMAIN log' :
             /\ i < Len(log') => log'[i].ended
             /\ ~log'[i].ended => ToSet(log'[i].holds) \cap recorded = {}
        /\ \A e \in recorded :
             (\E line \in LinesOf(log) \cup LinesIn(archives) \cup LinesIn(quarantined) :
                e \in ToSet(line.holds)) =>
             \E line \in LinesOf(log') \cup LinesIn(archives') \cup LinesIn(quarantined') :
               e \in ToSet(line.holds)
        /\ \A e \in recorded : Clear(e) \/ Behind(e) => Clear(e)' \/ Behind(e)'
    <3>1. CASE WritesEntry(part)
      BY <1>8, <2>4, <3>1, EntryIsWritten, EntriesStay
    <3>2. CASE archives' = Append(archives, log) /\ log' = << >>
      <4>1. archives' \in Seq(Seq(Line)) /\ LinesIn(archives') = LinesIn(archives) \cup LinesOf(log)
        BY <1>2, <3>2, LinesOfMore
      <4>2. log' \in Seq(Line) /\ DOMAIN log' = {} /\ Len(log') = 0 /\ LinesOf(log') = {}
        BY <3>2 DEF LinesOf
      <4>3. Len(log') <= MaxLines
        BY <1>2, <4>2
      <4>4. \A e : Clear(e) => Clear(e)'
        BY <2>4, <4>1, <4>2 DEF Clear
      <4>5. \A e : Behind(e) => Behind(e)'
        BY <1>1, <4>1, <4>2 DEF Behind
      <4>6. \A e \in recorded :
             (\E line \in LinesOf(log) \cup LinesIn(archives) \cup LinesIn(quarantined) :
                e \in ToSet(line.holds)) =>
             \E line \in LinesOf(log') \cup LinesIn(archives') \cup LinesIn(quarantined') :
               e \in ToSet(line.holds)
        BY <1>1, <4>1, <4>2
      <4> QED
        BY <4>1, <4>2, <4>3, <4>4, <4>5, <4>6
    <3> QED
      BY <1>1, <1>8, <2>1, <2>2, <2>3, <3>1, <3>2 DEF WritesEntry
  <2>6. AuditTypeOK'
    <3>1. entries' \in 0..MaxRecords /\ recorded' \subseteq 1..entries' /\ orphaned' \subseteq 1..entries'
      BY <1>1, <1>2, <1>4, <2>1, <2>3
    <3> QED
      BY <1>1, <1>3, <1>5, <2>5, <3>1 DEF AuditInv, AuditTypeOK
  <2>7. OpenLinesInv'
    BY <1>1, <2>5 DEF OpenLinesInv
  <2>8. EveryEntryIsKept'
    BY <1>1, <2>5 DEF AuditInv, EveryEntryIsKept
  <2>9. ASSUME NEW e \in recorded' \ orphaned' PROVE Clear(e)' \/ Behind(e)'
    BY <1>1, <2>5, <2>9 DEF AuditInv
  <2> QED
    BY <1>1, <1>5, <2>5, <2>6, <2>7, <2>8, <2>9 DEF AuditInv
<1> QED
  BY <1>7, <1>8 DEF Halt

(* Every step keeps the invariant.                                         *)
LEMMA AuditInvStep == AuditInv /\ [AuditNext]_auditVars => AuditInv'
<1>1. AuditInv /\ UNCHANGED auditVars => AuditInv'
  BY DEF auditVars, AuditInv, AuditTypeOK, OpenLinesInv, EveryEntryIsKept, Clear, Behind
<1> QED
  BY <1>1, RecordKeeps, CheckAuditKeeps, RewriteAuditKeeps, HaltKeeps DEF AuditNext

(* Every entry whose writing was reported is still written in some file,   *)
(* and can be read while requests are served unless a crash took away the  *)
(* end of the line before it, or struck between the two steps of a         *)
(* recovery: for any size of the log and any number of entries and crashes.*)
THEOREM TrailStaysKept == AuditSpec => []TrailIsKept
<1>1. AuditInv => TrailIsKept
  <2> SUFFICES ASSUME AuditInv PROVE ReadableUnlessJoined
    BY DEF AuditInv, TrailIsKept
  <2> SUFFICES ASSUME stage = "serving", NEW e \in recorded \ orphaned
               PROVE  \/ \E line \in LinesOf(log) \cup LinesIn(archives) :
                           line.holds = <<e>> /\ Parses(line)
                      \/ Behind(e)
    BY DEF ReadableUnlessJoined, Behind
  <2>1. LinesOf(kept) = {}
    BY DEF AuditInv, LinesOf
  <2> QED
    BY <2>1 DEF AuditInv, Clear
<1> QED
  BY <1>1, AuditInvInit, AuditInvStep, PTL DEF AuditSpec
=============================================================================
