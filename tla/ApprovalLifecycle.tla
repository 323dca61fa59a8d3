-------------------------- MODULE ApprovalLifecycle --------------------------
(***************************************************************************)
(* What the approval queue promises its users, each decision one step:     *)
(* the statuses of ApprovalStatus with their order, a rejection, an expiry *)
(* and an outcome that are final, an action that is run at most once and   *)
(* only while its request is approved, and a binding that is never lost.   *)
(***************************************************************************)
CONSTANT Requests

VARIABLES
  state,   \* where each request is in its life
  tied,    \* requests bound to a workflow, stage or session
  done     \* requests whose action has been run

vars == <<state, tied, done>>

Init ==
  /\ state = [r \in Requests |-> "absent"]
  /\ tied = {}
  /\ done = {}

(* The decisions open at each status; terminal statuses have none.         *)
Successors ==
  [absent      |-> {"pending"},
   pending     |-> {"approved", "rejected", "expired", "recovered", "failed"},
   recovered   |-> {"reconfirmed", "rejected", "expired"},
   reconfirmed |-> {"approved", "rejected", "expired"},
   approved    |-> {"executed", "failed"},
   executed    |-> {},
   rejected    |-> {},
   expired     |-> {},
   failed      |-> {}]

(* A clock tick or a restart may move several requests at once, all to the *)
(* same status; only a request whose action was run becomes executed.      *)
Move(S, to) ==
  /\ \A r \in S : to \in Successors[state[r]] /\ (to = "executed" => r \in done)
  /\ state' = [r \in Requests |-> IF r \in S THEN to ELSE state[r]]
  /\ UNCHANGED tied

RunAction(r) ==
  /\ state[r] = "approved"
  /\ r \notin done
  /\ done' = done \cup {r}
  /\ UNCHANGED <<state, tied>>

Tie(r) ==
  /\ state[r] # "absent"
  /\ tied' = tied \cup {r}
  /\ UNCHANGED <<state, done>>

Next ==
  \/ \E S \in SUBSET Requests, to \in DOMAIN Successors :
       Move(S, to) /\ UNCHANGED done
  \/ \E r \in Requests : RunAction(r) \/ Tie(r)

Spec == Init /\ [][Next]_vars

=============================================================================
