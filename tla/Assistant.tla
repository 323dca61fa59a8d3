----------------------------- MODULE Assistant -----------------------------
(***************************************************************************)
(* The credentials and the settings of the assistant                       *)
(* (local-bridge/app/assistant).  A submitted API key is sealed with the   *)
(* key file of the machine and staged; an approved request makes the       *)
(* staged row the provider's active one and selects provider and model;    *)
(* another approved request forgets a provider.  Every request has a store *)
(* of its own, so only the commits of the database exclude each other.     *)
(***************************************************************************)
EXTENDS Naturals, FiniteSets

CONSTANTS
  Vendors,
  Asks,        \* requests; also the name of the row and of the key they bring
  MaxDeaths    \* bound: crashes of the process

ASSUME AssistantAssumption == Vendors # {} /\ MaxDeaths \in Nat

VARIABLES
  keyfile,     \* secret.key: absent, empty, or written by a request
  row,         \* provider_credentials, by the request that staged it
  pref,        \* user_preferences: selected_provider and selected_model
  run,         \* per request: what it asks and how far it is
  deaths,
  \* history variables: no guard reads them
  contested,   \* two requests found no key file
  gone,        \* keys that were active and are no longer
  carried      \* those of them a copy was under way of

assistantVars == <<keyfile, row, pref, run, deaths, contested, gone, carried>>

-----------------------------------------------------------------------------
No == "no"
(* What a request is named is none of the marks.                           *)
ASSUME AssistantNames == Asks \cap {No, "absent", "empty"} = {} /\ No \notin Vendors

NoCredential == [status |-> No, vendor |-> No, key |-> No, sealed |-> No, hint |-> No, model |-> No]
NoAsk == [at |-> No, vendor |-> No, key |-> No, sealed |-> No, hint |-> No, model |-> No, from |-> No]
Resting == {No, "waiting", "over"}

RowsOf(v, status) == {q \in Asks : row[q].vendor = v /\ row[q].status = status}
ActiveKeys(rows) == {rows[q].key : q \in {x \in Asks : rows[x].status = "active"}} \ {No}

(* build_registry opens the active key of every provider, and one that     *)
(* does not open is an error of the whole.                                 *)
RegistryOpens ==
  \A q \in Asks : row[q].status = "active" /\ row[q].key # No => row[q].sealed = keyfile

AssistantInit ==
  /\ keyfile = "absent" /\ row = [q \in Asks |-> NoCredential]
  /\ pref = [vendor |-> No, model |-> No] /\ run = [q \in Asks |-> NoAsk]
  /\ deaths = 0 /\ contested = FALSE /\ gone = {} /\ carried = {}

At(r, here) == run[r].at = here
GoTo(r, there) == run' = [run EXCEPT ![r].at = there]
Without(rows, some) == [q \in Asks |-> IF q \in some THEN NoCredential ELSE rows[q]]
InFlight == {run[q].key : q \in {x \in Asks : run[x].at = "staging"}} \ {No}
(* Bookkeeping of the history variables.                                   *)
Retire(rows, copies) ==
  LET now == ActiveKeys(row) \ ActiveKeys(rows) IN
  /\ gone' = gone \cup now
  /\ carried' = carried \cup (now \cap copies)

-----------------------------------------------------------------------------
(* POST /provider/config: a new key, the existing one, or none.            *)
Configure(r) ==
  /\ At(r, No)
  /\ \E v \in Vendors, model \in {No, "own"}, key \in {"sealing", "keeping", "staging"} :
       /\ model = No \/ RegistryOpens
       /\ run' = [run EXCEPT ![r] =
            [NoAsk EXCEPT !.at = key, !.vendor = v, !.model = IF model = No THEN No ELSE v]]
  /\ UNCHANGED <<keyfile, row, pref, deaths, contested, gone, carried>>

(* Slip: a key file that is not there is not looked for again.             *)
FindKeyFileNever(r) ==
  /\ At(r, "sealing") /\ run' = [run EXCEPT ![r].at = "creating"]
  /\ contested' = (contested \/ \E q \in Asks : run[q].at \in {"creating", "writing"})
  /\ UNCHANGED <<keyfile, row, pref, deaths, gone, carried>>

(* SecretBox._load_key.                                                    *)
FindKeyFile(r) ==
  /\ At(r, "sealing")
  /\ CASE keyfile = "absent" -> run' = [run EXCEPT ![r].at = "creating"]
       [] keyfile = "empty" -> run' = [run EXCEPT ![r].at = "over"]
       [] OTHER -> run' = [run EXCEPT ![r] = [@ EXCEPT !.at = "staging", !.key = r, !.hint = r,
                                                       !.sealed = keyfile]]
  /\ contested' = (contested \/ (keyfile \in {"absent", "empty"}
                                 /\ \E q \in Asks : run[q].at \in {"creating", "writing"}))
  /\ UNCHANGED <<keyfile, row, pref, deaths, gone, carried>>

OpenKeyFile(r) ==
  /\ At(r, "creating") /\ GoTo(r, "writing") /\ keyfile' = "empty"
  /\ UNCHANGED <<row, pref, deaths, contested, gone, carried>>

WriteKeyFile(r) ==
  /\ At(r, "writing") /\ keyfile' = r
  /\ run' = [run EXCEPT ![r] = [@ EXCEPT !.at = "staging", !.key = r, !.hint = r, !.sealed = r]]
  /\ UNCHANGED <<row, pref, deaths, contested, gone, carried>>

(* Slip: only a new key comes with a hint.                                 *)
ReadHintNot(r) ==
  /\ At(r, "keeping")
  /\ LET current == RowsOf(run[r].vendor, "active") IN
     \/ current = {} /\ GoTo(r, "staging")
     \/ \E q \in current : run' = [run EXCEPT ![r] = [@ EXCEPT !.at = "copying", !.from = q]]
  /\ UNCHANGED <<keyfile, row, pref, deaths, contested, gone, carried>>

(* keep_existing_key: the hint of the active row, then its envelope.       *)
ReadHint(r) ==
  /\ At(r, "keeping")
  /\ LET current == RowsOf(run[r].vendor, "active") IN
     \/ current = {} /\ GoTo(r, "staging")
     \/ \E q \in current :
          run' = [run EXCEPT ![r] = [@ EXCEPT !.at = "copying", !.hint = row[q].hint, !.from = q]]
  /\ UNCHANGED <<keyfile, row, pref, deaths, contested, gone, carried>>

ReadEnvelope(r) ==
  /\ At(r, "copying")
  /\ LET q == run[r].from IN
     run' = [run EXCEPT ![r] = [@ EXCEPT !.at = "staging", !.key = row[q].key, !.sealed = row[q].sealed]]
  /\ UNCHANGED <<keyfile, row, pref, deaths, contested, gone, carried>>

(* Slip: what is staged already stays.                                     *)
StageBeside(r) ==
  /\ At(r, "staging") /\ GoTo(r, "staged")
  /\ LET q == run[r] IN row' = [row EXCEPT ![r] =
       [status |-> "staged", vendor |-> q.vendor, key |-> q.key, sealed |-> q.sealed,
        hint |-> q.hint, model |-> q.model]]
  /\ UNCHANGED <<keyfile, pref, deaths, contested, gone, carried>>

(* Slip: a new configuration takes the place of the active one at once.    *)
StageOver(r) ==
  /\ At(r, "staging") /\ GoTo(r, "staged")
  /\ LET q == run[r] IN
     row' = [Without(row, RowsOf(q.vendor, "staged") \cup RowsOf(q.vendor, "active")) EXCEPT ![r] =
       [status |-> "staged", vendor |-> q.vendor, key |-> q.key, sealed |-> q.sealed,
        hint |-> q.hint, model |-> q.model]]
  /\ UNCHANGED <<keyfile, pref, deaths, contested, gone, carried>>

(* stage_credential: one commit discards the older staged row and inserts. *)
Stage(r) ==
  /\ At(r, "staging") /\ GoTo(r, "staged")
  /\ LET q == run[r] IN
     row' = [Without(row, RowsOf(q.vendor, "staged")) EXCEPT ![r] =
       [status |-> "staged", vendor |-> q.vendor, key |-> q.key, sealed |-> q.sealed,
        hint |-> q.hint, model |-> q.model]]
  /\ UNCHANGED <<keyfile, pref, deaths, contested, gone, carried>>

(* The row is read back for the request that a human sees.                 *)
AskApproval(r) ==
  /\ At(r, "staged") /\ GoTo(r, IF row[r] = NoCredential THEN "over" ELSE "waiting")
  /\ UNCHANGED <<keyfile, row, pref, deaths, contested, gone, carried>>

Decline(r) ==
  /\ At(r, "waiting") /\ GoTo(r, "over")
  /\ UNCHANGED <<keyfile, row, pref, deaths, contested, gone, carried>>

(* activate_credential reads the row, and only then takes the lock.        *)
Accept(r) ==
  /\ At(r, "waiting") /\ GoTo(r, IF row[r].status = "staged" THEN "promoting" ELSE "over")
  /\ UNCHANGED <<keyfile, row, pref, deaths, contested, gone, carried>>

(* The lock's part: the other active rows go, this one becomes active,     *)
(* if it is still there; it is read back.                                  *)
Promote(r) ==
  /\ At(r, "promoting")
  /\ LET rest == Without(row, RowsOf(run[r].vendor, "active") \ {r}) IN
     row' = IF row[r] = NoCredential THEN rest ELSE [rest EXCEPT ![r].status = "active"]
  /\ Retire(row', InFlight \cup {row[q].key : q \in RowsOf(run[r].vendor, "staged")})
  /\ GoTo(r, IF row[r] = NoCredential THEN "over" ELSE "choosing")
  /\ UNCHANGED <<keyfile, pref, deaths, contested>>

(* POST /user/settings, approved: nothing relates provider and model.      *)
UpdateSettings(r) ==
  /\ At(r, No)
  /\ \E v \in Vendors \cup {No}, model \in Vendors \cup {No} :
       /\ <<v, model>> # <<No, No>>
       /\ run' = [run EXCEPT ![r] =
            [NoAsk EXCEPT !.at = "choosing", !.vendor = v, !.model = model]]
  /\ UNCHANGED <<keyfile, row, pref, deaths, contested, gone, carried>>

(* set_preference, a commit each; an empty value is not stored.            *)
ChooseProvider(r) ==
  /\ At(r, "choosing") /\ GoTo(r, IF run[r].model = No THEN "over" ELSE "naming")
  /\ pref' = IF run[r].vendor = No THEN pref ELSE [pref EXCEPT !.vendor = run[r].vendor]
  /\ UNCHANGED <<keyfile, row, deaths, contested, gone, carried>>

ChooseModel(r) ==
  /\ At(r, "naming") /\ GoTo(r, "over") /\ pref' = [pref EXCEPT !.model = run[r].model]
  /\ UNCHANGED <<keyfile, row, deaths, contested, gone, carried>>

(* Slip: only the active row is deleted.                                   *)
ForgetActive(r) ==
  /\ At(r, No) /\ GoTo(r, "over")
  /\ \E v \in Vendors :
       /\ row' = Without(row, RowsOf(v, "active"))
       /\ Retire(row', InFlight)
  /\ UNCHANGED <<keyfile, pref, deaths, contested>>

(* POST /provider/forget, approved: every row of the provider is deleted.  *)
Forget(r) ==
  /\ At(r, No) /\ GoTo(r, "over")
  /\ \E v \in Vendors :
       /\ row' = Without(row, RowsOf(v, "active") \cup RowsOf(v, "staged"))
       /\ Retire(row', InFlight)
  /\ UNCHANGED <<keyfile, pref, deaths, contested>>

(* The process dies; what waits for a human is kept on disk.               *)
Die ==
  /\ deaths < MaxDeaths /\ deaths' = deaths + 1
  /\ run' = [q \in Asks |-> IF run[q].at \in Resting THEN run[q] ELSE [run[q] EXCEPT !.at = "over"]]
  /\ UNCHANGED <<keyfile, row, pref, contested, gone, carried>>

AssistantNext ==
  \/ Die
  \/ \E r \in Asks :
       \/ Configure(r) \/ FindKeyFile(r) \/ OpenKeyFile(r) \/ WriteKeyFile(r)
       \/ ReadHint(r) \/ ReadEnvelope(r) \/ Stage(r) \/ AskApproval(r)
       \/ Decline(r) \/ Accept(r) \/ Promote(r)
       \/ UpdateSettings(r) \/ ChooseProvider(r) \/ ChooseModel(r) \/ Forget(r)

AssistantSpec == AssistantInit /\ [][AssistantNext]_assistantVars

-----------------------------------------------------------------------------
(* Properties.                                                             *)

(* Every stored key opens with the key file of the machine, whatever dies  *)
(* half-way: one that did not would fail every chat and the settings page  *)
(* of all providers.  Only two first keys at the same moment can do that.  *)
KeyOpens == \A q \in Asks : row[q].key # No /\ ~contested => row[q].sealed = keyfile

(* A provider has one credential in use and one that waits at most, also   *)
(* when requests overtake each other.                                      *)
OneOfEach ==
  \A v \in Vendors, status \in {"staged", "active"} : Cardinality(RowsOf(v, status)) <= 1

(* "DELETE every stored credential; the encrypted key is destroyed": a key *)
(* that was replaced or forgotten is never in use again, but for a copy    *)
(* that "keep the existing key" was making at that moment.                 *)
KeyStaysGone == ActiveKeys(row) \cap gone \subseteq carried

(* What the human saw when approving is what is in use: the hint is that   *)
(* of the key.  A hint without its key tells of a key that is gone.        *)
HintTellsKey ==
  \A q \in Asks :
    /\ row[q].key # No => row[q].hint = row[q].key
    /\ row[q].status = "active" /\ row[q].hint # row[q].key => row[q].hint \in gone

(* A provider that has a credential in use keeps one until it is           *)
(* forgotten, or until a configuration that was overtaken by a newer one   *)
(* is activated.                                                           *)
ActiveSurvives ==
  [][\A v \in Vendors :
       /\ RowsOf(v, "active") # {}
       /\ \A q \in Asks : row'[q].vendor = v => row'[q].status # "active"
       => \E r \in Asks :
            /\ run'[r].at = "over" /\ run[r].at \in {No, "promoting"}
            /\ run[r].at = "promoting" => run[r].vendor = v /\ row[r] = NoCredential]_assistantVars

(* What is stored of a provider opens, is one of each, is what the human   *)
(* saw, is gone when it was to go and stays as long as it was not.         *)
CredentialsAreSound ==
  /\ [](KeyOpens /\ OneOfEach /\ KeyStaysGone /\ HintTellsKey)
  /\ ActiveSurvives
=============================================================================
