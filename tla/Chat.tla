-------------------------------- MODULE Chat --------------------------------
(***************************************************************************)
(* One chat request on its way through the LLM gateway                     *)
(* (local-bridge/app/llm_gateway: routes, gateway, registry and the        *)
(* adapters of providers/) and through the assistant in front of it        *)
(* (assistant/routes.py, service.py).  A stream is a chain of generators   *)
(* that only run when an event is pulled; the vendor's side sends what it  *)
(* likes, stops early or breaks the connection.                            *)
(***************************************************************************)
EXTENDS Naturals, Sequences, FiniteSets, SequencesExt

CONSTANT MaxParts    \* bound: parts of an answer

ASSUME ChatAssumption == MaxParts \in Nat

VARIABLES
  ask,      \* the request
  going,    \* asked, first (the event pulled by the route), pulling, ended
  sent,     \* what the vendor sent so far
  client    \* what the caller received so far

chatVars == <<ask, going, sent, client>>

-----------------------------------------------------------------------------
Faces == {"llm", "assistant"}
Adapters == {"local", "openai", "anthropic", "deepseek"}
Endings == {"refused", "reply", "done", "error", "broken"}

(* An answer consists of texts, texts with an "@tool(...)" directive, and  *)
(* tool calls as the vendor's protocol has them.                           *)
Parts == {"text", "directive", "call"}
Count(parts, kinds) == Cardinality({i \in DOMAIN parts : parts[i] \in kinds})

(* The simulator announces the directives of the user's own message; the   *)
(* vendors' adapters know the protocol's calls, but for deepseek.          *)
KnowsCalls == {"local", "openai", "anthropic"}

(* Provider.chat: without a call of the protocol the text is searched.     *)
ChatCalls(adapter, parts) ==
  IF adapter \in KnowsCalls /\ Count(parts, {"call"}) > 0 THEN Count(parts, {"call"})
  ELSE Count(parts, {"directive"})

(* Slip: a chunk that holds a directive is taken for a call only.          *)
EventOfDirective(adapter, part) ==
  IF part = "text" THEN <<"delta">>
  ELSE IF part = "directive" \/ adapter \in KnowsCalls THEN <<"tool_call">> ELSE << >>

(* Provider.stream: the events of a chunk.                                 *)
EventOf(adapter, part) ==
  IF part # "call" THEN <<"delta">>
  ELSE IF adapter \in KnowsCalls THEN <<"tool_call">> ELSE << >>

(* registry.resolve and provider.enabled: a model the provider lists, and  *)
(* a key for it.                                                           *)
Resolves == ask.known /\ ask.ready
Vendor == ask.adapter # "local"

ChatInit ==
  /\ ask \in [face : Faces, way : {"chat", "stream"}, adapter : Adapters,
              known : BOOLEAN, ready : BOOLEAN]
  /\ ask.adapter = "local" => ask.ready
  /\ going = "asked" /\ sent = << >> /\ client = << >>

-----------------------------------------------------------------------------
(* POST /llm/chat and /assistant/chat: one answer, or an error status.     *)
Answer ==
  /\ going = "asked" /\ ask.way = "chat" /\ going' = "ended" /\ UNCHANGED ask
  /\ \/ Resolves /\ \E n \in 0..MaxParts : \E parts \in [1..n -> Parts] :
          /\ sent' = parts
          /\ client' = [i \in 1..ChatCalls(ask.adapter, parts) |-> "tool_call"] \o <<"reply">>
     \/ (~Resolves \/ Vendor) /\ client' = <<"refused">> /\ UNCHANGED sent

(* Slip: the response begins before anything is known.                     *)
BeginBlind ==
  /\ going = "asked" /\ ask.way = "stream" /\ client' = <<"200">> /\ going' = "pulling"
  /\ UNCHANGED <<ask, sent>>

(* The assistant pulls one event first; the gateway's own route answers    *)
(* 200 at once.                                                            *)
Begin ==
  /\ going = "asked" /\ ask.way = "stream" /\ UNCHANGED <<ask, sent>>
  /\ IF ask.face = "assistant" THEN going' = "first" /\ UNCHANGED client
     ELSE going' = "pulling" /\ client' = <<"200">>

(* The first event opens the assistant's response.                         *)
Opening == IF going = "first" THEN <<"200">> ELSE << >>

(* The vendor sends a part; one that the adapter makes nothing of leaves   *)
(* the generator pulling.                                                  *)
PullPart ==
  /\ going \in {"first", "pulling"} /\ Resolves /\ Len(sent) < MaxParts /\ UNCHANGED ask
  /\ \E part \in Parts :
       LET events == EventOf(ask.adapter, part) IN
       /\ sent' = Append(sent, part)
       /\ client' = IF events = << >> THEN client ELSE client \o Opening \o events
       /\ going' = IF events = << >> THEN going ELSE "pulling"

(* The end mark, or a connection that just ends: both are "done".          *)
PullEnd ==
  /\ going \in {"first", "pulling"} /\ Resolves
  /\ client' = client \o Opening \o <<"done">> /\ going' = "ended"
  /\ UNCHANGED <<ask, sent>>

(* Slip: an exception within the stream just ends it.                      *)
PullFailsSilent ==
  /\ going \in {"first", "pulling"} /\ (~Resolves \/ Vendor) /\ going' = "ended"
  /\ client' = Append(client, IF going = "first" THEN "refused" ELSE "broken")
  /\ UNCHANGED <<ask, sent>>

(* The request does not resolve, the vendor answers with an error status,  *)
(* falls silent for the length of the timeout or drops the connection.     *)
PullFails ==
  /\ going \in {"first", "pulling"} /\ (~Resolves \/ Vendor) /\ going' = "ended"
  /\ client' = Append(client, IF going = "first" THEN "refused"
                              ELSE IF ask.face = "assistant" THEN "error" ELSE "broken")
  /\ UNCHANGED <<ask, sent>>

ChatNext == Answer \/ Begin \/ PullPart \/ PullEnd \/ PullFails

(* The server runs the generators on, and the vendor's client has a        *)
(* timeout: a pull ends.                                                   *)
ChatSpec == ChatInit /\ [][ChatNext]_chatVars /\ WF_chatVars(ChatNext)

-----------------------------------------------------------------------------
(* Properties.                                                             *)

(* "The panel never stays in streaming": every request to the assistant    *)
(* comes to an end the caller can tell, a status, "done" or "error".       *)
AssistantEnds ==
  [](ask.face = "assistant" => <>(client # << >> /\ Last(client) \in Endings \ {"broken"}))

(* What fails before the first event is a status, never a response that    *)
(* begins with 200 and has nothing but an error in it.                     *)
FailsBeforeItBegins ==
  ask.face = "assistant" /\ Len(client) > 1 => client[2] # "error"

(* A stream carries every text the vendor sent before it ended, once, and  *)
(* of the gateway's own simulator every tool call that the answer in one   *)
(* piece would have.                                                       *)
StreamIsWhole ==
  ask.way = "stream" =>
    /\ Count(client, {"delta"}) = Count(sent, {"text", "directive"})
    /\ ask.adapter = "local" => Count(client, {"tool_call"}) = Count(sent, {"call"})

(* A caller is told the truth of what was answered: the status before the  *)
(* stream, and all of it in the stream.                                    *)
StreamsAreHonest == FailsBeforeItBegins /\ StreamIsWhole
=============================================================================
