----------------------------- MODULE LLMGateway -----------------------------
(***************************************************************************)
(* CCSwitchProvider of src/src/llm_agent.py: create_response with its      *)
(* bounded retries, the retry without the reasoning parameter, the fall    *)
(* back from the Responses API to Chat Completions, and the conversations  *)
(* it remembers so that a tool continuation can go on in the other API.    *)
(*                                                                         *)
(* An exchange is a request with its answer.  A conversation is the        *)
(* exchanges of one agent; its exchange n is answered with the id <<c, n>>, *)
(* or without an id.  Responses keeps the context of an id at the gateway; *)
(* Chat is sent every message again.                                       *)
(***************************************************************************)
EXTENDS Naturals

CONSTANTS
  MaxRetries,         \* retry_delays has as many entries
  MaxConversations,   \* bound on conversations
  MaxExchanges        \* bound on exchanges of a conversation

ASSUME GatewayAssumption ==
  /\ MaxRetries \in Nat
  /\ MaxConversations \in Nat \ {0} /\ MaxExchanges \in Nat \ {0}

\* overloaded: 502, 503, 504.  busy: 429, 500 or a time-out.  noRoute: 403,
\* 404, 405, 415, 422 or a message that says so.  noReasoning: a 400 about the
\* reasoning parameter; badReasoning: the same with 404, 405 or 422.
Errors       == {"overloaded", "busy", "noRoute", "noReasoning", "badReasoning", "refused"}
Transient    == {"overloaded", "busy"}
ForChat      == {"overloaded", "noRoute", "badReasoning"}
ForReasoning == {"noReasoning", "badReasoning"}

Conversations == 1..MaxConversations
Ids       == Conversations \X (1..MaxExchanges)
Exchanges == Ids

VARIABLES
  protocol,       \* of the provider
  tried,          \* _protocol_fallback_attempted
  fallbacks,      \* events API_PROTOCOL_FALLBACK
  ofResponses,    \* _response_conversations
  ofChat,         \* _chat_conversations
  atGateway,      \* the contexts the Responses API keeps, by id
  conversation, exchange,   \* the exchange under way, or the one before the next
  previous,       \* previous_response_id: the exchange it is of, 0 for None
  begun,          \* first exchange since an answer without an id (history)
  request         \* the request under way

gatewayVars == <<protocol, tried, fallbacks, ofResponses, ofChat, atGateway, conversation, exchange,
                 previous, begun, request>>
memory == <<ofResponses, ofChat, atGateway>>
thread == <<conversation, exchange, previous, begun>>

\* says: the exchanges a Chat request holds, or those behind the id that a
\* Responses request names.  calls: of this create_response.
NoRequest == [pc |-> "none", api |-> "none", retries |-> 0, reasoning |-> FALSE, says |-> {}, calls |-> 0]

GatewayInit ==
  /\ protocol = "RESPONSES" /\ tried = FALSE /\ fallbacks = 0
  /\ ofResponses = [i \in Ids |-> {}]
  /\ ofChat = [i \in Ids |-> {}]
  /\ atGateway = [i \in Ids |-> {}]
  /\ conversation = 1 /\ exchange = 0 /\ previous = 0 /\ begun = 1
  /\ request = NoRequest

-----------------------------------------------------------------------------
(* The conversation of a request.                                           *)

Known(memoryOf, i) == IF i \in Ids THEN memoryOf[i] ELSE {}

OnlyOfChat(i) == Known(ofChat, i)   \* what the other API answered is forgotten

\* _chat_messages looks the previous id up in both memories, Chat's first.
Messages(i) == IF Known(ofChat, i) # {} THEN ofChat[i] ELSE Known(ofResponses, i)

Current  == <<conversation, exchange>>

\* The exchanges of the conversation up to the one under way, as far as ids
\* connect them.
Whole == {<<conversation, n>> : n \in begun..exchange}

\* What a request for exchange n of c says that names the answer to p.
Says(api, c, p, n) ==
  {<<c, n>>} \cup (IF api = "CHAT" THEN Messages(<<c, p>>) ELSE Known(atGateway, <<c, p>>))

\* _remember_response_context: Chat's messages as they were sent; for
\* Responses the context of the previous id and the new input.
RemembersResponse(c, p, n) == {<<c, n>>} \cup Known(ofResponses, <<c, p>>)

-----------------------------------------------------------------------------
(* The agents.                                                              *)

Create(c, p, n) ==
  LET api == IF protocol = "RESPONSES" THEN "RESPONSES" ELSE "CHAT"
  IN  /\ conversation' = c /\ exchange' = n /\ previous' = p
      /\ request' = [pc |-> "calling", api |-> api, retries |-> 0, reasoning |-> TRUE,
                     says |-> Says(api, c, p, n), calls |-> 1]
      /\ UNCHANGED <<protocol, tried, fallbacks, memory>>

\* Luna, or a stage of Sol, which begins anew.
StartConversation ==
  /\ request.pc = "none"
  /\ \/ exchange = 0 /\ Create(conversation, 0, 1)
     \/ exchange > 0 /\ conversation < MaxConversations /\ Create(conversation + 1, 0, 1)
  /\ begun' = 1

\* Sol hands the results of its tool calls back, with the id of the answer
\* that called them.
Continue ==
  /\ request.pc = "answered" /\ exchange < MaxExchanges
  /\ Create(conversation, previous, exchange + 1)
  /\ UNCHANGED begun

\* The answer calls no tool.
EndConversation ==
  /\ request.pc \in {"answered", "failed"}
  /\ request' = NoRequest
  /\ UNCHANGED <<protocol, tried, fallbacks, memory, thread>>

-----------------------------------------------------------------------------
(* create_response.                                                         *)

Calling == request.pc = "calling" /\ UNCHANGED <<conversation, exchange>>

Ends(pc) == request' = [NoRequest EXCEPT !.pc = pc]

AnswerResponses ==
  /\ Calling /\ request.api = "RESPONSES"
  /\ ofResponses' = [ofResponses EXCEPT ![Current] = RemembersResponse(conversation, previous, exchange)]
  /\ atGateway' = [atGateway EXCEPT ![Current] = request.says]
  /\ previous' = exchange
  /\ Ends("answered")
  /\ UNCHANGED <<protocol, tried, fallbacks, ofChat, begun>>

AnswerChat ==
  /\ Calling /\ request.api = "CHAT"
  /\ ofChat' = [ofChat EXCEPT ![Current] = request.says]
  /\ previous' = exchange
  /\ Ends("answered")
  /\ UNCHANGED <<protocol, tried, fallbacks, ofResponses, atGateway, begun>>

\* An answer without an id is not remembered, and the next request names none:
\* it says only what its own input says.
AnswerUnnamed ==
  /\ Calling
  /\ previous' = 0 /\ begun' = exchange + 1
  /\ Ends("answered")
  /\ UNCHANGED <<protocol, tried, fallbacks, memory>>

Again(retries, reasoning) ==
  /\ request' = [request EXCEPT !.retries = retries, !.reasoning = reasoning, !.calls = @ + 1]
  /\ UNCHANGED <<protocol, tried, fallbacks, memory, previous, begun>>

\* _call_with_retries.
Retries(error) == error \in Transient /\ request.retries < MaxRetries

Retry(error) ==
  /\ Calling /\ Retries(error)
  /\ Again(request.retries + 1, request.reasoning)

Final(error) == ~ Retries(error)

DropsAgain(error) == error \in ForReasoning   \* whether it was sent or not

Drops(error) == error \in ForReasoning /\ request.reasoning

DropReasoning(error) ==
  /\ Calling /\ Drops(error)
  /\ Again(0, FALSE)

FallsBackToChat(error) == request.api = "RESPONSES" /\ error \in ForChat /\ ~ tried

\* Only this request goes to Chat.
StaysWithResponses == tried' = TRUE /\ UNCHANGED protocol

\* The provider stays with Chat: every later request goes there.
SwitchesProtocol == tried' = TRUE /\ protocol' = "CHAT_COMPLETIONS"

FallBack(error) ==
  /\ Calling /\ Final(error) /\ ~ Drops(error) /\ FallsBackToChat(error)
  /\ SwitchesProtocol
  /\ fallbacks' = fallbacks + 1
  /\ request' = [request EXCEPT !.api = "CHAT", !.retries = 0, !.reasoning = TRUE, !.calls = @ + 1,
                                !.says = Says("CHAT", conversation, previous, exchange)]
  /\ UNCHANGED <<memory, previous, begun>>

Raise(error) ==
  /\ Calling /\ Final(error) /\ ~ Drops(error) /\ ~ FallsBackToChat(error)
  /\ Ends("failed")
  /\ UNCHANGED <<protocol, tried, fallbacks, memory, previous, begun>>

\* There is no Chat client, or it returned something that is no completion.
NoChat ==
  /\ Calling
  /\ Ends("failed")
  /\ UNCHANGED <<protocol, tried, fallbacks, memory, previous, begun>>

CreateResponse ==
  \/ AnswerResponses \/ AnswerChat \/ AnswerUnnamed \/ NoChat
  \/ \E error \in Errors : Retry(error) \/ DropReasoning(error) \/ FallBack(error) \/ Raise(error)

GatewayNext == StartConversation \/ Continue \/ EndConversation \/ CreateResponse

GatewaySpec == GatewayInit /\ [][GatewayNext]_gatewayVars

-----------------------------------------------------------------------------
(* Properties.                                                              *)

\* The provider, its memories and the request have their types.
GatewayTypeOK ==
  /\ protocol \in {"RESPONSES", "CHAT_COMPLETIONS"} /\ tried \in BOOLEAN /\ fallbacks \in Nat
  /\ ofResponses \in [Ids -> SUBSET Exchanges]
  /\ ofChat \in [Ids -> SUBSET Exchanges]
  /\ atGateway \in [Ids -> SUBSET Exchanges]
  /\ conversation \in Conversations /\ exchange \in 0..MaxExchanges
  /\ previous \in 0..MaxExchanges /\ begun \in 1..(MaxExchanges + 1)
  /\ request \in [pc : {"none", "calling", "answered", "failed"}, api : {"none", "RESPONSES", "CHAT"},
                  retries : 0..MaxRetries, reasoning : BOOLEAN, says : SUBSET Exchanges, calls : Nat]

\* The model has the whole conversation before it, and nothing of another one,
\* as long as the answers carry ids: also when the gateway falls back to Chat in
\* the middle of Sol's tool rounds, whose earlier answers came from the other
\* API.  After an answer without an id it is shown what followed, no more and
\* no less.
WholeConversation == request.pc = "calling" => request.says = Whole

\* The provider falls back at most once in its life, and stays with Chat.
FallsBackOnce ==
  /\ fallbacks <= 1
  /\ fallbacks = 1 => protocol = "CHAT_COMPLETIONS"

\* src/README.md:124 "bounded retries": whatever the gateway answers in
\* whatever order, a request costs at most four rounds of retries.
CallsBounded == request.calls <= 4 * (MaxRetries + 1)

=============================================================================
