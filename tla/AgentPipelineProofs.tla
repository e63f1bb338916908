------------------------ MODULE AgentPipelineProofs ------------------------
(* The pipeline for any universe, any sizes of the batches, and any number *)
(* of runs, and the gateway its research calls, for any number of retries, *)
(* conversations and exchanges.                                            *)
EXTENDS LLMGateway, AgentPipeline, SequenceTheorems, NaturalsInduction, WellFoundedInduction, TLAPS

-----------------------------------------------------------------------------
(* The gateway.                                                             *)

\* The conversation of an id from exchange b on: what the request behind the id
\* must have said.
Since(b, i) == {<<i[1], m>> : m \in b..i[2]}

\* The exchanges of the conversation under way that have been answered, from the
\* one on that ids connect.
Answered(i) ==
  /\ i[1] = conversation /\ begun <= i[2]
  /\ i[2] < exchange \/ (i[2] = exchange /\ request.pc = "answered")

\* The provider's own state.
FallbackInv ==
  /\ protocol \in {"RESPONSES", "CHAT_COMPLETIONS"} /\ tried \in BOOLEAN
  /\ fallbacks \in {0, 1}
  /\ fallbacks = 1 => tried
  /\ tried => protocol = "CHAT_COMPLETIONS"

Requests ==
  [pc : {"none", "calling", "answered", "failed"}, api : {"none", "RESPONSES", "CHAT"},
   retries : 0..MaxRetries, reasoning : BOOLEAN, says : SUBSET Exchanges, calls : Nat]

\* The exchange under way, and the request that is made for it.
RequestInv ==
  /\ conversation \in Conversations /\ exchange \in 0..MaxExchanges
  /\ request \in Requests
  /\ request.pc # "none" => exchange >= 1
  /\ request.pc = "calling" => /\ request.api \in {"RESPONSES", "CHAT"}
                               /\ request.api = "RESPONSES" => protocol = "RESPONSES"
                               /\ protocol = "RESPONSES" => request.api = "RESPONSES"

\* The id a request names is that of the exchange before it, unless the ids
\* begin with the request itself.
ContextInv ==
  /\ previous \in 0..MaxExchanges /\ begun \in 1..(MaxExchanges + 1)
  /\ request.pc = "calling" => /\ begun <= exchange
                               /\ previous = IF begun = exchange THEN 0 ELSE exchange - 1
  /\ request.pc = "answered" => /\ begun <= exchange + 1
                                /\ previous = IF begun = exchange + 1 THEN 0 ELSE exchange

\* Chat remembers nothing before the fall back; from then on what it remembers of
\* an answer is the whole conversation.  What was answered is remembered, and
\* before the fall back by Responses itself.
MemoryInv ==
  /\ ofResponses \in [Ids -> SUBSET Exchanges]
  /\ ofChat \in [Ids -> SUBSET Exchanges]
  /\ atGateway \in [Ids -> SUBSET Exchanges]
  /\ \A i \in Ids : Answered(i) =>
       \/ ofChat[i] = Since(begun, i)
       \/ ofChat[i] = {} /\ ofResponses[i] = Since(begun, i)
  /\ protocol = "RESPONSES" =>
       /\ \A i \in Ids : ofChat[i] = {}
       /\ \A i \in Ids : Answered(i) => /\ atGateway[i] = Since(begun, i)
                                        /\ ofResponses[i] = Since(begun, i)

\* The calls a request may have used in the rounds of retries behind it: two
\* rounds before the fall back, one before the reasoning parameter was dropped.
Behind == (IF request.api = "CHAT" THEN 2 * (MaxRetries + 1) ELSE 0)
          + (IF request.reasoning THEN 0 ELSE MaxRetries + 1)

\* The calls of a request are those of its rounds.
CallsInv ==
  request.calls <= Behind + request.retries + 1

GatewayInv == FallbackInv /\ RequestInv /\ ContextInv /\ MemoryInv /\ WholeConversation /\ CallsInv

-----------------------------------------------------------------------------
(* Conversations.                                                           *)

LEMMA WholeIsSince == Whole = Since(begun, Current)
BY DEF Whole, Since, Current

LEMMA SinceGrows ==
  ASSUME NEW c \in Nat, NEW n \in Nat \ {0}, NEW b \in 1..n
  PROVE  Since(b, <<c, n>>) = {<<c, n>>} \cup Since(b, <<c, n - 1>>)
<1>1. b..n = {n} \cup b..(n - 1)
  OBVIOUS
<1>2. /\ Since(b, <<c, n>>) = {<<c, m>> : m \in b..n}
      /\ Since(b, <<c, n - 1>>) = {<<c, m>> : m \in b..(n - 1)}
  BY DEF Since
<1> QED BY <1>1, <1>2

LEMMA SinceItself ==
  ASSUME NEW c \in Nat, NEW n \in Nat \ {0}
  PROVE  Since(n, <<c, n>>) = {<<c, n>>}
<1>1. n..n = {n}
  OBVIOUS
<1> QED BY <1>1 DEF Since

\* A request for exchange n that names the answer before it holds the
\* conversation up to n; one that names none holds itself.
LEMMA SaysSince ==
  ASSUME MemoryInv,
         NEW c \in Conversations, NEW n \in 1..MaxExchanges, NEW b \in 1..n,
         NEW p, p = IF b = n THEN 0 ELSE n - 1,
         b # n => b = begun /\ Answered(<<c, n - 1>>),
         NEW api, api # "CHAT" => protocol = "RESPONSES"
  PROVE  Says(api, c, p, n) = Since(b, <<c, n>>)
<1> DEFINE before == <<c, p>>
<1>1. c \in Nat /\ n \in Nat \ {0} /\ (b # n => before \in Ids) /\ (b = n => before \notin Ids)
  BY GatewayAssumption DEF Conversations, Ids
<1>3. CASE b = n
  <2>1. Since(b, <<c, n>>) = {<<c, n>>}
    BY <1>1, <1>3, SinceItself
  <2>2. Known(atGateway, before) = {} /\ Messages(before) = {}
    BY <1>1, <1>3 DEF Known, Messages
  <2> QED BY <2>1, <2>2 DEF Says
<1>4. CASE b # n
  <2>0. before = <<c, n - 1>>
    BY <1>4
  <2>1. before \in Ids /\ Answered(before) /\ b = begun
    BY <1>1, <1>4, <2>0
  <2>2. Since(b, <<c, n>>) = {<<c, n>>} \cup Since(b, before)
    BY <1>1, <2>0, SinceGrows
  <2>3. CASE api = "CHAT"
    <3>0. <<c, n - 1>> \in Since(b, before)
      BY <1>1, <1>4, <2>0 DEF Since
    <3>1. Messages(before) = Since(b, before)
      BY <2>1, <3>0 DEF MemoryInv, Messages, Known
    <3> QED BY <2>2, <2>3, <3>1 DEF Says
  <2>4. CASE api # "CHAT"
    <3>1. Known(atGateway, before) = Since(b, before)
      BY <2>1, <2>4 DEF MemoryInv, Known
    <3> QED BY <2>2, <2>4, <3>1 DEF Says
  <2> QED BY <2>3, <2>4
<1> QED BY <1>1, <1>3, <1>4
-----------------------------------------------------------------------------
(* The steps.                                                               *)

\* Between two requests there is none, or the outcome of the last.
LEMMA NoRequestHere ==
  /\ NoRequest \in Requests
  /\ \A pc \in {"none", "answered", "failed"} :
       /\ [NoRequest EXCEPT !.pc = pc] \in Requests
       /\ [NoRequest EXCEPT !.pc = pc].pc = pc
<1>1. 0 \in 0..MaxRetries
  BY GatewayAssumption
<1>2. NoRequest \in Requests
  BY <1>1 DEF NoRequest, Requests
<1> QED BY <1>2 DEF Requests

LEMMA GatewayStarts == GatewayInit => GatewayInv
<1> SUFFICES ASSUME GatewayInit PROVE GatewayInv
  OBVIOUS
<1>0. FallbackInv
  <2>1. protocol = "RESPONSES" /\ ~ tried /\ tried \in BOOLEAN
    BY DEF GatewayInit
  <2>2. fallbacks = 0
    BY DEF GatewayInit
  <2>3. fallbacks \in {0, 1} /\ fallbacks # 1
    BY <2>2
  <2> QED BY <2>1, <2>3 DEF FallbackInv
<1>1. RequestInv
  <2>1. conversation \in Conversations /\ exchange \in 0..MaxExchanges
    BY GatewayAssumption DEF GatewayInit, Conversations
  <2>2. request \in Requests
    BY NoRequestHere DEF GatewayInit
  <2>3. request.pc = "none"
    BY DEF GatewayInit, NoRequest
  <2> QED BY <2>1, <2>2, <2>3 DEF RequestInv
<1>4. WholeConversation
  BY DEF GatewayInit, WholeConversation, NoRequest
<1>2. MemoryInv
  <2>1. \A i \in Ids : ~ Answered(i)
    BY GatewayAssumption DEF GatewayInit, Answered, Ids, NoRequest
  <2> QED BY <2>1 DEF GatewayInit, MemoryInv
<1>3. CallsInv
  BY GatewayAssumption DEF GatewayInit, CallsInv, Behind, NoRequest
<1>5. ContextInv
  BY GatewayAssumption DEF GatewayInit, ContextInv, NoRequest
<1> QED BY <1>0, <1>1, <1>2, <1>3, <1>4, <1>5 DEF GatewayInv

\* A new request: for the first exchange of a conversation, or after an answer.
LEMMA CreateStep ==
  ASSUME GatewayInv, NEW c \in Conversations, NEW n \in 1..MaxExchanges, NEW p,
         Create(c, p, n),
         \/ n = 1 /\ p = 0 /\ begun' = 1
         \/ /\ c = conversation /\ n = exchange + 1 /\ request.pc = "answered"
            /\ p = previous /\ begun' = begun
  PROVE  GatewayInv'
<1> DEFINE api == IF protocol = "RESPONSES" THEN "RESPONSES" ELSE "CHAT"
<1>1. /\ conversation' = c /\ exchange' = n /\ previous' = p
      /\ request' = [pc |-> "calling", api |-> api, retries |-> 0, reasoning |-> TRUE,
                     says |-> Says(api, c, p, n), calls |-> 1]
      /\ UNCHANGED <<protocol, tried, fallbacks, ofResponses, ofChat, atGateway>>
  BY DEF Create, memory
<1>7. /\ n \in Nat \ {0} /\ c \in Nat /\ MaxExchanges \in Nat
      /\ exchange \in Nat /\ begun \in Nat
  BY GatewayAssumption DEF Conversations, GatewayInv, RequestInv, ContextInv
<1>8. /\ begun' \in 1..n /\ p = IF begun' = n THEN 0 ELSE n - 1
      /\ begun' # n => begun' = begun /\ Answered(<<c, n - 1>>)
  BY <1>7 DEF Answered, GatewayInv, ContextInv
<1>0. Says(api, c, p, n) = Since(begun', <<c, n>>)
  BY <1>8, SaysSince DEF GatewayInv
<1>2. FallbackInv'
  BY <1>1 DEF GatewayInv, FallbackInv
<1>3. RequestInv'
  <2>2. Since(begun', <<c, n>>) \subseteq Exchanges
    BY <1>7, <1>8 DEF Since, Exchanges, Ids, Conversations
  <2>3. request' \in Requests
    BY <1>0, <1>1, <2>2, GatewayAssumption DEF Requests
  <2> QED BY <1>1, <2>3, GatewayAssumption DEF RequestInv
<1>9. ContextInv'
  BY <1>1, <1>7, <1>8 DEF ContextInv
<1>4. MemoryInv'
  <2>1. \A i \in Ids : Answered(i)' => Answered(i) /\ begun' = begun
    <3> SUFFICES ASSUME NEW i \in Ids, Answered(i)' PROVE Answered(i) /\ begun' = begun
      OBVIOUS
    <3>1. i[1] = c /\ i[2] < n /\ begun' <= i[2]
      BY <1>1 DEF Answered
    <3>2. i[2] \in Nat \ {0}
      BY GatewayAssumption DEF Ids
    <3>3. n # 1
      BY <3>1, <3>2
    <3>4. c = conversation /\ n = exchange + 1 /\ request.pc = "answered" /\ begun' = begun
      BY <3>3
    <3> QED BY <1>7, <3>1, <3>2, <3>4 DEF Answered
  <2> QED BY <1>1, <2>1 DEF GatewayInv, MemoryInv
<1>5. WholeConversation'
  <2>1. Whole' = Since(begun', <<c, n>>)
    BY <1>1 DEF Whole, Since
  <2> QED BY <1>0, <1>1, <2>1 DEF WholeConversation
<1>6. CallsInv'
  BY <1>1, GatewayAssumption DEF CallsInv, Behind
<1> QED BY <1>2, <1>3, <1>4, <1>5, <1>6, <1>9 DEF GatewayInv

\* The end of a request that leaves no answer.
LEMMA EndStep ==
  ASSUME GatewayInv, NEW pc \in {"none", "failed"},
         request' = [NoRequest EXCEPT !.pc = pc],
         pc = "failed" => request.pc = "calling",
         UNCHANGED <<protocol, tried, fallbacks, memory, thread>>
  PROVE  GatewayInv'
<1>1. FallbackInv' /\ WholeConversation'
  BY DEF GatewayInv, FallbackInv, WholeConversation, NoRequest
<1>4. RequestInv'
  <2>1. request' \in Requests /\ request'.pc = pc
    BY NoRequestHere
  <2> QED BY <2>1 DEF GatewayInv, RequestInv, thread
<1>5. ContextInv'
  BY DEF GatewayInv, ContextInv, NoRequest, thread
<1>2. MemoryInv'
  <2>1. \A i \in Ids : Answered(i)' => Answered(i)
    BY DEF Answered, NoRequest, thread
  <2> QED BY <2>1 DEF GatewayInv, MemoryInv, memory, thread
<1>3. CallsInv'
  BY GatewayAssumption DEF CallsInv, Behind, NoRequest
<1> QED BY <1>1, <1>2, <1>3, <1>4, <1>5 DEF GatewayInv

\* The same request is sent once more.
LEMMA AgainStep ==
  ASSUME GatewayInv, Calling, NEW retries \in 0..MaxRetries, NEW reasoning \in BOOLEAN,
         Again(retries, reasoning),
         \/ retries = request.retries + 1 /\ reasoning = request.reasoning
         \/ request.reasoning /\ ~ reasoning
  PROVE  GatewayInv'
<1>1. /\ request' = [request EXCEPT !.retries = retries, !.reasoning = reasoning, !.calls = @ + 1]
      /\ UNCHANGED <<protocol, tried, fallbacks, ofResponses, ofChat, atGateway, conversation, exchange,
                     previous, begun>>
  BY DEF Again, Calling, memory
<1>0. request \in Requests
  BY DEF GatewayInv, RequestInv
<1>6. request' \in Requests
  <2>1. request.calls + 1 \in Nat
    BY <1>0 DEF Requests
  <2>2. request' = [pc |-> request.pc, api |-> request.api, retries |-> retries,
                    reasoning |-> reasoning, says |-> request.says, calls |-> request.calls + 1]
    BY <1>0, <1>1 DEF Requests
  <2> QED BY <1>0, <2>1, <2>2 DEF Requests
<1>2. FallbackInv' /\ RequestInv'
  BY <1>0, <1>1, <1>6 DEF GatewayInv, FallbackInv, RequestInv, Requests
<1>3. WholeConversation'
  BY <1>0, <1>1 DEF Requests,  GatewayInv, WholeConversation, Whole
<1>4. MemoryInv'
  <2>1. \A i \in Ids : Answered(i)' => Answered(i)
    BY <1>1 DEF Answered
  <2> QED BY <1>1, <2>1 DEF GatewayInv, MemoryInv
<1>5. CallsInv'
  BY <1>0, <1>1, GatewayAssumption DEF GatewayInv, CallsInv, Behind, Requests
<1>7. ContextInv'
  BY <1>0, <1>1 DEF GatewayInv, ContextInv, Requests
<1> QED BY <1>2, <1>3, <1>4, <1>5, <1>7 DEF GatewayInv

\* What an answer leaves of the request: its exchange is answered.
LEMMA AnswerKeeps ==
  ASSUME GatewayInv, request.pc = "calling",
         request' = [NoRequest EXCEPT !.pc = "answered"],
         \/ previous' = exchange /\ begun' = begun
         \/ previous' = 0 /\ begun' = exchange + 1,
         UNCHANGED <<protocol, tried, fallbacks, conversation, exchange>>
  PROVE  /\ FallbackInv' /\ WholeConversation' /\ RequestInv' /\ ContextInv' /\ CallsInv'
         /\ Current \in Ids /\ conversation \in Nat /\ exchange \in Nat \ {0}
         /\ request.says = Since(begun, Current) /\ Since(begun, Current) \subseteq Exchanges
<1>1. FallbackInv' /\ WholeConversation'
  BY DEF GatewayInv, FallbackInv, WholeConversation, NoRequest
<1>2. RequestInv'
  <2>1. request' \in Requests /\ request'.pc = "answered"
    BY NoRequestHere
  <2> QED BY <2>1 DEF GatewayInv, RequestInv
<1>3. Current \in Ids /\ conversation \in Nat /\ exchange \in Nat \ {0} /\ exchange <= MaxExchanges
  BY GatewayAssumption DEF GatewayInv, RequestInv, Current, Ids, Conversations
<1>4. ContextInv'
  <2>1. request'.pc = "answered"
    BY DEF NoRequest
  <2> QED BY <1>3, <2>1, GatewayAssumption DEF GatewayInv, ContextInv
<1>5. CallsInv'
  BY GatewayAssumption DEF CallsInv, Behind, NoRequest
<1>6. request.says = Since(begun, Current)
  BY WholeIsSince DEF GatewayInv, WholeConversation
<1>7. Since(begun, Current) \subseteq Exchanges
  BY <1>3, GatewayAssumption DEF Since, Current, Exchanges, Ids, GatewayInv, ContextInv
<1> QED BY <1>1, <1>2, <1>3, <1>4, <1>5, <1>6, <1>7

\* With an id, the exchange is the only one that is answered now.
LEMMA AnsweredNow ==
  ASSUME GatewayInv, request.pc = "calling", UNCHANGED <<conversation, exchange, begun>>
  PROVE  \A i \in Ids : Answered(i)' => i = Current \/ Answered(i)
<1>1. exchange \in Nat /\ conversation \in Nat
  BY GatewayAssumption DEF GatewayInv, RequestInv, Conversations
<1> SUFFICES ASSUME NEW i \in Ids, Answered(i)' PROVE i = Current \/ Answered(i)
  OBVIOUS
<1>2. i = <<i[1], i[2]>>
  BY DEF Ids
<1> QED BY <1>1, <1>2 DEF Answered, Current

LEMMA AnswerResponsesStep == GatewayInv /\ AnswerResponses => GatewayInv'
<1> SUFFICES ASSUME GatewayInv, AnswerResponses PROVE GatewayInv'
  OBVIOUS
<1>1. /\ request.pc = "calling" /\ request.api = "RESPONSES" /\ protocol = "RESPONSES"
      /\ ofResponses' = [ofResponses EXCEPT ![Current] = RemembersResponse(conversation, previous, exchange)]
      /\ atGateway' = [atGateway EXCEPT ![Current] = request.says]
      /\ request' = [NoRequest EXCEPT !.pc = "answered"] /\ previous' = exchange
      /\ UNCHANGED <<protocol, tried, fallbacks, ofChat, conversation, exchange, begun>>
  BY DEF GatewayInv, RequestInv, AnswerResponses, Calling, Ends
<1>2. /\ FallbackInv' /\ WholeConversation' /\ RequestInv' /\ ContextInv' /\ CallsInv'
      /\ Current \in Ids /\ conversation \in Nat /\ exchange \in Nat \ {0}
      /\ request.says = Since(begun, Current) /\ Since(begun, Current) \subseteq Exchanges
  BY <1>1, AnswerKeeps
<1>4. MemoryInv'
  <2>0. begun \in 1..exchange /\ previous = IF begun = exchange THEN 0 ELSE exchange - 1
    BY <1>1, <1>2 DEF GatewayInv, ContextInv
  <2>2. RemembersResponse(conversation, previous, exchange) = Since(begun, Current)
    <3>2. CASE begun = exchange
      <4>1. <<conversation, 0>> \notin Ids
        BY GatewayAssumption DEF Ids
      <4>2. Since(begun, Current) = {Current}
        BY <1>2, <3>2, SinceItself DEF Current
      <4> QED BY <2>0, <3>2, <4>1, <4>2 DEF RemembersResponse, Known, Current
    <3>3. CASE begun # exchange
      <4> DEFINE before == <<conversation, exchange - 1>>
      <4>1. before \in Ids /\ Answered(before)
        <5>1. exchange - 1 \in 1..MaxExchanges /\ exchange - 1 < exchange /\ begun <= exchange - 1
          BY <1>2, <2>0, <3>3, GatewayAssumption DEF Current, Ids
        <5>2. conversation \in Conversations
          BY DEF GatewayInv, RequestInv
        <5> QED BY <5>1, <5>2 DEF Ids, Answered
      <4>2. ofResponses[before] = Since(begun, before)
        BY <1>1, <4>1 DEF GatewayInv, MemoryInv
      <4>3. Since(begun, Current) = {Current} \cup Since(begun, before)
        BY <1>2, <2>0, SinceGrows DEF Current
      <4> QED BY <2>0, <3>3, <4>1, <4>2, <4>3 DEF RemembersResponse, Known, Current
    <3> QED BY <3>2, <3>3
  <2>5. \A i \in Ids : Answered(i)' => i = Current \/ Answered(i)
    BY <1>1, AnsweredNow
  <2>6. /\ ofResponses' \in [Ids -> SUBSET Exchanges]
        /\ atGateway' \in [Ids -> SUBSET Exchanges]
    BY <1>1, <1>2, <2>2 DEF GatewayInv, MemoryInv
  <2>7. /\ ofResponses'[Current] = Since(begun, Current) /\ atGateway'[Current] = Since(begun, Current)
        /\ \A i \in Ids \ {Current} : ofResponses'[i] = ofResponses[i] /\ atGateway'[i] = atGateway[i]
    BY <1>1, <1>2, <2>2 DEF GatewayInv, MemoryInv
  <2>8. \A i \in Ids : Answered(i)' => atGateway'[i] = Since(begun, i) /\ ofResponses'[i] = Since(begun, i)
    BY <1>1, <2>5, <2>7 DEF GatewayInv, MemoryInv
  <2> QED BY <1>1, <2>6, <2>8 DEF GatewayInv, MemoryInv
<1> QED BY <1>2, <1>4 DEF GatewayInv

LEMMA AnswerChatStep == GatewayInv /\ AnswerChat => GatewayInv'
<1> SUFFICES ASSUME GatewayInv, AnswerChat PROVE GatewayInv'
  OBVIOUS
<1>1. /\ request.pc = "calling" /\ request.api = "CHAT" /\ protocol # "RESPONSES"
      /\ ofChat' = [ofChat EXCEPT ![Current] = request.says]
      /\ request' = [NoRequest EXCEPT !.pc = "answered"] /\ previous' = exchange
      /\ UNCHANGED <<protocol, tried, fallbacks, ofResponses, atGateway, conversation, exchange, begun>>
  BY DEF GatewayInv, RequestInv, AnswerChat, Calling, Ends
<1>2. /\ FallbackInv' /\ WholeConversation' /\ RequestInv' /\ ContextInv' /\ CallsInv'
      /\ Current \in Ids
      /\ request.says = Since(begun, Current) /\ Since(begun, Current) \subseteq Exchanges
  BY <1>1, AnswerKeeps
<1>4. MemoryInv'
  <2>4. \A i \in Ids : Answered(i)' => i = Current \/ Answered(i)
    BY <1>1, AnsweredNow
  <2>5. /\ ofChat' \in [Ids -> SUBSET Exchanges]
        /\ ofChat'[Current] = Since(begun, Current)
        /\ \A i \in Ids \ {Current} : ofChat'[i] = ofChat[i]
    BY <1>1, <1>2 DEF GatewayInv, MemoryInv
  <2>7. \A i \in Ids : Answered(i)' =>
          \/ ofChat'[i] = Since(begun, i)
          \/ ofChat'[i] = {} /\ ofResponses[i] = Since(begun, i)
    BY <2>4, <2>5 DEF GatewayInv, MemoryInv
  <2> QED BY <1>1, <2>5, <2>7 DEF GatewayInv, MemoryInv
<1> QED BY <1>2, <1>4 DEF GatewayInv

LEMMA AnswerUnnamedStep == GatewayInv /\ AnswerUnnamed => GatewayInv'
<1> SUFFICES ASSUME GatewayInv, AnswerUnnamed PROVE GatewayInv'
  OBVIOUS
<1>1. /\ request.pc = "calling"
      /\ request' = [NoRequest EXCEPT !.pc = "answered"] /\ previous' = 0 /\ begun' = exchange + 1
      /\ UNCHANGED <<protocol, tried, fallbacks, ofResponses, ofChat, atGateway, conversation, exchange>>
  BY DEF AnswerUnnamed, Calling, Ends, memory
<1>2. /\ FallbackInv' /\ WholeConversation' /\ RequestInv' /\ ContextInv' /\ CallsInv'
      /\ exchange \in Nat \ {0}
  BY <1>1, AnswerKeeps
<1>3. MemoryInv'
  <2>1. \A i \in Ids : ~ Answered(i)'
    BY <1>1, <1>2, GatewayAssumption DEF Answered, Ids
  <2> QED BY <1>1, <2>1 DEF GatewayInv, MemoryInv
<1> QED BY <1>2, <1>3 DEF GatewayInv

LEMMA FallBackStep ==
  ASSUME NEW error \in Errors, GatewayInv, FallBack(error)
  PROVE  GatewayInv'
<1>1. /\ request.pc = "calling" /\ request.api = "RESPONSES" /\ protocol = "RESPONSES" /\ ~ tried
      /\ tried' = TRUE /\ protocol' = "CHAT_COMPLETIONS"
      /\ fallbacks' = fallbacks + 1
      /\ request' = [request EXCEPT !.api = "CHAT", !.retries = 0, !.reasoning = TRUE,
                                    !.calls = @ + 1,
                                    !.says = Says("CHAT", conversation, previous, exchange)]
      /\ UNCHANGED <<ofResponses, ofChat, atGateway, conversation, exchange, previous, begun>>
  BY DEF GatewayInv, RequestInv, FallBack, SwitchesProtocol, FallsBackToChat, Calling, memory
<1>2. conversation \in Conversations /\ exchange \in 1..MaxExchanges /\ request \in Requests
  BY <1>1, GatewayAssumption DEF GatewayInv, RequestInv
<1>3. Says("CHAT", conversation, previous, exchange) = Since(begun, Current)
  <2>1. begun \in 1..exchange /\ previous = IF begun = exchange THEN 0 ELSE exchange - 1
    BY <1>1, <1>2, GatewayAssumption DEF GatewayInv, ContextInv
  <2>2. begun # exchange => Answered(<<conversation, exchange - 1>>)
    BY <1>2, <2>1, GatewayAssumption DEF Answered
  <2>3. Says("CHAT", conversation, previous, exchange) = Since(begun, <<conversation, exchange>>)
    BY <1>2, <2>1, <2>2, SaysSince DEF GatewayInv
  <2> QED BY <2>3 DEF Current
<1>4. request' = [pc |-> "calling", api |-> "CHAT", retries |-> 0, reasoning |-> TRUE,
                  says |-> Since(begun, Current), calls |-> request.calls + 1]
  BY <1>1, <1>2, <1>3 DEF Requests
<1>5. FallbackInv'
  <2>1. fallbacks = 0
    BY <1>1 DEF GatewayInv, FallbackInv
  <2>2. fallbacks' = 1 /\ fallbacks' \in {0, 1}
    BY <1>1, <2>1
  <2>3. tried' /\ tried' \in BOOLEAN
    BY <1>1
  <2> QED BY <1>1, <2>2, <2>3 DEF FallbackInv
<1>6. RequestInv'
  <2>1. Since(begun, Current) \subseteq Exchanges
    BY <1>2, GatewayAssumption DEF Since, Current, Exchanges, Ids, GatewayInv, ContextInv
  <2>2. request.calls + 1 \in Nat
    BY <1>2 DEF Requests
  <2>3. request' \in Requests
    BY <1>4, <2>1, <2>2, GatewayAssumption DEF Requests
  <2> QED BY <1>1, <1>2, <1>4, <2>3 DEF GatewayInv, RequestInv
<1>7. MemoryInv'
  <2>1. \A i \in Ids : Answered(i)' => Answered(i)
    BY <1>1, <1>4 DEF Answered
  <2> QED BY <1>1, <2>1 DEF GatewayInv, MemoryInv
<1>8. WholeConversation'
  <2>1. Whole' = Since(begun, Current)
    BY <1>1, WholeIsSince DEF Whole
  <2> QED BY <1>4, <2>1 DEF WholeConversation
<1>9. CallsInv'
  <2>1. request.calls \in Nat /\ request.retries \in 0..MaxRetries /\ MaxRetries \in Nat
    BY <1>2, GatewayAssumption DEF Requests
  <2>2. request.calls <= MaxRetries + 1 + request.retries + 1
    BY <1>1, <2>1 DEF GatewayInv, CallsInv, Behind
  <2>3. Behind' = 2 * (MaxRetries + 1)
    BY <1>4, <2>1 DEF Behind
  <2> QED BY <1>4, <2>1, <2>2, <2>3 DEF CallsInv
<1>10. ContextInv'
  BY <1>1, <1>4 DEF GatewayInv, ContextInv
<1> QED BY <1>5, <1>6, <1>7, <1>8, <1>9, <1>10 DEF GatewayInv

LEMMA GatewayStep == GatewayInv /\ [GatewayNext]_gatewayVars => GatewayInv'
<1> SUFFICES ASSUME GatewayInv, [GatewayNext]_gatewayVars PROVE GatewayInv'
  OBVIOUS
<1>0. request \in Requests /\ conversation \in Conversations /\ exchange \in 0..MaxExchanges
  BY DEF GatewayInv, RequestInv
<1>1. CASE StartConversation
  <2>1. 1 \in 1..MaxExchanges
    BY GatewayAssumption
  <2>2. CASE exchange = 0 /\ Create(conversation, 0, 1)
    BY <1>0, <1>1, <2>1, <2>2, CreateStep DEF StartConversation
  <2>3. CASE exchange > 0 /\ conversation < MaxConversations /\ Create(conversation + 1, 0, 1)
    <3>1. conversation + 1 \in Conversations
      BY <1>0, <2>3, GatewayAssumption DEF Conversations
    <3> QED BY <1>1, <2>1, <2>3, <3>1, CreateStep DEF StartConversation
  <2> QED BY <1>1, <2>2, <2>3 DEF StartConversation
<1>2. CASE Continue
  <2>1. exchange + 1 \in 1..MaxExchanges
    BY <1>0, <1>2, GatewayAssumption DEF Continue
  <2> QED BY <1>0, <1>2, <2>1, CreateStep DEF Continue
<1>3. CASE EndConversation
  <2>1. NoRequest = [NoRequest EXCEPT !.pc = "none"]
    BY DEF NoRequest
  <2> QED BY <1>3, <2>1, EndStep DEF EndConversation
<1>4. CASE AnswerResponses
  BY <1>4, AnswerResponsesStep
<1>5. CASE AnswerChat
  BY <1>5, AnswerChatStep
<1>12. CASE AnswerUnnamed
  BY <1>12, AnswerUnnamedStep
<1>6. CASE NoChat
  BY <1>6, EndStep DEF NoChat, Calling, Ends, thread
<1>7. ASSUME NEW error \in Errors, Retry(error) PROVE GatewayInv'
  <2>1. request.retries + 1 \in 0..MaxRetries /\ request.reasoning \in BOOLEAN
    BY <1>0, <1>7, GatewayAssumption DEF Requests, Retry, Retries
  <2> QED BY <1>7, <2>1, AgainStep DEF Retry
<1>8. ASSUME NEW error \in Errors, DropReasoning(error) PROVE GatewayInv'
  <2>1. 0 \in 0..MaxRetries
    BY GatewayAssumption
  <2>2. Calling /\ request.reasoning /\ Again(0, FALSE)
    BY <1>8 DEF DropReasoning, Drops
  <2> QED BY <2>1, <2>2, AgainStep
<1>9. ASSUME NEW error \in Errors, FallBack(error) PROVE GatewayInv'
  BY <1>9, FallBackStep
<1>10. ASSUME NEW error \in Errors, Raise(error) PROVE GatewayInv'
  BY <1>10, EndStep DEF Raise, Calling, Ends, thread
<1>11. CASE UNCHANGED gatewayVars
  <2>1. UNCHANGED <<protocol, tried, fallbacks, ofResponses, ofChat, atGateway, conversation,
                    exchange, previous, begun, request>>
    BY <1>11 DEF gatewayVars
  <2>2. \A i \in Ids : Answered(i)' <=> Answered(i)
    BY <2>1 DEF Answered
  <2>3. FallbackInv' /\ RequestInv' /\ ContextInv' /\ WholeConversation' /\ CallsInv'
    BY <2>1 DEF GatewayInv, FallbackInv, RequestInv, ContextInv, WholeConversation, Whole, CallsInv, Behind
  <2>4. MemoryInv'
    BY <2>1, <2>2 DEF GatewayInv, MemoryInv
  <2> QED BY <2>3, <2>4 DEF GatewayInv
<1> QED
  BY <1>1, <1>2, <1>3, <1>4, <1>5, <1>6, <1>7, <1>8, <1>9, <1>10, <1>11, <1>12 DEF GatewayNext, CreateResponse

-----------------------------------------------------------------------------
(* The results.                                                             *)

LEMMA GatewayInvariant == GatewaySpec => []GatewayInv
<1> QED BY GatewayStarts, GatewayStep, PTL DEF GatewaySpec

\* The provider, its memories and the request keep their types, whatever the
\* gateway answers (CCSwitchProvider).
THEOREM GatewayTypeCorrect == GatewaySpec => []GatewayTypeOK
<1>1. GatewayInv => GatewayTypeOK
  BY DEF GatewayInv, FallbackInv, RequestInv, ContextInv, MemoryInv, Requests, GatewayTypeOK
<1> QED BY <1>1, GatewayInvariant, PTL

\* Every request, to either API, shows the model the conversation since the last
\* answer without an id, the whole one if there was none, and nothing of another
\* (_chat_messages, _remember_response_context).
THEOREM ConversationsWhole == GatewaySpec => []WholeConversation
<1>1. GatewayInv => WholeConversation
  BY DEF GatewayInv
<1> QED BY <1>1, GatewayInvariant, PTL

\* The provider falls back at most once in its life (create_response).
THEOREM OneFallback == GatewaySpec => []FallsBackOnce
<1>1. GatewayInv => FallsBackOnce
  BY DEF GatewayInv, FallbackInv, FallsBackOnce
<1> QED BY <1>1, GatewayInvariant, PTL

\* A request costs at most four rounds of retries, whatever the errors and
\* their order (_call_with_retries, create_response).
THEOREM RetriesBounded == GatewaySpec => []CallsBounded
<1>1. ASSUME GatewayInv PROVE CallsBounded
  <2>1. /\ request.calls \in Nat /\ request.retries \in 0..MaxRetries /\ MaxRetries \in Nat
        /\ request.calls <= Behind + request.retries + 1
    BY <1>1, GatewayAssumption DEF GatewayInv, RequestInv, Requests, CallsInv
  <2>2. Behind <= 3 * (MaxRetries + 1) /\ Behind \in Nat
    BY <2>1 DEF Behind
  <2> QED BY <2>1, <2>2 DEF CallsBounded
<1> QED BY <1>1, GatewayInvariant, PTL

-----------------------------------------------------------------------------
(* The pipeline.                                                            *)

USE ScreeningAssumption, PipelineAssumption

-----------------------------------------------------------------------------
(* A screening that left a gap, and the decision.                           *)

RunRecords ==
  [finals : SUBSET Named, researched : BOOLEAN, results : [Symbols -> 0..2],
   failed : BOOLEAN, decided : BOOLEAN, solError : BOOLEAN,
   screened : {"none", "complete", "incomplete", "failed"}, ranked : BOOLEAN, source : 0..MaxRuns]

\* Places of a run that may still decide, and of one that is past it.
Deciding == {"candidates", "tools", "ranking", "dives", "committee"}
Past     == {"decided", "solFailed"}

\* A run with a gap has not decided and is no longer on its way to a decision.
GapInv ==
  /\ run \in 0..MaxRuns /\ runs \in [1..MaxRuns -> RunRecords]
  /\ \A r \in 1..MaxRuns : runs[r].screened = "incomplete" => ~ runs[r].decided
  /\ \A r \in 1..MaxRuns : r > run => runs[r].screened = "none" /\ ~ runs[r].decided
  /\ at = "screening" => run # 0 /\ ~ runs[run].decided
  /\ at \in Deciding => run # 0 /\ runs[run].screened # "incomplete"
  /\ at \in Past => run # 0

\* What Luna returns she was sent: no name from outside gets by.
FinalInv == SetOf(final) \subseteq Named

LEMMA PicksNamed ==
  ASSUME NEW sent, NEW limit \in Nat, NEW p \in Picks(sent, limit)
  PROVE  SetOf(p) \subseteq Named
<1>1. PICK n \in 1..Smaller(limit, LunaMax) : p \in [1..n -> Named]
  BY DEF Picks, AnyPicks
<1> QED BY <1>1 DEF SetOf

LEMMA FinalSteps == FinalInv /\ [Next]_vars => FinalInv'
<1> SUFFICES ASSUME FinalInv, [Next]_vars PROVE FinalInv'
  OBVIOUS
<1>1. CASE UNCHANGED final
  BY <1>1 DEF FinalInv, SetOf
<1>2. CASE LunaOver
  BY <1>2 DEF FinalInv, LunaOver, SetOf
<1>3. CASE GlobalCompletes
  BY <1>3, PicksNamed DEF FinalInv, GlobalCompletes
<1>4. CASE WholeCompletes
  BY <1>4, PicksNamed DEF FinalInv, WholeCompletes
<1>5. CASE Screen
  BY <1>1, <1>3, <1>4, <1>5 DEF Screen, LunaNext, StartBatches, BatchCompletes, BatchSplits,
     BatchFails, MergeEnds, PartitionCompletes, PartitionsEnd, FinalFails, StartWhole
<1>6. CASE Start \/ StartFails \/ Resume \/ UNCHANGED vars
  BY <1>1, <1>6 DEF Start, StartFails, Resume, vars, luna
<1>7. CASE Research \/ ToolRound \/ ToolsDecide \/ RankingCompletes \/ DiveCompletes
           \/ CommitteeDecides \/ SolFails \/ FailureRecorded \/ ProbeFails \/ RunEnds
  BY <1>1, <1>7 DEF Research, ToolRound, ToolsDecide, RankingCompletes, DiveCompletes,
     CommitteeDecides, SolFails, FailureRecorded, ProbeFails, RunEnds, luna
<1>8. CASE ScreeningCompletes \/ ScreeningFallsBack \/ ScreeningFailsRun \/ Crash
  BY <1>2, <1>8 DEF ScreeningCompletes, ScreeningFallsBack, ScreeningFailsRun, Crash
<1> QED BY <1>5, <1>6, <1>7, <1>8 DEF Next

\* What a step may do to the record of the run under way without opening a gap.
LEMMA RecordKeepsGap ==
  ASSUME GapInv, NEW q, run # 0, runs' = [runs EXCEPT ![run] = q], run' = run,
         q \in RunRecords, q.screened = "incomplete" => ~ q.decided,
         at' # "screening", at' \in Deciding => q.screened # "incomplete"
  PROVE  GapInv'
<1>1. run \in 1..MaxRuns
  BY DEF GapInv
<1>2. DOMAIN runs' = 1..MaxRuns /\ runs'[run] = q /\ \A r \in 1..MaxRuns : r # run => runs'[r] = runs[r]
  BY <1>1 DEF GapInv
<1> QED BY <1>1, <1>2 DEF GapInv

\* The record under way.
LEMMA RecordHere == GapInv /\ run # 0 => run \in 1..MaxRuns /\ runs[run] \in RunRecords
BY DEF GapInv

LEMMA BumpKeeps ==
  ASSUME NEW q, q \in RunRecords, NEW S
  PROVE  Bump(q, S) \in RunRecords /\ Bump(q, S).screened = q.screened /\ Bump(q, S).decided = q.decided
<1> DEFINE f == [s \in Symbols |-> IF s \in S THEN Smaller(q.results[s] + 1, 2) ELSE q.results[s]]
<1>1. q.results \in [Symbols -> 0..2]
  BY DEF RunRecords
<1>2. f \in [Symbols -> 0..2]
  BY <1>1 DEF Smaller
<1>3. Bump(q, S) = [q EXCEPT !.results = f]
  BY DEF Bump
<1> HIDE DEF f
<1> QED BY <1>2, <1>3 DEF RunRecords

LEMMA ScreeningGap ==
  ASSUME GapInv, FinalInv, ScreeningCompletes \/ ScreeningFallsBack \/ ScreeningFailsRun
  PROVE  GapInv'
<1>1. run # 0 /\ ~ runs[run].decided /\ run' = run
  BY DEF ScreeningCompletes, ScreeningFallsBack, ScreeningFailsRun, GapInv
<1>2. run \in 1..MaxRuns /\ runs[run] \in RunRecords /\ runs \in [1..MaxRuns -> RunRecords]
  BY <1>1, RecordHere DEF GapInv
<1>3. CASE ScreeningCompletes
  <2> DEFINE f == IF rows < BatchSize THEN {} ELSE SetOf(final)
             q == [runs[run] EXCEPT !.screened = "complete", !.finals = f]
  <2>1. runs' = [runs EXCEPT ![run].screened = "complete", ![run].finals = f] /\ at' = "candidates"
    BY <1>3 DEF ScreeningCompletes
  <2>0. f \subseteq Named
    BY DEF FinalInv
  <2> HIDE DEF f
  <2>2. runs' = [runs EXCEPT ![run] = q]
    BY <1>2, <2>1 DEF RunRecords
  <2>3. q \in RunRecords /\ q.screened = "complete"
    BY <1>2, <2>0 DEF RunRecords
  <2> QED BY <1>1, <2>1, <2>2, <2>3, RecordKeepsGap
<1>4. CASE ScreeningFallsBack
  <2> DEFINE q == [runs[run] EXCEPT !.screened = stage]
  <2>1. /\ runs' = [runs EXCEPT ![run].screened = stage] /\ at' = "candidates"
        /\ stage = "failed"
    BY <1>4 DEF ScreeningFallsBack, FallsBack
  <2>2. runs' = [runs EXCEPT ![run] = q]
    BY <1>2, <2>1 DEF RunRecords
  <2>3. q \in RunRecords /\ q.screened = stage
    BY <1>2, <2>1 DEF RunRecords
  <2> QED BY <1>1, <2>1, <2>2, <2>3, RecordKeepsGap
<1>5. CASE ScreeningFailsRun
  <2> DEFINE q == [[runs[run] EXCEPT !.screened = stage] EXCEPT !.failed = TRUE]
  <2>1. runs' = [runs EXCEPT ![run] = q] /\ at' = "idle"
    BY <1>5 DEF ScreeningFailsRun, Fails, Over
  <2>2. q \in RunRecords /\ q.decided = runs[run].decided
    BY <1>2, <1>5 DEF ScreeningFailsRun, RunRecords
  <2> QED BY <1>1, <2>1, <2>2, RecordKeepsGap DEF Deciding
<1> QED BY <1>3, <1>4, <1>5

\* Sol's steps, up to the decision.
LEMMA ResearchGap ==
  ASSUME GapInv, Research \/ ToolRound \/ RankingCompletes \/ DiveCompletes
  PROVE  GapInv'
<1>1. run # 0 /\ runs[run].screened # "incomplete" /\ run' = run
  BY DEF Research, ToolRound, RankingCompletes, DiveCompletes, GapInv, Deciding
<1>2. run \in 1..MaxRuns /\ runs[run] \in RunRecords /\ runs \in [1..MaxRuns -> RunRecords]
  BY <1>1, RecordHere DEF GapInv
<1>3. at' # "screening"
  BY DEF Research, ToolRound, RankingCompletes, DiveCompletes
<1>4. \E q : /\ runs' = [runs EXCEPT ![run] = q]
             /\ q \in RunRecords /\ q.screened = runs[run].screened
  <2>1. CASE Research
    <3> DEFINE record == [runs[run] EXCEPT !.researched = TRUE]
    <3>1. record \in RunRecords /\ record.screened = runs[run].screened
      BY <1>2 DEF RunRecords
    <3>2. runs' = [runs EXCEPT ![run] = Bump(record, candidates)] \/ runs' = [runs EXCEPT ![run] = record]
      BY <2>1 DEF Research
    <3> HIDE DEF record
    <3> QED BY <3>1, <3>2, BumpKeeps
  <2>2. CASE ToolRound
    <3>1. PICK S : runs' = [runs EXCEPT ![run] = Bump(runs[run], S)]
      BY <1>2, <2>2 DEF ToolRound
    <3> QED BY <1>2, <3>1, BumpKeeps
  <2>3. CASE RankingCompletes
    <3> DEFINE record == [runs[run] EXCEPT !.ranked = TRUE]
    <3>1. record \in RunRecords /\ record.screened = runs[run].screened
      BY <1>2 DEF RunRecords
    <3>2. runs' = [runs EXCEPT ![run] = Bump(record, {top'[1]})]
      BY <1>2, <2>3 DEF RankingCompletes
    <3> HIDE DEF record
    <3>3. LET q == Bump(record, {top'[1]}) IN q \in RunRecords /\ q.screened = runs[run].screened
      BY <3>1, BumpKeeps
    <3> QED BY <3>2, <3>3
  <2>4. CASE DiveCompletes /\ runs' # runs
    <3>1. runs' = [runs EXCEPT ![run] = Bump(runs[run], {top[step + 1]})]
      BY <1>2, <2>4 DEF DiveCompletes
    <3> QED BY <1>2, <3>1, BumpKeeps
  <2>5. CASE runs' = runs
    <3>1. runs' = [runs EXCEPT ![run] = runs[run]]
      BY <1>2, <2>5
    <3> QED BY <1>2, <3>1
  <2> QED BY <2>1, <2>2, <2>3, <2>4, <2>5
<1> QED BY <1>1, <1>3, <1>4, RecordKeepsGap

LEMMA DecisionGap ==
  ASSUME GapInv, ToolsDecide \/ CommitteeDecides \/ SolFails
  PROVE  GapInv'
<1>1. run # 0 /\ runs[run].screened # "incomplete" /\ run' = run /\ at' \in Past
  BY DEF ToolsDecide, CommitteeDecides, SolFails, GapInv, Deciding, Past
<1>2. run \in 1..MaxRuns /\ runs[run] \in RunRecords /\ runs \in [1..MaxRuns -> RunRecords]
  BY <1>1, RecordHere DEF GapInv
<1>3. CASE ToolsDecide \/ CommitteeDecides
  <2> DEFINE q == [runs[run] EXCEPT !.decided = TRUE]
  <2>1. runs' = [runs EXCEPT ![run].decided = TRUE]
    BY <1>3 DEF ToolsDecide, CommitteeDecides
  <2>2. runs' = [runs EXCEPT ![run] = q]
    BY <1>2, <2>1 DEF RunRecords
  <2>3. q \in RunRecords /\ q.screened = runs[run].screened
    BY <1>2 DEF RunRecords
  <2> QED BY <1>1, <2>2, <2>3, RecordKeepsGap DEF Deciding, Past
<1>4. CASE SolFails
  <2> DEFINE q == [runs[run] EXCEPT !.failed = TRUE]
  <2>1. runs' = [runs EXCEPT ![run] = q]
    BY <1>4 DEF SolFails, Fails
  <2>2. q \in RunRecords /\ q.screened = runs[run].screened
    BY <1>2 DEF RunRecords
  <2> QED BY <1>1, <2>1, <2>2, RecordKeepsGap DEF Deciding, Past
<1> QED BY <1>3, <1>4

\* The run is over: its record changes in what the screening and the decision
\* do not show.
LEMMA OverGap ==
  ASSUME GapInv, FailureRecorded \/ ProbeFails \/ RunEnds
  PROVE  GapInv'
<1>1. run # 0 /\ run' = run /\ at' = "idle"
  BY DEF FailureRecorded, ProbeFails, RunEnds, Over, GapInv, Past
<1>2. run \in 1..MaxRuns /\ runs[run] \in RunRecords /\ runs \in [1..MaxRuns -> RunRecords]
  BY <1>1, RecordHere DEF GapInv
<1>3. \E q : /\ runs' = [runs EXCEPT ![run] = q]
             /\ q \in RunRecords /\ q.screened = runs[run].screened /\ q.decided = runs[run].decided
  <2>1. CASE FailureRecorded \/ ProbeFails
    <3>1. PICK b \in BOOLEAN : runs' = [runs EXCEPT ![run].solError = b]
      BY <2>1 DEF FailureRecorded, ProbeFails
    <3> DEFINE q == [runs[run] EXCEPT !.solError = b]
    <3>2. runs' = [runs EXCEPT ![run] = q]
      BY <1>2, <3>1 DEF RunRecords
    <3>3. q \in RunRecords /\ q.screened = runs[run].screened /\ q.decided = runs[run].decided
      BY <1>2 DEF RunRecords
    <3> QED BY <3>2, <3>3
  <2>2. CASE runs' = runs
    <3>1. runs' = [runs EXCEPT ![run] = runs[run]]
      BY <1>2, <2>2
    <3> QED BY <1>2, <3>1
  <2>3. CASE Fails(runs[run])
    <3> DEFINE q == [runs[run] EXCEPT !.failed = TRUE]
    <3>1. q \in RunRecords /\ q.screened = runs[run].screened /\ q.decided = runs[run].decided
      BY <1>2 DEF RunRecords
    <3> QED BY <2>3, <3>1 DEF Fails
  <2> QED BY <2>1, <2>2, <2>3 DEF RunEnds
<1>4. runs[run].screened = "incomplete" => ~ runs[run].decided
  BY <1>2 DEF GapInv
<1> QED BY <1>1, <1>3, <1>4, RecordKeepsGap DEF Deciding

\* A run begins: anew, with a failure, or where another one failed.
LEMMA BeginGap ==
  ASSUME GapInv, Start \/ StartFails \/ Resume
  PROVE  GapInv'
<1>1. run' = run + 1 /\ run' \in 1..MaxRuns /\ at' # "decided"
  BY DEF Start, StartFails, Resume, GapInv
<1>2. /\ runs[run + 1] \in RunRecords /\ runs \in [1..MaxRuns -> RunRecords]
      /\ runs[run + 1].screened = "none" /\ ~ runs[run + 1].decided
  BY <1>1 DEF GapInv
<1>3. \E q : /\ runs' = [runs EXCEPT ![run + 1] = q]
             /\ q \in RunRecords /\ q.screened = "none" /\ ~ q.decided
  <2>1. CASE Start
    <3>1. runs' = [runs EXCEPT ![run + 1] = runs[run + 1]]
      BY <1>1, <1>2, <2>1 DEF Start
    <3> QED BY <1>2, <3>1
  <2>2. CASE StartFails
    <3> DEFINE q == [runs[run + 1] EXCEPT !.failed = TRUE]
    <3>1. runs' = [runs EXCEPT ![run + 1] = q]
      BY <1>2, <2>2 DEF StartFails, RunRecords
    <3>2. q \in RunRecords /\ q.screened = "none" /\ ~ q.decided
      BY <1>2 DEF RunRecords
    <3> QED BY <3>1, <3>2
  <2>3. CASE Resume
    <3>1. PICK r \in 1..run : runs' = [runs EXCEPT ![run + 1].researched = TRUE, ![run + 1].source = r]
      BY <2>3 DEF Resume
    <3> DEFINE q == [runs[run + 1] EXCEPT !.researched = TRUE, !.source = r]
    <3>2. runs' = [runs EXCEPT ![run + 1] = q]
      BY <1>1, <1>2, <3>1 DEF RunRecords
    <3>3. r \in 0..MaxRuns
      BY <1>1 DEF GapInv
    <3>4. q \in RunRecords /\ q.screened = "none" /\ ~ q.decided
      BY <1>2, <3>3 DEF RunRecords
    <3> QED BY <3>2, <3>4
  <2> QED BY <2>1, <2>2, <2>3
<1>4. PICK q : /\ runs' = [runs EXCEPT ![run + 1] = q]
               /\ q \in RunRecords /\ q.screened = "none" /\ ~ q.decided
  BY <1>3
<1>5. /\ DOMAIN runs' = 1..MaxRuns /\ runs'[run + 1] = q
      /\ \A r \in 1..MaxRuns : r # run + 1 => runs'[r] = runs[r]
  BY <1>1, <1>2, <1>4
<1> QED BY <1>1, <1>4, <1>5 DEF GapInv, Deciding, Past

LEMMA OtherGap ==
  ASSUME GapInv, Screen \/ Crash \/ UNCHANGED vars
  PROVE  GapInv'
<1>1. UNCHANGED <<run, runs>> /\ (at' = at \/ at' = "restarted")
  BY DEF Screen, Crash, vars
<1> QED BY <1>1 DEF GapInv, Deciding, Past

LEMMA GapSteps == GapInv /\ FinalInv /\ [Next]_vars => GapInv'
BY ScreeningGap, ResearchGap, DecisionGap, OverGap, BeginGap, OtherGap DEF Next

LEMMA GapStarts == Init => GapInv /\ FinalInv
<1> SUFFICES ASSUME Init PROVE GapInv /\ FinalInv
  OBVIOUS
<1>1. NoRun \in RunRecords /\ NoRun.screened = "none" /\ ~ NoRun.decided
  BY DEF NoRun, RunRecords
<1>2. GapInv
  BY <1>1 DEF Init, GapInv, Deciding, Past
<1>3. FinalInv
  BY DEF Init, LunaInit, FinalInv, SetOf, Clear
<1> QED BY <1>2, <1>3

\* No screening that failed to cover its universe ever ends in a decision:
\* over any number of runs, failures, resumes and deaths of the process.
THEOREM GapsDecideNothing == Spec => []NoDecisionOnAGap
<1>1. GapInv => NoDecisionOnAGap
  BY DEF GapInv, NoDecisionOnAGap
<1> QED BY <1>1, GapStarts, GapSteps, FinalSteps, PTL DEF Spec

-----------------------------------------------------------------------------
(* The batches of the screening.                                            *)

Batches == [first : Nat, last : Nat]

RowsInv ==
  /\ rows \in 0..UniverseSize
  /\ at # "screening" => stage = "off"
  /\ stage = "off" => covered = {}
  /\ stage = "batches" => todo \in Seq(Batches) /\ EveryRowOnce

\* Multiples of the size of a batch.
LEMMA Multiples ==
  ASSUME NEW j \in Nat, NEW k \in Nat, j <= k, NEW size \in Nat
  PROVE  j * size <= k * size
OBVIOUS

\* Every row is in a batch: the one its place divided by the size names.
LEMMA InABatch ==
  ASSUME rows \in Nat, BatchSize # 0, NEW x \in 1..rows
  PROVE  \E k \in 1..((rows + BatchSize - 1) \div BatchSize) :
           x \in ((k - 1) * BatchSize + 1)..Smaller(k * BatchSize, rows)
<1> DEFINE q == (x - 1) \div BatchSize
           n == (rows + BatchSize - 1) \div BatchSize
<1>0. BatchSize \in Nat /\ BatchSize > 0 /\ rows >= 1
  OBVIOUS
<1>1. q \in Nat /\ q * BatchSize <= x - 1 /\ x - 1 < q * BatchSize + BatchSize
  BY <1>0
<1>2. n \in Nat /\ rows + BatchSize - 1 < n * BatchSize + BatchSize
  BY <1>0
<1> HIDE DEF q, n
<1>3. (q + 1) * BatchSize = q * BatchSize + BatchSize
  BY <1>0, <1>1
<1>4. q + 1 <= n
  <2> SUFFICES ASSUME n <= q PROVE FALSE
    BY <1>1, <1>2
  <2>1. n * BatchSize <= q * BatchSize
    BY <1>0, <1>1, <1>2, Multiples
  <2> QED BY <1>0, <1>1, <1>2, <2>1
<1>5. PICK k \in 1..n : k = q + 1
  BY <1>1, <1>2, <1>4
<1>6. k * BatchSize = (k - 1) * BatchSize + BatchSize /\ k - 1 = q
  BY <1>0, <1>1, <1>3, <1>5
<1>7. x \in ((k - 1) * BatchSize + 1)..Smaller(k * BatchSize, rows)
  BY <1>0, <1>1, <1>6 DEF Smaller
<1> QED BY <1>7 DEF n

\* The first batches take every row, and none twice.
LEMMA BatchesBegin ==
  ASSUME RowsInv, StartBatches
  PROVE  /\ InitialBatches \in Seq(Batches)
         /\ \A x \in Universe : \E k \in DOMAIN InitialBatches : x \in Covers(InitialBatches[k])
         /\ \A k \in DOMAIN InitialBatches : Covers(InitialBatches[k]) \subseteq Universe
         /\ \A j, k \in DOMAIN InitialBatches :
              j # k => Covers(InitialBatches[j]) \cap Covers(InitialBatches[k]) = {}
<1> DEFINE n == (rows + BatchSize - 1) \div BatchSize
           first(k) == (k - 1) * BatchSize + 1
           last(k) == Smaller(k * BatchSize, rows)
<1>0. rows \in Nat /\ BatchSize \in Nat /\ BatchSize > 0 /\ BatchSize # 0
  BY DEF RowsInv
<1>1. n \in Nat
  BY <1>0
<1>2. \A k \in 1..n : first(k) \in Nat /\ first(k) >= 1 /\ last(k) \in Nat /\ last(k) <= rows
                      /\ last(k) <= k * BatchSize
  BY <1>0, <1>1 DEF Smaller
<1>3. InitialBatches = [k \in 1..n |-> Batch(first(k), last(k))]
  BY DEF InitialBatches
<1>4. ASSUME NEW x \in Universe PROVE \E k \in 1..n : x \in first(k)..last(k)
  <2>1. x \in 1..rows
    BY DEF Universe
  <2>2. \E k \in 1..((rows + BatchSize - 1) \div BatchSize) :
          x \in ((k - 1) * BatchSize + 1)..Smaller(k * BatchSize, rows)
    BY <1>0, <2>1, InABatch, Zenon
  <2> QED BY <2>2, Zenon
<1>5. \A j, k \in 1..n : j < k => last(j) < first(k)
  <2> SUFFICES ASSUME NEW j \in 1..n, NEW k \in 1..n, j < k PROVE last(j) < first(k)
    OBVIOUS
  <2>1. j * BatchSize <= (k - 1) * BatchSize
    BY <1>0, <1>1, Multiples
  <2> QED BY <1>0, <1>1, <1>2, <2>1
<1> HIDE DEF n, first, last
<1>6. DOMAIN InitialBatches = 1..n
      /\ \A k \in 1..n : Covers(InitialBatches[k]) = first(k)..last(k)
                         /\ InitialBatches[k] \in Batches
  BY <1>2, <1>3 DEF Batch, Batches, Covers
<1>7. InitialBatches \in Seq(Batches)
  BY <1>1, <1>3, <1>6
<1>8. \A k \in 1..n : first(k)..last(k) \subseteq Universe
  BY <1>0, <1>2 DEF Universe
<1>9. \A j, k \in 1..n : j # k => (first(j)..last(j)) \cap (first(k)..last(k)) = {}
  BY <1>1, <1>2, <1>5
<1>10. \A x \in Universe : \E k \in DOMAIN InitialBatches : x \in Covers(InitialBatches[k])
  BY <1>4, <1>6
<1>11. \A k \in DOMAIN InitialBatches : Covers(InitialBatches[k]) \subseteq Universe
  BY <1>6, <1>8
<1>12. \A j, k \in DOMAIN InitialBatches :
         j # k => Covers(InitialBatches[j]) \cap Covers(InitialBatches[k]) = {}
  BY <1>6, <1>9
<1> QED BY <1>7, <1>10, <1>11, <1>12

\* EveryRowOnce, of any list of batches.
Placed(done, list) ==
  /\ \A x : x \in Universe <=> x \in done \/ \E i \in DOMAIN list : x \in Covers(list[i])
  /\ \A i \in DOMAIN list : Covers(list[i]) \cap done = {}
  /\ \A i, j \in DOMAIN list : i # j => Covers(list[i]) \cap Covers(list[j]) = {}

LEMMA RowByRow == EveryRowOnce <=> (stage = "batches" => Placed(covered, todo))
BY DEF EveryRowOnce, Placed

LEMMA BeginPlaced ==
  ASSUME RowsInv, StartBatches, at = "screening", at' = at
  PROVE  RowsInv'
<1>1. stage' = "batches" /\ todo' = InitialBatches /\ covered' = {} /\ rows' = rows
  BY DEF StartBatches, RowsInv
<1>2. Universe' = Universe
  BY <1>1 DEF Universe
<1>3. Placed(covered, todo)'
  BY <1>1, <1>2, BatchesBegin DEF Placed
<1>4. EveryRowOnce'
  BY <1>3, RowByRow DEF EveryRowOnce, Placed
<1>5. todo' \in Seq(Batches)
  BY <1>1, BatchesBegin
<1> QED BY <1>1, <1>4, <1>5 DEF RowsInv

\* A batch that is done moves from one side to the other.
LEMMA CompletedPlaced ==
  ASSUME RowsInv, BatchCompletes, at = "screening", at' = at
  PROVE  RowsInv'
<1>1. /\ stage = "batches" /\ stage' = stage /\ rows' = rows
      /\ todo' = Tail(todo) /\ covered' = covered \cup Covers(Head(todo))
  BY DEF BatchCompletes
<1>2. todo \in Seq(Batches) /\ todo # <<>> /\ Placed(covered, todo)
  BY <1>1, RowByRow DEF BatchCompletes, RowsInv, Clear
<1>3. /\ Tail(todo) \in Seq(Batches) /\ Head(todo) = todo[1]
      /\ DOMAIN todo = 1..Len(todo) /\ Len(todo) \in Nat \ {0}
      /\ DOMAIN Tail(todo) = 1..(Len(todo) - 1)
      /\ \A i \in 1..(Len(todo) - 1) : Tail(todo)[i] = todo[i + 1]
  BY <1>2
<1>4. \A i \in 1..Len(todo) : i = 1 \/ i - 1 \in 1..(Len(todo) - 1)
  BY <1>3
<1>5. Universe' = Universe
  BY <1>1 DEF Universe
<1>6. Placed(covered \cup Covers(Head(todo)), Tail(todo))
  <2>1. \A x : x \in Universe <=> x \in covered \cup Covers(Head(todo))
                                  \/ \E i \in DOMAIN Tail(todo) : x \in Covers(Tail(todo)[i])
    <3> SUFFICES ASSUME NEW x
                 PROVE  (\E i \in DOMAIN todo : x \in Covers(todo[i])) <=>
                          \/ x \in Covers(Head(todo))
                          \/ \E i \in DOMAIN Tail(todo) : x \in Covers(Tail(todo)[i])
      BY <1>2 DEF Placed
    <3>1. ASSUME NEW i \in DOMAIN todo, x \in Covers(todo[i])
          PROVE  \/ x \in Covers(Head(todo))
                 \/ \E k \in DOMAIN Tail(todo) : x \in Covers(Tail(todo)[k])
      <4>1. CASE i = 1
        BY <1>3, <3>1, <4>1
      <4>2. CASE i # 1
        <5>1. i - 1 \in DOMAIN Tail(todo) /\ Tail(todo)[i - 1] = todo[i]
          BY <1>3, <4>2
        <5> QED BY <3>1, <5>1
      <4> QED BY <4>1, <4>2
    <3>2. ASSUME NEW i \in DOMAIN Tail(todo), x \in Covers(Tail(todo)[i])
          PROVE  \E k \in DOMAIN todo : x \in Covers(todo[k])
      <4>1. i + 1 \in DOMAIN todo /\ todo[i + 1] = Tail(todo)[i]
        BY <1>3
      <4> QED BY <3>2, <4>1
    <3>3. ASSUME x \in Covers(Head(todo)) PROVE \E k \in DOMAIN todo : x \in Covers(todo[k])
      <4>1. 1 \in DOMAIN todo
        BY <1>3
      <4> QED BY <1>3, <3>3, <4>1
    <3> QED BY <3>1, <3>2, <3>3
  <2>2. ASSUME NEW i \in DOMAIN Tail(todo)
        PROVE  /\ i + 1 \in DOMAIN todo /\ Tail(todo)[i] = todo[i + 1]
               /\ 1 \in DOMAIN todo /\ i + 1 # 1
    BY <1>3
  <2>3. \A i \in DOMAIN Tail(todo) : Covers(Tail(todo)[i]) \cap (covered \cup Covers(Head(todo))) = {}
    BY <1>2, <1>3, <2>2 DEF Placed
  <2>4. \A i, j \in DOMAIN Tail(todo) :
          i # j => Covers(Tail(todo)[i]) \cap Covers(Tail(todo)[j]) = {}
    <3> SUFFICES ASSUME NEW i \in DOMAIN Tail(todo), NEW j \in DOMAIN Tail(todo), i # j
                 PROVE  Covers(Tail(todo)[i]) \cap Covers(Tail(todo)[j]) = {}
      OBVIOUS
    <3>1. i + 1 # j + 1
      BY <1>3
    <3> QED BY <1>2, <2>2, <3>1 DEF Placed
  <2> QED BY <2>1, <2>3, <2>4 DEF Placed
<1>7. Placed(covered, todo)'
  BY <1>1, <1>5, <1>6 DEF Placed
<1>8. EveryRowOnce'
  BY <1>7, RowByRow DEF EveryRowOnce, Placed
<1> QED BY <1>1, <1>2, <1>3, <1>8 DEF RowsInv

\* The halves of a batch that may be cut are the batch, and share no row.
LEMMA HalvesOfBatch ==
  ASSUME NEW b \in Batches, Splits(b)
  PROVE  /\ Halves(b)[1] \in Batches /\ Halves(b)[2] \in Batches
         /\ Covers(b) = Covers(Halves(b)[1]) \cup Covers(Halves(b)[2])
         /\ Covers(Halves(b)[1]) \cap Covers(Halves(b)[2]) = {}
<1> DEFINE middle == b.first + Size(b) \div 2
<1>1. b.first \in Nat /\ b.last \in Nat /\ Size(b) = b.last + 1 - b.first
  BY DEF Batches, Size
<1>2. Size(b) >= 2
  BY <1>1 DEF Splits
<1>3. middle \in Nat /\ b.first < middle /\ middle <= b.last
  BY <1>1, <1>2
<1> HIDE DEF middle
<1>4. /\ Halves(b)[1] = [first |-> b.first, last |-> middle - 1]
      /\ Halves(b)[2] = [first |-> middle, last |-> b.last]
  BY DEF Halves, Batch, middle
<1>5. Halves(b)[1] \in Batches /\ Halves(b)[2] \in Batches
  BY <1>1, <1>3, <1>4 DEF Batches
<1>6. /\ Covers(Halves(b)[1]) = b.first..(middle - 1)
      /\ Covers(Halves(b)[2]) = middle..b.last
  BY <1>4 DEF Covers
<1>7. b.first..b.last = (b.first..(middle - 1)) \cup (middle..b.last)
      /\ (b.first..(middle - 1)) \cap (middle..b.last) = {}
  BY <1>1, <1>3
<1> QED BY <1>5, <1>6, <1>7 DEF Covers

LEMMA TwoThenRest ==
  ASSUME NEW S, NEW h \in Seq(S), NEW rest \in Seq(S), Len(h) = 2
  PROVE  /\ h \o rest \in Seq(S) /\ Len(h \o rest) = Len(rest) + 2
         /\ (h \o rest)[1] = h[1] /\ (h \o rest)[2] = h[2]
         /\ \A i \in 3..(Len(rest) + 2) : (h \o rest)[i] = rest[i - 2]
<1> DEFINE c == h \o rest
           n == Len(rest)
<1>1. /\ c \in Seq(S) /\ Len(c) = Len(h) + Len(rest)
      /\ \A i \in 1 .. Len(h) + Len(rest) : c[i] = IF i <= Len(h) THEN h[i] ELSE rest[i - Len(h)]
  BY ConcatProperties
<1>2. /\ n \in Nat /\ c \in Seq(S) /\ Len(c) = 2 + n
      /\ \A i \in 1 .. 2 + n : c[i] = IF i <= 2 THEN h[i] ELSE rest[i - 2]
  BY <1>1
<1> HIDE DEF c, n
<1>3. /\ c \in Seq(S) /\ Len(c) = n + 2
      /\ c[1] = h[1] /\ c[2] = h[2] /\ \A i \in 3..(n + 2) : c[i] = rest[i - 2]
  BY <1>2
<1> QED BY <1>3 DEF c, n

LEMMA SplitPlaced ==
  ASSUME RowsInv, BatchSplits, at = "screening", at' = at
  PROVE  RowsInv'
<1> DEFINE h == Halves(Head(todo))
           list == h \o Tail(todo)
           n == Len(todo)
<1>1. stage = "batches" /\ stage' = stage /\ rows' = rows /\ todo' = list /\ covered' = covered
  BY DEF BatchSplits
<1>2. todo \in Seq(Batches) /\ todo # <<>> /\ Placed(covered, todo)
  BY <1>1, RowByRow DEF BatchSplits, RowsInv, Clear
<1>3. /\ Tail(todo) \in Seq(Batches) /\ Head(todo) = todo[1] /\ todo[1] \in Batches
      /\ DOMAIN todo = 1..n /\ n \in Nat \ {0}
      /\ Len(Tail(todo)) = n - 1
      /\ \A i \in 1..(n - 1) : Tail(todo)[i] = todo[i + 1]
  BY <1>2
<1>4. /\ h[1] \in Batches /\ h[2] \in Batches
      /\ Covers(todo[1]) = Covers(h[1]) \cup Covers(h[2])
      /\ Covers(h[1]) \cap Covers(h[2]) = {}
  <2>1. Head(todo) \in Batches /\ Splits(Head(todo))
    BY <1>3 DEF BatchSplits
  <2>2. /\ h[1] \in Batches /\ h[2] \in Batches
        /\ Covers(Head(todo)) = Covers(h[1]) \cup Covers(h[2])
        /\ Covers(h[1]) \cap Covers(h[2]) = {}
    BY <2>1, HalvesOfBatch
  <2> QED BY <1>3, <2>2
<1>5. h \in Seq(Batches) /\ Len(h) = 2
  BY <1>4 DEF Halves
<1> HIDE DEF h
<1>6. /\ list \in Seq(Batches) /\ DOMAIN list = 1..(n + 1)
      /\ list[1] = h[1] /\ list[2] = h[2]
      /\ \A i \in 3..(n + 1) : list[i] = todo[i - 1]
  <2> DEFINE rest == Tail(todo)
  <2>1. rest \in Seq(Batches) /\ Len(rest) = n - 1 /\ n \in Nat \ {0}
        /\ \A i \in 1..(n - 1) : rest[i] = todo[i + 1]
    BY <1>3
  <2> HIDE DEF rest, n
  <2>2. /\ h \o rest \in Seq(Batches) /\ Len(h \o rest) = Len(rest) + 2
        /\ (h \o rest)[1] = h[1] /\ (h \o rest)[2] = h[2]
        /\ \A i \in 3..(Len(rest) + 2) : (h \o rest)[i] = rest[i - 2]
    BY <1>5, <2>1, TwoThenRest
  <2>3. Len(rest) + 2 = n + 1
    BY <2>1
  <2>4. ASSUME NEW i \in 3..(n + 1) PROVE (h \o rest)[i] = todo[i - 1]
    <3>1. (h \o rest)[i] = rest[i - 2]
      BY <2>2, <2>3
    <3>2. i - 2 \in 1..(n - 1) /\ (i - 2) + 1 = i - 1
      BY <2>1
    <3> QED BY <2>1, <3>1, <3>2
  <2>5. list = h \o rest
    BY DEF rest
  <2> HIDE DEF list
  <2> QED BY <2>1, <2>2, <2>3, <2>4, <2>5
<1> HIDE DEF list, n
\* Where a place of the new list comes from.
<1>7. \A i \in DOMAIN list :
        \/ i \in {1, 2} /\ Covers(list[i]) \subseteq Covers(todo[1])
        \/ i >= 3 /\ i - 1 \in DOMAIN todo /\ i - 1 # 1 /\ list[i] = todo[i - 1]
  BY <1>3, <1>4, <1>6
<1>8. 1 \in DOMAIN todo /\ 1 \in DOMAIN list /\ 2 \in DOMAIN list
  BY <1>3, <1>6
<1>9. \A x : (\E i \in DOMAIN list : x \in Covers(list[i]))
               <=> (\E i \in DOMAIN todo : x \in Covers(todo[i]))
  <2> SUFFICES ASSUME NEW x
               PROVE  (\E i \in DOMAIN list : x \in Covers(list[i]))
                        <=> (\E i \in DOMAIN todo : x \in Covers(todo[i]))
    OBVIOUS
  <2>1. ASSUME NEW i \in DOMAIN list, x \in Covers(list[i])
        PROVE  \E k \in DOMAIN todo : x \in Covers(todo[k])
    BY <1>7, <1>8, <2>1
  <2>2. ASSUME NEW k \in DOMAIN todo, x \in Covers(todo[k])
        PROVE  \E i \in DOMAIN list : x \in Covers(list[i])
    <3>1. CASE k = 1
      BY <1>4, <1>6, <1>8, <2>2, <3>1
    <3>2. CASE k # 1
      <4>1. k + 1 \in DOMAIN list /\ list[k + 1] = todo[k]
        BY <1>3, <1>6, <3>2
      <4> QED BY <2>2, <4>1
    <3> QED BY <3>1, <3>2
  <2> QED BY <2>1, <2>2
<1>10. \A i \in DOMAIN list : Covers(list[i]) \cap covered = {}
  BY <1>2, <1>7, <1>8 DEF Placed
<1>11. \A i, j \in DOMAIN list : i # j => Covers(list[i]) \cap Covers(list[j]) = {}
  <2> SUFFICES ASSUME NEW i \in DOMAIN list, NEW j \in DOMAIN list, i # j
               PROVE  Covers(list[i]) \cap Covers(list[j]) = {}
    OBVIOUS
  <2>1. CASE i \in {1, 2} /\ j \in {1, 2}
    BY <1>4, <1>6, <2>1
  <2>2. CASE i \in {1, 2} /\ j >= 3
    <3>0. j - 1 \in DOMAIN todo /\ j - 1 # 1 /\ 1 \in DOMAIN todo
      BY <1>7, <1>8, <2>2
    <3>1. Covers(todo[1]) \cap Covers(todo[j - 1]) = {}
      BY <1>2, <3>0 DEF Placed
    <3> QED BY <1>7, <2>2, <3>1
  <2>3. CASE i >= 3 /\ j \in {1, 2}
    <3>0. i - 1 \in DOMAIN todo /\ i - 1 # 1 /\ 1 \in DOMAIN todo
      BY <1>7, <1>8, <2>3
    <3>1. Covers(todo[1]) \cap Covers(todo[i - 1]) = {}
      BY <1>2, <3>0 DEF Placed
    <3> QED BY <1>7, <2>3, <3>1
  <2>4. CASE i >= 3 /\ j >= 3
    <3>1. i - 1 # j - 1
      BY <1>6
    <3> QED BY <1>2, <1>7, <2>4, <3>1 DEF Placed
  <2> QED BY <1>7, <2>1, <2>2, <2>3, <2>4
<1>12. Universe' = Universe
  BY <1>1 DEF Universe
<1>13. Placed(covered, list)
  BY <1>2, <1>9, <1>10, <1>11 DEF Placed
<1>14. Placed(covered, todo)'
  BY <1>1, <1>12, <1>13 DEF Placed
<1>15. EveryRowOnce'
  BY <1>14, RowByRow DEF EveryRowOnce, Placed
<1> QED BY <1>1, <1>6, <1>15 DEF RowsInv

\* Steps that have no batch in them.
LEMMA RowsElsewhere ==
  ASSUME RowsInv, stage' # "batches",
         rows' \in 0..UniverseSize,
         at' # "screening" => stage' = "off",
         stage' = "off" => covered' = {}
  PROVE  RowsInv'
BY DEF RowsInv

LEMMA RowsSteps == RowsInv /\ [Next]_vars => RowsInv'
<1> SUFFICES ASSUME RowsInv, [Next]_vars PROVE RowsInv'
  OBVIOUS
<1>1. CASE UNCHANGED luna /\ (at' = at \/ (at # "screening" /\ at' # "screening"))
  <2>1. UNCHANGED <<rows, stage, todo, covered>>
    BY <1>1 DEF luna
  <2> QED BY <1>1, <2>1 DEF RowsInv, EveryRowOnce, Universe
<1>2. CASE LunaOver /\ at' # "screening"
  BY <1>2, RowsElsewhere DEF LunaOver
<1>3. CASE Screen
  <2>1. at = "screening" /\ at' = at
    BY <1>3 DEF Screen
  <2>2. CASE StartBatches
    BY <2>1, <2>2, BeginPlaced
  <2>3. CASE BatchCompletes
    BY <2>1, <2>3, CompletedPlaced
  <2>4. CASE BatchSplits
    BY <2>1, <2>4, SplitPlaced
  <2>5. CASE BatchFails \/ MergeEnds \/ PartitionCompletes \/ PartitionsEnd \/ GlobalCompletes
             \/ FinalFails \/ StartWhole \/ WholeCompletes
    <3>1. stage' \notin {"batches", "off"} /\ rows' = rows
      BY <2>5 DEF BatchFails, MergeEnds, PartitionCompletes, PartitionsEnd, GlobalCompletes,
         FinalFails, StartWhole, WholeCompletes
    <3> QED BY <2>1, <3>1, RowsElsewhere DEF RowsInv
  <2> QED BY <1>3, <2>2, <2>3, <2>4, <2>5 DEF Screen, LunaNext
<1>4. CASE Start
  <2>1. at # "screening" /\ UNCHANGED <<stage, covered>> /\ rows' \in 0..UniverseSize
    BY <1>4 DEF Start, Symbols
  <2>2. stage = "off"
    BY <2>1 DEF RowsInv
  <2> QED BY <2>1, <2>2, RowsElsewhere DEF RowsInv
<1>5. CASE StartFails \/ Resume \/ UNCHANGED vars
  <2>1. UNCHANGED luna /\ (at' = at \/ (at \in {"idle", "restarted"} /\ at' \in {"idle", "ranking"}))
    <3>1. CASE StartFails
      BY <3>1 DEF StartFails
    <3>2. CASE Resume
      BY <3>2 DEF Resume
    <3>3. CASE UNCHANGED vars
      BY <3>3, Zenon DEF vars
    <3> QED BY <1>5, <3>1, <3>2, <3>3
  <2> QED BY <1>1, <2>1
<1>6. CASE Research \/ ToolRound \/ ToolsDecide \/ RankingCompletes \/ DiveCompletes
           \/ CommitteeDecides \/ SolFails \/ FailureRecorded \/ ProbeFails \/ RunEnds
  BY <1>1, <1>6 DEF Research, ToolRound, ToolsDecide, RankingCompletes, DiveCompletes,
     CommitteeDecides, SolFails, FailureRecorded, ProbeFails, RunEnds, Over
<1>7. CASE ScreeningCompletes \/ ScreeningFallsBack \/ ScreeningFailsRun \/ Crash
  BY <1>2, <1>7 DEF ScreeningCompletes, ScreeningFallsBack, ScreeningFailsRun, Crash, Over
<1> QED BY <1>3, <1>4, <1>5, <1>6, <1>7 DEF Next

LEMMA RowsStart == Init => RowsInv
BY DEF Init, LunaInit, RowsInv

\* However the batches fail and are cut, with whatever sizes: no row of the
\* universe is lost between them and none is screened twice.
THEOREM ScreenedOnce == Spec => []EveryRowOnce
<1>1. RowsInv => EveryRowOnce
  BY DEF RowsInv, EveryRowOnce
<1> QED BY <1>1, RowsStart, RowsSteps, PTL DEF Spec

-----------------------------------------------------------------------------
(* Picks are merged one after the other: induction on how many.             *)

LEMMA Least ==
  ASSUME NEW T \in SUBSET Nat, T # {}
  PROVE  \E x \in T : \A y \in T : x <= y
<1>1. \A x, y \in Nat : <<y, x>> \in OpToRel(<, Nat) <=> y < x
  BY DEF OpToRel
<1>2. PICK x \in T : \A y \in T : ~ (<<y, x>> \in OpToRel(<, Nat))
  BY NatLessThanWellFounded, WFMin
<1>3. \A y \in T : x <= y
  <2> TAKE y \in T
  <2>1. ~ (<<y, x>> \in OpToRel(<, Nat))
    BY <1>2
  <2>2. x \in Nat /\ y \in Nat
    OBVIOUS
  <2>3. ~ (y < x)
    BY <1>1, <2>1, <2>2
  <2> QED BY <2>2, <2>3
<1> QED BY <1>3

\* The recursive function of Added, up to n.
AfterPick(f, s, p, k) == IF k = 0 THEN s ELSE Kept(f[k - 1], p[k])
IsAfter(f, s, p, n)   == f = [k \in 0..n |-> AfterPick(f, s, p, k)]

LEMMA AfterExists ==
  ASSUME NEW s, NEW p, NEW m \in Nat
  PROVE  \E f : IsAfter(f, s, p, m)
<1> SUFFICES ASSUME ~ \E f : IsAfter(f, s, p, m) PROVE FALSE
  OBVIOUS
<1> DEFINE T == {n \in Nat : ~ \E f : IsAfter(f, s, p, n)}
<1>1. PICK n \in T : \A y \in T : n <= y
  <2>1. T # {} /\ T \in SUBSET Nat
    OBVIOUS
  <2> QED BY <2>1, Least
<1>2. CASE n = 0
  <2> DEFINE f == [k \in 0..0 |-> s]
  <2>1. \A k \in 0..0 : AfterPick(f, s, p, k) = s
    BY DEF AfterPick
  <2>2. IsAfter(f, s, p, 0)
    BY <2>1 DEF IsAfter
  <2> QED BY <1>2, <2>2
<1>3. CASE n # 0
  <2>1. n - 1 \in Nat /\ n - 1 \notin T
    BY <1>1, <1>3
  <2>2. PICK g : IsAfter(g, s, p, n - 1)
    BY <2>1
  <2> DEFINE f == [k \in 0..n |-> IF k = n THEN AfterPick(g, s, p, n) ELSE g[k]]
  <2>3. \A k \in 0..n : f[k] = AfterPick(f, s, p, k)
    <3> TAKE k \in 0..n
    <3>1. CASE k = n
      <4>1. f[n - 1] = g[n - 1] /\ f[n] = AfterPick(g, s, p, n)
        BY <2>1, <1>3
      <4> QED BY <3>1, <4>1, <1>3 DEF AfterPick
    <3>2. CASE k # n
      <4>0. k \in 0..(n - 1) /\ f[k] = g[k]
        BY <2>1, <3>2
      <4>1. k \in 0..(n - 1) /\ f[k] = g[k] /\ g[k] = AfterPick(g, s, p, k)
        BY <2>2, <4>0 DEF IsAfter
      <4>2. k # 0 => f[k - 1] = g[k - 1]
        BY <4>1, <2>1
      <4> QED BY <4>1, <4>2 DEF AfterPick
    <3> QED BY <3>1, <3>2
  <2>4. IsAfter(f, s, p, n)
    BY <2>3 DEF IsAfter
  <2> QED BY <2>4, <1>1
<1> QED BY <1>2, <1>3

LEMMA AddedIsLast ==
  ASSUME NEW s, NEW p, Len(p) \in Nat
  PROVE  \E f : IsAfter(f, s, p, Len(p)) /\ Added(s, p) = f[Len(p)]
<1> DEFINE after[k \in 0 .. Len(p)] == IF k = 0 THEN s ELSE Kept(after[k - 1], p[k])
<1>1. Added(s, p) = after[Len(p)]
  BY DEF Added
<1>2. \E f : f = [k \in 0 .. Len(p) |-> IF k = 0 THEN s ELSE Kept(f[k - 1], p[k])]
  <2>1. PICK f : IsAfter(f, s, p, Len(p))
    BY AfterExists
  <2>2. f = [k \in 0 .. Len(p) |-> IF k = 0 THEN s ELSE Kept(f[k - 1], p[k])]
    BY <2>1 DEF IsAfter, AfterPick
  <2> QED BY <2>2
<1>3. after = [k \in 0 .. Len(p) |-> IF k = 0 THEN s ELSE Kept(after[k - 1], p[k])]
  BY <1>2
<1>4. IsAfter(after, s, p, Len(p))
  BY <1>3 DEF IsAfter, AfterPick
<1> QED BY <1>1, <1>4

\* Merging brings in nothing that was not picked.
LEMMA AddedNames ==
  ASSUME NEW S, NEW s \in Seq(S), NEW p \in Seq(S)
  PROVE  Added(s, p) \in Seq(S)
<1>1. PICK f : IsAfter(f, s, p, Len(p)) /\ Added(s, p) = f[Len(p)]
  BY AddedIsLast
<1> DEFINE T == {k \in 0..Len(p) : f[k] \notin Seq(S)}
<1>2. ASSUME T # {} PROVE FALSE
  <2>1. PICK k \in T : \A j \in T : k <= j
    <3>1. T \in SUBSET Nat
      OBVIOUS
    <3> QED BY <1>2, <3>1, Least
  <2>2. k \in 0..Len(p) /\ f[k] = AfterPick(f, s, p, k)
    BY <1>1 DEF IsAfter
  <2>3. k # 0
    BY <2>2 DEF AfterPick
  <2>4. k - 1 \in 0..Len(p) /\ k - 1 \notin T /\ p[k] \in S
    BY <2>1, <2>2, <2>3
  <2>5. f[k] = Kept(f[k - 1], p[k]) /\ f[k - 1] \in Seq(S)
    BY <2>2, <2>3, <2>4 DEF AfterPick
  <2>6. f[k] \in Seq(S)
    BY <2>4, <2>5 DEF Kept
  <2> QED BY <2>1, <2>6
<1> QED BY <1>1, <1>2

-----------------------------------------------------------------------------
(* Whose names Luna and Sol hold.                                           *)

\* Luna and Sol hold symbols of the snapshot, and nothing else.
NamesInv ==
  /\ merged \in Seq(Symbols) /\ groups \in Seq(Seq(Symbols)) /\ staged \in Seq(Symbols)
  /\ SetOf(final) \subseteq Symbols
  /\ stage = "partitions" => merged # <<>>
  /\ candidates \subseteq Symbols
  /\ \A r \in 1..MaxRuns : runs[r].finals \subseteq Symbols

LEMMA PicksSent ==
  ASSUME NEW sent, NEW limit \in Nat, NEW p \in Picks(sent, limit)
  PROVE  p \in Seq(sent) /\ SetOf(p) \subseteq sent
<1>1. PICK n \in 1..Smaller(limit, LunaMax) : p \in [1..n -> Named]
  BY DEF Picks, AnyPicks
<1>2. n \in Nat
  BY <1>1 DEF Smaller
<1>3. SetOf(p) \subseteq sent
  BY DEF Picks
<1>4. p \in [1..n -> sent]
  BY <1>1, <1>3 DEF SetOf
<1> QED BY <1>2, <1>3, <1>4

\* A partition is a part of what is partitioned.
LEMMA NthNames ==
  ASSUME NEW S, NEW s \in Seq(S), NEW count \in Nat \ {0}, NEW i \in 1..count
  PROVE  EveryNth(s, i, count) \in Seq(S)
<1> DEFINE n == (Len(s) + count - i) \div count
<1>1. n \in Nat /\ n * count <= Len(s) + count - i
  BY Z3
<1> HIDE DEF n
<1>2. ASSUME NEW k \in 1..n PROVE (k - 1) * count + i \in DOMAIN s
  <2>1. k * count <= n * count
    BY <1>1, Multiples
  <2>2. (k - 1) * count = k * count - count /\ (k - 1) * count \in Nat
    BY <1>1
  <2> QED BY <1>1, <2>1, <2>2
<1>3. EveryNth(s, i, count) = [k \in 1..n |-> s[(k - 1) * count + i]]
  BY DEF EveryNth, n
<1>4. \A k \in 1..n : s[(k - 1) * count + i] \in S
  BY <1>2
<1> QED BY <1>1, <1>3, <1>4

LEMMA PartitionNames ==
  ASSUME NEW S, NEW s \in Seq(S)
  PROVE  Partitions(s) \in Seq(Seq(S))
<1>1. GroupCount(Len(s)) \in Nat
  BY DEF GroupCount
<1>2. \A i \in 1..GroupCount(Len(s)) : EveryNth(s, i, GroupCount(Len(s))) \in Seq(S)
  BY <1>1, NthNames
<1> QED BY <1>1, <1>2 DEF Partitions

\* Steps of the screening.
LEMMA NamesScreen ==
  ASSUME NamesInv, RowsInv, Screen
  PROVE  NamesInv'
<1>1. UNCHANGED <<candidates, runs>>
  BY DEF Screen, sol
<1>2. CASE StartBatches \/ BatchSplits \/ BatchFails \/ FinalFails \/ StartWhole
  BY <1>1, <1>2 DEF NamesInv, SetOf, StartBatches, BatchSplits, BatchFails, FinalFails, StartWhole
<1>3. CASE BatchCompletes
  <2>1. Covers(Head(todo)) \subseteq Symbols
    <3>1. /\ stage = "batches" /\ todo # <<>> /\ todo \in Seq(Batches) /\ EveryRowOnce
          /\ rows \in 0..UniverseSize
      BY <1>3 DEF BatchCompletes, RowsInv, Clear
    <3>2. 1 \in DOMAIN todo /\ Head(todo) = todo[1]
      BY <3>1
    <3>3. Covers(todo[1]) \subseteq Universe
      BY <3>1, <3>2 DEF EveryRowOnce
    <3> QED BY <3>1, <3>2, <3>3 DEF Universe, Symbols
  <2>2. PICK p \in Picks(Covers(Head(todo)), BatchTopK) : merged' = Added(merged, p)
    BY <1>3 DEF BatchCompletes
  <2>3. p \in Seq(Symbols)
    <3>1. p \in Seq(Covers(Head(todo)))
      BY <2>2, PicksSent
    <3> QED BY <2>1, <3>1
  <2>4. merged' \in Seq(Symbols)
    BY <2>2, <2>3, AddedNames DEF NamesInv
  <2> QED BY <1>1, <1>3, <2>4 DEF NamesInv, BatchCompletes, SetOf
<1>4. CASE MergeEnds
  <2>1. Partitions(merged) \in Seq(Seq(Symbols))
    BY PartitionNames DEF NamesInv
  <2>2. stage' = "partitions" => merged' # <<>>
    BY <1>4 DEF MergeEnds
  <2> QED BY <1>1, <1>4, <2>1, <2>2 DEF NamesInv, MergeEnds, SetOf
<1>5. CASE PartitionCompletes
  <2> DEFINE limit == Smaller(KeepPerGroup(Len(merged)), Len(Head(groups)))
  <2>1. groups \in Seq(Seq(Symbols)) /\ groups # <<>> /\ merged \in Seq(Symbols)
    BY <1>5 DEF NamesInv, PartitionCompletes, Clear
  <2>2. Head(groups) \in Seq(Symbols) /\ Tail(groups) \in Seq(Seq(Symbols))
    BY <2>1
  <2>3. SetOf(Head(groups)) \subseteq Symbols
    BY <2>2 DEF SetOf
  <2>4. limit \in Nat
    <3>1. Len(merged) \in Nat /\ Len(Head(groups)) \in Nat
      BY <2>1, <2>2
    <3>2. KeepPerGroup(Len(merged)) \in Nat
      <4>0. FinalMax \in Nat \ {0} /\ \A m \in Nat : \A d \in Nat \ {0} : m \div d \in Nat
        OBVIOUS
      <4> DEFINE g == GroupCount(Len(merged))
      <4>1. Len(merged) # 0
        BY <1>5, <2>1 DEF PartitionCompletes, NamesInv
      <4>2. g \in Nat \ {0}
        BY <3>1, <4>0, <4>1 DEF GroupCount
      <4> QED BY <4>0, <4>2 DEF KeepPerGroup
    <3> QED BY <3>1, <3>2 DEF Smaller
  <2>5. PICK p \in Picks(SetOf(Head(groups)), limit) : staged' = Added(staged, p)
    BY <1>5 DEF PartitionCompletes
  <2> HIDE DEF limit
  <2>6. p \in Seq(Symbols)
    <3>1. p \in Seq(SetOf(Head(groups)))
      BY <2>4, <2>5, PicksSent
    <3> QED BY <2>3, <3>1
  <2>7. staged' \in Seq(Symbols)
    BY <2>5, <2>6, AddedNames DEF NamesInv
  <2> QED BY <1>1, <1>5, <2>2, <2>7 DEF NamesInv, PartitionCompletes, SetOf
<1>6. CASE PartitionsEnd
  <2>1. Truncated(staged) \in Seq(Symbols)
    BY DEF Truncated, Smaller, NamesInv
  <2> QED BY <1>1, <1>6, <2>1 DEF NamesInv, PartitionsEnd, SetOf
<1>7. CASE GlobalCompletes
  <2>1. PICK p \in Picks(SetOf(staged), FinalTopK) : final' = p
    BY <1>7 DEF GlobalCompletes
  <2>2. SetOf(p) \subseteq Symbols
    <3>1. SetOf(p) \subseteq SetOf(staged)
      BY <2>1, PicksSent
    <3>2. SetOf(staged) \subseteq Symbols
      BY DEF NamesInv, SetOf
    <3> QED BY <3>1, <3>2
  <2>3. SetOf(final)' \subseteq Symbols
    BY <2>1, <2>2 DEF SetOf
  <2> QED BY <1>1, <1>7, <2>3 DEF NamesInv, GlobalCompletes
<1>8. CASE WholeCompletes
  <2>1. PICK p \in Picks(Universe, LunaMax) : final' = p
    BY <1>8 DEF WholeCompletes
  <2>2. SetOf(p) \subseteq Symbols
    BY <2>1, PicksSent DEF RowsInv, Universe, Symbols
  <2>3. SetOf(final)' \subseteq Symbols
    BY <2>1, <2>2 DEF SetOf
  <2> QED BY <1>1, <1>8, <2>3 DEF NamesInv, WholeCompletes
<1> QED BY <1>2, <1>3, <1>4, <1>5, <1>6, <1>7, <1>8 DEF Screen, LunaNext

-----------------------------------------------------------------------------
(* What a step after the screening does to the records.                     *)

\* Where a record comes from does not change, and evidence is never taken back.
Grown(p, q) ==
  /\ p \in RunRecords /\ q \in RunRecords
  /\ q.finals = p.finals /\ q.screened = p.screened /\ q.source = p.source
  /\ \A s \in Symbols : q.results[s] >= p.results[s]

LEMMA GrownOtherwise ==
  ASSUME NEW p \in RunRecords, NEW q \in RunRecords, q.results = p.results,
         q.finals = p.finals, q.screened = p.screened, q.source = p.source
  PROVE  Grown(p, q)
<1>1. p.results \in [Symbols -> 0..2]
  BY DEF RunRecords
<1> QED BY <1>1 DEF Grown

\* A flag of a record is no evidence.
LEMMA FlagGrows ==
  ASSUME NEW q \in RunRecords, NEW b \in BOOLEAN,
         NEW p \in {[q EXCEPT !.researched = b], [q EXCEPT !.decided = b], [q EXCEPT !.solError = b],
                    [q EXCEPT !.failed = b]}
  PROVE  Grown(q, p) /\ p.ranked = q.ranked
<1>1. /\ p \in RunRecords /\ p.results = q.results /\ p.finals = q.finals
      /\ p.screened = q.screened /\ p.source = q.source /\ p.ranked = q.ranked
  BY DEF RunRecords
<1> QED BY <1>1, GrownOtherwise

LEMMA BumpGrows ==
  ASSUME NEW q \in RunRecords, NEW S
  PROVE  /\ Grown(q, Bump(q, S)) /\ Bump(q, S).ranked = q.ranked
         /\ \A s \in S \cap Symbols : Bump(q, S).results[s] > 0
         /\ \A s \in S \cap Symbols : q.results[s] > 0 => Bump(q, S).results[s] = 2
<1> DEFINE f == [s \in Symbols |-> IF s \in S THEN Smaller(q.results[s] + 1, 2) ELSE q.results[s]]
<1>1. q.results \in [Symbols -> 0..2]
  BY DEF RunRecords
<1>2. /\ f \in [Symbols -> 0..2]
      /\ \A s \in Symbols : f[s] >= q.results[s]
      /\ \A s \in S \cap Symbols : f[s] > 0
      /\ \A s \in S \cap Symbols : q.results[s] > 0 => f[s] = 2
  BY <1>1 DEF Smaller
<1>3. Bump(q, S) = [q EXCEPT !.results = f]
  BY DEF Bump
<1> HIDE DEF f
<1> QED BY <1>2, <1>3 DEF RunRecords, Grown

\* One record changes, and grows; it is ranked only by the ranking.
Touches(ranked) ==
  /\ run' = run /\ run \in 1..MaxRuns
  /\ \A r \in 1..MaxRuns : r # run => runs'[r] = runs[r]
  /\ Grown(runs[run], runs'[run])
  /\ ranked \/ runs'[run].ranked = runs[run].ranked

LEMMA TouchesOne ==
  ASSUME GapInv, run # 0, run' = run, NEW ranked \in BOOLEAN,
         NEW q, runs' = [runs EXCEPT ![run] = q], Grown(runs[run], q),
         ranked \/ q.ranked = runs[run].ranked
  PROVE  Touches(ranked) /\ runs'[run] = q
BY RecordHere DEF Touches, GapInv

LEMMA SolTouches ==
  ASSUME GapInv,
         \/ Research \/ ToolRound \/ ToolsDecide \/ DiveCompletes \/ CommitteeDecides
         \/ SolFails \/ FailureRecorded \/ ProbeFails \/ RunEnds
  PROVE  Touches(FALSE)
<1>1. run # 0 /\ run' = run
  BY DEF Research, ToolRound, ToolsDecide, DiveCompletes, CommitteeDecides, SolFails,
     FailureRecorded, ProbeFails, RunEnds, GapInv, Deciding, Past
<1>2. run \in 1..MaxRuns /\ runs[run] \in RunRecords /\ runs \in [1..MaxRuns -> RunRecords]
  BY <1>1, RecordHere DEF GapInv
<1> DEFINE Good(q) == Grown(runs[run], q) /\ q.ranked = runs[run].ranked
<1>3. \E q : runs' = [runs EXCEPT ![run] = q] /\ Good(q)
  <2>1. CASE Research
    <3> DEFINE record == [runs[run] EXCEPT !.researched = TRUE]
    <3>0. Grown(runs[run], record) /\ record.ranked = runs[run].ranked
      BY <1>2, FlagGrows
    <3>1. record \in RunRecords /\ Grown(runs[run], record) /\ record.ranked = runs[run].ranked
      BY <3>0 DEF Grown
    <3>2. runs' = [runs EXCEPT ![run] = Bump(record, candidates)] \/ runs' = [runs EXCEPT ![run] = record]
      BY <2>1 DEF Research
    <3> HIDE DEF record
    <3>3. Good(Bump(record, candidates))
      <4>1. Grown(record, Bump(record, candidates)) /\ Bump(record, candidates).ranked = record.ranked
        BY <3>1, BumpGrows
      <4>2. \A p \in {runs[run], record, Bump(record, candidates)} : p.results \in [Symbols -> 0..2]
        BY <3>1, <4>1 DEF Grown, RunRecords
      <4> QED BY <1>2, <3>1, <4>1, <4>2 DEF Grown
    <3> QED BY <3>1, <3>2, <3>3
  <2>2. CASE ToolRound
    <3>1. PICK S : runs' = [runs EXCEPT ![run] = Bump(runs[run], S)]
      BY <1>2, <2>2 DEF ToolRound
    <3> QED BY <1>2, <3>1, BumpGrows
  <2>3. CASE DiveCompletes /\ runs' # runs
    <3>1. runs' = [runs EXCEPT ![run] = Bump(runs[run], {top[step + 1]})]
      BY <1>2, <2>3 DEF DiveCompletes
    <3> QED BY <1>2, <3>1, BumpGrows
  <2>4. CASE runs' = runs
    <3>1. runs' = [runs EXCEPT ![run] = runs[run]] /\ Good(runs[run])
      BY <1>2, <2>4 DEF Grown, RunRecords
    <3> QED BY <3>1
  <2>5. CASE ToolsDecide \/ CommitteeDecides
    <3> DEFINE q == [runs[run] EXCEPT !.decided = TRUE]
    <3>0. Good(q)
      BY <1>2, FlagGrows
    <3>1. runs' = [runs EXCEPT ![run].decided = TRUE]
      BY <2>5 DEF ToolsDecide, CommitteeDecides
    <3>2. runs' = [runs EXCEPT ![run] = q] /\ Good(q)
      BY <1>2, <3>0, <3>1 DEF RunRecords
    <3> QED BY <3>2
  <2>6. CASE FailureRecorded \/ ProbeFails
    <3>1. PICK b \in BOOLEAN : runs' = [runs EXCEPT ![run].solError = b]
      BY <2>6 DEF FailureRecorded, ProbeFails
    <3> DEFINE q == [runs[run] EXCEPT !.solError = b]
    <3>0. Good(q)
      BY <1>2, FlagGrows
    <3>2. runs' = [runs EXCEPT ![run] = q] /\ Good(q)
      BY <1>2, <3>0, <3>1 DEF RunRecords
    <3> QED BY <3>2
  <2>7. CASE Fails(runs[run])
    <3> DEFINE q == [runs[run] EXCEPT !.failed = TRUE]
    <3>0. Good(q)
      BY <1>2, FlagGrows
    <3>1. runs' = [runs EXCEPT ![run] = q] /\ Good(q)
      BY <2>7, <3>0 DEF Fails
    <3> QED BY <3>1
  <2> QED BY <2>1, <2>2, <2>3, <2>4, <2>5, <2>6, <2>7 DEF SolFails, RunEnds
<1> QED BY <1>1, <1>3, TouchesOne

\* The best candidate of a ranking has been asked about once more.
LEMMA RankingTouches ==
  ASSUME GapInv, NamesInv, RankingCompletes
  PROVE  /\ Touches(TRUE) /\ top'[1] \in candidates
         /\ runs'[run].results[top'[1]] > 0
         /\ runs[run].results[top'[1]] > 0 => runs'[run].results[top'[1]] = 2
<1>1. run # 0 /\ run' = run
  BY DEF RankingCompletes, GapInv, Deciding
<1>2. run \in 1..MaxRuns /\ runs[run] \in RunRecords /\ runs \in [1..MaxRuns -> RunRecords]
  BY <1>1, RecordHere DEF GapInv
<1> DEFINE record == [runs[run] EXCEPT !.ranked = TRUE]
           q == Bump(record, {top'[1]})
<1>3. /\ record \in RunRecords /\ record.results = runs[run].results
      /\ record.finals = runs[run].finals /\ record.screened = runs[run].screened
      /\ record.source = runs[run].source
  BY <1>2 DEF RunRecords
<1>4. runs' = [runs EXCEPT ![run] = q]
  BY <1>2 DEF RankingCompletes
<1>5. top'[1] \in candidates /\ top'[1] \in Symbols
  <2>1. top' \in Rankings /\ 1 \in 1..TopCount
    BY DEF RankingCompletes
  <2>2. top'[1] \in candidates
    BY <2>1 DEF Rankings, SetOf
  <2> QED BY <2>2 DEF NamesInv
<1> HIDE DEF record
<1>6. /\ Grown(record, q)
      /\ q.results[top'[1]] > 0
      /\ record.results[top'[1]] > 0 => q.results[top'[1]] = 2
  BY <1>3, <1>5, BumpGrows
<1> HIDE DEF q
<1>7. Grown(runs[run], q)
  BY <1>2, <1>3, <1>6 DEF Grown
<1>8. Touches(TRUE) /\ runs'[run] = q
  BY <1>1, <1>4, <1>7, TouchesOne
<1> QED BY <1>3, <1>5, <1>6, <1>8

\* A run that begins finds a record nothing was written to.
LEMMA BeginsAnew ==
  ASSUME GapInv, \A r \in 1..MaxRuns : r > run => runs[r] = NoRun, Start \/ StartFails \/ Resume
  PROVE  /\ run' = run + 1 /\ run' \in 1..MaxRuns /\ run \in Nat
         /\ \A r \in 1..MaxRuns : r # run' => runs'[r] = runs[r]
         /\ runs'[run'].finals = {} /\ ~ runs'[run'].ranked
         /\ ~ Resume => runs'[run'].source = 0
         /\ Resume => runs'[run'].source \in 1..run /\ Resumable(runs'[run'].source)
                      /\ candidates' = runs[runs'[run'].source].finals
<1>1. run' = run + 1 /\ run' \in 1..MaxRuns /\ run \in Nat
  BY DEF Start, StartFails, Resume, GapInv
<1>2. runs \in [1..MaxRuns -> RunRecords] /\ runs[run + 1] = NoRun /\ runs[run + 1] \in RunRecords
  BY <1>1 DEF GapInv
<1>3. CASE Start
  <2>1. runs' = runs /\ at' # "ranking"
    BY <1>3 DEF Start
  <2>2. ~ Resume
    BY <2>1 DEF Resume
  <2> QED BY <1>1, <1>2, <2>1, <2>2 DEF NoRun
<1>4. CASE StartFails
  <2> DEFINE q == [NoRun EXCEPT !.failed = TRUE]
  <2>1. runs' = [runs EXCEPT ![run + 1] = q]
    BY <1>2, <1>4 DEF StartFails, RunRecords
  <2>2. q.finals = {} /\ ~ q.ranked /\ q.source = 0
    BY DEF NoRun
  <2>3. ~ Resume
    BY <1>4 DEF StartFails, Resume
  <2> QED BY <1>1, <1>2, <2>1, <2>2, <2>3
<1>5. CASE Resume
  <2>1. PICK r \in 1..run :
          /\ Resumable(r) /\ candidates' = runs[r].finals
          /\ runs' = [runs EXCEPT ![run + 1].researched = TRUE, ![run + 1].source = r]
    BY <1>5 DEF Resume
  <2> DEFINE q == [NoRun EXCEPT !.researched = TRUE, !.source = r]
  <2>2. runs' = [runs EXCEPT ![run + 1] = q]
    BY <1>1, <1>2, <2>1 DEF RunRecords
  <2>3. q.finals = {} /\ ~ q.ranked /\ q.source = r
    BY DEF NoRun
  <2> QED BY <1>1, <1>2, <1>5, <2>1, <2>2, <2>3
<1> QED BY <1>3, <1>4, <1>5

\* The steps that end a screening write its outcome.
LEMMA ScreeningWrites ==
  ASSUME GapInv, ScreeningCompletes \/ ScreeningFallsBack \/ ScreeningFailsRun
  PROVE  /\ run' = run /\ run \in 1..MaxRuns
         /\ \A r \in 1..MaxRuns : r # run => runs'[r] = runs[r]
         /\ runs'[run].source = runs[run].source /\ runs'[run].ranked = runs[run].ranked
         /\ ~ ScreeningCompletes => runs'[run].finals = runs[run].finals
         /\ ScreeningCompletes => /\ runs'[run].finals \in {{}, candidates'}
                                  /\ runs'[run].screened = "complete"
<1>1. run # 0 /\ run' = run
  BY DEF ScreeningCompletes, ScreeningFallsBack, ScreeningFailsRun, GapInv
<1>2. run \in 1..MaxRuns /\ runs[run] \in RunRecords /\ runs \in [1..MaxRuns -> RunRecords]
  BY <1>1, RecordHere DEF GapInv
<1>3. CASE ScreeningCompletes
  <2> DEFINE f == IF rows < BatchSize THEN {} ELSE SetOf(final)
             q == [runs[run] EXCEPT !.screened = "complete", !.finals = f]
  <2>1. runs' = [runs EXCEPT ![run].screened = "complete", ![run].finals = f] /\ f \in {{}, candidates'}
    BY <1>3 DEF ScreeningCompletes
  <2> HIDE DEF f
  <2>2. runs' = [runs EXCEPT ![run] = q]
    BY <1>2, <2>1 DEF RunRecords
  <2>3. /\ q.finals = f /\ q.screened = "complete"
        /\ q.source = runs[run].source /\ q.ranked = runs[run].ranked
    BY <1>2 DEF RunRecords
  <2> QED BY <1>1, <1>2, <1>3, <2>1, <2>2, <2>3
<1>4. CASE ScreeningFallsBack
  <2>1. runs' = [runs EXCEPT ![run].screened = stage] /\ ~ ScreeningCompletes
    BY <1>4 DEF ScreeningFallsBack, ScreeningCompletes
  <2> QED BY <1>1, <1>2, <2>1 DEF RunRecords
<1>5. CASE ScreeningFailsRun
  <2> DEFINE q == [[runs[run] EXCEPT !.screened = stage] EXCEPT !.failed = TRUE]
  <2>1. runs' = [runs EXCEPT ![run] = q] /\ ~ ScreeningCompletes
    BY <1>5 DEF ScreeningFailsRun, Fails, ScreeningCompletes
  <2>2. q.finals = runs[run].finals /\ q.source = runs[run].source /\ q.ranked = runs[run].ranked
    BY <1>2 DEF RunRecords
  <2> QED BY <1>1, <1>2, <2>1, <2>2
<1> QED BY <1>3, <1>4, <1>5

LEMMA NamesSteps ==
  ASSUME NamesInv, RowsInv, GapInv, \A r \in 1..MaxRuns : r > run => runs[r] = NoRun, [Next]_vars
  PROVE  NamesInv'
<1> DEFINE Luna == /\ merged \in Seq(Symbols) /\ groups \in Seq(Seq(Symbols))
                   /\ staged \in Seq(Symbols) /\ SetOf(final) \subseteq Symbols
                   /\ stage = "partitions" => merged # <<>>
           Finals == \A r \in 1..MaxRuns : runs[r].finals \subseteq Symbols
<1>1. UNCHANGED luna \/ LunaOver => Luna'
  <2>1. CASE UNCHANGED luna
    BY <2>1 DEF luna, NamesInv, SetOf
  <2>2. CASE LunaOver
    BY <2>2 DEF LunaOver, SetOf
  <2> QED BY <2>1, <2>2
<1>2. CASE Screen
  BY <1>2, NamesScreen
<1>3. CASE ScreeningCompletes \/ ScreeningFallsBack \/ ScreeningFailsRun
  <2>1. Luna'
    BY <1>1, <1>3 DEF ScreeningCompletes, ScreeningFallsBack, ScreeningFailsRun
  <2>2. candidates' \subseteq Symbols
    <3>1. CASE ScreeningCompletes
      BY <3>1 DEF ScreeningCompletes, NamesInv
    <3>2. CASE ScreeningFallsBack
      <4>1. candidates' = 1 .. Smaller(rows, SolOnlyMax)
        BY <3>2 DEF ScreeningFallsBack, FirstRows
      <4> QED BY <4>1 DEF Smaller, RowsInv, Symbols
    <3>3. CASE ScreeningFailsRun
      BY <3>3 DEF ScreeningFailsRun, Over
    <3> QED BY <1>3, <3>1, <3>2, <3>3
  <2>3. Finals'
    BY <1>3, <2>2, ScreeningWrites DEF NamesInv
  <2> QED BY <2>1, <2>2, <2>3 DEF NamesInv
<1>4. CASE Start \/ StartFails \/ Resume
  <2>1. Luna'
    BY <1>4 DEF Start, StartFails, Resume, NamesInv, luna
  <2>2. Finals'
    BY <1>4, BeginsAnew DEF NamesInv
  <2>3. candidates' \subseteq Symbols
    <3>1. CASE Start
      BY <3>1 DEF Start, Smaller, Symbols
    <3>2. CASE StartFails
      BY <3>2 DEF StartFails, sol, NamesInv
    <3>3. CASE Resume
      <4>1. candidates' = runs[runs'[run'].source].finals /\ runs'[run'].source \in 1..run
            /\ run + 1 \in 1..MaxRuns /\ run \in Nat
        BY <3>3, BeginsAnew
      <4>2. runs'[run'].source \in 1..MaxRuns
        BY <4>1
      <4> QED BY <4>1, <4>2 DEF NamesInv
    <3> QED BY <1>4, <3>1, <3>2, <3>3
  <2> QED BY <2>1, <2>2, <2>3 DEF NamesInv
<1>5. CASE \/ Research \/ ToolRound \/ ToolsDecide \/ DiveCompletes \/ CommitteeDecides
           \/ SolFails \/ FailureRecorded \/ ProbeFails \/ RunEnds \/ RankingCompletes
  <2>1. UNCHANGED luna /\ candidates' \in {candidates, {}}
    BY <1>5 DEF Research, ToolRound, ToolsDecide, DiveCompletes, CommitteeDecides, SolFails,
       FailureRecorded, ProbeFails, RunEnds, RankingCompletes, Over, sol
  <2>2. \E b \in BOOLEAN : Touches(b)
    BY <1>5, SolTouches, RankingTouches
  <2>3. Finals'
    BY <2>2 DEF Touches, Grown, NamesInv
  <2> QED BY <1>1, <2>1, <2>3 DEF NamesInv
<1>6. CASE Crash
  BY <1>1, <1>6 DEF Crash, NamesInv
<1>7. CASE UNCHANGED vars
  BY <1>1, <1>7 DEF vars, sol, NamesInv
<1> QED BY <1>2, <1>3, <1>4, <1>5, <1>6, <1>7 DEF Next

-----------------------------------------------------------------------------
(* What a decision buys.                                                    *)

\* A deep research: its best candidates, and the evidence asked for so far.
DeepInv ==
  /\ at \in {"dives", "committee"} =>
       /\ top \in Rankings
       /\ step \in 1..TopCount /\ (at = "committee" => step = TopCount)
       /\ \A i \in 1..step : runs[run].results[top[i]] > 0
  /\ at \notin {"dives", "committee", "decided", "solFailed"} => top = <<>>
  /\ BoughtWasCompared

LEMMA DeepSteps ==
  ASSUME DeepInv, GapInv, NamesInv, [Next]_vars
  PROVE  DeepInv'
<1>1. CASE UNCHANGED <<at, top, step, candidates, bought, run, runs>>
  BY <1>1 DEF DeepInv, BoughtWasCompared, Comparative, SetOf, Rankings
<1>2. CASE at' \notin {"dives", "committee", "decided"} /\ (top' = <<>> \/ at' = "solFailed")
  BY <1>2 DEF DeepInv, BoughtWasCompared
<1>3. CASE RankingCompletes
  <2>1. /\ top' \in Rankings /\ step' = 1 /\ at' = "dives" /\ candidates' = candidates
    BY <1>3 DEF RankingCompletes
  <2>2. Touches(TRUE) /\ runs'[run].results[top'[1]] > 0
    BY <1>3, RankingTouches
  <2>3. \A i \in 1..step' : runs'[run'].results[top'[i]] > 0
    BY <2>1, <2>2 DEF Touches
  <2>4. (top \in Rankings)'
    BY <2>1 DEF Rankings, SetOf
  <2> QED BY <2>1, <2>3, <2>4 DEF DeepInv, BoughtWasCompared
<1>4. CASE DiveCompletes
  <2>1. /\ top \in Rankings /\ step \in 1..TopCount /\ top' = top /\ candidates' = candidates
        /\ \A i \in 1..step : runs[run].results[top[i]] > 0
        /\ run' = run /\ run # 0
    BY <1>4 DEF DiveCompletes, DeepInv, GapInv, Deciding
  <2>2. (top \in Rankings)'
    BY <2>1 DEF Rankings, SetOf
  <2>3. \A i \in 1..TopCount : top[i] \in Symbols
    BY <2>1 DEF Rankings, SetOf, NamesInv
  <2>4. runs \in [1..MaxRuns -> RunRecords] /\ run \in 1..MaxRuns /\ runs[run] \in RunRecords
    BY <2>1, RecordHere DEF GapInv
  <2>5. CASE step < TopCount
    <3> DEFINE q == Bump(runs[run], {top[step + 1]})
    <3>1. step' = step + 1 /\ at' = "dives" /\ runs' = [runs EXCEPT ![run] = q]
      BY <1>4, <2>5 DEF DiveCompletes
    <3>2. step + 1 \in 1..TopCount /\ top[step + 1] \in Symbols
      BY <2>1, <2>3, <2>5
    <3>3. Grown(runs[run], q) /\ q.results[top[step + 1]] > 0
      BY <2>4, <3>2, BumpGrows
    <3> HIDE DEF q
    <3>4. runs'[run] = q
      BY <2>4, <3>1
    <3>5. ASSUME NEW i \in 1..(step + 1) PROVE q.results[top[i]] > 0
      <4>1. CASE i = step + 1
        BY <3>3, <4>1
      <4>2. CASE i # step + 1
        <5>1. i \in 1..step /\ i \in 1..TopCount
          BY <2>1, <2>5, <4>2
        <5>2. runs[run].results[top[i]] > 0 /\ q.results[top[i]] >= runs[run].results[top[i]]
          BY <2>1, <2>3, <3>3, <5>1 DEF Grown
        <5>3. runs[run].results[top[i]] \in Nat /\ q.results[top[i]] \in Nat
          BY <2>3, <3>3, <5>1 DEF Grown, RunRecords
        <5> QED BY <5>2, <5>3
      <4> QED BY <4>1, <4>2
    <3> QED BY <2>1, <2>2, <3>1, <3>2, <3>4, <3>5 DEF DeepInv, BoughtWasCompared
  <2>6. CASE step = TopCount
    <3>1. at' = "committee" /\ step' = step /\ runs' = runs
      BY <1>4, <2>6 DEF DiveCompletes
    <3> QED BY <2>1, <2>2, <2>6, <3>1 DEF DeepInv, BoughtWasCompared
  <2> QED BY <1>4, <2>5, <2>6 DEF DiveCompletes
<1>5. CASE CommitteeDecides
  <2>1. /\ top \in Rankings /\ step = TopCount /\ top' = top /\ candidates' = candidates
        /\ \A i \in 1..TopCount : runs[run].results[top[i]] > 0
        /\ at' = "decided" /\ run # 0
    BY <1>5 DEF CommitteeDecides, DeepInv, GapInv, Deciding
  <2>2. bought' = None \/ bought' \in SetOf(top)
    <3>1. PICK named \in Named \cup {None} : bought' \in Selection(named)
      BY <1>5 DEF CommitteeDecides
    <3>2. DOMAIN top = 1..TopCount /\ top[1] \in SetOf(top)
      BY <2>1 DEF Rankings, SetOf
    <3> QED BY <3>1, <3>2 DEF Selection
  <2>3. SetOf(top) \subseteq candidates /\ SetOf(top') = SetOf(top)
    BY <2>1 DEF Rankings, SetOf
  <2>4. \A s \in SetOf(top) : s \in Symbols /\ runs[run].results[s] > 0
    BY <2>1, <2>3 DEF Rankings, SetOf, NamesInv
  <2>5. Touches(FALSE)
    BY <1>5, SolTouches
  <2>6. \A s \in SetOf(top) : runs'[run'].results[s] > 0
    <3> TAKE s \in SetOf(top)
    <3>1. /\ runs[run].results[s] > 0 /\ runs'[run].results[s] >= runs[run].results[s]
          /\ runs[run].results[s] \in Nat /\ runs'[run].results[s] \in Nat
      BY <2>4, <2>5 DEF Touches, Grown, RunRecords
    <3> QED BY <2>5, <3>1 DEF Touches
  <2>7. BoughtWasCompared'
    BY <2>1, <2>2, <2>3, <2>6 DEF BoughtWasCompared
  <2> QED BY <2>1, <2>7 DEF DeepInv
<1>6. CASE ToolsDecide
  <2>1. top' = <<>> /\ at' = "decided" /\ candidates' = candidates
    BY <1>6 DEF ToolsDecide, DeepInv
  <2>2. bought' # None /\ Comparative => bought' \in candidates
    BY <1>6 DEF ToolsDecide, Compared
  <2>3. BoughtWasCompared'
    BY <2>1, <2>2 DEF BoughtWasCompared, Comparative
  <2> QED BY <2>1, <2>3 DEF DeepInv
<1>7. CASE Screen
  BY <1>1, <1>7 DEF Screen, sol
<1>8. CASE Start \/ StartFails \/ Resume
  <2>1. top' = top /\ at \in {"idle", "restarted"}
        /\ at' \in {"screening", "candidates", "idle", "ranking"}
    BY <1>8 DEF Start, StartFails, Resume, sol
  <2> QED BY <1>2, <2>1 DEF DeepInv
<1>9. CASE ScreeningCompletes \/ ScreeningFallsBack \/ ScreeningFailsRun
  BY <1>2, <1>9 DEF ScreeningCompletes, ScreeningFallsBack, ScreeningFailsRun, Over, DeepInv
<1>10. CASE Research \/ ToolRound
  <2>1. top' = top /\ at \in {"candidates", "tools"} /\ at' \in {"ranking", "tools"}
    BY <1>10 DEF Research, ToolRound, sol
  <2> QED BY <1>2, <2>1 DEF DeepInv
<1>11. CASE SolFails \/ FailureRecorded \/ RunEnds \/ Crash
  BY <1>2, <1>11 DEF SolFails, FailureRecorded, RunEnds, Crash, Over
<1>12. CASE ProbeFails
  <2>1. top' = top /\ at = "idle" /\ at' = at
    BY <1>12 DEF ProbeFails, sol
  <2> QED BY <1>2, <2>1 DEF DeepInv
<1>13. CASE UNCHANGED vars
  BY <1>1, <1>13 DEF vars, sol
<1> QED BY <1>3, <1>4, <1>5, <1>6, <1>7, <1>8, <1>9, <1>10, <1>11, <1>12, <1>13 DEF Next

-----------------------------------------------------------------------------
(* What may be resumed.                                                     *)

\* What may be resumed: a run with candidates compared as a whole is no resumed
\* one, and once its ranking is complete the evidence of the first is doubled.
ResumeInv ==
  /\ \A r \in 1..MaxRuns : r > run => runs[r] = NoRun
  /\ \A r \in 1..run : runs[r].finals # {} => runs[r].screened = "complete" /\ runs[r].source = 0
  /\ \A r \in 1..run : runs[r].finals # {} /\ runs[r].ranked =>
       \E s \in runs[r].finals : runs[r].results[s] = 2
  /\ at = "screening" => runs[run].finals = {} /\ runs[run].source = 0 /\ ~ runs[run].ranked
  /\ at \in {"candidates", "ranking"} => runs[run].finals \in {{}, candidates} /\ ~ runs[run].ranked
  /\ at = "ranking" => \A s \in runs[run].finals : runs[run].results[s] > 0
  /\ ResumedWhereItFailed

\* A run that may be resumed was not ranked: its evidence would be doubled.
LEMMA ResumableFailed ==
  ASSUME ResumeInv, GapInv, NEW r \in 1..run, Resumable(r)
  PROVE  /\ runs[r].failed /\ ~ runs[r].decided /\ ~ runs[r].ranked
         /\ runs[r].screened = "complete" /\ runs[r].source = 0
<1>1. runs[r].failed /\ ~ runs[r].decided /\ runs[r].finals # {}
  BY DEF Resumable, Failed
<1>2. \A s \in runs[r].finals : runs[r].results[s] = 1
  BY DEF Resumable, EvidenceOnce
<1> QED BY <1>1, <1>2 DEF ResumeInv

LEMMA ResumeBegins ==
  ASSUME ResumeInv, GapInv, Start \/ StartFails \/ Resume
  PROVE  ResumeInv'
<1>1. /\ run' = run + 1 /\ run' \in 1..MaxRuns /\ run \in Nat
      /\ \A r \in 1..MaxRuns : r # run' => runs'[r] = runs[r]
      /\ runs'[run'].finals = {} /\ ~ runs'[run'].ranked
      /\ ~ Resume => runs'[run'].source = 0
      /\ Resume => runs'[run'].source \in 1..run /\ Resumable(runs'[run'].source)
                   /\ candidates' = runs[runs'[run'].source].finals
  BY BeginsAnew DEF ResumeInv
<1>2. \A r \in 1..MaxRuns : r > run' => runs'[r] = NoRun
  BY <1>1 DEF ResumeInv
<1>3. \A r \in 1..run' : r = run' \/ (r \in 1..run /\ r \in 1..MaxRuns /\ runs'[r] = runs[r])
  BY <1>1
<1>4. ResumedWhereItFailed'
  <2> SUFFICES ASSUME NEW r \in 1..run', NEW q, q = runs'[r].source, q # 0
               PROVE  /\ q < r /\ runs'[q].failed /\ ~ runs'[q].decided /\ ~ runs'[q].ranked
                      /\ runs'[q].screened = "complete" /\ runs'[q].source = 0
    BY DEF ResumedWhereItFailed
  <2>1. CASE r = run'
    <3>1. q \in 1..run /\ Resumable(q) /\ q < r
      BY <1>1, <2>1
    <3>2. runs'[q] = runs[q]
      BY <1>1, <1>3, <3>1
    <3> QED BY <3>1, <3>2, ResumableFailed
  <2>2. CASE r \in 1..run /\ runs'[r] = runs[r]
    <3>1. /\ q < r /\ runs[q].failed /\ ~ runs[q].decided /\ ~ runs[q].ranked
          /\ runs[q].screened = "complete" /\ runs[q].source = 0
      BY <2>2 DEF ResumeInv, ResumedWhereItFailed
    <3>2. q \in 0..MaxRuns /\ r \in 1..MaxRuns /\ q # run'
      BY <1>1, <2>2, <3>1 DEF GapInv, RunRecords
    <3>3. runs'[q] = runs[q]
      BY <1>1, <3>2
    <3> QED BY <3>1, <3>3
  <2> QED BY <1>3, <2>1, <2>2
<1>5. at' = "screening" => ~ Resume
  BY DEF Resume
<1>6. at' \notin {"candidates", "ranking", "screening"} \/ runs'[run'].finals = {}
  BY <1>1
<1> QED BY <1>1, <1>2, <1>3, <1>4, <1>5, <1>6 DEF ResumeInv

\* What a step on the record of the run under way leaves to check.
LEMMA ResumeTouches ==
  ASSUME ResumeInv, GapInv, NEW ranked \in BOOLEAN, Touches(ranked), at' # "screening",
         at' = "candidates" => at = "candidates" /\ candidates' = candidates /\ ~ ranked,
         at' = "ranking" => /\ at \in {"candidates", "ranking"} /\ candidates' = candidates /\ ~ ranked
                            /\ \A s \in runs'[run].finals : runs'[run].results[s] > 0,
         ranked => \A s \in runs[run].finals \cap {top'[1]} : runs'[run].results[s] = 2,
         ranked /\ runs[run].finals # {} => top'[1] \in runs[run].finals,
         NamesInv
  PROVE  ResumeInv'
<1>1. /\ run' = run /\ run \in 1..MaxRuns
      /\ \A r \in 1..MaxRuns : r # run => runs'[r] = runs[r]
      /\ Grown(runs[run], runs'[run])
  BY DEF Touches
<1>2. /\ runs'[run].finals = runs[run].finals /\ runs'[run].screened = runs[run].screened
      /\ runs'[run].source = runs[run].source
      /\ \A s \in Symbols : runs'[run].results[s] >= runs[run].results[s]
      /\ \A s \in Symbols : runs'[run].results[s] \in 0..2 /\ runs[run].results[s] \in 0..2
  BY <1>1 DEF Grown, RunRecords
<1>3. \A r \in 1..run' : r \in 1..MaxRuns
  BY <1>1
<1>4. \A r \in 1..MaxRuns : r > run' => runs'[r] = NoRun
  BY <1>1 DEF ResumeInv
<1>5. \A r \in 1..run' : runs'[r].finals # {} => runs'[r].screened = "complete" /\ runs'[r].source = 0
  BY <1>1, <1>2, <1>3 DEF ResumeInv
<1>6. ASSUME NEW r \in 1..run', runs'[r].finals # {}, runs'[r].ranked
      PROVE  \E s \in runs'[r].finals : runs'[r].results[s] = 2
  <2>1. CASE r # run
    BY <1>1, <1>3, <1>6, <2>1 DEF ResumeInv
  <2>2. CASE r = run /\ ranked
    BY <1>2, <1>6, <2>2
  <2>3. CASE r = run /\ ~ ranked
    <3>1. runs[run].ranked /\ runs[run].finals # {} /\ run \in 1..run
      BY <1>1, <1>2, <1>6, <2>3 DEF Touches
    <3>2. PICK s \in runs[run].finals : runs[run].results[s] = 2
      BY <3>1 DEF ResumeInv
    <3>3. s \in Symbols
      BY <1>1, <3>2 DEF NamesInv
    <3>4. runs'[run].results[s] = 2
      BY <1>2, <3>2, <3>3
    <3> QED BY <1>2, <2>3, <3>2, <3>4
  <2> QED BY <2>1, <2>2, <2>3
<1>7. ResumedWhereItFailed'
  <2> SUFFICES ASSUME NEW r \in 1..run', NEW q, q = runs'[r].source, q # 0
               PROVE  /\ q < r /\ runs'[q].failed /\ ~ runs'[q].decided /\ ~ runs'[q].ranked
                      /\ runs'[q].screened = "complete" /\ runs'[q].source = 0
    BY DEF ResumedWhereItFailed
  <2>1. q = runs[r].source /\ r \in 1..run /\ r \in 1..MaxRuns
    BY <1>1, <1>2
  <2>2. /\ q < r /\ runs[q].failed /\ ~ runs[q].decided /\ ~ runs[q].ranked
        /\ runs[q].screened = "complete" /\ runs[q].source = 0
    BY <2>1 DEF ResumeInv, ResumedWhereItFailed
  <2>3. q \in 0..MaxRuns
    BY <2>1 DEF GapInv, RunRecords
  <2>4. q \in 1..MaxRuns /\ q # run
    BY <1>1, <2>1, <2>2, <2>3
  <2> QED BY <1>1, <2>2, <2>4
<1>8. at' \in {"candidates", "ranking"} =>
        runs'[run'].finals \in {{}, candidates'} /\ ~ runs'[run'].ranked
  BY <1>1, <1>2 DEF ResumeInv, Touches
<1> QED BY <1>1, <1>4, <1>5, <1>6, <1>7, <1>8 DEF ResumeInv

LEMMA ResearchAsks ==
  ASSUME ResumeInv, GapInv, NamesInv, Research, at' = "ranking"
  PROVE  \A s \in runs'[run].finals : runs'[run].results[s] > 0
<1>1. run # 0 /\ at = "candidates"
  BY DEF Research, GapInv, Deciding
<1>2. run \in 1..MaxRuns /\ runs[run] \in RunRecords /\ runs \in [1..MaxRuns -> RunRecords]
  BY <1>1, RecordHere DEF GapInv
<1> DEFINE record == [runs[run] EXCEPT !.researched = TRUE]
           q == Bump(record, candidates)
<1>3. runs' = [runs EXCEPT ![run] = q]
  BY DEF Research
<1>4. record \in RunRecords
  BY <1>2 DEF RunRecords
<1> HIDE DEF record
<1>5. \A s \in candidates \cap Symbols : q.results[s] > 0
  BY <1>4, BumpGrows
<1>6. runs'[run] = q
  BY <1>2, <1>3
<1>7. runs'[run].finals = runs[run].finals
  BY SolTouches DEF Touches, Grown
<1> HIDE DEF q
<1>8. runs[run].finals \subseteq candidates /\ candidates \subseteq Symbols
  BY <1>1 DEF ResumeInv, NamesInv
<1> QED BY <1>5, <1>6, <1>7, <1>8

LEMMA ResumeSteps ==
  ASSUME ResumeInv, GapInv, NamesInv, [Next]_vars
  PROVE  ResumeInv'
<1>1. CASE UNCHANGED <<at, candidates, run, runs>>
  BY <1>1 DEF ResumeInv, ResumedWhereItFailed
<1>2. CASE Start \/ StartFails \/ Resume
  BY <1>2, ResumeBegins
<1>3. CASE Screen
  BY <1>1, <1>3 DEF Screen, sol
<1>4. CASE ScreeningCompletes \/ ScreeningFallsBack \/ ScreeningFailsRun
  <2>1. /\ run' = run /\ run \in 1..MaxRuns
        /\ \A r \in 1..MaxRuns : r # run => runs'[r] = runs[r]
        /\ runs'[run].source = 0 /\ ~ runs'[run].ranked
        /\ ~ ScreeningCompletes => runs'[run].finals = {}
        /\ ScreeningCompletes => /\ runs'[run].finals \in {{}, candidates'}
                                 /\ runs'[run].screened = "complete"
    <3>1. at = "screening"
      BY <1>4 DEF ScreeningCompletes, ScreeningFallsBack, ScreeningFailsRun
    <3> QED BY <1>4, <3>1, ScreeningWrites DEF ResumeInv
  <2>2. at' \in {"candidates", "idle"}
    BY <1>4 DEF ScreeningCompletes, ScreeningFallsBack, ScreeningFailsRun, Over
  <2>3. ResumedWhereItFailed'
    <3> SUFFICES ASSUME NEW r \in 1..run, NEW q, q = runs'[r].source, q # 0
                 PROVE  /\ q < r /\ runs'[q].failed /\ ~ runs'[q].decided /\ ~ runs'[q].ranked
                        /\ runs'[q].screened = "complete" /\ runs'[q].source = 0
      BY <2>1 DEF ResumedWhereItFailed
    <3>1. q = runs[r].source /\ r \in 1..MaxRuns
      BY <2>1
    <3>2. /\ q < r /\ runs[q].failed /\ ~ runs[q].decided /\ ~ runs[q].ranked
          /\ runs[q].screened = "complete" /\ runs[q].source = 0
      BY <3>1 DEF ResumeInv, ResumedWhereItFailed
    <3>3. q \in 0..MaxRuns
      BY <3>1 DEF GapInv, RunRecords
    <3>4. q \in 1..MaxRuns /\ q # run
      BY <2>1, <3>1, <3>2, <3>3
    <3> QED BY <2>1, <3>2, <3>4
  <2>4. \A r \in 1..run : r \in 1..MaxRuns
    BY <2>1
  <2>5. runs'[run].finals # {} => runs'[run].screened = "complete" /\ runs'[run].source = 0
    BY <2>1
  <2>6. at' = "candidates" => runs'[run].finals \in {{}, candidates'} /\ ~ runs'[run].ranked
    BY <2>1
  <2> QED BY <2>1, <2>2, <2>3, <2>4, <2>5, <2>6 DEF ResumeInv
<1>5. CASE Research
  <2>1. /\ at = "candidates" /\ at' \in {"tools", "ranking"} /\ candidates' = candidates
    BY <1>5 DEF Research, sol
  <2> QED BY <1>5, <2>1, SolTouches, ResearchAsks, ResumeTouches
<1>6. CASE RankingCompletes
  <2>1. at = "ranking" /\ at' = "dives"
    BY <1>6 DEF RankingCompletes
  <2>2. /\ Touches(TRUE) /\ top'[1] \in candidates
        /\ runs[run].results[top'[1]] > 0 => runs'[run].results[top'[1]] = 2
    BY <1>6, RankingTouches
  <2>3. /\ runs[run].finals # {} => top'[1] \in runs[run].finals
        /\ \A s \in runs[run].finals : runs[run].results[s] > 0
    BY <2>1, <2>2 DEF ResumeInv
  <2> QED BY <2>1, <2>2, <2>3, ResumeTouches
<1>7. CASE \/ ToolRound \/ ToolsDecide \/ DiveCompletes \/ CommitteeDecides
           \/ SolFails \/ FailureRecorded \/ ProbeFails \/ RunEnds
  <2>1. at' \notin {"screening", "candidates", "ranking"}
    BY <1>7 DEF ToolRound, ToolsDecide, DiveCompletes, CommitteeDecides, SolFails, FailureRecorded,
       ProbeFails, RunEnds, Over
  <2> QED BY <1>7, <2>1, SolTouches, ResumeTouches
<1>8. CASE Crash
  <2>1. UNCHANGED <<run, runs>> /\ at' = "restarted"
    BY <1>8 DEF Crash
  <2> QED BY <2>1 DEF ResumeInv, ResumedWhereItFailed
<1>9. CASE UNCHANGED vars
  BY <1>1, <1>9 DEF vars, sol
<1> QED BY <1>2, <1>3, <1>4, <1>5, <1>6, <1>7, <1>8, <1>9 DEF Next

\* The parts of the invariant lean on each other.
PipelineInv == GapInv /\ FinalInv /\ RowsInv /\ NamesInv /\ DeepInv /\ ResumeInv

LEMMA PipelineStarts == Init => PipelineInv
<1> SUFFICES ASSUME Init PROVE PipelineInv
  OBVIOUS
<1>1. \A r \in 1..MaxRuns : runs[r] = NoRun
  BY DEF Init
<1>2. NamesInv
  BY <1>1 DEF Init, LunaInit, Clear, NamesInv, NoRun, SetOf
<1>3. DeepInv
  BY DEF Init, DeepInv, BoughtWasCompared
<1>4. ResumeInv
  BY <1>1 DEF Init, ResumeInv, ResumedWhereItFailed
<1> QED BY <1>2, <1>3, <1>4, GapStarts, RowsStart DEF PipelineInv

THEOREM PipelineInvariant == Spec => []PipelineInv
<1>1. PipelineInv /\ [Next]_vars => PipelineInv'
  <2> SUFFICES ASSUME PipelineInv, [Next]_vars PROVE PipelineInv'
    OBVIOUS
  <2>1. \A r \in 1..MaxRuns : r > run => runs[r] = NoRun
    BY DEF PipelineInv, ResumeInv
  <2> QED BY <2>1, GapSteps, FinalSteps, RowsSteps, NamesSteps, DeepSteps, ResumeSteps DEF PipelineInv
<1> QED BY <1>1, PipelineStarts, PTL DEF Spec

\* Whatever Luna picked, however the screening fell back and whatever Sol
\* named: the decision buys what was compared, and after a deep research only
\* what the research went into.
THEOREM BuysOnlyCompared == Spec => []BoughtWasCompared
<1>1. PipelineInv => BoughtWasCompared
  BY DEF PipelineInv, DeepInv
<1> QED BY <1>1, PipelineInvariant, PTL

\* Only a run that failed in Sol's hands before its ranking was complete is
\* resumed, and no resumed run is resumed again.
THEOREM ResumesWhereItFailed == Spec => []ResumedWhereItFailed
<1>1. PipelineInv => ResumedWhereItFailed
  BY DEF PipelineInv, ResumeInv
<1> QED BY <1>1, PipelineInvariant, PTL

=============================================================================
