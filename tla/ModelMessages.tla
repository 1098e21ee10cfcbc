--------------------------- MODULE ModelMessages ---------------------------
(***************************************************************************)
(* A response of the API becomes output items and run items, and those     *)
(* the input of the next request: parse_responses_response,                *)
(* parse_chat_completions_response, openai_response_input_item and         *)
(* openai_chat_messages of agents-openai, models.rs, with the conversions  *)
(* of agents-core in between (turn_resolution.rs, items.rs).  Also what    *)
(* counts as the response of a request over a websocket.                   *)
(*                                                                         *)
(* A text is a model value.  A string field is "absent", "empty" or a      *)
(* value; the text of an argument is a JSON object, no JSON at all, null,  *)
(* or one of these in quotes.  What is sent on as JSON has a content and   *)
(* something beside it, such as a refusal; a "bare_message" is a message   *)
(* without a content.                                                      *)
(***************************************************************************)
EXTENDS Naturals, Sequences, FiniteSetsExt, SequencesExt, ItemSelection

(* first_non_empty_string: the first field that is there, unless it is     *)
(* empty; the fields after it are not looked at.                           *)
FirstNonEmptyString(first, second) ==
    LET found == IF first # "absent" THEN first ELSE second
    IN IF found = "empty" THEN "absent" ELSE found
OrEmpty(field) == IF field = "absent" THEN "empty" ELSE field

(* parse_json_maybe_string and serialize_json_argument.                    *)
ParseArguments(text) ==
    CASE text = "absent" -> "null"
      [] text = "quoted" -> "string plain"
      [] text = "plain" -> "string plain"
      [] text = "quoted object" -> "string object"
      [] OTHER -> text
SerializeArguments(value) ==
    CASE value = "string plain" -> "plain"
      [] value = "string object" -> "object"
      [] OTHER -> value

-----------------------------------------------------------------------------
(* From a response to output items.                                        *)

Text(t) == [kind |-> "text", text |-> t]
Json(what, beside) == [kind |-> "json", text |-> what, beside |-> beside]
Reasoning(t) == [kind |-> "reasoning", text |-> t]
Call(id, name, arguments) ==
    [kind |-> "call", id |-> id, name |-> name, arguments |-> arguments]

(* parse_responses_response: one item of a response.  The parts of a       *)
(* message are texts, or "absent" where a part has none: such a part, a    *)
(* refusal too, is lost beside one that has.                               *)
ParseItem(item) ==
    CASE item.type = "message" ->
           LET texts == Others(item.parts, {"absent"})
           IN IF texts = <<>> THEN <<Json("message", "none")>>
              ELSE [i \in DOMAIN texts |-> Text(texts[i])]
      [] item.type = "function_call" ->
           LET name == FirstNonEmptyString(item.name, item.toolName)
           IN IF name = "absent" THEN <<Json("function_call", "none")>>
              ELSE <<Call(OrEmpty(FirstNonEmptyString(item.callId, item.id)), name,
                          ParseArguments(item.arguments))>>
      [] item.type = "reasoning" ->
           <<Reasoning(IF item.summary = "absent" THEN "reasoning" ELSE item.summary)>>
      [] OTHER -> <<Json(item.type, "none")>>

ParseResponses(items, outputText) ==
    LET output == FlattenSeq([i \in DOMAIN items |-> ParseItem(items[i])])
    IN IF output = <<>> /\ outputText # "absent" THEN <<Text(outputText)>> ELSE output

(* parse_chat_completions_response: the first choice's message, whose      *)
(* refusal is not looked at.                                               *)
ParseChat(content, refusal, calls) ==
    LET text == IF content \in {"absent", "null"} THEN <<>> ELSE <<Text(content)>>
        message == IF content = "absent" THEN "bare_message" ELSE "message"
        output == text \o [i \in DOMAIN calls |->
                      Call(OrEmpty(FirstNonEmptyString(calls[i].id, "absent")),
                           OrEmpty(FirstNonEmptyString(calls[i].name, "absent")),
                           ParseArguments(calls[i].arguments))]
    IN IF output = <<>> THEN <<Json(message, refusal)>> ELSE output

-----------------------------------------------------------------------------
(* From run items to a request.                                            *)

Output(id, value) == [kind |-> "output", id |-> id, value |-> value]

(* build_message_output_items and the output of every local tool call      *)
(* after them, in the order of the calls (extract_tool_calls).             *)
RunItems(output, outputs) ==
    LET calls == Picked(output, {i \in DOMAIN output : output[i].kind = "call"})
    IN output \o [i \in DOMAIN calls |-> Output(calls[i].id, outputs[calls[i].name])]

(* tool_output_to_responses_output: of a serialised OutputItem.            *)
SentOutput(value) ==
    CASE value = "text" -> "text"
      [] value = "json" -> "json"
      [] OTHER -> "serialized"
ChatOutput(value) == IF value = "json" THEN "serialized" ELSE SentOutput(value)

(* Of a Json item with a role, its role and its content go; without a      *)
(* content, all of it as a text.                                           *)
HasRole(item) == item.text \in {"message", "bare_message"}
OfMessage(item) ==
    [type |-> "message", role |-> "assistant", text |-> item.text,
     beside |-> IF item.text = "message" THEN "none" ELSE item.beside]

(* openai_response_input_item and openai_response_json_item, of what       *)
(* to_input_item makes of a run item.  A Json item without a role goes as  *)
(* it came.                                                                *)
ResponsesItem(item) ==
    CASE item.kind = "text" -> [type |-> "message", role |-> "user", text |-> item.text]
      [] item.kind = "reasoning" ->
             [type |-> "message", role |-> "assistant", text |-> item.text]
      [] item.kind = "call" ->
             [type |-> "function_call", id |-> item.id, name |-> item.name,
              arguments |-> SerializeArguments(item.arguments)]
      [] item.kind = "output" ->
             [type |-> "function_call_output", id |-> item.id,
              text |-> SentOutput(item.value)]
      [] item.kind = "json" ->
             IF HasRole(item) THEN OfMessage(item)
             ELSE [type |-> "json", role |-> "none", text |-> item.text, beside |-> item.beside]

(* openai_chat_messages and openai_chat_json_messages: a Json item without *)
(* a role is quoted to the model as the user's words, and an output whose  *)
(* id is empty has none.                                                   *)
ChatMessage(item) ==
    CASE item.kind = "text" -> [type |-> "message", role |-> "user", text |-> item.text]
      [] item.kind = "reasoning" ->
             [type |-> "message", role |-> "assistant", text |-> item.text]
      [] item.kind = "call" ->
             [type |-> "function_call", id |-> item.id, name |-> item.name,
              arguments |-> SerializeArguments(item.arguments)]
      [] item.kind = "output" ->
             [type |-> "function_call_output",
              id |-> FirstNonEmptyString(item.id, "absent"), text |-> ChatOutput(item.value)]
      [] item.kind = "json" ->
             IF HasRole(item) THEN OfMessage(item)
             ELSE [type |-> "message", role |-> "user", text |-> item.text,
                   beside |-> item.beside]

RequestInput(api, runItems) ==
    [i \in DOMAIN runItems |->
        IF api = "chat" THEN ChatMessage(runItems[i]) ELSE ResponsesItem(runItems[i])]

-----------------------------------------------------------------------------
(* The answer to a request.                                                *)

Failed == [kind |-> "error"]
Answer(what) == [kind |-> "answer", text |-> what]

(* OpenAIResponsesWsModel::generate: frames are read until one that ends   *)
(* the response; the connection is not used again.                         *)
Frames == {"delta", "ping", "not json", "error", "ended", "ended without response",
           "close", "broken"}
Skipped == {"delta", "ping"}
WebSocketAnswer(frames) ==
    LET telling == {i \in DOMAIN frames : frames[i] \notin Skipped}
    IN IF telling # {} /\ frames[Min(telling)] = "ended" THEN Answer("response") ELSE Failed

-----------------------------------------------------------------------------
(* Property.                                                               *)

(* What was read of the model's answer is in the next request, once and in *)
(* its order: each text, though as the user's, each reasoning and each     *)
(* message that is sent on, as the assistant's (what it has beside a       *)
(* content, a chat's refusal, is dropped), and each function call with its *)
(* name, its identifier and its arguments (a JSON string loses its quotes, *)
(* and when there is an object in it becomes one); and the calls and the   *)
(* outputs of the request have the same identifiers in the same order, so  *)
(* that no output answers another call (a call without an identifier has   *)
(* an output without one in a chat).                                       *)
ModelIsQuotedRight(api, output, runItems, request) ==
    LET OfType(type) == Picked(request, {i \in DOMAIN request : request[i].type = type})
        calls == OfType("function_call")
        outputs == OfType("function_call_output")
    IN /\ Len(request) = Len(runItems)
       /\ Len(calls) = Len(outputs)
       /\ \A i \in DOMAIN calls :
              \/ calls[i].id = outputs[i].id
              \/ api = "chat" /\ calls[i].id = "empty" /\ outputs[i].id = "absent"
       /\ \A i \in DOMAIN output :
              LET m == request[i]
              IN CASE output[i].kind = "call" ->
                        /\ m.type = "function_call"
                        /\ <<m.id, m.name>> = <<output[i].id, output[i].name>>
                        /\ \/ ParseArguments(m.arguments) = output[i].arguments
                           \/ output[i].arguments = "string object"
                   [] output[i].kind = "text" ->
                        m.role = "user" /\ m.text = output[i].text
                   [] output[i].kind = "reasoning" ->
                        m.role = "assistant" /\ m.text = output[i].text
                   [] output[i].kind = "json" ->
                        /\ m.text = output[i].text
                        /\ HasRole(output[i]) => m.role = "assistant"
                        /\ m.beside = output[i].beside \/ output[i].text = "message"

(* A response is only taken from a stream of frames that ended with it,    *)
(* and nothing went wrong before.                                          *)
AnswerIsWhole(frames, answer) ==
    answer = Answer("response") <=>
        \E i \in DOMAIN frames : frames[i] = "ended"
            /\ \A j \in 1..(i - 1) :
                   frames[j] \notin {"not json", "error", "ended",
                                    "ended without response", "close", "broken"}
=============================================================================
