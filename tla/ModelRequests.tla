--------------------------- MODULE ModelRequests ---------------------------
(***************************************************************************)
(* What of a call of the model is sent: the layers of ModelSettings        *)
(* (agents-core, model_settings.rs, model/mod.rs, run.rs call_model) and   *)
(* the payloads of the Responses API over HTTP and over a websocket and of *)
(* the Chat Completions API (agents-openai, models.rs, websocket.rs).      *)
(*                                                                         *)
(* Settings and payloads are functions on the fields that are there: the   *)
(* options of a layer, its metadata and its extra_body.  The value of a    *)
(* setting is the layer that set it, the value of a field of a payload is  *)
(* what it was made from.                                                  *)
(***************************************************************************)
EXTENDS Naturals, Sequences, FiniteSets, Maps

Settings(options, metadata, extra) ==
    [options |-> options, metadata |-> metadata, extra |-> extra]

(* Mutant: what is set beneath is not replaced.                            *)
ResolveOnlyUnset(base, over) ==
    Settings(base.options ++ over.options, over.metadata ++ base.metadata,
             over.extra ++ base.extra)

(* ModelSettings::resolve: an option that is set, and an entry of a map    *)
(* (metadata, extra_body, extra_query, ...), replace the ones beneath; a   *)
(* map does not.                                                           *)
ResolveSettings(base, over) ==
    Settings(over.options ++ base.options, over.metadata ++ base.metadata,
             over.extra ++ base.extra)

(* get_default_model_settings, of the name as it was requested, prefixes   *)
(* included.                                                               *)
Gpt5 == {"gpt-5", "gpt-5-ultra"}
DefaultSettings(name) ==
    Settings(IF name \in Gpt5
             THEN One("verbosity", "default")
                      ++ (IF name = "gpt-5" THEN One("reasoning", "default") ELSE Empty)
             ELSE Empty,
             Empty, Empty)

(* call_model.                                                             *)
CallSettings(name, agent, run) ==
    ResolveSettings(ResolveSettings(DefaultSettings(name), agent), run)

-----------------------------------------------------------------------------
(* Payloads.                                                               *)

(* The field that an option is sent as; top_logprobs is sent with a flag.  *)
Both == [temperature |-> "temperature", top_p |-> "top_p",
         parallel_tool_calls |-> "parallel_tool_calls",
         tool_choice |-> "tool_choice"]
FieldOf(api) ==
    Both ++
    IF api = "chat"
    THEN [max_output_tokens |-> "max_tokens",
          frequency_penalty |-> "frequency_penalty",
          presence_penalty |-> "presence_penalty", top_logprobs |-> "top_logprobs"]
    ELSE [max_output_tokens |-> "max_output_tokens", truncation |-> "truncation",
          store |-> "store", response_include |-> "include",
          reasoning |-> "reasoning", verbosity |-> "text"]

(* validate_extra_body_keys.                                               *)
Reserved(api) ==
    {FieldOf(api)[o] : o \in DOMAIN FieldOf(api)} \cup {"model", "tools"}
        \cup IF api = "chat" THEN {"messages", "response_format", "logprobs"}
             ELSE {"instructions", "previous_response_id", "conversation", "input",
                   "metadata"}

SentOptions(api, options) ==
    LET field == FieldOf(api)
        sent == DOMAIN options \cap DOMAIN field
    IN [f \in {field[o] : o \in sent} |->
           LET o == CHOOSE o \in sent : field[o] = f IN <<o, options[o]>>]

Field(name, value) == IF value = "none" THEN Empty ELSE One(name, <<name, value>>)
Flag(name) == One(name, <<name, "on">>)

(* openai_responses_text_config, openai_chat_response_format.              *)
SchemaField(api, request) ==
    IF ~request.schema THEN Empty
    ELSE One(IF api = "chat" THEN "response_format" ELSE "text", <<"schema", "">>)

ToolsField(request) == IF request.tools THEN Flag("tools") ELSE Empty

(* The Chat Completions API is sent no metadata.                           *)
MetadataField(api, metadata) ==
    IF api = "chat" \/ DOMAIN metadata = {} THEN Empty
    ELSE One("metadata", <<"metadata", metadata>>)

(* apply_responses_model_settings and apply_chat_model_settings: the       *)
(* settings are written over what is there, extra_body over the settings.  *)
ApplySettings(api, payload, request) ==
    LET s == request.settings
        options == SentOptions(api, s.options)
        flag == IF "top_logprobs" \in DOMAIN options THEN Flag("logprobs") ELSE Empty
        auto == IF api = "chat" /\ request.tools /\ "tool_choice" \notin DOMAIN options
                THEN One("tool_choice", <<"auto", "">>) ELSE Empty
    IN s.extra ++ options ++ MetadataField(api, s.metadata) ++ flag ++ auto ++ payload

RefusedRequest == Flag("refused")

ResponsesPayload(name, request) ==
    IF DOMAIN request.settings.extra \cap Reserved("responses") # {}
    THEN RefusedRequest
    ELSE ApplySettings("responses",
             Field("model", name) ++ Flag("input")
                 ++ Field("conversation", request.conversation)
                 ++ (IF request.conversation = "none"
                     THEN Field("previous_response_id", request.previous)
                     ELSE Empty)
                 ++ ToolsField(request) ++ SchemaField("responses", request),
             request)

ChatPayload(name, request) ==
    IF DOMAIN request.settings.extra \cap Reserved("chat") # {}
    THEN RefusedRequest
    ELSE ApplySettings("chat",
             Field("model", name) ++ Flag("messages") ++ ToolsField(request)
                 ++ SchemaField("chat", request),
             request)

(* ResponsesWebSocketSession::request_payload and request_frame: the       *)
(* session's response id goes before the one of the request, and the type  *)
(* and the stream of the frame before those of extra_body.                 *)
WebSocketFrame(name, request, responseId) ==
    LET payload == ResponsesPayload(name, request)
    IN IF payload = RefusedRequest THEN payload
       ELSE Field("type", "response.create") ++ Flag("stream")
                ++ (IF "conversation" \in DOMAIN payload THEN Empty
                    ELSE Field("previous_response_id", responseId))
                ++ payload

Payload(api, name, request, responseId) ==
    CASE api = "chat" -> ChatPayload(name, request)
      [] api = "responses" -> ResponsesPayload(name, request)
      [] api = "websocket" -> WebSocketFrame(name, request, responseId)

-----------------------------------------------------------------------------
(* Property.                                                               *)

(* A request that is not refused carries, for every option that its API    *)
(* has a field for, the value of the innermost layer that sets it (the     *)
(* run's, the agent's, the model's), and so for every entry of extra_body, *)
(* but for a type and a stream over a websocket, whose frame has its own,  *)
(* and of the metadata, which is merged and which the Chat Completions API *)
(* is not sent; over the Responses API it continues a conversation or a    *)
(* response, never both; and it asks for the agent's output type, unless   *)
(* the Responses API is used with a verbosity, whose "text" takes the      *)
(* place of the schema's.                                                  *)
SettingsReachTheRequest(api, name, agent, run, request, payload) ==
    LET form == IF api = "chat" THEN "chat" ELSE "responses"
        innermost(o) == IF o \in DOMAIN run.options THEN run.options[o]
                        ELSE IF o \in DOMAIN agent.options THEN agent.options[o]
                        ELSE DefaultSettings(name).options[o]
        set == DOMAIN run.options \cup DOMAIN agent.options
                   \cup DOMAIN DefaultSettings(name).options
        extra == DOMAIN run.extra \cup DOMAIN agent.extra
        metadata == DOMAIN run.metadata \cup DOMAIN agent.metadata
        framed == IF api = "websocket" THEN {"type", "stream"} ELSE {}
    IN /\ payload = RefusedRequest <=> extra \cap Reserved(form) # {}
       /\ payload # RefusedRequest =>
            /\ \A o \in set \cap DOMAIN FieldOf(form) :
                   payload[FieldOf(form)[o]] = <<o, innermost(o)>>
            /\ \A k \in extra \ framed :
                   payload[k] = IF k \in DOMAIN run.extra THEN run.extra[k]
                                ELSE agent.extra[k]
            /\ form # "chat" => \A k \in metadata :
                   /\ "metadata" \in DOMAIN payload
                   /\ payload["metadata"][2][k] =
                          IF k \in DOMAIN run.metadata THEN run.metadata[k]
                          ELSE agent.metadata[k]
            /\ form # "chat" =>
                   ~({"conversation", "previous_response_id"} \subseteq DOMAIN payload)
            /\ form # "chat" /\ request.conversation # "none"
                   => "conversation" \in DOMAIN payload
            /\ request.schema
                   => \/ <<"schema", "">> \in {payload[f] : f \in DOMAIN payload
                                            \cap {"text", "response_format"}}
                      \/ form # "chat" /\ "verbosity" \in set
            /\ "tool_choice" \in DOMAIN payload => request.tools \/ "tool_choice" \in set
=============================================================================
