---------------------------- MODULE Conversions ----------------------------
(***************************************************************************)
(* What the conversions of the library make of their inputs: one step per  *)
(* conversion and input.  The subjects "hosted" and "copy" are small state *)
(* machines of their own.  A subject is chosen at the start, and only it   *)
(* moves; "tree" is a subject of MCData, which adds the conversions that   *)
(* walk trees.                                                             *)
(***************************************************************************)
EXTENDS ReplayItems, ToolOutputTrimmer, HandoffHistory, SessionInput,
        HostedSandbox, DirectoryCopy, ProviderRouting,
        ModelRequests, ModelMessages, ToolCalls, AgentTools, Codex

(* Inputs of the subjects that combine several modules: providers, layers  *)
(* of settings, and what the two APIs answer.                              *)
LeafBackends == {Backend("a"), Backend("b")}
Backends == LeafBackends
    \cup {Multi(One("mapped", Backend("c")), Backend("d"), openai, unknown) :
              openai \in {"alias", "model_id"}, unknown \in {"error", "model_id"}}
Metadata == {Empty, One("user", "u"), One("harness", "u")}
ProviderFields ==
    [useResponses : {"none", "chat", "responses"}, api : {"none", "chat", "responses"},
     registration : {"none", "blank", "own"}, key : {"none", "own"}]
SharedDefaults ==
    [useResponses : {"none", "chat"}, api : {"chat", "responses"},
     websocket : {"none", "on"}, harness : {"none", "blank", "shared"},
     envHarness : {"none", "env"}, key : {"none", "shared"}]

SetOptions == {"temperature", "store", "verbosity", "top_logprobs", "tool_choice"}
ExtraKeys == {"store", "max_tokens", "seed", "type"}
Layers(layer) ==
    {Settings([o \in set \cap SetOptions |-> layer], [m \in set \cap {"tier", "route"} |-> layer],
              [k \in extra |-> layer]) :
        set \in {S \in SUBSET (SetOptions \cup {"tier", "route"}) : Cardinality(S) <= 1},
        extra \in {S \in SUBSET ExtraKeys : Cardinality(S) <= 1}}

ApiItems ==
    {[type |-> "message", parts |-> p] : p \in BoundedSeq({"t1", "t2", "absent"}, 2)}
    \cup {[type |-> "reasoning", summary |-> s] : s \in {"absent", "t1"}}
    \cup [type : {"function_call"}, callId : {"absent", "empty", "c"},
          id : {"absent", "i"}, name : {"absent", "empty", "n"},
          toolName : {"absent", "n2"}, arguments : {"absent", "quoted object", "quoted"}]
    \cup {[type |-> "tool_search_call"]}
ChatCalls == [id : {"absent", "empty", "c", "d"}, name : {"absent", "n", "n2"},
              arguments : {"absent", "object", "plain", "null"}]

VARIABLES
    subject,   \* what is checked
    done,      \* its conversion was made,
    given,     \* of this
    made       \* into this
dataVars == <<subject, done, given, made>>
conversionVars == <<dataVars, hostedVars, copyVars>>

ConversionInit ==
    /\ subject \in {"replay", "trimmer", "handoff", "session", "mount", "hosted",
                    "copy", "routing", "provider", "request", "message", "chat",
                    "frames", "tools", "call", "guardrails", "agent tool", "codex",
                    "tree"}
    /\ done = FALSE /\ given = <<>> /\ made = <<>>
    /\ HostedInit /\ CopyInit
    /\ subject # "copy" => host.files["a"] = 1 /\ host.files["b"] = 1
    /\ subject # "hosted" => offer = [strict |-> FALSE, pty |-> FALSE, env |-> FALSE]

(* What a run was given and made, replayed into the next input.           *)
Replay ==
    /\ subject = "replay"
    /\ \E input \in SeqOf(OldItems, 2), generated \in Generated,
          policy \in {"preserve", "omit"}, mode \in {"preserve_all", "normalized"},
          sent \in 0..3, filter \in Filters :
        /\ sent <= Len(InputItems(generated, policy))
        /\ filter = "none" => sent = 0
        /\ mode = "preserve_all" => filter = "none"
        /\ LET prepared == PrepareModelInputItems(input, generated, policy, sent)
               delivered == Delivered(filter, prepared, Len(input))
           IN /\ given' = <<Result(input, generated, policy, sent, delivered), mode>>
              /\ made' = ToInputListMode(given'[1], mode)

(* The filter that shortens what tools said.                              *)
TrimOutputs ==
    /\ subject = "trimmer"
    /\ \E t \in Trimmers, items \in SeqOf(TrimItems, 4) :
        /\ given' = <<t, items>>
        /\ made' = Trim(t, items)

(* A handoff, with a filter or nested history.                            *)
HandOff ==
    /\ subject = "handoff"
    /\ \E history \in Histories, pre \in Steps, new \in Steps, more \in Steps,
          filter \in {"unset", "remove"}, nest \in {"yes", "no"},
          mapper \in {"default", "keep"} :
        /\ Len(pre) <= 1 /\ Len(more) <= 1
        /\ filter # "unset" => nest = "yes"
        /\ filter # "unset" \/ nest = "no" => mapper = "default"
        /\ LET data == [history |-> history, pre |-> pre, new |-> new]
           IN /\ given' = <<data, [filter |-> filter, nest |-> nest, mapper |-> mapper], more>>
              /\ made' = HandoffTransition(data, filter, nest, mapper)

(* A session's history and new input, through a callback.                 *)
CombineInput ==
    /\ subject = "session"
    /\ \E old \in SeqOf(Contents, 2), added \in SeqOf(Contents, 2) :
          LET history == Seeded(old, 0)
              new == Seeded(added, Len(old))
          IN \E places \in Combinations(history, new) :
               LET combined == [i \in DOMAIN places |-> ItemAt(history, new, places[i])]
               IN /\ given' = <<history, new, places, combined>>
                  /\ made' = PrepareWithCallback(history, new, combined)

(* A mount, for the provider of a hosted sandbox.                         *)
ResolveMount ==
    /\ subject = "mount"
    /\ \E m \in Mounts : given' = m /\ made' = Resolved(m)

(* A request, from the name of its model to a provider.                   *)
RouteRequest ==
    /\ subject = "routing"
    /\ \E name \in Names, inner \in Backends, mapped \in Backends,
          openai \in {"alias", "model_id"}, unknown \in {"error", "model_id"},
          harness \in {"none", "h"}, metadata \in Metadata :
          LET provider == Multi(One("mapped", mapped), inner, openai, unknown)
              prepared == PrepareRequest(provider, [model |-> name, metadata |-> metadata],
                                         harness)
          IN /\ given' = <<name, metadata, harness>>
             /\ made' = <<prepared, Resolve(provider, name)>>

(* A provider whose shared defaults change after it was made.             *)
ConfigureProvider ==
    /\ subject = "provider"
    /\ \E fields \in ProviderFields, websocket \in {"none", "on", "off"},
          before \in {s \in SharedDefaults : s.useResponses = "none" /\ s.api = "chat"
                                              /\ s.key = "none"},
          after \in SharedDefaults :
          /\ made' = MadeWith(fields, before, websocket)
          /\ given' = <<fields, websocket, before, after>>

(* A request, from the layers of settings to its payload.                 *)
SendRequest ==
    /\ subject = "request"
    /\ \E name \in {"gpt-5", "gpt-5-ultra", "gpt-4.1"}, agent \in Layers("agent"),
          run \in Layers("run"), schema \in BOOLEAN, tools \in BOOLEAN,
          conversation \in {"none", "c"}, previous \in {"none", "p"},
          responseId \in {"none", "r"}, api \in {"chat", "responses", "websocket"} :
          LET request == [settings |-> CallSettings(name, agent, run), schema |-> schema,
                          tools |-> tools, conversation |-> conversation,
                          previous |-> previous]
          IN /\ api # "websocket" => responseId = "none"
             /\ given' = <<api, name, agent, run, request>>
             /\ made' = Payload(api, name, request, responseId)

(* What a model said, with the outputs of its calls, sent back to it.     *)
Resend(api, output) ==
    \E value \in {"text", "json", "other"} :
        LET items == RunItems(output, [n \in {"n", "n2", "empty"} |-> value])
        IN /\ given' = <<api, output, items>>
           /\ made' = RequestInput(api, items)

AnswerResponses ==
    /\ subject = "message"
    /\ \E items \in SeqOf(ApiItems, 2), outputText \in {"absent", "t3"} :
           /\ items # <<>> => outputText = "absent"
           /\ Resend("responses", ParseResponses(items, outputText))

AnswerChat ==
    /\ subject = "chat"
    /\ \E content \in {"absent", "null", "t1"}, refusal \in {"none", "refusal"},
          calls \in SeqOf(ChatCalls, 2) :
           Resend("chat", ParseChat(content, refusal, calls))

(* What a websocket sends, read until the answer is there.                *)
ReadFrames ==
    /\ subject = "frames"
    /\ \E frames \in SeqOf(Frames, 4) :
           given' = frames /\ made' = WebSocketAnswer(frames)

(* The tools of an agent and of its servers.                              *)
OfferTools ==
    /\ subject = "tools"
    /\ \E own \in SeqOf(OwnTools, 3),
          servers \in {<<>>} \cup {<<<<t>>>> : t \in McpTools("m")}
              \cup {<<<<t>>, <<u>>>> : t \in McpTools("m"), u \in McpTools("n")},
          filter \in ToolFilters :
        /\ Len(own) + Len(servers) <= 3
        /\ servers = <<>> => filter = <<>>
        /\ given' = <<own, servers, filter>>
        /\ made' = OfferedTools(own, servers, filter)

(* One call of a tool between its guardrails.                             *)
CallTool ==
    /\ subject = "call"
    /\ \E input \in SeqOf(Executors, 2), outcome \in {"ok", "fails"},
          formatter \in {"default", "text", "silent"}, output \in SeqOf(Executors, 2) :
        /\ given' = <<input, outcome, formatter, output>>
        /\ made' = Called(input, outcome, formatter, output)

(* The guardrails of an agent, all at once.                               *)
AskGuardrails ==
    /\ subject = "guardrails"
    /\ \E verdicts \in SeqOf({"allow", "raise", "error", "none"}, 3) :
           given' = verdicts /\ made' = AgentGuardrails(verdicts)

(* A call of an agent as a tool.                                          *)
CallAgentTool ==
    /\ subject = "agent tool"
    /\ \E options \in ToolOptions, context \in CallContexts, nested \in NestedRuns,
          arguments \in Arguments, isTyped \in BOOLEAN, builder \in BOOLEAN,
          schema \in BOOLEAN :
        /\ isTyped \/ builder \/ schema => nested.items = <<>>
        /\ given' = <<options, context, nested>>
        /\ made' = CallAgent(options, context, arguments, isTyped, builder, schema, nested)

(* Two turns of a thread of the command line client.                      *)
RunCodex ==
    /\ subject = "codex"
    /\ \E asked \in {NoId, "a"}, pinned \in {NoId, "p"}, client \in Clients,
          input \in {<<"text">>, <<"image", "text">>},
          turn \in TurnOptions, next \in NextTurns,
          process \in Processes, after \in NextProcesses :
        /\ given' = <<asked, pinned, client, <<turn, next>>, <<process, after>>>>
        /\ made' = TwoTurns(asked, pinned, client, input, given'[4], given'[5])

Convert ==
    \/ Replay \/ TrimOutputs \/ HandOff \/ CombineInput
    \/ ResolveMount
    \/ RouteRequest \/ ConfigureProvider \/ SendRequest
    \/ AnswerResponses \/ AnswerChat \/ ReadFrames
    \/ OfferTools \/ CallTool \/ AskGuardrails \/ CallAgentTool \/ RunCodex

ConversionNext ==
    \/ /\ ~done /\ done' = TRUE /\ subject' = subject
       /\ Convert
       /\ UNCHANGED <<hostedVars, copyVars>>
    \/ subject = "hosted" /\ HostedNext /\ UNCHANGED <<dataVars, copyVars>>
    \/ subject = "copy" /\ CopyNext /\ UNCHANGED <<dataVars, hostedVars>>
ConversionSpec == ConversionInit /\ [][ConversionNext]_conversionVars

-----------------------------------------------------------------------------
(* No item of a conversation is lost, torn from its pair or, but where     *)
(* these properties say so, repeated where it is written down for later:   *)
(* in the replayed input (internal/items.rs), behind the trimmer, in the   *)
(* nested history of a handoff and in what a session is given to keep.     *)
Transcripts ==
    done =>
    /\ subject = "replay" => ReplayIsWhole(given[1], given[2], made)
    /\ subject = "trimmer" => TrimmingIsStable(given[1], given[2], made)
    /\ subject = "handoff" => HistoryIsCarried(given[1], given[2], given[3], made)
    /\ subject = "session" => SessionInputIsNew(given[1], given[2], given[3], given[4], made)

(* A sandbox is what was asked for: its mounts carry what was given, a     *)
(* hosted session belongs to one caller through restarts, and a copied     *)
(* directory is one that was there.                                        *)
Sandboxes ==
    /\ done /\ subject = "mount" => MountCarriesWhatWasGiven(given, made)
    /\ HostedSessionsAreTheirOwn
    /\ CopyIsWhole

(* A request is sent to the model it names, by the provider that was       *)
(* configured for it, with the settings of its run; what was answered is   *)
(* read as a whole and quoted as it was said.                              *)
Requests ==
    done =>
    /\ subject = "routing" =>
           RequestGoesWhereItsModelIs(given[1], given[2], given[3], made[1], made[2])
    /\ subject = "provider" => OwnFieldsWin(given[1], given[2], given[3], given[4])
    /\ subject = "request" =>
           SettingsReachTheRequest(given[1], given[2], given[3], given[4], given[5], made)
    /\ subject \in {"message", "chat"} =>
           ModelIsQuotedRight(given[1], given[2], given[3], made)
    /\ subject = "frames" => AnswerIsWhole(given, made)

(* The tools that are offered can be told apart, a call gets through its   *)
(* guardrails only when all of them let it, the run of an agent inside a   *)
(* call is the same with and without a listener, and a turn of the command *)
(* line client goes on where the one before it ended.                      *)
Tools ==
    done =>
    /\ subject = "tools" => OfferedToolsAreTold(given[1], given[2], given[3], made)
    /\ subject = "call" => CallsAreGuarded(given[1], given[2], given[3], given[4], made)
    /\ subject = "guardrails" => GuardrailsAgree(given, made)
    /\ subject = "agent tool" => ListeningChangesNothing(given[1], given[2], given[3], made)
    /\ subject = "codex" =>
           TurnsFollowTheirThread(given[1], given[2], given[3], given[4], given[5], made)
=============================================================================
