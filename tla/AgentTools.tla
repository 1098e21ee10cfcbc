----------------------------- MODULE AgentTools -----------------------------
(***************************************************************************)
(* An agent as the tool of another one (Agent::as_tool in agent.rs): which *)
(* run a call of the tool starts, with what of the calling run, and what   *)
(* becomes of its result, with a handler of its stream and without one.    *)
(***************************************************************************)
EXTENDS Naturals, Sequences, FiniteSets, SequencesExt, ItemSelection

Unset == "unset"
Or(value, other) == IF value = Unset THEN other ELSE value

(* RunConfig, as far as the options of the tool change it.                 *)
Config(maxTurns, conversation) == [maxTurns |-> maxTurns, conversation |-> conversation]
DefaultConfig == Config("default", Unset)

(* AgentAsToolOptions.                                                     *)
ToolOptions ==
    [config : {<<>>, <<Config("configured", "theirs")>>}, maxTurns : {Unset, "own"},
     conversation : {Unset, "own"}, session : BOOLEAN,
     stream : {"none", "taken", "fails"}, extractor : {"none", "text", "fails"},
     formatter : {"none", "text", "silent"}]

(* The context of the calling tool (ToolContext), with its run's approvals *)
(* and the scope its results are kept under.                               *)
CallContexts ==
    [config : {<<>>, <<Config("parent", "parents")>>}, approvals : {{}, {"call"}},
     scope : {Unset, "s"}]

(* The items a nested run may end with, of which a call or a reasoning     *)
(* says nothing; the text of its last output, a reasoning included; and    *)
(* what its items say (output_item_text).                                  *)
NestedItems == {<<"message", "m">>, <<"output", "o">>, <<"call", "call">>}
SaidBy(items) ==
    Others([i \in DOMAIN items |-> items[i][2]], {"call"})
NestedRuns ==
    [outcome : {"done", "interrupted"}, final : {Unset, "", "f"},
     items : BoundedSeq(NestedItems, 2), output : {"", "r"}]
        \cup {[outcome |-> "failed", final |-> Unset, items |-> <<>>, output |-> ""]}

(* default_agent_tool_output_text: the final output, or the last that was  *)
(* said in a message or an output of a tool, or else the last output.      *)
OutputText(run) ==
    LET spoken == SaidBy(run.items)
    IN CASE run.final \notin {Unset, ""} -> run.final
         [] run.final \in {Unset, ""} /\ spoken # <<>> -> Last(spoken)
         [] OTHER -> run.output

(* resolve_agent_tool_input, with what a builder of the caller comes       *)
(* before; default_tool_input_builder writes the arguments and the schema. *)
Arguments == {"input only", "other"}
ToolInput(arguments, builder, schema) ==
    CASE builder -> "built"
      [] ~builder /\ arguments = "input only" -> "input"
      [] ~builder /\ arguments = "other" /\ schema -> "preamble, arguments, schema"
      [] OTHER -> "arguments"

(* The configuration and the context of the nested run.                    *)
NestedConfig(options, context) ==
    LET base == CASE options.config # <<>> -> options.config[1]
                  [] options.config = <<>> /\ context.config # <<>> -> context.config[1]
                  [] OTHER -> DefaultConfig
    IN Config(Or(options.maxTurns, base.maxTurns), Or(options.conversation, base.conversation))
NestedContext(options, context, arguments, isTyped) ==
    [approvals |-> {}, scope |-> context.scope,
     input |-> IF isTyped THEN arguments ELSE Unset]

(* The end of a call: the text it returns or an error, and the key under   *)
(* which record_agent_tool_run_result keeps the nested run.                *)
Told(text, keys) == [answer |-> <<"text", text>>, kept |-> keys]
Erred(keys) == [answer |-> <<"error">>, kept |-> keys]
Extracted(options, text, keys) ==
    CASE options.extractor = "none" -> Told(text, keys)
      [] options.extractor = "text" -> Told("extracted", keys)
      [] OTHER -> Erred(keys)
Formats(options) == options.formatter = "text"

(* Without a handler: run_items_with_context.                              *)
PlainEnd(options, context, run) ==
    LET keys == {<<context.scope, "call">>}
    IN CASE run.outcome # "failed" -> Extracted(options, OutputText(run), keys)
         [] run.outcome = "failed" /\ Formats(options) -> Told("formatted", {})
         [] OTHER -> Erred({})

(* With one: the events are handled first, and an error of the handler     *)
(* ends the call, and not the nested run.  A failed run that nobody has    *)
(* words for is still shown to the extractor.                              *)
StreamedEnd(options, context, run) ==
    LET keys == {<<context.scope, "call">>}
    IN CASE options.stream = "fails" -> Erred({})
         [] options.stream # "fails" /\ run.outcome # "failed" ->
                Extracted(options, OutputText(run), keys)
         [] options.stream # "fails" /\ run.outcome = "failed" /\ Formats(options) ->
                Told("formatted", {})
         [] OTHER -> IF options.extractor = "text" THEN Told("extracted", {}) ELSE Erred({})

(* The whole call: the session of the options is used by the streamed run  *)
(* only.                                                                   *)
CallAgent(options, context, arguments, isTyped, builder, schema, run) ==
    [config |-> NestedConfig(options, context),
     context |-> NestedContext(options, context, arguments, isTyped \/ builder \/ schema),
     input |-> ToolInput(arguments, builder, schema),
     session |-> options.session /\ options.stream # "none",
     end |-> IF options.stream = "none" THEN PlainEnd(options, context, run)
             ELSE StreamedEnd(options, context, run)]

(* Listening to the nested run does not change it: with a handler that     *)
(* takes the events the call ends as without one, but that the session is  *)
(* used, and that an extractor may make an answer of a run that failed.    *)
(* The nested run is kept exactly when it came to an end, under the scope  *)
(* of the run that called it; it starts with none of that run's approvals; *)
(* it goes on in the conversation of the calling run only when neither the *)
(* tool's configuration nor its options name another one; and of a run     *)
(* that failed, or of an answer nobody gave, no text is made up: what is   *)
(* told was said in the run or by the caller's own functions.              *)
ListeningChangesNothing(options, context, run, call) ==
    LET other == IF options.stream = "none" THEN StreamedEnd([options EXCEPT !.stream = "taken"], context, run)
                 ELSE PlainEnd(options, context, run)
        extracts == options.extractor = "text" /\ run.outcome = "failed"
        said == {run.final, run.output} \cup ToSet(SaidBy(run.items))
    IN /\ call.end = other \/ options.stream = "fails" \/ extracts
       /\ call.end.kept # {} <=> (run.outcome # "failed" /\ options.stream # "fails")
       /\ \A key \in call.end.kept : key[1] = context.scope
       /\ call.context.approvals = {}
       /\ call.config.conversation = "parents" =>
              options.config = <<>> /\ options.conversation = Unset
       /\ call.end.answer[1] = "text" =>
              \/ call.end.answer[2] \in said /\ run.outcome # "failed"
              \/ call.end.answer[2] = "extracted" /\ options.extractor = "text"
              \/ call.end.answer[2] = "formatted" /\ options.formatter = "text"
=============================================================================
