----------------------------- MODULE ToolCalls -----------------------------
(***************************************************************************)
(* From the tools of an agent to the output of a call: the tools that are  *)
(* offered to the model (agent.rs, mcp/util.rs), the names they are looked *)
(* up and approved by (_tool_identity.rs), what the model sees of them     *)
(* (models.rs) and the guardrails around an invocation (tool_execution.rs). *)
(*                                                                         *)
(* A name is the sequence of its parts between dots, "_" a blank that is   *)
(* trimmed away, and <<>> a name that is not given.                        *)
(***************************************************************************)
EXTENDS Naturals, Sequences, FiniteSets, FiniteSetsExt, SequencesExt, ItemSelection, Maps

Trimmed(name) == Others(name, {"_"})

(* ToolDefinition, with where the tool comes from.  The schema of a server *)
(* may be one that cannot be made strict.                                  *)
ToolOf(name, ns, from) ==
    [name |-> name, ns |-> ns, from |-> from, enabled |-> TRUE, deferred |-> FALSE,
     schema |-> "strict"]

(* tool_qualified_name, and FunctionTool::qualified_name, which falls back *)
(* on the name as it is.                                                   *)
QualifiedName(tool) ==
    IF Trimmed(tool.name) = <<>> THEN tool.name
    ELSE Trimmed(tool.ns) \o Trimmed(tool.name)

(* MCPUtil::tool_allowed.  A filter is a set of allowed and one of blocked *)
(* names, and <<>> is none.                                                *)
Allowed(filter, tool) ==
    filter = <<>> \/ (tool.name \in filter[1] /\ tool.name \notin filter[2])

(* MCPUtil::get_all_function_tools_connected, over the servers' tools.  An *)
(* error is a tool of its own.                                             *)
NoOffer == <<ToolOf(<<"error">>, <<>>, "error")>>
Duplicates(names) == Cardinality(ToSet(names)) < Len(names)
ServerTools(servers, filter) ==
    LET listed == FlattenSeq(servers)
        tools == Picked(listed, {i \in DOMAIN listed : Allowed(filter, listed[i])})
    IN IF \/ \E i \in DOMAIN tools : tools[i].schema = "open"
          \/ Duplicates([i \in DOMAIN tools |-> tools[i].name])
       THEN NoOffer ELSE tools

(* Agent::get_all_function_tools.                                          *)
OfferedTools(own, servers, filter) ==
    LET all == own \o ServerTools(servers, filter)
        visible == Picked(all, {i \in DOMAIN all : all[i].enabled})
        names == [i \in DOMAIN visible |-> QualifiedName(visible[i])]
    IN IF ServerTools(servers, filter) = NoOffer \/ Duplicates(names)
       THEN NoOffer ELSE visible

(* The tool a call of the model is for, as execute_local_function_tools    *)
(* and find_function_tool look it up.                                      *)
NoTool == ToolOf(<<>>, <<>>, "none")
ToolFor(tools, name, ns) ==
    LET found == {i \in DOMAIN tools : tools[i].name = name /\ tools[i].ns = ns}
    IN IF found = {} THEN NoTool ELSE tools[Min(found)]

(* openai_tool_payload and what comes back (parse_responses_response,      *)
(* parse_chat_response): the names go out without their namespaces.  A     *)
(* tool without a schema is sent as a type of the API.                     *)
ShownAs(tool) ==
    IF tool.schema = "none" THEN [type |-> tool.name] ELSE [type |-> <<"function">>, name |-> tool.name]

-----------------------------------------------------------------------------
(* Lookup and approval keys.                                               *)

NoLookup == <<"none", <<>>, <<>>>>
IsReserved(name, ns) == Trimmed(name) # <<>> /\ Trimmed(ns) = Trimmed(name)
(* get_function_tool_lookup_key.                                           *)
LookupKey(name, ns) ==
    CASE Trimmed(name) = <<>> -> NoLookup
      [] IsReserved(name, ns) -> <<"deferred", <<>>, Trimmed(name)>>
      [] OTHER -> <<IF Trimmed(ns) = <<>> THEN "bare" ELSE "namespaced",
                    Trimmed(ns), Trimmed(name)>>

(* get_function_tool_lookup_key_for_definition, get_function_tool_lookup_keys: *)
(* a tool that is loaded later has two keys.                               *)
IsDeferred(tool) == tool.deferred /\ tool.ns = <<>>
KeyOfTool(tool) ==
    IF IsDeferred(tool) THEN <<"deferred", <<>>, tool.name>> ELSE LookupKey(tool.name, tool.ns)
LookupKeys(tool) ==
    ({LookupKey(tool.name, tool.ns)} \ {NoLookup, <<"deferred", <<>>, Trimmed(tool.name)>>})
        \cup IF IsDeferred(tool) THEN {KeyOfTool(tool)} ELSE {}

(* build_function_tool_lookup_map: of tools with one key the last counts.  *)
(* <<>> when a namespace is reserved.                                      *)
LookupMap(tools) ==
    IF \E i \in DOMAIN tools : IsReserved(tools[i].name, tools[i].ns) THEN <<>>
    ELSE [key \in UNION {LookupKeys(tools[i]) : i \in DOMAIN tools} |->
             tools[Max({i \in DOMAIN tools : key \in LookupKeys(tools[i])})]]

(* get_function_tool_approval_keys.                                        *)
ApprovalKeys(name, ns, alias, lookup) ==
    LET key == CASE lookup[1] = "bare" -> lookup[3]
                 [] lookup[1] = "namespaced" -> lookup[2] \o lookup[3]
                 [] lookup[1] = "deferred" -> <<"deferred_top_level:">> \o lookup[3]
                 [] OTHER -> Trimmed(name)
    IN IF Trimmed(name) = <<>> THEN {}
       ELSE {key} \cup IF alias THEN {Trimmed(name)} ELSE {}

(* What is offered is what the agent has, in its order, without what is    *)
(* disabled or filtered.  Whatever the names, and the blanks and dots in   *)
(* them: a call by the name and namespace of an offered tool is for that   *)
(* tool and no other one; so is one that is looked up by its key; the keys *)
(* of two offered tools, and what is approved for the one and the other,   *)
(* are never the same, unless an alias for the bare name was asked for, or *)
(* a namespace is the name itself, which the lookup map refuses.           *)
OfferedToolsAreTold(own, servers, filter, offered) ==
    LET has == own \o FlattenSeq(servers)
        mine == {i \in DOMAIN has : has[i].enabled /\ (i > Len(own) => Allowed(filter, has[i]))}
        map == LookupMap(offered)
        Key(tool) == ApprovalKeys(tool.name, tool.ns, FALSE, KeyOfTool(tool))
    IN IF offered = NoOffer
       THEN \/ \E i \in mine : has[i].schema = "open"
            \/ \E i, j \in DOMAIN has : i < j /\ j \in mine /\ i \in mine
                   /\ QualifiedName(has[i]) = QualifiedName(has[j])
            \/ \E i, j \in Len(own) + 1..Len(has) : i < j /\ has[i].name = has[j].name
       ELSE /\ Len(offered) = Cardinality(mine)
            /\ \A i \in DOMAIN offered : \E j \in mine : offered[i] = has[j]
            /\ \A i \in DOMAIN offered :
                   LET tool == offered[i]
                   IN /\ ToolFor(offered, tool.name, tool.ns) = tool
                      /\ map # <<>> /\ Trimmed(tool.name) # <<>> =>
                             map[LookupKey(tool.name, tool.ns)] = tool
            /\ \A i, j \in DOMAIN offered : i # j =>
                   /\ ShownAs(offered[i]) = ShownAs(offered[j]) =>
                          offered[i].ns # offered[j].ns
                   /\ Key(offered[i]) \cap Key(offered[j]) # {} =>
                          \E t \in {offered[i], offered[j]} : IsReserved(t.name, t.ns)

(* Inputs.                                                                 *)
ToolNames == {<<"a">>, <<"_", "a">>, <<"x", "a">>, <<"_">>}
Namespaces == {<<>>, <<"x">>, <<"_">>, <<"a">>}
PlainTools == {ToolOf(name, ns, "own") : name \in ToolNames, ns \in Namespaces}
OwnTools ==
    PlainTools \cup {[ToolOf(<<"a">>, <<>>, "own") EXCEPT !.enabled = FALSE],
                     [ToolOf(<<"a">>, <<>>, "own") EXCEPT !.deferred = TRUE],
                     [ToolOf(<<"a">>, <<>>, "own") EXCEPT !.schema = "none"]}
McpTools(server) ==
    {[ToolOf(name, ns, server) EXCEPT !.schema = schema] : name \in {<<"a">>, <<"b">>},
        ns \in {<<>>, <<"x">>}, schema \in {"strict", "none"}}
        \cup {[ToolOf(<<"b">>, <<>>, server) EXCEPT !.schema = "open"]}
ToolFilters == {<<>>, <<{<<"a">>}, {}>>, <<{<<"a">>, <<"b">>}, {<<"b">>}>>}

-----------------------------------------------------------------------------
(* One call.                                                               *)

GuardrailVerdicts == {"allow", "reject", "raise", "error"}
(* A guardrail without an executor fails (run of the guardrails' types).   *)
Executors == GuardrailVerdicts \cup {"none"}
ToolVerdict(executor) == IF executor = "none" THEN "error" ELSE executor
Verdict(executor) == IF executor = "none" THEN "error" ELSE executor
NotAnswered == <<"no output">>
(* The answer of the tool; or of the formatter, when the tool fails; or    *)
(* none, when it has nothing to say.                                       *)
Invoked(outcome, formatter) ==
    CASE outcome = "ok" -> <<"answer">>
      [] outcome = "fails" /\ formatter \in {"default", "text"} -> <<formatter>>
      [] OTHER -> NotAnswered

(* A guardrail that rejects ends the checks.                               *)
GuardedUntilRejected(verdicts, place, output) ==
    LET rejects == {i \in DOMAIN verdicts : verdicts[i] = "reject"}
    IN CASE rejects # {} -> <<place, Min(rejects)>>
         [] rejects = {} /\ ToSet(verdicts) \subseteq {"allow"} -> output
         [] OTHER -> NotAnswered

(* What the guardrails of one side leave of an output, in their order; the *)
(* first that raises or fails ends the run.                                *)
Guarded(verdicts, place, output) ==
    LET stops == {i \in DOMAIN verdicts : verdicts[i] \in {"raise", "error"}}
        rejects == {i \in DOMAIN verdicts : verdicts[i] = "reject"}
    IN IF stops # {} THEN NotAnswered
       ELSE IF rejects # {} THEN <<place, Max(rejects)>> ELSE output

(* The part of execute_local_function_tools from the guardrails on: the    *)
(* output, whether the tool was invoked, and what the guardrails of the    *)
(* output were shown (NotAnswered, when they were not asked any more).     *)
Called(inputs, outcome, formatter, outputs) ==
    LET input == [i \in DOMAIN inputs |-> ToolVerdict(inputs[i])]
        output == [i \in DOMAIN outputs |-> ToolVerdict(outputs[i])]
        before == Guarded(input, "input", <<"go">>)
        invoked == before = <<"go">>
        made == IF invoked THEN Invoked(outcome, formatter) ELSE before
        shown == IF made = NotAnswered THEN <<>>
                 ELSE [i \in DOMAIN output |->
                          Guarded(SubSeq(output, 1, i - 1), "output", made)]
    IN [invoked |-> invoked, shown |-> shown,
        output |-> IF made = NotAnswered THEN NotAnswered ELSE Guarded(output, "output", made)]

(* try_join_all over the guardrails of an agent (run_input_guardrails and  *)
(* run_output_guardrails), which all run at once: an error, the first one  *)
(* to come, wins over every verdict, and of these the first in the list.   *)
AgentGuardrails(executors) ==
    LET verdicts == [i \in DOMAIN executors |-> Verdict(executors[i])]
        errors == {i \in DOMAIN verdicts : verdicts[i] = "error"}
        trips == {i \in DOMAIN verdicts : verdicts[i] = "raise"}
    IN IF errors # {} THEN {<<"error", i>> : i \in errors}
       ELSE IF trips # {} THEN {<<"tripwire", Min(trips)>>} ELSE {<<"passed", 0>>}

(* A tool is invoked only when every guardrail of its input lets it, and   *)
(* its answer leaves the call only when every one of its output does too;  *)
(* a call that is not ended has an output, which is of the tool, of the    *)
(* formatter, or of a guardrail that rejected it; no guardrail of the      *)
(* output sees the answer after one has rejected it, and the guardrails of *)
(* the output are asked about a rejected input's output as well.           *)
CallsAreGuarded(input, outcome, formatter, output, call) ==
    LET guards == input \o output
    IN /\ call.invoked => \A i \in DOMAIN input : input[i] = "allow"
       /\ call.output = <<"answer">> => \A i \in DOMAIN guards : guards[i] = "allow"
       /\ call.output = NotAnswered =>
              \/ \E i \in DOMAIN guards : guards[i] \notin {"allow", "reject"}
              \/ call.invoked /\ outcome = "fails" /\ formatter = "silent"
       /\ call.output # NotAnswered =>
              /\ \A i \in DOMAIN guards : guards[i] \in {"allow", "reject"}
              /\ Len(call.shown) = Len(output)
       /\ \A i \in DOMAIN call.shown :
              call.shown[i] = <<"answer">> => \A j \in 1..(i - 1) : output[j] = "allow"

(* The guardrails of an agent, which run at the same time, let a run pass  *)
(* only together, and blame the same one whenever they answer.             *)
GuardrailsAgree(verdicts, results) ==
    /\ <<"passed", 0>> \in results => \A i \in DOMAIN verdicts : verdicts[i] \in {"allow", "reject"}
    /\ Cardinality(results) = 1 \/ \A r \in results : r[1] = "error"
=============================================================================
