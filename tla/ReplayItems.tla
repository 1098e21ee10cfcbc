---------------------------- MODULE ReplayItems ----------------------------
(***************************************************************************)
(* How the input of a next run is put together from the input of the last  *)
(* one and from what that run generated (internal/items.rs, and its        *)
(* callers in result.rs and run_state.rs).                                 *)
(*                                                                         *)
(* An item is a kind, an identifier, for the calls of hosted tools whether *)
(* they are completed, and whether it is whole or was shortened by a       *)
(* filter of the model's input.  What else it says is left out: it is told *)
(* from others of its kind by its identifier.                              *)
(***************************************************************************)
EXTENDS Naturals, Sequences, SequencesExt, FiniteSets, FiniteSetsExt, ItemSelection

HostedCalls == {"shell_call", "tool_search_call"}
HostedOutputs == {"shell_call_output", "tool_search_output"}
CallOf(kind) == IF kind = "shell_call_output" THEN "shell_call" ELSE "tool_search_call"
OutputOf(kind) == IF kind = "shell_call" THEN "shell_call_output" ELSE "tool_search_output"

(* An item without a call_id and an id has the identifier "".              *)
Item(kind, id, completed) ==
    [kind |-> kind, id |-> id, completed |-> completed, text |-> "whole"]

(* RunItem::to_input_item: every kind of run item has its input item.  A   *)
(* reasoning that came as the content of a message becomes one as well.    *)
InputItem(r) == IF r.kind = "reasoning_message" THEN [r EXCEPT !.kind = "reasoning"] ELSE r

(* run_items_to_input_items: the policy drops the reasoning run items.     *)
InputItems(generated, policy) ==
    LET kept == Picked(generated, {i \in DOMAIN generated :
                                      ~(policy = "omit" /\ generated[i].kind = "reasoning")})
    IN [i \in DOMAIN kept |-> InputItem(kept[i])]

-----------------------------------------------------------------------------
(* Hosted tools: a call and its output go together or not at all.          *)

(* Calls without identifier are matched by outputs without one, the latest *)
(* call first: the stack of open calls after the first n items.            *)
Anonymous(item, kind) == item.kind = kind /\ item.id = ""
OpenSearches(items) ==
    LET open[n \in 0..Len(items)] ==
            CASE n = 0 -> <<>>
              [] n > 0 /\ Anonymous(items[n], "tool_search_call") -> Append(open[n - 1], n)
              [] n > 0 /\ Anonymous(items[n], "tool_search_output")
                       /\ open[n - 1] # <<>> -> Front(open[n - 1])
              [] OTHER -> open[n - 1]
    IN open

(* matched_anonymous_tool_search_call_indexes, .._output_indexes.          *)
MatchedSearches(items) ==
    LET open == OpenSearches(items)
        matched == {n \in DOMAIN items :
                       Anonymous(items[n], "tool_search_output") /\ open[n - 1] # <<>>}
    IN matched \cup {Last(open[n - 1]) : n \in matched}

Has(items, kind, id) == \E i \in DOMAIN items : items[i].kind = kind /\ items[i].id = id

(* should_keep_hosted_replay_item.  A shell call or output without an      *)
(* identifier has no partner.                                              *)
IsKept(items, i) ==
    LET item == items[i]
        isMatched(kind) == IF item.id = "" THEN i \in MatchedSearches(items)
                           ELSE Has(items, kind, item.id)
    IN CASE item.kind \in HostedCalls -> item.completed => isMatched(OutputOf(item.kind))
         [] item.kind \in HostedOutputs -> isMatched(CallOf(item.kind))
         [] OTHER -> TRUE

SanitizeHostedToolReplayItems(items) ==
    Picked(items, {i \in DOMAIN items : IsKept(items, i)})

-----------------------------------------------------------------------------
(* Composition.                                                            *)

(* stable_replay_dedupe_key: messages, reasoning and handoffs have none,   *)
(* nor does an id that was made up for an item without one.                *)
IsKeyed(item) ==
    /\ item.kind \notin {"message", "reasoning", "handoff_call", "handoff_output"}
    /\ item.id \notin {"", "__fake_id__"}

Overlaps(base, generated, n) ==
    LET tail == SubSeq(base, Len(base) - n + 1, Len(base))
        head == SubSeq(generated, 1, n)
    IN tail = head /\ \E i \in 1..n : IsKeyed(head[i])

(* Mutant: what the base already holds is not looked for.                  *)
NoOverlap(base, generated) == 0

(* trailing_generated_overlap: the longest one.                            *)
TrailingGeneratedOverlap(base, generated) ==
    LET overlaps == {n \in 1..Min({Len(base), Len(generated)}) :
                        Overlaps(base, generated, n)}
    IN Max(overlaps \cup {0})

ComposeReplayInputItems(base, generated, policy) ==
    LET inputs == InputItems(generated, policy)
        overlap == TrailingGeneratedOverlap(base, inputs)
    IN SanitizeHostedToolReplayItems(base) \o SubSeq(inputs, overlap + 1, Len(inputs))

(* RunResult::to_input_list_mode; RunState::resume_input is the one of     *)
(* mode "normalized".                                                      *)
IsFiltered(result, mode) == mode = "normalized" /\ result.filtered
BaseItems(result, mode) ==
    IF IsFiltered(result, mode) THEN result.normalizedInput ELSE result.input
ToInputListMode(result, mode) ==
    ComposeReplayInputItems(BaseItems(result, mode), result.newItems, result.policy)

(* prepare_model_input_items.                                              *)
PrepareModelInputItems(input, generated, policy, seen) ==
    input \o SubSeq(InputItems(generated, policy), 1, seen)

(* What Runner keeps of the turns of a run without a handoff: the input    *)
(* that was delivered to the model in the last turn in which a filter      *)
(* changed it, when it had seen so many of the generated items.            *)
Result(input, generated, policy, seen, delivered) ==
    [input |-> input, newItems |-> generated, policy |-> policy,
     filtered |-> delivered # PrepareModelInputItems(input, generated, policy, seen),
     normalizedInput |-> delivered]

-----------------------------------------------------------------------------
(* Inputs: a run with some input, and a filter of the model's input that   *)
(* leaves everything as it is, shortens the outputs of tools in the input  *)
(* or in all there is, or drops all but the last two items.                *)

OldItems == {Item("message", "", TRUE), Item("shell_call", "old", TRUE), Item("shell_call_output", "old", TRUE),
             Item("tool_search_call", "", TRUE), Item("tool_search_output", "", TRUE)}
NewItems == {Item("message", "", TRUE), Item("reasoning", "", TRUE),
             Item("reasoning_message", "", TRUE), Item("tool_output", "new", TRUE),
             Item("tool_call", "__fake_id__", TRUE), Item("shell_call", "new", FALSE),
             Item("shell_call", "new", TRUE), Item("shell_call_output", "new", TRUE),
             Item("tool_search_output", "", TRUE)}

Once(items, item) == Cardinality({i \in DOMAIN items : items[i] = item}) = 1

(* An identified item is generated once.                                   *)
Generated == {g \in SeqOf(NewItems, 3) :
                 \A i \in DOMAIN g : IsKeyed(g[i]) => Once(g, g[i])}
Filters == {"none", "old", "all", "recent"}
Short(item) ==
    IF item.kind \in HostedOutputs \cup {"tool_output"} THEN [item EXCEPT !.text = "short"]
    ELSE item
Delivered(filter, prepared, old) ==
    CASE filter = "none" -> prepared
      [] filter = "old" ->
             [i \in DOMAIN prepared |-> IF i <= old THEN Short(prepared[i]) ELSE prepared[i]]
      [] filter = "all" -> [i \in DOMAIN prepared |-> Short(prepared[i])]
      [] filter = "recent" ->
             SubSeq(prepared, 1 + Max({0, Len(prepared) - 2}), Len(prepared))

(* The first of the generated items are at the end of what the model saw,  *)
(* and no others are in it.                                                *)
LeftAsGenerated(base, generated) ==
    \E n \in 0..Len(generated) :
        /\ n <= Len(base)
        /\ \A k \in 1..n : base[Len(base) - n + k] = generated[k]
        /\ \A i \in 1..Len(base) - n :
               IsKeyed(base[i]) => base[i] \notin ToSet(generated)

(* The next run is given everything that this one generated, whatever a    *)
(* filter dropped or shortened of it; and it is given no hosted output of  *)
(* an earlier run without its call.  It is given each identified item      *)
(* once, however much of it the model has already seen, unless the filter  *)
(* changed what the run had generated: what was shortened, or no longer    *)
(* follows what was in front of it, is given again as it was generated.    *)
(* And a hosted call or output whose other half the model had not seen is  *)
(* dropped from what the model saw: what the run generated has it no more, *)
(* even if the other half came later.                                      *)
ReplayIsWhole(result, mode, replay) ==
    LET generated == InputItems(result.newItems, result.policy)
        base == BaseItems(result, mode)
        halves == {base[i] : i \in {j \in DOMAIN base : ~IsKept(base, j)}}
    IN /\ ToSet(generated) \ halves \subseteq ToSet(replay)
       /\ (IsFiltered(result, mode) => LeftAsGenerated(base, generated)) =>
              \A item \in ToSet(generated) \ halves : IsKeyed(item) => Once(replay, item)
       /\ \A item \in ToSet(replay) \ ToSet(generated) :
              item.kind \in HostedOutputs => Has(replay, CallOf(item.kind), item.id)
=============================================================================
