------------------------- MODULE ToolOutputTrimmer -------------------------
(***************************************************************************)
(* The filter of the model's input that shortens the outputs of tools in   *)
(* older turns (extensions/tool_output_trimmer.rs).                        *)
(*                                                                         *)
(* A text is its length as it is written down in JSON.  An item is a       *)
(* message, a call or an output: "text" is a plain input item, "results"   *)
(* and "tools" are the two forms of the output of a tool search.  "rounds" *)
(* counts how often a text was cut: what is cut again is a preview of a    *)
(* preview, even if it has the same length.                                *)
(***************************************************************************)
EXTENDS Naturals, Sequences, FiniteSets, FiniteSetsExt, SequencesExt

(* What a summary says besides its preview, what surrounds a preview of    *)
(* search results, and what the quoting of a preview adds to it: it is cut *)
(* from JSON that was written down, and written down once more.            *)
HeaderLength == 2
Dots == 2
WrapperLength == 1
Quotes == 1

Calling == {"call", "search_call"}
ShownTool(type, description, docs) ==
    [type |-> type, description |-> description, docs |-> docs]
TrimItem(kind, id, names, size, tools) ==
    [kind |-> kind, id |-> id, names |-> names, size |-> size, tools |-> tools,
     rounds |-> 0]

(* A trimmer has recent, max, preview and tools, the allow-list or         *)
(* AnyTool.  validate() asks only that recent and max are not 0: a preview *)
(* may be longer than the longest text that is left alone.                 *)
AnyTool == {"any"}
IsTrimmer(t) == t.recent \in Nat \ {0} /\ t.max \in Nat \ {0} /\ t.preview \in Nat

(* find_recent_boundary: a plain text counts as the user's.                *)
IsOfUser(item) == item.kind \in {"text", "user"}
RecentBoundary(t, items) ==
    LET Later(i) == {j \in DOMAIN items : j >= i /\ IsOfUser(items[j])}
        begins == {i \in DOMAIN items :
                      IsOfUser(items[i]) /\ Cardinality(Later(i)) = t.recent}
    IN IF begins = {} THEN 1 ELSE Max(begins)

(* build_call_id_to_names: of calls with one identifier the last counts.   *)
NamesOf(items, item) ==
    LET calls == {i \in DOMAIN items :
                     /\ items[i].kind \in Calling /\ items[i].id = item.id
                     /\ items[i].id # "" /\ items[i].names # {}}
    IN IF calls # {} THEN items[Max(calls)].names
       ELSE IF item.kind \in {"results", "tools"} THEN {"tool_search"} ELSE {}

AtMost(n, limit) == Min({n, limit})

(* trim_tool_search_tool and trim_json_schema: a description is shortened, *)
(* the documentation in the schemas of a function, and of the functions of *)
(* a namespace, goes.                                                      *)
TrimShownTool(t, tool) ==
    [tool EXCEPT
        !.description = AtMost(@, t.preview) + (IF @ > t.preview THEN Dots ELSE 0),
        !.docs = IF tool.type = "other" THEN @ ELSE 0]
ToolsLength(tools) ==
    LET length[n \in 0..Len(tools)] ==
            IF n = 0 THEN 0 ELSE length[n - 1] + tools[n].description + tools[n].docs
    IN length[Len(tools)]

SummaryLength(t, item) == HeaderLength + AtMost(item.size, t.preview)

(* The trimmed form of an item.                                            *)
Shortened(t, item) ==
    CASE item.kind = "output" ->
             [item EXCEPT !.size = SummaryLength(t, item) + Quotes, !.rounds = @ + 1]
      [] item.kind = "results" ->
             [item EXCEPT !.size = WrapperLength + AtMost(@, t.preview) + Quotes,
                          !.rounds = @ + 1]
      [] item.kind = "tools" ->
             LET shown == [k \in DOMAIN item.tools |-> TrimShownTool(t, item.tools[k])]
             IN [item EXCEPT !.tools = shown, !.size = ToolsLength(shown)]

(* trim_item: whether it is trimmed at all.  Of an output the summary has  *)
(* to be shorter, before it is written down; of results nothing has to.    *)
MayBeTrimmed(t, items, item) ==
    /\ item.kind \in {"output", "results", "tools"}
    /\ t.tools # AnyTool => NamesOf(items, item) \cap t.tools # {}
    /\ item.size > t.max
    /\ item.kind = "output" => SummaryLength(t, item) < item.size

(* apply.                                                                  *)
Trim(t, items) ==
    [i \in DOMAIN items |->
        IF i < RecentBoundary(t, items) /\ MayBeTrimmed(t, items, items[i])
        THEN Shortened(t, items[i]) ELSE items[i]]

-----------------------------------------------------------------------------
(* Inputs.                                                                 *)

Trimmers == {t \in [recent : 1..2, max : {3, 6}, preview : {2, 8}, tools : {AnyTool, {"a"}}] :
                IsTrimmer(t)}
TrimItems ==
    {TrimItem("text", "", {}, 1, <<>>), TrimItem("user", "", {}, 1, <<>>),
     TrimItem("call", "1", {"a", "ns.a"}, 1, <<>>),
     TrimItem("output", "1", {}, 12, <<>>), TrimItem("output", "2", {}, 5, <<>>),
     TrimItem("results", "3", {}, 9, <<>>),
     TrimItem("tools", "", {}, 12,
              <<ShownTool("function", 3, 5), ShownTool("other", 2, 2)>>)}

(* A trimmed text is not longer than one that is left alone: so it is with *)
(* the limits of ToolOutputTrimmer::default, but not with those of the     *)
(* test trims_old_tool_outputs_only, a preview of 200 where 50 are left    *)
(* alone.                                                                  *)
HasRoom(t) ==
    /\ HeaderLength + t.preview + Quotes <= t.max
    /\ WrapperLength + t.preview + Quotes <= t.max

(* Trimming changes nothing but what outputs say: every output still       *)
(* answers its call.  What the last turns hold is whole, however many      *)
(* there are.  It is done in every turn anew: what was trimmed for any     *)
(* tool comes out the same as the conversation goes on, so that the        *)
(* beginning of the input never changes again.  And where it is done to    *)
(* what was trimmed before, in the input of a next run, it changes nothing *)
(* if the limits have room for what it writes; without room a preview is   *)
(* cut from a preview, the header of the one before in front of it.        *)
TrimmingIsStable(t, items, trimmed) ==
    LET UsersAfter(i) == {j \in DOMAIN items : j > i /\ IsOfUser(items[j])}
        Cut(item) == [item EXCEPT !.size = 0, !.tools = <<>>, !.rounds = 0]
    IN /\ \A i \in DOMAIN items :
              /\ Cut(trimmed[i]) = Cut(items[i])
              /\ Cardinality(UsersAfter(i)) < t.recent => trimmed[i] = items[i]
       /\ HasRoom(t) => Trim(t, trimmed) = trimmed
       /\ \A n \in 0..Len(items) :
              LET before == Trim(t, SubSeq(items, 1, n))
              IN \A i \in 1..n : before[i] # items[i] /\ t.tools = AnyTool
                                     => trimmed[i] = before[i]
=============================================================================
