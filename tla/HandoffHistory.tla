--------------------------- MODULE HandoffHistory ---------------------------
(***************************************************************************)
(* What the next agent is shown of a conversation: handoff/history.rs, the *)
(* filters of handoff_filters.rs, and apply_handoff_transition of run.rs.  *)
(*                                                                         *)
(* A text is a sequence of lines, and a line is told by whether it holds a *)
(* colon.  A summary is a message whose lines are those of the items it    *)
(* sums up, each behind its number and its role; it is found again by its  *)
(* markers.                                                                *)
(***************************************************************************)
EXTENDS Naturals, Sequences, SequencesExt, ItemSelection

Said(kind, role, lines) == [kind |-> kind, role |-> role, lines |-> lines, sums |-> <<>>]
(* The kinds of items: "text" is a plain input item, which is shown as the *)
(* user's; "message" has a role and a content; "typed" is any other JSON.  *)
(* A line is "plain" or has a "colon" in it.                               *)
Summary(items) ==
    [kind |-> "summary", role |-> "assistant", lines |-> <<>>, sums |-> items]

(* format_transcript_item: the role (or type) and the lines of an item.    *)
RoleShown(item) == IF item.kind = "text" THEN "user" ELSE item.role
LinesShown(item) == IF item.kind = "typed" THEN <<"colon">> ELSE item.lines

(* parse_summary_line: the line of the number gives a message unless       *)
(* nothing follows the role; a line below it gives one only when it has a  *)
(* colon, and what stands before the colon is taken for the role.          *)
ParsedItem(item) ==
    LET lines == LinesShown(item)
        below == Those(Tail(lines), {"colon"})
    IN IF lines = <<>> THEN <<>>
       ELSE <<Said("message", RoleShown(item), <<Head(lines)>>)>>
                \o [i \in DOMAIN below |-> Said("message", "quoted", <<"plain">>)]

(* flatten_nested_history_messages.                                        *)
Flattened(items) ==
    LET Parsed(sums) == FlattenSeq([i \in DOMAIN sums |-> ParsedItem(sums[i])])
    IN FlattenSeq([i \in DOMAIN items |->
                      IF items[i].kind # "summary" THEN <<items[i]>> ELSE Parsed(items[i].sums)])

-----------------------------------------------------------------------------
(* Run items are given by their kind; the content of a message is a text.  *)
RunKinds == {"message_output", "tool_call", "tool_call_output", "handoff_call",
             "handoff_output", "reasoning"}
AsInput(r) ==
    IF r.kind = "message_output" THEN Said("text", "", r.lines)
    ELSE Said("typed", r.kind, r.lines)
AsInputs(run) == [i \in DOMAIN run |-> AsInput(run[i])]

(* build_transcript.                                                       *)
Transcript(data) == Flattened(data.history) \o AsInputs(data.pre) \o AsInputs(data.new)

(* should_forward_run_item.                                                *)
Forwarded(run) ==
    Picked(run, {i \in DOMAIN run : run[i].kind \notin {"tool_call", "tool_call_output", "reasoning"}})

(* nest_handoff_history_with_mapper, with the default mapper or one that   *)
(* keeps the transcript as it is.                                          *)
Nested(data, mapper) ==
    [history |-> IF mapper = "keep" THEN Transcript(data) ELSE <<Summary(Transcript(data))>>,
     pre |-> Forwarded(data.pre),
     new |-> data.new,
     inputs |-> Forwarded(data.new)]

(* remove_all_tools and remove_tool_types_from_input, as an input filter.  *)
ToolKinds == RunKinds \ {"message_output"}
Filtered(data) ==
    LET Messages(run) == Picked(run, {i \in DOMAIN run : run[i].kind \notin ToolKinds})
        said == {i \in DOMAIN data.history :
                    ~(data.history[i].kind = "typed" /\ data.history[i].role \in ToolKinds)}
    IN [history |-> Picked(data.history, said), pre |-> Messages(data.pre),
        new |-> data.new, inputs |-> Messages(data.new)]

(* apply_handoff_transition: a filter goes before nesting.                 *)
HandoffTransition(data, filter, nest, mapper) ==
    IF filter # "unset" THEN Filtered(data)
    ELSE IF nest = "yes" THEN Nested(data, mapper)
    ELSE [history |-> data.history, pre |-> data.pre, new |-> data.new, inputs |-> data.new]

(* What the run goes on with: the input of the next agent, and what is     *)
(* kept for the result and the session.                                    *)
AfterHandoff(t, more) == [history |-> t.history, pre |-> t.pre \o t.inputs, new |-> more]

-----------------------------------------------------------------------------
(* Inputs: two handoffs, with something said before, in and between them.  *)

RunItemOf(kind, lines) == [kind |-> kind, lines |-> lines]
Histories ==
    SeqOf({Said("text", "", <<"colon">>), Said("text", "", <<"plain", "colon">>),
           Said("message", "system", <<>>), Said("typed", "tool_call_output", <<"plain">>)}, 2)
Steps == SeqOf({RunItemOf("message_output", <<"plain">>),
                RunItemOf("message_output", <<"plain", "plain">>),
                RunItemOf("tool_call", <<"plain">>),
                RunItemOf("handoff_output", <<"plain">>)}, 2)

(* What is summed up: one message for every item that has something to     *)
(* say, by its first line.                                                 *)
Spoken(items) ==
    LET said == Picked(items, {i \in DOMAIN items : LinesShown(items[i]) # <<>>})
    IN [k \in DOMAIN said |-> Said("message", RoleShown(said[k]), <<Head(LinesShown(said[k]))>>)]
Unquoted(items) == Picked(items, {i \in DOMAIN items : items[i].role # "quoted"})

(* However often a conversation is handed on with nested history, it stays *)
(* one summary that holds the first line of everything that was said       *)
(* before, in its order and with its role; an item of one line is whole.   *)
(* Messages and handoffs are also forwarded as items beside the summary,   *)
(* and the next handoff sums these up behind it once more: so what was     *)
(* forwarded is told again, in its order, and nothing else is.  Calls of   *)
(* tools and their outputs are never forwarded, and so told once; and      *)
(* every item of the step is kept for the session.                         *)
HistoryIsCarried(data, settings, more, first) ==
    LET second == HandoffTransition(AfterHandoff(first, more), settings.filter,
                                    settings.nest, settings.mapper)
        nested == settings.filter = "unset" /\ settings.nest = "yes"
    IN /\ first.new = data.new /\ second.new = more
       /\ nested =>
            /\ Unquoted(Spoken(Transcript(AfterHandoff(first, more))))
                   = Spoken(Transcript(data)) \o Spoken(AsInputs(first.pre \o first.inputs \o more))
            /\ Flattened(<<Summary(Flattened(second.history))>>)
                   = IF settings.mapper = "default" THEN Flattened(second.history)
                     ELSE Flattened(<<Summary(second.history)>>)
            /\ settings.mapper = "default" =>
                   Len(second.history) = 1
                   /\ \A i \in DOMAIN second.history[1].sums :
                          second.history[1].sums[i].kind # "summary"
            /\ \A r \in ToSet(second.pre \o second.inputs) :
                   r.kind \notin {"tool_call", "tool_call_output"}
=============================================================================
