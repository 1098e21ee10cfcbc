------------------------------- MODULE Codex -------------------------------
(***************************************************************************)
(* The Codex extension: a thread whose turns are processes of the command  *)
(* line client (exec.rs), which print the events of the turn (thread.rs),  *)
(* and the tool that runs a turn of a new or of a named thread             *)
(* (codex_tool.rs).                                                        *)
(***************************************************************************)
EXTENDS Naturals, Sequences, SequencesExt, ItemSelection

NoId == "no id"
GivenIds(id, other) == IF id = NoId THEN other ELSE id

(* ThreadEvent, as a line that is printed; "unknown" is every other event, *)
(* a known one without its fields included, and "garbage" is not JSON.     *)
Event(type, value) == [type |-> type, value |-> value]
CodexEvents ==
    {Event("started", id) : id \in {"t", "u"}}
        \cup {Event("item", "m1"), Event("item", "m2"), Event("item", "other"),
              Event("completed", "usage"), Event("failed", "why"), Event("error", "why"),
              Event("unknown", "x"), Event("garbage", "x")}
EventsOf(events, type) == Picked(events, {i \in DOMAIN events : events[i].type = type})
Messages(events) == Others(EventsOf(events, "item"), {Event("item", "other")})

(* What the process does: prints its events, and exits well or not.        *)
Processes == [events : BoundedSeq(CodexEvents, 2), success : BOOLEAN]
TurnOptions == [schema : {"none", "object", "other"}, cancelled : BOOLEAN]

(* build_command_args: the flags of the thread's options in their order,   *)
(* the thread to resume, the images, and "-" for the prompt, which is      *)
(* written to the process.  web_search_enabled has no flag.                *)
Flags == <<"model", "sandbox", "cd", "add-dir", "skip-git-repo-check",
           "output-schema", "reasoning", "network", "web_search", "approval">>
CommandArgs(options, schemaFile, thread, images) ==
    LET set == options \cup IF schemaFile THEN {"output-schema"} ELSE {}
    IN Those(Flags, set)
           \o (IF thread = NoId THEN <<>> ELSE <<"resume", thread>>)
           \o [i \in 1..images |-> "image"] \o <<"-">>

(* build_env: the variables of the process, which inherits those of the    *)
(* program only when nothing at all was set.                               *)
Inherited == {"inherited"}
ProcessEnv(env, baseUrl, apiKey) ==
    LET own == (IF env = Inherited THEN {} ELSE env)
                   \cup (IF baseUrl THEN {"OPENAI_BASE_URL"} ELSE {})
                   \cup (IF apiKey THEN {"CODEX_API_KEY"} ELSE {})
    IN IF env = Inherited /\ ~baseUrl /\ ~apiKey THEN Inherited ELSE own

(* normalize_input: the texts are the prompt.                              *)
ImagesIn(input) == Len(Those(input, {"image"}))

(* run_streamed: the id of the thread and the events, or an error.  The    *)
(* file of the schema lives as long as the call.                           *)
Launch(turn) == turn.schema # "other" /\ ~turn.cancelled
Streamed(thread, turn, process) ==
    LET ok == /\ Launch(turn) /\ process.success
              /\ EventsOf(process.events, "garbage") = <<>>
        started == EventsOf(process.events, "started")
    IN [ok |-> ok, events |-> IF ok THEN process.events ELSE <<>>,
        thread |-> IF ok /\ started # <<>> THEN Last(started).value ELSE thread]

(* run: what the turn said, or the first error its events tell.            *)
FailedTurn(thread) == [ok |-> FALSE, thread |-> thread, items |-> 0, response |-> ""]
TurnOf(thread, turn, process) ==
    LET streamed == Streamed(thread, turn, process)
        events == streamed.events
    IN IF ~streamed.ok \/ EventsOf(events, "failed") \o EventsOf(events, "error") # <<>>
       THEN FailedTurn(streamed.thread)
       ELSE [ok |-> TRUE, thread |-> streamed.thread,
             items |-> Len(EventsOf(events, "item")),
             response |-> IF Messages(events) = <<>> THEN ""
                          ELSE Last(Messages(events)).value]

(* What a turn is launched with, with the options of the client.           *)
LaunchOf(client, thread, turn, input) ==
    IF Launch(turn)
    THEN [args |-> CommandArgs(client.flags, turn.schema = "object", thread, ImagesIn(input)),
          env |-> ProcessEnv(client.env, client.baseUrl, client.apiKey)]
    ELSE [args |-> <<>>, env |-> {}]

(* codex_tool runs a turn of the thread that was asked for, or the one of  *)
(* its options, or a new one.  The next turn of the same thread comes      *)
(* after its answer or its error.                                          *)
ToolThread(asked, pinned) == GivenIds(asked, pinned)
TwoTurns(asked, pinned, client, input, turns, processes) ==
    LET start == ToolThread(asked, pinned)
        first == TurnOf(start, turns[1], processes[1])
        second == TurnOf(first.thread, turns[2], processes[2])
    IN [told |-> <<first, second>>,
        launched |-> <<LaunchOf(client, start, turns[1], input),
                       LaunchOf(client, first.thread, turns[2], input)>>]

(* Inputs.                                                                 *)
Clients ==
    {[flags |-> {}, env |-> Inherited, baseUrl |-> FALSE, apiKey |-> FALSE],
     [flags |-> {"model", "approval"}, env |-> Inherited, baseUrl |-> FALSE, apiKey |-> TRUE],
     [flags |-> {"network"}, env |-> {"PATH"}, baseUrl |-> TRUE, apiKey |-> FALSE]}
NextTurns == [schema : {"none"}, cancelled : BOOLEAN]
NextProcesses ==
    [events : {<<>>, <<Event("started", "u"), Event("item", "m1")>>, <<Event("failed", "why")>>},
     success : BOOLEAN]

(* A turn that answers was not cancelled and did not fail, neither as a    *)
(* process nor in what it told, and its response is its own.  The next one *)
(* is launched on the thread that a readable turn, a failed one included,  *)
(* told last, or else on the one of the turn before, and on no other: what *)
(* a process began that exited badly or printed what is no JSON is not     *)
(* gone on with.  Every option of the thread is told, and before the id,   *)
(* and a process that is given variables has the ones it was given and     *)
(* none of the program's own.                                              *)
TurnsFollowTheirThread(asked, pinned, client, turns, processes, made) ==
    LET start == ToolThread(asked, pinned)
        started == EventsOf(processes[1].events, "started")
        readable == /\ Launch(turns[1]) /\ processes[1].success
                    /\ Event("garbage", "x") \notin ToSet(processes[1].events)
        expected == <<start, IF readable /\ started # <<>> THEN Last(started).value ELSE start>>
    IN \A i \in 1..2 :
        LET told == made.told[i]
            args == made.launched[i].args
            resumes == {k \in DOMAIN args : args[k] = "resume"}
        IN /\ told.ok =>
                /\ Launch(turns[i]) /\ processes[i].success
                /\ \A e \in ToSet(processes[i].events) :
                       e.type \notin {"failed", "error", "garbage"}
                /\ told.response # "" =>
                       Event("item", told.response) \in ToSet(processes[i].events)
           /\ ~told.ok => told.response = ""
           /\ args # <<>> =>
                /\ (resumes = {} <=> expected[i] = NoId)
                /\ \A r \in resumes : args[r + 1] = expected[i]
                /\ Last(args) = "-"
                /\ \A flag \in client.flags : \E k \in DOMAIN args :
                       args[k] = flag /\ \A r \in resumes : k < r
                /\ made.launched[i].env = Inherited \/ "inherited" \notin made.launched[i].env
                /\ client.apiKey => "CODEX_API_KEY" \in made.launched[i].env
                /\ client.env # Inherited => client.env \subseteq made.launched[i].env
=============================================================================
