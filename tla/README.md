# A verification development for openai-agents-rust

TLA+ models of the parts of this repository whose correctness depends on the
order in which things happen: several tasks sharing one object, a caller that
retries what failed half way, a state that is saved, decided on and resumed;
and of the conversions (histories, requests, schemas, tools, mounts) whose
results the rest relies on.
TLC checks the models on small instances, and TLAPS proves every safety property
but one for every value of the constants, the conversions for inputs of any length.

Paths in this file are relative to `crates/`.

- [The system](#the-system)
- [What is modelled](#what-is-modelled)
- [Runs](#runs)
- [Proofs](#proofs)
- [Where the code and its documents disagree](#where-the-code-and-its-documents-disagree)
- [Facts met on the way](#facts-met-on-the-way)
- [Only model-checked, and not modelled](#only-model-checked-and-not-modelled)
- [Plan](#plan)

## The system

The workspace has six crates. `agents-core` holds the runtime: the runner, the
tools, the handoffs, the guardrails, sessions, MCP, tracing and the local
sandbox. `agents-openai` has the OpenAI models and sessions,
`agents-realtime` and `agents-voice` the two live pipelines,
`agents-extensions` further session stores, sandboxes and transports, and
`openai-agents` re-exports them.

### Components, their state, and how they interact

| component | state | operations | talks to |
| --- | --- | --- | --- |
| Live run handle (`internal/streaming.rs`, `result.rs`) | event list, completion slot, revision, `Notify` | `push_event`, `complete`; `stream_events`, `wait_for_completion` | written by the spawned run, read by the caller's tasks |
| Runner turn loop (`run.rs`, `internal/turn_*.rs`) | locals of a run: agent, items, responses, interruption | `run`, `run_with_session`, `resume`, `resume_with_agent` | model, tools, handoffs, guardrails, session, live run handle |
| Run state (`run_state.rs`) | agent, turns taken, budget, items, interruption, approvals, persisted count | `approve_for_tool`, `reject_for_tool`, `remaining_turns` | returned by the runner, edited by the caller, given back to `resume` |
| Tool execution (`internal/tool_execution.rs`, `run_context.rs`, `tool_guardrails.rs`) | the batch of one response | one call after the other: approval, guardrails, invocation | runner, tools, MCP |
| Guardrails (`guardrail.rs`, `internal/guardrails.rs`) | none | evaluated together with `try_join_all` | runner |
| Handoffs (`handoff/`) | none; histories are rewritten | select the target, filter the input | runner |
| Session persistence (`internal/session_persistence.rs`) | none | prepare the input, save the result | runner, session stores |
| Session stores (`memory/`, extensions, `agents-openai/src/memory.rs`) | a list of items; compaction threshold | `get_items`, `add_items`, `pop_item`, `clear`, compaction | runner, a database or a service |
| Server conversation tracker (`internal/oai_conversation.rs`) | fingerprints of sent items, response ids | prepare the input, mark as sent | runner |
| Replay (`internal/items.rs`) | none | compose what the model sees next | runner, run state |
| MCP manager and servers (`mcp/`) | servers, names, active list, failures; each server's client | `connect_all`, `reconnect`, `cleanup_all` | caller; agents share the servers |
| MCP tools, agents as tools, schemas (`mcp/util.rs`, `agent.rs`, `_tool_identity.rs`, `strict_schema.rs`) | none | offer, look up, guard, call | runner, models |
| Realtime session (`agents-realtime/src/session.rs`) | connected, closed, agent, settings, transcript, event log, driver | `connect`, `send_*`, `interrupt`, `update_agent`, `close` | callers holding clones, driver, streams |
| Voice pipeline (`agents-voice/src/`) | audio chunks, completion | transcribe, run, synthesise | like the live run handle |
| Local sandbox (`sandbox/mod.rs`) | workspace, snapshot, serialised state, PTYs | create, resume, write, run, refresh, cleanup, drop | tools, file system |
| Tracing (`tracing/`) | thread-local current trace and span | start, finish, scopes | everything |
| Hosted sandboxes (`agents-extensions/src/sandbox/`) | session ids, options, ports | create, resume, mount | outside services |
| Providers and models (`models/multi_provider.rs`, `agents-openai/src/`) | process-wide defaults | route, resolve settings, make payloads, parse answers | runner, outside services |
| Codex (`extensions/experimental/codex/`) | the thread id | run turns as processes | tools |
| Editing helpers, facade | none of interest | conversions and I/O | callers |

`PROJECT.json` lists these and the smaller parts as `components`, with what is
modelled of each.

### The behaviours that are hard

* **Publishing and sleeping.** The live run handle, the realtime session and
  the voice result share one pattern: a list behind one mutex, a completion
  behind another (or a flag), an atomic revision and a `tokio::sync::Notify`.
  Readers look, load the revision, and wait for a change. The order of these
  accesses decides whether an event is lost or slept through.
* **A human in the loop.** A run that meets a tool with `needs_approval` stops
  and returns a `RunState`. The caller decides, resumes, may resume twice, may
  give the state to another agent, and any resume may fail after it ran the
  tool. The state handed to `resume` is a clone, so a failure leaves the
  caller's state as it was.
* **Budgets and books over several calls.** Turns, persisted items and
  approvals are counted per run and then merged over resumes.
* **Partial failure.** A batch of tool calls stops in the middle; a session has
  the items of a run that then fails; one of several MCP servers does not
  connect, and the undoing of the others fails as well.
* **Statements and crashes.** A store's operation is several statements, a
  snapshot several passes over a directory, a compaction a read, a clear and a
  write; others come in between, and an operation may break off anywhere.
* **What was already said.** Replays, trackers, session callbacks and nested
  histories all have to tell an item that is new from one that was there before,
  by content, address or place.
* **Current per thread.** Tracing scopes live in thread-locals while tasks move.
* **Shared servers.** MCP servers are `Arc`s that agents connect and clean up
  around each list of tools and each call, while a manager keeps books on them.

What makes each component correct, in a line: streams read the log and nobody
sleeps through a change; a guarded tool runs only when this call was approved;
transcripts have each output once and behind its call; resumes never give more
turns than the first run had; the session holds what the state says was
persisted; a connected MCP server is always known to somebody; a resume finds
the files of the last refresh; what was added to a store stays until it is
popped; nothing is sent twice to a conversation, and nothing is left out; a
session and its driver agree on the settings; a request carries what the
innermost layer set; and two agents never work in one sandbox session.

## What is modelled

| module | models | role |
| --- | --- | --- |
| `EventLog` | what a live handle promises | abstract specification |
| `LiveStream` | the live run handle | refines `EventLog` |
| `LiveStreamProofs` | | theorems about `LiveStream` |
| `AgentRun` | runner, tool batch, run state, session saving | one lineage of runs |
| `MCAgentRun` | | toolboxes and handoffs for TLC |
| `AgentRunProofs` | | theorems about `AgentRun` |
| `MCPManager` | MCP manager, servers, visiting runs | |
| `MCPManagerProofs` | | theorems about `MCPManager` |
| `SandboxSession` | workspace, snapshot, resume, drop, crash of the local sandbox | |
| `ItemLog` | a list that grows at its end, loses an item or is emptied | abstract specification |
| `SessionStores` | memory, SQLite, Redis, Dapr and encrypted sessions | refines `ItemLog` |
| `ItemSelection`, `Maps` | the items of a list that are kept; maps laid over each other | used wherever lists are filtered or settings merged |
| `CompactionSession` | the compaction session and the runs that use it | |
| `ConversationTracker` | what a request to a kept conversation carries | |
| `MCDurable` | `SandboxSession`, `SessionStores` and these two, side by side | composition |
| `MCDurableProofs` | | theorems about the four and the composition |
| `LiveLog` | the reader of a log with a revision and wake-ups | used by the next two |
| `RealtimeSession` | session, model, settings, callers and streams | |
| `VoicePipeline` | turns, workflow, channel and listeners | |
| `MCPServer` | one MCP server below `MCPManager` | |
| `Tracing` | traces and spans on threads | |
| `MCLive` | the four above, side by side | composition |
| `MCLiveProofs` | | theorems about the four, the readers of `LiveLog` and the composition |
| `ReplayItems`, `ToolOutputTrimmer`, `HandoffHistory`, `SessionInput` | what becomes of a conversation's items | operators |
| `HostedSandbox`, `DirectoryCopy` | hosted sessions and mounts; a host directory copied while it changes | operators and small state machines |
| `ProviderRouting`, `ModelRequests`, `ModelMessages` | a request's way, its payload, its answer | operators |
| `ToolCalls`, `AgentTools`, `Codex` | tools, agents as tools, the command line client | operators |
| `Conversions` | one step from an input to what the code makes of it, for each of the above | composition |
| `ListProofs` | | lemmas about lists, counting and selection |
| `ConversionsProofs` | | theorems about sandboxes, tools and requests in `Conversions` |
| `TranscriptProofs` | | theorems about transcripts in `Conversions` |
| `SandboxAgents`, `ManifestUpdate`, `StrictSchemas` | which agent has which sandbox; updates of a manifest; schemas | what walks trees |
| `MCData` | `Conversions` with these three | composition for TLC |

The definitions called *Mutant* are not part of a specification: each is a
plausible mistake in the definition that follows it, and shows that a property
notices it.

### `LiveStream` (`agents-core/src/internal/streaming.rs`, `result.rs`)

A step is one critical section, one atomic access or one call on the `Notify`;
between two of them any other task may run, as on a multi-threaded runtime.

* Writer: `PushItem`/`PushOutcome` (the list under its lock), `BumpRevision`,
  `NotifyWaiters`, and `SetCompletion`, which publishes the same way.
  `complete()` first pushes `run_completed` or `run_failed` and then stores the
  result, so the two agree. `RunTaskPanics` is the spawned task of
  `Runner::run_streamed` panicking in a tool or a hook: its `JoinHandle` is
  dropped and nobody completes the handle.
* Consumers: `EventAt`, `CheckCompletion`, `LoadRevision`, `Register`
  (`notified()` creates the future), `CompareRevision`, `Resume`, `Drop`.
  Streams run `stream_events()` and start at `scan`; waiters run
  `wait_for_completion()` and start at `check`.
* tokio's `Notify` is external. It is modelled by its contract:
  `notify_waiters()` completes every `Notified` future that exists, polled or
  not, and no later one.

`EventLog` has none of this: a log that grows until its outcome is in it, one
result published after that, and readers that take the log from the start. The
mapping is `log <- events`, `result <- completion`, `read <- got`; a consumer
that has `ended` has `finished`, one that was `dropped` has `left`. The writer's
position, the revision and the wake-ups map to stuttering.

### `AgentRun` (`agents-core/src/run.rs`, `run_state.rs`, `internal/tool_execution.rs`)

The state is what the runner works on (`run`), what the caller holds (`saved`),
and what is outside both: the session and the list of tool calls that really
happened (`invoked`). `pc` is the runner's place: `begin` (input guardrails),
`turn` (top of the loop), `tools` (the batch), `exceeded` (below the loop, for
MaxTurns), `save` (the tail), and `idle` when the caller has control.

| actions | code |
| --- | --- |
| `StartRun`, `Enter` | `run`, `run_with_session` and their variants |
| `Decide` | `approve_for_tool`, `reject_for_tool` |
| `Resume`, `ResumeExhausted` | `resume`, `resume_with_agent` without an interruption |
| `ResumePending`, `ResumeUndecided`, `PendingCallDone` | `resume_pending_tool_approval` |
| `InputGuardrailsPass`, `TurnsUsedUp`, `Answer`, `AnswerNothing`, `CallTools`, `HandOff` | one iteration of the loop in `run_items_internal` |
| `InvokeTool`, `InvokeToolFails`, `GuardrailRejects`, `CallerRejected`, `NeedsApproval` | `execute_local_function_tools` |
| `Interrupted`, `StopAtTools`, `NextTurn` | what follows a batch |
| `HandleMaxTurns`, `SaveAndReturn`, `ReturnResumed`, `SaveAndFail`, `Fail` | the end of a run; `merge_run_states` is `StateOf` |

Decisions of the abstraction:

* Items keep their kind and their call; texts, arguments and results are left
  out. Call ids of the model are fresh, and the uuid a pending call gets as its
  approval id is identified with the id of that call: both are unique to it.
* `needs_approval` belongs to the tool and is the same under every agent that
  has it (`Guarded`).
* `RunState::new` is what a caller holds before any run. The caller decides
  only on calls it sees in its state, and only while one is pending: a decision
  made at another time is recorded under a key no interruption will have.
* The default handoff is modelled. Input filters and nested histories, under
  which generated and session items differ, are in `HandoffHistory`.
* `Fail` stands for every `Err` between two awaits: a tripwire, a hook, the
  model, an unknown tool or target, `MaxTurnsExceeded`, a session that cannot
  be read or written. What it leaves behind (`invoked`, `session`) is modelled;
  which error it is, is not.
* `resume_with_agent` on an interrupted state skips the look at the remaining
  turns, and so does the model.
* Hooks, lifecycle events and usage are observers of these steps and are left
  out. Traces, model input filters and sandbox state touch none of this state and
  have modules of their own (`Tracing`, `ConversationTracker`, `SandboxAgents`).

### `MCPManager` (`agents-core/src/mcp/manager.rs`, `agent.rs`, `mcp/util.rs`)

Servers are their positions in `all_servers`, and names are taken to be
distinct. The manager has one call in progress (`call`): the kind of loop, the
servers it has still to come to (`todo`), those it connected (`newly`) and those
that failed (`refused`). `connect_all` and `reconnect(true)` go forward, undoing
and `cleanup_all` go backward, and `reconnect(false)` is a cleanup followed by a
connect (`renew`). The fields are written by `ConnectDone`, `RetryDone`,
`UndoDone` and `CleanupDone` only, as in the code, so a failed cleanup
(`CleanupFails`) or a dropped future (`CallDropped`) leaves them as they were.

Servers are shared. A *visit* is what `Agent::get_all_function_tools` does
around a list of tools, and `to_function_tool` around a call: connect, use,
clean up. It interleaves with the manager, server by server.

Connecting or cleaning up one server is one step with the outcomes of
`MCPServerSse` and `MCPServerStreamableHttp`: both take the old client away
before they await anything, so a failure leaves no client. `MCPServerStdio`
never fails, which is one of these behaviours. `active_servers` is a bag (its
order does not matter to the properties), and the error texts, which are written
together with `failed_servers`, are left out. `abandoned` is a history variable:
the servers that a call or visit that broke off left connected.

### `SandboxSession` (`agents-core/src/sandbox/mod.rs`)

One workspace directory, the snapshots copied from it, and the sessions that
work in it, made one after the other from the serialised state of an earlier
one. A step is one pass over a directory tree, so that a refresh is
`Fingerprint`, `CopyToSnapshot` and what its caller makes of the outcome, and a
resume is `ResumeFrom`, `RestoreIsNeeded` or `RestoreIsNotNeeded`, and `Unpack`.
Each pass may fail half way and leave some of the files (`ClearFails`, `CopyFails`,
`RestoreFails`, `UnpackFails`, `RemoveSnapshotFails`, `CleanupFails`), the last
`Arc` may be dropped (`DropSession`), and the process may die between any two
passes (`Crash`: no destructor runs, the directories stay). `Drift` is a command
that fails after it changed a file, or a PTY: nothing is refreshed then, and it
changes files while a refresh copies them too. A file's contents are a version,
and the hash of a tree identifies its contents. `last`, `known` and `had` are
history: what the last refresh copied, whether that copy is complete, and what a
file may be in a copy that is not.

### `SessionStores` (`agents-core/src/memory/`, `agents-extensions/src/memory/`)

A step is one statement or request. SQLite adds item by item without a
transaction and pops with a SELECT and a DELETE; Redis has one command each and a
TTL; Dapr reads the whole list and writes it back; an encrypted session drops old
envelopes when it pops. The advanced, async and database sessions delegate to
SQLite. `Abandon` and `AnswerLost` break an operation off before or after a
statement. sqlx and the servers are external; that the driver enforces foreign
keys (so that a message cannot be inserted after its session's row is gone) is
sqlx's default and the only fact of theirs that is used. `ItemLog` is the list of
which every store, Dapr under clients that take turns included, shows a history.

### `CompactionSession` (`agents-openai/src/memory.rs`, `agents-core/src/run.rs`)

Runs that load the conversation state, add items, save the state and ask for a
compaction, interleaved with compactions, pops and clears by the caller. Every
field has a lock of its own in the code, and a compaction reads, clears and adds
under three acquisitions (`ReadItems`, `ClearItems`, `PutItems`); a run that is
dropped stops in between (`CutOff`). Run *n* has response id *n*.

### `ConversationTracker` (`agents-core/src/internal/oai_conversation.rs`)

The turns of one run whose conversation the server keeps. The tracker knows an
item by its serialised text and, for one request, by its address; the model
numbers the occurrences to tell them apart and shows the code only text and
address. A filter of the caller keeps, drops, reorders, copies and edits
(`DeliverFiltered`). `SourcesOf` is `derive_filtered_input_source_indices`, whose
loops, but for the one over addresses, are `Pass` with its ways to choose a
source; `Mark` is `mark_input_as_sent_with_sources`, and `Spent` its calls of
`remove_remaining_initial_item`. These loops, and the filters of `ItemSelection`,
are recursive functions rather than operators, so that the proofs reach them.

### `RealtimeSession` (`agents-realtime/src/`)

Callers that hold clones of a session and interleave at every lock: `connect`,
`send_text`, `send_audio`, `interrupt`, `update_agent` and `close`. `Merge`,
`Normal`, `Updated` and `UpdatedModel` are the two-level settings of
`config.rs` with their clear markers, for one slot of the input or of the output
kind. `driver` has what `OpenAIRealtimeWebSocketModel` keeps and `shown` is what a
server would have made of all the session payloads, which is external. The model
never fails in this crate: it does not open the socket itself.

### `VoicePipeline` (`agents-voice/src/`)

A turn is two tasks, the pipeline's (`pipes`) and the workflow's (`flows`), with
a channel between them. A failure of the speech model drops the receiver, and
then the workflow's task may stop at its next text, before it keeps its history.
`listeners` are a stream and a waiter on the first turn's result, which has the
structure of the live run handle. `LiveLog` has the reader that this log and the
realtime session's share: look, load the revision, sleep if it is still the same.

### `MCPServer` (`agents-core/src/mcp/server.rs`)

One server with its flag and its client, for stdio, SSE and streamable HTTP.
`connect()` is `TakeOld`, `CleanOld`, `BuildClient`, `Store`, `StoreToo`, and
`cleanup()` is `TakeClient`, `CleanClient`, `Unflag`; every await may fail
(`RemoteFails`) or be dropped (`UserIsDropped`). The two HTTP transports store the
client and the flag in different orders. Visits connect, use and clean up.

### `Tracing` (`agents-core/src/tracing/`)

Each thread has a current trace and a current span; a run is a task that may take
every step on another thread. `StartSpan` takes trace, parent and silence from
whatever is current there. `FinishSpan` leaves no span current, and `FinishTrace`
leaves an unfinished span behind, as an error or a dropped future does.

### The conversions (`Conversions`, `MCData`)

Each subject of `Conversions` is one step from an input to what the code makes of
it, for every input of bounded size: replayed inputs (`ReplayItems`), trimmed tool
outputs (`ToolOutputTrimmer`), a handoff's history (`HandoffHistory`), a session
callback (`SessionInput`), mounts (`HostedSandbox`), model names and providers
(`ProviderRouting`), settings and payloads (`ModelRequests`), answers of both APIs
and websocket frames (`ModelMessages`), offered tools, calls and guardrails
(`ToolCalls`), agents as tools (`AgentTools`), and two turns of a thread (`Codex`).
Two subjects are state machines: hosted sessions that are made, resumed and
restarted, and a host directory that changes while it is copied (`DirectoryCopy`).

`MCData` adds what walks trees: manifest updates (`ManifestUpdate`), schemas
(`StrictSchemas`), and, as a third state machine, the sandbox sessions of agents
over handoffs and suspensions (`SandboxAgents`). `RECURSIVE` operators appear only
there. All the loops of `Conversions` are recursive functions, selections
(`Picked`) or comprehensions, so that its theorems need no bound on their inputs.

Texts are model values, lines or lengths, whatever the property tells apart; a
name is the sequence of its parts.

## Runs

| run | module, configuration | what it shows |
| --- | --- | --- |
| `live_stream` | `LiveStream`, `LiveStream.cfg` | no wake-up is lost, the result follows the log, streams read the log |
| `agent_run` | `MCAgentRun`, `MCAgentRun.cfg` | approvals, transcripts, turns, session, termination |
| `mcp_manager` | `MCPManager`, `MCPManager.cfg` | the manager's books, and that no connected server is forgotten |
| `durable` | `MCDurable`, `MCDurable.cfg` | resumes, stores, compaction and the tracker, with clients that overlap and operations that break off |
| `live` | `MCLive`, `MCLive.cfg` | realtime session, voice pipeline, MCP server and tracing under several tasks |
| `data` | `MCData`, `MCData.cfg` | the conversions over all bounded inputs |
| `lost_result` | `LiveStream`, `LiveStreamLostResult.cfg` | violation of `CompletedResultIsObserved` |
| `empty_tail` | `LiveStream`, `LiveStreamEmptyTail.cfg` | violation of `EndedStreamsAreNotEmpty` |
| `refused_early` | `MCAgentRun`, `AgentRunRefused.cfg` | violation of `RefusedWhenExhausted` |
| `handoff_then_approval` | `MCAgentRun`, `AgentRunHandoff.cfg` | violation of `ActiveAgentOwnsThePendingCall` |
| `resumed_session` | `MCAgentRun`, `AgentRunSession.cfg` | violation of `SessionHasTheOutputs` |
| `mcp_shared` | `MCPManager`, `MCPManagerShared.cfg` | violation of `ExposesOnlyConnected` |

### The properties

`LiveStream`

* `WakeupIsPending`: a consumer parked on an old revision is about to be woken.
  It holds because the future is created before the revision is compared, and
  the revision is bumped before `notify_waiters()`.
* `ResultFollowsLog`: who sees the result sees the outcome event, and nothing
  is recorded after it.
* `ImplementsEventLog`: the refinement of `EventLog`.
* `NoMissedChange`: who waits for a change after revision *r* is woken once the
  revision is not *r*.

`AgentRun`

* `OnlyApprovedCallsRun`: a step that invokes a guarded tool starts from a
  caller's state that is interrupted for this call and approves it, by id and
  tool name, over any sequence of decisions, failed resumes and rebindings.
* `OutputsAnswerCalls`, `PendingCallIsOpen`: the transcript of a state is
  well-formed, and its interruption names an unanswered call of it.
* `ApprovalsAreConsumed`: no state keeps a decision on a call that has its output.
* `TurnsWithinBudget`: turns taken, and turns taken plus turns promised, never
  exceed the first run's `max_turns`.
* `SessionHoldsThePersisted`: the persisted count of a state tells what the
  session has of it.
* `EveryCallReturns`: handoffs and tool calls use up the turns.

`MCPManager`

* `NoServerIsForgotten`: a connected server is named by the manager, pending in
  its call, held by a visit, or was abandoned by a failed cleanup or dropped
  future.
* `StrictFailureCleansUp`: when a strict connect has failed and was undone, none
  of the servers it came to is connected.
* `BooksAreRight`: after a connect no server is both connected and failed, and
  none is ever listed twice, whatever went before.

`MCDurable`

* `ResumeRestoresTheLastRefresh`: a resume gives out the files of the last
  complete refresh, or those its state was taken with when they are what is
  there. It gives out a part only when the last refresh or cleanup broke off, by
  a failure or a crash between its clear and its copy, or when the workspace
  changed under the copy; then each file is missing, or as it was in the workspace
  during that refresh or in the snapshot it had begun to clear, and never older.
* `OwnerDecides`, `SessionsHaveTheirWorkspace`: a caller's workspace is never
  removed and the runner's does not outlive its sessions, failed resumes
  included; a session that was not cleaned up has its workspace.
* `StoreIsALog` (the refinement of `ItemLog`), `AddedIsKept`: no step of a store
  reorders the list or brings back an older one, and an item whose `add_items`
  returned stays until a pop takes exactly it; Dapr is excepted once two operations
  on it overlapped.
* `PoppedOnce`: an item that was popped is returned again, or is in the store
  again, only if another operation had read it before the pop. In memory and Redis
  none can. In SQLite that is a pop between its SELECT and its DELETE: overlapping
  pops may return one item, later ones never do, whatever else overlapped. In Dapr
  an overlapping add or pop writes it back, and a later pop returns it again.
* `OnlyOldCandidatesGo`, `UnstoredIsNotContinued`: of runs that use a session one
  after the other, an item that is missing was popped, cleared, lost with a run
  that was dropped between the clear and the add of its compaction, or was added
  as a candidate and is older than every candidate that is left; and a response
  that was not stored is never continued from.
* `UnseenIsPrepared`: while no filter put in a text of its own, what the server
  has not seen is in the next request. The exception is real: an item whose text
  the server has seen in another item is left out, as when the same agent hands
  off twice.
* `SeenIsNotRepeated`: what the server has seen is in no later request, whatever a
  filter put in, but in place of an unseen item with the same text.
* `SourcesAreRight`: no prepared item is the source of two filtered ones, and an
  item that was kept or copied whole is attributed to the one it came from.

`MCLive`

* `DriverFollowsSession`: between calls that neither overlapped nor were dropped,
  session and model agree on being connected and on every setting, and the
  payloads together tell the same.
* `ReadersAreTold`: no reader of a realtime session or a voice turn sleeps through
  an event or the end, but for the gap between its look and its load, and for a
  close whose events are still to come or were lost with the call.
* `HeardTurnsAreRemembered`: what a voice turn that completed said is in the
  history, whole, in one piece and nowhere else, whatever failed around it, when
  turns do not overlap.
* `ClientsAreAccountedFor`: an MCP server leaves no client open that it does not
  hold, and its flag is right, as long as calls neither overlap nor are dropped.
* `SpansNameTheirRun`: the spans of a run that stays on one thread, alone, are
  reported under its own trace, whatever ended or was aborted on the thread before.

`MCData`

* `Transcripts`: a replay has everything that was generated, each identified item
  once unless a filter of the model's input changed what the run had generated,
  and no hosted output of an earlier run without its call; the trimmer changes
  nothing but what old outputs say, the same in every turn; nested histories carry
  everything said in order, what was forwarded twice; and a session is given what
  is new to it.
* `Sandboxes`: mounts carry every credential they were given, in one way, or are
  refused; two hosted sessions of one start of the process are never one another's;
  a copied directory is one that was there, or the copy failed.
* `Requests`: the name of a request follows its prefixes to the model it is made
  with; own fields win over defaults; every option arrives with the value of the
  innermost layer, metadata merged; what was read of an answer is sent back in
  order, calls paired with their outputs, texts as the user's words, reasoning and
  messages as the assistant's without what stands beside their content; a response
  is only taken from frames that end with it.
* `Tools`: offered tools can be told apart by name and by approval key; a call
  gets through only when every guardrail lets it; an agent as a tool does the same
  with and without a listener; a turn of a Codex thread goes on where the last one
  ended.
* `Trees`: a manifest update is taken, refused without a change, or fails half way
  under the old manifest with some entries of the new one, and can then be made
  again; a schema is strict all the way down; two identities never share a sandbox session, and a resumed agent goes on in
  its own, with its approvals.

Every exception a property makes is in the comment above it, and each is a fact
about the code (see [below](#facts-met-on-the-way)).

Every property of a passing run has a mutant in `PROJECT.json` that breaks it.

### Bounds, and why they are enough

* `live_stream`: one stream and one waiter, two kinds of event, and at most two
  events before the outcome. A consumer interacts with the writer and never with
  another consumer, except through `notify_waiters`, which treats each alike; a
  mutant with `notify_one` needs the two consumers there are. Two events are
  enough to swap, skip or repeat one. The proofs drop these bounds.
* `agent_run`: two agents that share the guarded tool and one that only the
  first has; two turns, batches of up to two calls, two calls and three entries
  to the runner. That is enough for an interruption in the middle of a batch, a
  handoff before or after it, a decision, a failed resume, and a second resume.
  The violations that need more turns or fewer calls have configurations of
  their own. `MaxCalls` and `MaxAttempts` are the only bounds that cut
  behaviours; `MaxBatch` limits one response.
* `mcp_manager`: three servers, so that a failure has servers before and behind
  it and undoing has an order, and one visiting run. There is no bound on the
  number of calls: the state space is finite.

* `durable`: two files with at most two changes and two sessions, so that a
  session resumes from another, a file goes, comes or differs, and a part of a copy
  has one file of two; two clients with two items each and three operations in all;
  three runs and compactions in between, a threshold of one and three items, so that
  a user's item, a candidate that goes and one that stays meet; three original items
  with two texts, so that texts repeat, and two requests. The components share no
  state, so one subject moves at a time. Nothing tells the two sessions apart, so
  they are symmetric, and only safety is checked.
* `live`: two callers and three calls, of which two overlap; three voice turns of
  which two overlap; four clients and calls of an MCP server; two threads and two
  runs. Callers, users and threads are one set of model values, and agents and
  runs another: nothing tells the members of a set apart, and a subject uses each
  set in one role, which makes the symmetry sound.
* `data`: sequences of up to four items, two or three where items have many forms;
  two hosted sessions, three runs of one conversation, two edits of a directory.
  A pair and something before, between and behind it is what the conversions can
  mix up. `MaxHosted`, `MaxRounds` and `MaxEdits` are bounds of the state machines.
  A manifest update meets a workspace in which somebody else has written, and any
  one of its first ten calls of the file system fails, leaving nothing or half of
  what it was to do.

### Fairness

* `LiveStream`: weak fairness of `SetCompletion`, `BumpRevision` and
  `NotifyWaiters` (straight-line code of `push_event` and `complete`, with no
  await in between that could stay pending), and of each consumer's next step
  (tokio polls a task that was woken). Nothing says that the run reports an
  event or ends.
* `AgentRun`: weak fairness of the runner's own steps together. It means that
  the model, the tools, the hooks and the session answer or fail, which is what
  an await that returns comes to. The caller is not obliged to do anything.
* `MCPManager`, `MCDurable`, `MCLive`, `MCData`: none, only safety is stated.
  That a reader is told is stated as safety: it is not asleep with something left
  for it.

`CHECK_DEADLOCK FALSE` is set where the system may really stop: a run that
panicked or completed with all its consumers gone, a caller that has used up
its attempts, sessions that are over, and a conversion that was made.

## Proofs

TLAPS checks every theorem to the last leaf. Every invariant and action property
of a passing run is a theorem, but for `Trees`. The constants are arbitrary; the
assumptions are those named in the modules:

* the consumers are disjoint sets and events are not outcomes (`LiveStream`);
* toolboxes and handoffs are functions on the agents (`AgentRun`);
* the manifest is a set of files, and a file has a version (`SandboxSession`);
* a voice pipeline has a turn and an agent (`VoicePipeline`);
* no run is the one that stands for none (`Tracing`);
* the number of servers, clients, visits, calls, turns, items, operations, runs,
  changes, hosted sessions and edits, and the threshold of a compaction, are
  naturals.

**`LiveStreamProofs`.** The inductive invariant is
`IInv == TypeOK /\ LogIsClosedOnce /\ WakeupIsPending`. `WakeupIsPending` is
inductive with the types: `Register` puts a consumer into `waiting` before
`CompareRevision` may park it on an equal revision, and `BumpRevision` makes it
unequal but leaves the writer at `notify`. `TypeOK` alone is not inductive, for
the completion slot takes the last event; `LogIsClosedOnce` says that it is an
outcome exactly when the writer is past it. It also gives `ResultFollowsLog`,
and the step lemma of `Refinement`: each action maps to one of `EventLog` or to
a stutter.

**`AgentRunProofs`.** `TypeCorrect` goes action by action over small lemmas
about the operators. `TurnsCorrect` needs `TurnInv`: the bound holds of the
caller's state *and* of the state the runner was resumed with, and that state's
turns plus the budget of the run are within `MaxTurns`. `GateCorrect` needs
`GateInv`: a state holds at most one decision per id (the map of approvals, with
`Decide` replacing an entry), the caller's approvals cannot change while the
runner works on a pending call, and every call still pending in that mode is
vouched for: it is the interruption of the caller's state and has a decision
bound to it. The gate looks a verdict up by id alone; uniqueness is what turns
"an approval under this id" into "the approval of this call".

For the items: the transcript of a run is cut over three places: what a
resume was given, what this run added, and the outputs of the batch it is in. `Transcript` puts them together, and the inductive invariant
`SavedInv /\ RunInv` says of it, as of the transcript of the caller's state, that
every output follows its call and no call has two. `PlacesInv` says where in the
three pieces the runner may be, `PendingInv` that the calls still to be done are
different calls without an output, and `DecisionsInv` that decisions are on calls
without an output: in approval mode the one call that is left is the interruption
of the state the caller holds, and its decision the one that goes with it. Ids up to
`lastCall` are used, so a fresh call is unanswered and undecided. `SessionInv`
adds what the session holds of the caller's state and of the resumed one.

**`MCPManagerProofs`.** `BooksInv` separates what a connecting call has still to
come to, connected and was refused, and keeps a retry inside the failed servers;
`BooksCorrect` follows. `KnownCorrect` and `StrictCorrect` need `KnowsInv`: a call
that will replace the names has among `todo` and `newly` every server that only the
names know of, and what a strict failure has refused or still has to undo is all
that may be up. The visits are dealt with once, by `VisitCovers`: what a visit
connects it holds, and what it lets go of is down or abandoned.

**`MCDurableProofs`: the sandbox session.** The types are not inductive on their
own: unpacking reads the snapshot that the session remembers, so `Placed` says that
one that has to be restored remembers one. `OwnersAgree` says that every live session and every
state that is kept agree with the workspace on its owner, and that a first refresh
belongs to a caller's session; hence no failure removes a caller's workspace, and
each last way out of a runner's removes it. `Alone` says that without sharing there
is one live session, and that it has its workspace until its cleanup.

`ResumeCorrect` needs `Resumable` on top of it: while sessions come one after the
other there is one snapshot directory, which the session that works and the state
that is kept name, or name none; it holds the last copy as long as that copy is
known to be complete, and a restore unpacks into an empty directory. Of a copy
that is not complete it says, file by file, that the snapshot has nothing or what
`had` remembers of this refresh, through the clear, the copy, the failures of both
and a crash between them.

**`MCDurableProofs`: the stores.** A step of a store is a step of one client, so
`ClientStep` says once what it has to show for `StoreInv` to hold of everybody.
`LandInv`: of an operation that adds, every item is in the store, was taken or
wiped, or is still to be stored, until Dapr rewrites the list from an old copy.
`OnceInv`: items are in one place, rows or taken, but for those that an operation
had read before a pop took them (`held`), and only of such stores as read and write
in two steps are there any. `AloneInv` says that what such a client has read is what
is there when nobody raced. `RowsStep` tells, backend by backend, what a step may do
to the rows (append, take one, empty, or nothing, unless Dapr's clients raced), and
`StoreRefinesLog` maps each of these to a step of `ItemLog` or a stutter.

**`ListProofs`.** Filters and loops over lists are recursive functions of a `LET`.
That such a function exists, and satisfies its recursion, is shown without the
induction theorems of the library, which no installed prover can instantiate:
`CountingUp` says that a set of numbers with 0 that is closed under the next number
leaves none out, because `<` is well founded, and `Iterates` takes a list of length
*n* to one of length *n + 1*. From it follow what `Picked`, `Those` and `Others`
keep and in which order, and how many. A filter, a map and a join of lists are
morphisms, that is, they make of two lists behind one another what they make of
each, and `MorphismsAgree` says that two morphisms that agree on lists of one item
are the same: so it is enough to look at one item.

**`MCDurableProofs`: compaction and tracker.** From the same lemmas follow what a
`Pass` matches and what `Spent` leaves.

* The compaction session. `UnstoredInv` follows the ids of a run that was not
  stored through every field that may carry one, all of which are `Fresh`: of a run before
  the one that is still to be noted, and of a response that was stored. `RewriteInv` says at each of read, clear and
  put that what is missing from the list, the copy and the rewrite was a candidate
  older than those that are left, was removed, or was lost with a run that was
  dropped after its clear.
* The tracker's sources. A pass fills only places without a source and only with
  prepared items that have no filtered one (`Grown`), so no item is a source
  twice. An item that kept its address has its own before the first pass, and one
  that was copied whole finds its own in the pass over texts.
* The tracker. `Sent` says that the texts marked as sent are those of items that
  the server has seen. `Enough` is what makes `SeenIsNotRepeated` hold when
  texts repeat: of each text no more items remain of the original input than the
  server has yet to see. It is a counting argument: the marks of a delivery
  are injected into the items that leave (`LeftBy`, `MarkEnough`), so that each
  item the server sees takes one of its text off the list, perhaps not itself.
* `SideBySide` shows that the composition behaves as each component alone, so that
  all theorems about the components hold in it, `DurableTypeOK` among them.

**`MCLiveProofs`: the realtime session.** `Underway` tells, for each place between two locks,
how far a call is from the agreement that it starts from and ends with: a connect
has changed the driver and not yet the session, an update has sent what it has not
written back, events that are still to be pushed already count. The settings are
the heart of it: `UpdatedType` and `SettledIsGiven` show that what `update_agent`
works out is normal, and that the model, which merges it once more with what it
had, comes out with exactly that, because an update only drops a value by
replacing or clearing it (`Carries`).

The readers are dealt with once for both pipelines, by lemmas about `LiveLog`: a
step of a reader, of the log and of its end keeps `Told`, that a reader asleep has
nothing left unless it came between its look and its load. `StreamsInv` adds who
is about to announce an event or the end.

**`MCLiveProofs`: the others.** For the voice pipeline, `PipeInv` relates the two tasks of a
turn and its channel: "ok" is the result only of a pipeline that kept its receiver
and has drained a channel without an error. `MemoryInv` follows the history through
the one workflow at work: before it begins nothing of its turn is there, while it
runs the history is what it was given and ends with the turn's question, and when it
is over without an error all that it said is there, in one piece. `RecordInv` is
what bounds the log of a turn: two events for each text, recorded or still in the
channel, and what is owed for an error (`Balance`, `Owed`).

For the MCP server, `HoldInv` names, for whoever is alone inside `connect()` or
`cleanup()`, the one client that is open: the one it took, the one it built, or
the one the server holds. `AtRest` is what is left when nobody is inside: the
flag and the client agree. Overlapping users are outside both, and the history
variable that the property excludes is how the invariant tells.

For tracing, `ScopeIsOwn` says whose trace and span a thread has current
while its run is alone on it, and `ReportIsOwn` what was reported. Leftovers of an
aborted run are the difficulty: they stay current until a trace starts, which is
before any span of the next run.

`LiveInv` puts the invariants of the four components together, and `ReadersCorrect`
is what remains of it for streams and listeners.

**`ConversionsProofs`.** Each conversion has a theorem of its own, for inputs of any
length (`EveryCallIsGuarded`, `EveryOfferIsTold` and so on), and the theorems about
`ConversionSpec` put these together: `SandboxesAreRight`, `ToolsAreTold`,
`RequestsAreRight`. Their properties are about one step, so they are their own
invariants, but for the two state machines.

* `HostedInv`: the counter is ahead of the ids of every session of this start of the
  process, so that a new session is nobody's, and a resumed one differs from the one
  it was at most by being preserved.
* `CopyInv`: a version that is replaced never comes back, so a file that still is
  what its snapshot says was so while it was read; what is staged and what is left
  make up the listing, until the check of the directory's own version shows that the
  listing is still right.
* Offered tools: the qualified names of what is offered differ, or the offer is an
  error. The names are sequences, and trimming, joining and prefixing them is shown
  to keep different ones apart, but for the aliases the property excepts.
* Routing: `IsOnTheWay` says what is left of a name at a provider that was reached
  through some of its prefixes. Settings: laying one map over another is `++` of
  `Maps`, and `EverySettingReaches` follows one option through all of the layers.
* Quoting: reading an answer, running its calls and making the next request are
  maps and joins over its items, so it is enough to follow one item: its words, its
  role, and what is beside it.

**`TranscriptProofs`.** The same for conversations.

* The trimmer (`EveryTrimIsStable`). A shown tool, trimmed, is no longer than before,
  and trimming it again leaves it: so do the length of all and the item. Trimming
  leaves everything alone that the boundary and the names of tools depend on
  (`LooksAlike`), so a second pass has the same boundary; and the boundary of a
  conversation that goes on moves forward only (`BoundaryBehind`). That it leaves
  alone what it wrote is for limits with room for that (`HasRoom`), as the default
  ones have.
* The replay (`EveryReplayIsWhole`). `CallsAreKept`: with an output its call is kept.
  The base is whatever a filter delivered. Where that ends as the items were
  generated, the overlap is in the items the model saw last, and identified items
  are generated once, so what is put behind the overlap repeats none of them
  (`SeenOverlaps`, `ReplayedOnce`).
* The session's input (`EverySessionInputIsNew`). The loop matches an item by itself
  first and by its key otherwise. Of the items with one key, only the numbers
  matter: when *n* are new, the history has *o* and *t* come out of the callback,
  `SavedOf(n, o, t)` of them are saved (`KeyedAlike`). Empty objects are the
  exception: their tags tell each from all others (`OnceIsReferred`), so for them it
  is one item after the other.
* The history of a handoff (`EveryHistoryIsCarried`). `Spoken`, `Unquoted` and
  reading a summary are morphisms. A summary that is read again gives the items it
  was made of, by their first lines (`ReadOnce`), so that a second summary says what
  the first one said and what came since.

## Where the code and its documents disagree

Each of these has a run that ends in a counterexample, and an entry under
`findings` in `PROJECT.json` with the lines that are quoted.

1. `wait_for_completion()` looks for the result and loads the revision
   afterwards. A result stored between the two is waited for without end, while
   a test says "wait should observe completed result" (`lost_result`).
2. `stream_events()` looks for an event and then for the completion; events
   recorded in between are never delivered (`empty_tail`).
3. `merge_run_states` adds the turns of earlier runs but keeps the budget of the
   last one, so a run that is resumed twice is refused as exhausted too early
   (`refused_early`). It is never given too many turns: `TurnsWithinBudget`.
4. `merge_run_states` keeps the agent of the resumed state even when the resumed
   run handed off; the next resume runs the new agent's pending call with the
   old agent (`handoff_then_approval`).
5. Resuming continues without the session: outputs of approved calls are not
   saved to it (`resumed_session`).
6. The servers of a manager are disconnected by the runs of the agents that have
   them, and the manager goes on exposing them (`mcp_shared`).

## Facts met on the way

These are neither promised nor denied by a document or a test, so they are no
findings; the models follow the code, and a property that has to make an
exception for one says so. A reader who changes the code may want to know them.

*The runner and its items*

* No provider produces `OutputItem::Handoff`: a handoff arrives as a tool call.
* Calls that a guardrail or the caller rejected count for `StopOnFirstTool`.
* After a handoff with a filtered or nested history the conversation tracker
  still works on what remained of the old input; a nested history repeats
  forwarded messages at the second handoff.
* The overlap of a replay compares whole items: after a filter of the model's
  input that shortens or drops items, identified ones are given again as they were
  generated. A trimmer whose preview is longer than what it leaves alone (50 and
  200 in a test) cuts a preview from a preview in the next run, and need not shorten.
* A deferred top-level tool and a tool whose namespace equals its name have the
  same approval key. `FunctionTool.timeout_seconds` is never enforced.
* Agents as tools: the session option has no effect without a listener; the
  output extractor is called on a failed streamed run when the failure formatter
  says nothing; an interrupted nested run gives "" as a success; a nested run
  inherits the conversation and the previous response id; results recorded for a
  nested run are never consumed; and it resets the thread's current trace.

*Models*

* `first_non_empty_string` takes the first string even if it is empty; quoted
  string arguments lose their quotes; a tool's namespace is dropped on replay and
  is not sent, and chat answers carry none, so namespaced tools are not found.
* `include_usage` and the extra arguments are not sent; chat drops truncation,
  store, include, metadata, reasoning and verbosity; the verbosity overwrites
  `text` and with it the output schema; assistant texts are replayed as the user's,
  and what stands beside a message's content, as a refusal, is dropped.
* The metadata of the layers is merged while every other option is replaced. A
  `type` or `stream` among the extra arguments is overwritten on the websocket.
* Default settings are looked up under the name with its prefix ("openai/gpt-5").
* The provider's websocket flag is read when it is made, the API at each resolve.
* Schemas: `type: ["object", "null"]` is not treated as an object, merging `allOf`
  or a reference replaces the parent's properties, a schema under
  `additionalProperties` is left as it is, and a reference to itself with siblings
  does not come to an end (such inputs are left out).

*Sandboxes*

* Merging run states keeps the earlier agent but the later sandbox; sessions of
  agents that are not visited are dropped, and a suspension in an agent without a
  sandbox loses all of them; agents below an ancestor that occurs twice have no
  key; `resume_with_agent` without a pending approval restores twice.
* A refresh clears the snapshot before it copies: one that breaks off in between
  leaves an empty or partial snapshot under the fingerprint of the one before, and
  a resume restores that.
* A manifest update that fails half way leaves the entries written so far under
  the old manifest, and a copy of a directory whose destination is a file leaves
  its staging directory. When only the refresh at its end fails, the manifest is
  set already, a retry does nothing, and the snapshot stays old until the next
  refresh.
* A manifest entry inside one that is rewritten is not written again; host files
  are compared by time and size, so edits of two files in place can give a mixture.
* Ids of hosted sessions start again with the process. Blaxel's GCS mounts go to
  its own endpoint.

*Live pipelines and stores*

* A flat update of an input setting has no effect once there is a nested value.
* Updates of a realtime session that overlap overwrite one another, and voice
  turns that overlap lose history.
* That a message cannot outlive its SQLite session rests on a default of sqlx.
* Codex: `web_search_enabled`, `idle_timeout_seconds`, `persist_session` and
  `subprocess_stream_limit` have no effect; the abort signal is looked at before
  the launch only; the environment is cleared when a key or base URL is set; an
  error answer has no thread id; schema files made in one nanosecond share a
  directory; and the whole prompt is written before any output is read.

## Only model-checked, and not modelled

Model-checked only:

* the liveness properties `NoMissedChange` and `EveryCallReturns`: liveness under
  fairness is out of the prover's reach;
* `Trees` of `MCData`: `Annotate` (the keys of agents), `Delta` and
  `MaterializeEntry` (manifests) and `EnsureStrict` (schemas) walk trees, and are
  `RECURSIVE` operators. What a recursive definition computes over a tree needs
  induction over data, for which the library's theorems take an operator as a
  parameter; and the detour of `ListProofs`, a function over the numbers up to a
  length, does not reach trees. Without what `Annotate` makes of keys there is no
  invariant of `SandboxAgents` to prove.

Not modelled, or only in part:

* What is on the other side of a request: models, databases, hosted sandboxes,
  the Codex program. They answer as the code expects, or fail.
* Sockets, chunks, HTTP and headers; the transports of the realtime extensions,
  audio and playback; the speech models and the text splitter.
* PTYs, path checks and the confinement command of the local sandbox, and the
  pipes of its children. `sandbox/mod.rs:658` drains stdout before stderr while it
  holds the child's lock; a child that fills stderr blocks both, and no state of
  the models tells that.
* Text patches, editors and computers, and the parsing of single fields.
* `OpenAIConversationsSession`, which keeps its items in memory under one lock.
* Hooks, lifecycle events, usage, exporters and processors of traces, which observe.
* `model_retry` calls the model once; a retry adds no behaviour to the loop.
* `list_tools_for_active` changes nothing. `failed_servers` and `errors` are
  public, but nothing in the repository writes them from outside, nor clones a
  manager.
* Builders, re-exports, global configuration and the interactive loop.

## Plan

What would add most next:

1. **`MCPServer` below `MCPManager`**: the step of the manager as the abstract
   specification of a server's connect and cleanup, with a refinement between them.
2. **Proofs** about what walks trees, with the depth of a tree in the place of the
   length of a list: that two identities never share a sandbox session
   (`SandboxAgents`), that a schema is strict all the way down.
3. **Composition of `AgentRun` with `HandoffHistory` and `ConversationTracker`**, so
   that generated and session items differ under input filters within one run.
4. **Realtime transports**: connection loss and the server's events, with the
   playback state that an interruption reads.
5. **PTYs** of the local sandbox beside `Drift`, with their output and the drop of
   the session.
6. **`OpenAIConversationsSession`**, once it talks to the service.
