------------------------------ MODULE AgentRun ------------------------------
(***************************************************************************)
(* Runner of agents-core: one lineage of runs in one session.              *)
(*                                                                         *)
(* A caller starts a run, holds the RunState a run returns, decides on the *)
(* tool approval it was interrupted for, and resumes it.  Between the call *)
(* and its return the runner loops over turns: a model response is an      *)
(* answer, a batch of tool calls, a handoff, or nothing at all, and any    *)
(* await of the way may end in an error, of which the caller sees no more  *)
(* than Err.  The runner works on locals and on a clone of the RunState:   *)
(* what a failed call did to the world stays done, what it recorded is     *)
(* lost.                                                                   *)
(*                                                                         *)
(* Items keep their kind and their call.  The default handoff is modelled, *)
(* under which generated and session items are the same list.              *)
(***************************************************************************)
EXTENDS Integers, Sequences, FiniteSets

CONSTANTS Agents, Tools,
          Start,        \* the agent the caller runs
          Toolbox,      \* the function tools of each agent
          Handoffs,     \* the targets each agent may hand off to
          Guarded,      \* the tools with needs_approval
          MaxTurns,     \* max_turns of the runner's configuration
          MaxBatch,     \* bound: tool calls in one response
          MaxCalls,     \* bound: tool calls of a behaviour
          MaxAttempts   \* bound: calls of run and resume

NoTool == "no tool"

ASSUME AgentsAssumption ==
    /\ Start \in Agents
    /\ Toolbox \in [Agents -> SUBSET Tools]
    /\ Handoffs \in [Agents -> SUBSET Agents]
    /\ Guarded \subseteq Tools
    /\ NoTool \notin Tools
ASSUME BoundsAssumption ==
    /\ MaxTurns \in Nat
    /\ MaxBatch \in Nat
    /\ MaxCalls \in Nat
    /\ MaxAttempts \in Nat

VARIABLES
    pc,        \* where the runner is; "idle" when the caller has control
    run,       \* the runner's locals
    saved,     \* the RunState the caller holds
    session,   \* the items of the session
    savedAt,   \* length of the session before the run of saved was saved
    invoked,   \* the tool calls that were really invoked, in order
    lastCall,  \* the model's call ids are fresh: the last one
    attempts,  \* calls of run and resume so far
    outcome    \* what the last call of the runner came to

vars == <<pc, run, saved, session, savedAt, invoked, lastCall, attempts, outcome>>
world == <<session, savedAt, invoked, lastCall>>

Calls == [id : Nat, tool : Tools]
NoCall == [id |-> 0, tool |-> NoTool]
Items == [kind : {"input", "text", "handoff"}, call : {NoCall}]
            \cup [kind : {"call", "output"}, call : Calls]

(* An ApprovalRecord under its key.  The uuid a pending call is approved   *)
(* under belongs to that call alone, so both bear the id of the call;      *)
(* call is 0 when the decision was made while no call was pending.         *)
Decisions == [id : Nat, call : Nat, tool : Tools \cup {NoTool}, approved : BOOLEAN]

RunStates == [agent : Agents, turns : Nat, max : Nat, items : Seq(Items),
              step : Calls \cup {NoCall}, approvals : SUBSET Decisions,
              persisted : Nat]

Runs == [mode : {"none", "run", "resume", "approval"}, prior : RunStates,
         agent : Agents, budget : Nat, taken : Nat, items : Seq(Items),
         pending : Seq(Calls), outs : Seq(Items), stop : Calls \cup {NoCall}]

Places == {"idle", "begin", "turn", "tools", "exceeded", "save"}
Results == {"none", "completed", "interrupted", "error", "exhausted", "undecided"}

TypeOK ==
    /\ pc \in Places
    /\ run \in Runs
    /\ saved \in RunStates
    /\ session \in Seq(Items)
    /\ savedAt \in Nat
    /\ invoked \in Seq(Calls)
    /\ lastCall \in Nat
    /\ attempts \in Nat
    /\ outcome \in Results

(* RunState::new: what a caller holds before any run.                      *)
NewState == [agent |-> Start, turns |-> 0, max |-> MaxTurns, items |-> << >>,
             step |-> NoCall, approvals |-> {}, persisted |-> 0]

Locals(mode, prior, budget) ==
    [mode |-> mode, prior |-> prior, agent |-> prior.agent, budget |-> budget,
     taken |-> 0, items |-> << >>, pending |-> << >>, outs |-> << >>,
     stop |-> NoCall]

NoRun == Locals("none", NewState, 0)

Item(kind, call) == [kind |-> kind, call |-> call]
Each(kind, calls) == [i \in 1..Len(calls) |-> Item(kind, calls[i])]
CallsIn(items, kind) ==
    {items[i].call : i \in {j \in 1..Len(items) : items[j].kind = kind}}
Ids(calls) == {c.id : c \in calls}

Init ==
    /\ pc = "idle"
    /\ run = NoRun
    /\ saved = NewState
    /\ session = << >>
    /\ savedAt = 0
    /\ invoked = << >>
    /\ lastCall = 0
    /\ attempts = 0
    /\ outcome = "none"

(* Mutants: a plain subtraction, and the budget of the first run.          *)
RemainingUnsaturated(s) == s.max - s.turns
FullBudget(s) == s.max

Monus(a, b) == IF a > b THEN a - b ELSE 0
Remaining(s) == Monus(s.max, s.turns)

-----------------------------------------------------------------------------
(* The caller.                                                             *)

Enter(place, locals) ==
    /\ pc = "idle"
    /\ attempts < MaxAttempts
    /\ attempts' = attempts + 1
    /\ pc' = place
    /\ run' = locals
    /\ outcome' = "none"
    /\ UNCHANGED <<saved, world>>

StartRun == Enter("begin", Locals("run", NewState, MaxTurns))

(* approve_for_tool and reject_for_tool: the key comes from the pending    *)
(* call when the id names it, the call id from the pending call whatever   *)
(* the id, the tool name from the caller.                                  *)
Decide(id, tool, approved) ==
    /\ pc = "idle"
    /\ saved' = [saved EXCEPT !.approvals =
                    {d \in @ : d.id # id} \cup
                    {[id |-> id, call |-> saved.step.id, tool |-> tool,
                      approved |-> approved]}]
    /\ UNCHANGED <<pc, run, world, attempts, outcome>>

Bound(d, call) == d.id = call.id /\ d.call = call.id /\ d.tool = call.tool

(* find_pending_tool_call and the approval of that call, when both are     *)
(* there and belong together.                                              *)
Resumable(s, call) ==
    /\ call \in CallsIn(s.items, "call")
    /\ call.id = s.step.id
    /\ \E d \in s.approvals : Bound(d, call)

(* resume() and resume_with_agent() on a state with no pending call.  The  *)
(* run has no session and its budget is what remains.                      *)
Resume(a) ==
    /\ saved.step = NoCall
    /\ Remaining(saved) > 0
    /\ Enter("begin", Locals("resume", [saved EXCEPT !.agent = a], Remaining(saved)))

ResumeExhausted ==
    /\ pc = "idle"
    /\ Remaining(saved) = 0
    /\ outcome' = "exhausted"
    /\ UNCHANGED <<pc, run, saved, world, attempts>>

(* resume_pending_tool_approval; resume_with_agent() comes here without a  *)
(* look at the remaining turns.                                            *)
ResumePending(a, call) ==
    /\ saved.step # NoCall
    /\ Resumable(saved, call)
    /\ Enter("tools", [Locals("approval", [saved EXCEPT !.agent = a], 0)
                          EXCEPT !.pending = <<call>>])

ResumeUndecided ==
    /\ pc = "idle"
    /\ saved.step # NoCall
    /\ \A call \in CallsIn(saved.items, "call") : ~Resumable(saved, call)
    /\ outcome' = "undecided"
    /\ UNCHANGED <<pc, run, saved, world, attempts>>

-----------------------------------------------------------------------------
(* A turn.                                                                 *)

Goto(place, locals) ==
    /\ pc' = place
    /\ run' = locals
    /\ UNCHANGED <<saved, session, savedAt, attempts, outcome>>

InputGuardrailsPass ==
    /\ pc = "begin"
    /\ Goto("turn", run)
    /\ UNCHANGED <<invoked, lastCall>>

(* Mutant: the loop ends at the configured number of turns.                *)
ConfiguredTurnsUsedUp ==
    /\ pc = "turn"
    /\ run.taken = MaxTurns
    /\ Goto("exceeded", run)
    /\ UNCHANGED <<invoked, lastCall>>

TurnsUsedUp ==
    /\ pc = "turn"
    /\ run.taken = run.budget
    /\ Goto("exceeded", run)
    /\ UNCHANGED <<invoked, lastCall>>

(* raw_responses.len() counts the turns: an iteration of the loop that     *)
(* pushes no response ends the run in an error.                            *)
Responded(items) ==
    [run EXCEPT !.taken = @ + 1, !.items = @ \o items]

(* Text and no calls: the final output, once the output guardrails pass.   *)
Answer ==
    /\ pc = "turn" /\ run.taken < run.budget
    /\ Goto("save", Responded(<<Item("text", NoCall)>>))
    /\ UNCHANGED <<invoked, lastCall>>

(* An empty output leaves the loop like an answer, but there is no final   *)
(* output and no item: the code below the loop takes it for MaxTurns.      *)
AnswerNothing ==
    /\ pc = "turn" /\ run.taken < run.budget
    /\ Goto("exceeded", Responded(<< >>))
    /\ UNCHANGED <<invoked, lastCall>>

Batches(least) == UNION {[1..n -> Tools] : n \in least..MaxBatch}
Fresh(tools) == [i \in 1..Len(tools) |-> [id |-> lastCall + i, tool |-> tools[i]]]

CallTools(tools) ==
    /\ pc = "turn" /\ run.taken < run.budget
    /\ lastCall + Len(tools) <= MaxCalls
    /\ lastCall' = lastCall + Len(tools)
    /\ Goto("tools", [Responded(Each("call", Fresh(tools)))
                        EXCEPT !.pending = Fresh(tools)])
    /\ UNCHANGED invoked

(* A handoff wins over tool calls of the same response: they become items  *)
(* and are never executed.                                                 *)
HandOff(target, tools) ==
    /\ pc = "turn" /\ run.taken < run.budget
    /\ target \in Handoffs[run.agent]
    /\ lastCall + Len(tools) <= MaxCalls
    /\ lastCall' = lastCall + Len(tools)
    /\ Goto("turn", [Responded(Each("call", Fresh(tools))
                                 \o <<Item("handoff", NoCall)>>)
                       EXCEPT !.agent = target])
    /\ UNCHANGED invoked

-----------------------------------------------------------------------------
(* The tool calls of a response, one after the other.                      *)

Known(call) == call.tool \in Toolbox[run.agent]

(* approved_execution: the decision the pending call was resumed with.     *)
Verdict(call) ==
    IF run.mode # "approval" THEN "none"
    ELSE IF \E d \in run.prior.approvals : d.id = call.id /\ d.approved
         THEN "approved" ELSE "rejected"

(* Mutant: a rejected call runs as well.                                   *)
MayRunOnAnyVerdict(call) == call.tool \notin Guarded \/ Verdict(call) # "none"

MayRun(call) == call.tool \notin Guarded \/ Verdict(call) = "approved"

Output(call) ==
    [run EXCEPT !.pending = Tail(@), !.outs = Append(@, Item("output", call))]

AtTool == pc = "tools" /\ run.pending # << >> /\ Known(Head(run.pending))

(* The tool returns, fails with a message for the model, or its output is  *)
(* replaced by an output guardrail.                                        *)
InvokeTool ==
    /\ AtTool
    /\ MayRun(Head(run.pending))
    /\ invoked' = Append(invoked, Head(run.pending))
    /\ Goto("tools", Output(Head(run.pending)))
    /\ UNCHANGED lastCall

(* An input guardrail answers in the tool's place.                         *)
GuardrailRejects ==
    /\ AtTool
    /\ MayRun(Head(run.pending))
    /\ Goto("tools", Output(Head(run.pending)))
    /\ UNCHANGED <<invoked, lastCall>>

CallerRejected ==
    /\ AtTool
    /\ Head(run.pending).tool \in Guarded
    /\ Verdict(Head(run.pending)) = "rejected"
    /\ Goto("tools", Output(Head(run.pending)))
    /\ UNCHANGED <<invoked, lastCall>>

(* The first call that needs an approval ends the batch: the calls behind  *)
(* it stay without an output.                                              *)
NeedsApproval ==
    /\ AtTool
    /\ Head(run.pending).tool \in Guarded
    /\ Verdict(Head(run.pending)) = "none"
    /\ Goto("tools", [run EXCEPT !.stop = Head(run.pending), !.pending = << >>])
    /\ UNCHANGED <<invoked, lastCall>>

(* The tool has run when its error is passed on, or when its output        *)
(* guardrail raises.                                                       *)
InvokeToolFails ==
    /\ AtTool
    /\ MayRun(Head(run.pending))
    /\ invoked' = Append(invoked, Head(run.pending))
    /\ pc' = "idle"
    /\ run' = NoRun
    /\ outcome' = "error"
    /\ UNCHANGED <<saved, session, savedAt, lastCall, attempts>>

BatchDone == pc = "tools" /\ run.pending = << >> /\ run.mode # "approval"

(* Mutant: the outputs are put before the items of the response.           *)
OutputsFirst == [run EXCEPT !.items = run.outs \o @, !.outs = << >>]

WithOutputs == [run EXCEPT !.items = @ \o run.outs, !.outs = << >>]

Interrupted ==
    /\ BatchDone
    /\ run.stop # NoCall
    /\ Goto("save", WithOutputs)
    /\ UNCHANGED <<invoked, lastCall>>

(* tool_use_behavior makes a tool's output the final one, or it does not.  *)
StopAtTools ==
    /\ BatchDone
    /\ run.stop = NoCall
    /\ Goto("save", WithOutputs)
    /\ UNCHANGED <<invoked, lastCall>>

NextTurn ==
    /\ BatchDone
    /\ run.stop = NoCall
    /\ Goto("turn", WithOutputs)
    /\ UNCHANGED <<invoked, lastCall>>

(* Mutant: the approval stays in the state.                                *)
ConsumeNothing(s, outs) ==
    [s EXCEPT !.items = @ \o outs, !.step = NoCall]

(* The pending call has its output: the clone of the state takes it, loses *)
(* the interruption and its approval, and the loop starts on what remains. *)
Consume(s, outs) ==
    [s EXCEPT !.items = @ \o outs, !.step = NoCall,
              !.approvals = {d \in @ : d.id # s.step.id}]

PendingCallDone ==
    /\ pc = "tools" /\ run.pending = << >> /\ run.mode = "approval"
    /\ Goto("begin", [Locals("resume", Consume(run.prior, run.outs),
                             Remaining(run.prior)) EXCEPT !.agent = run.agent])
    /\ UNCHANGED <<invoked, lastCall>>

-----------------------------------------------------------------------------
(* The end of a run.                                                       *)

(* The max_turns error handler gives a final output, with or without an    *)
(* item for the history.                                                   *)
HandleMaxTurns(items) ==
    /\ pc = "exceeded"
    /\ Goto("save", [run EXCEPT !.items = @ \o items])
    /\ UNCHANGED <<invoked, lastCall>>

(* Mutants: the items of the last call only; an interruption that stays.   *)
ItemsOfLastCall(persisted) ==
    [agent     |-> IF run.mode = "run" THEN run.agent ELSE run.prior.agent,
     turns     |-> run.prior.turns + run.taken,
     max       |-> run.budget,
     items     |-> run.items,
     step      |-> run.stop,
     approvals |-> run.prior.approvals,
     persisted |-> run.prior.persisted + persisted]

StepStays(persisted) ==
    [agent     |-> IF run.mode = "run" THEN run.agent ELSE run.prior.agent,
     turns     |-> run.prior.turns + run.taken,
     max       |-> run.budget,
     items     |-> run.prior.items \o run.items,
     step      |-> IF run.stop # NoCall THEN run.stop ELSE saved.step,
     approvals |-> run.prior.approvals,
     persisted |-> run.prior.persisted + persisted]

(* merge_run_states; a run that resumes nothing returns its own state.     *)
StateOf(persisted) ==
    [agent     |-> IF run.mode = "run" THEN run.agent ELSE run.prior.agent,
     turns     |-> run.prior.turns + run.taken,
     max       |-> run.budget,
     items     |-> run.prior.items \o run.items,
     step      |-> run.stop,
     approvals |-> run.prior.approvals,
     persisted |-> run.prior.persisted + persisted]

Return(persisted) ==
    /\ pc' = "idle"
    /\ run' = NoRun
    /\ saved' = StateOf(persisted)
    /\ outcome' = IF run.stop = NoCall THEN "completed" ELSE "interrupted"
    /\ UNCHANGED <<invoked, lastCall, attempts>>

ToSave == <<Item("input", NoCall)>> \o run.items

SaveAndReturn ==
    /\ pc = "save" /\ run.mode = "run"
    /\ session' = session \o ToSave
    /\ savedAt' = Len(session)
    /\ Return(Len(ToSave))

ReturnResumed ==
    /\ pc = "save" /\ run.mode = "resume"
    /\ Return(0)
    /\ UNCHANGED <<session, savedAt>>

(* The items are in the session when saving the conversation state or the  *)
(* compaction fails.                                                       *)
SaveAndFail ==
    /\ pc = "save" /\ run.mode = "run"
    /\ session' = session \o ToSave
    /\ pc' = "idle"
    /\ run' = NoRun
    /\ outcome' = "error"
    /\ UNCHANGED <<saved, savedAt, invoked, lastCall, attempts>>

(* Any other error: a tripwire, a hook or filter, the model, an unknown    *)
(* tool or handoff target, tool_use_behavior, MaxTurnsExceeded, add_items. *)
(* Nothing fails in a resumed run once its loop has ended.                 *)
Fail ==
    /\ pc # "idle"
    /\ ~(pc = "save" /\ run.mode = "resume")
    /\ ~(pc = "turn" /\ run.taken = run.budget)
    /\ pc' = "idle"
    /\ run' = NoRun
    /\ outcome' = "error"
    /\ UNCHANGED <<saved, world, attempts>>

-----------------------------------------------------------------------------
(* A caller decides on the calls it sees, and names their tool or none (a  *)
(* wrong name is none of the call's as well); a decision made while        *)
(* nothing is pending lies under a key that no interruption will have.     *)
Caller ==
    \/ StartRun
    \/ \E id \in Ids(CallsIn(saved.items, "call")) :
          \E tool \in {saved.step.tool, NoTool}, approved \in BOOLEAN :
             saved.step # NoCall /\ Decide(id, tool, approved)
    \/ \E a \in Agents : Resume(a)
    \/ \E a \in Agents : \E call \in CallsIn(saved.items, "call") : ResumePending(a, call)
    \/ ResumeExhausted
    \/ ResumeUndecided

Turn ==
    \/ InputGuardrailsPass
    \/ TurnsUsedUp
    \/ Answer
    \/ AnswerNothing
    \/ \E tools \in Batches(1) : CallTools(tools)
    \/ \E target \in Agents : \E tools \in Batches(0) : HandOff(target, tools)

ToolBatch ==
    \/ InvokeTool
    \/ InvokeToolFails
    \/ GuardrailRejects
    \/ CallerRejected
    \/ NeedsApproval
    \/ Interrupted
    \/ StopAtTools
    \/ NextTurn
    \/ PendingCallDone

End ==
    \/ \E items \in {<< >>, <<Item("text", NoCall)>>} : HandleMaxTurns(items)
    \/ SaveAndReturn
    \/ ReturnResumed
    \/ SaveAndFail
    \/ Fail

Next == Caller \/ Turn \/ ToolBatch \/ End

Safe == Init /\ [][Next]_vars

(* Every await of the runner comes back: the model, the tools, the hooks   *)
(* and the session answer or fail.                                         *)
Fairness == WF_vars(Turn \/ ToolBatch \/ End)

Spec == Safe /\ Fairness
-----------------------------------------------------------------------------
(* Properties.                                                             *)

(* What a step that invokes a tool with needs_approval starts from: the    *)
(* caller's state is interrupted for that call and approves it.            *)
ApprovedStep ==
    LET call == invoked'[Len(invoked')]
    IN  invoked' # invoked /\ call.tool \in Guarded
            => /\ saved.step.id = call.id
               /\ \E d \in saved.approvals : Bound(d, call) /\ d.approved

(* A tool with needs_approval is invoked only while the caller's state     *)
(* holds an approval of exactly that call: made for its id, under its tool *)
(* name, and not replaced by a rejection.  No failure, retry, rebinding to *)
(* another agent or decision on another call opens the gate.               *)
OnlyApprovedCallsRun == [][ApprovedStep]_vars

(* Every output in the items of a state answers a call that precedes it,   *)
(* and no call is answered twice, however often the run was interrupted    *)
(* and resumed: what the model is shown next is a well-formed transcript.  *)
OutputsAnswerCalls ==
    \A i \in 1..Len(saved.items) : saved.items[i].kind = "output" =>
        /\ \E j \in 1..(i - 1) : saved.items[j] = Item("call", saved.items[i].call)
        /\ \A j \in 1..(i - 1) : saved.items[j] # saved.items[i]

(* The call an interruption names is among the items and has no output, so *)
(* resume finds it and has still to run it.                                *)
PendingCallIsOpen ==
    saved.step # NoCall =>
        /\ saved.step \in CallsIn(saved.items, "call")
        /\ saved.step \notin CallsIn(saved.items, "output")
        /\ saved.step.tool \in Guarded

(* "one-shot approvals must be consumed after resume": no state holds a    *)
(* decision that is bound to a call with an output.                        *)
ApprovalsAreConsumed ==
    \A d \in saved.approvals :
        d.call = d.id => d.id \notin Ids(CallsIn(saved.items, "output"))

(* A state that was resumed any number of times has not taken more turns   *)
(* than the run it comes from was given, and its own budget never promises *)
(* more than is left of that.                                              *)
TurnsWithinBudget ==
    /\ saved.turns <= MaxTurns
    /\ saved.turns + Remaining(saved) <= MaxTurns

(* What the session holds of a run is the beginning of what its state      *)
(* says, as many items as the state says were persisted; later runs, and   *)
(* calls that failed, only append behind it.                               *)
SessionHoldsThePersisted ==
    LET held == SubSeq(session, savedAt + 1, savedAt + saved.persisted)
    IN  saved.persisted > 0 =>
            /\ savedAt + saved.persisted <= Len(session)
            /\ saved.persisted <= Len(saved.items) + 1
            /\ Head(held) = Item("input", NoCall)
            /\ Tail(held) = SubSeq(saved.items, 1, saved.persisted - 1)

(* Every call of the runner returns: handoffs back and forth and tools     *)
(* that ask for more tools use up the turns.                               *)
EveryCallReturns == pc # "idle" ~> pc = "idle"

-----------------------------------------------------------------------------
(* What the repository says of resuming, and the code does not do.         *)

(* "cannot resume a run state that has exhausted max_turns": the refusal   *)
(* is for states that have taken their turns.                              *)
RefusedWhenExhausted ==
    outcome = "exhausted" => saved.turns >= MaxTurns

(* Use a handoff when "the next agent should become the active agent": the *)
(* agent a state resumes with has the tool the state is interrupted for.   *)
ActiveAgentOwnsThePendingCall ==
    saved.step # NoCall => saved.step.tool \in Toolbox[saved.agent]

(* "Continuation data lives in the result state and session state": when a *)
(* run has completed, a call that is in the session and has an output has  *)
(* its output in the session as well.                                      *)
SessionHasTheOutputs ==
    outcome = "completed" =>
        CallsIn(session, "call") \cap CallsIn(saved.items, "output")
            \subseteq CallsIn(session, "output")
=============================================================================
