--------------------------- MODULE AgentRunProofs ---------------------------
(***************************************************************************)
(* Theorems about AgentRun, for any agents, tools and bounds: its types,   *)
(* that a guarded tool runs only when it was approved, that resuming never *)
(* takes more turns than the first run was given; and of its items, that   *)
(* outputs answer calls, that an interruption names an open call, that     *)
(* decisions are consumed, and that the session holds what a state counts  *)
(* as persisted.                                                           *)
(***************************************************************************)
EXTENDS AgentRun, SequenceTheorems, TLAPS

-----------------------------------------------------------------------------
(* Types of what the actions build.                                        *)

LEMMA NoCallIsNoCall == NoCall \notin Calls
  BY AgentsAssumption DEF NoCall, Calls

LEMMA NewStateType == NewState \in RunStates
  BY AgentsAssumption, BoundsAssumption DEF NewState, RunStates

LEMMA RemainingType ==
  ASSUME NEW s \in RunStates
  PROVE  Remaining(s) \in Nat
  BY DEF Remaining, Monus, RunStates

LEMMA LocalsType ==
  ASSUME NEW mode \in {"none", "run", "resume", "approval"},
         NEW prior \in RunStates, NEW budget \in Nat
  PROVE  Locals(mode, prior, budget) \in Runs
  BY DEF Locals, Runs, RunStates

LEMMA NoRunType == NoRun \in Runs
  BY NewStateType, LocalsType DEF NoRun

LEMMA ItemType ==
  /\ Item("input", NoCall) \in Items
  /\ Item("text", NoCall) \in Items
  /\ Item("handoff", NoCall) \in Items
  /\ \A call \in Calls : Item("call", call) \in Items /\ Item("output", call) \in Items
  BY DEF Item, Items

(* A batch of n tools gives n fresh calls and n items.                     *)
LEMMA FreshType ==
  ASSUME NEW least \in Nat, NEW tools \in Batches(least), lastCall \in Nat
  PROVE  /\ Len(tools) \in Nat
         /\ Fresh(tools) \in Seq(Calls)
         /\ Each("call", Fresh(tools)) \in Seq(Items)
<1>1. PICK n \in least..MaxBatch : tools \in [1..n -> Tools]
  BY DEF Batches
<1>2. n \in Nat /\ tools \in Seq(Tools) /\ Len(tools) = n
  BY <1>1
<1>3. Fresh(tools) \in [1..n -> Calls]
  BY <1>1, <1>2 DEF Fresh, Calls
<1>4. Fresh(tools) \in Seq(Calls) /\ Len(Fresh(tools)) = n
  BY <1>2, <1>3
<1>5. Each("call", Fresh(tools)) \in [1..n -> Items]
  BY <1>3, <1>4, ItemType DEF Each
<1>6. QED
  BY <1>2, <1>4, <1>5

LEMMA CallsInType ==
  ASSUME NEW items \in Seq(Items), NEW call \in CallsIn(items, "call")
  PROVE  call \in Calls
<1>1. PICK i \in 1..Len(items) : items[i].kind = "call" /\ call = items[i].call
  BY DEF CallsIn
<1>2. items[i] \in Items
  BY ElementOfSeq
<1>3. QED
  BY <1>1, <1>2 DEF Items

LEMMA RespondedType ==
  ASSUME run \in Runs, NEW items \in Seq(Items)
  PROVE  Responded(items) \in Runs
<1>1. run.taken + 1 \in Nat
  BY DEF Runs
<1>2. run.items \o items \in Seq(Items)
  BY ConcatProperties DEF Runs
<1>3. QED
  BY <1>1, <1>2 DEF Responded, Runs

LEMMA OutputType ==
  ASSUME run \in Runs, run.pending # << >>
  PROVE  /\ Head(run.pending) \in Calls
         /\ Output(Head(run.pending)) \in Runs
<1>1. run.pending \in Seq(Calls) /\ run.outs \in Seq(Items)
  BY DEF Runs
<1>2. Head(run.pending) \in Calls /\ Tail(run.pending) \in Seq(Calls)
  BY <1>1, HeadTailProperties
<1>3. Append(run.outs, Item("output", Head(run.pending))) \in Seq(Items)
  BY <1>1, <1>2, ItemType, AppendProperties
<1>4. QED
  BY <1>2, <1>3 DEF Output, Runs

LEMMA WithOutputsType ==
  ASSUME run \in Runs
  PROVE  WithOutputs \in Runs
<1>1. run.items \o run.outs \in Seq(Items)
  BY ConcatProperties DEF Runs
<1>2. << >> \in Seq(Items)
  OBVIOUS
<1>3. QED
  BY <1>1, <1>2 DEF WithOutputs, Runs

LEMMA StateOfType ==
  ASSUME run \in Runs, NEW persisted \in Nat
  PROVE  StateOf(persisted) \in RunStates
  BY DEF StateOf, Runs, RunStates

LEMMA ToSaveType ==
  ASSUME run \in Runs
  PROVE  ToSave \in Seq(Items) /\ Len(ToSave) \in Nat
<1>1. run.items \in Seq(Items) /\ <<Item("input", NoCall)>> \in Seq(Items)
  BY ItemType DEF Runs
<1>2. QED
  BY <1>1, ConcatProperties, LenProperties DEF ToSave

-----------------------------------------------------------------------------
(* TypeOK is inductive.                                                    *)

LEMMA InitType == Init => TypeOK
  BY NewStateType, NoRunType DEF Init, TypeOK, Places, Results

LEMMA DecideType ==
  ASSUME TypeOK,
         NEW id \in Nat, NEW tool \in Tools \cup {NoTool}, NEW approved \in BOOLEAN,
         Decide(id, tool, approved)
  PROVE  TypeOK'
<1> DEFINE d == [id |-> id, call |-> saved.step.id, tool |-> tool, approved |-> approved]
           rest == {e \in saved.approvals : e.id # id}
<1>1. saved \in RunStates /\ saved.step.id \in Nat
  BY DEF TypeOK, RunStates, Calls, NoCall
<1>2. d \in Decisions /\ rest \in SUBSET Decisions
  BY <1>1 DEF Decisions, RunStates
<1>3. saved' = [saved EXCEPT !.approvals = rest \cup {d}]
  BY <1>1 DEF Decide, RunStates
<1>4. saved' \in RunStates
  BY <1>1, <1>2, <1>3 DEF RunStates
<1>5. QED
  BY <1>4 DEF Decide, TypeOK, world

(* The calls a caller decides on or resumes are calls of its state.        *)
LEMMA IdsType ==
  ASSUME TypeOK, NEW id \in Ids(CallsIn(saved.items, "call"))
  PROVE  id \in Nat
<1>1. PICK call \in CallsIn(saved.items, "call") : id = call.id
  BY DEF Ids
<1>2. saved.items \in Seq(Items)
  BY DEF TypeOK, RunStates
<1>3. QED
  BY <1>1, <1>2, CallsInType DEF Calls

LEMMA EnterType ==
  ASSUME TypeOK, NEW place \in Places, NEW locals \in Runs, Enter(place, locals)
  PROVE  TypeOK'
  BY DEF Enter, TypeOK, world, Results

LEMMA CallerType ==
  ASSUME TypeOK, Caller
  PROVE  TypeOK'
<1> USE DEF Places
<1>1. saved \in RunStates
  BY DEF TypeOK
<1>2. ASSUME NEW a \in Agents
      PROVE  [saved EXCEPT !.agent = a] \in RunStates
  BY <1>1 DEF RunStates
<1>3. CASE StartRun
  <2>1. Locals("run", NewState, MaxTurns) \in Runs
    BY BoundsAssumption, NewStateType, LocalsType
  <2>2. QED
    BY <1>3, <2>1, EnterType DEF StartRun
<1>4. ASSUME NEW id \in Ids(CallsIn(saved.items, "call")),
             NEW tool \in {saved.step.tool, NoTool}, NEW approved \in BOOLEAN,
             Decide(id, tool, approved)
      PROVE  TypeOK'
  <2>1. tool \in Tools \cup {NoTool}
    BY <1>1 DEF RunStates, Calls, NoCall
  <2>2. QED
    BY <1>4, <2>1, IdsType, DecideType
<1>5. ASSUME NEW a \in Agents, Resume(a)
      PROVE  TypeOK'
  <2>1. Locals("resume", [saved EXCEPT !.agent = a], Remaining(saved)) \in Runs
    BY <1>1, <1>2, RemainingType, LocalsType
  <2>2. QED
    BY <1>5, <2>1, EnterType DEF Resume
<1>6. ASSUME NEW a \in Agents, NEW call \in CallsIn(saved.items, "call"),
             ResumePending(a, call)
      PROVE  TypeOK'
  <2>1. call \in Calls
    BY <1>1, CallsInType DEF RunStates
  <2>2. Locals("approval", [saved EXCEPT !.agent = a], 0) \in Runs
    BY <1>2, LocalsType
  <2>3. <<call>> \in Seq(Calls)
    BY <2>1
  <2>4. [Locals("approval", [saved EXCEPT !.agent = a], 0)
           EXCEPT !.pending = <<call>>] \in Runs
    BY <2>2, <2>3 DEF Runs
  <2>5. QED
    BY <1>6, <2>4, EnterType DEF ResumePending
<1>7. CASE ResumeExhausted
  BY <1>7 DEF ResumeExhausted, TypeOK, world, Results
<1>8. CASE ResumeUndecided
  BY <1>8 DEF ResumeUndecided, TypeOK, world, Results
<1>9. QED
  BY <1>3, <1>4, <1>5, <1>6, <1>7, <1>8 DEF Caller

LEMMA GotoType ==
  ASSUME TypeOK, NEW place \in Places, NEW locals \in Runs, Goto(place, locals),
         invoked' \in Seq(Calls), lastCall' \in Nat
  PROVE  TypeOK'
  BY DEF Goto, TypeOK

LEMMA TurnType ==
  ASSUME TypeOK, Turn
  PROVE  TypeOK'
<1> USE DEF Places
<1>1. run \in Runs /\ lastCall \in Nat /\ invoked \in Seq(Calls)
  BY DEF TypeOK
<1>2. CASE InputGuardrailsPass
  BY <1>1, <1>2, GotoType DEF InputGuardrailsPass
<1>3. CASE TurnsUsedUp
  BY <1>1, <1>3, GotoType DEF TurnsUsedUp
<1>4. CASE Answer
  <2>1. <<Item("text", NoCall)>> \in Seq(Items)
    BY ItemType
  <2>2. QED
    BY <1>1, <1>4, <2>1, RespondedType, GotoType DEF Answer
<1>5. CASE AnswerNothing
  <2>1. << >> \in Seq(Items)
    OBVIOUS
  <2>2. QED
    BY <1>1, <1>5, <2>1, RespondedType, GotoType DEF AnswerNothing
<1>6. ASSUME NEW tools \in Batches(1), CallTools(tools)
      PROVE  TypeOK'
  <2>1. Len(tools) \in Nat /\ Fresh(tools) \in Seq(Calls)
          /\ Each("call", Fresh(tools)) \in Seq(Items)
    BY <1>1, FreshType
  <2>2. Responded(Each("call", Fresh(tools))) \in Runs
    BY <1>1, <2>1, RespondedType
  <2>3. [Responded(Each("call", Fresh(tools))) EXCEPT !.pending = Fresh(tools)] \in Runs
    BY <2>1, <2>2 DEF Runs
  <2>4. lastCall' \in Nat /\ invoked' \in Seq(Calls)
    BY <1>1, <1>6, <2>1 DEF CallTools
  <2>5. QED
    BY <1>6, <2>3, <2>4, GotoType DEF CallTools
<1>7. ASSUME NEW target \in Agents, NEW tools \in Batches(0), HandOff(target, tools)
      PROVE  TypeOK'
  <2> DEFINE items == Each("call", Fresh(tools)) \o <<Item("handoff", NoCall)>>
  <2>1. Len(tools) \in Nat /\ Each("call", Fresh(tools)) \in Seq(Items)
    BY <1>1, FreshType
  <2>2. items \in Seq(Items)
    BY <2>1, ItemType, ConcatProperties
  <2>3. Responded(items) \in Runs
    BY <1>1, <2>2, RespondedType
  <2>4. [Responded(items) EXCEPT !.agent = target] \in Runs
    BY <2>3 DEF Runs
  <2>5. lastCall' \in Nat /\ invoked' \in Seq(Calls)
    BY <1>1, <1>7, <2>1 DEF HandOff
  <2>6. QED
    BY <1>7, <2>4, <2>5, GotoType DEF HandOff
<1>8. QED
  BY <1>2, <1>3, <1>4, <1>5, <1>6, <1>7 DEF Turn

LEMMA ToolBatchType ==
  ASSUME TypeOK, ToolBatch
  PROVE  TypeOK'
<1> USE DEF Places
<1>1. run \in Runs /\ lastCall \in Nat /\ invoked \in Seq(Calls)
  BY DEF TypeOK
<1>2. ASSUME run.pending # << >>
      PROVE  /\ Output(Head(run.pending)) \in Runs
             /\ Append(invoked, Head(run.pending)) \in Seq(Calls)
  BY <1>1, <1>2, OutputType, AppendProperties
<1>3. CASE InvokeTool
  BY <1>1, <1>2, <1>3, GotoType DEF InvokeTool, AtTool
<1>4. CASE InvokeToolFails
  BY <1>1, <1>2, <1>4, NoRunType DEF InvokeToolFails, AtTool, TypeOK, Results
<1>5. CASE GuardrailRejects
  BY <1>1, <1>2, <1>5, GotoType DEF GuardrailRejects, AtTool
<1>6. CASE CallerRejected
  BY <1>1, <1>2, <1>6, GotoType DEF CallerRejected, AtTool
<1>7. CASE NeedsApproval
  <2>1. Head(run.pending) \in Calls /\ << >> \in Seq(Calls)
    BY <1>1, <1>7, OutputType DEF NeedsApproval, AtTool
  <2>2. [run EXCEPT !.stop = Head(run.pending), !.pending = << >>] \in Runs
    BY <1>1, <2>1 DEF Runs
  <2>3. QED
    BY <1>1, <1>7, <2>2, GotoType DEF NeedsApproval
<1>8. CASE Interrupted
  BY <1>1, <1>8, WithOutputsType, GotoType DEF Interrupted
<1>9. CASE StopAtTools
  BY <1>1, <1>9, WithOutputsType, GotoType DEF StopAtTools
<1>10. CASE NextTurn
  BY <1>1, <1>10, WithOutputsType, GotoType DEF NextTurn
<1>11. CASE PendingCallDone
  <2> DEFINE left == {d \in run.prior.approvals : d.id # run.prior.step.id}
             said == run.prior.items \o run.outs
             locals == Locals("resume", Consume(run.prior, run.outs), Remaining(run.prior))
  <2>1. run.prior \in RunStates /\ run.outs \in Seq(Items) /\ run.agent \in Agents
    BY <1>1 DEF Runs
  <2>2. said \in Seq(Items) /\ left \in SUBSET Decisions
    BY <2>1, ConcatProperties DEF RunStates
  <2>3. Consume(run.prior, run.outs) \in RunStates
    BY <2>1, <2>2 DEF Consume, RunStates
  <2>4. locals \in Runs
    BY <2>1, <2>3, RemainingType, LocalsType
  <2>5. [locals EXCEPT !.agent = run.agent] \in Runs
    BY <2>1, <2>4 DEF Runs
  <2>6. QED
    BY <1>1, <1>11, <2>5, GotoType DEF PendingCallDone
<1>12. QED
  BY <1>3, <1>4, <1>5, <1>6, <1>7, <1>8, <1>9, <1>10, <1>11 DEF ToolBatch

LEMMA EndType ==
  ASSUME TypeOK, End
  PROVE  TypeOK'
<1> USE DEF Places
<1>1. run \in Runs /\ session \in Seq(Items) /\ lastCall \in Nat /\ invoked \in Seq(Calls)
  BY DEF TypeOK
<1>2. session \o ToSave \in Seq(Items) /\ Len(session) \in Nat /\ Len(ToSave) \in Nat
  BY <1>1, ToSaveType, ConcatProperties, LenProperties
<1>3. ASSUME NEW items \in {<< >>, <<Item("text", NoCall)>>}, HandleMaxTurns(items)
      PROVE  TypeOK'
  <2>0. << >> \in Seq(Items) /\ <<Item("text", NoCall)>> \in Seq(Items)
    BY ItemType
  <2>1. items \in Seq(Items)
    BY <2>0
  <2>2. run.items \o items \in Seq(Items)
    BY <1>1, <2>1, ConcatProperties DEF Runs
  <2>3. [run EXCEPT !.items = @ \o items] \in Runs
    BY <1>1, <2>2 DEF Runs
  <2>4. QED
    BY <1>1, <1>3, <2>3, GotoType DEF HandleMaxTurns
<1>4. CASE SaveAndReturn
  BY <1>1, <1>2, <1>4, NoRunType, StateOfType DEF SaveAndReturn, Return, TypeOK, Results
<1>5. CASE ReturnResumed
  BY <1>1, <1>5, NoRunType, StateOfType DEF ReturnResumed, Return, TypeOK, Results
<1>6. CASE SaveAndFail
  BY <1>2, <1>6, NoRunType DEF SaveAndFail, TypeOK, Results
<1>7. CASE Fail
  BY <1>7, NoRunType DEF Fail, TypeOK, world, Results
<1>8. QED
  BY <1>3, <1>4, <1>5, <1>6, <1>7 DEF End

(* The runner's state keeps its types.                                     *)
THEOREM TypeCorrect == Safe => []TypeOK
<1>1. ASSUME TypeOK, [Next]_vars
      PROVE  TypeOK'
  <2>1. CASE Next
    BY <1>1, <2>1, CallerType, TurnType, ToolBatchType, EndType DEF Next
  <2>2. CASE UNCHANGED vars
    BY <1>1, <2>2 DEF TypeOK, vars, world
  <2>3. QED
    BY <1>1, <2>1, <2>2
<1>2. QED
  BY InitType, <1>1, PTL DEF Safe

-----------------------------------------------------------------------------
(* The turns.  The inductive invariant adds the budget of the run that is  *)
(* going on: together with the turns of the state it continues, it stays   *)
(* within what the first run was given.                                    *)

WithinBudget(s) ==
    /\ s.turns <= MaxTurns
    /\ s.turns + Remaining(s) <= MaxTurns

TurnInv ==
    /\ WithinBudget(saved)
    /\ WithinBudget(run.prior)
    /\ run.taken <= run.budget
    /\ run.prior.turns + run.budget <= MaxTurns

(* What a run starts with when it continues a state within its budget.     *)
LEMMA LocalsWithinBudget ==
  ASSUME NEW mode, NEW s \in RunStates, NEW budget \in Nat,
         WithinBudget(s), s.turns + budget <= MaxTurns
  PROVE  LET locals == Locals(mode, s, budget)
         IN  /\ WithinBudget(locals.prior)
             /\ locals.taken <= locals.budget
             /\ locals.prior.turns + locals.budget <= MaxTurns
  BY DEF Locals

LEMMA NewStateWithinBudget ==
  WithinBudget(NewState) /\ NewState.turns + MaxTurns <= MaxTurns
  BY BoundsAssumption DEF WithinBudget, NewState, Remaining, Monus

LEMMA NoRunWithinBudget ==
  /\ WithinBudget(NoRun.prior)
  /\ NoRun.taken <= NoRun.budget
  /\ NoRun.prior.turns + NoRun.budget <= MaxTurns
  BY BoundsAssumption, NewStateWithinBudget, NewStateType DEF NoRun, Locals, NewState

LEMMA RebindWithinBudget ==
  ASSUME NEW s \in RunStates, WithinBudget(s), NEW a \in Agents
  PROVE  LET r == [s EXCEPT !.agent = a]
         IN  r \in RunStates /\ WithinBudget(r) /\ r.turns = s.turns
                             /\ Remaining(r) = Remaining(s)
  BY DEF WithinBudget, Remaining, RunStates

LEMMA StateOfWithinBudget ==
  ASSUME run \in Runs, TurnInv, NEW persisted \in Nat
  PROVE  WithinBudget(StateOf(persisted))
<1>1. run.taken \in Nat /\ run.budget \in Nat /\ run.prior.turns \in Nat
  BY DEF Runs, RunStates
<1>2. /\ StateOf(persisted).turns = run.prior.turns + run.taken
      /\ StateOf(persisted).max = run.budget
  BY DEF StateOf
<1>3. QED
  BY BoundsAssumption, <1>1, <1>2 DEF WithinBudget, TurnInv, Remaining, Monus

(* A step within a run that leaves the state it continues alone.           *)
LEMMA GotoTurns ==
  ASSUME TypeOK, TurnInv, NEW place, NEW locals \in Runs, Goto(place, locals),
         locals.prior = run.prior, locals.budget = run.budget,
         locals.taken <= locals.budget
  PROVE  TurnInv'
  BY DEF Goto, TurnInv, WithinBudget

LEMMA RespondedTurns ==
  ASSUME TypeOK, TurnInv, run.taken < run.budget, NEW items
  PROVE  LET locals == Responded(items)
         IN  /\ locals.prior = run.prior
             /\ locals.budget = run.budget
             /\ locals.taken <= locals.budget
  BY DEF Responded, TypeOK, TurnInv, Runs

LEMMA CallerTurns ==
  ASSUME TypeOK, TurnInv, Caller
  PROVE  TurnInv'
<1>1. saved \in RunStates /\ run \in Runs /\ Remaining(saved) \in Nat
  BY RemainingType DEF TypeOK
<1>2. WithinBudget(saved)
  BY DEF TurnInv
<1>3. CASE StartRun
  BY BoundsAssumption, <1>2, <1>3, NewStateType, NewStateWithinBudget, LocalsWithinBudget
     DEF StartRun, Enter, TurnInv
<1>4. ASSUME NEW id, NEW tool, NEW approved, Decide(id, tool, approved)
      PROVE  TurnInv'
  BY <1>1, <1>4 DEF Decide, TurnInv, WithinBudget, Remaining, RunStates
<1>5. ASSUME NEW a \in Agents, Resume(a)
      PROVE  TurnInv'
  <2> DEFINE s == [saved EXCEPT !.agent = a]
  <2>1. s \in RunStates /\ WithinBudget(s) /\ s.turns + Remaining(saved) <= MaxTurns
    BY <1>1, <1>2, RebindWithinBudget DEF WithinBudget
  <2>2. run' = Locals("resume", s, Remaining(saved)) /\ saved' = saved
    BY <1>5 DEF Resume, Enter
  <2>3. QED
    BY <1>1, <1>2, <2>1, <2>2, LocalsWithinBudget DEF TurnInv
<1>6. ASSUME NEW a \in Agents, NEW call, ResumePending(a, call)
      PROVE  TurnInv'
  <2> DEFINE s == [saved EXCEPT !.agent = a]
             locals == Locals("approval", s, 0)
  <2>1. s \in RunStates /\ WithinBudget(s) /\ s.turns + 0 <= MaxTurns
    BY <1>1, <1>2, RebindWithinBudget DEF WithinBudget, RunStates
  <2>2. /\ WithinBudget(locals.prior)
        /\ locals.taken <= locals.budget
        /\ locals.prior.turns + locals.budget <= MaxTurns
    BY <2>1, LocalsWithinBudget
  <2>3. run' = [locals EXCEPT !.pending = <<call>>] /\ saved' = saved
    BY <1>6 DEF ResumePending, Enter
  <2>4. /\ run'.prior = locals.prior
        /\ run'.taken = locals.taken
        /\ run'.budget = locals.budget
    BY <2>3 DEF Locals
  <2>5. QED
    BY <1>2, <2>2, <2>3, <2>4 DEF TurnInv
<1>7. CASE ResumeExhausted
  BY <1>7 DEF ResumeExhausted, TurnInv, WithinBudget
<1>8. CASE ResumeUndecided
  BY <1>8 DEF ResumeUndecided, TurnInv, WithinBudget
<1>9. QED
  BY <1>3, <1>4, <1>5, <1>6, <1>7, <1>8 DEF Caller

LEMMA TurnTurns ==
  ASSUME TypeOK, TypeOK', TurnInv, Turn
  PROVE  TurnInv'
<1>1. run \in Runs /\ run' \in Runs
  BY DEF TypeOK
<1>2. run.taken <= run.budget
  BY DEF TurnInv
<1>3. CASE InputGuardrailsPass
  BY <1>1, <1>2, <1>3, GotoTurns DEF InputGuardrailsPass
<1>4. CASE TurnsUsedUp
  BY <1>1, <1>2, <1>4, GotoTurns DEF TurnsUsedUp
<1>5. CASE Answer
  BY <1>1, <1>5, RespondedTurns, GotoTurns DEF Answer, Goto
<1>6. CASE AnswerNothing
  BY <1>1, <1>6, RespondedTurns, GotoTurns DEF AnswerNothing, Goto
<1>7. ASSUME NEW tools \in Batches(1), CallTools(tools)
      PROVE  TurnInv'
  <2> DEFINE locals == Responded(Each("call", Fresh(tools)))
  <2>1. /\ locals.prior = run.prior
        /\ locals.budget = run.budget
        /\ locals.taken <= locals.budget
    BY <1>7, RespondedTurns DEF CallTools
  <2>2. /\ run' = [locals EXCEPT !.pending = Fresh(tools)]
        /\ Goto("tools", run')
    BY <1>7 DEF CallTools, Goto
  <2>3. /\ run'.prior = run.prior
        /\ run'.budget = run.budget
        /\ run'.taken <= run'.budget
    BY <1>1, <2>1, <2>2 DEF Responded, Runs
  <2>4. QED
    BY <1>1, <2>2, <2>3, GotoTurns
<1>8. ASSUME NEW target \in Agents, NEW tools \in Batches(0), HandOff(target, tools)
      PROVE  TurnInv'
  <2> DEFINE locals == Responded(Each("call", Fresh(tools)) \o <<Item("handoff", NoCall)>>)
  <2>1. /\ locals.prior = run.prior
        /\ locals.budget = run.budget
        /\ locals.taken <= locals.budget
    BY <1>8, RespondedTurns DEF HandOff
  <2>2. /\ run' = [locals EXCEPT !.agent = target]
        /\ Goto("turn", run')
    BY <1>8 DEF HandOff, Goto
  <2>3. /\ run'.prior = run.prior
        /\ run'.budget = run.budget
        /\ run'.taken <= run'.budget
    BY <1>1, <2>1, <2>2 DEF Responded, Runs
  <2>4. QED
    BY <1>1, <2>2, <2>3, GotoTurns
<1>9. QED
  BY <1>3, <1>4, <1>5, <1>6, <1>7, <1>8 DEF Turn

LEMMA ToolBatchTurns ==
  ASSUME TypeOK, TypeOK', TurnInv, ToolBatch
  PROVE  TurnInv'
<1>1. run \in Runs /\ run' \in Runs /\ run.prior \in RunStates
  BY DEF TypeOK, Runs
<1>2. run.taken <= run.budget
  BY DEF TurnInv
<1>3. ASSUME NEW call, NEW place, Goto(place, Output(call))
      PROVE  TurnInv'
  <2>1. /\ Output(call).prior = run.prior
        /\ Output(call).budget = run.budget
        /\ Output(call).taken = run.taken
    BY <1>1 DEF Output, Runs
  <2>2. QED
    BY <1>1, <1>2, <1>3, <2>1, GotoTurns DEF Goto
<1>4. ASSUME NEW place, Goto(place, WithOutputs)
      PROVE  TurnInv'
  <2>1. /\ WithOutputs.prior = run.prior
        /\ WithOutputs.budget = run.budget
        /\ WithOutputs.taken = run.taken
    BY <1>1 DEF WithOutputs, Runs
  <2>2. QED
    BY <1>1, <1>2, <1>4, <2>1, GotoTurns DEF Goto
<1>5. CASE InvokeTool \/ GuardrailRejects \/ CallerRejected
  BY <1>3, <1>5 DEF InvokeTool, GuardrailRejects, CallerRejected
<1>6. CASE InvokeToolFails
  BY <1>6, NoRunWithinBudget DEF InvokeToolFails, TurnInv
<1>7. CASE NeedsApproval
  <2>1. /\ run' = [run EXCEPT !.stop = Head(run.pending), !.pending = << >>]
        /\ Goto("tools", run')
    BY <1>7 DEF NeedsApproval, Goto
  <2>2. /\ run'.prior = run.prior
        /\ run'.budget = run.budget
        /\ run'.taken = run.taken
    BY <1>1, <2>1 DEF Runs
  <2>3. QED
    BY <1>1, <1>2, <2>1, <2>2, GotoTurns
<1>8. CASE Interrupted \/ StopAtTools \/ NextTurn
  BY <1>4, <1>8 DEF Interrupted, StopAtTools, NextTurn
<1>9. CASE PendingCallDone
  <2> DEFINE s == Consume(run.prior, run.outs)
             locals == Locals("resume", s, Remaining(run.prior))
  <2>1. WithinBudget(run.prior) /\ WithinBudget(saved)
    BY DEF TurnInv
  <2>2. s.turns = run.prior.turns /\ s.max = run.prior.max
    BY <1>1 DEF Consume, RunStates
  <2>3. WithinBudget(s) /\ s.turns + Remaining(run.prior) <= MaxTurns
    BY <2>1, <2>2 DEF WithinBudget, Remaining
  <2>4. /\ locals.prior = s
        /\ locals.taken = 0
        /\ locals.budget = Remaining(run.prior)
    BY DEF Locals
  <2>5. run' = [locals EXCEPT !.agent = run.agent] /\ saved' = saved
    BY <1>9 DEF PendingCallDone, Goto
  <2>6. run'.prior = s /\ run'.taken = 0 /\ run'.budget = Remaining(run.prior)
    BY <2>4, <2>5 DEF Locals
  <2>7. 0 <= Remaining(run.prior)
    BY <1>1, RemainingType
  <2>8. QED
    BY <2>1, <2>3, <2>5, <2>6, <2>7 DEF TurnInv
<1>10. QED
  BY <1>5, <1>6, <1>7, <1>8, <1>9 DEF ToolBatch

LEMMA EndTurns ==
  ASSUME TypeOK, TypeOK', TurnInv, End
  PROVE  TurnInv'
<1>1. run \in Runs /\ run' \in Runs /\ Len(ToSave) \in Nat
  BY ToSaveType DEF TypeOK
<1>2. CASE \E items \in {<< >>, <<Item("text", NoCall)>>} : HandleMaxTurns(items)
  <2>1. PICK items : run' = [run EXCEPT !.items = @ \o items] /\ Goto("save", run')
    BY <1>2 DEF HandleMaxTurns, Goto
  <2>2. /\ run'.prior = run.prior
        /\ run'.budget = run.budget
        /\ run'.taken = run.taken
    BY <1>1, <2>1 DEF Runs
  <2>3. QED
    BY <1>1, <2>1, <2>2, GotoTurns DEF TurnInv
<1>3. CASE SaveAndReturn
  BY <1>1, <1>3, StateOfWithinBudget, NoRunWithinBudget
     DEF SaveAndReturn, Return, TurnInv
<1>4. CASE ReturnResumed
  BY <1>1, <1>4, StateOfWithinBudget, NoRunWithinBudget
     DEF ReturnResumed, Return, TurnInv
<1>5. CASE SaveAndFail
  BY <1>5, NoRunWithinBudget DEF SaveAndFail, TurnInv
<1>6. CASE Fail
  BY <1>6, NoRunWithinBudget DEF Fail, TurnInv
<1>7. QED
  BY <1>2, <1>3, <1>4, <1>5, <1>6 DEF End

LEMMA InitTurns == Init => TurnInv
  BY NewStateWithinBudget, NoRunWithinBudget DEF Init, TurnInv

LEMMA NextTurns ==
  ASSUME TypeOK, TypeOK', TurnInv, [Next]_vars
  PROVE  TurnInv'
<1>1. CASE Next
  BY <1>1, CallerTurns, TurnTurns, ToolBatchTurns, EndTurns DEF Next
<1>2. CASE UNCHANGED vars
  BY <1>2 DEF TurnInv, WithinBudget, vars
<1>3. QED
  BY <1>1, <1>2

(* No number of interruptions and resumptions lets a run take more turns   *)
(* than max_turns, nor does its state ever promise more.                   *)
THEOREM TurnsCorrect == Safe => []TurnsWithinBudget
<1>1. TurnInv => TurnsWithinBudget
  BY DEF TurnInv, WithinBudget, TurnsWithinBudget
<1>2. QED
  BY InitTurns, NextTurns, TypeCorrect, <1>1, PTL DEF Safe

-----------------------------------------------------------------------------
(* The approvals.  While a pending call is run, the decisions it was       *)
(* resumed with are those of the caller's state, one of them is bound to   *)
(* it, and there is one decision per call: the one that lets it run is the *)
(* one that is bound.                                                      *)

OneDecisionPerCall(s) == \A d, e \in s.approvals : d.id = e.id => d = e

Vouched(call) ==
    /\ call.id = saved.step.id
    /\ \E d \in saved.approvals : Bound(d, call)

GateInv ==
    /\ OneDecisionPerCall(saved)
    /\ OneDecisionPerCall(run.prior)
    /\ run.mode = "approval" =>
          /\ pc = "tools"
          /\ run.prior.approvals = saved.approvals
          /\ \A i \in 1..Len(run.pending) : Vouched(run.pending[i])

LEMMA NoRunGate == OneDecisionPerCall(NoRun.prior) /\ NoRun.mode = "none"
  BY DEF NoRun, Locals, NewState, OneDecisionPerCall

LEMMA StateOfGate ==
  ASSUME GateInv, NEW persisted
  PROVE  OneDecisionPerCall(StateOf(persisted))
  BY DEF GateInv, OneDecisionPerCall, StateOf

(* Steps that keep the mode and add no pending call, and steps of a run    *)
(* that is not an approval.                                                *)
LEMMA GotoGate ==
  ASSUME GateInv, NEW place, NEW locals, Goto(place, locals),
         locals.prior = run.prior, locals.mode = run.mode,
         run.mode = "approval" =>
            /\ place = "tools"
            /\ \A i \in 1..Len(locals.pending) : Vouched(locals.pending[i])
  PROVE  GateInv'
  BY DEF Goto, GateInv, Vouched, OneDecisionPerCall

LEMMA CallerGate ==
  ASSUME TypeOK, GateInv, Caller
  PROVE  GateInv'
<1>1. saved \in RunStates
  BY DEF TypeOK
<1>2. CASE StartRun
  <2>1. run' = Locals("run", NewState, MaxTurns) /\ saved' = saved /\ pc' = "begin"
    BY <1>2 DEF StartRun, Enter
  <2>2. QED
    BY <2>1 DEF Locals, NewState, GateInv, OneDecisionPerCall
<1>3. ASSUME NEW id, NEW tool, NEW approved, Decide(id, tool, approved)
      PROVE  GateInv'
  <2> DEFINE d == [id |-> id, call |-> saved.step.id, tool |-> tool, approved |-> approved]
  <2>1. saved'.approvals = {e \in saved.approvals : e.id # id} \cup {d}
    BY <1>1, <1>3 DEF Decide, RunStates
  <2>2. d.id = id
    OBVIOUS
  <2>3. OneDecisionPerCall(saved)'
    BY <2>1, <2>2 DEF GateInv, OneDecisionPerCall
  <2>4. pc = "idle" /\ pc' = pc /\ run' = run
    BY <1>3 DEF Decide
  <2>5. QED
    BY <2>3, <2>4 DEF GateInv, OneDecisionPerCall
<1>4. ASSUME NEW a \in Agents, Resume(a)
      PROVE  GateInv'
  <2> DEFINE s == [saved EXCEPT !.agent = a]
  <2>1. s.approvals = saved.approvals
    BY <1>1 DEF RunStates
  <2>2. /\ run' = Locals("resume", s, Remaining(saved))
        /\ saved' = saved
        /\ pc' = "begin"
    BY <1>4 DEF Resume, Enter
  <2>3. run'.mode = "resume" /\ run'.prior.approvals = saved.approvals
    BY <2>1, <2>2 DEF Locals
  <2>4. QED
    BY <2>2, <2>3 DEF GateInv, OneDecisionPerCall
<1>5. ASSUME NEW a \in Agents, NEW call, ResumePending(a, call)
      PROVE  GateInv'
  <2> DEFINE s == [saved EXCEPT !.agent = a]
             locals == Locals("approval", s, 0)
  <2>1. s.approvals = saved.approvals
    BY <1>1 DEF RunStates
  <2>2. /\ run' = [locals EXCEPT !.pending = <<call>>]
        /\ saved' = saved
        /\ pc' = "tools"
    BY <1>5 DEF ResumePending, Enter
  <2>3. run'.prior.approvals = saved.approvals /\ run'.pending = <<call>>
    BY <2>1, <2>2 DEF Locals
  <2>4. Vouched(call) /\ Vouched(call)'
    BY <1>5, <2>2 DEF ResumePending, Resumable, Vouched, Bound
  <2>5. \A i \in 1..Len(run'.pending) : run'.pending[i] = call
    BY <2>3
  <2>6. QED
    BY <2>2, <2>3, <2>4, <2>5 DEF GateInv, OneDecisionPerCall, Vouched
<1>6. CASE ResumeExhausted
  BY <1>6 DEF ResumeExhausted, GateInv, Vouched, OneDecisionPerCall
<1>7. CASE ResumeUndecided
  BY <1>7 DEF ResumeUndecided, GateInv, Vouched, OneDecisionPerCall
<1>8. QED
  BY <1>2, <1>3, <1>4, <1>5, <1>6, <1>7 DEF Caller

LEMMA TurnGate ==
  ASSUME TypeOK, TypeOK', GateInv, Turn
  PROVE  GateInv'
<1>1. run \in Runs /\ run' \in Runs
  BY DEF TypeOK
<1>2. run.mode # "approval"
  <2>1. pc # "tools"
    BY DEF Turn, InputGuardrailsPass, TurnsUsedUp, Answer, AnswerNothing,
           CallTools, HandOff
  <2>2. QED
    BY <2>1 DEF GateInv
<1>3. ASSUME NEW items
      PROVE  Responded(items).prior = run.prior /\ Responded(items).mode = run.mode
  BY <1>1 DEF Responded, Runs
<1>4. CASE InputGuardrailsPass \/ TurnsUsedUp
  BY <1>2, <1>4, GotoGate DEF InputGuardrailsPass, TurnsUsedUp
<1>5. CASE Answer \/ AnswerNothing
  BY <1>2, <1>3, <1>5, GotoGate DEF Answer, AnswerNothing
<1>6. ASSUME NEW tools \in Batches(1), CallTools(tools)
      PROVE  GateInv'
  <2> DEFINE locals == Responded(Each("call", Fresh(tools)))
  <2>1. /\ run' = [locals EXCEPT !.pending = Fresh(tools)]
        /\ Goto("tools", run')
    BY <1>6 DEF CallTools, Goto
  <2>2. run'.prior = run.prior /\ run'.mode = run.mode
    BY <1>1, <1>3, <2>1 DEF Responded, Runs
  <2>3. QED
    BY <1>2, <2>1, <2>2, GotoGate
<1>7. ASSUME NEW target \in Agents, NEW tools \in Batches(0), HandOff(target, tools)
      PROVE  GateInv'
  <2> DEFINE locals == Responded(Each("call", Fresh(tools)) \o <<Item("handoff", NoCall)>>)
  <2>1. /\ run' = [locals EXCEPT !.agent = target]
        /\ Goto("turn", run')
    BY <1>7 DEF HandOff, Goto
  <2>2. run'.prior = run.prior /\ run'.mode = run.mode
    BY <1>1, <1>3, <2>1 DEF Responded, Runs
  <2>3. QED
    BY <1>2, <2>1, <2>2, GotoGate
<1>8. QED
  BY <1>4, <1>5, <1>6, <1>7 DEF Turn

LEMMA ToolBatchGate ==
  ASSUME TypeOK, TypeOK', GateInv, ToolBatch
  PROVE  GateInv'
<1>1. run \in Runs /\ run' \in Runs
  BY DEF TypeOK
<1>2. run.pending \in Seq(Calls) /\ run.prior \in RunStates
  BY <1>1 DEF Runs
<1>3. ASSUME run.pending # << >>, Goto("tools", Output(Head(run.pending)))
      PROVE  GateInv'
  <2> DEFINE locals == Output(Head(run.pending))
  <2>1. /\ locals.prior = run.prior
        /\ locals.mode = run.mode
        /\ locals.pending = Tail(run.pending)
    BY <1>1 DEF Output, Runs
  <2>2. \A i \in 1..Len(Tail(run.pending)) :
           Tail(run.pending)[i] = run.pending[i + 1] /\ i + 1 \in 1..Len(run.pending)
    BY <1>2, <1>3, HeadTailProperties
  <2>3. run.mode = "approval" =>
           \A i \in 1..Len(locals.pending) : Vouched(locals.pending[i])
    BY <2>1, <2>2 DEF GateInv
  <2>4. QED
    BY <1>3, <2>1, <2>3, GotoGate
<1>4. CASE InvokeTool \/ GuardrailRejects \/ CallerRejected
  BY <1>3, <1>4 DEF InvokeTool, GuardrailRejects, CallerRejected, AtTool
<1>5. CASE InvokeToolFails
  BY <1>5, NoRunGate DEF InvokeToolFails, GateInv, OneDecisionPerCall
<1>6. CASE NeedsApproval
  <2>1. /\ run' = [run EXCEPT !.stop = Head(run.pending), !.pending = << >>]
        /\ Goto("tools", run')
    BY <1>6 DEF NeedsApproval, Goto
  <2>2. run'.prior = run.prior /\ run'.mode = run.mode /\ run'.pending = << >>
    BY <1>1, <2>1 DEF Runs
  <2>3. \A i \in 1..Len(run'.pending) : Vouched(run'.pending[i])
    BY <2>2
  <2>4. QED
    BY <2>1, <2>2, <2>3, GotoGate
<1>7. CASE Interrupted \/ StopAtTools \/ NextTurn
  <2>1. WithOutputs.prior = run.prior /\ WithOutputs.mode = run.mode
    BY <1>1 DEF WithOutputs, Runs
  <2>2. QED
    BY <1>7, <2>1, GotoGate DEF Interrupted, StopAtTools, NextTurn, BatchDone
<1>8. CASE PendingCallDone
  <2> DEFINE s == Consume(run.prior, run.outs)
             locals == Locals("resume", s, Remaining(run.prior))
  <2>1. s.approvals \subseteq run.prior.approvals
    BY <1>2 DEF Consume, RunStates
  <2>2. run' = [locals EXCEPT !.agent = run.agent] /\ saved' = saved
    BY <1>8 DEF PendingCallDone, Goto
  <2>3. run'.mode = "resume" /\ run'.prior = s
    BY <2>2 DEF Locals
  <2>4. QED
    BY <2>1, <2>2, <2>3 DEF GateInv, OneDecisionPerCall
<1>9. QED
  BY <1>4, <1>5, <1>6, <1>7, <1>8 DEF ToolBatch

LEMMA EndGate ==
  ASSUME TypeOK, TypeOK', GateInv, End
  PROVE  GateInv'
<1>1. run \in Runs /\ run' \in Runs
  BY DEF TypeOK
<1>2. CASE \E items \in {<< >>, <<Item("text", NoCall)>>} : HandleMaxTurns(items)
  <2>1. PICK items : /\ pc = "exceeded"
                     /\ run' = [run EXCEPT !.items = @ \o items]
                     /\ Goto("save", run')
    BY <1>2 DEF HandleMaxTurns, Goto
  <2>2. run'.prior = run.prior /\ run'.mode = run.mode
    BY <1>1, <2>1 DEF Runs
  <2>3. run.mode # "approval"
    BY <2>1 DEF GateInv
  <2>4. QED
    BY <2>1, <2>2, <2>3, GotoGate
<1>3. CASE SaveAndReturn \/ ReturnResumed
  <2>1. PICK persisted : run' = NoRun /\ saved' = StateOf(persisted)
    BY <1>3 DEF SaveAndReturn, ReturnResumed, Return
  <2>2. QED
    BY <2>1, NoRunGate, StateOfGate DEF GateInv, OneDecisionPerCall
<1>4. CASE SaveAndFail \/ Fail
  BY <1>4, NoRunGate DEF SaveAndFail, Fail, GateInv, OneDecisionPerCall
<1>5. QED
  BY <1>2, <1>3, <1>4 DEF End

LEMMA InitGate == Init => GateInv
  BY NoRunGate DEF Init, GateInv, NewState, OneDecisionPerCall

LEMMA NextGate ==
  ASSUME TypeOK, TypeOK', GateInv, [Next]_vars
  PROVE  GateInv'
<1>1. CASE Next
  BY <1>1, CallerGate, TurnGate, ToolBatchGate, EndGate DEF Next
<1>2. CASE UNCHANGED vars
  BY <1>2 DEF GateInv, Vouched, OneDecisionPerCall, vars
<1>3. QED
  BY <1>1, <1>2

(* The one decision on a vouched call that is approved is the bound one.   *)
LEMMA ApprovedIsBound ==
  ASSUME TypeOK, GateInv, NEW call \in Calls, run.pending # << >>,
         call = Head(run.pending), MayRun(call), call.tool \in Guarded
  PROVE  /\ saved.step.id = call.id
         /\ \E d \in saved.approvals : Bound(d, call) /\ d.approved
<1>1. run.mode = "approval" /\ \E d \in run.prior.approvals : d.id = call.id /\ d.approved
  BY DEF MayRun, Verdict
<1>2. run.pending \in Seq(Calls)
  BY DEF TypeOK, Runs
<1>3. 1 \in 1..Len(run.pending) /\ call = run.pending[1]
  BY <1>2
<1>4. Vouched(call) /\ run.prior.approvals = saved.approvals
  BY <1>1, <1>3 DEF GateInv
<1>5. PICK d \in saved.approvals : Bound(d, call)
  BY <1>4 DEF Vouched
<1>6. PICK e \in saved.approvals : e.id = call.id /\ e.approved
  BY <1>1, <1>4
<1>7. d = e
  BY <1>5, <1>6 DEF Bound, GateInv, OneDecisionPerCall
<1>8. QED
  BY <1>4, <1>5, <1>6, <1>7 DEF Vouched

LEMMA StepApproved ==
  ASSUME TypeOK, GateInv, [Next]_vars
  PROVE  ApprovedStep
<1>1. invoked \in Seq(Calls) /\ run \in Runs
  BY DEF TypeOK
<1>2. CASE InvokeTool \/ InvokeToolFails
  <2> DEFINE call == Head(run.pending)
  <2>1. run.pending # << >> /\ MayRun(call) /\ invoked' = Append(invoked, call)
    BY <1>2 DEF InvokeTool, InvokeToolFails, AtTool
  <2>2. call \in Calls
    BY <1>1, <2>1, OutputType
  <2>3. invoked'[Len(invoked')] = call
    BY <1>1, <2>1, <2>2, AppendProperties
  <2>4. QED
    BY <2>1, <2>2, <2>3, ApprovedIsBound DEF ApprovedStep
<1>3. CASE ~(InvokeTool \/ InvokeToolFails)
  <2>1. invoked' = invoked
    BY <1>3 DEF Next, Caller, StartRun, Decide, Resume, ResumePending, ResumeExhausted,
                ResumeUndecided, Enter, Turn, InputGuardrailsPass, TurnsUsedUp, Answer,
                AnswerNothing, CallTools, HandOff, ToolBatch, GuardrailRejects,
                CallerRejected, NeedsApproval, Interrupted, StopAtTools, NextTurn,
                PendingCallDone, End, HandleMaxTurns, SaveAndReturn, ReturnResumed,
                Return, SaveAndFail, Fail, world, vars
  <2>2. QED
    BY <2>1 DEF ApprovedStep
<1>4. QED
  BY <1>2, <1>3

(* For any agents, tools and number of attempts: a tool with needs_approval*)
(* runs only on an approval that is bound to the call and still stands.    *)
THEOREM GateCorrect == Safe => OnlyApprovedCallsRun
<1>1. Safe => []GateInv
  BY InitGate, NextGate, TypeCorrect, PTL DEF Safe
<1>2. QED
  BY <1>1, StepApproved, TypeCorrect, PTL DEF Safe, OnlyApprovedCallsRun

-----------------------------------------------------------------------------
(* Transcripts.                                                            *)

IsOutput(items, i) == i \in 1..Len(items) /\ items[i].kind = "output"
IsCall(items, i) == i \in 1..Len(items) /\ items[i].kind = "call"

(* Every call is known to the model, every output has its call before it   *)
(* and is the only one for it.                                             *)
WellFormed(items, last) ==
    /\ \A i \in 1..Len(items) :
           IsCall(items, i) \/ IsOutput(items, i) => items[i].call.id <= last
    /\ \A i \in 1..Len(items) : IsOutput(items, i) =>
           \E j \in 1..(i - 1) : items[j] = Item("call", items[i].call)
    /\ \A i, j \in 1..Len(items) :
           /\ IsOutput(items, i) /\ IsOutput(items, j)
           /\ items[i].call.id = items[j].call.id
           => i = j

Answered(items, id) == \E i \in 1..Len(items) : IsOutput(items, i) /\ items[i].call.id = id
Open(items, call) ==
    /\ \E i \in 1..Len(items) : items[i] = Item("call", call)
    /\ ~Answered(items, call.id)

(* What the state will have for items when the run returns.                *)
TranscriptOf(r) == r.prior.items \o r.items \o r.outs
Transcript == TranscriptOf(run)

(* A decision is on a call that the model has made.                        *)
Decided(s) == \A d \in s.approvals : d.id <= lastCall

SavedInv ==
    /\ WellFormed(saved.items, lastCall)
    /\ saved.step # NoCall => Open(saved.items, saved.step) /\ saved.step.tool \in Guarded
    /\ Decided(saved)
    /\ \A d \in saved.approvals : d.call = d.id => ~Answered(saved.items, d.id)

PlacesInv ==
    /\ pc # "tools" => run.pending = << >> /\ run.outs = << >>
    /\ run.mode = "approval" => pc = "tools" /\ run.items = << >> /\ run.stop = NoCall
    /\ run.stop # NoCall => pc \in {"tools", "save"} /\ run.pending = << >>

PendingInv ==
    /\ \A i \in 1..Len(run.pending) : Open(Transcript, run.pending[i])
    /\ \A i, j \in 1..Len(run.pending) :
           run.pending[i].id = run.pending[j].id => i = j
    /\ run.stop # NoCall => Open(Transcript, run.stop) /\ run.stop.tool \in Guarded

(* In an approval run the pending call is the one the state is interrupted *)
(* for, and its decision goes with the interruption.                       *)
DecisionsInv ==
    /\ Decided(run.prior)
    /\ \A d \in run.prior.approvals :
           d.call = d.id /\ (run.mode = "approval" => d.id # run.prior.step.id)
               => ~Answered(Transcript, d.id)
    /\ \A i \in 1..Len(run.pending) :
           IF run.mode = "approval" THEN run.pending[i].id = run.prior.step.id
           ELSE \A d \in run.prior.approvals : d.id # run.pending[i].id

-----------------------------------------------------------------------------
(* What the operators do to a transcript.                                  *)

LEMMA TranscriptType ==
  ASSUME NEW r \in Runs
  PROVE  TranscriptOf(r) \in Seq(Items)
<1>1. r.prior.items \in Seq(Items) /\ r.items \in Seq(Items) /\ r.outs \in Seq(Items)
  BY DEF Runs, RunStates
<1>2. QED
  BY <1>1, ConcatProperties DEF TranscriptOf

LEMMA ItemsAssociate ==
  ASSUME NEW s \in Seq(Items), NEW t \in Seq(Items), NEW u \in Seq(Items)
  PROVE  s \o (t \o u) = (s \o t) \o u
  BY ConcatAssociative

(* The model makes more calls, and nothing else changes.                   *)
LEMMA LaterWellFormed ==
  ASSUME NEW s \in Seq(Items), NEW last \in Nat, NEW more \in Nat, last <= more,
         WellFormed(s, last)
  PROVE  WellFormed(s, more)
<1>1. ASSUME NEW i \in 1..Len(s), IsCall(s, i) \/ IsOutput(s, i)
      PROVE  s[i].call.id <= more
  <2>1. s[i] \in Items
    BY ElementOfSeq
  <2>2. s[i].call.id \in Nat
    BY <1>1, <2>1 DEF IsCall, IsOutput, Items, Calls
  <2>3. s[i].call.id <= last
    BY <1>1 DEF WellFormed
  <2>4. QED
    BY <2>2, <2>3
<1>2. QED
  BY <1>1 DEF WellFormed

(* Items that are no outputs are put behind a transcript.                  *)
LEMMA ItemsAdded ==
  ASSUME NEW s \in Seq(Items), NEW t \in Seq(Items),
         NEW last \in Nat, NEW more \in Nat, last <= more, WellFormed(s, last),
         \A i \in 1..Len(t) :
            t[i].kind # "output" /\ (t[i].kind = "call" => t[i].call.id <= more)
  PROVE  /\ WellFormed(s \o t, more)
         /\ \A id : Answered(s \o t, id) <=> Answered(s, id)
         /\ \A call : Open(s, call) => Open(s \o t, call)
<1> DEFINE u == s \o t
<1>1. /\ Len(s) \in Nat /\ Len(t) \in Nat /\ Len(u) = Len(s) + Len(t)
      /\ \A i \in 1..Len(s) : u[i] = s[i]
      /\ \A i \in 1..Len(u) : i \notin 1..Len(s) =>
            i - Len(s) \in 1..Len(t) /\ u[i] = t[i - Len(s)]
  BY ConcatProperties, LenProperties
<1>2. WellFormed(s, more)
  BY LaterWellFormed
<1> HIDE DEF u
<1>3. \A i : IsOutput(u, i) <=> IsOutput(s, i)
  BY <1>1 DEF IsOutput
<1>4. \A i : IsOutput(s, i) => i \in 1..Len(s) /\ u[i] = s[i]
  BY <1>1 DEF IsOutput
<1>5. \A id : Answered(u, id) <=> Answered(s, id)
  BY <1>1, <1>3, <1>4 DEF Answered
<1>6. \A call : Open(s, call) => Open(u, call)
  <2>1. ASSUME NEW call, NEW i \in 1..Len(s), s[i] = Item("call", call)
        PROVE  \E j \in 1..Len(u) : u[j] = Item("call", call)
    BY <1>1, <2>1
  <2>2. QED
    BY <1>5, <2>1 DEF Open
<1>7. ASSUME NEW i \in 1..Len(u), IsCall(u, i) \/ IsOutput(u, i)
      PROVE  u[i].call.id <= more
  <2>1. CASE i \in 1..Len(s)
    BY <1>1, <1>2, <1>7, <2>1 DEF WellFormed, IsCall, IsOutput
  <2>2. CASE i \notin 1..Len(s)
    BY <1>1, <1>7, <2>2 DEF IsCall, IsOutput
  <2>3. QED
    BY <2>1, <2>2
<1>8. ASSUME NEW i \in 1..Len(u), IsOutput(u, i)
      PROVE  \E j \in 1..(i - 1) : u[j] = Item("call", u[i].call)
  <2>1. i \in 1..Len(s) /\ IsOutput(s, i) /\ u[i] = s[i]
    BY <1>3, <1>4, <1>8
  <2>2. PICK j \in 1..(i - 1) : s[j] = Item("call", s[i].call)
    BY <2>1 DEF WellFormed
  <2>3. u[j] = s[j]
    BY <1>1, <2>1
  <2>4. QED
    BY <2>1, <2>2, <2>3
<1>9. ASSUME NEW i \in 1..Len(u), NEW j \in 1..Len(u), IsOutput(u, i), IsOutput(u, j),
             u[i].call.id = u[j].call.id
      PROVE  i = j
  <2>1. /\ i \in 1..Len(s) /\ IsOutput(s, i) /\ u[i] = s[i]
        /\ j \in 1..Len(s) /\ IsOutput(s, j) /\ u[j] = s[j]
    BY <1>3, <1>4, <1>9
  <2>2. QED
    BY <1>9, <2>1 DEF WellFormed
<1>10. WellFormed(u, more)
  BY <1>7, <1>8, <1>9 DEF WellFormed
<1>11. QED
  BY <1>5, <1>6, <1>10 DEF u

(* The output of an open call is put behind a transcript.                  *)
LEMMA OutputAdded ==
  ASSUME NEW s \in Seq(Items), NEW last, WellFormed(s, last),
         NEW call \in Calls, Open(s, call)
  PROVE  LET u == Append(s, Item("output", call))
         IN  /\ WellFormed(u, last)
             /\ \A id : Answered(u, id) => Answered(s, id) \/ id = call.id
             /\ \A c : Open(s, c) /\ c.id # call.id => Open(u, c)
<1> DEFINE u == Append(s, Item("output", call))
           n == Len(s) + 1
<1>1. /\ Len(s) \in Nat /\ Len(u) = n
      /\ \A i \in 1..Len(s) : u[i] = s[i]
      /\ u[n] = Item("output", call)
  BY AppendProperties, LenProperties, ItemType
<1>2. u[n].kind = "output" /\ u[n].call = call
  BY <1>1 DEF Item
<1>3. PICK k \in 1..Len(s) : s[k] = Item("call", call)
  BY DEF Open
<1>4. call.id <= last
  <2>1. IsCall(s, k) /\ s[k].call = call
    BY <1>3 DEF IsCall, Item
  <2>2. QED
    BY <2>1 DEF WellFormed
<1> HIDE DEF u
<1>5. \A i \in 1..Len(u) : i = n \/ i \in 1..Len(s)
  BY <1>1
<1>6. \A i : IsOutput(u, i) => i = n \/ IsOutput(s, i)
  BY <1>1 DEF IsOutput
<1>7. \A id : Answered(u, id) => Answered(s, id) \/ id = call.id
  BY <1>1, <1>2, <1>6 DEF Answered, IsOutput
<1>8. \A c : Open(s, c) /\ c.id # call.id => Open(u, c)
  <2>1. ASSUME NEW c, NEW i \in 1..Len(s), s[i] = Item("call", c)
        PROVE  \E j \in 1..Len(u) : u[j] = Item("call", c)
    BY <1>1, <2>1
  <2>2. QED
    BY <1>7, <2>1 DEF Open
<1>9. ASSUME NEW i \in 1..Len(u), IsCall(u, i) \/ IsOutput(u, i)
      PROVE  u[i].call.id <= last
  BY <1>1, <1>2, <1>4, <1>5, <1>9 DEF WellFormed, IsCall, IsOutput
<1>10. ASSUME NEW i \in 1..Len(u), IsOutput(u, i)
       PROVE  \E j \in 1..(i - 1) : u[j] = Item("call", u[i].call)
  <2>1. CASE i = n
    BY <1>1, <1>2, <1>3, <2>1
  <2>2. CASE IsOutput(s, i)
    <3>1. i \in 1..Len(s) /\ u[i] = s[i]
      BY <1>1, <2>2 DEF IsOutput
    <3>2. PICK j \in 1..(i - 1) : s[j] = Item("call", s[i].call)
      BY <2>2, <3>1 DEF WellFormed
    <3>3. u[j] = s[j]
      BY <1>1, <3>1
    <3>4. QED
      BY <3>1, <3>2, <3>3
  <2>3. QED
    BY <1>6, <1>10, <2>1, <2>2
<1>11. ASSUME NEW i \in 1..Len(u), NEW j \in 1..Len(u), IsOutput(u, i), IsOutput(u, j),
              u[i].call.id = u[j].call.id
       PROVE  i = j
  <2>1. ASSUME NEW m, IsOutput(s, m) PROVE s[m].call.id # call.id /\ u[m] = s[m] /\ m \in 1..Len(s)
    BY <1>1, <2>1 DEF Open, Answered, IsOutput
  <2>2. QED
    BY <1>2, <1>6, <1>11, <2>1 DEF WellFormed
<1>12. WellFormed(u, last)
  BY <1>9, <1>10, <1>11 DEF WellFormed
<1>13. QED
  BY <1>7, <1>8, <1>12 DEF u

(* What nobody has called has no output.                                   *)
LEMMA UnknownUnanswered ==
  ASSUME NEW s, NEW last \in Nat, WellFormed(s, last), NEW id \in Nat, id > last
  PROVE  ~Answered(s, id)
<1>1. SUFFICES ASSUME NEW i \in 1..Len(s), IsOutput(s, i), s[i].call.id = id
               PROVE  FALSE
  BY DEF Answered
<1>2. id <= last
  BY <1>1 DEF WellFormed
<1>3. QED
  BY <1>2

(* The calls of a batch are open when they are put behind a transcript.    *)
LEMMA BatchAdded ==
  ASSUME NEW s \in Seq(Items), lastCall \in Nat, WellFormed(s, lastCall),
         NEW least \in Nat, NEW tools \in Batches(least),
         NEW tail \in Seq(Items),
         \A i \in 1..Len(tail) : tail[i].kind \notin {"call", "output"}
  PROVE  LET t == Each("call", Fresh(tools)) \o tail
         IN  /\ WellFormed(s \o t, lastCall + Len(tools))
             /\ \A id : Answered(s \o t, id) <=> Answered(s, id)
             /\ Len(Fresh(tools)) = Len(tools)
             /\ \A i \in 1..Len(tools) : /\ Fresh(tools)[i].id = lastCall + i
                                         /\ Open(s \o t, Fresh(tools)[i])
<1> DEFINE calls == Fresh(tools)
           e == Each("call", calls)
           t == e \o tail
<1>1. /\ Len(tools) \in Nat /\ calls \in Seq(Calls) /\ e \in Seq(Items)
      /\ t \in Seq(Items)
  BY FreshType, ConcatProperties
<1>2. Len(calls) = Len(tools) /\ \A i \in 1..Len(tools) : calls[i].id = lastCall + i
  BY <1>1 DEF Fresh
<1>3. Len(e) = Len(tools) /\ \A i \in 1..Len(tools) : e[i] = Item("call", calls[i])
  BY <1>1, <1>2 DEF Each
<1>4. /\ Len(tail) \in Nat /\ Len(t) = Len(tools) + Len(tail)
      /\ \A i \in 1..Len(tools) : t[i] = e[i]
      /\ \A i \in 1..Len(t) : i \notin 1..Len(tools) =>
            i - Len(tools) \in 1..Len(tail) /\ t[i] = tail[i - Len(tools)]
  <2> HIDE DEF e, t
  <2>1. Len(tail) \in Nat /\ Len(t) = Len(tools) + Len(tail)
    <3>1. t = e \o tail
      BY DEF t
    <3>2. Len(tail) \in Nat
      BY LenProperties
    <3>3. Len(t) = Len(e) + Len(tail)
      BY <1>1, <3>1, ConcatProperties
    <3>4. QED
      BY <1>3, <3>2, <3>3
  <2>2. ASSUME NEW i \in 1..Len(t)
        PROVE  t[i] = IF i <= Len(tools) THEN e[i] ELSE tail[i - Len(tools)]
    BY <1>1, <1>3, <2>1, ConcatProperties DEF t
  <2>3. \A i \in 1..Len(tools) : i \in 1..Len(t) /\ i <= Len(tools)
    BY <1>1, <2>1
  <2>4. \A i \in 1..Len(t) : i \notin 1..Len(tools) =>
           ~(i <= Len(tools)) /\ i - Len(tools) \in 1..Len(tail)
    BY <1>1, <2>1
  <2>5. QED
    BY <2>1, <2>2, <2>3, <2>4
<1>5. ASSUME NEW i \in 1..Len(t)
      PROVE  /\ t[i].kind # "output"
             /\ t[i].kind = "call" => t[i].call.id <= lastCall + Len(tools)
  <2>1. CASE i \in 1..Len(tools)
    <3>1. t[i] = Item("call", calls[i]) /\ calls[i].id = lastCall + i
      BY <1>2, <1>3, <1>4, <2>1
    <3>2. lastCall + i <= lastCall + Len(tools)
      BY <1>1, <2>1
    <3>3. QED
      BY <3>1, <3>2 DEF Item
  <2>2. CASE i \notin 1..Len(tools)
    BY <1>4, <2>2
  <2>3. QED
    BY <2>1, <2>2
<1>6. /\ WellFormed(s \o t, lastCall + Len(tools))
      /\ \A id : Answered(s \o t, id) <=> Answered(s, id)
  <2>1. lastCall + Len(tools) \in Nat /\ lastCall <= lastCall + Len(tools)
    BY <1>1
  <2>2. QED
    BY <1>1, <1>5, <2>1, ItemsAdded
<1>7. ASSUME NEW i \in 1..Len(tools)
      PROVE  Open(s \o t, calls[i])
  <2>1. ~Answered(s \o t, calls[i].id)
    BY <1>1, <1>2, <1>6, UnknownUnanswered
  <2>2. /\ Len(s) \in Nat /\ Len(s \o t) = Len(s) + Len(t)
        /\ (s \o t)[Len(s) + i] = t[i]
    <3>1. Len(s) \in Nat /\ Len(s \o t) = Len(s) + Len(t) /\ i \in 1..Len(t)
      BY <1>1, <1>4, ConcatProperties, LenProperties
    <3>2. Len(s) + i \in 1..Len(s) + Len(t) /\ ~(Len(s) + i <= Len(s))
          /\ Len(s) + i - Len(s) = i
      BY <3>1
    <3>3. QED
      BY <3>1, <3>2, ConcatProperties
  <2>3. Len(s) + i \in 1..Len(s \o t)
    BY <1>1, <1>4, <2>2
  <2>4. (s \o t)[Len(s) + i] = Item("call", calls[i])
    BY <1>3, <1>4, <2>2
  <2>5. QED
    BY <2>1, <2>3, <2>4 DEF Open
<1>8. QED
  BY <1>2, <1>6, <1>7

-----------------------------------------------------------------------------
(* The invariant is inductive.                                             *)

LEMMA RecordType ==
  ASSUME TypeOK
  PROVE  /\ run \in Runs /\ run.prior \in RunStates /\ saved \in RunStates
         /\ run.prior.items \in Seq(Items) /\ saved.items \in Seq(Items)
         /\ run.items \in Seq(Items) /\ run.outs \in Seq(Items)
         /\ run.pending \in Seq(Calls)
         /\ run.prior.items \o run.items \in Seq(Items)
         /\ Transcript \in Seq(Items)
         /\ lastCall \in Nat
<1>1. run \in Runs /\ saved \in RunStates /\ lastCall \in Nat
  BY DEF TypeOK
<1>2. QED
  BY <1>1, TranscriptType, ConcatProperties DEF Runs, RunStates, Transcript

(* A run that has just been entered has the transcript it resumes.         *)
LEMMA LocalsTranscript ==
  ASSUME NEW prior \in RunStates, NEW r,
         r.prior = prior, r.items = << >>, r.outs = << >>
  PROVE  TranscriptOf(r) = prior.items
<1>1. prior.items \in Seq(Items)
  BY DEF RunStates
<1>2. QED
  BY <1>1, ConcatEmptySeq DEF TranscriptOf

RunInv ==
    /\ WellFormed(Transcript, lastCall)
    /\ PlacesInv
    /\ PendingInv
    /\ DecisionsInv

LEMMA NoTranscript == WellFormed(<< >>, lastCall) /\ \A id : ~Answered(<< >>, id)
  BY DEF WellFormed, Answered

(* While the runner works, the caller's state stays as it is.              *)
LEMMA SavedKept ==
  ASSUME TypeOK, TypeOK', SavedInv, saved' = saved, lastCall <= lastCall'
  PROVE  SavedInv'
<1>1. WellFormed(saved.items, lastCall')
  BY RecordType, LaterWellFormed DEF SavedInv, TypeOK
<1>2. \A d \in saved.approvals : d.id <= lastCall'
  <2>1. ASSUME NEW d \in saved.approvals PROVE d.id \in Nat
    BY RecordType DEF RunStates, Decisions
  <2>2. QED
    BY <2>1, RecordType DEF SavedInv, Decided, TypeOK
<1>3. QED
  BY <1>1, <1>2 DEF SavedInv, Decided

(* The end of a run, however it comes.                                     *)
LEMMA RunOver ==
  ASSUME run' = NoRun, pc' = "idle"
  PROVE  RunInv'
<1>1. /\ run'.prior = NewState /\ run'.items = << >> /\ run'.outs = << >>
      /\ run'.pending = << >> /\ run'.stop = NoCall /\ run'.mode = "none"
      /\ run'.prior.approvals = {}
  BY DEF NoRun, Locals, NewState
<1>2. Transcript' = << >>
  BY <1>1, NewStateType, LocalsTranscript DEF Transcript, NewState
<1>3. QED
  BY <1>1, <1>2, NoTranscript
     DEF RunInv, PlacesInv, PendingInv, DecisionsInv, Decided, WellFormed, Answered

(* A new run of a state whose transcript is that of the caller's state.    *)
LEMMA RunEntered ==
  ASSUME TypeOK, SavedInv, NEW mode \in {"run", "resume"},
         NEW prior \in RunStates, NEW budget, NEW place \in {"begin"},
         Enter(place, Locals(mode, prior, budget)),
         \/ prior.items = << >> /\ prior.approvals = {}
         \/ prior.items = saved.items /\ prior.approvals = saved.approvals
  PROVE  RunInv'
<1>1. /\ run'.prior = prior /\ run'.items = << >> /\ run'.outs = << >>
      /\ run'.pending = << >> /\ run'.stop = NoCall /\ run'.mode = mode
      /\ pc' = "begin" /\ lastCall' = lastCall
  BY DEF Enter, Locals, world
<1>2. Transcript' = prior.items
  BY <1>1, LocalsTranscript DEF Transcript
<1>3. WellFormed(prior.items, lastCall)
  BY NoTranscript DEF SavedInv
<1>4. \A d \in prior.approvals :
         d.id <= lastCall /\ (d.call = d.id => ~Answered(prior.items, d.id))
  BY DEF SavedInv, Decided
<1>5. QED
  BY <1>1, <1>2, <1>3, <1>4
     DEF RunInv, PlacesInv, PendingInv, DecisionsInv, Decided

LEMMA CallerTranscript ==
  ASSUME TypeOK, TypeOK', SavedInv, RunInv, Caller
  PROVE  SavedInv' /\ RunInv'
<1>1. lastCall' = lastCall
  BY DEF Caller, StartRun, Decide, Resume, ResumePending, ResumeExhausted,
         ResumeUndecided, Enter, world
<1>2. CASE StartRun
  <2>1. saved' = saved
    BY <1>2 DEF StartRun, Enter
  <2>2. NewState.items = << >> /\ NewState.approvals = {}
    BY DEF NewState
  <2>3. RunInv'
    BY <1>2, <2>2, NewStateType, RunEntered DEF StartRun
  <2>4. QED
    BY <1>1, <2>1, <2>3, RecordType, SavedKept
<1>3. ASSUME NEW id \in Ids(CallsIn(saved.items, "call")), NEW tool, NEW approved,
             saved.step # NoCall, Decide(id, tool, approved)
      PROVE  SavedInv' /\ RunInv'
  <2> DEFINE d == [id |-> id, call |-> saved.step.id, tool |-> tool, approved |-> approved]
  <2>1. /\ saved'.approvals = {e \in saved.approvals : e.id # id} \cup {d}
        /\ saved'.items = saved.items /\ saved'.step = saved.step
    BY <1>3, RecordType DEF Decide, RunStates
  <2>2. d.id = id /\ d.call = saved.step.id
    OBVIOUS
  <2>3. id <= lastCall
    <3>1. PICK i \in 1..Len(saved.items) :
               saved.items[i].kind = "call" /\ id = saved.items[i].call.id
      BY DEF Ids, CallsIn
    <3>2. QED
      BY <3>1 DEF SavedInv, WellFormed, IsCall
  <2>4. ~Answered(saved.items, saved.step.id)
    BY <1>3 DEF SavedInv, Open
  <2>5. SavedInv'
    BY <1>1, <2>1, <2>2, <2>3, <2>4 DEF SavedInv, Decided
  <2>6. pc' = pc /\ run' = run
    BY <1>3 DEF Decide
  <2>7. RunInv'
    BY <1>1, <2>6
       DEF RunInv, PlacesInv, PendingInv, DecisionsInv, Decided, Transcript
  <2>8. QED
    BY <2>5, <2>7
<1>4. ASSUME NEW a \in Agents, Resume(a)
      PROVE  SavedInv' /\ RunInv'
  <2> DEFINE s == [saved EXCEPT !.agent = a]
  <2>1. s \in RunStates /\ s.items = saved.items /\ s.approvals = saved.approvals
    BY RecordType DEF RunStates
  <2>2. Enter("begin", Locals("resume", s, Remaining(saved))) /\ saved' = saved
    BY <1>4 DEF Resume, Enter
  <2>3. RunInv'
    BY <2>1, <2>2, RunEntered
  <2>4. QED
    BY <1>1, <2>2, <2>3, RecordType, SavedKept
<1>5. ASSUME NEW a \in Agents, NEW call \in CallsIn(saved.items, "call"),
             ResumePending(a, call)
      PROVE  SavedInv' /\ RunInv'
  <2> DEFINE s == [saved EXCEPT !.agent = a]
             locals == Locals("approval", s, 0)
  <2>1. /\ s \in RunStates /\ s.items = saved.items
        /\ s.approvals = saved.approvals /\ s.step = saved.step
    BY RecordType DEF RunStates
  <2>2. /\ run' = [locals EXCEPT !.pending = <<call>>]
        /\ saved' = saved
        /\ pc' = "tools"
        /\ saved.step # NoCall /\ call.id = saved.step.id
    BY <1>5 DEF ResumePending, Resumable, Enter
  <2>3. /\ run'.prior = s /\ run'.items = << >> /\ run'.outs = << >>
        /\ run'.pending = <<call>> /\ run'.stop = NoCall /\ run'.mode = "approval"
    BY <2>2 DEF Locals
  <2>4. Transcript' = saved.items
    BY <2>1, <2>3, LocalsTranscript DEF Transcript
  <2>5. Open(saved.items, call)
    <3>1. PICK i \in 1..Len(saved.items) :
               saved.items[i].kind = "call" /\ call = saved.items[i].call
      BY DEF CallsIn
    <3>2. saved.items[i] \in Items
      BY RecordType, ElementOfSeq
    <3>3. saved.items[i] = Item("call", call)
      BY <3>1, <3>2 DEF Items, Item
    <3>4. ~Answered(saved.items, call.id)
      BY <2>2 DEF SavedInv, Open
    <3>5. QED
      BY <3>3, <3>4 DEF Open
  <2>6. PlacesInv'
    BY <2>2, <2>3 DEF PlacesInv
  <2>7. PendingInv'
    <3>1. \A i \in 1..Len(run'.pending) : i = 1 /\ run'.pending[i] = call
      BY <2>3
    <3>2. QED
      BY <2>3, <2>4, <2>5, <3>1 DEF PendingInv
  <2>8. DecisionsInv'
    <3>1. \A i \in 1..Len(run'.pending) : run'.pending[i].id = saved.step.id
      BY <2>2, <2>3
    <3>2. QED
      BY <1>1, <2>1, <2>3, <2>4, <3>1 DEF DecisionsInv, Decided, SavedInv
  <2>9. RunInv'
    BY <1>1, <2>4, <2>6, <2>7, <2>8 DEF RunInv, SavedInv
  <2>10. QED
    BY <1>1, <2>2, <2>9, RecordType, SavedKept
<1>6. CASE ResumeExhausted \/ ResumeUndecided
  <2>1. pc' = pc /\ run' = run /\ saved' = saved
    BY <1>6 DEF ResumeExhausted, ResumeUndecided
  <2>2. QED
    BY <1>1, <2>1 DEF SavedInv, RunInv, PlacesInv, PendingInv, DecisionsInv,
       Decided, Transcript
<1>7. QED
  BY <1>2, <1>3, <1>4, <1>5, <1>6 DEF Caller

(* A turn that adds items to a transcript without outputs.                 *)
LEMMA TurnAdds ==
  ASSUME TypeOK, TypeOK', RunInv, NEW items \in Seq(Items), pc = "turn",
         lastCall <= lastCall',
         /\ run'.prior = run.prior /\ run'.mode = run.mode
         /\ run'.items = run.items \o items /\ run'.outs = run.outs
         /\ run'.stop = run.stop,
         WellFormed(Transcript \o items, lastCall'),
         \A id : Answered(Transcript \o items, id) <=> Answered(Transcript, id),
         pc' = "tools" \/ run'.pending = << >>,
         \A i \in 1..Len(run'.pending) :
            /\ Open(Transcript \o items, run'.pending[i])
            /\ run'.pending[i].id > lastCall
            /\ \A j \in 1..Len(run'.pending) :
                  run'.pending[i].id = run'.pending[j].id => i = j
  PROVE  RunInv'
<1>1. run.outs = << >> /\ run.stop = NoCall /\ run.mode # "approval"
  BY DEF RunInv, PlacesInv
<1>2. Transcript' = Transcript \o items
  <2>1. /\ Transcript = run.prior.items \o run.items
        /\ Transcript' = run.prior.items \o (run.items \o items)
    <3>1. run.items \o items \in Seq(Items) /\ run.prior.items \o run.items \in Seq(Items)
      BY RecordType, ConcatProperties
    <3>2. run.prior.items \o (run.items \o items) \in Seq(Items)
      BY <3>1, RecordType, ConcatProperties
    <3>3. QED
      BY <1>1, <3>1, <3>2, ConcatEmptySeq DEF Transcript, TranscriptOf
  <2>2. run.prior.items \o (run.items \o items) = (run.prior.items \o run.items) \o items
    <3>1. run.prior.items \in Seq(Items) /\ run.items \in Seq(Items)
      BY RecordType
    <3>2. QED
      BY <3>1, ItemsAssociate
  <2>3. QED
    BY <2>1, <2>2
<1>3. ASSUME NEW d \in run.prior.approvals
      PROVE  /\ d.id <= lastCall'
             /\ \A i \in 1..Len(run'.pending) : d.id # run'.pending[i].id
  <2>1. d.id \in Nat /\ d.id <= lastCall
    BY RecordType DEF RunStates, Decisions, RunInv, DecisionsInv, Decided
  <2>2. run'.pending \in Seq(Calls) /\ lastCall' \in Nat /\ lastCall \in Nat
    BY DEF TypeOK, Runs
  <2>3. ASSUME NEW i \in 1..Len(run'.pending) PROVE run'.pending[i].id \in Nat
    <3>1. run'.pending[i] \in Calls
      BY <2>2, ElementOfSeq
    <3>2. QED
      BY <3>1 DEF Calls
  <2>4. QED
    BY <2>1, <2>2, <2>3
<1>4. DecisionsInv'
  BY <1>1, <1>2, <1>3 DEF RunInv, DecisionsInv, Decided
<1>5. PlacesInv'
  BY <1>1 DEF PlacesInv
<1>6. PendingInv'
  BY <1>1, <1>2 DEF PendingInv
<1>7. QED
  BY <1>2, <1>4, <1>5, <1>6 DEF RunInv

(* A step that changes neither the transcript nor the calls to be made.    *)
LEMMA PlaceChanges ==
  ASSUME RunInv, lastCall' = lastCall, Transcript' = Transcript,
         run'.prior = run.prior, run'.mode = run.mode, run'.stop = run.stop,
         run'.pending = run.pending, PlacesInv'
  PROVE  RunInv'
  BY DEF RunInv, PendingInv, DecisionsInv, Decided

LEMMA TurnTranscript ==
  ASSUME TypeOK, TypeOK', SavedInv, RunInv, Turn
  PROVE  SavedInv' /\ RunInv'
<1>1. ASSUME NEW items
      PROVE  /\ Responded(items).prior = run.prior /\ Responded(items).mode = run.mode
             /\ Responded(items).items = run.items \o items
             /\ Responded(items).outs = run.outs /\ Responded(items).stop = run.stop
             /\ Responded(items).pending = run.pending
  BY RecordType DEF Responded, Runs
<1>2. saved' = saved /\ lastCall <= lastCall'
  <2>1. saved' = saved
    BY DEF Turn, InputGuardrailsPass, TurnsUsedUp, Answer, AnswerNothing, CallTools,
       HandOff, Goto
  <2>2. CASE lastCall' = lastCall
    BY <2>1, <2>2, RecordType
  <2>3. ASSUME NEW least \in Nat, NEW tools \in Batches(least),
               lastCall' = lastCall + Len(tools)
        PROVE  lastCall <= lastCall'
    BY <2>3, RecordType, FreshType DEF TypeOK
  <2>4. QED
    BY <2>1, <2>2, <2>3 DEF Turn, InputGuardrailsPass, TurnsUsedUp, Answer,
       AnswerNothing, CallTools, HandOff
<1>3. SavedInv'
  BY <1>2, SavedKept
<1>4. CASE InputGuardrailsPass \/ TurnsUsedUp
  <2>1. run' = run /\ lastCall' = lastCall /\ pc # "tools" /\ pc' # "tools" /\ pc # "save"
    BY <1>4 DEF InputGuardrailsPass, TurnsUsedUp, Goto
  <2>2. QED
    BY <1>3, <2>1, PlaceChanges DEF RunInv, PlacesInv, Transcript
<1>5. CASE Answer \/ AnswerNothing
  <2>1. PICK items \in {<< >>, <<Item("text", NoCall)>>} :
            run' = Responded(items) /\ pc = "turn" /\ pc' # "tools" /\ lastCall' = lastCall
    BY <1>5 DEF Answer, AnswerNothing, Goto
  <2>2. items \in Seq(Items)
    <3>1. << >> \in Seq(Items) /\ <<Item("text", NoCall)>> \in Seq(Items)
      BY ItemType
    <3>2. QED
      BY <2>1, <3>1
  <2>3. \A i \in 1..Len(items) : items[i].kind \notin {"call", "output"}
    BY DEF Item
  <2>4. /\ WellFormed(Transcript \o items, lastCall)
        /\ \A id : Answered(Transcript \o items, id) <=> Answered(Transcript, id)
    <3>1. /\ Transcript \in Seq(Items) /\ WellFormed(Transcript, lastCall)
          /\ lastCall \in Nat /\ lastCall <= lastCall
      BY RecordType DEF RunInv
    <3>2. QED
      BY <2>2, <2>3, <3>1, ItemsAdded
  <2>5. run'.pending = << >>
    BY <1>1, <2>1 DEF RunInv, PlacesInv
  <2>6. \A i \in 1..Len(run'.pending) : FALSE
    BY <2>5
  <2>7. QED
    BY <2>6, <1>1, <1>2, <1>3, <2>1, <2>2, <2>4, <2>5, TurnAdds
<1>6. ASSUME NEW tools \in Batches(1), CallTools(tools)
      PROVE  RunInv'
  <2> DEFINE calls == Fresh(tools)
             items == Each("call", calls)
  <2>1. /\ run' = [Responded(items) EXCEPT !.pending = calls]
        /\ pc = "turn" /\ pc' = "tools" /\ lastCall' = lastCall + Len(tools)
    BY <1>6 DEF CallTools, Goto
  <2>2. /\ run'.prior = run.prior /\ run'.mode = run.mode
        /\ run'.items = run.items \o items /\ run'.outs = run.outs
        /\ run'.stop = run.stop /\ run'.pending = calls
    BY <2>1, RecordType DEF Responded, Runs
  <2>3. items \in Seq(Items) /\ Len(tools) \in Nat /\ << >> \in Seq(Items)
        /\ items = items \o << >>
    BY RecordType, FreshType, ConcatEmptySeq
  <2> HIDE DEF items, calls
  <2>4. /\ WellFormed(Transcript \o items, lastCall')
        /\ \A id : Answered(Transcript \o items, id) <=> Answered(Transcript, id)
        /\ Len(calls) = Len(tools)
        /\ \A i \in 1..Len(tools) : /\ calls[i].id = lastCall + i
                                    /\ Open(Transcript \o items, calls[i])
    <3>1. items = Each("call", Fresh(tools)) \o << >>
      BY <2>3 DEF items, calls
    <3>2. \A i \in 1..Len(<< >>) : FALSE
      OBVIOUS
    <3>3. Transcript \in Seq(Items) /\ WellFormed(Transcript, lastCall) /\ lastCall \in Nat /\ 1 \in Nat
      BY RecordType DEF RunInv, TypeOK
    <3>4. /\ WellFormed(Transcript \o items, lastCall + Len(tools))
          /\ \A id : Answered(Transcript \o items, id) <=> Answered(Transcript, id)
          /\ Len(Fresh(tools)) = Len(tools)
          /\ \A i \in 1..Len(tools) : /\ Fresh(tools)[i].id = lastCall + i
                                      /\ Open(Transcript \o items, Fresh(tools)[i])
      BY <2>3, <3>1, <3>2, <3>3, BatchAdded
    <3>5. QED
      BY <2>1, <3>4 DEF calls
  <2>5. \A i \in 1..Len(calls) : /\ Open(Transcript \o items, calls[i])
                                 /\ calls[i].id > lastCall
                                 /\ \A j \in 1..Len(calls) : calls[i].id = calls[j].id => i = j
    BY <2>3, <2>4, RecordType
  <2>6. QED
    BY <1>2, <2>1, <2>2, <2>3, <2>4, <2>5, TurnAdds
<1>7. ASSUME NEW target \in Agents, NEW tools \in Batches(0), HandOff(target, tools)
      PROVE  RunInv'
  <2> DEFINE calls == Each("call", Fresh(tools))
             last == <<Item("handoff", NoCall)>>
             items == calls \o last
  <2>1. /\ run' = [Responded(items) EXCEPT !.agent = target]
        /\ pc = "turn" /\ pc' = "turn" /\ lastCall' = lastCall + Len(tools)
    BY <1>7 DEF HandOff, Goto
  <2>2. /\ run'.prior = run.prior /\ run'.mode = run.mode
        /\ run'.items = run.items \o items /\ run'.outs = run.outs
        /\ run'.stop = run.stop /\ run'.pending = run.pending
    BY <2>1, RecordType DEF Responded, Runs
  <2>3. calls \in Seq(Items) /\ last \in Seq(Items)
    BY RecordType, FreshType, ItemType
  <2>4. items \in Seq(Items)
    BY <2>3, ConcatProperties
  <2>5. \A i \in 1..Len(last) : last[i].kind \notin {"call", "output"}
    BY DEF Item
  <2> HIDE DEF items, calls, last
  <2>6. /\ WellFormed(Transcript \o items, lastCall')
        /\ \A id : Answered(Transcript \o items, id) <=> Answered(Transcript, id)
    <3>1. items = Each("call", Fresh(tools)) \o last
      BY DEF items, calls
    <3>2. Transcript \in Seq(Items) /\ WellFormed(Transcript, lastCall) /\ lastCall \in Nat /\ 0 \in Nat
      BY RecordType DEF RunInv
    <3>3. /\ WellFormed(Transcript \o items, lastCall + Len(tools))
          /\ \A id : Answered(Transcript \o items, id) <=> Answered(Transcript, id)
      BY <2>3, <2>4, <2>5, <3>1, <3>2, BatchAdded
    <3>4. QED
      BY <2>1, <3>3
  <2>7. run'.pending = << >>
    BY <2>1, <2>2 DEF RunInv, PlacesInv
  <2>8. \A i \in 1..Len(run'.pending) : FALSE
    BY <2>7
  <2>9. QED
    BY <2>8, <1>2, <2>1, <2>2, <2>4, <2>6, <2>7, TurnAdds
<1>8. QED
  BY <1>3, <1>4, <1>5, <1>6, <1>7 DEF Turn

(* The first pending call gets its output.                                 *)
LEMMA OutputStep ==
  ASSUME TypeOK, RunInv, pc = "tools", run.pending # << >>,
         Goto("tools", Output(Head(run.pending))), lastCall' = lastCall
  PROVE  RunInv'
<1> DEFINE call == Head(run.pending)
           rest == Tail(run.pending)
<1>1. /\ run'.prior = run.prior /\ run'.mode = run.mode /\ run'.stop = run.stop
      /\ run'.items = run.items /\ run'.pending = rest
      /\ run'.outs = Append(run.outs, Item("output", call))
      /\ pc' = "tools"
  BY RecordType DEF Goto, Output, Runs
<1>2. /\ call \in Calls /\ call = run.pending[1] /\ 1 \in 1..Len(run.pending)
      /\ \A i \in 1..Len(rest) :
            i + 1 \in 1..Len(run.pending) /\ i + 1 # 1 /\ rest[i] = run.pending[i + 1]
  BY RecordType, HeadTailProperties
<1> HIDE DEF call, rest
<1>3. Transcript' = Append(Transcript, Item("output", call))
  <2> DEFINE before == run.prior.items \o run.items
             output == Item("output", call)
  <2>1. /\ before \in Seq(Items) /\ run.outs \in Seq(Items) /\ output \in Items
        /\ before \o run.outs \in Seq(Items)
    BY <1>2, RecordType, ItemType, ConcatProperties
  <2>2. Transcript = before \o run.outs
    BY DEF Transcript, TranscriptOf
  <2>3. Transcript' = before \o Append(run.outs, output)
    BY <1>1 DEF Transcript, TranscriptOf
  <2> HIDE DEF before, output
  <2>4. before \o Append(run.outs, output) = Append(before \o run.outs, output)
    <3>1. Append(run.outs, output) = run.outs \o <<output>>
      BY <2>1, AppendIsConcat
    <3>2. Append(before \o run.outs, output) = (before \o run.outs) \o <<output>>
      BY <2>1, AppendIsConcat
    <3>3. <<output>> \in Seq(Items)
      BY <2>1
    <3>4. before \o (run.outs \o <<output>>) = (before \o run.outs) \o <<output>>
      BY <2>1, <3>3, ItemsAssociate
    <3>5. QED
      BY <3>1, <3>2, <3>4
  <2>5. QED
    BY <2>2, <2>3, <2>4 DEF output
<1>4. Open(Transcript, call)
  BY <1>2 DEF RunInv, PendingInv
<1>5. /\ WellFormed(Transcript', lastCall)
      /\ \A id : Answered(Transcript', id) => Answered(Transcript, id) \/ id = call.id
      /\ \A c : Open(Transcript, c) /\ c.id # call.id => Open(Transcript', c)
  BY <1>2, <1>3, <1>4, RecordType, OutputAdded DEF RunInv
<1>6. run.stop = NoCall
  BY DEF RunInv, PlacesInv
<1>7. PlacesInv'
  BY <1>1, <1>6 DEF RunInv, PlacesInv
<1>8. PendingInv'
  <2>1. \A i \in 1..Len(rest) : rest[i].id # call.id /\ Open(Transcript, rest[i])
    <3>1. ASSUME NEW i \in 1..Len(rest)
          PROVE  /\ run.pending[i + 1].id # run.pending[1].id
                 /\ Open(Transcript, run.pending[i + 1])
      BY <1>2 DEF RunInv, PendingInv
    <3>2. QED
      BY <1>2, <3>1
  <2>2. \A i, j \in 1..Len(rest) : rest[i].id = rest[j].id => i = j
    <3>1. ASSUME NEW i \in 1..Len(rest), NEW j \in 1..Len(rest), rest[i].id = rest[j].id
          PROVE  i + 1 = j + 1
      <4>1. /\ i + 1 \in 1..Len(run.pending) /\ rest[i] = run.pending[i + 1]
            /\ j + 1 \in 1..Len(run.pending) /\ rest[j] = run.pending[j + 1]
        BY <1>2
      <4>2. run.pending[i + 1].id = run.pending[j + 1].id
        BY <3>1, <4>1
      <4>3. QED
        BY <4>1, <4>2 DEF RunInv, PendingInv
    <3>2. QED
      BY <3>1
  <2>3. QED
    BY <1>1, <1>5, <1>6, <2>1, <2>2 DEF PendingInv
<1>9. DecisionsInv'
  <2>1. ASSUME NEW d \in run.prior.approvals, d.call = d.id,
               run.mode = "approval" => d.id # run.prior.step.id
        PROVE  ~Answered(Transcript', d.id)
    <3>1. ~Answered(Transcript, d.id)
      BY <2>1 DEF RunInv, DecisionsInv
    <3>2. d.id # call.id
      BY <1>2, <2>1 DEF RunInv, DecisionsInv
    <3>3. QED
      BY <1>5, <3>1, <3>2
  <2>2. ASSUME NEW i \in 1..Len(rest)
        PROVE  IF run.mode = "approval" THEN rest[i].id = run.prior.step.id
               ELSE \A d \in run.prior.approvals : d.id # rest[i].id
    BY <1>2 DEF RunInv, DecisionsInv
  <2>3. Decided(run.prior)
    BY DEF RunInv, DecisionsInv
  <2>4. QED
    BY <1>1, <2>1, <2>2, <2>3 DEF DecisionsInv, Decided
<1>10. QED
  BY <1>5, <1>7, <1>8, <1>9 DEF RunInv

LEMMA ToolBatchTranscript ==
  ASSUME TypeOK, TypeOK', SavedInv, RunInv, ToolBatch
  PROVE  SavedInv' /\ RunInv'
<1>1. saved' = saved /\ lastCall' = lastCall
  BY DEF ToolBatch, InvokeTool, InvokeToolFails, GuardrailRejects, CallerRejected,
     NeedsApproval, Interrupted, StopAtTools, NextTurn, PendingCallDone, Goto
<1>2. SavedInv'
  BY <1>1, RecordType, SavedKept
<1>3. CASE InvokeTool \/ GuardrailRejects \/ CallerRejected
  BY <1>1, <1>2, <1>3, OutputStep
     DEF InvokeTool, GuardrailRejects, CallerRejected, AtTool
<1>4. CASE InvokeToolFails
  BY <1>2, <1>4, RunOver DEF InvokeToolFails
<1>5. CASE NeedsApproval
  <2> DEFINE call == Head(run.pending)
  <2>1. /\ run' = [run EXCEPT !.stop = call, !.pending = << >>]
        /\ pc = "tools" /\ pc' = "tools" /\ run.pending # << >>
        /\ call.tool \in Guarded /\ run.mode # "approval"
    BY <1>5 DEF NeedsApproval, Goto, AtTool, Verdict
  <2>2. /\ run'.prior = run.prior /\ run'.mode = run.mode /\ run'.stop = call
        /\ run'.items = run.items /\ run'.outs = run.outs /\ run'.pending = << >>
    BY <2>1, RecordType DEF Runs
  <2>3. call = run.pending[1] /\ 1 \in 1..Len(run.pending)
    BY <2>1, RecordType
  <2> HIDE DEF call
  <2>4. Transcript' = Transcript
    BY <2>2 DEF Transcript, TranscriptOf
  <2>5. PlacesInv'
    BY <2>1, <2>2 DEF RunInv, PlacesInv
  <2>6. PendingInv'
    BY <2>1, <2>2, <2>3, <2>4 DEF RunInv, PendingInv
  <2>7. DecisionsInv'
    BY <1>1, <2>2, <2>4 DEF RunInv, DecisionsInv, Decided
  <2>8. QED
    BY <1>1, <1>2, <2>4, <2>5, <2>6, <2>7 DEF RunInv
<1>6. CASE Interrupted \/ StopAtTools \/ NextTurn
  <2>1. /\ run' = WithOutputs /\ run.mode # "approval" /\ run.pending = << >>
        /\ run.stop # NoCall => pc' = "save"
    BY <1>6 DEF Interrupted, StopAtTools, NextTurn, BatchDone, Goto
  <2>2. /\ run'.prior = run.prior /\ run'.mode = run.mode /\ run'.stop = run.stop
        /\ run'.items = run.items \o run.outs /\ run'.outs = << >>
        /\ run'.pending = run.pending
    BY <2>1, RecordType DEF WithOutputs, Runs
  <2>3. Transcript' = Transcript
    <3>1. Transcript' = (run.prior.items \o (run.items \o run.outs)) \o << >>
      BY <2>2 DEF Transcript, TranscriptOf
    <3>2. Transcript = (run.prior.items \o run.items) \o run.outs
      BY DEF Transcript, TranscriptOf
    <3>3. run.prior.items \o (run.items \o run.outs)
              = (run.prior.items \o run.items) \o run.outs
      <4>1. /\ run.prior.items \in Seq(Items) /\ run.items \in Seq(Items)
            /\ run.outs \in Seq(Items)
        BY RecordType
      <4>2. QED
        BY <4>1, ItemsAssociate
    <3>4. Transcript \o << >> = Transcript
      BY RecordType, ConcatEmptySeq
    <3>5. QED
      BY <3>1, <3>2, <3>3, <3>4
  <2>4. PlacesInv'
    BY <2>1, <2>2 DEF PlacesInv
  <2>5. QED
    BY <1>1, <1>2, <2>2, <2>3, <2>4, PlaceChanges
<1>7. CASE PendingCallDone
  <2> DEFINE s == Consume(run.prior, run.outs)
             locals == Locals("resume", s, Remaining(run.prior))
  <2>1. /\ run' = [locals EXCEPT !.agent = run.agent] /\ pc' = "begin"
        /\ run.mode = "approval" /\ run.items = << >>
    BY <1>7 DEF PendingCallDone, Goto, RunInv, PlacesInv
  <2>2. /\ run'.prior = s /\ run'.mode = "resume" /\ run'.stop = NoCall
        /\ run'.items = << >> /\ run'.outs = << >> /\ run'.pending = << >>
    BY <2>1 DEF Locals
  <2>3. /\ s.items = run.prior.items \o run.outs
        /\ s.approvals = {d \in run.prior.approvals : d.id # run.prior.step.id}
    BY RecordType DEF Consume, RunStates
  <2>4. Transcript' = Transcript
    <3>1. s.items = (run.prior.items \o run.items) \o run.outs
      BY <2>1, <2>3, RecordType, ConcatEmptySeq
    <3>2. Transcript' = s.items
      <4>1. s.items \in Seq(Items)
        BY <2>3, RecordType, ConcatProperties
      <4>2. QED
        BY <2>2, <4>1, ConcatEmptySeq DEF Transcript, TranscriptOf
    <3>3. QED
      BY <3>1, <3>2 DEF Transcript, TranscriptOf
  <2>5. PlacesInv' /\ PendingInv'
    BY <2>1, <2>2 DEF PlacesInv, PendingInv
  <2>6. DecisionsInv'
    BY <1>1, <2>1, <2>2, <2>3, <2>4 DEF RunInv, DecisionsInv, Decided
  <2>7. QED
    BY <1>1, <1>2, <2>4, <2>5, <2>6 DEF RunInv
<1>8. QED
  BY <1>3, <1>4, <1>5, <1>6, <1>7 DEF ToolBatch

LEMMA EndTranscript ==
  ASSUME TypeOK, TypeOK', SavedInv, RunInv, End
  PROVE  SavedInv' /\ RunInv'
<1>1. lastCall' = lastCall
  BY DEF End, HandleMaxTurns, SaveAndReturn, ReturnResumed, SaveAndFail, Fail, Return,
     Goto, world
<1>2. ASSUME NEW items \in {<< >>, <<Item("text", NoCall)>>}, HandleMaxTurns(items)
      PROVE  SavedInv' /\ RunInv'
  <2>1. /\ run' = [run EXCEPT !.items = @ \o items]
        /\ pc = "exceeded" /\ pc' = "save" /\ saved' = saved
    BY <1>2 DEF HandleMaxTurns, Goto
  <2>2. /\ run'.prior = run.prior /\ run'.mode = run.mode /\ run'.stop = run.stop
        /\ run'.items = run.items \o items /\ run'.outs = run.outs
        /\ run'.pending = run.pending
    BY <2>1, RecordType DEF Runs
  <2>3. run.outs = << >> /\ run.pending = << >> /\ run.stop = NoCall /\ run.mode # "approval"
    BY <2>1 DEF RunInv, PlacesInv
  <2>4. items \in Seq(Items)
    <3>1. << >> \in Seq(Items) /\ <<Item("text", NoCall)>> \in Seq(Items)
      BY ItemType
    <3>2. QED
      BY <1>2, <3>1
  <2>5. Transcript' = Transcript \o items
    <3> DEFINE all == run.prior.items \o (run.items \o items)
    <3>1. all = (run.prior.items \o run.items) \o items
      <4>1. run.prior.items \in Seq(Items) /\ run.items \in Seq(Items)
        BY RecordType
      <4>2. QED
        BY <2>4, <4>1, ItemsAssociate
    <3>2. all \in Seq(Items)
      BY <2>4, <3>1, RecordType, ConcatProperties
    <3>3. Transcript' = all \o << >>
      BY <2>2, <2>3 DEF Transcript, TranscriptOf
    <3>4. Transcript = run.prior.items \o run.items
      BY <2>3, RecordType, ConcatEmptySeq DEF Transcript, TranscriptOf
    <3> HIDE DEF all
    <3>5. all \o << >> = all
      BY <3>2, ConcatEmptySeq
    <3>6. QED
      BY <3>1, <3>3, <3>4, <3>5
  <2>6. /\ WellFormed(Transcript \o items, lastCall)
        /\ \A id : Answered(Transcript \o items, id) <=> Answered(Transcript, id)
    <3>1. \A i \in 1..Len(items) : items[i].kind \notin {"call", "output"}
      BY DEF Item
    <3>2. /\ Transcript \in Seq(Items) /\ WellFormed(Transcript, lastCall)
          /\ lastCall \in Nat /\ lastCall <= lastCall
      BY RecordType DEF RunInv
    <3>3. QED
      BY <2>4, <3>1, <3>2, ItemsAdded
  <2>7. PlacesInv' /\ PendingInv'
    BY <2>1, <2>2, <2>3 DEF PlacesInv, PendingInv
  <2>8. DecisionsInv'
    BY <1>1, <2>2, <2>3, <2>5, <2>6 DEF RunInv, DecisionsInv, Decided
  <2>9. RunInv'
    BY <1>1, <2>5, <2>6, <2>7, <2>8 DEF RunInv
  <2>10. QED
    BY <1>1, <2>1, <2>9, RecordType, SavedKept
<1>3. CASE SaveAndReturn \/ ReturnResumed
  <2>1. PICK persisted : /\ run' = NoRun /\ pc' = "idle" /\ pc = "save"
                         /\ saved' = StateOf(persisted)
    BY <1>3 DEF SaveAndReturn, ReturnResumed, Return
  <2>2. run.outs = << >> /\ run.mode # "approval"
    BY <2>1 DEF RunInv, PlacesInv
  <2>3. /\ saved'.items = run.prior.items \o run.items
        /\ saved'.step = run.stop /\ saved'.approvals = run.prior.approvals
    BY <2>1 DEF StateOf
  <2>4. saved'.items = Transcript
    BY <2>2, <2>3, RecordType, ConcatEmptySeq DEF Transcript, TranscriptOf
  <2>5. SavedInv'
    BY <1>1, <2>2, <2>3, <2>4 DEF SavedInv, RunInv, PendingInv, DecisionsInv, Decided
  <2>6. QED
    BY <2>1, <2>5, RunOver
<1>4. CASE SaveAndFail \/ Fail
  <2>1. run' = NoRun /\ pc' = "idle" /\ saved' = saved
    BY <1>4 DEF SaveAndFail, Fail
  <2>2. QED
    BY <1>1, <2>1, RecordType, SavedKept, RunOver
<1>5. QED
  BY <1>2, <1>3, <1>4 DEF End

LEMMA InitTranscript == Init => SavedInv /\ RunInv
<1> SUFFICES ASSUME Init PROVE SavedInv /\ RunInv
  OBVIOUS
<1>1. /\ run.prior = NewState /\ run.items = << >> /\ run.outs = << >>
      /\ run.pending = << >> /\ run.stop = NoCall /\ run.mode = "none"
      /\ run.prior.approvals = {}
  BY DEF Init, NoRun, Locals, NewState
<1>2. Transcript = << >>
  BY <1>1, NewStateType, LocalsTranscript DEF Transcript, NewState
<1>3. saved.items = << >> /\ saved.step = NoCall /\ saved.approvals = {}
  BY DEF Init, NewState
<1>4. SavedInv
  BY <1>3, NoTranscript DEF SavedInv, Decided
<1>5. RunInv
  BY <1>1, <1>2, NoTranscript DEF RunInv, PlacesInv, PendingInv, DecisionsInv, Decided
<1>6. QED
  BY <1>4, <1>5

LEMMA NextTranscript ==
  ASSUME TypeOK, TypeOK', SavedInv, RunInv, [Next]_vars
  PROVE  SavedInv' /\ RunInv'
<1>1. CASE Next
  BY <1>1, CallerTranscript, TurnTranscript, ToolBatchTranscript, EndTranscript DEF Next
<1>2. CASE UNCHANGED vars
  BY <1>2 DEF vars, SavedInv, RunInv, PlacesInv, PendingInv, DecisionsInv, Decided,
     Transcript
<1>3. QED
  BY <1>1, <1>2

LEMMA TranscriptCorrect == Safe => []SavedInv
<1>1. Safe => [](SavedInv /\ RunInv)
  BY InitTranscript, NextTranscript, TypeCorrect, PTL DEF Safe
<1>2. QED
  BY <1>1, PTL

(* However often a run is interrupted, resumed, handed off and refused:    *)
(* each output in the items of a state has its call before it, and is the  *)
(* only one of that call (run.rs, internal/tool_execution.rs).             *)
THEOREM OutputsCorrect == Safe => []OutputsAnswerCalls
<1>1. SavedInv => OutputsAnswerCalls
  <2> SUFFICES ASSUME SavedInv, NEW i \in 1..Len(saved.items),
                      saved.items[i].kind = "output"
               PROVE  /\ \E j \in 1..(i - 1) :
                            saved.items[j] = Item("call", saved.items[i].call)
                      /\ \A j \in 1..(i - 1) : saved.items[j] # saved.items[i]
    BY DEF OutputsAnswerCalls
  <2>1. IsOutput(saved.items, i)
    BY DEF IsOutput
  <2>2. ASSUME NEW j \in 1..(i - 1), saved.items[j] = saved.items[i]
        PROVE  FALSE
    <3>1. j \in 1..Len(saved.items) /\ j # i
      OBVIOUS
    <3>2. IsOutput(saved.items, j)
      BY <2>2, <3>1 DEF IsOutput
    <3>3. QED
      BY <2>1, <2>2, <3>1, <3>2 DEF SavedInv, WellFormed
  <2>3. QED
    BY <2>1, <2>2 DEF SavedInv, WellFormed
<1>2. QED
  BY <1>1, TranscriptCorrect, PTL

(* The call a state is interrupted for is among its items, unanswered and  *)
(* guarded: resume finds it and has still to run it.                       *)
THEOREM PendingCorrect == Safe => []PendingCallIsOpen
<1>1. SavedInv => PendingCallIsOpen
  <2> SUFFICES ASSUME SavedInv, saved.step # NoCall
               PROVE  /\ saved.step \in CallsIn(saved.items, "call")
                      /\ saved.step \notin CallsIn(saved.items, "output")
                      /\ saved.step.tool \in Guarded
    BY DEF PendingCallIsOpen
  <2>1. Open(saved.items, saved.step) /\ saved.step.tool \in Guarded
    BY DEF SavedInv
  <2>2. saved.step \in CallsIn(saved.items, "call")
    BY <2>1 DEF Open, CallsIn, Item
  <2>3. saved.step \notin CallsIn(saved.items, "output")
    BY <2>1 DEF Open, Answered, IsOutput, CallsIn
  <2>4. QED
    BY <2>1, <2>2, <2>3
<1>2. QED
  BY <1>1, TranscriptCorrect, PTL

(* Approvals are one-shot: no state keeps a decision that is bound to a    *)
(* call with an output.                                                    *)
THEOREM ApprovalsCorrect == Safe => []ApprovalsAreConsumed
<1>1. SavedInv => ApprovalsAreConsumed
  BY DEF SavedInv, ApprovalsAreConsumed, Answered, IsOutput, Ids, CallsIn
<1>2. QED
  BY <1>1, TranscriptCorrect, PTL

-----------------------------------------------------------------------------
(* What the session holds of a state.                                      *)

(* From "at" on, a session has the input and the items of s that s counts  *)
(* as persisted.                                                           *)
Holds(s, sess, at) ==
    s.persisted > 0 =>
        /\ at + s.persisted <= Len(sess)
        /\ s.persisted <= Len(s.items) + 1
        /\ sess[at + 1] = Item("input", NoCall)
        /\ \A i \in 1..(s.persisted - 1) : sess[at + 1 + i] = s.items[i]

(* Only a run that resumes nothing is saved, and it has all the items of   *)
(* the state it returns.                                                   *)
SessionInv ==
    /\ Holds(saved, session, savedAt)
    /\ Holds(run.prior, session, savedAt)
    /\ run.mode = "run" => run.prior.persisted = 0 /\ run.prior.items = << >>

(* Both the session and the state only grow.                               *)
LEMMA HoldsMore ==
  ASSUME NEW s \in RunStates, NEW t, NEW more \in Seq(Items),
         NEW sess \in Seq(Items), NEW behind \in Seq(Items), NEW at \in Nat,
         t.persisted = s.persisted, t.items = s.items \o more,
         Holds(s, sess, at)
  PROVE  Holds(t, sess \o behind, at)
<1>1. s.items \in Seq(Items) /\ s.persisted \in Nat
  BY DEF RunStates
<1>2. SUFFICES ASSUME s.persisted > 0
               PROVE  /\ at + s.persisted <= Len(sess \o behind)
                      /\ s.persisted <= Len(t.items) + 1
                      /\ (sess \o behind)[at + 1] = Item("input", NoCall)
                      /\ \A i \in 1..(s.persisted - 1) :
                            (sess \o behind)[at + 1 + i] = t.items[i]
  BY DEF Holds
<1>3. /\ at + s.persisted <= Len(sess) /\ s.persisted <= Len(s.items) + 1
      /\ sess[at + 1] = Item("input", NoCall)
      /\ \A i \in 1..(s.persisted - 1) : sess[at + 1 + i] = s.items[i]
  BY <1>2 DEF Holds
<1>4. /\ Len(sess) \in Nat /\ Len(behind) \in Nat
      /\ Len(sess \o behind) = Len(sess) + Len(behind)
      /\ \A i \in 1..Len(sess) : (sess \o behind)[i] = sess[i]
  BY ConcatProperties, LenProperties
<1>5. /\ Len(s.items) \in Nat /\ Len(more) \in Nat
      /\ Len(t.items) = Len(s.items) + Len(more)
      /\ \A i \in 1..Len(s.items) : t.items[i] = s.items[i]
  BY <1>1, ConcatProperties, LenProperties
<1>6. at + 1 \in 1..Len(sess)
  BY <1>1, <1>2, <1>3, <1>4
<1>7. ASSUME NEW i \in 1..(s.persisted - 1)
      PROVE  (sess \o behind)[at + 1 + i] = t.items[i]
  <2>1. at + 1 + i \in 1..Len(sess) /\ i \in 1..Len(s.items)
    <3>1. /\ s.persisted \in Nat /\ Len(sess) \in Nat /\ Len(s.items) \in Nat
          /\ at + s.persisted <= Len(sess) /\ s.persisted <= Len(s.items) + 1
      BY <1>1, <1>3, <1>4, <1>5
    <3>2. QED
      BY <3>1
  <2>2. sess[at + 1 + i] = s.items[i] /\ (sess \o behind)[at + 1 + i] = sess[at + 1 + i]
        /\ t.items[i] = s.items[i]
    BY <1>3, <1>4, <1>5, <2>1
  <2>3. QED
    BY <2>2
<1>8. /\ at + s.persisted <= Len(sess \o behind) /\ s.persisted <= Len(t.items) + 1
  <2>1. /\ s.persisted \in Nat /\ Len(sess) \in Nat /\ Len(s.items) \in Nat
        /\ Len(behind) \in Nat /\ Len(more) \in Nat
        /\ at + s.persisted <= Len(sess) /\ s.persisted <= Len(s.items) + 1
        /\ Len(sess \o behind) = Len(sess) + Len(behind)
        /\ Len(t.items) = Len(s.items) + Len(more)
    BY <1>1, <1>3, <1>4, <1>5
  <2>2. QED
    BY <2>1
<1>9. (sess \o behind)[at + 1] = Item("input", NoCall)
  BY <1>3, <1>4, <1>6
<1>10. QED
  BY <1>7, <1>8, <1>9

LEMMA HoldsSame ==
  ASSUME NEW s, NEW t, NEW sess, NEW at, t.persisted = s.persisted, t.items = s.items,
         Holds(s, sess, at)
  PROVE  Holds(t, sess, at)
  BY DEF Holds

LEMMA NoRunHolds ==
  ASSUME NEW sess, NEW at
  PROVE  /\ Holds(NewState, sess, at) /\ NoRun.prior = NewState
         /\ NoRun.mode = "none" /\ NewState.persisted = 0 /\ NewState.items = << >>
  BY DEF Holds, NoRun, NewState, Locals

(* A run that was saved: the session ends with what its state counts.      *)
LEMMA SavedHolds ==
  ASSUME TypeOK, run.prior.persisted = 0, run.prior.items = << >>
  PROVE  Holds(StateOf(Len(ToSave)), session \o ToSave, Len(session))
<1> DEFINE s == StateOf(Len(ToSave))
           new == session \o ToSave
           input == <<Item("input", NoCall)>>
<1>1. /\ session \in Seq(Items) /\ run.items \in Seq(Items) /\ input \in Seq(Items)
      /\ ToSave \in Seq(Items) /\ ToSave = input \o run.items /\ Len(input) = 1
      /\ input[1] = Item("input", NoCall)
  BY RecordType, ItemType, ToSaveType DEF TypeOK, ToSave
<1>2. s.persisted = Len(ToSave) /\ s.items = run.items
  <2>1. s.persisted = 0 + Len(ToSave) /\ s.items = << >> \o run.items
    BY DEF StateOf
  <2>2. Len(ToSave) \in Nat
    BY <1>1, LenProperties
  <2>3. << >> \o run.items = run.items
    BY <1>1, ConcatEmptySeq
  <2>4. QED
    BY <2>1, <2>2, <2>3
<1> HIDE DEF s, input
<1>3. /\ Len(run.items) \in Nat /\ Len(ToSave) = 1 + Len(run.items)
      /\ \A i \in 1..Len(ToSave) :
            ToSave[i] = IF i <= 1 THEN input[i] ELSE run.items[i - 1]
  <2>1. Len(run.items) \in Nat
    BY <1>1, LenProperties
  <2>2. Len(input \o run.items) = Len(input) + Len(run.items)
    BY <1>1, ConcatProperties
  <2>3. \A i \in 1..Len(input) + Len(run.items) : (input \o run.items)[i] =
            IF i <= Len(input) THEN input[i] ELSE run.items[i - Len(input)]
    BY <1>1, ConcatProperties
  <2>4. QED
    BY <1>1, <2>1, <2>2, <2>3
<1>4. /\ Len(session) \in Nat /\ Len(new) = Len(session) + Len(ToSave)
      /\ \A i \in 1..Len(new) :
            new[i] = IF i <= Len(session) THEN session[i] ELSE ToSave[i - Len(session)]
  <2>1. Len(session) \in Nat
    BY <1>1, LenProperties
  <2>2. Len(new) = Len(session) + Len(ToSave)
    BY <1>1, ConcatProperties
  <2>3. \A i \in 1..Len(session) + Len(ToSave) :
            new[i] = IF i <= Len(session) THEN session[i] ELSE ToSave[i - Len(session)]
    BY <1>1, ConcatProperties
  <2>4. QED
    BY <2>1, <2>2, <2>3
<1> HIDE DEF new
<1>5. ASSUME NEW i \in 1..Len(ToSave)
      PROVE  new[Len(session) + i] = ToSave[i]
  <2>1. /\ Len(session) + i \in 1..Len(new) /\ ~(Len(session) + i <= Len(session))
        /\ Len(session) + i - Len(session) = i
    BY <1>3, <1>4
  <2>2. QED
    BY <1>4, <2>1
<1>6. new[Len(session) + 1] = Item("input", NoCall)
  BY <1>1, <1>3, <1>5
<1>7. ASSUME NEW i \in 1..(s.persisted - 1)
      PROVE  new[Len(session) + 1 + i] = s.items[i]
  <2>1. i + 1 \in 1..Len(ToSave) /\ ~(i + 1 <= 1) /\ i + 1 - 1 = i
        /\ Len(session) + 1 + i = Len(session) + (i + 1)
    BY <1>2, <1>3, <1>4
  <2>2. QED
    BY <1>2, <1>3, <1>5, <2>1
<1>8. Len(session) + s.persisted <= Len(new) /\ s.persisted <= Len(s.items) + 1
  BY <1>2, <1>3, <1>4
<1>9. Holds(s, new, Len(session))
  BY <1>6, <1>7, <1>8 DEF Holds
<1>10. QED
  BY <1>9 DEF s, new

LEMMA InitSession == Init => SessionInv
  BY NoRunHolds DEF Init, SessionInv

(* Steps that leave the caller's state and the session alone: the run goes *)
(* on with the state it resumes, or that state grows.                      *)
LEMMA RunKeepsSession ==
  ASSUME TypeOK, SessionInv, UNCHANGED <<saved, session, savedAt>>,
         NEW more \in Seq(Items),
         run'.prior.persisted = run.prior.persisted,
         run'.prior.items = run.prior.items \o more,
         run'.mode = "run" => run.mode = "run" /\ more = << >>
  PROVE  SessionInv'
<1>1. /\ session \in Seq(Items) /\ << >> \in Seq(Items) /\ savedAt \in Nat
      /\ session \o << >> = session
  BY ConcatEmptySeq DEF TypeOK
<1>2. Holds(run.prior, session, savedAt)
  BY DEF SessionInv
<1>3. Holds(run'.prior, session \o << >>, savedAt)
  BY <1>1, <1>2, RecordType, HoldsMore
<1>4. QED
  BY <1>1, <1>3, RecordType, ConcatEmptySeq DEF SessionInv

LEMMA NextSession ==
  ASSUME TypeOK, TypeOK', SessionInv, [Next]_vars
  PROVE  SessionInv'
<1>1. CASE Caller
  <2>1. UNCHANGED <<session, savedAt>>
    BY <1>1 DEF Caller, StartRun, Decide, Resume, ResumePending, ResumeExhausted,
       ResumeUndecided, Enter, world
  <2>2. CASE StartRun
    BY <2>1, <2>2, NoRunHolds DEF StartRun, Enter, Locals, SessionInv
  <2>3. ASSUME NEW id, NEW tool, NEW approved, Decide(id, tool, approved)
        PROVE  SessionInv'
    <3>1. saved'.persisted = saved.persisted /\ saved'.items = saved.items /\ run' = run
      BY <2>3, RecordType DEF Decide, RunStates
    <3>2. QED
      BY <2>1, <3>1, HoldsSame DEF SessionInv
  <2>4. ASSUME NEW a \in Agents, Resume(a) \/ \E call : ResumePending(a, call)
        PROVE  SessionInv'
    <3> DEFINE s == [saved EXCEPT !.agent = a]
    <3>1. saved' = saved /\ run'.prior = s /\ run'.mode # "run"
      BY <2>4 DEF Resume, ResumePending, Enter, Locals
    <3>2. s.persisted = saved.persisted /\ s.items = saved.items
      BY RecordType DEF RunStates
    <3>3. QED
      BY <2>1, <3>1, <3>2, HoldsSame DEF SessionInv
  <2>5. CASE ResumeExhausted \/ ResumeUndecided
    BY <2>1, <2>5 DEF ResumeExhausted, ResumeUndecided, SessionInv
  <2>6. QED
    BY <1>1, <2>2, <2>3, <2>4, <2>5 DEF Caller
<1>2. ASSUME UNCHANGED <<saved, session, savedAt>>, run'.prior = run.prior,
             run'.mode = run.mode
      PROVE  SessionInv'
  BY <1>2 DEF SessionInv
<1>3. CASE Turn
  <2>1. UNCHANGED <<saved, session, savedAt>>
    BY <1>3 DEF Turn, InputGuardrailsPass, TurnsUsedUp, Answer, AnswerNothing, CallTools,
       HandOff, Goto
  <2>2. run'.prior = run.prior /\ run'.mode = run.mode
    BY <1>3, RecordType
       DEF Turn, InputGuardrailsPass, TurnsUsedUp, Answer, AnswerNothing, CallTools,
           HandOff, Goto, Responded, Runs
  <2>3. QED
    BY <1>2, <2>1, <2>2
<1>4. CASE ToolBatch
  <2>1. UNCHANGED <<saved, session, savedAt>>
    BY <1>4 DEF ToolBatch, InvokeTool, InvokeToolFails, GuardrailRejects, CallerRejected,
       NeedsApproval, Interrupted, StopAtTools, NextTurn, PendingCallDone, Goto
  <2>2. CASE InvokeToolFails
    BY <2>1, <2>2, NoRunHolds DEF InvokeToolFails, SessionInv
  <2>3. CASE PendingCallDone
    <3> DEFINE s == Consume(run.prior, run.outs)
    <3>1. run'.prior = s /\ run'.mode = "resume"
      BY <2>3 DEF PendingCallDone, Goto, Locals
    <3>2. s.persisted = run.prior.persisted /\ s.items = run.prior.items \o run.outs
      BY RecordType DEF Consume, RunStates
    <3>3. QED
      BY <2>1, <3>1, <3>2, RecordType, RunKeepsSession
  <2>4. CASE ~InvokeToolFails /\ ~PendingCallDone
    <3>1. run'.prior = run.prior /\ run'.mode = run.mode
      BY <1>4, <2>4, RecordType
         DEF ToolBatch, InvokeTool, GuardrailRejects, CallerRejected, NeedsApproval,
             Interrupted, StopAtTools, NextTurn, Goto, Output, WithOutputs, Runs
    <3>2. QED
      BY <1>2, <2>1, <3>1
  <2>5. QED
    BY <2>2, <2>3, <2>4
<1>5. CASE End
  <2>1. ASSUME NEW items, HandleMaxTurns(items)
        PROVE  SessionInv'
    <3>1. run'.prior = run.prior /\ run'.mode = run.mode
      BY <2>1, RecordType DEF HandleMaxTurns, Goto, Runs
    <3>2. QED
      BY <1>2, <2>1, <3>1 DEF HandleMaxTurns, Goto
  <2>2. CASE SaveAndReturn
    <3>1. run.prior.persisted = 0 /\ run.prior.items = << >>
      BY <2>2 DEF SaveAndReturn, SessionInv
    <3>2. /\ saved' = StateOf(Len(ToSave)) /\ session' = session \o ToSave
          /\ savedAt' = Len(session) /\ run' = NoRun
      BY <2>2 DEF SaveAndReturn, Return
    <3>3. QED
      BY <3>1, <3>2, SavedHolds, NoRunHolds DEF SessionInv
  <2>3. CASE ReturnResumed
    <3> DEFINE s == StateOf(0)
    <3>1. /\ saved' = s /\ run' = NoRun /\ UNCHANGED <<session, savedAt>>
      BY <2>3 DEF ReturnResumed, Return
    <3>2. s.persisted = run.prior.persisted /\ s.items = run.prior.items \o run.items
      <4>1. s.persisted = run.prior.persisted + 0 /\ s.items = run.prior.items \o run.items
        BY DEF StateOf
      <4>2. run.prior.persisted \in Nat
        BY RecordType DEF RunStates
      <4> HIDE DEF s
      <4>3. QED
        BY <4>1, <4>2
    <3>3. /\ session \in Seq(Items) /\ savedAt \in Nat /\ << >> \in Seq(Items)
          /\ session \o << >> = session
      BY ConcatEmptySeq DEF TypeOK
    <3>4. Holds(run.prior, session, savedAt)
      BY DEF SessionInv
    <3>5. Holds(s, session \o << >>, savedAt)
      BY <3>2, <3>3, <3>4, RecordType, HoldsMore
    <3>6. QED
      BY <3>1, <3>3, <3>5, NoRunHolds DEF SessionInv
  <2>4. CASE SaveAndFail \/ Fail
    <3>1. PICK behind \in Seq(Items) :
               /\ session' = session \o behind
               /\ run' = NoRun /\ saved' = saved /\ savedAt' = savedAt
      <4>1. ToSave \in Seq(Items) /\ << >> \in Seq(Items) /\ session \o << >> = session
        BY RecordType, ToSaveType, ConcatEmptySeq DEF TypeOK
      <4>2. QED
        BY <2>4, <4>1 DEF SaveAndFail, Fail, world
    <3>2. saved.items = saved.items \o << >> /\ << >> \in Seq(Items)
      BY RecordType, ConcatEmptySeq
    <3>3. session \in Seq(Items) /\ savedAt \in Nat /\ Holds(saved, session, savedAt)
      BY DEF TypeOK, SessionInv
    <3>4. Holds(saved, session \o behind, savedAt)
      BY <3>2, <3>3, RecordType, HoldsMore
    <3>5. QED
      BY <3>1, <3>4, NoRunHolds DEF SessionInv
  <2>5. QED
    BY <1>5, <2>1, <2>2, <2>3, <2>4 DEF End
<1>6. CASE UNCHANGED vars
  BY <1>6 DEF vars, SessionInv
<1>7. QED
  BY <1>1, <1>3, <1>4, <1>5, <1>6 DEF Next

(* In any lineage of runs, failed saves and resumes included: the session  *)
(* holds the input and the items that the caller's state counts as         *)
(* persisted (internal/session_persistence.rs).                            *)
THEOREM SessionCorrect == Safe => []SessionHoldsThePersisted
<1>1. TypeOK /\ SessionInv => SessionHoldsThePersisted
  <2> SUFFICES ASSUME TypeOK, SessionInv, saved.persisted > 0
               PROVE  LET held == SubSeq(session, savedAt + 1, savedAt + saved.persisted)
                      IN  /\ savedAt + saved.persisted <= Len(session)
                          /\ saved.persisted <= Len(saved.items) + 1
                          /\ Head(held) = Item("input", NoCall)
                          /\ Tail(held) = SubSeq(saved.items, 1, saved.persisted - 1)
    BY DEF SessionHoldsThePersisted
  <2> DEFINE n == saved.persisted
             m == savedAt + 1
             last == savedAt + n
  <2>1. /\ session \in Seq(Items) /\ saved.items \in Seq(Items) /\ n \in Nat
        /\ savedAt \in Nat /\ Len(session) \in Nat /\ Len(saved.items) \in Nat
    BY RecordType, LenProperties DEF TypeOK, RunStates
  <2>2. /\ last <= Len(session) /\ n <= Len(saved.items) + 1
        /\ session[m] = Item("input", NoCall)
        /\ \A i \in 1..(n - 1) : session[m + i] = saved.items[i]
    BY DEF SessionInv, Holds
  <2>3. m \in 1..Len(session) /\ last \in m..Len(session)
    BY <2>1, <2>2
  <2> HIDE DEF m, last
  <2>4. /\ Head(SubSeq(session, m, last)) = session[m]
        /\ Tail(SubSeq(session, m, last)) = SubSeq(session, m + 1, last)
    BY <2>1, <2>3, HeadTailOfSubSeq
  <2>5. SubSeq(session, m + 1, last) = SubSeq(saved.items, 1, n - 1)
    <3> DEFINE s == SubSeq(session, m + 1, last)
               t == SubSeq(saved.items, 1, n - 1)
    <3>1. \A i \in (m + 1)..last : session[i] \in Items
      BY <2>1, <2>3, ElementOfSeq
    <3>2. \A i \in 1..(n - 1) : saved.items[i] \in Items
      BY <2>1, <2>2, ElementOfSeq
    <3>3. m \in Nat /\ last \in Nat /\ last - (m + 1) + 1 = n - 1 /\ m = savedAt + 1
          /\ last = savedAt + n
      BY <2>1 DEF m, last
    <3>4. /\ s \in Seq(Items) /\ Len(s) = n - 1
          /\ \A i \in 1..(n - 1) : s[i] = session[m + 1 + i - 1]
      <4>1. m + 1 \in Int /\ last \in Int /\ (n >= 1 => m + 1 <= last \/ n = 1)
        BY <2>1, <3>3
      <4>2. /\ s \in Seq(Items)
            /\ Len(s) = IF m + 1 <= last THEN last - (m + 1) + 1 ELSE 0
            /\ \A i \in 1..last - (m + 1) + 1 : s[i] = session[m + 1 + i - 1]
        BY <3>1, <4>1, SubSeqProperties
      <4>3. (IF m + 1 <= last THEN last - (m + 1) + 1 ELSE 0) = n - 1
        BY <2>1, <3>3
      <4>4. QED
        BY <3>3, <4>2, <4>3
    <3>5. /\ t \in Seq(Items) /\ Len(t) = n - 1
          /\ \A i \in 1..(n - 1) : t[i] = saved.items[1 + i - 1]
      BY <2>1, <3>2, SubSeqProperties
    <3>6. ASSUME NEW i \in 1..(n - 1) PROVE s[i] = t[i]
      <4>1. m + 1 + i - 1 = m + i /\ 1 + i - 1 = i
        BY <3>3
      <4>2. QED
        BY <2>2, <3>4, <3>5, <4>1
    <3> HIDE DEF s, t
    <3>7. s = t
      BY <3>4, <3>5, <3>6, SeqEqual
    <3>8. QED
      BY <3>7 DEF s, t
  <2>6. QED
    BY <2>2, <2>4, <2>5 DEF m, last
<1>2. Safe => []SessionInv
  BY InitSession, NextSession, TypeCorrect, PTL DEF Safe
<1>3. QED
  BY <1>1, <1>2, TypeCorrect, PTL
=============================================================================
