-------------------------- MODULE LiveStreamProofs --------------------------
(***************************************************************************)
(* Theorems about LiveStream, for any number of streams, waiters and       *)
(* events.  TypeOK is not inductive alone: that the completion slot        *)
(* receives an outcome needs LogIsClosedOnce.                              *)
(***************************************************************************)
EXTENDS LiveStream, TLAPS

(* The log, the completion slot and the writer's position agree: only an   *)
(* outcome closes the log, and the slot repeats it.                        *)
LogIsClosedOnce ==
    /\ publishing \in {"items", "dead"} =>
          /\ completion = NoResult
          /\ events # << >> => events[Len(events)] \in Items
    /\ publishing = "outcome" => completion = NoResult
    /\ publishing = "result" => completion = events[Len(events)]
    /\ publishing \in {"outcome", "result"} =>
          /\ events # << >>
          /\ events[Len(events)] \in Outcomes

IInv == TypeOK /\ LogIsClosedOnce /\ WakeupIsPending

-----------------------------------------------------------------------------
(* The step lemmas: one case per action.                                   *)

LEMMA InitIInv == Init => IInv
BY EventsAssumption
   DEF Init, IInv, TypeOK, LogIsClosedOnce, WakeupIsPending, Publishing, Steps,
       ConsumerSteps, LoopHead, NoResult, Outcomes

LEMMA NextType == TypeOK /\ LogIsClosedOnce /\ [Next]_vars => TypeOK'
<1> SUFFICES ASSUME TypeOK, LogIsClosedOnce, [Next]_vars PROVE TypeOK'
    OBVIOUS
<1> USE DEF TypeOK, Publishing, Steps, ConsumerSteps, writerVars, consumerVars
<1>1. ASSUME NEW e \in Items, PushItem(e) PROVE TypeOK'
    BY <1>1 DEF PushItem
<1>2. ASSUME NEW o \in Outcomes, PushOutcome(o) PROVE TypeOK'
    BY <1>2 DEF PushOutcome
<1>3. CASE SetCompletion
    BY <1>3 DEF SetCompletion, LogIsClosedOnce
<1>4. CASE BumpRevision
    BY <1>4 DEF BumpRevision
<1>5. CASE NotifyWaiters
    BY <1>5 DEF NotifyWaiters
<1>6. CASE RunTaskPanics
    BY <1>6 DEF RunTaskPanics
<1>7. ASSUME NEW c \in Consumers, EventAt(c) PROVE TypeOK'
    <2>1. got' \in [Consumers -> Seq(Items \cup Outcomes)]
        <3>1. CASE Len(got[c]) < Len(events)
            <4>1. events[Len(got[c]) + 1] \in Items \cup Outcomes
                BY <3>1
            <4>2. Append(got[c], events[Len(got[c]) + 1])
                      \in Seq(Items \cup Outcomes)
                BY <4>1
            <4> QED BY <1>7, <3>1, <4>2 DEF EventAt
        <3>2. CASE ~(Len(got[c]) < Len(events))
            BY <1>7, <3>2 DEF EventAt
        <3> QED BY <3>1, <3>2
    <2>2. pc' \in [Consumers -> ConsumerSteps]
        BY <1>7 DEF EventAt, Go
    <2> QED BY <1>7, <2>1, <2>2 DEF EventAt
<1>8. ASSUME NEW c \in Consumers, CheckCompletion(c) PROVE TypeOK'
    BY <1>8 DEF CheckCompletion, Go
<1>9. ASSUME NEW c \in Consumers, LoadRevision(c) PROVE TypeOK'
    BY <1>9 DEF LoadRevision, Go
<1>10. ASSUME NEW c \in Consumers, Register(c) PROVE TypeOK'
    BY <1>10 DEF Register, Go
<1>11. ASSUME NEW c \in Consumers, CompareRevision(c) PROVE TypeOK'
    BY <1>11 DEF CompareRevision, Go, LoopHead
<1>12. ASSUME NEW c \in Consumers, Resume(c) PROVE TypeOK'
    BY <1>12 DEF Resume, Go, LoopHead
<1>13. ASSUME NEW c \in Consumers, Drop(c) PROVE TypeOK'
    BY <1>13 DEF Drop, Go
<1>14. CASE UNCHANGED vars
    BY <1>14 DEF vars
<1> QED
    BY <1>1, <1>2, <1>3, <1>4, <1>5, <1>6, <1>7, <1>8, <1>9, <1>10, <1>11,
       <1>12, <1>13, <1>14 DEF Next, Writer, Advance

LEMMA NextLog == TypeOK /\ LogIsClosedOnce /\ [Next]_vars => LogIsClosedOnce'
<1> SUFFICES ASSUME TypeOK, LogIsClosedOnce, [Next]_vars PROVE LogIsClosedOnce'
    OBVIOUS
<1> USE DEF LogIsClosedOnce
<1>1. ASSUME NEW e \in Items, PushItem(e) PROVE LogIsClosedOnce'
    <2>1. events' # << >> /\ events'[Len(events')] = e
        BY <1>1 DEF PushItem, TypeOK
    <2> QED BY <1>1, <2>1 DEF PushItem
<1>2. ASSUME NEW o \in Outcomes, PushOutcome(o) PROVE LogIsClosedOnce'
    <2>1. events' # << >> /\ events'[Len(events')] = o
        BY <1>2 DEF PushOutcome, TypeOK
    <2> QED BY <1>2, <2>1 DEF PushOutcome
<1>3. CASE SetCompletion
    BY <1>3 DEF SetCompletion
<1>4. CASE RunTaskPanics
    BY <1>4 DEF RunTaskPanics
<1>5. CASE UNCHANGED <<events, completion, publishing>>
    BY <1>5
<1> QED
    BY <1>1, <1>2, <1>3, <1>4, <1>5
       DEF Next, Writer, Advance, vars, writerVars, BumpRevision, NotifyWaiters,
           EventAt, CheckCompletion, LoadRevision, Register, CompareRevision,
           Resume, Drop

(* The consumer compares after it has registered, and whoever bumps the    *)
(* revision notifies next.                                                 *)
LEMMA NextWakeup == TypeOK /\ WakeupIsPending /\ [Next]_vars => WakeupIsPending'
<1> SUFFICES ASSUME TypeOK, WakeupIsPending, [Next]_vars,
                    NEW c \in Consumers,
                    pc'[c] = "parked", c \in waiting', seen'[c] # revision'
             PROVE  step' = "notify"
    BY DEF WakeupIsPending
<1> USE DEF TypeOK, WakeupIsPending, writerVars, consumerVars
<1>1. ASSUME NEW e \in Items, PushItem(e) PROVE step' = "notify"
    BY <1>1 DEF PushItem
<1>2. ASSUME NEW o \in Outcomes, PushOutcome(o) PROVE step' = "notify"
    BY <1>2 DEF PushOutcome
<1>3. CASE SetCompletion
    BY <1>3 DEF SetCompletion
<1>4. CASE BumpRevision
    BY <1>4 DEF BumpRevision
<1>5. CASE NotifyWaiters
    BY <1>5 DEF NotifyWaiters
<1>6. CASE RunTaskPanics
    BY <1>6 DEF RunTaskPanics
<1>7. ASSUME NEW d \in Consumers, Advance(d) \/ Drop(d) PROVE step' = "notify"
    <2>1. CASE EventAt(d)
        BY <2>1 DEF EventAt, Go
    <2>2. CASE CheckCompletion(d)
        BY <2>2 DEF CheckCompletion, Go
    <2>3. CASE LoadRevision(d)
        BY <2>3 DEF LoadRevision, Go
    <2>4. CASE Register(d)
        BY <2>4 DEF Register, Go
    <2>5. CASE CompareRevision(d)
        BY <2>5 DEF CompareRevision, Go, LoopHead
    <2>6. CASE Resume(d)
        BY <2>6 DEF Resume, Go, LoopHead
    <2>7. CASE Drop(d)
        BY <2>7 DEF Drop, Go
    <2> QED BY <1>7, <2>1, <2>2, <2>3, <2>4, <2>5, <2>6, <2>7 DEF Advance
<1>8. CASE UNCHANGED vars
    BY <1>8 DEF vars
<1> QED
    BY <1>1, <1>2, <1>3, <1>4, <1>5, <1>6, <1>7, <1>8 DEF Next, Writer

LEMMA NextIInv == IInv /\ [Next]_vars => IInv'
BY NextType, NextLog, NextWakeup DEF IInv

LEMMA Invariance == Safe => []IInv
BY InitIInv, NextIInv, PTL DEF Safe

-----------------------------------------------------------------------------
(* Type correctness: every variable of the handle keeps its type whatever  *)
(* the writer and the consumers do.                                        *)
THEOREM TypeCorrect == Safe => []TypeOK
<1>1. IInv => TypeOK
    BY DEF IInv
<1> QED BY <1>1, Invariance, PTL

(* wait_for_change_since loses no wake-up: a consumer parked on an old     *)
(* revision is always about to be notified.                                *)
THEOREM WakeupCorrect == Safe => []WakeupIsPending
<1>1. IInv => WakeupIsPending
    BY DEF IInv
<1> QED BY <1>1, Invariance, PTL

(* Whoever finds the result finds a log that its outcome closes.           *)
THEOREM ResultCorrect == Safe => []ResultFollowsLog
<1>1. IInv => ResultFollowsLog
    BY EventsAssumption
       DEF IInv, TypeOK, LogIsClosedOnce, ResultFollowsLog, Publishing
<1> QED BY <1>1, Invariance, PTL

-----------------------------------------------------------------------------
(* Refinement.  A writer step that stores an event is a Report, the one    *)
(* that fills the slot is Publish; a consumer's step is a Deliver, a       *)
(* Finish, a Leave or stutters.                                            *)

LEMMA InitLog == Init => Log!Init
BY DEF Init, Log!Init, ConsumerStatus, LoopHead, NoResult

LEMMA StepLog == IInv /\ [Next]_vars => [Log!Next]_(Log!vars)
<1> SUFFICES ASSUME IInv, [Next]_vars PROVE [Log!Next]_(Log!vars)
    OBVIOUS
<1> USE DEF IInv, TypeOK, writerVars, consumerVars
<1> DEFINE status == [c \in Consumers |-> ConsumerStatus(c)]
<1>1. ASSUME NEW e \in Items, PushItem(e) PROVE Log!Report(e)
    <2>1. ~Log!Closing
        BY <1>1, EventsAssumption DEF PushItem, LogIsClosedOnce, Log!Closing
    <2>2. completion = NoResult
        BY <1>1 DEF PushItem, LogIsClosedOnce
    <2>3. status' = status
        BY <1>1 DEF PushItem, ConsumerStatus
    <2> QED BY <1>1, <2>1, <2>2, <2>3 DEF PushItem, Log!Report
<1>2. ASSUME NEW o \in Outcomes, PushOutcome(o) PROVE Log!Report(o)
    <2>1. ~Log!Closing
        BY <1>2, EventsAssumption DEF PushOutcome, LogIsClosedOnce, Log!Closing
    <2>2. completion = NoResult
        BY <1>2 DEF PushOutcome, LogIsClosedOnce
    <2>3. status' = status
        BY <1>2 DEF PushOutcome, ConsumerStatus
    <2> QED BY <1>2, <2>1, <2>2, <2>3 DEF PushOutcome, Log!Report
<1>3. CASE SetCompletion
    <2>1. status' = status
        BY <1>3 DEF SetCompletion, ConsumerStatus
    <2>2. Log!Publish
        BY <1>3, <2>1 DEF SetCompletion, LogIsClosedOnce, Log!Publish, Log!Closing
    <2> QED BY <2>2 DEF Log!Next
<1>4. CASE BumpRevision \/ NotifyWaiters \/ RunTaskPanics \/ UNCHANGED vars
    <2>1. UNCHANGED <<events, completion, pc, got>>
        BY <1>4 DEF BumpRevision, NotifyWaiters, RunTaskPanics, vars
    <2>2. status' = status
        BY <2>1 DEF ConsumerStatus
    <2> QED BY <2>1, <2>2 DEF Log!vars
<1>5. ASSUME NEW c \in Consumers, Advance(c) \/ Drop(c)
      PROVE  Log!Deliver(c) \/ Log!Finish(c) \/ Log!Leave(c) \/ UNCHANGED Log!vars
    <2>1. CASE EventAt(c)
        <3>1. status[c] = "reading" /\ status' = status
            BY <2>1 DEF EventAt, Go, ConsumerStatus, ConsumerSteps
        <3> QED BY <2>1, <3>1 DEF EventAt, Log!Deliver, Log!vars
    <2>2. CASE CheckCompletion(c)
        <3>1. CASE completion # NoResult
            <4>1. /\ status[c] = "reading"
                  /\ status' = [status EXCEPT ![c] = "finished"]
                BY <2>2, <3>1 DEF CheckCompletion, Go, ConsumerStatus
            <4> QED BY <2>2, <3>1, <4>1 DEF CheckCompletion, Log!Finish
        <3>2. CASE completion = NoResult
            <4>1. status' = status
                BY <2>2, <3>2 DEF CheckCompletion, Go, ConsumerStatus
            <4> QED BY <2>2, <4>1 DEF CheckCompletion, Log!vars
        <3> QED BY <3>1, <3>2
    <2>3. CASE LoadRevision(c) \/ Register(c) \/ CompareRevision(c) \/ Resume(c)
        <3>1. UNCHANGED <<events, completion, got>>
            BY <2>3 DEF LoadRevision, Register, CompareRevision, Resume
        <3>2. status' = status
            BY <2>3 DEF LoadRevision, Register, CompareRevision, Resume, Go,
                        LoopHead, ConsumerStatus
        <3> QED BY <3>1, <3>2 DEF Log!vars
    <2>4. CASE Drop(c)
        <3>1. /\ status[c] = "reading"
              /\ status' = [status EXCEPT ![c] = "left"]
            BY <2>4 DEF Drop, Go, ConsumerStatus
        <3> QED BY <2>4, <3>1 DEF Drop, Log!Leave
    <2> QED BY <1>5, <2>1, <2>2, <2>3, <2>4 DEF Advance
<1> QED
    BY <1>1, <1>2, <1>3, <1>4, <1>5 DEF Next, Writer, Log!Next

(* The handle keeps the promise of EventLog: every step of its lock-level  *)
(* protocol is a step of the log or changes nothing a consumer can see.    *)
THEOREM Refinement == Safe => ImplementsEventLog
BY InitLog, StepLog, Invariance, PTL DEF Safe, ImplementsEventLog
=============================================================================
