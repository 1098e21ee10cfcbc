----------------------------- MODULE LiveStream -----------------------------
(***************************************************************************)
(* The live run handle of agents-core: LiveRunStreamState, StreamRecorder, *)
(* RunResultStreaming::stream_events and wait_for_completion.              *)
(*                                                                         *)
(* One task runs the agent and records what happens (the writer); any      *)
(* number of streams read the events and any number of tasks wait for the  *)
(* result.  They share an event list and a completion slot, each behind a  *)
(* mutex of its own, an atomic revision and a tokio Notify.  A step of     *)
(* this module is one critical section, one atomic access or one call of   *)
(* the Notify: between two of them another thread of the runtime may run.  *)
(***************************************************************************)
EXTENDS Naturals, Sequences, FiniteSets

CONSTANTS Items,      \* the events a run reports before it ends
          Streams,    \* tasks that poll a stream of stream_events()
          Waiters,    \* tasks inside wait_for_completion()
          MaxItems    \* bound: events reported before the run ends

Consumers == Streams \cup Waiters

(* run_completed or run_failed: the last event names the result that       *)
(* complete() stores next.                                                 *)
Outcomes == {"run_completed", "run_failed"}
NoResult == "none"

ASSUME ConsumersAssumption == Streams \cap Waiters = {}
ASSUME EventsAssumption == Items \cap Outcomes = {} /\ NoResult \notin Outcomes
ASSUME BoundAssumption == MaxItems \in Nat

VARIABLES
    events,      \* Mutex<Vec<StreamEvent>>
    completion,  \* Mutex<Option<Result<RunResult>>>
    revision,    \* AtomicU64
    waiting,     \* consumers whose Notified future was created and not notified
    publishing,  \* what the writer is publishing
    step,        \* and how far: store, then bump the revision, then notify
    pc,          \* where each consumer is in its loop
    seen,        \* the revision each consumer loaded last
    got          \* what each stream has yielded; its index is the length

vars == <<events, completion, revision, waiting, publishing, step, pc, seen, got>>
writerVars == <<events, completion, revision, waiting, publishing, step>>
consumerVars == <<pc, seen, got>>

Publishing == {"items", "outcome", "result", "dead"}
Steps == {"idle", "bump", "notify"}
ConsumerSteps == {"scan", "check", "load", "register", "compare", "parked",
                  "ended", "dropped"}

TypeOK ==
    /\ events \in Seq(Items \cup Outcomes)
    /\ completion \in Outcomes \cup {NoResult}
    /\ revision \in Nat
    /\ waiting \subseteq Consumers
    /\ publishing \in Publishing
    /\ step \in Steps
    /\ pc \in [Consumers -> ConsumerSteps]
    /\ seen \in [Consumers -> Nat]
    /\ got \in [Consumers -> Seq(Items \cup Outcomes)]

(* Each loop starts over here: a stream looks for its next event, a waiter *)
(* for the result.                                                         *)
LoopHead(c) == IF c \in Streams THEN "scan" ELSE "check"

Init ==
    /\ events = << >>
    /\ completion = NoResult
    /\ revision = 0
    /\ waiting = {}
    /\ publishing = "items"
    /\ step = "idle"
    /\ pc = [c \in Consumers |-> LoopHead(c)]
    /\ seen = [c \in Consumers |-> 0]
    /\ got = [c \in Consumers |-> << >>]

-----------------------------------------------------------------------------
(* The writer.  push_event stores under the lock, then bumps, then         *)
(* notifies; complete() pushes the outcome the same way and then does it   *)
(* once more for the completion slot.                                      *)

PushItem(e) ==
    /\ publishing = "items" /\ step = "idle"
    /\ Len(events) < MaxItems
    /\ events' = Append(events, e)
    /\ step' = "bump"
    /\ UNCHANGED <<completion, revision, waiting, publishing, consumerVars>>

(* Mutant: the result is stored before the outcome is recorded.            *)
ResultBeforeOutcome(o) ==
    /\ publishing = "items" /\ step = "idle"
    /\ events' = Append(events, o)
    /\ completion' = o
    /\ publishing' = "outcome"
    /\ step' = "bump"
    /\ UNCHANGED <<revision, waiting, consumerVars>>

PushOutcome(o) ==
    /\ publishing = "items" /\ step = "idle"
    /\ events' = Append(events, o)
    /\ publishing' = "outcome"
    /\ step' = "bump"
    /\ UNCHANGED <<completion, revision, waiting, consumerVars>>

SetCompletion ==
    /\ publishing = "outcome" /\ step = "idle"
    /\ completion' = events[Len(events)]
    /\ publishing' = "result"
    /\ step' = "bump"
    /\ UNCHANGED <<events, revision, waiting, consumerVars>>

BumpRevision ==
    /\ step = "bump"
    /\ revision' = revision + 1
    /\ step' = "notify"
    /\ UNCHANGED <<events, completion, waiting, publishing, consumerVars>>

(* Mutant: notify_one() in place of notify_waiters().                      *)
NotifyOne ==
    /\ step = "notify"
    /\ waiting' = IF waiting = {} THEN {}
                  ELSE waiting \ {CHOOSE c \in waiting : TRUE}
    /\ step' = "idle"
    /\ UNCHANGED <<events, completion, revision, publishing, consumerVars>>

NotifyWaiters ==
    /\ step = "notify"
    /\ waiting' = {}
    /\ step' = "idle"
    /\ UNCHANGED <<events, completion, revision, publishing, consumerVars>>

(* The run is a spawned task whose JoinHandle is thrown away: when a tool  *)
(* or a hook panics nobody calls complete().                               *)
RunTaskPanics ==
    /\ publishing = "items" /\ step = "idle"
    /\ publishing' = "dead"
    /\ UNCHANGED <<events, completion, revision, waiting, step, consumerVars>>

-----------------------------------------------------------------------------
(* The consumers.                                                          *)

Go(c, to) == pc' = [pc EXCEPT ![c] = to]

(* Mutant: the newest event is yielded, not the next one.                  *)
EventAtNewest(s) ==
    /\ pc[s] = "scan"
    /\ IF Len(got[s]) < Len(events)
       THEN /\ got' = [got EXCEPT ![s] = Append(@, events[Len(events)])]
            /\ UNCHANGED pc
       ELSE /\ Go(s, "check")
            /\ UNCHANGED got
    /\ UNCHANGED <<writerVars, seen>>

EventAt(s) ==
    /\ pc[s] = "scan"
    /\ IF Len(got[s]) < Len(events)
       THEN /\ got' = [got EXCEPT ![s] = Append(@, events[Len(@) + 1])]
            /\ UNCHANGED pc
       ELSE /\ Go(s, "check")
            /\ UNCHANGED got
    /\ UNCHANGED <<writerVars, seen>>

CheckCompletion(c) ==
    /\ pc[c] = "check"
    /\ Go(c, IF completion # NoResult THEN "ended" ELSE "load")
    /\ UNCHANGED <<writerVars, seen, got>>

(* Mutant: the snapshot counts from one.                                   *)
LoadPreviousRevision(c) ==
    /\ pc[c] = "load"
    /\ seen' = [seen EXCEPT ![c] = revision - 1]
    /\ Go(c, "register")
    /\ UNCHANGED <<writerVars, got>>

LoadRevision(c) ==
    /\ pc[c] = "load"
    /\ seen' = [seen EXCEPT ![c] = revision]
    /\ Go(c, "register")
    /\ UNCHANGED <<writerVars, got>>

(* Mutant: the future is awaited without a second look at the revision.    *)
RegisterAndPark(c) ==
    /\ pc[c] = "register"
    /\ waiting' = waiting \cup {c}
    /\ Go(c, "parked")
    /\ UNCHANGED <<events, completion, revision, publishing, step, seen, got>>

(* wait_for_change_since: the Notified future is created before the        *)
(* revision is compared, and a notify_waiters() that comes after its       *)
(* creation completes it even when it has not been polled yet.             *)
Register(c) ==
    /\ pc[c] = "register"
    /\ waiting' = waiting \cup {c}
    /\ Go(c, "compare")
    /\ UNCHANGED <<events, completion, revision, publishing, step, seen, got>>

CompareRevision(c) ==
    /\ pc[c] = "compare"
    /\ IF revision # seen[c]
       THEN /\ waiting' = waiting \ {c}
            /\ Go(c, LoopHead(c))
       ELSE /\ Go(c, "parked")
            /\ UNCHANGED waiting
    /\ UNCHANGED <<events, completion, revision, publishing, step, seen, got>>

Resume(c) ==
    /\ pc[c] = "parked"
    /\ c \notin waiting
    /\ Go(c, IF revision # seen[c] THEN LoopHead(c) ELSE "register")
    /\ UNCHANGED <<writerVars, seen, got>>

(* The caller drops the stream or stops waiting (a timeout, a select).     *)
Drop(c) ==
    /\ pc[c] \notin {"ended", "dropped"}
    /\ Go(c, "dropped")
    /\ waiting' = waiting \ {c}
    /\ UNCHANGED <<events, completion, revision, publishing, step, seen, got>>

Writer ==
    \/ \E e \in Items : PushItem(e)
    \/ \E o \in Outcomes : PushOutcome(o)
    \/ SetCompletion
    \/ BumpRevision
    \/ NotifyWaiters
    \/ RunTaskPanics

Advance(c) ==
    \/ EventAt(c)
    \/ CheckCompletion(c)
    \/ LoadRevision(c)
    \/ Register(c)
    \/ CompareRevision(c)
    \/ Resume(c)

Next == Writer \/ \E c \in Consumers : Advance(c) \/ Drop(c)

Safe == Init /\ [][Next]_vars

(* The writer finishes a publication it has begun, and a consumer that is  *)
(* still polled moves on.  Nothing says that a run reports an event or     *)
(* that it ends: the model and the tools take as long as they like.        *)
Fairness ==
    /\ WF_vars(SetCompletion)
    /\ WF_vars(BumpRevision)
    /\ WF_vars(NotifyWaiters)
    /\ \A c \in Consumers : WF_vars(Advance(c))

Spec == Safe /\ Fairness

-----------------------------------------------------------------------------
(* Safety.                                                                 *)

(* A consumer that is parked on a revision that is no longer the current   *)
(* one is about to be woken: the writer that bumped the revision has still *)
(* to notify.  This is what makes wait_for_change_since free of lost       *)
(* wake-ups, and it rests on the order in which both sides work: notified()*)
(* before the comparison, the bump before notify_waiters().                *)
WakeupIsPending ==
    \A c \in Consumers :
        pc[c] = "parked" /\ c \in waiting /\ seen[c] # revision
            => step = "notify"

(* Who finds the result finds the whole log: the completion slot is filled *)
(* only after the outcome event is in the list, agrees with it, and        *)
(* nothing is recorded after that.                                         *)
ResultFollowsLog ==
    completion # NoResult =>
        /\ events # << >>
        /\ events[Len(events)] = completion
        /\ publishing = "result"

(* The handle keeps the promise of EventLog: the log is closed by its      *)
(* outcome, the result is stored once, a stream yields the log from its    *)
(* start, each event once and in order, and ends by itself only when there *)
(* is a result.                                                            *)
ConsumerStatus(c) ==
    IF pc[c] = "ended" THEN "finished"
    ELSE IF pc[c] = "dropped" THEN "left" ELSE "reading"

Log == INSTANCE EventLog WITH
           log    <- events,
           result <- completion,
           read   <- got,
           status <- [c \in Consumers |-> ConsumerStatus(c)]

ImplementsEventLog == Log!Init /\ [][Log!Next]_(Log!vars)

-----------------------------------------------------------------------------
(* Liveness.                                                               *)

(* wait_for_change_since returns once the revision differs from the one    *)
(* its caller loaded.                                                      *)
InsideWait(c) == pc[c] \in {"register", "compare", "parked"}

NoMissedChange ==
    \A c \in Consumers :
        (InsideWait(c) /\ seen[c] # revision) ~> ~InsideWait(c)

(* "wait should observe completed result": who waits for the result of a   *)
(* run that has completed gets it, unless it stops waiting.                *)
CompletedResultIsObserved ==
    \A w \in Waiters :
        completion # NoResult ~> pc[w] \in {"ended", "dropped"}

(* What a stream of a completed run has yielded when it ends is not empty. *)
EndedStreamsAreNotEmpty ==
    \A s \in Streams : pc[s] = "ended" => got[s] # << >>
=============================================================================
