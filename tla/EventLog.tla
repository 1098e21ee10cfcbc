------------------------------ MODULE EventLog ------------------------------
(***************************************************************************)
(* What a live run handle promises its consumers, with the locks, the      *)
(* revision counter and the wake-ups of LiveStream left out: one log that  *)
(* only grows until the run's result is published, one result that is      *)
(* published once and after the last event, and consumers that each read   *)
(* the log from its start, one event at a time and in order, and that stop *)
(* by themselves only when there is a result.                              *)
(***************************************************************************)
EXTENDS Naturals, Sequences

CONSTANTS Items,      \* what a run may report before it ends
          Outcomes,   \* the events that end a run, one for each result
          Consumers,
          NoResult

VARIABLES log, result, read, status

vars == <<log, result, read, status>>

Init ==
    /\ log = << >>
    /\ result = NoResult
    /\ read = [c \in Consumers |-> << >>]
    /\ status = [c \in Consumers |-> "reading"]

(* The run has said how it ended; only its result is still to come.        *)
Closing == log # << >> /\ log[Len(log)] \in Outcomes

Report(e) ==
    /\ result = NoResult
    /\ ~Closing
    /\ log' = Append(log, e)
    /\ UNCHANGED <<result, read, status>>

Publish ==
    /\ result = NoResult
    /\ Closing
    /\ result' = log[Len(log)]
    /\ UNCHANGED <<log, read, status>>

Deliver(c) ==
    /\ status[c] = "reading"
    /\ Len(read[c]) < Len(log)
    /\ read' = [read EXCEPT ![c] = Append(@, log[Len(@) + 1])]
    /\ UNCHANGED <<log, result, status>>

Finish(c) ==
    /\ status[c] = "reading"
    /\ result # NoResult
    /\ status' = [status EXCEPT ![c] = "finished"]
    /\ UNCHANGED <<log, result, read>>

Leave(c) ==
    /\ status[c] = "reading"
    /\ status' = [status EXCEPT ![c] = "left"]
    /\ UNCHANGED <<log, result, read>>

Next ==
    \/ \E e \in Items \cup Outcomes : Report(e)
    \/ Publish
    \/ \E c \in Consumers : Deliver(c) \/ Finish(c) \/ Leave(c)

Spec == Init /\ [][Next]_vars
=============================================================================
