------------------------------ MODULE Tracing ------------------------------
(***************************************************************************)
(* The traces and spans of runs (agents-core, tracing/).  A run makes its  *)
(* trace the current one of the thread it is on, and each of its spans     *)
(* takes its trace, its parent and whether it is reported at all from what *)
(* is current on the thread it is on by then.  At every await the task of  *)
(* a run may go on on another thread, and other runs on its own: those it  *)
(* starts itself, as tools, among them.                                    *)
(*                                                                         *)
(* A run has one span open at a time.  What a span says (its name, data,   *)
(* metadata and times) is left out.                                        *)
(***************************************************************************)
CONSTANTS Threads, TracedRuns

VARIABLES
    off,       \* DefaultTraceProvider.disabled
    current,   \* CURRENT_TRACE and CURRENT_SPAN of each thread
    traced,    \* the runs
    reported   \* the span that the processors were last told of

tracingVars == <<off, current, traced, reported>>

(* A trace stands for its run; Fresh is an id made up for one span.        *)
NoRun == "none"
Fresh == "fresh"
ASSUME RunsAssumption == NoRun \notin TracedRuns
NoThread == "none"
RunOrNone == TracedRuns \cup {NoRun}
Scopes == [trace : RunOrNone, traceOff : BOOLEAN,
           span : RunOrNone, spanOff : BOOLEAN]
TracedStates ==
    [phase : {"unborn", "live", "over"}, thread : Threads \cup {NoThread}, off : BOOLEAN,
     span : {"closed", "open", "silent"}, alone : BOOLEAN]
ReportedSpans == [run : RunOrNone, trace : RunOrNone \cup {Fresh}, alone : BOOLEAN]

TracingTypeOK ==
    /\ off \in BOOLEAN
    /\ current \in [Threads -> Scopes]
    /\ traced \in [TracedRuns -> TracedStates]
    /\ reported \in ReportedSpans

NothingCurrent == [trace |-> NoRun, traceOff |-> FALSE,
                   span |-> NoRun, spanOff |-> FALSE]

TracingInit ==
    /\ off = FALSE
    /\ current = [th \in Threads |-> NothingCurrent]
    /\ traced = [r \in TracedRuns |->
                    [phase |-> "unborn", thread |-> NoThread,
                     off |-> FALSE, span |-> "closed",
                     alone |-> TRUE]]
    /\ reported = [run |-> NoRun, trace |-> NoRun, alone |-> FALSE]

Running(r) == traced[r].phase = "live"

(* Run r takes a step on a thread and becomes "to": it has been alone as   *)
(* long as it stayed on one thread where no other run took a step.         *)
Steps(r, th, to) ==
    traced' = [q \in TracedRuns |->
        IF q = r
        THEN [to EXCEPT !.thread = th,
                        !.alone = @ /\ (~Running(r) \/ traced[r].thread = th)]
        ELSE IF Running(q) /\ traced[q].thread = th
             THEN [traced[q] EXCEPT !.alone = FALSE] ELSE traced[q]]

(* set_tracing_disabled.                                                   *)
SetDisabled ==
    /\ off' = ~off
    /\ UNCHANGED <<current, traced, reported>>

(* Mutant: the trace is started and not made the current one.              *)
StartTraceOnly(r, th) ==
    /\ traced[r].phase = "unborn"
    /\ \E disabled \in BOOLEAN :
        Steps(r, th, [traced[r] EXCEPT !.phase = "live", !.off = disabled \/ off])
    /\ UNCHANGED <<off, current, reported>>

(* TraceCtxManager::with_options.                                          *)
StartTrace(r, th) ==
    /\ traced[r].phase = "unborn"
    /\ \E disabled \in BOOLEAN :
        /\ Steps(r, th, [traced[r] EXCEPT !.phase = "live", !.off = disabled \/ off])
        /\ current' = [current EXCEPT ![th].trace = r,
                                      ![th].traceOff = disabled \/ off]
    /\ UNCHANGED <<off, reported>>

(* create_span without an explicit trace or parent, and start_span.        *)
StartSpan(r, th) ==
    LET scope == current[th]
        silent == off \/ scope.traceOff \/ scope.spanOff
        named == IF scope.trace = NoRun THEN Fresh ELSE scope.trace
    IN  /\ Running(r)
        /\ traced[r].span = "closed"
        /\ Steps(r, th, [traced[r] EXCEPT
               !.span = IF silent THEN "silent" ELSE "open"])
        /\ current' = [current EXCEPT ![th].span = r, ![th].spanOff = silent]
        /\ reported' = IF silent THEN reported
                       ELSE [run |-> r, trace |-> named,
                             alone |-> traced'[r].alone]
        /\ UNCHANGED off

(* finish_span: there is no current span then, whatever there was before.  *)
FinishSpan(r, th) ==
    /\ Running(r)
    /\ traced[r].span # "closed"
    /\ Steps(r, th, [traced[r] EXCEPT !.span = "closed"])
    /\ current' = [current EXCEPT ![th].span = NoRun, ![th].spanOff = FALSE]
    /\ UNCHANGED <<off, reported>>

(* The run returns, fails or is dropped, and its TraceCtxManager with it.  *)
(* A span that is open then (an error returned by ?, a dropped future) is  *)
(* never finished and stays the current one of the thread.                 *)
FinishTrace(r, th) ==
    /\ Running(r)
    /\ Steps(r, th, [traced[r] EXCEPT !.phase = "over", !.span = "closed"])
    /\ current' = [current EXCEPT ![th].trace = NoRun, ![th].traceOff = FALSE]
    /\ UNCHANGED <<off, reported>>

TracingNext ==
    \/ SetDisabled
    \/ \E r \in TracedRuns, th \in Threads :
        \/ StartTrace(r, th) \/ StartSpan(r, th)
        \/ FinishSpan(r, th) \/ FinishTrace(r, th)

TracingSpec == TracingInit /\ [][TracingNext]_tracingVars

-----------------------------------------------------------------------------

(* Whatever runs before it left behind on the thread (traces that ended    *)
(* there, spans that never did), the spans of a run are reported under the *)
(* run's own trace, and not at all when its tracing is disabled: as long   *)
(* as it stays on one thread and no other run, not one that it starts      *)
(* itself either, takes a step there.                                      *)
SpansNameTheirRun ==
    reported.alone =>
        reported.trace = reported.run /\ ~traced[reported.run].off
=============================================================================
