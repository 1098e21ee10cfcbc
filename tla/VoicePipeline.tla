--------------------------- MODULE VoicePipeline ---------------------------
(***************************************************************************)
(* Turns of a voice pipeline (agents-voice) over one                       *)
(* SingleAgentVoiceWorkflow.  A turn is two tasks: the pipeline's, which   *)
(* records events and speaks the text it hears, and the workflow's, which  *)
(* runs the agent on the history of the earlier turns, hands the text on   *)
(* through a channel, and keeps the new history when the run has ended.    *)
(* The caller may start a turn while another one is still going on.        *)
(*                                                                         *)
(* on_start of this workflow yields nothing, and the run of the agent      *)
(* (stream_text_from) is some texts and an end: LiveStream is about that.  *)
(***************************************************************************)
EXTENDS LiveLog, Sequences

CONSTANTS MaxVoiceTurns,  \* bound: turns
          MaxTexts,       \* bound: texts of one run
          VoiceAgents,
          StreamsAudio    \* VoicePipelineConfig.stream_audio

ASSUME VoiceAssumption ==
    /\ MaxVoiceTurns \in Nat \ {0} /\ MaxTexts \in Nat
    /\ VoiceAgents # {} /\ StreamsAudio \in BOOLEAN

VoiceTurns == 1..MaxVoiceTurns

VARIABLES
    pipes,     \* the pipeline's task of each turn
    logs,      \* its recorder: how many events, the completion
    flows,     \* the workflow's task
    channel,   \* the texts on their way, and who has dropped its end
    history,   \* WorkflowState of the workflow
    speaker,
    listeners, \* a stream and a waiter on the first turn
    crossed    \* history: two workflow tasks were running at a time

voiceVars == <<pipes, logs, flows, channel, history, speaker, listeners, crossed>>

PipePlaces == {"none", "opening", "listening", "speaking", "closing", "failing",
               "over"}
FlowPlaces == {"none", "begin", "running", "over"}
Kinds == {"stream", "waiter"}

(* What a turn says: the user's item, and the items of its run.            *)
HistoryItems == [turn : VoiceTurns, by : {"user", "agent"}]
MaxLog == 2 * MaxTexts + 4

(* The record of the first turn, as its listeners follow it.               *)
LogDone == logs[1].result # "none"
(* Mutant: the completion does not count as a change.                      *)
EventsRecorded == logs[1].len

LogRevision == logs[1].len + IF LogDone THEN 1 ELSE 0

VoiceTypeOK ==
    /\ pipes \in [VoiceTurns -> PipePlaces]
    /\ logs \in [VoiceTurns -> [len : 0..MaxLog, result : {"none", "ok", "error"}]]
    /\ flows \in [VoiceTurns -> [at : FlowPlaces, given : Seq(HistoryItems),
                                 agent : VoiceAgents, said : 0..MaxTexts]]
    /\ channel \in [VoiceTurns -> [texts : Seq({"text", "error"}),
                                   sender : BOOLEAN, receiver : BOOLEAN]]
    /\ history \in Seq(HistoryItems)
    /\ speaker \in VoiceAgents
    /\ listeners \in [Kinds -> Readers(logs[1].len, LogRevision)]
    /\ crossed \in BOOLEAN

FirstSpeaker == CHOOSE a \in VoiceAgents : TRUE

VoiceInit ==
    /\ pipes = [t \in VoiceTurns |-> "none"]
    /\ logs = [t \in VoiceTurns |-> [len |-> 0, result |-> "none"]]
    /\ flows = [t \in VoiceTurns |-> [at |-> "none", given |-> <<>>,
                                      agent |-> FirstSpeaker, said |-> 0]]
    /\ channel = [t \in VoiceTurns |-> [texts |-> <<>>, sender |-> TRUE,
                                        receiver |-> TRUE]]
    /\ history = <<>>
    /\ speaker = FirstSpeaker
    /\ listeners = [k \in Kinds |-> NewReader(k = "waiter")]
    /\ crossed = FALSE

PipeAt(t, place) == pipes[t] = place
PipeGoes(t, place) == pipes' = [pipes EXCEPT ![t] = place]
Record(t) == logs' = [logs EXCEPT ![t].len = @ + 1]
FlowAt(t, place) == flows[t].at = place
FlowGoes(t, place) == flows' = [flows EXCEPT ![t].at = place]

-----------------------------------------------------------------------------
(* The pipeline's task.                                                    *)

(* run, run_streamed_audio_input: the input was transcribed.  A failure of *)
(* that is returned to the caller, and there is no turn.                   *)
StartTurn(t) ==
    /\ PipeAt(t, "none")
    /\ \A u \in VoiceTurns : u < t => ~PipeAt(u, "none")
    /\ PipeGoes(t, "opening")
    /\ UNCHANGED <<logs, flows, channel, history, speaker, listeners, crossed>>

(* started, session_started.                                               *)
RecordOpening(t) ==
    /\ PipeAt(t, "opening")
    /\ logs[t].len < 2
    /\ Record(t)
    /\ UNCHANGED <<pipes, flows, channel, history, speaker, listeners, crossed>>

(* workflow.run(transcription).                                            *)
RunWorkflow(t) ==
    /\ PipeAt(t, "opening")
    /\ logs[t].len = 2
    /\ PipeGoes(t, "listening")
    /\ FlowGoes(t, "begin")
    /\ crossed' = (crossed \/ \E u \in VoiceTurns : flows[u].at \in {"begin", "running"})
    /\ UNCHANGED <<logs, channel, history, speaker, listeners>>

(* The first failure ends the block: the receiver is dropped with it.      *)
Fails(t) ==
    /\ PipeGoes(t, "failing")
    /\ channel' = [channel EXCEPT ![t].texts = <<>>, ![t].receiver = FALSE]

(* synthesize_chunk: the transcript, and then the audio.                   *)
HearText(t) ==
    /\ PipeAt(t, "listening")
    /\ channel[t].texts # <<>>
    /\ IF Head(channel[t].texts) = "error"
       THEN Fails(t) /\ UNCHANGED logs
       ELSE /\ Record(t)
            /\ channel' = [channel EXCEPT ![t].texts = Tail(@)]
            /\ PipeGoes(t, IF StreamsAudio THEN "speaking" ELSE "listening")
    /\ UNCHANGED <<flows, history, speaker, listeners, crossed>>

Speak(t) ==
    /\ PipeAt(t, "speaking")
    /\ Record(t)
    /\ PipeGoes(t, "listening")
    /\ UNCHANGED <<flows, channel, history, speaker, listeners, crossed>>

SpeakFails(t) ==
    /\ PipeAt(t, "speaking")
    /\ Fails(t)
    /\ UNCHANGED <<logs, flows, history, speaker, listeners, crossed>>

(* The channel is empty and its sender gone: completed, session_ended, and *)
(* the result, which is a copy of what is recorded.                        *)
HearEnd(t) ==
    /\ PipeAt(t, "listening")
    /\ channel[t].texts = <<>> /\ ~channel[t].sender
    /\ Record(t)
    /\ PipeGoes(t, "closing")
    /\ UNCHANGED <<flows, channel, history, speaker, listeners, crossed>>

RecordEnd(t) ==
    /\ PipeAt(t, "closing")
    /\ Record(t)
    /\ PipeGoes(t, "over")
    /\ UNCHANGED <<flows, channel, history, speaker, listeners, crossed>>

RecordError(t) ==
    /\ PipeAt(t, "failing")
    /\ Record(t)
    /\ PipeGoes(t, "over")
    /\ UNCHANGED <<flows, channel, history, speaker, listeners, crossed>>

(* complete or fail.                                                       *)
SetResult(t) ==
    /\ PipeAt(t, "over")
    /\ logs[t].result = "none"
    /\ logs' = [logs EXCEPT
           ![t].result = IF channel[t].receiver THEN "ok" ELSE "error"]
    /\ UNCHANGED <<pipes, flows, channel, history, speaker, listeners, crossed>>

-----------------------------------------------------------------------------
(* The workflow's task.                                                    *)

FlowBegins(t) ==
    /\ FlowAt(t, "begin")
    /\ history' = Append(history, [turn |-> t, by |-> "user"])
    /\ flows' = [flows EXCEPT ![t].at = "running", ![t].given = history',
                              ![t].agent = speaker]
    /\ UNCHANGED <<pipes, logs, channel, speaker, listeners, crossed>>

Send(t, text) == [channel EXCEPT ![t].texts = Append(@, text)]

(* A text nobody listens to ends the task, before it has kept anything.    *)
FlowSends(t) ==
    /\ FlowAt(t, "running")
    /\ flows[t].said < MaxTexts
    /\ IF channel[t].receiver
       THEN /\ channel' = Send(t, "text")
            /\ flows' = [flows EXCEPT ![t].said = @ + 1]
       ELSE /\ channel' = [channel EXCEPT ![t].sender = FALSE]
            /\ FlowGoes(t, "over")
    /\ UNCHANGED <<pipes, logs, history, speaker, listeners, crossed>>

(* The run is refused or fails: its error is the last that is sent.        *)
FlowFails(t) ==
    /\ FlowAt(t, "running")
    /\ channel' = [channel EXCEPT
           ![t].sender = FALSE,
           ![t].texts = IF channel[t].receiver THEN Append(@, "error") ELSE @]
    /\ FlowGoes(t, "over")
    /\ UNCHANGED <<pipes, logs, history, speaker, listeners, crossed>>

(* Mutant: the items of the run are added to the history as it is now, and *)
(* the ones it was given with them.                                        *)
AddedToHistory(t) ==
    history \o flows[t].given
        \o [k \in 1..flows[t].said |-> [turn |-> t, by |-> "agent"]]

(* to_input_list of the run: what it was given, and what it made.          *)
InputList(t) ==
    flows[t].given
        \o [k \in 1..flows[t].said |-> [turn |-> t, by |-> "agent"]]

FlowKeeps(t) ==
    /\ FlowAt(t, "running")
    /\ history' = InputList(t)
    /\ speaker' \in VoiceAgents
    /\ channel' = [channel EXCEPT ![t].sender = FALSE]
    /\ FlowGoes(t, "over")
    /\ UNCHANGED <<pipes, logs, listeners, crossed>>

-----------------------------------------------------------------------------
(* stream_events and wait_for_completion of the first turn's result.       *)

ListenerReads(k) ==
    /\ ~PipeAt(1, "none")
    /\ \E r \in Reads(listeners[k], logs[1].len, LogDone, LogRevision) :
           listeners' = [listeners EXCEPT ![k] = r]
    /\ UNCHANGED <<pipes, logs, flows, channel, history, speaker, crossed>>

VoiceNext ==
    \/ \E t \in VoiceTurns :
        \/ StartTurn(t) \/ RecordOpening(t) \/ RunWorkflow(t)
        \/ HearText(t) \/ Speak(t) \/ SpeakFails(t)
        \/ HearEnd(t) \/ RecordEnd(t) \/ RecordError(t) \/ SetResult(t)
        \/ FlowBegins(t) \/ FlowSends(t) \/ FlowFails(t) \/ FlowKeeps(t)
    \/ \E k \in Kinds : ListenerReads(k)

VoiceSpec == VoiceInit /\ [][VoiceNext]_voiceVars

-----------------------------------------------------------------------------
(* Properties.                                                             *)

Said(t) ==
    <<[turn |-> t, by |-> "user"]>>
        \o [k \in 1..flows[t].said |-> [turn |-> t, by |-> "agent"]]

(* From some place of the history on there is what the turn said, and      *)
(* nothing of that turn anywhere else.                                     *)
IsRemembered(t) ==
    \E before \in 0..Len(history) :
        /\ \A k \in DOMAIN Said(t) :
              before + k <= Len(history) /\ history[before + k] = Said(t)[k]
        /\ \A j \in DOMAIN history :
              history[j].turn = t => j - before \in DOMAIN Said(t)

(* A turn that was heard to its end is remembered, once, with all it said: *)
(* whatever failed before and after it, unless the caller started a turn   *)
(* while the workflow of another one was still at work.                    *)
HeardTurnsAreRemembered ==
    ~crossed => \A t \in VoiceTurns : logs[t].result = "ok" => IsRemembered(t)

(* Neither a stream nor a waiter sleeps through an event or the result of  *)
(* a turn, unless it came between its look and its load of the revision.   *)
ListenersAreTold ==
    \A k \in Kinds :
        Forgotten(listeners[k], logs[1].len, LogDone, LogRevision)
            => listeners[k].late
=============================================================================
