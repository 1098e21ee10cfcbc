------------------------------- MODULE MCLive -------------------------------
(***************************************************************************)
(* The components that serve several tasks at a time, checked side by      *)
(* side: a realtime session, a voice pipeline, one MCP server and the      *)
(* tracing of runs.  They share no state, so a behaviour is about one of   *)
(* them, chosen at the start, and the others stay as they are.  It is      *)
(* about the settings of a realtime session, or about its streams; about   *)
(* the turns of a pipeline, or about who listens to the first of them.     *)
(***************************************************************************)
EXTENDS RealtimeSession, VoicePipeline, MCPServer, Tracing, TLC

VARIABLE subject

liveVars == <<subject, realtimeVars, voiceVars, serverVars, tracingVars>>

LiveInit ==
    /\ subject \in {"settings", "streams", "turns", "listeners", "server",
                    "tracing"}
    /\ RealtimeInit
    /\ VoiceInit
    /\ MCPServerInit
    /\ TracingInit

(* Three calls without a stream, of which two may overlap in twos; with a  *)
(* stream two calls, and settings play no part.                            *)
Settings ==
    /\ subject = "settings"
    /\ RealtimeNext
    /\ UNCHANGED rtStreams
    /\ overlapped' => made' <= 2

Streams ==
    /\ subject = "streams"
    /\ RealtimeNext
    /\ ~session'.settings.there
    /\ \A c \in Callers : ~rtCalls'[c].given.there
    /\ made' <= 2

(* Three turns, of which the first two may overlap; or one with listeners. *)
Turns ==
    /\ subject = "turns"
    /\ VoiceNext
    /\ UNCHANGED listeners
    /\ crossed' => \A t \in VoiceTurns : t > 2 => pipes'[t] = "none"

Listeners ==
    /\ subject = "listeners"
    /\ VoiceNext
    /\ \A t \in VoiceTurns : t > 1 => pipes'[t] = "none"

LiveNext ==
    /\ subject' = subject
    /\ \/ (Settings \/ Streams) /\ UNCHANGED <<voiceVars, serverVars, tracingVars>>
       \/ (Turns \/ Listeners) /\ UNCHANGED <<realtimeVars, serverVars, tracingVars>>
       \/ /\ subject = "server"
          /\ MCPServerNext
          /\ UNCHANGED <<realtimeVars, voiceVars, tracingVars>>
       \/ /\ subject = "tracing"
          /\ TracingNext
          /\ UNCHANGED <<realtimeVars, voiceVars, serverVars>>

LiveSpec == LiveInit /\ [][LiveNext]_liveVars

(* The callers, users and threads are one set, and so are the agents and   *)
(* the runs: no component tells its own from each other.                   *)
Alike == Permutations(Callers) \cup Permutations(RealtimeAgents)

(* Each component's variables keep their types.                            *)
LiveTypeOK ==
    /\ RealtimeTypeOK
    /\ VoiceTypeOK
    /\ MCPServerTypeOK
    /\ TracingTypeOK

(* Nobody who follows a realtime session or a turn of a voice pipeline is  *)
(* forgotten, asleep with something left for them, but for the known gap   *)
(* between a look and the load of the revision, and the events of a close  *)
(* that are still to come or were lost with the call.                      *)
ReadersAreTold ==
    /\ StreamsAreTold
    /\ ListenersAreTold
=============================================================================
