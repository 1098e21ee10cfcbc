-------------------------- MODULE RealtimeSession --------------------------
(***************************************************************************)
(* RealtimeSession (agents-realtime): one session, cloned among callers    *)
(* whose calls interleave at every lock, the websocket model behind it,    *)
(* and the streams that follow its events.                                 *)
(*                                                                         *)
(* The model never fails and never sends audio of its own, so the playback *)
(* state stays as it is and is left out.  Of the settings there is one     *)
(* slot, of the input or of the output kind: voice, speed and the output   *)
(* format are of the one, formats, transcription, noise reduction and turn *)
(* detection of the input of the other.                                    *)
(***************************************************************************)
EXTENDS LiveLog, Sequences

CONSTANTS Callers, RealtimeAgents, RealtimeStreams,
          Values,     \* what a setting may be set to
          MaxCalls    \* bound: calls made on the session

ASSUME RealtimeBoundAssumption == MaxCalls \in Nat

VARIABLES
    slotKind,    \* the setting's kind; "none" before there is a session
    session,     \* RealtimeSessionState
    driver,      \* the model: connected, applied_settings, and the setting
                 \* as all the session payloads it made up leave it
    rtEvents,    \* state.events; each push raises the revision by one
    rtCalls,     \* what each caller is doing
    made,        \* calls made
    rtStreams,
    overlapped,  \* history: two calls were in progress at a time,
    broken       \*          a caller dropped a call

realtimeVars == <<slotKind, session, driver, rtEvents, rtCalls, made,
                  rtStreams, overlapped, broken>>

NoAgent == "none"
NoValue == 0
AgentOrNone == RealtimeAgents \cup {NoAgent}

(* Option<RealtimeSessionModelSettings>: a slot has a flat field, a nested *)
(* one (under audio) and a marker to clear each of them.                   *)
Slots == [there : BOOLEAN, flat : Values \cup {NoValue},
          nested : Values \cup {NoValue}, clearFlat : BOOLEAN,
          clearNested : BOOLEAN]
NoSettings == [there |-> FALSE, flat |-> NoValue, nested |-> NoValue,
               clearFlat |-> FALSE, clearNested |-> FALSE]
EmptySettings == [NoSettings EXCEPT !.there = TRUE]

(* The settings an agent may come with.                                    *)
Updates ==
    {NoSettings, EmptySettings, [EmptySettings EXCEPT !.clearFlat = TRUE],
     [EmptySettings EXCEPT !.clearNested = TRUE]}
        \cup {[EmptySettings EXCEPT !.flat = v] : v \in Values}
        \cup {[EmptySettings EXCEPT !.nested = v] : v \in Values}

Ev(type, agent) == [type |-> type, agent |-> agent]
EventTypes == {"start", "end", "updated", "closed", "other"}
RtEvents == [type : EventTypes, agent : AgentOrNone]
CallPlaces == {"away", "check", "connect", "mark", "drive", "active", "settings",
               "update", "write", "disconnect", "leaving", "close", "push"}
RtCallRecords ==
    [op : {"none", "connect", "send", "interrupt", "update", "close"},
     at : CallPlaces, agent : AgentOrNone, prev : AgentOrNone, given : Slots,
     answers : 0..2, todo : Seq(RtEvents)]

RealtimeTypeOK ==
    /\ slotKind \in {"none", "input", "output"}
    /\ session \in [connected : BOOLEAN, closed : BOOLEAN,
                    active : AgentOrNone, settings : Slots]
    /\ driver \in [there : BOOLEAN, connected : BOOLEAN, applied : Slots,
                   shown : Values \cup {NoValue}]
    /\ rtEvents \in Seq(RtEvents)
    /\ rtCalls \in [Callers -> RtCallRecords]
    /\ made \in 0..MaxCalls
    /\ rtStreams \in [RealtimeStreams -> Readers(Len(rtEvents), Len(rtEvents))]
    /\ overlapped \in BOOLEAN /\ broken \in BOOLEAN

NotCalling == [op |-> "none", at |-> "away", agent |-> NoAgent, prev |-> NoAgent,
               given |-> NoSettings, answers |-> 0, todo |-> <<>>]

RealtimeInit ==
    /\ slotKind = "none"
    /\ session = [connected |-> FALSE, closed |-> FALSE, active |-> NoAgent,
                  settings |-> NoSettings]
    /\ driver = [there |-> FALSE, connected |-> FALSE, applied |-> NoSettings,
                 shown |-> NoValue]
    /\ rtEvents = <<>>
    /\ rtCalls = [c \in Callers |-> NotCalling]
    /\ made = 0
    /\ rtStreams = [s \in RealtimeStreams |-> NewReader(FALSE)]
    /\ overlapped = FALSE /\ broken = FALSE

-----------------------------------------------------------------------------
(* Settings.                                                               *)

OrElse(v, w) == IF v # NoValue THEN v ELSE w

(* merge: a flat setting of the output kind is also written to the nested  *)
(* field, or clears it; the input kind has no such rule.                   *)
MergeNested(cur, upd) ==
    LET merged == IF upd.clearNested THEN NoValue ELSE OrElse(upd.nested, cur.nested)
    IN  CASE slotKind = "output" /\ upd.clearFlat -> [v |-> NoValue, c |-> TRUE]
          [] slotKind = "output" /\ ~upd.clearFlat /\ upd.flat # NoValue ->
                 [v |-> upd.flat, c |-> FALSE]
          [] OTHER -> [v |-> merged, c |-> upd.clearNested]

Merge(cur, upd) ==
    LET nested == MergeNested(cur, upd)
    IN  [there |-> TRUE,
         flat |-> IF upd.clearFlat THEN NoValue ELSE OrElse(upd.flat, cur.flat),
         nested |-> nested.v, clearFlat |-> upd.clearFlat,
         clearNested |-> nested.c]

(* normalize_effective: the nested field first, and both the same.         *)
Normal(slot) ==
    IF slot.clearFlat \/ slot.clearNested
    THEN [EmptySettings EXCEPT !.clearFlat = TRUE, !.clearNested = TRUE]
    ELSE LET effective == OrElse(slot.nested, slot.flat)
         IN  [slot EXCEPT !.flat = effective, !.nested = effective]

WithoutMarkers(slot) == [slot EXCEPT !.clearFlat = FALSE, !.clearNested = FALSE]

(* Mutant: the merged settings are not normalized again.                   *)
MergedOnly(cur, upd) ==
    CASE cur.there /\ upd.there -> Merge(cur, upd)
      [] ~cur.there /\ upd.there -> Normal(upd)
      [] OTHER -> cur

(* What update_agent makes of the session's settings and the agent's.      *)
Updated(cur, upd) ==
    CASE cur.there /\ upd.there -> Normal(Merge(cur, upd))
      [] ~cur.there /\ upd.there -> Normal(upd)
      [] OTHER -> cur

(* update_session of the model, and the payload it makes up: a set with a  *)
(* value, with NoValue for a null, or with nothing when the setting is not *)
(* mentioned.  A setting without a field of its own is never one here,     *)
(* which the code would leave out as well.                                 *)
Settled(cur, settings) ==
    Normal(IF cur.there THEN Merge(cur, settings) ELSE settings)
Applied(cur, settings) == WithoutMarkers(Settled(cur, settings))
SessionPayload(settings) ==
    LET slot == Normal(settings)
    IN IF slot.clearFlat \/ slot.clearNested THEN {NoValue}
       ELSE {OrElse(slot.nested, slot.flat)} \ {NoValue}
ShownBy(payload, before) == IF payload = {} THEN before ELSE CHOOSE v \in payload : TRUE
UpdatedModel(model, settings) ==
    [model EXCEPT !.applied = Applied(@, settings),
                  !.shown = ShownBy(SessionPayload(Settled(model.applied, settings)), @)]

-----------------------------------------------------------------------------
(* A session: RealtimeRunner::run, which keeps it to itself until it is    *)
(* connected and its agent's settings are sent, or a new one without a     *)
(* model.                                                                  *)

RunSession ==
    /\ slotKind = "none"
    /\ slotKind' \in {"input", "output"}
    /\ \E a \in RealtimeAgents, upd \in Updates :
        LET settings == Updated(NoSettings, upd)
        IN  /\ session' = [connected |-> TRUE, closed |-> FALSE, active |-> a,
                           settings |-> WithoutMarkers(settings)]
            /\ driver' = LET model == [there |-> TRUE, connected |-> TRUE,
                                       applied |-> NoSettings, shown |-> NoValue]
                          IN IF upd.there THEN UpdatedModel(model, settings) ELSE model
            /\ rtEvents' = IF upd.there
                           THEN <<Ev("start", a), Ev("updated", a)>>
                           ELSE <<Ev("start", a)>>
    /\ UNCHANGED <<rtCalls, made, rtStreams, overlapped, broken>>

NewSession ==
    /\ slotKind = "none"
    /\ slotKind' \in {"input", "output"}
    /\ UNCHANGED <<session, driver, rtEvents, rtCalls, made, rtStreams,
                   overlapped, broken>>

-----------------------------------------------------------------------------
(* Calls.                                                                  *)

Calling(c) == rtCalls[c].op # "none"
CallAt(c, place) == rtCalls[c].at = place
ToPlace(c, place) == rtCalls' = [rtCalls EXCEPT ![c].at = place]

(* The events are pushed one by one; when there is none the call is over.  *)
ThenPush(c, todo) ==
    rtCalls' = [rtCalls EXCEPT
        ![c] = IF todo = <<>> THEN NotCalling
               ELSE [NotCalling EXCEPT !.op = rtCalls[c].op, !.at = "push",
                                       !.todo = todo]]

BeginCall(c, op, at, agent, given, answers) ==
    /\ slotKind # "none"
    /\ ~Calling(c)
    /\ made < MaxCalls
    /\ made' = made + 1
    /\ rtCalls' = [rtCalls EXCEPT
           ![c] = [NotCalling EXCEPT !.op = op, !.at = at, !.agent = agent,
                                     !.given = given, !.answers = answers]]
    /\ overlapped' = (overlapped \/ \E d \in Callers : Calling(d))
    /\ UNCHANGED <<slotKind, session, driver, rtEvents, rtStreams, broken>>

BeginConnect(c) ==
    \E a \in AgentOrNone : BeginCall(c, "connect", "connect", a, NoSettings, 0)
(* send_text is answered by two events of the model, send_audio by one.    *)
BeginSend(c) ==
    \E n \in 1..2 : BeginCall(c, "send", "check", NoAgent, NoSettings, n)
(* The model's interruption, and the session's own.                        *)
BeginInterrupt(c) == BeginCall(c, "interrupt", "drive", NoAgent, NoSettings, 2)
BeginUpdate(c) ==
    \E a \in RealtimeAgents, upd \in Updates :
        BeginCall(c, "update", "active", a, upd, 0)
BeginClose(c) == BeginCall(c, "close", "disconnect", NoAgent, NoSettings, 0)

(* A session that is not connected is connected first, a closed one too.   *)
CheckConnected(c) ==
    /\ CallAt(c, "check")
    /\ ToPlace(c, IF session.connected THEN "drive" ELSE "connect")
    /\ UNCHANGED <<slotKind, session, driver, rtEvents, made, rtStreams,
                   overlapped, broken>>

DriverConnects(c) ==
    /\ CallAt(c, "connect")
    /\ driver' = [driver EXCEPT !.connected = driver.there]
    /\ ToPlace(c, "mark")
    /\ UNCHANGED <<slotKind, session, rtEvents, made, rtStreams, overlapped,
                   broken>>

MarkConnected(c) ==
    /\ CallAt(c, "mark")
    /\ LET a == rtCalls[c].agent
       IN  /\ session' = [session EXCEPT
                  !.connected = TRUE, !.active = IF a # NoAgent THEN a ELSE @]
           /\ IF rtCalls[c].op = "send" THEN ToPlace(c, "drive")
              ELSE ThenPush(c, IF a = NoAgent THEN <<>> ELSE <<Ev("start", a)>>)
    /\ UNCHANGED <<slotKind, driver, rtEvents, made, rtStreams, overlapped,
                   broken>>

(* Without a model the session makes up one event.                         *)
DriverAnswers(c) ==
    /\ CallAt(c, "drive")
    /\ ThenPush(c, [k \in 1..(IF driver.there THEN rtCalls[c].answers ELSE 1) |->
                        Ev("other", NoAgent)])
    /\ UNCHANGED <<slotKind, session, driver, rtEvents, made, rtStreams,
                   overlapped, broken>>

(* update_agent: the previous agent, the settings, the model, both back.   *)
ReadActive(c) ==
    /\ CallAt(c, "active")
    /\ rtCalls' = [rtCalls EXCEPT ![c].prev = session.active, ![c].at = "settings"]
    /\ UNCHANGED <<slotKind, session, driver, rtEvents, made, rtStreams,
                   overlapped, broken>>

ReadSettings(c) ==
    /\ CallAt(c, "settings")
    /\ rtCalls' = [rtCalls EXCEPT ![c].given = Updated(session.settings, @),
                                  ![c].at = "update"]
    /\ UNCHANGED <<slotKind, session, driver, rtEvents, made, rtStreams,
                   overlapped, broken>>

UpdateDriver(c) ==
    /\ CallAt(c, "update")
    /\ driver' = IF rtCalls[c].given.there /\ driver.there
                 THEN UpdatedModel(driver, rtCalls[c].given)
                 ELSE driver
    /\ ToPlace(c, "write")
    /\ UNCHANGED <<slotKind, session, rtEvents, made, rtStreams, overlapped,
                   broken>>

Announced(prev, agent) ==
    (IF prev = agent THEN <<>>
     ELSE (IF prev = NoAgent THEN <<>> ELSE <<Ev("end", prev)>>)
              \o <<Ev("start", agent)>>)
        \o <<Ev("updated", agent)>>

WriteAgent(c) ==
    /\ CallAt(c, "write")
    /\ session' = [session EXCEPT !.active = rtCalls[c].agent,
                                  !.settings = WithoutMarkers(rtCalls[c].given)]
    /\ ThenPush(c, Announced(rtCalls[c].prev, rtCalls[c].agent))
    /\ UNCHANGED <<slotKind, driver, rtEvents, made, rtStreams, overlapped,
                   broken>>

(* close: the model, the agent, the flags, and then the events.            *)
Disconnect(c) ==
    /\ CallAt(c, "disconnect")
    /\ driver' = [driver EXCEPT !.connected = FALSE]
    /\ ToPlace(c, "leaving")
    /\ UNCHANGED <<slotKind, session, rtEvents, made, rtStreams, overlapped,
                   broken>>

ReadLeaving(c) ==
    /\ CallAt(c, "leaving")
    /\ rtCalls' = [rtCalls EXCEPT ![c].prev = session.active, ![c].at = "close"]
    /\ UNCHANGED <<slotKind, session, driver, rtEvents, made, rtStreams,
                   overlapped, broken>>

MarkClosed(c) ==
    /\ CallAt(c, "close")
    /\ session' = [session EXCEPT !.connected = FALSE, !.closed = TRUE]
    /\ LET prev == rtCalls[c].prev
       IN  ThenPush(c, (IF prev = NoAgent THEN <<>> ELSE <<Ev("end", prev)>>)
                           \o <<Ev("closed", NoAgent)>>)
    /\ UNCHANGED <<slotKind, driver, rtEvents, made, rtStreams, overlapped,
                   broken>>

PushNext(c) ==
    /\ CallAt(c, "push")
    /\ rtEvents' = Append(rtEvents, Head(rtCalls[c].todo))
    /\ ThenPush(c, Tail(rtCalls[c].todo))
    /\ UNCHANGED <<slotKind, session, driver, made, rtStreams, overlapped,
                   broken>>

(* The caller drops the future at one of its awaits.                       *)
DropCall(c) ==
    /\ Calling(c)
    /\ rtCalls' = [rtCalls EXCEPT ![c] = NotCalling]
    /\ broken' = TRUE
    /\ UNCHANGED <<slotKind, session, driver, rtEvents, made, rtStreams,
                   overlapped>>

(* stream_events.                                                          *)
StreamReads(s) ==
    /\ \E r \in Reads(rtStreams[s], Len(rtEvents), session.closed, Len(rtEvents)) :
           rtStreams' = [rtStreams EXCEPT ![s] = r]
    /\ UNCHANGED <<slotKind, session, driver, rtEvents, rtCalls, made,
                   overlapped, broken>>

RealtimeNext ==
    \/ RunSession \/ NewSession
    \/ \E c \in Callers :
        \/ BeginConnect(c) \/ BeginSend(c) \/ BeginInterrupt(c)
        \/ BeginUpdate(c) \/ BeginClose(c)
        \/ CheckConnected(c) \/ DriverConnects(c) \/ MarkConnected(c)
        \/ DriverAnswers(c)
        \/ ReadActive(c) \/ ReadSettings(c) \/ UpdateDriver(c) \/ WriteAgent(c)
        \/ Disconnect(c) \/ ReadLeaving(c) \/ MarkClosed(c)
        \/ PushNext(c) \/ DropCall(c)
    \/ \E s \in RealtimeStreams : StreamReads(s)

RealtimeSpec == RealtimeInit /\ [][RealtimeNext]_realtimeVars

-----------------------------------------------------------------------------
(* Properties.                                                             *)

Quiet == slotKind # "none" /\ \A c \in Callers : ~Calling(c)

(* The agent whose start is the last one among these events.               *)
StartedLast(events, a) ==
    \E i \in 1..Len(events) :
        /\ events[i] = Ev("start", a)
        /\ \A j \in 1..Len(events) : j > i => events[j].type # "start"

(* Between calls that neither overlapped nor were dropped the session and  *)
(* the model agree, through any sequence of updates, clears, closes and    *)
(* reconnections: on being connected and on every setting, which all the   *)
(* payloads together tell as well; and the last agent that was announced   *)
(* is the one that is active.                                              *)
DriverFollowsSession ==
    Quiet /\ ~overlapped /\ ~broken =>
        /\ driver.there => /\ driver.connected = session.connected
                           /\ driver.applied = session.settings
                           /\ driver.shown = driver.applied.nested
        /\ session.active # NoAgent => StartedLast(rtEvents, session.active)

(* A stream sleeps through no event: one that it has not yielded came      *)
(* between its look and its load of the revision.  Nor does it sleep on a  *)
(* session that is closed, unless the same is true of the close, or its    *)
(* events are still to come, or somebody dropped the call they were of.    *)
StreamsAreTold ==
    \A s \in RealtimeStreams :
        Forgotten(rtStreams[s], Len(rtEvents), session.closed, Len(rtEvents))
        /\ ~rtStreams[s].late =>
            /\ rtStreams[s].next > Len(rtEvents)
            /\ \/ \E c \in Callers : rtCalls[c].op = "close" /\ CallAt(c, "push")
               \/ broken
=============================================================================
