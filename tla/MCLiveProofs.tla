---------------------------- MODULE MCLiveProofs ----------------------------
(***************************************************************************)
(* Theorems about the components that MCLive puts side by side, for any    *)
(* callers, agents, turns, users, threads and bounds: that calls which     *)
(* neither overlap nor are dropped leave a realtime session and its model  *)
(* in agreement, that a voice pipeline remembers the turns that were       *)
(* heard, that the clients of an MCP server are accounted for, under whose *)
(* trace a span is reported; and about all of them, their types, and that  *)
(* nobody who listens is forgotten.                                        *)
(***************************************************************************)
EXTENDS MCLive, SequenceTheorems, TLAPS

-----------------------------------------------------------------------------
(* The realtime session: settings.                                         *)

(* What a session or a model keeps: no markers, both fields the same.      *)
Kept ==
    {slot \in Slots :
        /\ ~slot.clearFlat /\ ~slot.clearNested
        /\ slot.flat = slot.nested
        /\ ~slot.there => slot.flat = NoValue}

(* What update_agent gives to the model: the same, or both markers.        *)
Given ==
    Kept \cup {[EmptySettings EXCEPT !.clearFlat = TRUE, !.clearNested = TRUE]}

(* An update says something of what there was: a value goes only by being  *)
(* replaced or cleared.                                                    *)
Carries(cur, given) ==
    /\ cur.there => given.there
    /\ given \in Kept /\ given.nested = NoValue => cur.nested = NoValue

LEMMA SlotFields ==
    ASSUME NEW slot \in Slots
    PROVE  /\ slot = [there |-> slot.there, flat |-> slot.flat,
                      nested |-> slot.nested, clearFlat |-> slot.clearFlat,
                      clearNested |-> slot.clearNested]
           /\ slot.flat \in Values \cup {NoValue}
           /\ slot.nested \in Values \cup {NoValue}
           /\ slot.there \in BOOLEAN /\ slot.clearFlat \in BOOLEAN
           /\ slot.clearNested \in BOOLEAN
  BY DEF Slots

LEMMA NoSettingsType ==
    /\ NoSettings \in Kept /\ ~NoSettings.there /\ NoSettings.nested = NoValue
    /\ EmptySettings \in Kept /\ EmptySettings.there
    /\ EmptySettings.nested = NoValue
    /\ Kept \subseteq Slots /\ Given \subseteq Slots
  BY DEF NoSettings, EmptySettings, Kept, Given, Slots

LEMMA UpdatesType == Updates \subseteq Slots
<1> SUFFICES ASSUME NEW upd \in Updates
             PROVE  upd \in Slots
  OBVIOUS
<1>1. CASE upd = NoSettings \/ upd = EmptySettings
  BY <1>1, NoSettingsType
<1>2. CASE \/ upd = [EmptySettings EXCEPT !.clearFlat = TRUE]
           \/ upd = [EmptySettings EXCEPT !.clearNested = TRUE]
  BY <1>2, NoSettingsType DEF Slots
<1>3. CASE \/ \E v \in Values : upd = [EmptySettings EXCEPT !.flat = v]
           \/ \E v \in Values : upd = [EmptySettings EXCEPT !.nested = v]
  BY <1>3, NoSettingsType DEF Slots
<1>4. QED
  BY <1>1, <1>2, <1>3 DEF Updates

LEMMA MergeType ==
    ASSUME NEW cur \in Slots, NEW upd \in Slots
    PROVE  /\ Merge(cur, upd) \in Slots /\ Merge(cur, upd).there
           /\ Merge(cur, upd).clearFlat = upd.clearFlat
           /\ Merge(cur, upd).flat = IF upd.clearFlat THEN NoValue
                                     ELSE OrElse(upd.flat, cur.flat)
           /\ Merge(cur, upd).nested = MergeNested(cur, upd).v
           /\ Merge(cur, upd).clearNested = MergeNested(cur, upd).c
<1>1. /\ MergeNested(cur, upd).v \in Values \cup {NoValue}
      /\ MergeNested(cur, upd).c \in BOOLEAN
  BY SlotFields DEF MergeNested, OrElse
<1>2. QED
  BY <1>1, SlotFields DEF Merge, OrElse, Slots

LEMMA NormalType ==
    ASSUME NEW slot \in Slots
    PROVE  IF slot.clearFlat \/ slot.clearNested
           THEN /\ Normal(slot) \in Given \ Kept /\ Normal(slot).there
           ELSE /\ slot.there \/ (slot.flat = NoValue /\ slot.nested = NoValue)
                       => Normal(slot) \in Kept
                /\ Normal(slot).there = slot.there
                /\ Normal(slot).nested = OrElse(slot.nested, slot.flat)
                /\ Normal(slot).flat = OrElse(slot.nested, slot.flat)
                /\ ~Normal(slot).clearFlat /\ ~Normal(slot).clearNested
<1>1. CASE slot.clearFlat \/ slot.clearNested
  BY <1>1 DEF Normal, Given, Kept, EmptySettings, NoSettings
<1>2. CASE ~(slot.clearFlat \/ slot.clearNested)
  <2>1. OrElse(slot.nested, slot.flat) \in Values \cup {NoValue}
    BY SlotFields DEF OrElse
  <2>2. QED
    BY <1>2, <2>1, SlotFields DEF Normal, Kept, Slots, OrElse
<1>3. QED
  BY <1>1, <1>2

(* The settings that update_agent works out.                               *)
LEMMA UpdatedType ==
    ASSUME NEW cur \in Kept, NEW upd \in Slots
    PROVE  Updated(cur, upd) \in Given /\ Carries(cur, Updated(cur, upd))
           /\ (upd.there => Updated(cur, upd).there)
<1>1. cur \in Slots /\ ~cur.clearFlat /\ ~cur.clearNested /\ cur.flat = cur.nested
      /\ (~cur.there => cur.nested = NoValue)
  BY DEF Kept
<1>2. CASE cur.there /\ upd.there
  <2> DEFINE m == Merge(cur, upd)
  <2>1. Updated(cur, upd) = Normal(m)
    BY <1>2 DEF Updated
  <2>2. /\ m \in Slots /\ m.there /\ m.clearFlat = upd.clearFlat
        /\ m.flat = IF upd.clearFlat THEN NoValue ELSE OrElse(upd.flat, cur.flat)
        /\ m.nested = MergeNested(cur, upd).v
        /\ m.clearNested = MergeNested(cur, upd).c
    BY <1>1, MergeType
  <2>3. CASE m.clearFlat \/ m.clearNested
    BY <2>1, <2>2, <2>3, NormalType DEF Carries
  <2>4. CASE ~(m.clearFlat \/ m.clearNested)
    <3>1. OrElse(m.nested, m.flat) = NoValue => cur.nested = NoValue
      BY <1>1, <2>2, <2>4 DEF MergeNested, OrElse
    <3>2. QED
      BY <2>1, <2>2, <2>4, <3>1, NormalType DEF Carries, Given
  <2>5. QED
    BY <2>3, <2>4
<1>3. CASE ~cur.there /\ upd.there
  BY <1>1, <1>3, NormalType DEF Updated, Carries, Given
<1>4. CASE ~upd.there
  BY <1>1, <1>4 DEF Updated, Carries, Given
<1>5. QED
  BY <1>2, <1>3, <1>4

(* The model makes the same of them, merged once more with what it had.    *)
LEMMA GivenIsNormal ==
    ASSUME NEW given \in Given, given.there
    PROVE  /\ Normal(given) = given /\ given \in Slots
           /\ \/ given \in Kept /\ ~given.clearFlat /\ ~given.clearNested
              \/ given \notin Kept /\ given.clearFlat /\ given.clearNested
           /\ given \notin Kept => given.flat = NoValue
           /\ given.flat = given.nested
<1>1. CASE given \in Kept
  <2>1. /\ given \in Slots /\ ~given.clearFlat /\ ~given.clearNested
        /\ given.flat = given.nested
    BY <1>1 DEF Kept
  <2>2. Normal(given) = given
    BY <2>1, SlotFields DEF Normal, OrElse
  <2>3. QED
    BY <1>1, <2>1, <2>2
<1>2. CASE given \notin Kept
  <2>1. given = [EmptySettings EXCEPT !.clearFlat = TRUE, !.clearNested = TRUE]
    BY <1>2 DEF Given
  <2>2. /\ given.clearFlat /\ given.clearNested
        /\ given.flat = NoValue /\ given.nested = NoValue
    BY <2>1 DEF EmptySettings, NoSettings
  <2>3. Normal(given) = given
    BY <2>1, <2>2 DEF Normal
  <2>4. QED
    BY <1>2, <2>2, <2>3, NoSettingsType
<1>3. QED
  BY <1>1, <1>2

LEMMA SettledIsGiven ==
    ASSUME NEW cur \in Kept, NEW given \in Given, given.there, Carries(cur, given)
    PROVE  Settled(cur, given) = given
<1>1. cur \in Slots /\ cur.flat = cur.nested
  BY DEF Kept
<1>2. CASE ~cur.there
  BY <1>2, GivenIsNormal DEF Settled
<1>3. CASE cur.there
  <2> DEFINE m == Merge(cur, given)
  <2>1. /\ m \in Slots /\ m.there /\ m.clearFlat = given.clearFlat
        /\ m.flat = IF given.clearFlat THEN NoValue ELSE OrElse(given.flat, cur.flat)
        /\ m.nested = MergeNested(cur, given).v
        /\ m.clearNested = MergeNested(cur, given).c
    BY <1>1, MergeType, GivenIsNormal
  <2>2. Settled(cur, given) = Normal(m)
    BY <1>3 DEF Settled
  <2>3. CASE given \in Kept
    <3>1. ~given.clearFlat /\ ~given.clearNested /\ given.flat = given.nested
      BY <2>3, GivenIsNormal DEF Kept
    <3>2. given.nested = NoValue => cur.nested = NoValue
      BY <2>3 DEF Carries
    <3>3. m.nested = given.nested /\ ~m.clearNested
      BY <1>1, <2>1, <3>1, <3>2 DEF MergeNested, OrElse
    <3>4. m.flat = given.flat
      BY <1>1, <2>1, <3>1, <3>2 DEF OrElse
    <3>5. m = given
      BY <2>1, <3>1, <3>3, <3>4, SlotFields, GivenIsNormal
    <3>6. QED
      BY <2>2, <3>5, GivenIsNormal
  <2>4. CASE given \notin Kept
    <3>1. given = [EmptySettings EXCEPT !.clearFlat = TRUE, !.clearNested = TRUE]
      BY <2>4 DEF Given
    <3>2. m.clearFlat
      BY <2>1, <2>4, GivenIsNormal
    <3>3. Normal(m) = given
      BY <3>1, <3>2 DEF Normal
    <3>4. QED
      BY <2>2, <3>3
  <2>5. QED
    BY <2>3, <2>4
<1>4. QED
  BY <1>2, <1>3

LEMMA WithoutMarkersType ==
    ASSUME NEW given \in Given
    PROVE  /\ WithoutMarkers(given) \in Kept
           /\ given \in Kept => WithoutMarkers(given) = given
           /\ given \notin Kept => WithoutMarkers(given).nested = NoValue
<1>1. CASE given \in Kept
  <2>1. given \in Slots /\ ~given.clearFlat /\ ~given.clearNested
    BY <1>1 DEF Kept
  <2>2. given.clearFlat = FALSE /\ given.clearNested = FALSE
    BY <2>1 DEF Slots
  <2>3. WithoutMarkers(given) = given
    BY <2>1, <2>2 DEF WithoutMarkers, Slots
  <2>4. QED
    BY <1>1, <2>3
<1>2. CASE given \notin Kept
  <2>1. given = [EmptySettings EXCEPT !.clearFlat = TRUE, !.clearNested = TRUE]
    BY <1>2 DEF Given
  <2>2. WithoutMarkers(given) = [given EXCEPT !.clearFlat = FALSE, !.clearNested = FALSE]
    BY DEF WithoutMarkers
  <2>3. /\ EmptySettings \in Slots /\ EmptySettings.clearFlat = FALSE
        /\ EmptySettings.clearNested = FALSE
    BY NoSettingsType DEF EmptySettings, NoSettings
  <2>4. WithoutMarkers(given) = EmptySettings
    BY <2>1, <2>2, <2>3 DEF Slots
  <2>5. QED
    BY <1>2, <2>4, NoSettingsType
<1>3. QED
  BY <1>1, <1>2

(* A model that has the session's settings has the new ones after the      *)
(* update, and its payloads tell what it has.                              *)
LEMMA ModelFollows ==
    ASSUME NEW model, NEW cur \in Kept, NEW given \in Given, given.there,
           model = [there |-> model.there, connected |-> model.connected,
                    applied |-> model.applied, shown |-> model.shown],
           Carries(cur, given), model.applied = cur, model.shown = cur.nested
    PROVE  /\ UpdatedModel(model, given) =
                  [there |-> model.there, connected |-> model.connected,
                   applied |-> WithoutMarkers(given),
                   shown |-> WithoutMarkers(given).nested]
<1>1. Settled(model.applied, given) = given
  BY SettledIsGiven
<1>2. Applied(model.applied, given) = WithoutMarkers(given)
  BY <1>1 DEF Applied
<1>3. ShownBy(SessionPayload(given), model.shown) = WithoutMarkers(given).nested
  <2>1. Normal(given) = given /\ given.flat = given.nested
    BY GivenIsNormal
  <2>2. CASE given \in Kept /\ given.nested # NoValue
    <3>1. SessionPayload(given) = {given.nested}
      BY <2>1, <2>2, GivenIsNormal DEF SessionPayload, OrElse
    <3>2. QED
      BY <2>2, <3>1, WithoutMarkersType DEF ShownBy
  <2>3. CASE given \in Kept /\ given.nested = NoValue
    <3>1. SessionPayload(given) = {}
      BY <2>1, <2>3, GivenIsNormal DEF SessionPayload, OrElse
    <3>2. QED
      BY <2>3, <3>1, WithoutMarkersType DEF ShownBy, Carries
  <2>4. CASE given \notin Kept
    <3>1. SessionPayload(given) = {NoValue}
      BY <2>1, <2>4, GivenIsNormal DEF SessionPayload
    <3>2. QED
      BY <2>4, <3>1, WithoutMarkersType DEF ShownBy
  <2>5. QED
    BY <2>2, <2>3, <2>4
<1>4. UpdatedModel(model, given) =
          [model EXCEPT !.applied = WithoutMarkers(given),
                        !.shown = WithoutMarkers(given).nested]
  BY <1>1, <1>2, <1>3 DEF UpdatedModel
<1>5. QED
  BY <1>4

(* Whatever a model had before, it keeps settings without markers.         *)
LEMMA SettledType ==
    ASSUME NEW cur \in Kept, NEW given \in Given, given.there
    PROVE  Settled(cur, given) \in Given
<1>1. cur \in Slots /\ given \in Slots
  BY NoSettingsType
<1>2. CASE cur.there
  <2>1. Merge(cur, given) \in Slots /\ Merge(cur, given).there
    BY <1>1, MergeType
  <2>2. QED
    BY <1>2, <2>1, NormalType DEF Settled, Given
<1>3. CASE ~cur.there
  BY <1>1, <1>3, NormalType DEF Settled, Given
<1>4. QED
  BY <1>2, <1>3

LEMMA UpdatedModelType ==
    ASSUME NEW model \in [there : BOOLEAN, connected : BOOLEAN, applied : Kept,
                          shown : Values \cup {NoValue}],
           NEW given, Settled(model.applied, given) \in Given
    PROVE  /\ UpdatedModel(model, given)
                  \in [there : BOOLEAN, connected : BOOLEAN, applied : Kept,
                       shown : Values \cup {NoValue}]
           /\ UpdatedModel(model, given).there = model.there
           /\ UpdatedModel(model, given).connected = model.connected
<1> DEFINE settled == Settled(model.applied, given)
<1>1. WithoutMarkers(settled) \in Kept
  BY WithoutMarkersType
<1>2. ShownBy(SessionPayload(settled), model.shown) \in Values \cup {NoValue}
  <2>1. settled \in Slots
    BY NoSettingsType
  <2>2. Normal(settled) \in Slots
    <3>1. OrElse(settled.nested, settled.flat) \in Values \cup {NoValue}
      BY <2>1, SlotFields DEF OrElse
    <3>2. QED
      BY <2>1, <3>1, SlotFields DEF Normal, Slots, EmptySettings, NoSettings
  <2>3. SessionPayload(settled) \subseteq Values \cup {NoValue}
    BY <2>2, SlotFields DEF SessionPayload, OrElse
  <2>4. QED
    BY <2>3 DEF ShownBy
<1>3. UpdatedModel(model, given) =
          [model EXCEPT !.applied = WithoutMarkers(settled),
                        !.shown = ShownBy(SessionPayload(settled), model.shown)]
  BY DEF UpdatedModel, Applied
<1> HIDE DEF settled
<1>4. QED
  BY <1>1, <1>2, <1>3

LEMMA NotThere ==
    ASSUME NEW slot \in Kept, ~slot.there
    PROVE  slot = NoSettings
  BY DEF Kept, Slots, NoSettings

LEMMA GivenNotThere ==
    ASSUME NEW given \in Given, ~given.there
    PROVE  given \in Kept
  BY DEF Given, EmptySettings, NoSettings

-----------------------------------------------------------------------------
(* Events.                                                                 *)

NoStart(events) == \A i \in 1..Len(events) : events[i].type # "start"

LEMMA StartStays ==
    ASSUME NEW events \in Seq(RtEvents), NEW more \in Seq(RtEvents), NEW a,
           StartedLast(events, a), NoStart(more)
    PROVE  StartedLast(events \o more, a)
<1>1. PICK i \in 1..Len(events) :
          /\ events[i] = Ev("start", a)
          /\ \A j \in 1..Len(events) : j > i => events[j].type # "start"
  BY DEF StartedLast
<1>2. i \in 1..Len(events \o more) /\ (events \o more)[i] = Ev("start", a)
  BY <1>1
<1>3. ASSUME NEW j \in 1..Len(events \o more), j > i
      PROVE  (events \o more)[j].type # "start"
  <2>1. CASE j <= Len(events)
    BY <1>1, <1>3, <2>1
  <2>2. CASE j > Len(events)
    <3>1. j - Len(events) \in 1..Len(more) /\ (events \o more)[j] = more[j - Len(events)]
      BY <2>2
    <3>2. QED
      BY <3>1 DEF NoStart
  <2>3. QED
    BY <2>1, <2>2
<1>4. QED
  BY <1>2, <1>3 DEF StartedLast

LEMMA StartComes ==
    ASSUME NEW events \in Seq(RtEvents), NEW more \in Seq(RtEvents), NEW a,
           StartedLast(more, a)
    PROVE  StartedLast(events \o more, a)
<1>1. PICK i \in 1..Len(more) :
          /\ more[i] = Ev("start", a)
          /\ \A j \in 1..Len(more) : j > i => more[j].type # "start"
  BY DEF StartedLast
<1> DEFINE k == i + Len(events)
<1>2. k \in 1..Len(events \o more) /\ (events \o more)[k] = Ev("start", a)
  BY <1>1
<1>3. ASSUME NEW j \in 1..Len(events \o more), j > k
      PROVE  (events \o more)[j].type # "start"
  <2>1. /\ j - Len(events) \in 1..Len(more) /\ j - Len(events) > i
        /\ (events \o more)[j] = more[j - Len(events)]
    BY <1>3
  <2>2. QED
    BY <1>1, <2>1
<1>4. QED
  BY <1>2, <1>3 DEF StartedLast

LEMMA Joined ==
    ASSUME NEW x \in RtEvents, NEW y \in RtEvents, NEW z \in RtEvents
    PROVE  /\ <<>> \o <<x>> = <<x>>
           /\ <<x>> \o <<y>> = <<x, y>>
           /\ <<x, y>> \o <<z>> = <<x, y, z>>
<1>1. <<>> \o <<x>> = <<x>>
  OBVIOUS
<1>2. <<x>> \o <<y>> = <<x, y>>
  <2>1. <<x>> \o <<y>> \in Seq(RtEvents) /\ <<x, y>> \in Seq(RtEvents)
    OBVIOUS
  <2>2. Len(<<x>> \o <<y>>) = 2 /\ Len(<<x, y>>) = 2
    OBVIOUS
  <2>3. \A i \in 1..2 : (<<x>> \o <<y>>)[i] = <<x, y>>[i]
    OBVIOUS
  <2>4. QED
    BY <2>1, <2>2, <2>3, SeqEqual
<1>3. <<x, y>> \o <<z>> = <<x, y, z>>
  <2>1. <<x, y>> \o <<z>> \in Seq(RtEvents) /\ <<x, y, z>> \in Seq(RtEvents)
    OBVIOUS
  <2>2. Len(<<x, y>> \o <<z>>) = 3 /\ Len(<<x, y, z>>) = 3
    OBVIOUS
  <2>3. \A i \in 1..3 : (<<x, y>> \o <<z>>)[i] = <<x, y, z>>[i]
    OBVIOUS
  <2>4. QED
    BY <2>1, <2>2, <2>3, SeqEqual
<1>4. QED
  BY <1>1, <1>2, <1>3

LEMMA EventType ==
    ASSUME NEW type \in EventTypes, NEW a \in AgentOrNone
    PROVE  Ev(type, a) \in RtEvents /\ Ev(type, a).type = type
  BY DEF Ev, RtEvents

LEMMA AnnouncedType ==
    ASSUME NEW prev \in AgentOrNone, NEW a \in AgentOrNone
    PROVE  /\ Announced(prev, a) \in Seq(RtEvents) /\ Announced(prev, a) # <<>>
           /\ IF prev = a THEN NoStart(Announced(prev, a))
              ELSE StartedLast(Announced(prev, a), a)
<1>1. CASE prev = a
  <2>1. Announced(prev, a) = <<Ev("updated", a)>>
    BY <1>1 DEF Announced
  <2>2. QED
    BY <1>1, <2>1 DEF NoStart, Ev, RtEvents, EventTypes
<1>2. CASE prev # a /\ prev = NoAgent
  <2> DEFINE es == <<Ev("start", a), Ev("updated", a)>>
  <2>1. Announced(prev, a) = es
    <3>1. Announced(prev, a) = (<<>> \o <<Ev("start", a)>>) \o <<Ev("updated", a)>>
      BY <1>2 DEF Announced
    <3>2. QED
      BY <3>1, Joined, EventType DEF EventTypes
  <2>2. es \in Seq(RtEvents) /\ es # <<>>
    BY DEF Ev, RtEvents, EventTypes
  <2>3. 1 \in 1..Len(es) /\ es[1] = Ev("start", a)
        /\ \A j \in 1..Len(es) : j > 1 => es[j].type # "start"
    BY DEF Ev
  <2>4. StartedLast(es, a)
    BY <2>3 DEF StartedLast
  <2>5. QED
    BY <1>2, <2>1, <2>2, <2>4
<1>3. CASE prev # a /\ prev # NoAgent
  <2> DEFINE es == <<Ev("end", prev), Ev("start", a), Ev("updated", a)>>
  <2>1. Announced(prev, a) = es
    <3>1. Announced(prev, a) = (<<Ev("end", prev)>> \o <<Ev("start", a)>>)
                                   \o <<Ev("updated", a)>>
      BY <1>3 DEF Announced
    <3>2. /\ Ev("end", prev) \in RtEvents /\ Ev("start", a) \in RtEvents
          /\ Ev("updated", a) \in RtEvents
      BY EventType DEF EventTypes
    <3>3. <<Ev("end", prev)>> \o <<Ev("start", a)>> = <<Ev("end", prev), Ev("start", a)>>
      BY <3>2, Joined
    <3>4. QED
      BY <3>1, <3>2, <3>3, Joined, ZenonT(60)
  <2>2. es \in Seq(RtEvents) /\ es # <<>>
    BY DEF Ev, RtEvents, EventTypes
  <2>3. 2 \in 1..Len(es) /\ es[2] = Ev("start", a)
        /\ \A j \in 1..Len(es) : j > 2 => es[j].type # "start"
    BY DEF Ev
  <2>4. StartedLast(es, a)
    BY <2>3 DEF StartedLast
  <2>5. QED
    BY <1>3, <2>1, <2>2, <2>4
<1>4. QED
  BY <1>1, <1>2, <1>3

-----------------------------------------------------------------------------
(* The invariant.                                                          *)

(* The types of what the proof is about.                                   *)
TypeInv ==
    /\ slotKind \in {"none", "input", "output"}
    /\ session \in [connected : BOOLEAN, closed : BOOLEAN,
                     active : AgentOrNone, settings : Kept]
    /\ driver \in [there : BOOLEAN, connected : BOOLEAN, applied : Kept,
                    shown : Values \cup {NoValue}]
    /\ rtEvents \in Seq(RtEvents)
    /\ rtCalls \in [Callers -> RtCallRecords]
    /\ \A c \in Callers :
          /\ ~Calling(c) => CallAt(c, "away")
          /\ CallAt(c, "update") \/ CallAt(c, "write") => rtCalls[c].given \in Given
          /\ CallAt(c, "push") => rtCalls[c].todo # <<>>
          /\ rtCalls[c].op = "send" => rtCalls[c].agent = NoAgent
          /\ slotKind = "none" => ~Calling(c)

Linked == driver.there => driver.connected = session.connected
SameSettings ==
    driver.there => /\ driver.applied = session.settings
                    /\ driver.shown = driver.applied.nested
Announces(events) ==
    session.active # NoAgent => StartedLast(events, session.active)

(* What is so between calls.                                               *)
Agree == Linked /\ SameSettings /\ Announces(rtEvents)

(* And how far a call is from it.                                          *)
Underway(c) ==
    /\ CASE CallAt(c, "mark") -> driver.connected = driver.there
         [] CallAt(c, "leaving") \/ CallAt(c, "close") -> ~driver.connected
         [] OTHER -> Linked
    /\ IF CallAt(c, "write")
       THEN driver.there =>
                /\ driver.applied = WithoutMarkers(rtCalls[c].given)
                /\ driver.shown = driver.applied.nested
       ELSE SameSettings
    /\ CallAt(c, "update") => Carries(session.settings, rtCalls[c].given)
    /\ CallAt(c, "settings") \/ CallAt(c, "update") \/ CallAt(c, "write")
           => rtCalls[c].prev = session.active
    /\ Announces(IF CallAt(c, "push") THEN rtEvents \o rtCalls[c].todo ELSE rtEvents)

Calm == ~overlapped /\ ~broken
OneCall == \A c, d \in Callers : Calling(c) /\ Calling(d) => c = d

CallsInv ==
    Calm => /\ OneCall
            /\ \A c \in Callers : Calling(c) => Underway(c)
            /\ (\A c \in Callers : ~Calling(c)) => Agree

RealtimeInv == TypeInv /\ CallsInv

-----------------------------------------------------------------------------
(* What is the same for all steps of a call.                               *)

MineType(c) ==
    /\ ~Calling(c) => CallAt(c, "away")
    /\ CallAt(c, "update") \/ CallAt(c, "write") => rtCalls[c].given \in Given
    /\ CallAt(c, "push") => rtCalls[c].todo # <<>>
    /\ rtCalls[c].op = "send" => rtCalls[c].agent = NoAgent

Mine(c) == IF Calling(c) THEN Underway(c) ELSE Agree
OthersAway(c) == \A d \in Callers \ {c} : ~Calling(d)

(* A step of c that leaves c where it should be keeps the invariant.       *)
LEMMA Concludes ==
    ASSUME RealtimeInv, NEW c \in Callers, NEW r \in RtCallRecords,
           rtCalls' = [rtCalls EXCEPT ![c] = r],
           slotKind' = slotKind, slotKind # "none",
           session' \in [connected : BOOLEAN, closed : BOOLEAN,
                         active : AgentOrNone, settings : Kept],
           driver' \in [there : BOOLEAN, connected : BOOLEAN, applied : Kept,
                        shown : Values \cup {NoValue}],
           rtEvents' \in Seq(RtEvents),
           MineType(c)',
           Calm' => OthersAway(c) /\ Mine(c)'
    PROVE  RealtimeInv'
<1>1. /\ rtCalls' \in [Callers -> RtCallRecords]
      /\ \A d \in Callers \ {c} : rtCalls'[d] = rtCalls[d]
  BY DEF RealtimeInv, TypeInv
<1>2. TypeInv'
  BY <1>1 DEF RealtimeInv, TypeInv, MineType, Calling, CallAt
<1>3. ASSUME Calm'
      PROVE  /\ OneCall'
             /\ \A d \in Callers : Calling(d)' => Underway(d)'
             /\ (\A d \in Callers : ~Calling(d)') => Agree'
  <2>1. \A d \in Callers \ {c} : ~Calling(d)'
    BY <1>1, <1>3 DEF OthersAway, Calling
  <2>2. Mine(c)'
    BY <1>3
  <2>3. QED
    BY <2>1, <2>2 DEF OneCall, Mine
<1>4. QED
  BY <1>2, <1>3 DEF RealtimeInv, CallsInv

(* Where a call is before its next step.                                   *)
LEMMA Before ==
    ASSUME RealtimeInv, NEW c \in Callers, Calling(c)
    PROVE  /\ slotKind # "none" /\ rtCalls[c] \in RtCallRecords
           /\ Calm => OthersAway(c) /\ Underway(c)
<1>1. slotKind # "none" /\ rtCalls[c] \in RtCallRecords
  BY DEF RealtimeInv, TypeInv
<1>2. Calm => OthersAway(c) /\ Underway(c)
  BY DEF RealtimeInv, CallsInv, OneCall, OthersAway
<1>3. QED
  BY <1>1, <1>2

LEMMA IsCalling ==
    ASSUME RealtimeInv, NEW c \in Callers, NEW place, CallAt(c, place), place # "away"
    PROVE  Calling(c)
  BY DEF RealtimeInv, TypeInv, CallAt

(* The records that a step leaves.                                         *)
LEMMA ToPlaceType ==
    ASSUME RealtimeInv, NEW c \in Callers, NEW place \in CallPlaces, ToPlace(c, place)
    PROVE  \E r \in RtCallRecords :
              /\ rtCalls' = [rtCalls EXCEPT ![c] = r]
              /\ rtCalls'[c] = r /\ r.at = place /\ r.op = rtCalls[c].op
              /\ r.agent = rtCalls[c].agent /\ r.prev = rtCalls[c].prev
              /\ r.given = rtCalls[c].given /\ r.todo = rtCalls[c].todo
<1> DEFINE r == [rtCalls[c] EXCEPT !.at = place]
<1>1. rtCalls[c] \in RtCallRecords /\ rtCalls \in [Callers -> RtCallRecords]
  BY DEF RealtimeInv, TypeInv
<1>2. r \in RtCallRecords
  BY <1>1 DEF RtCallRecords
<1>3. /\ r.at = place /\ r.op = rtCalls[c].op
      /\ r.agent = rtCalls[c].agent /\ r.prev = rtCalls[c].prev
      /\ r.given = rtCalls[c].given /\ r.todo = rtCalls[c].todo
  BY <1>1 DEF RtCallRecords
<1>4. rtCalls' = [rtCalls EXCEPT ![c] = r] /\ rtCalls'[c] = r
  BY <1>1 DEF ToPlace
<1> HIDE DEF r
<1>5. QED
  BY <1>2, <1>3, <1>4

LEMMA NotCallingType ==
    /\ NotCalling \in RtCallRecords /\ NotCalling.op = "none" /\ NotCalling.at = "away"
    /\ NotCalling.agent = NoAgent
  BY NoSettingsType DEF NotCalling, RtCallRecords, CallPlaces, AgentOrNone

LEMMA ThenPushType ==
    ASSUME RealtimeInv, NEW c \in Callers, Calling(c), NEW todo \in Seq(RtEvents),
           ThenPush(c, todo)
    PROVE  \E r \in RtCallRecords :
              /\ rtCalls' = [rtCalls EXCEPT ![c] = r]
              /\ rtCalls'[c] = r /\ r.agent = NoAgent
              /\ IF todo = <<>> THEN r.op = "none" /\ r.at = "away"
                 ELSE r.op = rtCalls[c].op /\ r.at = "push" /\ r.todo = todo
<1> DEFINE r == IF todo = <<>> THEN NotCalling
                ELSE [NotCalling EXCEPT !.op = rtCalls[c].op, !.at = "push",
                                        !.todo = todo]
<1>1. rtCalls[c] \in RtCallRecords /\ rtCalls \in [Callers -> RtCallRecords]
  BY DEF RealtimeInv, TypeInv
<1>2. r \in RtCallRecords
  BY <1>1, NotCallingType DEF RtCallRecords, CallPlaces
<1>3. /\ r.agent = NoAgent
      /\ IF todo = <<>> THEN r.op = "none" /\ r.at = "away"
         ELSE r.op = rtCalls[c].op /\ r.at = "push" /\ r.todo = todo
  BY <1>1, NotCallingType DEF RtCallRecords
<1>4. rtCalls' = [rtCalls EXCEPT ![c] = r] /\ rtCalls'[c] = r
  BY <1>1 DEF ThenPush
<1> HIDE DEF r
<1>5. QED
  BY <1>2, <1>3, <1>4

LEMMA KeepsTypes ==
    ASSUME RealtimeInv
    PROVE  /\ session \in [connected : BOOLEAN, closed : BOOLEAN,
                            active : AgentOrNone, settings : Kept]
           /\ driver \in [there : BOOLEAN, connected : BOOLEAN, applied : Kept,
                           shown : Values \cup {NoValue}]
           /\ rtEvents \in Seq(RtEvents)
  BY DEF RealtimeInv, TypeInv

-----------------------------------------------------------------------------
(* The steps of a call.                                                    *)

LEMMA BeginStep ==
    ASSUME RealtimeInv, NEW c \in Callers,
           NEW op \in {"connect", "send", "interrupt", "update", "close"},
           NEW at \in {"check", "connect", "drive", "active", "disconnect"},
           NEW agent \in AgentOrNone, NEW given \in Slots, NEW answers \in 0..2,
           op = "send" => agent = NoAgent,
           BeginCall(c, op, at, agent, given, answers)
    PROVE  RealtimeInv'
<1> DEFINE r == [NotCalling EXCEPT !.op = op, !.at = at, !.agent = agent,
                                   !.given = given, !.answers = answers]
<1>1. /\ r \in RtCallRecords /\ r.op = op /\ r.at = at /\ r.agent = agent
  BY NotCallingType DEF RtCallRecords, CallPlaces
<1>2. /\ rtCalls' = [rtCalls EXCEPT ![c] = r]
      /\ slotKind # "none" /\ ~Calling(c)
      /\ overlapped' = (overlapped \/ \E d \in Callers : Calling(d))
      /\ UNCHANGED <<slotKind, session, driver, rtEvents, rtStreams, broken>>
  BY DEF BeginCall
<1> HIDE DEF r
<1>3. rtCalls'[c] = r
  BY <1>2 DEF RealtimeInv, TypeInv
<1>4. MineType(c)'
  BY <1>1, <1>3 DEF MineType, Calling, CallAt
<1>5. ASSUME Calm'
      PROVE  OthersAway(c) /\ Mine(c)'
  <2>1. Calm /\ \A d \in Callers : ~Calling(d)
    BY <1>2, <1>5 DEF Calm
  <2>2. Agree
    BY <2>1 DEF RealtimeInv, CallsInv
  <2>3. Agree'
    BY <1>2, <2>2 DEF Agree, Linked, SameSettings, Announces
  <2>4. Underway(c)'
    BY <1>1, <1>3, <2>3 DEF Underway, CallAt, Agree, Announces
  <2>5. Calling(c)'
    BY <1>1, <1>3 DEF Calling
  <2>6. QED
    BY <2>1, <2>4, <2>5 DEF OthersAway, Mine
<1>6. QED
  BY <1>1, <1>2, <1>4, <1>5, Concludes, KeepsTypes

LEMMA CheckStep ==
    ASSUME RealtimeInv, NEW c \in Callers, CheckConnected(c)
    PROVE  RealtimeInv'
<1>1. /\ CallAt(c, "check") /\ Calling(c)
      /\ UNCHANGED <<slotKind, session, driver, rtEvents, overlapped, broken>>
  BY IsCalling DEF CheckConnected
<1>2. PICK place \in {"drive", "connect"} : ToPlace(c, place)
  BY DEF CheckConnected
<1>3. place \in CallPlaces
  BY DEF CallPlaces
<1>4. PICK r \in RtCallRecords :
          /\ rtCalls' = [rtCalls EXCEPT ![c] = r]
          /\ rtCalls'[c] = r /\ r.at = place /\ r.op = rtCalls[c].op
          /\ r.agent = rtCalls[c].agent
  BY <1>2, <1>3, ToPlaceType
<1>5. MineType(c)' /\ Calling(c)'
  BY <1>1, <1>4 DEF MineType, Calling, CallAt, RealtimeInv, TypeInv
<1>6. Calm' => OthersAway(c) /\ Mine(c)'
  BY <1>1, <1>4, <1>5, Before
     DEF Calm, Mine, Underway, CallAt, Linked, SameSettings, Announces
<1>7. QED
  BY <1>1, <1>4, <1>5, <1>6, Concludes, KeepsTypes, Before

LEMMA ConnectStep ==
    ASSUME RealtimeInv, NEW c \in Callers, DriverConnects(c)
    PROVE  RealtimeInv'
<1>1. /\ CallAt(c, "connect") /\ Calling(c) /\ ToPlace(c, "mark")
      /\ driver' = [driver EXCEPT !.connected = driver.there]
      /\ UNCHANGED <<slotKind, session, rtEvents, overlapped, broken>>
  BY IsCalling DEF DriverConnects
<1>2. PICK r \in RtCallRecords :
          /\ rtCalls' = [rtCalls EXCEPT ![c] = r]
          /\ rtCalls'[c] = r /\ r.at = "mark" /\ r.op = rtCalls[c].op
          /\ r.agent = rtCalls[c].agent
  BY <1>1, ToPlaceType DEF CallPlaces
<1>3. /\ driver' \in [there : BOOLEAN, connected : BOOLEAN, applied : Kept,
                       shown : Values \cup {NoValue}]
      /\ driver'.connected = driver.there /\ driver'.there = driver.there
      /\ driver'.applied = driver.applied /\ driver'.shown = driver.shown
  BY <1>1, KeepsTypes
<1>4. MineType(c)' /\ Calling(c)'
  BY <1>1, <1>2 DEF MineType, Calling, CallAt, RealtimeInv, TypeInv
<1>5. Calm' => OthersAway(c) /\ Mine(c)'
  BY <1>1, <1>2, <1>3, <1>4, Before
     DEF Calm, Mine, Underway, CallAt, SameSettings, Announces
<1>6. QED
  BY <1>1, <1>2, <1>3, <1>4, <1>5, Concludes, KeepsTypes, Before

LEMMA UpdateDriverStep ==
    ASSUME RealtimeInv, NEW c \in Callers, UpdateDriver(c)
    PROVE  RealtimeInv'
<1> DEFINE given == rtCalls[c].given
<1>1. /\ CallAt(c, "update") /\ Calling(c) /\ ToPlace(c, "write")
      /\ driver' = IF given.there /\ driver.there THEN UpdatedModel(driver, given)
                   ELSE driver
      /\ UNCHANGED <<slotKind, session, rtEvents, overlapped, broken>>
  BY IsCalling DEF UpdateDriver
<1>2. PICK r \in RtCallRecords :
          /\ rtCalls' = [rtCalls EXCEPT ![c] = r]
          /\ rtCalls'[c] = r /\ r.at = "write" /\ r.op = rtCalls[c].op
          /\ r.agent = rtCalls[c].agent /\ r.given = given
          /\ r.prev = rtCalls[c].prev
  BY <1>1, ToPlaceType DEF CallPlaces
<1>3. given \in Given
  BY <1>1 DEF RealtimeInv, TypeInv
<1>4. driver' \in [there : BOOLEAN, connected : BOOLEAN, applied : Kept,
                   shown : Values \cup {NoValue}]
      /\ driver'.there = driver.there /\ driver'.connected = driver.connected
  <2>1. CASE given.there /\ driver.there
    <3>1. Settled(driver.applied, given) \in Given
      BY <1>3, <2>1, SettledType, KeepsTypes
    <3>2. QED
      BY <1>1, <2>1, <3>1, UpdatedModelType, KeepsTypes
  <2>2. CASE ~(given.there /\ driver.there)
    BY <1>1, <2>2, KeepsTypes
  <2>3. QED
    BY <2>1, <2>2
<1>5. MineType(c)' /\ Calling(c)'
  BY <1>1, <1>2, <1>3 DEF MineType, Calling, CallAt, RealtimeInv, TypeInv
<1>6. ASSUME Calm'
      PROVE  OthersAway(c) /\ Mine(c)'
  <2>1. OthersAway(c) /\ Underway(c)
    BY <1>1, <1>6, Before DEF Calm
  <2>2. /\ Linked /\ SameSettings /\ Carries(session.settings, given)
        /\ rtCalls[c].prev = session.active /\ Announces(rtEvents)
    BY <1>1, <2>1 DEF Underway, CallAt
  <2>3. driver'.there => /\ driver'.applied = WithoutMarkers(given)
                         /\ driver'.shown = driver'.applied.nested
    <3>1. CASE given.there /\ driver.there
      <4>1. /\ driver = [there |-> driver.there, connected |-> driver.connected,
                          applied |-> driver.applied, shown |-> driver.shown]
            /\ session.settings \in Kept
        BY KeepsTypes
      <4>2. driver.applied = session.settings /\ driver.shown = session.settings.nested
        BY <2>2, <3>1 DEF SameSettings
      <4>3. UpdatedModel(driver, given) =
                [there |-> driver.there, connected |-> driver.connected,
                 applied |-> WithoutMarkers(given),
                 shown |-> WithoutMarkers(given).nested]
        BY <1>3, <2>2, <3>1, <4>1, <4>2, ModelFollows
      <4>4. QED
        BY <1>1, <3>1, <4>3
    <3>2. CASE driver.there /\ ~given.there
      <4>1. ~session.settings.there /\ session.settings \in Kept
        BY <2>2, <3>2, KeepsTypes DEF Carries
      <4>2. WithoutMarkers(given) = session.settings
        BY <1>3, <3>2, <4>1, NotThere, GivenNotThere, WithoutMarkersType
      <4>3. QED
        BY <1>1, <2>2, <3>2, <4>2 DEF SameSettings
    <3>3. QED
      BY <1>4, <3>1, <3>2
  <2>4. Underway(c)'
    BY <1>1, <1>2, <1>4, <2>2, <2>3 DEF Underway, CallAt, Linked, Announces
  <2>5. QED
    BY <1>5, <2>1, <2>4 DEF Mine
<1>7. QED
  BY <1>1, <1>2, <1>4, <1>5, <1>6, Concludes, KeepsTypes, Before

LEMMA MarkConnectedStep ==
    ASSUME RealtimeInv, NEW c \in Callers, MarkConnected(c)
    PROVE  RealtimeInv'
<1> DEFINE a == rtCalls[c].agent
           todo == IF a = NoAgent THEN <<>> ELSE <<Ev("start", a)>>
<1>1. /\ CallAt(c, "mark") /\ Calling(c)
      /\ session' = [session EXCEPT !.connected = TRUE,
                                    !.active = IF a # NoAgent THEN a ELSE @]
      /\ IF rtCalls[c].op = "send" THEN ToPlace(c, "drive") ELSE ThenPush(c, todo)
      /\ UNCHANGED <<slotKind, driver, rtEvents, overlapped, broken>>
  BY IsCalling DEF MarkConnected
<1>2. a \in AgentOrNone
  BY <1>1, Before DEF RtCallRecords
<1>3. /\ session' \in [connected : BOOLEAN, closed : BOOLEAN,
                        active : AgentOrNone, settings : Kept]
      /\ session'.connected = TRUE /\ session'.settings = session.settings
      /\ session'.active = IF a # NoAgent THEN a ELSE session.active
  BY <1>1, <1>2, KeepsTypes
<1>4. ASSUME Calm'
      PROVE  /\ OthersAway(c) /\ Linked' /\ SameSettings'
             /\ Announces(rtEvents)
  <2>1. OthersAway(c) /\ Underway(c)
    BY <1>1, <1>4, Before DEF Calm
  <2>2. driver.connected = driver.there /\ SameSettings /\ Announces(rtEvents)
    BY <1>1, <2>1 DEF Underway, CallAt
  <2>3. QED
    BY <1>1, <1>3, <2>1, <2>2 DEF Linked, SameSettings
<1>5. CASE rtCalls[c].op = "send"
  <2>1. a = NoAgent
    BY <1>5 DEF RealtimeInv, TypeInv
  <2>2. PICK r \in RtCallRecords :
            /\ rtCalls' = [rtCalls EXCEPT ![c] = r]
            /\ rtCalls'[c] = r /\ r.at = "drive" /\ r.op = rtCalls[c].op
            /\ r.agent = rtCalls[c].agent
    BY <1>1, <1>5, ToPlaceType DEF CallPlaces
  <2>3. MineType(c)' /\ Calling(c)'
    BY <1>1, <1>5, <2>1, <2>2 DEF MineType, Calling, CallAt
  <2>4. Calm' => OthersAway(c) /\ Mine(c)'
    BY <1>1, <1>3, <1>4, <2>1, <2>2, <2>3 DEF Mine, Underway, CallAt, Announces
  <2>5. QED
    BY <1>1, <1>3, <2>2, <2>3, <2>4, Concludes, KeepsTypes, Before
<1>6. CASE rtCalls[c].op # "send"
  <2>1. todo \in Seq(RtEvents)
    BY <1>2, EventType DEF EventTypes
  <2>2. ThenPush(c, todo)
    BY <1>1, <1>6
  <2>3. a # NoAgent => StartedLast(todo, a)
    <3>1. a # NoAgent => /\ 1 \in 1..Len(todo) /\ todo[1] = Ev("start", a)
                         /\ \A j \in 1..Len(todo) : j > 1 => todo[j].type # "start"
      OBVIOUS
    <3>2. QED
      BY <3>1 DEF StartedLast
  <2>4. a = NoAgent <=> todo = <<>>
    OBVIOUS
  <2> HIDE DEF todo
  <2>5. PICK r \in RtCallRecords :
            /\ rtCalls' = [rtCalls EXCEPT ![c] = r]
            /\ rtCalls'[c] = r /\ r.agent = NoAgent
            /\ IF todo = <<>> THEN r.op = "none" /\ r.at = "away"
               ELSE r.op = rtCalls[c].op /\ r.at = "push" /\ r.todo = todo
    BY <1>1, <2>1, <2>2, ThenPushType
  <2>6. MineType(c)' /\ (Calling(c)' <=> todo # <<>>)
    BY <1>1, <1>6, <2>5 DEF MineType, Calling, CallAt
  <2>7. ASSUME Calm'
        PROVE  Mine(c)'
    <3>1. CASE a = NoAgent
      <4>1. Agree'
        BY <1>1, <1>3, <1>4, <2>7, <3>1 DEF Agree, Announces
      <4>2. QED
        BY <2>4, <2>6, <3>1, <4>1 DEF Mine
    <3>2. CASE a # NoAgent
      <4>1. StartedLast(rtEvents \o todo, a)
        BY <2>1, <2>3, <3>2, StartComes, KeepsTypes
      <4>2. Underway(c)'
        BY <1>1, <1>3, <1>4, <2>4, <2>5, <2>7, <3>2, <4>1 DEF Underway, CallAt, Announces
      <4>3. QED
        BY <2>4, <2>6, <3>2, <4>2 DEF Mine
    <3>3. QED
      BY <3>1, <3>2
  <2>8. QED
    BY <1>1, <1>3, <1>4, <2>5, <2>6, <2>7, Concludes, KeepsTypes, Before
<1>7. QED
  BY <1>5, <1>6

LEMMA AnswersStep ==
    ASSUME RealtimeInv, NEW c \in Callers, DriverAnswers(c)
    PROVE  RealtimeInv'
<1> DEFINE todo == [k \in 1..(IF driver.there THEN rtCalls[c].answers ELSE 1) |->
                        Ev("other", NoAgent)]
<1>1. /\ CallAt(c, "drive") /\ Calling(c) /\ ThenPush(c, todo)
      /\ UNCHANGED <<slotKind, session, driver, rtEvents, overlapped, broken>>
  BY IsCalling DEF DriverAnswers
<1>2. Ev("other", NoAgent) \in RtEvents /\ Ev("other", NoAgent).type # "start"
  BY EventType DEF EventTypes, AgentOrNone
<1>3. todo \in Seq(RtEvents) /\ NoStart(todo)
  <2>1. rtCalls[c].answers \in Nat
    BY <1>1, Before DEF RtCallRecords
  <2> DEFINE n == IF driver.there THEN rtCalls[c].answers ELSE 1
  <2>2. n \in Nat
    BY <2>1
  <2> HIDE DEF n
  <2>3. todo \in Seq(RtEvents) /\ Len(todo) = n
    BY <1>2, <2>2 DEF n
  <2>4. QED
    BY <1>2, <2>3 DEF NoStart, n
<1> HIDE DEF todo
<1>4. PICK r \in RtCallRecords :
          /\ rtCalls' = [rtCalls EXCEPT ![c] = r]
          /\ rtCalls'[c] = r /\ r.agent = NoAgent
          /\ IF todo = <<>> THEN r.op = "none" /\ r.at = "away"
             ELSE r.op = rtCalls[c].op /\ r.at = "push" /\ r.todo = todo
  BY <1>1, <1>3, ThenPushType
<1>5. MineType(c)' /\ (Calling(c)' <=> todo # <<>>)
  BY <1>1, <1>4 DEF MineType, Calling, CallAt
<1>6. ASSUME Calm'
      PROVE  OthersAway(c) /\ Mine(c)'
  <2>1. OthersAway(c) /\ Underway(c)
    BY <1>1, <1>6, Before DEF Calm
  <2>2. Linked /\ SameSettings /\ Announces(rtEvents)
    BY <1>1, <2>1 DEF Underway, CallAt
  <2>3. Announces(rtEvents \o todo)
    BY <1>3, <2>2, StartStays, KeepsTypes DEF Announces
  <2>4. todo = <<>> => Agree'
    BY <1>1, <2>2 DEF Agree, Linked, SameSettings, Announces
  <2>5. todo # <<>> => Underway(c)'
    BY <1>1, <1>4, <2>2, <2>3 DEF Underway, CallAt, Linked, SameSettings, Announces
  <2>6. QED
    BY <1>5, <2>1, <2>4, <2>5 DEF Mine
<1>7. QED
  BY <1>1, <1>4, <1>5, <1>6, Concludes, KeepsTypes, Before

LEMMA ReadActiveStep ==
    ASSUME RealtimeInv, NEW c \in Callers, ReadActive(c)
    PROVE  RealtimeInv'
<1> DEFINE r == [rtCalls[c] EXCEPT !.prev = session.active, !.at = "settings"]
<1>1. /\ CallAt(c, "active") /\ Calling(c)
      /\ rtCalls' = [rtCalls EXCEPT ![c] = r]
      /\ UNCHANGED <<slotKind, session, driver, rtEvents, overlapped, broken>>
  BY IsCalling DEF ReadActive, RealtimeInv, TypeInv
<1>2. r \in RtCallRecords /\ r.at = "settings" /\ r.prev = session.active
      /\ r.op = rtCalls[c].op /\ r.agent = rtCalls[c].agent
  BY <1>1, Before, KeepsTypes DEF RtCallRecords, CallPlaces
<1> HIDE DEF r
<1>3. rtCalls'[c] = r
  BY <1>1 DEF RealtimeInv, TypeInv
<1>4. MineType(c)' /\ Calling(c)'
  BY <1>1, <1>2, <1>3 DEF MineType, Calling, CallAt, RealtimeInv, TypeInv
<1>5. Calm' => OthersAway(c) /\ Mine(c)'
  BY <1>1, <1>2, <1>3, <1>4, Before
     DEF Calm, Mine, Underway, CallAt, Linked, SameSettings, Announces
<1>6. QED
  BY <1>1, <1>2, <1>4, <1>5, Concludes, KeepsTypes, Before

LEMMA ReadSettingsStep ==
    ASSUME RealtimeInv, NEW c \in Callers, ReadSettings(c)
    PROVE  RealtimeInv'
<1> DEFINE given == Updated(session.settings, rtCalls[c].given)
           r == [rtCalls[c] EXCEPT !.given = given, !.at = "update"]
<1>1. /\ CallAt(c, "settings") /\ Calling(c)
      /\ rtCalls' = [rtCalls EXCEPT ![c] = r]
      /\ UNCHANGED <<slotKind, session, driver, rtEvents, overlapped, broken>>
  BY IsCalling DEF ReadSettings, RealtimeInv, TypeInv
<1>2. given \in Given /\ given \in Slots /\ Carries(session.settings, given)
  <2>1. session.settings \in Kept /\ rtCalls[c].given \in Slots
    BY <1>1, Before, KeepsTypes DEF RtCallRecords
  <2>2. QED
    BY <2>1, UpdatedType, NoSettingsType
<1> HIDE DEF given
<1>3. r \in RtCallRecords /\ r.at = "update" /\ r.given = given
      /\ r.op = rtCalls[c].op /\ r.agent = rtCalls[c].agent /\ r.prev = rtCalls[c].prev
  BY <1>1, <1>2, Before DEF RtCallRecords, CallPlaces
<1> HIDE DEF r
<1>4. rtCalls'[c] = r
  BY <1>1 DEF RealtimeInv, TypeInv
<1>5. MineType(c)' /\ Calling(c)'
  BY <1>1, <1>2, <1>3, <1>4 DEF MineType, Calling, CallAt, RealtimeInv, TypeInv
<1>6. Calm' => OthersAway(c) /\ Mine(c)'
  BY <1>1, <1>2, <1>3, <1>4, <1>5, Before
     DEF Calm, Mine, Underway, CallAt, Linked, SameSettings, Announces
<1>7. QED
  BY <1>1, <1>3, <1>5, <1>6, Concludes, KeepsTypes, Before

LEMMA WriteAgentStep ==
    ASSUME RealtimeInv, NEW c \in Callers, WriteAgent(c)
    PROVE  RealtimeInv'
<1> DEFINE given == rtCalls[c].given
           a == rtCalls[c].agent
           prev == rtCalls[c].prev
           todo == Announced(prev, a)
<1>1. /\ CallAt(c, "write") /\ Calling(c) /\ ThenPush(c, todo)
      /\ session' = [session EXCEPT !.active = a, !.settings = WithoutMarkers(given)]
      /\ UNCHANGED <<slotKind, driver, rtEvents, overlapped, broken>>
  BY IsCalling DEF WriteAgent
<1>2. a \in AgentOrNone /\ prev \in AgentOrNone /\ given \in Given
  BY <1>1, Before DEF RtCallRecords, RealtimeInv, TypeInv
<1>3. /\ session' \in [connected : BOOLEAN, closed : BOOLEAN,
                        active : AgentOrNone, settings : Kept]
      /\ session'.connected = session.connected /\ session'.active = a
      /\ session'.settings = WithoutMarkers(given)
  BY <1>1, <1>2, KeepsTypes, WithoutMarkersType
<1>4. /\ todo \in Seq(RtEvents) /\ todo # <<>>
      /\ IF prev = a THEN NoStart(todo) ELSE StartedLast(todo, a)
  BY <1>2, AnnouncedType
<1> HIDE DEF todo
<1>5. PICK r \in RtCallRecords :
          /\ rtCalls' = [rtCalls EXCEPT ![c] = r]
          /\ rtCalls'[c] = r /\ r.agent = NoAgent
          /\ r.op = rtCalls[c].op /\ r.at = "push" /\ r.todo = todo
  BY <1>1, <1>4, ThenPushType
<1>6. MineType(c)' /\ Calling(c)'
  BY <1>1, <1>4, <1>5 DEF MineType, Calling, CallAt
<1>7. ASSUME Calm'
      PROVE  OthersAway(c) /\ Mine(c)'
  <2>1. OthersAway(c) /\ Underway(c)
    BY <1>1, <1>7, Before DEF Calm
  <2>2. /\ Linked /\ prev = session.active /\ Announces(rtEvents)
        /\ driver.there => /\ driver.applied = WithoutMarkers(given)
                            /\ driver.shown = driver.applied.nested
    BY <1>1, <2>1 DEF Underway, CallAt
  <2>3. a # NoAgent => StartedLast(rtEvents \o todo, a)
    BY <1>4, <2>2, StartStays, StartComes, KeepsTypes DEF Announces
  <2>4. Underway(c)'
    BY <1>1, <1>3, <1>5, <2>2, <2>3 DEF Underway, CallAt, Linked, SameSettings, Announces
  <2>5. QED
    BY <1>6, <2>1, <2>4 DEF Mine
<1>8. QED
  BY <1>1, <1>3, <1>5, <1>6, <1>7, Concludes, KeepsTypes, Before

LEMMA DisconnectStep ==
    ASSUME RealtimeInv, NEW c \in Callers, Disconnect(c)
    PROVE  RealtimeInv'
<1>1. /\ CallAt(c, "disconnect") /\ Calling(c) /\ ToPlace(c, "leaving")
      /\ driver' = [driver EXCEPT !.connected = FALSE]
      /\ UNCHANGED <<slotKind, session, rtEvents, overlapped, broken>>
  BY IsCalling DEF Disconnect
<1>2. PICK r \in RtCallRecords :
          /\ rtCalls' = [rtCalls EXCEPT ![c] = r]
          /\ rtCalls'[c] = r /\ r.at = "leaving" /\ r.op = rtCalls[c].op
          /\ r.agent = rtCalls[c].agent
  BY <1>1, ToPlaceType DEF CallPlaces
<1>3. /\ driver' \in [there : BOOLEAN, connected : BOOLEAN, applied : Kept,
                       shown : Values \cup {NoValue}]
      /\ ~driver'.connected /\ driver'.there = driver.there
      /\ driver'.applied = driver.applied /\ driver'.shown = driver.shown
  BY <1>1, KeepsTypes
<1>4. MineType(c)' /\ Calling(c)'
  BY <1>1, <1>2 DEF MineType, Calling, CallAt, RealtimeInv, TypeInv
<1>5. Calm' => OthersAway(c) /\ Mine(c)'
  BY <1>1, <1>2, <1>3, <1>4, Before
     DEF Calm, Mine, Underway, CallAt, SameSettings, Announces
<1>6. QED
  BY <1>1, <1>2, <1>3, <1>4, <1>5, Concludes, KeepsTypes, Before

LEMMA ReadLeavingStep ==
    ASSUME RealtimeInv, NEW c \in Callers, ReadLeaving(c)
    PROVE  RealtimeInv'
<1> DEFINE r == [rtCalls[c] EXCEPT !.prev = session.active, !.at = "close"]
<1>1. /\ CallAt(c, "leaving") /\ Calling(c)
      /\ rtCalls' = [rtCalls EXCEPT ![c] = r]
      /\ UNCHANGED <<slotKind, session, driver, rtEvents, overlapped, broken>>
  BY IsCalling DEF ReadLeaving, RealtimeInv, TypeInv
<1>2. r \in RtCallRecords /\ r.at = "close"
      /\ r.op = rtCalls[c].op /\ r.agent = rtCalls[c].agent
  BY <1>1, Before, KeepsTypes DEF RtCallRecords, CallPlaces
<1> HIDE DEF r
<1>3. rtCalls'[c] = r
  BY <1>1 DEF RealtimeInv, TypeInv
<1>4. MineType(c)' /\ Calling(c)'
  BY <1>1, <1>2, <1>3 DEF MineType, Calling, CallAt, RealtimeInv, TypeInv
<1>5. Calm' => OthersAway(c) /\ Mine(c)'
  BY <1>1, <1>2, <1>3, <1>4, Before
     DEF Calm, Mine, Underway, CallAt, SameSettings, Announces
<1>6. QED
  BY <1>1, <1>2, <1>4, <1>5, Concludes, KeepsTypes, Before

LEMMA MarkClosedStep ==
    ASSUME RealtimeInv, NEW c \in Callers, MarkClosed(c)
    PROVE  RealtimeInv'
<1> DEFINE prev == rtCalls[c].prev
           todo == (IF prev = NoAgent THEN <<>> ELSE <<Ev("end", prev)>>)
                       \o <<Ev("closed", NoAgent)>>
<1>1. /\ CallAt(c, "close") /\ Calling(c) /\ ThenPush(c, todo)
      /\ session' = [session EXCEPT !.connected = FALSE, !.closed = TRUE]
      /\ UNCHANGED <<slotKind, driver, rtEvents, overlapped, broken>>
  BY IsCalling DEF MarkClosed
<1>2. /\ session' \in [connected : BOOLEAN, closed : BOOLEAN,
                        active : AgentOrNone, settings : Kept]
      /\ ~session'.connected /\ session'.active = session.active
      /\ session'.settings = session.settings
  BY <1>1, KeepsTypes
<1>3. todo \in Seq(RtEvents) /\ todo # <<>> /\ NoStart(todo)
  <2>1. prev \in AgentOrNone
    BY <1>1, Before DEF RtCallRecords
  <2>2. /\ Ev("end", prev) \in RtEvents /\ Ev("end", prev).type = "end"
        /\ Ev("closed", NoAgent) \in RtEvents /\ Ev("closed", NoAgent).type = "closed"
    BY <2>1, EventType DEF EventTypes, AgentOrNone
  <2>3. CASE prev = NoAgent
    <3>1. todo = <<Ev("closed", NoAgent)>>
      BY <2>2, <2>3, Joined
    <3>2. QED
      BY <2>2, <3>1 DEF NoStart
  <2>4. CASE prev # NoAgent
    <3>1. todo = <<Ev("end", prev), Ev("closed", NoAgent)>>
      BY <2>2, <2>4, Joined
    <3>2. QED
      BY <2>2, <3>1 DEF NoStart
  <2>5. QED
    BY <2>3, <2>4
<1> HIDE DEF todo
<1>4. PICK r \in RtCallRecords :
          /\ rtCalls' = [rtCalls EXCEPT ![c] = r]
          /\ rtCalls'[c] = r /\ r.agent = NoAgent
          /\ r.op = rtCalls[c].op /\ r.at = "push" /\ r.todo = todo
  BY <1>1, <1>3, ThenPushType
<1>5. MineType(c)' /\ Calling(c)'
  BY <1>1, <1>3, <1>4 DEF MineType, Calling, CallAt
<1>6. ASSUME Calm'
      PROVE  OthersAway(c) /\ Mine(c)'
  <2>1. OthersAway(c) /\ Underway(c)
    BY <1>1, <1>6, Before DEF Calm
  <2>2. ~driver.connected /\ SameSettings /\ Announces(rtEvents)
    BY <1>1, <2>1 DEF Underway, CallAt
  <2>3. driver.there => driver.connected = session'.connected
    BY <1>2, <2>2, KeepsTypes
  <2>4. Announces(rtEvents \o todo)
    BY <1>3, <2>2, StartStays, KeepsTypes DEF Announces
  <2>5. Underway(c)'
    BY <1>1, <1>2, <1>4, <2>2, <2>3, <2>4
       DEF Underway, CallAt, Linked, SameSettings, Announces
  <2>6. QED
    BY <1>5, <2>1, <2>5 DEF Mine
<1>7. QED
  BY <1>1, <1>2, <1>4, <1>5, <1>6, Concludes, KeepsTypes, Before

(* An event that is pushed moves from what is to come to what is there.    *)
LEMMA PushedOne ==
    ASSUME NEW events \in Seq(RtEvents), NEW todo \in Seq(RtEvents), todo # <<>>
    PROVE  Append(events, Head(todo)) \o Tail(todo) = events \o todo
<1> DEFINE pushed == Append(events, Head(todo)) \o Tail(todo)
           all == events \o todo
<1>1. pushed \in Seq(RtEvents) /\ all \in Seq(RtEvents)
  OBVIOUS
<1>2. Len(pushed) = Len(events) + Len(todo) /\ Len(all) = Len(events) + Len(todo)
  OBVIOUS
<1>3. ASSUME NEW i \in 1..Len(all)
      PROVE  pushed[i] = all[i]
  <2>1. CASE i <= Len(events)
    BY <1>2, <2>1
  <2>2. CASE i = Len(events) + 1
    BY <1>2, <2>2
  <2>3. CASE i > Len(events) + 1
    BY <1>2, <2>3
  <2>4. QED
    BY <2>1, <2>2, <2>3
<1> HIDE DEF pushed, all
<1>4. pushed = all
  BY <1>1, <1>2, <1>3, SeqEqual
<1>5. QED
  BY <1>4 DEF pushed, all

LEMMA PushStep ==
    ASSUME RealtimeInv, NEW c \in Callers, PushNext(c)
    PROVE  RealtimeInv'
<1> DEFINE was == rtCalls[c].todo
           todo == Tail(was)
<1>1. /\ CallAt(c, "push") /\ Calling(c) /\ ThenPush(c, todo)
      /\ rtEvents' = Append(rtEvents, Head(was))
      /\ UNCHANGED <<slotKind, session, driver, overlapped, broken>>
  BY IsCalling DEF PushNext
<1>2. was \in Seq(RtEvents) /\ was # <<>>
  BY <1>1, Before DEF RtCallRecords, RealtimeInv, TypeInv
<1>3. todo \in Seq(RtEvents) /\ Head(was) \in RtEvents /\ rtEvents' \in Seq(RtEvents)
  BY <1>1, <1>2, KeepsTypes
<1>4. rtEvents' \o todo = rtEvents \o was
  BY <1>1, <1>2, PushedOne, KeepsTypes
<1>5. todo = <<>> => rtEvents' \o todo = rtEvents'
  BY <1>3, ConcatEmptySeq
<1> HIDE DEF todo, was
<1>6. PICK r \in RtCallRecords :
          /\ rtCalls' = [rtCalls EXCEPT ![c] = r]
          /\ rtCalls'[c] = r /\ r.agent = NoAgent
          /\ IF todo = <<>> THEN r.op = "none" /\ r.at = "away"
             ELSE r.op = rtCalls[c].op /\ r.at = "push" /\ r.todo = todo
  BY <1>1, <1>3, ThenPushType
<1>7. MineType(c)' /\ (Calling(c)' <=> todo # <<>>)
  BY <1>1, <1>6 DEF MineType, Calling, CallAt
<1>8. ASSUME Calm'
      PROVE  OthersAway(c) /\ Mine(c)'
  <2>1. OthersAway(c) /\ Underway(c)
    BY <1>1, <1>8, Before DEF Calm
  <2>2. Linked /\ SameSettings /\ Announces(rtEvents \o was)
    BY <1>1, <2>1 DEF Underway, CallAt, was
  <2>3. Announces(rtEvents' \o todo)
    BY <1>4, <2>2
  <2>4. todo = <<>> => Agree'
    BY <1>1, <1>5, <2>2, <2>3 DEF Agree, Linked, SameSettings, Announces
  <2>5. todo # <<>> => Underway(c)'
    BY <1>1, <1>6, <2>2, <2>3 DEF Underway, CallAt, Linked, SameSettings, Announces
  <2>6. QED
    BY <1>7, <2>1, <2>4, <2>5 DEF Mine
<1>9. QED
  BY <1>1, <1>3, <1>6, <1>7, <1>8, Concludes, KeepsTypes, Before

LEMMA DropStep ==
    ASSUME RealtimeInv, NEW c \in Callers, DropCall(c)
    PROVE  RealtimeInv'
<1>1. /\ Calling(c) /\ rtCalls' = [rtCalls EXCEPT ![c] = NotCalling] /\ broken'
      /\ UNCHANGED <<slotKind, session, driver, rtEvents, overlapped>>
  BY DEF DropCall
<1>2. rtCalls'[c] = NotCalling
  BY <1>1 DEF RealtimeInv, TypeInv
<1>3. MineType(c)'
  BY <1>2, NotCallingType DEF MineType, Calling, CallAt
<1>4. QED
  BY <1>1, <1>3, NotCallingType, Concludes, KeepsTypes, Before DEF Calm

-----------------------------------------------------------------------------
(* The session is made, and the whole.                                     *)

LEMMA RunSessionStep ==
    ASSUME RealtimeInv, RunSession
    PROVE  RealtimeInv'
<1> DEFINE model == [there |-> TRUE, connected |-> TRUE,
                     applied |-> NoSettings, shown |-> NoValue]
<1>1. PICK a \in RealtimeAgents, upd \in Updates :
          /\ session' = [connected |-> TRUE, closed |-> FALSE, active |-> a,
                         settings |-> WithoutMarkers(Updated(NoSettings, upd))]
          /\ driver' = IF upd.there THEN UpdatedModel(model, Updated(NoSettings, upd))
                       ELSE model
          /\ rtEvents' = IF upd.there THEN <<Ev("start", a), Ev("updated", a)>>
                         ELSE <<Ev("start", a)>>
  BY DEF RunSession
<1>2. /\ slotKind = "none" /\ slotKind' \in {"input", "output"}
      /\ UNCHANGED <<rtCalls, overlapped, broken>>
  BY DEF RunSession
<1> DEFINE given == Updated(NoSettings, upd)
<1>3. /\ given \in Given /\ Carries(NoSettings, given)
      /\ (upd.there => given.there) /\ (~upd.there => given = NoSettings)
  <2>1. upd \in Slots
    BY UpdatesType
  <2>2. ~upd.there => given = NoSettings
    BY DEF Updated
  <2>3. QED
    BY <2>1, <2>2, UpdatedType, NoSettingsType
<1> HIDE DEF given
<1>4. WithoutMarkers(given) \in Kept /\ (~upd.there => WithoutMarkers(given) = NoSettings)
  BY <1>3, WithoutMarkersType, NoSettingsType
<1>5. session' \in [connected : BOOLEAN, closed : BOOLEAN,
                    active : AgentOrNone, settings : Kept]
      /\ session'.connected = TRUE /\ session'.active = a
      /\ session'.settings = WithoutMarkers(given)
  BY <1>1, <1>4 DEF AgentOrNone, given
<1>6. driver' = [there |-> TRUE, connected |-> TRUE,
                 applied |-> WithoutMarkers(given), shown |-> WithoutMarkers(given).nested]
  <2>1. CASE upd.there
    <3>1. UpdatedModel(model, given) =
              [there |-> model.there, connected |-> model.connected,
               applied |-> WithoutMarkers(given),
               shown |-> WithoutMarkers(given).nested]
      <4>1. /\ model = [there |-> model.there, connected |-> model.connected,
                        applied |-> model.applied, shown |-> model.shown]
            /\ model.applied = NoSettings /\ model.shown = NoSettings.nested
            /\ NoSettings \in Kept
        BY NoSettingsType
      <4> HIDE DEF model
      <4>2. QED
        BY <1>3, <2>1, <4>1, ModelFollows
    <3>2. QED
      BY <1>1, <2>1, <3>1 DEF given
  <2>2. CASE ~upd.there
    BY <1>1, <1>4, <2>2, NoSettingsType
  <2>3. QED
    BY <2>1, <2>2
<1>7. driver' \in [there : BOOLEAN, connected : BOOLEAN, applied : Kept,
                   shown : Values \cup {NoValue}]
  <2>1. WithoutMarkers(given).nested \in Values \cup {NoValue}
    BY <1>4 DEF Kept, Slots
  <2>2. QED
    BY <1>4, <1>6, <2>1
<1>8. rtEvents' \in Seq(RtEvents) /\ StartedLast(rtEvents', a)
  <2>1. /\ Ev("start", a) \in RtEvents /\ Ev("updated", a) \in RtEvents
        /\ Ev("updated", a).type = "updated"
    BY EventType DEF EventTypes, AgentOrNone
  <2>2. rtEvents' \in Seq(RtEvents)
    BY <1>1, <2>1
  <2>3. /\ 1 \in 1..Len(rtEvents') /\ rtEvents'[1] = Ev("start", a)
        /\ \A j \in 1..Len(rtEvents') : j > 1 => rtEvents'[j].type # "start"
    BY <1>1, <2>1
  <2>4. QED
    BY <2>2, <2>3 DEF StartedLast
<1>9. \A c \in Callers : ~Calling(c)' /\ CallAt(c, "away")'
  BY <1>2 DEF RealtimeInv, TypeInv, Calling, CallAt
<1>10. TypeInv'
  BY <1>2, <1>5, <1>7, <1>8, <1>9 DEF RealtimeInv, TypeInv, Calling, CallAt
<1>11. Agree'
  BY <1>5, <1>6, <1>8 DEF Agree, Linked, SameSettings, Announces
<1>12. QED
  BY <1>9, <1>10, <1>11 DEF RealtimeInv, CallsInv, OneCall

(* Steps that change nothing the invariant speaks of, but its kind.        *)
LEMMA NewSessionStep ==
    ASSUME RealtimeInv, slotKind' \in {slotKind, "input", "output"},
           UNCHANGED <<session, driver, rtEvents, rtCalls, overlapped, broken>>
    PROVE  RealtimeInv'
<1>1. TypeInv'
  BY DEF RealtimeInv, TypeInv, Calling, CallAt
<1>2. CallsInv'
  <2>1. \A c \in Callers : (Calling(c)' <=> Calling(c)) /\ (Underway(c)' <=> Underway(c))
    BY DEF Calling, Underway, CallAt, Linked, SameSettings, Announces
  <2>2. (Agree' <=> Agree) /\ (Calm' <=> Calm)
    BY DEF Agree, Linked, SameSettings, Announces, Calm
  <2>3. QED
    BY <2>1, <2>2 DEF RealtimeInv, CallsInv, OneCall
<1>3. QED
  BY <1>1, <1>2 DEF RealtimeInv

LEMMA RealtimeBegins ==
    ASSUME RealtimeInit
    PROVE  RealtimeInv
<1>1. \A c \in Callers : ~Calling(c) /\ CallAt(c, "away")
  BY NotCallingType DEF RealtimeInit, Calling, CallAt
<1>2. rtCalls \in [Callers -> RtCallRecords]
  BY NotCallingType DEF RealtimeInit
<1>3. /\ session \in [connected : BOOLEAN, closed : BOOLEAN,
                       active : AgentOrNone, settings : Kept]
      /\ session.active = NoAgent
      /\ driver \in [there : BOOLEAN, connected : BOOLEAN, applied : Kept,
                      shown : Values \cup {NoValue}]
      /\ ~driver.there
  BY NoSettingsType DEF RealtimeInit, AgentOrNone
<1>4. TypeInv
  <2>1. \A c \in Callers : rtCalls[c].op # "send"
    BY <1>1 DEF Calling
  <2>2. QED
    BY <1>1, <1>2, <1>3, <2>1 DEF TypeInv, RealtimeInit, CallAt
<1>5. Agree
  BY <1>3 DEF Agree, Linked, SameSettings, Announces
<1>6. QED
  BY <1>1, <1>4, <1>5 DEF RealtimeInv, CallsInv, OneCall

LEMMA BeginsStep ==
    ASSUME RealtimeInv, NEW c \in Callers,
           BeginConnect(c) \/ BeginSend(c) \/ BeginInterrupt(c) \/ BeginUpdate(c)
               \/ BeginClose(c)
    PROVE  RealtimeInv'
<1>1. NoSettings \in Slots /\ NoAgent \in AgentOrNone /\ Updates \subseteq Slots
      /\ RealtimeAgents \subseteq AgentOrNone
  BY NoSettingsType, UpdatesType DEF AgentOrNone
<1>2. CASE BeginConnect(c)
  BY <1>1, <1>2, BeginStep DEF BeginConnect
<1>3. CASE BeginSend(c)
  BY <1>1, <1>3, BeginStep DEF BeginSend
<1>4. CASE BeginInterrupt(c)
  BY <1>1, <1>4, BeginStep DEF BeginInterrupt
<1>5. CASE BeginUpdate(c)
  <2>1. PICK a \in RealtimeAgents, upd \in Updates :
            BeginCall(c, "update", "active", a, upd, 0)
    BY <1>5 DEF BeginUpdate
  <2>2. QED
    BY <1>1, <2>1, BeginStep
<1>6. CASE BeginClose(c)
  BY <1>1, <1>6, BeginStep DEF BeginClose
<1>7. QED
  BY <1>2, <1>3, <1>4, <1>5, <1>6

LEMMA RealtimeStep ==
    ASSUME RealtimeInv, [RealtimeNext]_realtimeVars
    PROVE  RealtimeInv'
<1>1. CASE RunSession
  BY <1>1, RunSessionStep
<1>2. CASE NewSession
  BY <1>2, NewSessionStep DEF NewSession
<1>3. CASE \E c \in Callers :
              BeginConnect(c) \/ BeginSend(c) \/ BeginInterrupt(c)
              \/ BeginUpdate(c) \/ BeginClose(c)
  BY <1>3, BeginsStep
<1>4. CASE \E c \in Callers :
              CheckConnected(c) \/ DriverConnects(c) \/ MarkConnected(c)
              \/ DriverAnswers(c)
  BY <1>4, CheckStep, ConnectStep, MarkConnectedStep, AnswersStep
<1>5. CASE \E c \in Callers :
              ReadActive(c) \/ ReadSettings(c) \/ UpdateDriver(c) \/ WriteAgent(c)
  BY <1>5, ReadActiveStep, ReadSettingsStep, UpdateDriverStep, WriteAgentStep
<1>6. CASE \E c \in Callers :
              Disconnect(c) \/ ReadLeaving(c) \/ MarkClosed(c)
              \/ PushNext(c) \/ DropCall(c)
  BY <1>6, DisconnectStep, ReadLeavingStep, MarkClosedStep, PushStep, DropStep
<1>7. CASE \E s \in RealtimeStreams : StreamReads(s)
  BY <1>7, NewSessionStep DEF StreamReads
<1>8. CASE UNCHANGED realtimeVars
  BY <1>8, NewSessionStep DEF realtimeVars
<1>9. QED
  BY <1>1, <1>2, <1>3, <1>4, <1>5, <1>6, <1>7, <1>8 DEF RealtimeNext

(* Calls that neither overlap nor are dropped leave the session and its    *)
(* model with the same connection and settings, which the payloads tell    *)
(* as well, and the agent that is active was the last to be announced.     *)
THEOREM AgreementCorrect == RealtimeSpec => []DriverFollowsSession
<1>1. RealtimeInv => DriverFollowsSession
  BY DEF RealtimeInv, CallsInv, Calm, Agree, Linked, SameSettings, Announces,
     DriverFollowsSession, Quiet
<1>2. QED
  BY <1>1, RealtimeBegins, RealtimeStep, PTL DEF RealtimeSpec

-----------------------------------------------------------------------------
(* Readers of a log: of len events, done or not, at revision rev.          *)

(* A reader that sleeps has loaded a revision of the past; when nothing    *)
(* has changed since, it knows what there is, or it is late.               *)
Told(r, len, done, rev) ==
    r.at = "asleep" => /\ r.rev <= rev
                       /\ r.rev = rev /\ HasNews(r, len, done) => r.late

LEMMA ReaderType ==
    ASSUME NEW len \in Nat, NEW revs \in Nat, NEW r \in Readers(len, revs)
    PROVE  /\ r.at \in Places /\ r.next \in 1..(len + 1) /\ r.rev \in 0..revs
           /\ r.waits \in BOOLEAN /\ r.late \in BOOLEAN
  BY DEF Readers

LEMMA NewReaderType ==
    ASSUME NEW waits \in BOOLEAN, NEW len \in Nat, NEW revs \in Nat
    PROVE  NewReader(waits) \in Readers(len, revs) /\ NewReader(waits).at # "asleep"
  BY DEF NewReader, Readers, Places

(* A reader's step.                                                        *)
LEMMA ReadsStep ==
    ASSUME NEW len \in Nat, NEW done \in BOOLEAN, NEW rev \in Nat,
           NEW r \in Readers(len, rev), NEW q \in Reads(r, len, done, rev)
    PROVE  q \in Readers(len, rev) /\ Told(q, len, done, rev) /\ q.waits = r.waits
<1>1. r.at \in Places /\ r.next \in 1..(len + 1) /\ r.rev \in 0..rev
      /\ r.waits \in BOOLEAN /\ r.late \in BOOLEAN
  BY ReaderType
<1>2. CASE q \in Looks(r, len)
  <2>1. r.at = "look"
    BY <1>2 DEF Looks
  <2>2. CASE r.next <= len
    BY <1>1, <1>2, <2>1, <2>2 DEF Looks, Readers, Places, Told
  <2>3. CASE ~(r.next <= len)
    BY <1>1, <1>2, <2>1, <2>3 DEF Looks, Readers, Places, Told
  <2>4. QED
    BY <2>2, <2>3
<1>3. CASE q \in Checks(r, done)
  BY <1>1, <1>3 DEF Checks, Readers, Places, Told
<1>4. CASE q \in Dozes(r, len, done, rev)
  <2>1. PICK news \in BOOLEAN : news = HasNews(r, len, done)
    BY <1>1 DEF HasNews
  <2>2. q = [r EXCEPT !.at = "asleep", !.rev = rev, !.late = news]
    BY <1>4, <2>1 DEF Dozes
  <2>3. rev \in 0..rev
    OBVIOUS
  <2>4. q \in Readers(len, rev)
    BY <1>1, <2>2, <2>3 DEF Readers, Places
  <2>5. q.rev = rev /\ q.waits = r.waits /\ q.next = r.next /\ q.late = news
    BY <2>2 DEF Readers
  <2>6. HasNews(q, len, done) = HasNews(r, len, done)
    BY <2>5 DEF HasNews
  <2>7. QED
    BY <2>1, <2>4, <2>5, <2>6 DEF Told
<1>5. CASE q \in Wakes(r, rev)
  <2>1. PICK at \in {"check", "look"} : q = [r EXCEPT !.at = at, !.late = FALSE]
    BY <1>5 DEF Wakes
  <2>2. QED
    BY <1>1, <2>1 DEF Readers, Places, Told
<1>6. QED
  BY <1>2, <1>3, <1>4, <1>5 DEF Reads

(* The log grows: a reader keeps its type, and a later revision wakes it.  *)
LEMMA ReadersGrow ==
    ASSUME NEW len \in Nat, NEW rev \in Nat, NEW r \in Readers(len, rev),
           NEW len2 \in Nat, NEW rev2 \in Nat, len <= len2, rev <= rev2
    PROVE  r \in Readers(len2, rev2)
<1>1. r.at \in Places /\ r.next \in 1..(len + 1) /\ r.rev \in 0..rev
      /\ r.waits \in BOOLEAN /\ r.late \in BOOLEAN
  BY ReaderType
<1>2. r.next \in 1..(len2 + 1) /\ r.rev \in 0..rev2
  BY <1>1
<1>3. r = [at |-> r.at, next |-> r.next, rev |-> r.rev, waits |-> r.waits,
           late |-> r.late]
  BY DEF Readers
<1>4. QED
  BY <1>1, <1>2, <1>3 DEF Readers

LEMMA ChangeWakes ==
    ASSUME NEW len \in Nat, NEW rev \in Nat, NEW r \in Readers(len, rev),
           NEW len2, NEW done2, NEW rev2 \in Nat, rev < rev2
    PROVE  Told(r, len2, done2, rev2)
<1>1. r.rev \in 0..rev
  BY ReaderType
<1>2. QED
  BY <1>1 DEF Told

-----------------------------------------------------------------------------
(* The streams of a session.                                               *)

Closing == \E c \in Callers : rtCalls[c].op = "close" /\ CallAt(c, "push")

(* What a stream that sleeps on the present revision has not heard of is   *)
(* nothing, unless it is late, but for a close that is underway.           *)
StreamInv(s) ==
    /\ rtStreams[s] \in Readers(Len(rtEvents), Len(rtEvents))
    /\ ~rtStreams[s].waits
    /\ rtStreams[s].at = "asleep" /\ rtStreams[s].rev = Len(rtEvents)
           /\ ~rtStreams[s].late
       => /\ rtStreams[s].next > Len(rtEvents)
          /\ session.closed => Closing \/ broken

(* Who is on the way to the close is closing.                              *)
Leaves(c) ==
    rtCalls[c].at \in {"disconnect", "leaving", "close"} => rtCalls[c].op = "close"

StreamsInv ==
    /\ made \in 0..MaxCalls
    /\ overlapped \in BOOLEAN /\ broken \in BOOLEAN
    /\ slotKind = "none" => rtEvents = <<>>
    /\ rtStreams = [s \in RealtimeStreams |-> rtStreams[s]]
    /\ \A s \in RealtimeStreams : StreamInv(s)
    /\ \A c \in Callers : Leaves(c)

LEMMA EventsCounted == RealtimeInv => Len(rtEvents) \in Nat
  BY KeepsTypes

(* Steps that record nothing: a close that is underway stays so, or the    *)
(* session does not become closed.                                         *)
LEMMA NothingRecorded ==
    ASSUME RealtimeInv, StreamsInv, UNCHANGED <<rtEvents, rtStreams>>,
           made' \in 0..MaxCalls, overlapped' \in BOOLEAN, broken' \in BOOLEAN,
           slotKind' = slotKind \/ slotKind' # "none",
           broken => broken', \A c \in Callers : Leaves(c)',
           session'.closed =>
               (session.closed /\ (Closing => Closing' \/ broken')) \/ Closing'
    PROVE  StreamsInv'
<1>1. ASSUME NEW s \in RealtimeStreams
      PROVE  StreamInv(s)'
  BY <1>1 DEF StreamsInv, StreamInv
<1>2. QED
  BY <1>1 DEF StreamsInv

(* One event more, or several: every stream that sleeps is to wake.        *)
LEMMA SomeRecorded ==
    ASSUME RealtimeInv, StreamsInv, UNCHANGED <<rtStreams, made, overlapped, broken>>,
           rtEvents' \in Seq(RtEvents), Len(rtEvents) < Len(rtEvents'),
           slotKind' # "none", \A c \in Callers : Leaves(c)'
    PROVE  StreamsInv'
<1>1. Len(rtEvents) \in Nat /\ Len(rtEvents') \in Nat
  BY EventsCounted
<1>2. ASSUME NEW s \in RealtimeStreams
      PROVE  StreamInv(s)'
  <2>1. rtStreams[s] \in Readers(Len(rtEvents), Len(rtEvents)) /\ ~rtStreams[s].waits
    BY DEF StreamsInv, StreamInv
  <2>2. rtStreams[s] \in Readers(Len(rtEvents'), Len(rtEvents'))
    BY <1>1, <2>1, ReadersGrow
  <2>3. rtStreams[s].rev # Len(rtEvents')
    BY <1>1, <2>1, ReaderType
  <2>4. QED
    BY <2>1, <2>2, <2>3 DEF StreamInv
<1>3. QED
  BY <1>2 DEF StreamsInv

LEMMA OneStreamReads ==
    ASSUME RealtimeInv, StreamsInv, NEW s \in RealtimeStreams, StreamReads(s)
    PROVE  StreamsInv'
<1>1. Len(rtEvents) \in Nat /\ session.closed \in BOOLEAN
  BY EventsCounted, KeepsTypes
<1>2. PICK r \in Reads(rtStreams[s], Len(rtEvents), session.closed, Len(rtEvents)) :
          rtStreams' = [rtStreams EXCEPT ![s] = r]
  BY DEF StreamReads
<1>3. rtStreams[s] \in Readers(Len(rtEvents), Len(rtEvents)) /\ ~rtStreams[s].waits
  BY DEF StreamsInv, StreamInv
<1>4. /\ r \in Readers(Len(rtEvents), Len(rtEvents))
      /\ Told(r, Len(rtEvents), session.closed, Len(rtEvents))
      /\ r.waits = rtStreams[s].waits
  BY <1>1, <1>3, ReadsStep
<1>5. r.next \in 1..(Len(rtEvents) + 1)
  BY <1>1, <1>4, ReaderType
<1>6. UNCHANGED <<slotKind, session, rtEvents, rtCalls, made, overlapped, broken>>
  BY DEF StreamReads
<1>7. /\ rtStreams' = [q \in RealtimeStreams |-> IF q = s THEN r ELSE rtStreams[q]]
      /\ rtStreams' = [q \in RealtimeStreams |-> rtStreams'[q]]
  BY <1>2 DEF StreamsInv
<1>8. StreamInv(s)'
  <2>1. rtStreams'[s] = r
    BY <1>7
  <2>2. r.at = "asleep" /\ r.rev = Len(rtEvents) /\ ~r.late
        => r.next > Len(rtEvents) /\ ~session.closed
    BY <1>1, <1>3, <1>4, <1>5 DEF Told, HasNews
  <2>3. QED
    BY <1>3, <1>4, <1>6, <2>1, <2>2 DEF StreamInv
<1>9. ASSUME NEW q \in RealtimeStreams, q # s
      PROVE  StreamInv(q)'
  BY <1>6, <1>7, <1>9 DEF StreamsInv, StreamInv, Closing, CallAt
<1>10. QED
  BY <1>6, <1>7, <1>8, <1>9 DEF StreamsInv, Leaves

(* A step of a caller's that records nothing and closes nothing.           *)
LEMMA CallerMoves ==
    ASSUME RealtimeInv, StreamsInv, NEW c \in Callers, ~CallAt(c, "push"),
           UNCHANGED <<slotKind, rtEvents, rtStreams, broken>>,
           made' \in 0..MaxCalls, overlapped' \in BOOLEAN,
           \A d \in Callers \ {c} : rtCalls'[d] = rtCalls[d],
           session'.closed = session.closed, Leaves(c)'
    PROVE  StreamsInv'
<1>1. Closing => Closing'
  BY DEF Closing, CallAt
<1>2. \A d \in Callers : Leaves(d)'
  BY DEF StreamsInv, Leaves
<1>3. broken \in BOOLEAN
  BY DEF StreamsInv
<1>4. QED
  BY <1>1, <1>2, <1>3, NothingRecorded

LEMMA CallsType ==
    ASSUME RealtimeInv
    PROVE  rtCalls \in [Callers -> RtCallRecords] /\ session.closed \in BOOLEAN
  BY DEF RealtimeInv, TypeInv

(* What the moves to a place and to the events do to the calls.            *)
LEMMA MovesTo ==
    ASSUME RealtimeInv, NEW c \in Callers, NEW place \in CallPlaces, ToPlace(c, place)
    PROVE  /\ \A d \in Callers \ {c} : rtCalls'[d] = rtCalls[d]
           /\ rtCalls'[c].at = place /\ rtCalls'[c].op = rtCalls[c].op
<1>1. rtCalls[c] \in RtCallRecords
  BY CallsType
<1>2. QED
  BY <1>1, CallsType DEF ToPlace, RtCallRecords

LEMMA MovesOn ==
    ASSUME RealtimeInv, NEW c \in Callers, NEW todo, ThenPush(c, todo)
    PROVE  /\ \A d \in Callers \ {c} : rtCalls'[d] = rtCalls[d]
           /\ Leaves(c)'
           /\ todo # <<>> => rtCalls'[c].at = "push" /\ rtCalls'[c].op = rtCalls[c].op
<1>1. rtCalls' = [rtCalls EXCEPT ![c] =
          IF todo = <<>> THEN NotCalling
          ELSE [NotCalling EXCEPT !.op = rtCalls[c].op, !.at = "push", !.todo = todo]]
  BY DEF ThenPush
<1>2. \A d \in Callers \ {c} : rtCalls'[d] = rtCalls[d]
  BY <1>1, CallsType
<1>3. CASE todo = <<>>
  BY <1>1, <1>2, <1>3, CallsType, NotCallingType DEF Leaves
<1>4. CASE todo # <<>>
  <2>1. rtCalls'[c] = [NotCalling EXCEPT !.op = rtCalls[c].op, !.at = "push",
                                         !.todo = todo]
    BY <1>1, <1>4, CallsType
  <2>2. rtCalls'[c].at = "push" /\ rtCalls'[c].op = rtCalls[c].op
    BY <2>1 DEF NotCalling
  <2>3. QED
    BY <1>2, <1>4, <2>2 DEF Leaves
<1>5. QED
  BY <1>3, <1>4

LEMMA BeginsKeepTold ==
    ASSUME RealtimeInv, StreamsInv, NEW c \in Callers,
           BeginConnect(c) \/ BeginSend(c) \/ BeginInterrupt(c) \/ BeginUpdate(c)
               \/ BeginClose(c)
    PROVE  StreamsInv'
<1>1. PICK op, at, agent, given, answers :
          /\ BeginCall(c, op, at, agent, given, answers)
          /\ at \in {"disconnect", "leaving", "close"} => op = "close"
  <2>1. CASE BeginConnect(c)
    BY <2>1 DEF BeginConnect
  <2>2. CASE BeginSend(c)
    BY <2>2 DEF BeginSend
  <2>3. CASE BeginInterrupt(c)
    BY <2>3 DEF BeginInterrupt
  <2>4. CASE BeginUpdate(c)
    BY <2>4 DEF BeginUpdate
  <2>5. CASE BeginClose(c)
    BY <2>5 DEF BeginClose
  <2>6. QED
    BY <2>1, <2>2, <2>3, <2>4, <2>5
<1>2. /\ ~Calling(c) /\ made < MaxCalls /\ made' = made + 1
      /\ rtCalls' = [rtCalls EXCEPT
            ![c] = [NotCalling EXCEPT !.op = op, !.at = at, !.agent = agent,
                                      !.given = given, !.answers = answers]]
      /\ overlapped' = (overlapped \/ \E d \in Callers : Calling(d))
      /\ UNCHANGED <<slotKind, session, driver, rtEvents, rtStreams, broken>>
  BY <1>1 DEF BeginCall
<1>3. ~CallAt(c, "push")
  BY <1>2 DEF RealtimeInv, TypeInv, CallAt
<1>4. made' \in 0..MaxCalls /\ overlapped' \in BOOLEAN
  BY <1>2, RealtimeBoundAssumption DEF StreamsInv
<1>5. \A d \in Callers \ {c} : rtCalls'[d] = rtCalls[d]
  BY <1>2, CallsType
<1>6. Leaves(c)'
  <2>1. rtCalls'[c] = [NotCalling EXCEPT !.op = op, !.at = at, !.agent = agent,
                                         !.given = given, !.answers = answers]
    BY <1>2, CallsType
  <2>2. rtCalls'[c].at = at /\ rtCalls'[c].op = op
    BY <2>1 DEF NotCalling
  <2>3. QED
    BY <1>1, <2>2 DEF Leaves
<1>7. QED
  BY <1>2, <1>3, <1>4, <1>5, <1>6, CallerMoves

(* The steps on the way to the events.                                     *)
LEMMA MovesKeepTold ==
    ASSUME RealtimeInv, StreamsInv, NEW c \in Callers,
           \/ CheckConnected(c) \/ DriverConnects(c) \/ MarkConnected(c)
           \/ DriverAnswers(c) \/ ReadActive(c) \/ ReadSettings(c)
           \/ UpdateDriver(c) \/ WriteAgent(c) \/ Disconnect(c) \/ ReadLeaving(c)
    PROVE  StreamsInv'
<1>1. rtCalls \in [Callers -> RtCallRecords] /\ rtCalls[c] \in RtCallRecords /\ Leaves(c)
  BY CallsType DEF StreamsInv
<1>2. made \in 0..MaxCalls /\ overlapped \in BOOLEAN
  BY DEF StreamsInv
<1>3. session \in [connected : BOOLEAN, closed : BOOLEAN,
                   active : AgentOrNone, settings : Kept]
  BY KeepsTypes
<1> DEFINE Good == /\ ~CallAt(c, "push")
                   /\ UNCHANGED <<slotKind, rtEvents, rtStreams, broken, made, overlapped>>
                   /\ \A d \in Callers \ {c} : rtCalls'[d] = rtCalls[d]
                   /\ session'.closed = session.closed
                   /\ Leaves(c)'
<1>4. CASE CheckConnected(c)
  <2>1. ToPlace(c, "drive") \/ ToPlace(c, "connect")
    BY <1>4 DEF CheckConnected
  <2>2. Good
    BY <1>1, <1>4, <2>1, MovesTo DEF CheckConnected, CallAt, CallPlaces, Leaves
  <2>3. QED
    BY <1>2, <2>2, CallerMoves
<1>5. CASE DriverConnects(c)
  <2>1. Good
    BY <1>1, <1>5, MovesTo DEF DriverConnects, CallAt, CallPlaces, Leaves
  <2>2. QED
    BY <1>2, <2>1, CallerMoves
<1>6. CASE MarkConnected(c)
  <2>1. /\ session' = [session EXCEPT !.connected = TRUE,
                 !.active = IF rtCalls[c].agent # NoAgent THEN rtCalls[c].agent ELSE @]
        /\ CallAt(c, "mark")
        /\ UNCHANGED <<slotKind, rtEvents, rtStreams, broken, made, overlapped>>
        /\ IF rtCalls[c].op = "send" THEN ToPlace(c, "drive")
           ELSE ThenPush(c, IF rtCalls[c].agent = NoAgent THEN <<>>
                            ELSE <<Ev("start", rtCalls[c].agent)>>)
    BY <1>6 DEF MarkConnected
  <2>2. session'.closed = session.closed
    BY <1>3, <2>1
  <2>3. /\ \A d \in Callers \ {c} : rtCalls'[d] = rtCalls[d]
        /\ Leaves(c)'
    BY <2>1, MovesTo, MovesOn DEF CallPlaces, Leaves
  <2>4. QED
    BY <1>2, <2>1, <2>2, <2>3, CallerMoves DEF CallAt
<1>7. CASE DriverAnswers(c)
  <2>1. Good
    BY <1>1, <1>7, MovesOn DEF DriverAnswers, CallAt
  <2>2. QED
    BY <1>2, <2>1, CallerMoves
<1>8. CASE ReadActive(c)
  <2>1. Good
    BY <1>1, <1>8 DEF ReadActive, CallAt, Leaves, RtCallRecords
  <2>2. QED
    BY <1>2, <2>1, CallerMoves
<1>9. CASE ReadSettings(c)
  <2>1. Good
    BY <1>1, <1>9 DEF ReadSettings, CallAt, Leaves, RtCallRecords
  <2>2. QED
    BY <1>2, <2>1, CallerMoves
<1>10. CASE UpdateDriver(c)
  <2>1. Good
    BY <1>1, <1>10, MovesTo DEF UpdateDriver, CallAt, CallPlaces, Leaves
  <2>2. QED
    BY <1>2, <2>1, CallerMoves
<1>11. CASE WriteAgent(c)
  <2>1. session'.closed = session.closed
    BY <1>3, <1>11 DEF WriteAgent
  <2>2. Good
    BY <1>1, <1>11, <2>1, MovesOn DEF WriteAgent, CallAt
  <2>3. QED
    BY <1>2, <2>2, CallerMoves
<1>12. CASE Disconnect(c)
  <2>1. Good
    BY <1>1, <1>12, MovesTo DEF Disconnect, CallAt, CallPlaces, Leaves
  <2>2. QED
    BY <1>2, <2>1, CallerMoves
<1>13. CASE ReadLeaving(c)
  <2>1. rtCalls'[c].op = rtCalls[c].op /\ \A d \in Callers \ {c} : rtCalls'[d] = rtCalls[d]
    BY <1>1, <1>13 DEF ReadLeaving, RtCallRecords
  <2>2. rtCalls[c].op = "close"
    BY <1>1, <1>13 DEF ReadLeaving, Leaves, CallAt
  <2>3. Good
    BY <1>1, <1>13, <2>1, <2>2 DEF ReadLeaving, CallAt, Leaves
  <2>4. QED
    BY <1>2, <2>3, CallerMoves
<1>14. QED
  BY <1>4, <1>5, <1>6, <1>7, <1>8, <1>9, <1>10, <1>11, <1>12, <1>13

(* The close itself, an event, and a call that is dropped.                 *)
LEMMA EndsKeepTold ==
    ASSUME RealtimeInv, StreamsInv, NEW c \in Callers,
           MarkClosed(c) \/ PushNext(c) \/ DropCall(c)
    PROVE  StreamsInv'
<1>1. /\ made \in 0..MaxCalls /\ overlapped \in BOOLEAN /\ broken \in BOOLEAN
      /\ \A d \in Callers : Leaves(d)
      /\ slotKind = "none" => \A d \in Callers : ~Calling(d)
  BY DEF StreamsInv, RealtimeInv, TypeInv
<1>2. CASE MarkClosed(c)
  <2> DEFINE told == (IF rtCalls[c].prev = NoAgent THEN <<>>
                      ELSE <<Ev("end", rtCalls[c].prev)>>) \o <<Ev("closed", NoAgent)>>
  <2>1. /\ CallAt(c, "close") /\ ThenPush(c, told)
        /\ UNCHANGED <<slotKind, rtEvents, made, rtStreams, overlapped, broken>>
    BY <1>2 DEF MarkClosed
  <2>2. told # <<>>
    OBVIOUS
  <2>3. rtCalls[c].op = "close"
    BY <1>1, <2>1 DEF Leaves, CallAt
  <2> HIDE DEF told
  <2>4. /\ \A d \in Callers \ {c} : rtCalls'[d] = rtCalls[d]
        /\ Leaves(c)' /\ rtCalls'[c].at = "push" /\ rtCalls'[c].op = "close"
    BY <2>1, <2>2, <2>3, MovesOn
  <2>5. Closing' /\ \A d \in Callers : Leaves(d)'
    BY <1>1, <2>4 DEF Closing, CallAt, Leaves
  <2>6. QED
    BY <1>1, <2>1, <2>5, NothingRecorded
<1>3. CASE PushNext(c)
  <2>1. /\ CallAt(c, "push") /\ Calling(c) /\ ThenPush(c, Tail(rtCalls[c].todo))
        /\ rtEvents' = Append(rtEvents, Head(rtCalls[c].todo))
        /\ UNCHANGED <<slotKind, made, rtStreams, overlapped, broken>>
    BY <1>3, IsCalling DEF PushNext
  <2>2. rtEvents' \in Seq(RtEvents)
    BY <1>3, PushStep, KeepsTypes DEF RealtimeInv, TypeInv
  <2>3. Len(rtEvents') = Len(rtEvents) + 1
    BY <2>1, KeepsTypes
  <2>4. \A d \in Callers : Leaves(d)'
    BY <1>1, <2>1, MovesOn DEF Leaves
  <2>5. QED
    BY <1>1, <2>1, <2>2, <2>3, <2>4, EventsCounted, SomeRecorded
<1>4. CASE DropCall(c)
  <2>1. /\ broken' = TRUE /\ rtCalls' = [rtCalls EXCEPT ![c] = NotCalling]
        /\ UNCHANGED <<slotKind, session, rtEvents, made, rtStreams, overlapped>>
    BY <1>4 DEF DropCall
  <2>2. \A d \in Callers : Leaves(d)'
    BY <1>1, <2>1, CallsType, NotCallingType DEF Leaves
  <2>3. QED
    BY <1>1, <2>1, <2>2, NothingRecorded
<1>5. QED
  BY <1>2, <1>3, <1>4

LEMMA SessionKeepsTold ==
    ASSUME RealtimeInv, StreamsInv, RunSession \/ NewSession
    PROVE  StreamsInv'
<1>1. /\ made \in 0..MaxCalls /\ overlapped \in BOOLEAN /\ broken \in BOOLEAN
      /\ \A d \in Callers : Leaves(d)
  BY DEF StreamsInv
<1>2. CASE NewSession
  <2>1. /\ slotKind' # "none"
        /\ UNCHANGED <<session, rtEvents, rtCalls, made, rtStreams, overlapped, broken>>
    BY <1>2 DEF NewSession
  <2>2. (Closing => Closing') /\ \A d \in Callers : Leaves(d)'
    BY <1>1, <2>1 DEF Closing, CallAt, Leaves
  <2>3. QED
    BY <1>1, <2>1, <2>2, NothingRecorded
<1>3. CASE RunSession
  <2>1. /\ slotKind = "none" /\ slotKind' # "none"
        /\ UNCHANGED <<rtCalls, made, rtStreams, overlapped, broken>>
    BY <1>3 DEF RunSession
  <2>2. rtEvents = <<>>
    BY <2>1 DEF StreamsInv
  <2>3. Len(rtEvents') > 0
    BY <1>3 DEF RunSession
  <2>4. rtEvents' \in Seq(RtEvents)
    BY <1>3, RunSessionStep, KeepsTypes DEF RealtimeInv, TypeInv
  <2>5. \A d \in Callers : Leaves(d)'
    BY <1>1, <2>1 DEF Leaves
  <2>6. QED
    BY <2>1, <2>2, <2>3, <2>4, <2>5, SomeRecorded
<1>4. QED
  BY <1>2, <1>3

LEMMA StreamsBegin == ASSUME RealtimeInit PROVE StreamsInv
<1>1. rtEvents = <<>> /\ Len(rtEvents) = 0
  BY DEF RealtimeInit
<1>2. ASSUME NEW s \in RealtimeStreams
      PROVE  StreamInv(s)
  <2>1. rtStreams[s] = NewReader(FALSE)
    BY DEF RealtimeInit
  <2>2. NewReader(FALSE) \in Readers(0, 0) /\ NewReader(FALSE).at # "asleep"
        /\ ~NewReader(FALSE).waits
    BY NewReaderType DEF NewReader
  <2>3. QED
    BY <1>1, <2>1, <2>2 DEF StreamInv
<1>3. \A c \in Callers : Leaves(c)
  BY NotCallingType DEF RealtimeInit, Leaves
<1>4. rtStreams = [s \in RealtimeStreams |-> rtStreams[s]]
  BY DEF RealtimeInit
<1>5. made \in 0..MaxCalls
  BY RealtimeBoundAssumption DEF RealtimeInit
<1>6. QED
  BY <1>1, <1>2, <1>3, <1>4, <1>5 DEF RealtimeInit, StreamsInv

LEMMA StreamsStep ==
    ASSUME RealtimeInv, StreamsInv, [RealtimeNext]_realtimeVars
    PROVE  StreamsInv'
<1>1. CASE RunSession \/ NewSession
  BY <1>1, SessionKeepsTold
<1>2. CASE \E c \in Callers :
              BeginConnect(c) \/ BeginSend(c) \/ BeginInterrupt(c)
              \/ BeginUpdate(c) \/ BeginClose(c)
  BY <1>2, BeginsKeepTold
<1>3. CASE \E c \in Callers :
              \/ CheckConnected(c) \/ DriverConnects(c) \/ MarkConnected(c)
              \/ DriverAnswers(c) \/ ReadActive(c) \/ ReadSettings(c)
              \/ UpdateDriver(c) \/ WriteAgent(c) \/ Disconnect(c) \/ ReadLeaving(c)
  BY <1>3, MovesKeepTold
<1>4. CASE \E c \in Callers : MarkClosed(c) \/ PushNext(c) \/ DropCall(c)
  BY <1>4, EndsKeepTold
<1>5. CASE \E s \in RealtimeStreams : StreamReads(s)
  BY <1>5, OneStreamReads
<1>6. CASE UNCHANGED realtimeVars
  BY <1>6 DEF realtimeVars, StreamsInv, StreamInv, Closing, CallAt, Leaves
<1>7. QED
  BY <1>1, <1>2, <1>3, <1>4, <1>5, <1>6 DEF RealtimeNext

LEMMA StreamsHold ==
    ASSUME RealtimeInv, StreamsInv
    PROVE  StreamsAreTold /\ RealtimeTypeOK
<1>1. StreamsAreTold
  <2>1. SUFFICES ASSUME NEW s \in RealtimeStreams,
                        Forgotten(rtStreams[s], Len(rtEvents), session.closed,
                                  Len(rtEvents)),
                        ~rtStreams[s].late
                 PROVE  rtStreams[s].next > Len(rtEvents) /\ (Closing \/ broken)
    BY Zenon DEF StreamsAreTold, Closing
  <2>2. /\ rtStreams[s].at = "asleep" /\ rtStreams[s].rev = Len(rtEvents)
        /\ session.closed \/ (~rtStreams[s].waits /\ rtStreams[s].next <= Len(rtEvents))
    BY <2>1 DEF Forgotten, HasNews
  <2>3. StreamInv(s)
    BY DEF StreamsInv
  <2>4. Len(rtEvents) \in Nat /\ rtStreams[s].next \in Nat
    BY <2>3, EventsCounted, ReaderType DEF StreamInv
  <2>5. QED
    BY <2>1, <2>2, <2>3, <2>4 DEF StreamInv
<1>2. Kept \subseteq Slots
  BY DEF Kept
<1>3. rtStreams \in [RealtimeStreams -> Readers(Len(rtEvents), Len(rtEvents))]
  BY DEF StreamsInv, StreamInv
<1>4. RealtimeTypeOK
  BY <1>2, <1>3 DEF RealtimeInv, TypeInv, StreamsInv, RealtimeTypeOK
<1>5. QED
  BY <1>1, <1>4

(* A stream of a session that sleeps has something left to hear only when  *)
(* that came between its look and its load of the revision, or when it is  *)
(* the end of a session whose close has its events still to come, or lost  *)
(* them with the call: for any number of callers and of streams.           *)
THEOREM StreamsCorrect == RealtimeSpec => []StreamsAreTold
<1>1. RealtimeInit => RealtimeInv /\ StreamsInv
  BY RealtimeBegins, StreamsBegin
<1>2. RealtimeInv /\ StreamsInv /\ [RealtimeNext]_realtimeVars
        => (RealtimeInv /\ StreamsInv)'
  BY RealtimeStep, StreamsStep
<1>3. RealtimeInv /\ StreamsInv => StreamsAreTold
  BY StreamsHold
<1>4. QED
  BY <1>1, <1>2, <1>3, PTL DEF RealtimeSpec

-----------------------------------------------------------------------------
(* The turns of a voice pipeline.                                          *)

(* The types, but for the length of a record and its listeners.            *)
LogRecords == [len : Nat, result : {"none", "ok", "error"}]
FlowRecords ==
    [at : FlowPlaces, given : Seq(HistoryItems), agent : VoiceAgents, said : 0..MaxTexts]
ChannelRecords ==
    [texts : Seq({"text", "error"}), sender : BOOLEAN, receiver : BOOLEAN]

TurnTypes ==
    /\ pipes \in [VoiceTurns -> PipePlaces]
    /\ logs \in [VoiceTurns -> LogRecords]
    /\ flows \in [VoiceTurns -> FlowRecords]
    /\ channel \in [VoiceTurns -> ChannelRecords]
    /\ history \in Seq(HistoryItems)
    /\ speaker \in VoiceAgents
    /\ crossed \in BOOLEAN

Texts(t) == channel[t].texts
HasError(t) == \E i \in 1..Len(Texts(t)) : Texts(t)[i] = "error"
Owed(t) == IF HasError(t) THEN 2 ELSE 0

(* The two tasks of a turn and the channel between them; what is recorded  *)
(* so far, with two more for each text on its way that is not an error.    *)
PipeInv(t) ==
    /\ pipes[t] \in {"none", "opening"} <=> flows[t].at = "none"
    /\ channel[t].sender <=> flows[t].at # "over"
    /\ flows[t].at # "over" => ~HasError(t)
    /\ flows[t].at \in {"none", "begin"} => Texts(t) = <<>>
    /\ ~channel[t].receiver => pipes[t] \in {"failing", "over"}
    /\ pipes[t] = "failing" => ~channel[t].receiver
    /\ pipes[t] = "closing" \/ (pipes[t] = "over" /\ channel[t].receiver)
           => ~channel[t].sender /\ Texts(t) = <<>>
    /\ logs[t].result = "ok" => pipes[t] = "over" /\ channel[t].receiver
(* What is owed while the pipeline listens or speaks, in one place.        *)
Balance(t) ==
    logs[t].len + 2 * Len(Texts(t)) <= 2 + 2 * flows[t].said + Owed(t)
SpeaksBalance(t) ==
    logs[t].len + 2 * Len(Texts(t)) + 1 <= 2 + 2 * flows[t].said + Owed(t)

RecordInv(t) ==
    /\ pipes[t] \in {"none", "opening"} => logs[t].len <= 2
    /\ pipes[t] = "listening" => Balance(t)
    /\ pipes[t] = "speaking" => SpeaksBalance(t)
    /\ pipes[t] = "failing" => logs[t].len <= 2 + 2 * MaxTexts
    /\ pipes[t] = "closing" => logs[t].len <= 3 + 2 * MaxTexts
    /\ pipes[t] = "over" => logs[t].len <= 4 + 2 * MaxTexts

(* What a step of turn t leaves alone.                                     *)
OtherTurns(t) ==
    \A u \in VoiceTurns \ {t} :
        /\ pipes'[u] = pipes[u] /\ logs'[u] = logs[u]
        /\ flows'[u] = flows[u] /\ channel'[u] = channel[u]

LEMMA TurnType ==
    ASSUME TurnTypes, NEW t \in VoiceTurns
    PROVE  /\ pipes[t] \in PipePlaces
           /\ logs[t].len \in Nat /\ logs[t].result \in {"none", "ok", "error"}
           /\ flows[t].at \in FlowPlaces /\ flows[t].given \in Seq(HistoryItems)
           /\ flows[t].said \in 0..MaxTexts /\ MaxTexts \in Nat /\ flows[t].said \in Nat
           /\ Texts(t) \in Seq({"text", "error"}) /\ Len(Texts(t)) \in Nat
           /\ channel[t].sender \in BOOLEAN /\ channel[t].receiver \in BOOLEAN
<1>1. /\ pipes[t] \in PipePlaces /\ logs[t] \in LogRecords
      /\ flows[t] \in FlowRecords /\ channel[t] \in ChannelRecords
  BY DEF TurnTypes
<1>2. /\ logs[t].len \in Nat /\ logs[t].result \in {"none", "ok", "error"}
      /\ flows[t].at \in FlowPlaces /\ flows[t].given \in Seq(HistoryItems)
      /\ flows[t].said \in 0..MaxTexts
      /\ channel[t].texts \in Seq({"text", "error"})
      /\ channel[t].sender \in BOOLEAN /\ channel[t].receiver \in BOOLEAN
  BY <1>1 DEF LogRecords, FlowRecords, ChannelRecords
<1>3. QED
  BY <1>1, <1>2, VoiceAssumption DEF Texts

(* What the steps do to the four parts of a turn.                          *)
LEMMA PipeGoesOn ==
    ASSUME TurnTypes, NEW t \in VoiceTurns, NEW to \in PipePlaces,
           pipes' = [pipes EXCEPT ![t] = to]
    PROVE  /\ pipes' \in [VoiceTurns -> PipePlaces] /\ pipes'[t] = to
           /\ \A u \in VoiceTurns \ {t} : pipes'[u] = pipes[u]
  BY DEF TurnTypes

LEMMA LogBecomes ==
    ASSUME TurnTypes, NEW t \in VoiceTurns, NEW l \in LogRecords,
           logs' = [logs EXCEPT ![t] = l]
    PROVE  /\ logs' \in [VoiceTurns -> LogRecords] /\ logs'[t] = l
           /\ \A u \in VoiceTurns \ {t} : logs'[u] = logs[u]
  BY DEF TurnTypes

LEMMA OneRecorded ==
    ASSUME TurnTypes, NEW t \in VoiceTurns, Record(t)
    PROVE  /\ logs' \in [VoiceTurns -> LogRecords]
           /\ logs'[t].len = logs[t].len + 1 /\ logs'[t].result = logs[t].result
           /\ \A u \in VoiceTurns \ {t} : logs'[u] = logs[u]
<1>1. PICK l : l = [logs[t] EXCEPT !.len = logs[t].len + 1]
  OBVIOUS
<1>2. logs[t] \in LogRecords
  BY DEF TurnTypes
<1>3. l \in LogRecords /\ l.len = logs[t].len + 1 /\ l.result = logs[t].result
  BY <1>1, <1>2 DEF LogRecords
<1>4. logs' = [logs EXCEPT ![t] = l]
  BY <1>1 DEF Record
<1>5. QED
  BY <1>3, <1>4, LogBecomes

LEMMA FlowBecomes ==
    ASSUME TurnTypes, NEW t \in VoiceTurns, NEW f \in FlowRecords,
           flows' = [flows EXCEPT ![t] = f]
    PROVE  /\ flows' \in [VoiceTurns -> FlowRecords] /\ flows'[t] = f
           /\ \A u \in VoiceTurns \ {t} : flows'[u] = flows[u]
  BY DEF TurnTypes

LEMMA FlowGoesOn ==
    ASSUME TurnTypes, NEW t \in VoiceTurns, NEW place \in FlowPlaces, FlowGoes(t, place)
    PROVE  /\ flows' \in [VoiceTurns -> FlowRecords]
           /\ flows'[t].at = place /\ flows'[t].said = flows[t].said
           /\ flows'[t].given = flows[t].given
           /\ \A u \in VoiceTurns \ {t} : flows'[u] = flows[u]
<1>1. PICK f : f = [flows[t] EXCEPT !.at = place]
  OBVIOUS
<1>2. flows[t] \in FlowRecords
  BY DEF TurnTypes
<1>3. f \in FlowRecords /\ f.at = place /\ f.said = flows[t].said
      /\ f.given = flows[t].given
  BY <1>1, <1>2 DEF FlowRecords
<1>4. flows' = [flows EXCEPT ![t] = f]
  BY <1>1 DEF FlowGoes
<1>5. QED
  BY <1>3, <1>4, FlowBecomes

LEMMA ChannelBecomes ==
    ASSUME TurnTypes, NEW t \in VoiceTurns, NEW c \in ChannelRecords,
           channel' = [channel EXCEPT ![t] = c]
    PROVE  /\ channel' \in [VoiceTurns -> ChannelRecords] /\ channel'[t] = c
           /\ \A u \in VoiceTurns \ {t} : channel'[u] = channel[u]
  BY DEF TurnTypes

LEMMA NoTextsNoError ==
    ASSUME NEW t, Texts(t) = <<>>
    PROVE  ~HasError(t) /\ Len(Texts(t)) = 0 /\ Owed(t) = 0
  BY DEF HasError, Owed

(* The pipeline's task: the steps that leave the channel alone.            *)
LEMMA PipeSteps ==
    ASSUME TurnTypes, NEW t \in VoiceTurns, PipeInv(t), RecordInv(t),
           \/ StartTurn(t) \/ RecordOpening(t) \/ RunWorkflow(t) \/ Speak(t)
           \/ HearEnd(t) \/ RecordEnd(t) \/ RecordError(t) \/ SetResult(t)
    PROVE  TurnTypes' /\ OtherTurns(t) /\ PipeInv(t)' /\ RecordInv(t)'
<1> USE TurnType
<1>1. CASE StartTurn(t)
  <2>1. pipes[t] = "none" /\ pipes' = [pipes EXCEPT ![t] = "opening"]
        /\ UNCHANGED <<logs, flows, channel, history, speaker, crossed>>
    BY <1>1 DEF StartTurn, PipeAt, PipeGoes
  <2>2. TurnTypes' /\ pipes'[t] = "opening" /\ OtherTurns(t)
    BY <2>1, PipeGoesOn DEF TurnTypes, PipePlaces, OtherTurns
  <2>3. QED
    BY <2>1, <2>2 DEF PipeInv, RecordInv, Balance, SpeaksBalance, Texts, HasError, Owed
<1>2. CASE RecordOpening(t) \/ Speak(t) \/ HearEnd(t) \/ RecordEnd(t) \/ RecordError(t)
  <2>1. PICK to \in PipePlaces :
            /\ pipes' = [pipes EXCEPT ![t] = to]
            /\ \/ pipes[t] = "opening" /\ to = "opening" /\ logs[t].len < 2
               \/ pipes[t] = "speaking" /\ to = "listening"
               \/ /\ pipes[t] = "listening" /\ to = "closing"
                  /\ Texts(t) = <<>> /\ ~channel[t].sender
               \/ pipes[t] = "closing" /\ to = "over"
               \/ pipes[t] = "failing" /\ to = "over"
    <3>1. CASE RecordOpening(t)
      BY <3>1 DEF RecordOpening, PipeAt, TurnTypes, PipePlaces
    <3>2. CASE Speak(t)
      BY <3>2 DEF Speak, PipeAt, PipeGoes, PipePlaces
    <3>3. CASE HearEnd(t)
      BY <3>3 DEF HearEnd, PipeAt, PipeGoes, PipePlaces, Texts
    <3>4. CASE RecordEnd(t)
      BY <3>4 DEF RecordEnd, PipeAt, PipeGoes, PipePlaces
    <3>5. CASE RecordError(t)
      BY <3>5 DEF RecordError, PipeAt, PipeGoes, PipePlaces
    <3>6. QED
      BY <1>2, <3>1, <3>2, <3>3, <3>4, <3>5
  <2>2. Record(t) /\ UNCHANGED <<flows, channel, history, speaker, crossed>>
    BY <1>2 DEF RecordOpening, Speak, HearEnd, RecordEnd, RecordError
  <2>3. /\ TurnTypes' /\ OtherTurns(t)
        /\ pipes'[t] = to /\ logs'[t].len = logs[t].len + 1
        /\ logs'[t].result = logs[t].result
    BY <2>1, <2>2, PipeGoesOn, OneRecorded DEF TurnTypes, OtherTurns
  <2>4. /\ Texts(t)' = Texts(t) /\ (HasError(t)' <=> HasError(t))
        /\ Owed(t)' = Owed(t) /\ Owed(t) \in {0, 2}
        /\ flows'[t] = flows[t] /\ channel'[t] = channel[t]
    BY <2>2 DEF Texts, HasError, Owed
  <2>5. PipeInv(t)'
    BY <2>1, <2>3, <2>4 DEF PipeInv
  <2>6. RecordInv(t)'
    <3>1. CASE pipes[t] = "opening" /\ to = "opening" /\ logs[t].len < 2
      BY <3>1, <2>3 DEF RecordInv, Balance, SpeaksBalance
    <3>2. CASE pipes[t] = "speaking" /\ to = "listening"
      BY <3>2, <2>3, <2>4 DEF RecordInv, Balance, SpeaksBalance
    <3>3. CASE /\ pipes[t] = "listening" /\ to = "closing"
               /\ Texts(t) = <<>> /\ ~channel[t].sender
      BY <3>3, <2>3, NoTextsNoError DEF RecordInv, Balance, SpeaksBalance
    <3>4. CASE pipes[t] = "closing" /\ to = "over"
      BY <3>4, <2>3 DEF RecordInv, Balance, SpeaksBalance
    <3>5. CASE pipes[t] = "failing" /\ to = "over"
      BY <3>5, <2>3 DEF RecordInv, Balance, SpeaksBalance
    <3>6. QED
      BY <2>1, <3>1, <3>2, <3>3, <3>4, <3>5
  <2>7. QED
    BY <2>3, <2>5, <2>6
<1>3. CASE RunWorkflow(t)
  <2>1. /\ pipes[t] = "opening" /\ logs[t].len = 2
        /\ pipes' = [pipes EXCEPT ![t] = "listening"]
        /\ FlowGoes(t, "begin")
        /\ crossed' \in BOOLEAN
        /\ UNCHANGED <<logs, channel, history, speaker>>
    BY <1>3 DEF RunWorkflow, PipeAt, PipeGoes, TurnTypes
  <2>2. /\ TurnTypes' /\ OtherTurns(t) /\ pipes'[t] = "listening"
        /\ flows'[t].at = "begin" /\ flows'[t].said = flows[t].said
    <3>1. "listening" \in PipePlaces /\ "begin" \in FlowPlaces
      BY DEF PipePlaces, FlowPlaces
    <3>2. /\ pipes' \in [VoiceTurns -> PipePlaces] /\ pipes'[t] = "listening"
          /\ \A u \in VoiceTurns \ {t} : pipes'[u] = pipes[u]
      BY <2>1, <3>1, PipeGoesOn
    <3>3. /\ flows' \in [VoiceTurns -> FlowRecords]
          /\ flows'[t].at = "begin" /\ flows'[t].said = flows[t].said
          /\ \A u \in VoiceTurns \ {t} : flows'[u] = flows[u]
      BY <2>1, <3>1, FlowGoesOn
    <3>4. QED
      BY <2>1, <3>2, <3>3 DEF TurnTypes, OtherTurns
  <2>3. flows[t].at = "none" /\ Texts(t) = <<>> /\ Len(Texts(t)) = 0
    BY <2>1 DEF PipeInv
  <2>4. PipeInv(t)'
    BY <2>1, <2>2, <2>3 DEF PipeInv, Texts, HasError
  <2>5. RecordInv(t)'
    BY <2>1, <2>2, <2>3 DEF RecordInv, Balance, SpeaksBalance, Texts, HasError, Owed
  <2>6. QED
    BY <2>2, <2>4, <2>5
<1>4. CASE SetResult(t)
  <2>1. PICK result \in {"ok", "error"} :
            /\ logs' = [logs EXCEPT ![t].result = result]
            /\ result = "ok" => channel[t].receiver
    BY <1>4 DEF SetResult
  <2>2. pipes[t] = "over" /\ UNCHANGED <<pipes, flows, channel, history, speaker, crossed>>
    BY <1>4 DEF SetResult, PipeAt
  <2>3. PICK l : l = [logs[t] EXCEPT !.result = result]
    OBVIOUS
  <2>4. l \in LogRecords /\ l.len = logs[t].len /\ l.result = result
    <3>1. logs[t] \in LogRecords
      BY DEF TurnTypes
    <3>2. QED
      BY <2>3, <3>1 DEF LogRecords
  <2>5. /\ TurnTypes' /\ OtherTurns(t)
        /\ logs'[t].len = logs[t].len /\ logs'[t].result = result
    BY <2>1, <2>2, <2>3, <2>4, LogBecomes DEF TurnTypes, OtherTurns
  <2>6. QED
    BY <2>1, <2>2, <2>5 DEF PipeInv, RecordInv, Balance, SpeaksBalance, Texts, HasError, Owed
<1>5. QED
  BY <1>1, <1>2, <1>3, <1>4

(* What is at the head of the channel goes, or the whole of it.            *)
LEMMA TailError ==
    ASSUME NEW s \in Seq({"text", "error"}), s # <<>>, Head(s) # "error"
    PROVE  /\ Tail(s) \in Seq({"text", "error"}) /\ Len(Tail(s)) = Len(s) - 1
           /\ Len(s) \in Nat /\ Len(s) >= 1
           /\ (\E i \in 1..Len(Tail(s)) : Tail(s)[i] = "error")
                <=> (\E i \in 1..Len(s) : s[i] = "error")
<1>1. /\ Len(s) \in Nat /\ Len(s) >= 1 /\ Head(s) = s[1]
      /\ Tail(s) \in Seq({"text", "error"}) /\ Len(Tail(s)) = Len(s) - 1
      /\ \A i \in 1..(Len(s) - 1) : Tail(s)[i] = s[i + 1]
  OBVIOUS
<1>2. ASSUME NEW i \in 1..Len(s), s[i] = "error"
      PROVE  \E j \in 1..Len(Tail(s)) : Tail(s)[j] = "error"
  <2>1. i # 1
    BY <1>1, <1>2
  <2>2. (i - 1) \in 1..(Len(s) - 1) /\ (i - 1) + 1 = i
    BY <1>1, <2>1
  <2>3. Tail(s)[i - 1] = "error"
    BY <1>1, <1>2, <2>2
  <2>4. QED
    BY <1>1, <2>2, <2>3
<1>3. ASSUME NEW i \in 1..Len(Tail(s)), Tail(s)[i] = "error"
      PROVE  \E j \in 1..Len(s) : s[j] = "error"
  <2>1. i \in 1..(Len(s) - 1) /\ (i + 1) \in 1..Len(s)
    BY <1>1
  <2>2. QED
    BY <1>1, <1>3, <2>1
<1>4. QED
  BY <1>1, <1>2, <1>3

LEMMA FailStep ==
    ASSUME TurnTypes, NEW t \in VoiceTurns, PipeInv(t), RecordInv(t), Fails(t),
           pipes[t] \in {"listening", "speaking"}, HasError(t) \/ pipes[t] = "speaking",
           UNCHANGED <<logs, flows, history, speaker, crossed>>
    PROVE  TurnTypes' /\ OtherTurns(t) /\ PipeInv(t)' /\ RecordInv(t)' /\ ~channel'[t].receiver
<1> USE TurnType
<1>1. /\ pipes' = [pipes EXCEPT ![t] = "failing"]
      /\ channel' = [channel EXCEPT ![t].texts = <<>>, ![t].receiver = FALSE]
  BY DEF Fails, PipeGoes
<1>2. /\ TurnTypes' /\ OtherTurns(t) /\ pipes'[t] = "failing"
      /\ channel'[t].texts = <<>> /\ ~channel'[t].receiver
      /\ channel'[t].sender = channel[t].sender
  <2>1. PICK c : c = [channel[t] EXCEPT !.texts = <<>>, !.receiver = FALSE]
    OBVIOUS
  <2>2. c \in ChannelRecords /\ c.texts = <<>> /\ ~c.receiver
        /\ c.sender = channel[t].sender
    <3>1. channel[t] \in ChannelRecords
      BY DEF TurnTypes
    <3>2. <<>> \in Seq({"text", "error"})
      OBVIOUS
    <3>3. QED
      BY <2>1, <3>1, <3>2 DEF ChannelRecords
  <2>3. channel' = [channel EXCEPT ![t] = c]
    BY <1>1, <2>1
  <2>4. /\ channel' \in [VoiceTurns -> ChannelRecords] /\ channel'[t] = c
        /\ \A u \in VoiceTurns \ {t} : channel'[u] = channel[u]
    BY <2>2, <2>3, ChannelBecomes
  <2>5. /\ pipes' \in [VoiceTurns -> PipePlaces] /\ pipes'[t] = "failing"
        /\ \A u \in VoiceTurns \ {t} : pipes'[u] = pipes[u]
    BY <1>1, PipeGoesOn DEF PipePlaces
  <2>6. QED
    BY <2>2, <2>4, <2>5 DEF TurnTypes, OtherTurns
<1>3. HasError(t) => Len(Texts(t)) >= 1
  BY DEF HasError
<1>4. logs[t].len <= 2 + 2 * MaxTexts
  <2>1. CASE pipes[t] = "speaking"
    <3>1. logs[t].len + 2 * Len(Texts(t)) + 1
              <= 2 + 2 * flows[t].said + Owed(t)
      BY <2>1 DEF RecordInv, Balance, SpeaksBalance
    <3>2. Owed(t) = 0 \/ (Owed(t) = 2 /\ Len(Texts(t)) >= 1)
      BY <1>3 DEF Owed
    <3>3. QED
      BY <3>1, <3>2, SMTT(30)
  <2>2. CASE pipes[t] = "listening"
    <3>1. HasError(t)
      BY <2>2
    <3>2. logs[t].len + 2 * Len(Texts(t)) <= 2 + 2 * flows[t].said + 2
      <4>1. Balance(t) /\ Owed(t) = 2
        BY <2>2, <3>1 DEF RecordInv, Owed
      <4>2. QED
        BY <4>1 DEF Balance
    <3>3. QED
      BY <1>3, <3>1, <3>2
  <2>3. QED
    BY <2>1, <2>2
<1>5. PipeInv(t)'
  BY <1>2 DEF PipeInv, Texts, HasError
<1>6. RecordInv(t)'
  BY <1>2, <1>4 DEF RecordInv, Balance, SpeaksBalance
<1>7. QED
  BY <1>2, <1>5, <1>6

LEMMA HearSteps ==
    ASSUME TurnTypes, NEW t \in VoiceTurns, PipeInv(t), RecordInv(t),
           HearText(t) \/ SpeakFails(t)
    PROVE  TurnTypes' /\ OtherTurns(t) /\ PipeInv(t)' /\ RecordInv(t)'
           /\ (~channel'[t].receiver \/ (channel'[t].receiver = channel[t].receiver
                                          /\ (HasError(t)' <=> HasError(t))))
<1> USE TurnType
<1>1. UNCHANGED <<flows, history, speaker, crossed>>
  BY DEF HearText, SpeakFails
<1>2. CASE SpeakFails(t)
  <2>1. pipes[t] = "speaking" /\ Fails(t) /\ UNCHANGED logs
    BY <1>2 DEF SpeakFails, PipeAt
  <2>2. QED
    BY <1>1, <2>1, FailStep
<1>3. CASE HearText(t) /\ Head(Texts(t)) = "error"
  <2>1. pipes[t] = "listening" /\ Texts(t) # <<>> /\ Fails(t) /\ UNCHANGED logs
    BY <1>3 DEF HearText, PipeAt, Texts
  <2>2. HasError(t)
    <3>1. 1 \in 1..Len(Texts(t)) /\ Texts(t)[1] = "error"
      BY <1>3, <2>1
    <3>2. QED
      BY <3>1 DEF HasError
  <2>3. QED
    BY <1>1, <2>1, <2>2, FailStep
<1>4. CASE HearText(t) /\ Head(Texts(t)) # "error"
  <2>1. PICK to \in {"speaking", "listening"} : pipes' = [pipes EXCEPT ![t] = to]
    BY <1>4 DEF HearText, PipeGoes, Texts
  <2>2. /\ pipes[t] = "listening" /\ Texts(t) # <<>>
        /\ Record(t)
        /\ channel' = [channel EXCEPT ![t].texts = Tail(@)]
    BY <1>4 DEF HearText, PipeAt, Texts
  <2>3. /\ Tail(Texts(t)) \in Seq({"text", "error"})
        /\ Len(Tail(Texts(t))) = Len(Texts(t)) - 1 /\ Len(Texts(t)) >= 1
    BY <1>4, <2>2, TailError
  <2>4. PICK c : c = [channel[t] EXCEPT !.texts = Tail(Texts(t))]
    OBVIOUS
  <2>5. /\ c \in ChannelRecords /\ c.texts = Tail(Texts(t))
        /\ c.sender = channel[t].sender /\ c.receiver = channel[t].receiver
    <3>1. channel[t] \in ChannelRecords
      BY DEF TurnTypes
    <3>2. QED
      BY <2>3, <2>4, <3>1 DEF ChannelRecords
  <2>6. /\ pipes'[t] = to /\ logs'[t].len = logs[t].len + 1
        /\ logs'[t].result = logs[t].result /\ channel'[t] = c
        /\ Texts(t)' = Tail(Texts(t)) /\ flows'[t] = flows[t]
        /\ TurnTypes' /\ OtherTurns(t)
    <3>1. channel' = [channel EXCEPT ![t] = c] /\ to \in PipePlaces
      BY <2>2, <2>4 DEF Texts, PipePlaces
    <3>2. /\ channel' \in [VoiceTurns -> ChannelRecords] /\ channel'[t] = c
          /\ \A u \in VoiceTurns \ {t} : channel'[u] = channel[u]
      BY <2>5, <3>1, ChannelBecomes
    <3>3. /\ pipes' \in [VoiceTurns -> PipePlaces] /\ pipes'[t] = to
          /\ \A u \in VoiceTurns \ {t} : pipes'[u] = pipes[u]
      BY <2>1, <3>1, PipeGoesOn
    <3>4. QED
      BY <1>1, <2>2, <2>5, <3>2, <3>3, OneRecorded DEF TurnTypes, OtherTurns, Texts
  <2>7. HasError(t)' <=> HasError(t)
    BY <1>4, <2>2, <2>6, TailError, SMTT(30) DEF HasError
  <2>8. PipeInv(t)'
    BY <2>1, <2>2, <2>5, <2>6, <2>7 DEF PipeInv
  <2>9. RecordInv(t)'
    <3>1. logs[t].len + 2 * Len(Texts(t))
              <= 2 + 2 * flows[t].said + Owed(t)
      BY <2>2 DEF RecordInv, Balance, SpeaksBalance
    <3>2. logs'[t].len + 2 * Len(Texts(t)') + 1 <= 2 + 2 * flows[t].said + Owed(t)
      BY <2>3, <2>6, <3>1 DEF Owed
    <3>3. Owed(t)' = Owed(t)
      BY <2>7 DEF Owed
    <3>4. Len(Texts(t)') \in Nat /\ Owed(t) \in Nat
      BY <2>3, <2>6 DEF Owed
    <3>5. CASE to = "listening"
      <4>1. Balance(t)'
        <5>1. flows'[t].said = flows[t].said /\ logs'[t].len \in Nat
          BY <2>6
        <5>2. logs'[t].len + 2 * Len(Texts(t)') <= 2 + 2 * flows[t].said + Owed(t)
          BY <3>2, <3>4, <5>1
        <5>3. QED
          BY <3>3, <5>1, <5>2 DEF Balance
      <4>2. pipes'[t] = "listening"
        BY <2>6, <3>5
      <4>3. QED
        BY <4>1, <4>2 DEF RecordInv
    <3>6. CASE to = "speaking"
      BY <2>6, <3>2, <3>3, <3>4, <3>6 DEF RecordInv, Balance, SpeaksBalance
    <3>7. QED
      BY <2>1, <3>5, <3>6
  <2>10. QED
    BY <2>5, <2>6, <2>7, <2>8, <2>9
<1>5. QED
  BY <1>2, <1>3, <1>4

(* The workflow's task.                                                    *)
LEMMA OneSent ==
    ASSUME TurnTypes, NEW t \in VoiceTurns, NEW text \in {"text", "error"},
           NEW c, c.texts = Append(Texts(t), text),
           channel'[t] = c
    PROVE  /\ Len(Texts(t)') = Len(Texts(t)) + 1
           /\ HasError(t)' <=> HasError(t) \/ text = "error"
<1>1. /\ Texts(t)' = Append(Texts(t), text)
      /\ Texts(t) \in Seq({"text", "error"}) /\ Len(Texts(t)) \in Nat
  BY TurnType DEF Texts
<1>2. PICK n \in Nat : n = Len(Texts(t))
  BY <1>1
<1>3. /\ Len(Texts(t)') = n + 1
      /\ \A i \in 1..n : Texts(t)'[i] = Texts(t)[i]
      /\ Texts(t)'[n + 1] = text
  BY <1>1, <1>2
<1>4. HasError(t)' <=> \E i \in 1..(n + 1) : Texts(t)'[i] = "error"
  BY <1>3 DEF HasError
<1>5. HasError(t) <=> \E i \in 1..n : Texts(t)[i] = "error"
  BY <1>2 DEF HasError
<1>6. ASSUME HasError(t)' PROVE HasError(t) \/ text = "error"
  <2>1. PICK i \in 1..(n + 1) : Texts(t)'[i] = "error"
    BY <1>4, <1>6
  <2>2. i = n + 1 \/ i \in 1..n
    OBVIOUS
  <2>3. QED
    BY <1>3, <1>5, <2>1, <2>2
<1>7. ASSUME HasError(t) \/ text = "error" PROVE HasError(t)'
  <2>1. CASE text = "error"
    BY <1>3, <1>4, <2>1
  <2>2. CASE HasError(t)
    <3>1. PICK i \in 1..n : Texts(t)[i] = "error"
      BY <1>5, <2>2
    <3>2. i \in 1..(n + 1)
      OBVIOUS
    <3>3. QED
      BY <1>3, <1>4, <3>1, <3>2
  <2>3. QED
    BY <1>7, <2>1, <2>2
<1>8. QED
  BY <1>2, <1>3, <1>6, <1>7

AgentItems(t, n) == [k \in 1..n |-> [turn |-> t, by |-> "agent"]]

LEMMA HistoryTypes ==
    ASSUME NEW t \in VoiceTurns, NEW n \in Nat
    PROVE  /\ [turn |-> t, by |-> "user"] \in HistoryItems
           /\ AgentItems(t, n) \in Seq(HistoryItems) /\ Len(AgentItems(t, n)) = n
           /\ \A k \in 1..n : AgentItems(t, n)[k] = [turn |-> t, by |-> "agent"]
<1>1. [turn |-> t, by |-> "user"] \in HistoryItems /\ [turn |-> t, by |-> "agent"] \in HistoryItems
  BY DEF HistoryItems
<1>2. AgentItems(t, n) \in [1..n -> HistoryItems]
  BY <1>1 DEF AgentItems
<1>3. QED
  BY <1>1, <1>2 DEF AgentItems

(* A flow that is at work has its sender, and a pipeline that listens or   *)
(* that has failed.                                                        *)
LEMMA AtWork ==
    ASSUME TurnTypes, NEW t \in VoiceTurns, PipeInv(t), flows[t].at \in {"begin", "running"}
    PROVE  /\ channel[t].sender /\ ~HasError(t) /\ Owed(t) = 0
           /\ channel[t].receiver => pipes[t] \in {"listening", "speaking"}
           /\ ~channel[t].receiver => pipes[t] \in {"failing", "over"}
           /\ pipes[t] \notin {"none", "opening", "closing"}
<1>1. pipes[t] \in PipePlaces
  BY TurnType
<1>2. QED
  BY <1>1 DEF PipeInv, PipePlaces, Owed

LEMMA FlowBeginStep ==
    ASSUME TurnTypes, NEW t \in VoiceTurns, PipeInv(t), RecordInv(t), FlowBegins(t)
    PROVE  /\ TurnTypes' /\ OtherTurns(t) /\ PipeInv(t)' /\ RecordInv(t)'
           /\ flows'[t].at = "running" /\ flows'[t].given = history'
           /\ history' = Append(history, [turn |-> t, by |-> "user"])
<1>1. /\ flows[t].at = "begin"
      /\ history' = Append(history, [turn |-> t, by |-> "user"])
      /\ flows' = [flows EXCEPT ![t].at = "running", ![t].given = history',
                                ![t].agent = speaker]
      /\ UNCHANGED <<pipes, logs, channel, speaker, crossed>>
  BY DEF FlowBegins, FlowAt
<1>2. history' \in Seq(HistoryItems)
  <2>1. history \in Seq(HistoryItems) /\ [turn |-> t, by |-> "user"] \in HistoryItems
    BY DEF TurnTypes, HistoryItems
  <2>2. QED
    BY <1>1, <2>1
<1>3. PICK given \in Seq(HistoryItems) : given = history'
  BY <1>2
<1>4. PICK f : f = [flows[t] EXCEPT !.at = "running", !.given = given, !.agent = speaker]
  OBVIOUS
<1>5. f \in FlowRecords /\ f.at = "running" /\ f.given = given /\ f.said = flows[t].said
  <2>1. flows[t] \in FlowRecords /\ speaker \in VoiceAgents
    BY DEF TurnTypes
  <2>2. QED
    BY <1>4, <2>1 DEF FlowRecords, FlowPlaces
<1>6. flows' = [flows EXCEPT ![t] = f]
  BY <1>1, <1>3, <1>4
<1>7. flows'[t] = f /\ TurnTypes' /\ OtherTurns(t)
  BY <1>1, <1>2, <1>5, <1>6, FlowBecomes DEF TurnTypes, OtherTurns
<1>8. UNCHANGED <<pipes[t], logs[t], channel[t], Texts(t), HasError(t), Owed(t)>>
  BY <1>1 DEF Texts, HasError, Owed
<1>9. PipeInv(t)'
  BY <1>1, <1>5, <1>7, <1>8 DEF PipeInv
<1>10. RecordInv(t)'
  BY <1>5, <1>7, <1>8 DEF RecordInv, Balance, SpeaksBalance
<1>11. QED
  BY <1>1, <1>3, <1>5, <1>7, <1>9, <1>10

LEMMA FlowSendStep ==
    ASSUME TurnTypes, NEW t \in VoiceTurns, PipeInv(t), RecordInv(t), FlowSends(t)
    PROVE  /\ TurnTypes' /\ OtherTurns(t) /\ PipeInv(t)' /\ RecordInv(t)'
           /\ flows[t].at = "running" /\ UNCHANGED history
           /\ IF channel[t].receiver
              THEN flows'[t].at = "running" /\ flows'[t].given = flows[t].given
              ELSE flows'[t].at = "over" /\ ~channel'[t].receiver
<1> USE TurnType
<1>1. /\ flows[t].at = "running" /\ flows[t].said < MaxTexts
      /\ UNCHANGED <<pipes, logs, history, speaker, crossed>>
  BY DEF FlowSends, FlowAt
<1>2. channel[t] \in ChannelRecords /\ flows[t] \in FlowRecords
  BY DEF TurnTypes
<1>3. UNCHANGED <<pipes[t], logs[t]>>
  BY <1>1
<1>4. CASE channel[t].receiver
  <2>1. PICK c : c = [channel[t] EXCEPT !.texts = Append(Texts(t), "text")]
    OBVIOUS
  <2>2. PICK f : f = [flows[t] EXCEPT !.said = flows[t].said + 1]
    OBVIOUS
  <2>3. Append(Texts(t), "text") \in Seq({"text", "error"}) /\ (flows[t].said + 1) \in 0..MaxTexts
    BY <1>1
  <2>4. /\ c \in ChannelRecords /\ c.texts = Append(Texts(t), "text")
        /\ c.sender = channel[t].sender /\ c.receiver = channel[t].receiver
    BY <1>2, <2>1, <2>3 DEF ChannelRecords
  <2>5. /\ f \in FlowRecords /\ f.at = "running" /\ f.given = flows[t].given
        /\ f.said = flows[t].said + 1
    BY <1>1, <1>2, <2>2, <2>3 DEF FlowRecords
  <2>6. channel' = [channel EXCEPT ![t] = c] /\ flows' = [flows EXCEPT ![t] = f]
    BY <1>4, <2>1, <2>2 DEF FlowSends, Send, Texts
  <2>7. channel'[t] = c /\ flows'[t] = f /\ TurnTypes' /\ OtherTurns(t)
    BY <1>1, <2>4, <2>5, <2>6, ChannelBecomes, FlowBecomes DEF TurnTypes, OtherTurns
  <2>8. Len(Texts(t)') = Len(Texts(t)) + 1 /\ (HasError(t)' <=> HasError(t))
    BY <2>4, <2>7, OneSent
  <2>9. pipes[t] \in {"listening", "speaking"} /\ ~HasError(t) /\ Owed(t) = 0
    BY <1>1, <1>4, AtWork
  <2>10. Owed(t)' = 0
    BY <2>8, <2>9 DEF Owed
  <2>11. PipeInv(t)'
    BY <1>1, <1>3, <1>4, <2>4, <2>5, <2>7, <2>8, <2>9 DEF PipeInv
  <2>12. RecordInv(t)'
    <3>1. PICK l \in Nat, n \in Nat, s \in Nat :
              l = logs[t].len /\ n = Len(Texts(t)) /\ s = flows[t].said
      OBVIOUS
    <3>2. /\ l = logs'[t].len /\ n + 1 = Len(Texts(t)') /\ s + 1 = flows'[t].said
          /\ Owed(t) = 0 /\ Owed(t)' = 0
      BY <1>3, <2>5, <2>7, <2>8, <2>9, <2>10, <3>1
    <3>3. /\ Balance(t) => l + 2 * n <= 2 + 2 * s
          /\ SpeaksBalance(t) => l + 2 * n + 1 <= 2 + 2 * s
      BY <3>1, <3>2 DEF Balance, SpeaksBalance
    <3>4. /\ l + 2 * (n + 1) <= 2 + 2 * (s + 1) => Balance(t)'
          /\ l + 2 * (n + 1) + 1 <= 2 + 2 * (s + 1) => SpeaksBalance(t)'
      <4>1. Balance(t)' <=> l + 2 * (n + 1) <= 2 + 2 * (s + 1) + 0
        BY <3>2 DEF Balance
      <4>2. SpeaksBalance(t)' <=> l + 2 * (n + 1) + 1 <= 2 + 2 * (s + 1) + 0
        BY <3>2 DEF SpeaksBalance
      <4>3. QED
        BY <4>1, <4>2
    <3>5. (Balance(t) => Balance(t)') /\ (SpeaksBalance(t) => SpeaksBalance(t)')
      BY <3>3, <3>4
    <3>6. QED
      BY <1>3, <2>9, <3>5 DEF RecordInv
  <2>13. QED
    BY <1>1, <1>4, <2>5, <2>7, <2>11, <2>12
<1>5. CASE ~channel[t].receiver
  <2>1. PICK c : c = [channel[t] EXCEPT !.sender = FALSE]
    OBVIOUS
  <2>2. /\ c \in ChannelRecords /\ c.texts = Texts(t) /\ ~c.sender /\ ~c.receiver
    BY <1>2, <1>5, <2>1 DEF ChannelRecords, Texts
  <2>3. channel' = [channel EXCEPT ![t] = c] /\ FlowGoes(t, "over")
    BY <1>5, <2>1 DEF FlowSends
  <2>4. channel'[t] = c /\ flows'[t].at = "over" /\ TurnTypes' /\ OtherTurns(t)
    BY <1>1, <2>2, <2>3, ChannelBecomes, FlowGoesOn DEF TurnTypes, OtherTurns, FlowPlaces
  <2>5. pipes[t] \in {"failing", "over"}
    BY <1>1, <1>5, AtWork
  <2>6. PipeInv(t)' /\ RecordInv(t)'
    BY <1>1, <1>3, <2>2, <2>4, <2>5 DEF PipeInv, RecordInv
  <2>7. QED
    BY <1>1, <1>5, <2>2, <2>4, <2>6
<1>6. QED
  BY <1>4, <1>5

(* The flow ends, with an error or without, and its sender goes.           *)
LEMMA FlowEndStep ==
    ASSUME TurnTypes, NEW t \in VoiceTurns, PipeInv(t), RecordInv(t),
           FlowFails(t) \/ FlowKeeps(t)
    PROVE  /\ TurnTypes' /\ OtherTurns(t) /\ PipeInv(t)' /\ RecordInv(t)'
           /\ flows[t].at = "running" /\ flows'[t].at = "over"
           /\ flows'[t].said = flows[t].said
           /\ channel'[t].receiver = channel[t].receiver
           /\ FlowFails(t) => UNCHANGED history /\ (channel[t].receiver => HasError(t)')
<1> USE TurnType
<1>1. /\ flows[t].at = "running" /\ FlowGoes(t, "over")
      /\ UNCHANGED <<pipes, logs, crossed>>
  BY DEF FlowFails, FlowKeeps, FlowAt
<1>2. channel[t] \in ChannelRecords /\ UNCHANGED <<pipes[t], logs[t]>>
  BY <1>1 DEF TurnTypes
<1>3. history' \in Seq(HistoryItems) /\ speaker' \in VoiceAgents
  <2>1. CASE FlowFails(t)
    BY <2>1 DEF FlowFails, TurnTypes
  <2>2. CASE FlowKeeps(t)
    <3>1. history' = flows[t].given \o AgentItems(t, flows[t].said) /\ speaker' \in VoiceAgents
      BY <2>2 DEF FlowKeeps, InputList, AgentItems
    <3>2. AgentItems(t, flows[t].said) \in Seq(HistoryItems)
      BY HistoryTypes
    <3>3. QED
      BY <3>1, <3>2
  <2>3. QED
    BY <2>1, <2>2
<1>4. PICK texts \in Seq({"text", "error"}) :
          /\ channel' = [channel EXCEPT ![t].sender = FALSE, ![t].texts = texts]
          /\ \/ texts = Texts(t) /\ (FlowFails(t) => ~channel[t].receiver)
             \/ texts = Append(Texts(t), "error") /\ channel[t].receiver
  <2>1. CASE FlowFails(t) /\ channel[t].receiver
    <3>1. Append(Texts(t), "error") \in Seq({"text", "error"})
      OBVIOUS
    <3>2. channel' = [channel EXCEPT ![t].sender = FALSE,
                                     ![t].texts = Append(Texts(t), "error")]
      BY <2>1 DEF FlowFails, Texts
    <3>3. QED
      BY <2>1, <3>1, <3>2
  <2>2. CASE FlowFails(t) /\ ~channel[t].receiver
    <3>1. channel' = [channel EXCEPT ![t].sender = FALSE, ![t].texts = Texts(t)]
      BY <2>2 DEF FlowFails, Texts
    <3>2. QED
      BY <2>2, <3>1
  <2>3. CASE FlowKeeps(t) /\ ~FlowFails(t)
    <3>1. channel' = [channel EXCEPT ![t].sender = FALSE]
      BY <2>3 DEF FlowKeeps
    <3>2. [channel[t] EXCEPT !.sender = FALSE]
              = [channel[t] EXCEPT !.sender = FALSE, !.texts = Texts(t)]
      BY <1>2 DEF ChannelRecords, Texts
    <3>3. channel' = [channel EXCEPT ![t].sender = FALSE, ![t].texts = Texts(t)]
      BY <3>1, <3>2
    <3>4. QED
      BY <2>3, <3>3
  <2>4. QED
    BY <2>1, <2>2, <2>3
<1>5. PICK c : c = [channel[t] EXCEPT !.sender = FALSE, !.texts = texts]
  OBVIOUS
<1>6. /\ c \in ChannelRecords /\ c.texts = texts /\ ~c.sender
      /\ c.receiver = channel[t].receiver
  BY <1>2, <1>4, <1>5 DEF ChannelRecords
<1>7. channel' = [channel EXCEPT ![t] = c]
  BY <1>4, <1>5
<1>8. /\ channel'[t] = c /\ flows'[t].at = "over" /\ flows'[t].said = flows[t].said
      /\ TurnTypes' /\ OtherTurns(t)
  BY <1>1, <1>3, <1>6, <1>7, ChannelBecomes, FlowGoesOn
     DEF TurnTypes, OtherTurns, FlowPlaces
<1>9. /\ ~HasError(t) /\ Owed(t) = 0
      /\ channel[t].receiver => pipes[t] \in {"listening", "speaking"}
      /\ ~channel[t].receiver => pipes[t] \in {"failing", "over"}
  BY <1>1, AtWork
<1>10. PipeInv(t)'
  BY <1>1, <1>2, <1>6, <1>8, <1>9 DEF PipeInv
<1>11. CASE texts = Append(Texts(t), "error") /\ channel[t].receiver
  <2>1. Len(Texts(t)') = Len(Texts(t)) + 1 /\ HasError(t)' /\ Owed(t)' = 2
    BY <1>6, <1>8, <1>11, OneSent DEF Owed
  <2>2. PICK l \in Nat, n \in Nat, s \in Nat :
            l = logs[t].len /\ n = Len(Texts(t)) /\ s = flows[t].said
    OBVIOUS
  <2>3. /\ Balance(t) => l + 2 * n <= 2 + 2 * s
        /\ SpeaksBalance(t) => l + 2 * n + 1 <= 2 + 2 * s
    BY <1>9, <2>2 DEF Balance, SpeaksBalance
  <2>4. RecordInv(t)'
    <3>1. /\ l + 2 * (n + 1) <= 2 + 2 * s + 2 => Balance(t)'
          /\ l + 2 * (n + 1) + 1 <= 2 + 2 * s + 2 => SpeaksBalance(t)'
      BY <1>2, <1>8, <2>1, <2>2 DEF Balance, SpeaksBalance
    <3>2. (Balance(t) => Balance(t)') /\ (SpeaksBalance(t) => SpeaksBalance(t)')
      BY <2>3, <3>1
    <3>3. QED
      BY <1>2, <1>9, <1>11, <3>2 DEF RecordInv
  <2>5. FlowFails(t) => UNCHANGED history
    BY DEF FlowFails
  <2>6. QED
    BY <1>1, <1>6, <1>8, <1>10, <2>1, <2>4, <2>5
<1>12. CASE texts = Texts(t) /\ (FlowFails(t) => ~channel[t].receiver)
  <2>1. Texts(t)' = Texts(t) /\ Owed(t)' = Owed(t)
    BY <1>6, <1>8, <1>12 DEF Texts, Owed, HasError
  <2>2. RecordInv(t)'
    BY <1>2, <1>8, <2>1 DEF RecordInv, Balance, SpeaksBalance
  <2>3. FlowFails(t) => UNCHANGED history
    BY DEF FlowFails
  <2>4. QED
    BY <1>1, <1>6, <1>8, <1>10, <1>12, <2>2, <2>3
<1>13. QED
  BY <1>4, <1>11, <1>12

-----------------------------------------------------------------------------
(* What the workflow remembers.                                            *)

UserItem(t) == [turn |-> t, by |-> "user"]
NothingOf(t) == \A j \in 1..Len(history) : history[j].turn # t
LastIsAsked(t) ==
    /\ flows[t].given = history
    /\ Len(history) >= 1 /\ history[Len(history)] = UserItem(t)
    /\ \A j \in 1..(Len(history) - 1) : history[j].turn # t

MemoryOf(t) ==
    /\ flows[t].at \in {"none", "begin"} => NothingOf(t)
    /\ flows[t].at = "running" => LastIsAsked(t)
    /\ flows[t].at = "over" /\ channel[t].receiver /\ ~HasError(t) => IsRemembered(t)

Busy(t) == flows[t].at \in {"begin", "running"}
OneBusy == \A t, u \in VoiceTurns : Busy(t) /\ Busy(u) => t = u
MemoryInv == ~crossed => OneBusy /\ \A t \in VoiceTurns : MemoryOf(t)

LEMMA SaidIs ==
    ASSUME TurnTypes, NEW t \in VoiceTurns
    PROVE  /\ DOMAIN Said(t) = 1..(flows[t].said + 1)
           /\ Said(t)[1] = UserItem(t)
           /\ \A k \in 1..flows[t].said :
                 Said(t)[k + 1] = [turn |-> t, by |-> "agent"]
<1>1. flows[t].said \in Nat
  BY TurnType
<1>2. Said(t) = <<UserItem(t)>> \o AgentItems(t, flows[t].said)
  BY DEF Said, UserItem, AgentItems
<1>3. /\ UserItem(t) \in HistoryItems
      /\ AgentItems(t, flows[t].said) \in Seq(HistoryItems)
      /\ Len(AgentItems(t, flows[t].said)) = flows[t].said
      /\ \A k \in 1..flows[t].said :
            AgentItems(t, flows[t].said)[k] = [turn |-> t, by |-> "agent"]
  BY <1>1, HistoryTypes DEF UserItem
<1>4. PICK n \in Nat, a \in Seq(HistoryItems), s \in Seq(HistoryItems) :
          /\ n = flows[t].said /\ a = AgentItems(t, flows[t].said)
          /\ s = <<UserItem(t)>> /\ Len(s) = 1 /\ s[1] = UserItem(t)
  <2>1. <<UserItem(t)>> \in Seq(HistoryItems)
    <3>1. \A x \in HistoryItems : <<x>> \in Seq(HistoryItems)
      OBVIOUS
    <3>2. QED
      BY <1>3, <3>1
  <2>2. QED
    BY <1>1, <1>3, <2>1
<1>5. /\ Len(s \o a) = n + 1 /\ (s \o a) \in Seq(HistoryItems)
      /\ (s \o a)[1] = s[1]
      /\ \A k \in 1..n : (s \o a)[k + 1] = a[k]
  <2>1. Len(a) = n
    BY <1>3, <1>4
  <2>2. QED
    BY <1>4, <2>1
<1>6. Said(t) = s \o a
  BY <1>2, <1>4
<1>7. QED
  BY <1>3, <1>4, <1>5, <1>6

(* Items of other turns that are added leave the memory of turn t as it is.*)
LEMMA MemoryStays ==
    ASSUME TurnTypes, NEW t \in VoiceTurns, NEW more \in Seq(HistoryItems),
           history' = history \o more,
           \A i \in 1..Len(more) : more[i].turn # t,
           flows'[t] = flows[t], channel'[t] = channel[t],
           flows[t].at # "running", MemoryOf(t)
    PROVE  MemoryOf(t)'
<1>1. history \in Seq(HistoryItems)
  BY DEF TurnTypes
<1>2. /\ Len(history) \in Nat /\ Len(more) \in Nat
      /\ history' \in Seq(HistoryItems)
      /\ Len(history') = Len(history) + Len(more)
      /\ \A i \in 1..Len(history) : history'[i] = history[i]
      /\ \A i \in 1..Len(more) : history'[Len(history) + i] = more[i]
  BY <1>1
<1>3. ASSUME NEW j \in 1..Len(history'), j > Len(history)
      PROVE  history'[j].turn # t
  <2>1. j - Len(history) \in 1..Len(more) /\ Len(history) + (j - Len(history)) = j
    BY <1>2, <1>3
  <2>2. QED
    BY <1>2, <2>1
<1>4. ASSUME NothingOf(t) PROVE NothingOf(t)'
  <2>1. ASSUME NEW j \in 1..Len(history') PROVE history'[j].turn # t
    <3>1. CASE j <= Len(history)
      BY <1>2, <1>4, <3>1 DEF NothingOf
    <3>2. CASE j > Len(history)
      BY <1>3, <3>2
    <3>3. QED
      BY <1>2, <3>1, <3>2
  <2>2. QED
    BY <2>1 DEF NothingOf
<1>5. ASSUME IsRemembered(t) PROVE IsRemembered(t)'
  <2>1. Said(t)' = Said(t)
    BY DEF Said
  <2>2. PICK before \in 0..Len(history) :
            /\ \A k \in DOMAIN Said(t) :
                  before + k <= Len(history) /\ history[before + k] = Said(t)[k]
            /\ \A j \in DOMAIN history :
                  history[j].turn = t => j - before \in DOMAIN Said(t)
    BY <1>5 DEF IsRemembered
  <2>3. before \in 0..Len(history')
    BY <1>2
  <2>4. ASSUME NEW k \in DOMAIN Said(t)
        PROVE  before + k <= Len(history') /\ history'[before + k] = Said(t)[k]
    <3>1. k \in Nat /\ k >= 1
      <4>1. DOMAIN Said(t) = 1..(flows[t].said + 1) /\ flows[t].said \in Nat
        BY SaidIs, TurnType
      <4>2. QED
        BY <4>1
    <3>2. before + k \in 1..Len(history)
      BY <1>2, <2>2, <3>1
    <3>3. QED
      BY <1>2, <2>2, <3>2
  <2>5. ASSUME NEW j \in DOMAIN history', history'[j].turn = t
        PROVE  j - before \in DOMAIN Said(t)
    <3>1. DOMAIN history' = 1..Len(history') /\ DOMAIN history = 1..Len(history)
      BY <1>1, <1>2
    <3>2. j \in 1..Len(history)
      BY <1>2, <1>3, <2>5, <3>1
    <3>3. QED
      BY <1>2, <2>2, <2>5, <3>1, <3>2
  <2>6. QED
    BY <2>1, <2>3, <2>4, <2>5 DEF IsRemembered
<1>6. HasError(t)' <=> HasError(t)
  BY DEF HasError, Texts
<1>7. QED
  BY <1>4, <1>5, <1>6 DEF MemoryOf

(* What a run keeps is what it was asked and what it said, at the end.     *)
LEMMA KeptIsRemembered ==
    ASSUME TurnTypes, NEW t \in VoiceTurns, LastIsAsked(t),
           history' = history \o AgentItems(t, flows[t].said),
           flows'[t].said = flows[t].said
    PROVE  IsRemembered(t)'
<1>1. PICK n \in Nat, a \in Seq(HistoryItems) :
          /\ n = flows[t].said /\ a = AgentItems(t, flows[t].said) /\ Len(a) = n
          /\ \A k \in 1..n : a[k] = [turn |-> t, by |-> "agent"]
  BY TurnType, HistoryTypes
<1>2. history \in Seq(HistoryItems)
  BY DEF TurnTypes
<1>3. PICK m \in Nat : m = Len(history) /\ m >= 1
  BY <1>2 DEF LastIsAsked
<1>4. /\ history' \in Seq(HistoryItems) /\ Len(history') = m + n
      /\ \A i \in 1..m : history'[i] = history[i]
      /\ \A i \in 1..n : history'[m + i] = a[i]
  <2>1. history' = history \o a
    BY <1>1
  <2>2. Len(a) = n
    BY <1>1
  <2>3. /\ (history \o a) \in Seq(HistoryItems) /\ Len(history \o a) = m + n
        /\ \A i \in 1..m : (history \o a)[i] = history[i]
        /\ \A i \in 1..n : (history \o a)[m + i] = a[i]
    <3>1. a \in Seq(HistoryItems)
      BY <1>1
    <3>2. /\ (history \o a) \in Seq(HistoryItems)
          /\ Len(history \o a) = Len(history) + Len(a)
          /\ \A i \in 1..Len(history) : (history \o a)[i] = history[i]
          /\ \A i \in 1..Len(a) : (history \o a)[Len(history) + i] = a[i]
      BY <1>2, <3>1
    <3>3. QED
      BY <1>3, <2>2, <3>2
  <2>4. QED
    BY <2>1, <2>3
<1>5. Said(t)' = Said(t)
  BY DEF Said
<1>6. /\ DOMAIN Said(t) = 1..(n + 1) /\ Said(t)[1] = UserItem(t)
      /\ \A k \in 1..n : Said(t)[k + 1] = [turn |-> t, by |-> "agent"]
  BY <1>1, SaidIs
<1>7. m - 1 \in 0..Len(history')
  BY <1>3, <1>4
<1>8. ASSUME NEW k \in DOMAIN Said(t)
      PROVE  m - 1 + k <= Len(history') /\ history'[m - 1 + k] = Said(t)[k]
  <2>1. k \in 1..(n + 1)
    BY <1>6
  <2>2. CASE k = 1
    <3>1. m - 1 + k = m /\ m \in 1..m
      BY <1>3, <2>2
    <3>2. history'[m] = UserItem(t)
      BY <1>3, <1>4, <3>1 DEF LastIsAsked
    <3>3. QED
      BY <1>4, <1>6, <2>2, <3>1, <3>2
  <2>3. CASE k # 1
    <3>1. k - 1 \in 1..n /\ (k - 1) + 1 = k /\ m + (k - 1) = m - 1 + k
      BY <2>1, <2>3
    <3>2. history'[m + (k - 1)] = [turn |-> t, by |-> "agent"]
      BY <1>1, <1>4, <3>1
    <3>3. Said(t)[(k - 1) + 1] = [turn |-> t, by |-> "agent"]
      BY <1>6, <3>1
    <3>4. QED
      BY <1>4, <2>1, <3>1, <3>2, <3>3
  <2>4. QED
    BY <2>2, <2>3
<1>9. ASSUME NEW j \in DOMAIN history', history'[j].turn = t
      PROVE  j - (m - 1) \in DOMAIN Said(t)
  <2>1. j \in 1..(m + n)
    BY <1>4
  <2>2. j >= m
    <3>1. SUFFICES ASSUME j < m PROVE FALSE
      BY <2>1
    <3>2. j \in 1..m /\ j \in 1..(Len(history) - 1)
      BY <1>3, <2>1, <3>1
    <3>3. QED
      BY <1>4, <1>9, <3>2 DEF LastIsAsked
  <2>3. QED
    BY <1>6, <2>1, <2>2
<1>10. QED
  BY <1>5, <1>7, <1>8, <1>9 DEF IsRemembered

LEMMA MemoryFrame ==
    ASSUME UNCHANGED history, NEW t \in VoiceTurns,
           flows'[t].at \in {"none", "begin"} => flows[t].at \in {"none", "begin"},
           flows'[t].at = "running" => flows[t].at = "running"
                                       /\ flows'[t].given = flows[t].given,
           flows'[t].at = "over" /\ channel'[t].receiver /\ ~HasError(t)'
               => /\ flows[t].at = "over" /\ channel[t].receiver /\ ~HasError(t)
                  /\ flows'[t].said = flows[t].said,
           MemoryOf(t)
    PROVE  MemoryOf(t)'
<1>1. NothingOf(t) => NothingOf(t)'
  BY DEF NothingOf
<1>2. flows'[t].given = flows[t].given /\ LastIsAsked(t) => LastIsAsked(t)'
  BY DEF LastIsAsked
<1>3. flows'[t].said = flows[t].said /\ IsRemembered(t) => IsRemembered(t)'
  BY DEF IsRemembered, Said
<1>4. QED
  BY <1>1, <1>2, <1>3 DEF MemoryOf

LEMMA OthersFrame ==
    ASSUME UNCHANGED history, NEW t \in VoiceTurns, OtherTurns(t),
           \A u \in VoiceTurns : MemoryOf(u), MemoryOf(t)'
    PROVE  \A u \in VoiceTurns : MemoryOf(u)'
<1>1. ASSUME NEW u \in VoiceTurns \ {t} PROVE MemoryOf(u)'
  <2>1. flows'[u] = flows[u] /\ channel'[u] = channel[u]
    BY DEF OtherTurns
  <2>2. HasError(u)' <=> HasError(u)
    BY <2>1 DEF HasError, Texts
  <2>3. QED
    BY <2>1, <2>2, MemoryFrame
<1>2. QED
  BY <1>1

(* The steps that leave the history alone.                                 *)
LEMMA QuietSteps ==
    ASSUME TurnTypes, MemoryInv, NEW t \in VoiceTurns, PipeInv(t), RecordInv(t),
           \/ StartTurn(t) \/ RecordOpening(t) \/ Speak(t)
           \/ HearEnd(t) \/ RecordEnd(t) \/ RecordError(t) \/ SetResult(t)
           \/ HearText(t) \/ SpeakFails(t)
    PROVE  MemoryInv'
<1>1. UNCHANGED <<flows, history, crossed>>
  BY DEF StartTurn, RecordOpening, Speak, HearEnd, RecordEnd, RecordError,
     SetResult, HearText, SpeakFails
<1>2. CASE HearText(t) \/ SpeakFails(t)
  <2>1. /\ OtherTurns(t)
        /\ \/ ~channel'[t].receiver
           \/ channel'[t].receiver = channel[t].receiver /\ (HasError(t)' <=> HasError(t))
    BY <1>2, HearSteps
  <2>2. MemoryOf(t) => MemoryOf(t)'
    BY <1>1, <2>1, MemoryFrame
  <2>3. QED
    BY <1>1, <2>1, <2>2, OthersFrame DEF MemoryInv, OneBusy, Busy
<1>3. CASE \/ StartTurn(t) \/ RecordOpening(t) \/ Speak(t)
           \/ HearEnd(t) \/ RecordEnd(t) \/ RecordError(t) \/ SetResult(t)
  <2>1. UNCHANGED channel
    BY <1>3 DEF StartTurn, RecordOpening, Speak, HearEnd, RecordEnd, RecordError,
       SetResult
  <2>2. ASSUME NEW u \in VoiceTurns, MemoryOf(u) PROVE MemoryOf(u)'
    <3>1. HasError(u)' <=> HasError(u)
      BY <2>1 DEF HasError, Texts
    <3>2. QED
      BY <1>1, <2>1, <2>2, <3>1, MemoryFrame
  <2>3. QED
    BY <1>1, <2>2 DEF MemoryInv, OneBusy, Busy
<1>4. QED
  BY <1>2, <1>3

LEMMA RunStep ==
    ASSUME TurnTypes, MemoryInv, NEW t \in VoiceTurns, PipeInv(t), RecordInv(t),
           RunWorkflow(t)
    PROVE  MemoryInv'
<1>1. /\ pipes[t] = "opening" /\ FlowGoes(t, "begin")
      /\ crossed' = (crossed \/ \E u \in VoiceTurns : Busy(u))
      /\ UNCHANGED <<channel, history>>
  BY DEF RunWorkflow, PipeAt, Busy
<1>2. flows[t].at = "none"
  BY <1>1 DEF PipeInv
<1>3. OtherTurns(t)
  BY PipeSteps
<1>4. /\ flows'[t].at = "begin" /\ flows'[t].said = flows[t].said
      /\ flows'[t].given = flows[t].given
  BY <1>1, FlowGoesOn DEF FlowPlaces
<1>5. SUFFICES ASSUME ~crossed' PROVE OneBusy' /\ \A u \in VoiceTurns : MemoryOf(u)'
  BY DEF MemoryInv
<1>6. ~crossed /\ \A u \in VoiceTurns : ~Busy(u) /\ MemoryOf(u)
  BY <1>1, <1>5 DEF MemoryInv
<1>7. OneBusy'
  BY <1>3, <1>6 DEF OneBusy, Busy, OtherTurns
<1>8. MemoryOf(t)'
  BY <1>1, <1>2, <1>4, <1>6, MemoryFrame
<1>9. QED
  BY <1>1, <1>3, <1>6, <1>7, <1>8, OthersFrame

LEMMA SendStep ==
    ASSUME TurnTypes, MemoryInv, NEW t \in VoiceTurns, PipeInv(t), RecordInv(t),
           FlowSends(t)
    PROVE  MemoryInv'
<1>1. /\ OtherTurns(t) /\ flows[t].at = "running" /\ UNCHANGED history
      /\ IF channel[t].receiver
         THEN flows'[t].at = "running" /\ flows'[t].given = flows[t].given
         ELSE flows'[t].at = "over" /\ ~channel'[t].receiver
  BY FlowSendStep
<1>2. UNCHANGED crossed
  BY DEF FlowSends
<1>3. MemoryOf(t) => MemoryOf(t)'
  BY <1>1, MemoryFrame
<1>4. OneBusy => OneBusy'
  BY <1>1 DEF OneBusy, Busy, OtherTurns
<1>5. QED
  BY <1>1, <1>2, <1>3, <1>4, OthersFrame DEF MemoryInv

(* The steps of one flow that write the history: the others are not at     *)
(* work, when none of them crossed it.                                     *)
LEMMA BeginFlowStep ==
    ASSUME TurnTypes, MemoryInv, NEW t \in VoiceTurns, PipeInv(t), RecordInv(t),
           FlowBegins(t)
    PROVE  MemoryInv'
<1>1. /\ OtherTurns(t) /\ flows'[t].at = "running" /\ flows'[t].given = history'
      /\ history' = Append(history, UserItem(t))
  BY FlowBeginStep DEF UserItem
<1>2. flows[t].at = "begin" /\ UNCHANGED crossed
  BY DEF FlowBegins, FlowAt
<1>3. SUFFICES ASSUME ~crossed PROVE OneBusy' /\ \A u \in VoiceTurns : MemoryOf(u)'
  BY <1>2 DEF MemoryInv
<1>4. OneBusy /\ \A u \in VoiceTurns : MemoryOf(u)
  BY <1>3 DEF MemoryInv
<1>5. OneBusy'
  BY <1>1, <1>2, <1>4 DEF OneBusy, Busy, OtherTurns
<1>6. history \in Seq(HistoryItems) /\ UserItem(t) \in HistoryItems /\ UserItem(t).turn = t
  BY DEF TurnTypes, HistoryItems, UserItem
<1>7. /\ Len(history) \in Nat /\ Len(history') = Len(history) + 1
      /\ \A i \in 1..Len(history) : history'[i] = history[i]
      /\ history'[Len(history) + 1] = UserItem(t)
  BY <1>1, <1>6
<1>8. MemoryOf(t)'
  <2>1. NothingOf(t)
    BY <1>2, <1>4 DEF MemoryOf
  <2>2. \A j \in 1..Len(history) : history'[j].turn # t
    BY <1>7, <2>1 DEF NothingOf
  <2>3. LastIsAsked(t)'
    BY <1>1, <1>7, <2>2 DEF LastIsAsked, UserItem
  <2>4. QED
    BY <1>1, <2>3 DEF MemoryOf
<1>9. ASSUME NEW u \in VoiceTurns \ {t} PROVE MemoryOf(u)'
  <2>1. PICK more \in Seq(HistoryItems) :
            Len(more) = 1 /\ more[1] = UserItem(t) /\ history' = history \o more
    <3>1. PICK x \in HistoryItems : x = UserItem(t)
      BY <1>6
    <3>2. <<x>> \in Seq(HistoryItems) /\ Len(<<x>>) = 1 /\ <<x>>[1] = x
      OBVIOUS
    <3>3. Append(history, x) = history \o <<x>>
      BY <1>6, AppendIsConcat
    <3>4. QED
      BY <1>1, <3>1, <3>2, <3>3
  <2>2. \A i \in 1..Len(more) : more[i].turn # u
    BY <1>6, <2>1
  <2>3. flows'[u] = flows[u] /\ channel'[u] = channel[u]
    BY <1>1 DEF OtherTurns
  <2>4. flows[u].at # "running" /\ MemoryOf(u)
    BY <1>2, <1>4 DEF OneBusy, Busy
  <2>5. QED
    BY <2>1, <2>2, <2>3, <2>4, MemoryStays
<1>10. QED
  BY <1>5, <1>8, <1>9

LEMMA EndFlowStep ==
    ASSUME TurnTypes, MemoryInv, NEW t \in VoiceTurns, PipeInv(t), RecordInv(t),
           FlowFails(t) \/ FlowKeeps(t)
    PROVE  MemoryInv'
<1>1. /\ OtherTurns(t) /\ flows[t].at = "running" /\ flows'[t].at = "over"
      /\ flows'[t].said = flows[t].said
      /\ channel'[t].receiver = channel[t].receiver
      /\ FlowFails(t) => UNCHANGED history /\ (channel[t].receiver => HasError(t)')
  BY FlowEndStep
<1>2. UNCHANGED crossed
  BY DEF FlowFails, FlowKeeps
<1>3. SUFFICES ASSUME ~crossed PROVE OneBusy' /\ \A u \in VoiceTurns : MemoryOf(u)'
  BY <1>2 DEF MemoryInv
<1>4. OneBusy /\ \A u \in VoiceTurns : MemoryOf(u)
  BY <1>3 DEF MemoryInv
<1>5. OneBusy'
  BY <1>1, <1>4 DEF OneBusy, Busy, OtherTurns
<1>6. CASE FlowFails(t)
  <2>1. MemoryOf(t)'
    BY <1>1, <1>4, <1>6, MemoryFrame
  <2>2. QED
    BY <1>1, <1>4, <1>5, <1>6, <2>1, OthersFrame
<1>7. CASE FlowKeeps(t)
  <2>1. LastIsAsked(t)
    BY <1>1, <1>4 DEF MemoryOf
  <2>2. history' = history \o AgentItems(t, flows[t].said)
    BY <1>7, <2>1 DEF FlowKeeps, InputList, AgentItems, LastIsAsked
  <2>3. MemoryOf(t)'
    BY <1>1, <2>1, <2>2, KeptIsRemembered DEF MemoryOf
  <2>4. ASSUME NEW u \in VoiceTurns \ {t} PROVE MemoryOf(u)'
    <3>1. PICK more \in Seq(HistoryItems) :
              /\ more = AgentItems(t, flows[t].said)
              /\ \A i \in 1..Len(more) : more[i] = [turn |-> t, by |-> "agent"]
      BY TurnType, HistoryTypes, ZenonT(60)
    <3>2. flows'[u] = flows[u] /\ channel'[u] = channel[u]
      BY <1>1 DEF OtherTurns
    <3>3. flows[u].at # "running" /\ MemoryOf(u)
      BY <1>1, <1>4 DEF OneBusy, Busy
    <3>4. \A i \in 1..Len(more) : more[i].turn # u
      BY <3>1
    <3>5. history' = history \o more
      BY <2>2, <3>1
    <3>6. QED
      BY <3>2, <3>3, <3>4, <3>5, MemoryStays
  <2>5. QED
    BY <1>5, <2>3, <2>4
<1>8. QED
  BY <1>6, <1>7

-----------------------------------------------------------------------------
(* Who listens to the first turn, and the whole.                           *)

FirstLen == logs[1].len
ListenersInv ==
    /\ listeners \in [Kinds -> Readers(FirstLen, LogRevision)]
    /\ \A k \in Kinds : Told(listeners[k], FirstLen, LogDone, LogRevision)

VoiceInv ==
    /\ TurnTypes
    /\ \A t \in VoiceTurns : PipeInv(t) /\ RecordInv(t)
    /\ MemoryInv
    /\ ListenersInv

LEMMA FirstTurn == 1 \in VoiceTurns
  BY VoiceAssumption DEF VoiceTurns

LEMMA FirstTypes ==
    ASSUME TurnTypes
    PROVE  FirstLen \in Nat /\ LogDone \in BOOLEAN /\ LogRevision \in Nat
           /\ LogRevision = IF LogDone THEN FirstLen + 1 ELSE FirstLen
<1>1. logs[1].len \in Nat
  BY FirstTurn, TurnType
<1>2. LogRevision = IF LogDone THEN logs[1].len + 1 ELSE logs[1].len
  BY <1>1 DEF LogRevision
<1>3. QED
  BY <1>1, <1>2 DEF FirstLen, LogDone

(* A turn's record changes, if at all, so that all listeners are to wake.  *)
LEMMA RecordedIsTold ==
    ASSUME TurnTypes, TurnTypes', ListenersInv, UNCHANGED listeners,
           \/ logs'[1] = logs[1]
           \/ logs'[1].len = logs[1].len + 1 /\ logs'[1].result = logs[1].result
           \/ /\ logs'[1].len = logs[1].len
              /\ logs[1].result = "none" /\ logs'[1].result # "none"
    PROVE  ListenersInv'
<1>1. /\ FirstLen \in Nat /\ LogRevision \in Nat
      /\ LogRevision = IF LogDone THEN FirstLen + 1 ELSE FirstLen
      /\ FirstLen' \in Nat /\ LogRevision' \in Nat
      /\ LogRevision' = IF LogDone' THEN FirstLen' + 1 ELSE FirstLen'
  <2>1. logs'[1] \in LogRecords
    BY FirstTurn DEF TurnTypes
  <2>2. logs'[1].len \in Nat
    BY <2>1 DEF LogRecords
  <2>3. /\ LogRevision' = IF LogDone' THEN FirstLen' + 1 ELSE FirstLen'
        /\ FirstLen' \in Nat
    BY <2>2 DEF LogRevision, FirstLen
  <2>4. LogRevision' \in Nat
    <3>1. PICK n \in Nat : n = FirstLen'
      BY <2>3
    <3>2. LogRevision' = n + 1 \/ LogRevision' = n
      BY <2>3, <3>1
    <3>3. QED
      BY <3>2
  <2>5. FirstLen \in Nat /\ LogRevision \in Nat
        /\ LogRevision = IF LogDone THEN FirstLen + 1 ELSE FirstLen
    BY FirstTypes
  <2>6. QED
    BY <2>3, <2>4, <2>5
<1>2. \A k \in Kinds : listeners[k] \in Readers(FirstLen, LogRevision)
  BY DEF ListenersInv
<1>3. CASE logs'[1] = logs[1]
  <2>1. FirstLen' = FirstLen /\ LogDone' = LogDone /\ LogRevision' = LogRevision
    BY <1>3 DEF FirstLen, LogDone, LogRevision
  <2>2. QED
    BY <2>1 DEF ListenersInv
<1>4. CASE logs'[1].len = logs[1].len + 1 /\ logs'[1].result = logs[1].result
  <2>1. FirstLen' = FirstLen + 1 /\ (LogDone' <=> LogDone)
    BY <1>4 DEF FirstLen, LogDone
  <2>2. FirstLen <= FirstLen' /\ LogRevision < LogRevision' /\ LogRevision <= LogRevision'
    BY <1>1, <2>1
  <2>3. \A k \in Kinds : /\ listeners[k] \in Readers(FirstLen', LogRevision')
                         /\ Told(listeners[k], FirstLen', LogDone', LogRevision')
    BY <1>1, <1>2, <2>2, ReadersGrow, ChangeWakes
  <2>4. QED
    BY <2>3 DEF ListenersInv
<1>5. CASE /\ logs'[1].len = logs[1].len
           /\ logs[1].result = "none" /\ logs'[1].result # "none"
  <2>1. FirstLen' = FirstLen /\ LogDone' /\ ~LogDone
    BY <1>5 DEF FirstLen, LogDone
  <2>2. FirstLen <= FirstLen' /\ LogRevision < LogRevision' /\ LogRevision <= LogRevision'
    BY <1>1, <2>1
  <2>3. \A k \in Kinds : /\ listeners[k] \in Readers(FirstLen', LogRevision')
                         /\ Told(listeners[k], FirstLen', LogDone', LogRevision')
    BY <1>1, <1>2, <2>2, ReadersGrow, ChangeWakes
  <2>4. QED
    BY <2>3 DEF ListenersInv
<1>6. QED
  BY <1>3, <1>4, <1>5

LEMMA ListenStep ==
    ASSUME TurnTypes, ListenersInv, NEW k \in Kinds, ListenerReads(k)
    PROVE  ListenersInv'
<1>1. PICK r \in Reads(listeners[k], FirstLen, LogDone, LogRevision) :
          listeners' = [listeners EXCEPT ![k] = r]
  BY DEF ListenerReads, FirstLen
<1>2. /\ FirstLen \in Nat /\ LogDone \in BOOLEAN /\ LogRevision \in Nat
      /\ listeners[k] \in Readers(FirstLen, LogRevision)
  BY FirstTypes DEF ListenersInv
<1>3. r \in Readers(FirstLen, LogRevision) /\ Told(r, FirstLen, LogDone, LogRevision)
  BY <1>2, ReadsStep
<1>4. FirstLen' = FirstLen /\ LogDone' = LogDone /\ LogRevision' = LogRevision
  BY DEF ListenerReads, FirstLen, LogDone, LogRevision
<1>5. QED
  BY <1>1, <1>3, <1>4 DEF ListenersInv

(* One step of one turn, but for who listens.                              *)
LEMMA TurnStep ==
    ASSUME VoiceInv, NEW t \in VoiceTurns,
           \/ StartTurn(t) \/ RecordOpening(t) \/ RunWorkflow(t)
           \/ HearText(t) \/ Speak(t) \/ SpeakFails(t)
           \/ HearEnd(t) \/ RecordEnd(t) \/ RecordError(t) \/ SetResult(t)
           \/ FlowBegins(t) \/ FlowSends(t) \/ FlowFails(t) \/ FlowKeeps(t)
    PROVE  VoiceInv'
<1>1. TurnTypes /\ PipeInv(t) /\ RecordInv(t) /\ MemoryInv /\ ListenersInv
  BY DEF VoiceInv
<1>2. TurnTypes' /\ OtherTurns(t) /\ PipeInv(t)' /\ RecordInv(t)'
  <2>1. CASE \/ StartTurn(t) \/ RecordOpening(t) \/ RunWorkflow(t) \/ Speak(t)
             \/ HearEnd(t) \/ RecordEnd(t) \/ RecordError(t) \/ SetResult(t)
    BY <1>1, <2>1, PipeSteps
  <2>2. CASE HearText(t) \/ SpeakFails(t)
    BY <1>1, <2>2, HearSteps
  <2>3. CASE FlowBegins(t)
    BY <1>1, <2>3, FlowBeginStep
  <2>4. CASE FlowSends(t)
    BY <1>1, <2>4, FlowSendStep
  <2>5. CASE FlowFails(t) \/ FlowKeeps(t)
    BY <1>1, <2>5, FlowEndStep
  <2>6. QED
    BY <2>1, <2>2, <2>3, <2>4, <2>5
<1>3. MemoryInv'
  BY <1>1, QuietSteps, RunStep, SendStep, BeginFlowStep, EndFlowStep
<1>4. \A u \in VoiceTurns : PipeInv(u)' /\ RecordInv(u)'
  <2>1. ASSUME NEW u \in VoiceTurns \ {t} PROVE PipeInv(u)' /\ RecordInv(u)'
    <3>1. /\ pipes'[u] = pipes[u] /\ logs'[u] = logs[u]
          /\ flows'[u] = flows[u] /\ channel'[u] = channel[u]
      BY <1>2 DEF OtherTurns
    <3>2. PipeInv(u) /\ RecordInv(u)
      BY DEF VoiceInv
    <3>3. Texts(u)' = Texts(u) /\ (HasError(u)' <=> HasError(u)) /\ Owed(u)' = Owed(u)
      BY <3>1 DEF Texts, HasError, Owed
    <3>4. PipeInv(u)'
      BY <3>1, <3>2, <3>3 DEF PipeInv
    <3>5. RecordInv(u)'
      BY <3>1, <3>2, <3>3 DEF RecordInv, Balance, SpeaksBalance
    <3>6. QED
      BY <3>4, <3>5
  <2>2. QED
    BY <1>2, <2>1
<1>5. ListenersInv'
  <2>1. UNCHANGED listeners
    BY DEF StartTurn, RecordOpening, RunWorkflow, HearText, Speak, SpeakFails, HearEnd,
       RecordEnd, RecordError, SetResult, FlowBegins, FlowSends, FlowFails, FlowKeeps
  <2>2. \/ logs' = logs
        \/ Record(t)
        \/ SetResult(t)
    BY DEF StartTurn, RecordOpening, RunWorkflow, HearText, Speak, SpeakFails, HearEnd,
       RecordEnd, RecordError, FlowBegins, FlowSends, FlowFails, FlowKeeps
  <2>3. \/ logs'[1] = logs[1]
        \/ logs'[1].len = logs[1].len + 1 /\ logs'[1].result = logs[1].result
        \/ /\ logs'[1].len = logs[1].len
           /\ logs[1].result = "none" /\ logs'[1].result # "none"
    <3>1. CASE t # 1
      BY <1>2, <3>1, FirstTurn DEF OtherTurns
    <3>2. CASE t = 1 /\ Record(t)
      BY <1>1, <3>2, OneRecorded
    <3>3. CASE t = 1 /\ SetResult(t)
      <4>1. PICK result \in {"ok", "error"} : logs' = [logs EXCEPT ![1].result = result]
        BY <3>3 DEF SetResult
      <4>2. logs[1] \in LogRecords /\ logs \in [VoiceTurns -> LogRecords]
            /\ logs[1].result = "none"
        BY <1>1, <3>3, FirstTurn DEF TurnTypes, SetResult
      <4>3. logs'[1] = [logs[1] EXCEPT !.result = result]
        BY <4>1, <4>2, FirstTurn
      <4>4. QED
        BY <4>2, <4>3 DEF LogRecords
    <3>4. QED
      BY <2>2, <3>1, <3>2, <3>3
  <2>4. QED
    BY <1>1, <1>2, <2>1, <2>3, RecordedIsTold
<1>6. QED
  BY <1>2, <1>3, <1>4, <1>5 DEF VoiceInv

LEMMA VoiceStays ==
    ASSUME VoiceInv, UNCHANGED <<pipes, logs, flows, channel, history, speaker, crossed>>
    PROVE  /\ TurnTypes' /\ MemoryInv'
           /\ \A t \in VoiceTurns : PipeInv(t)' /\ RecordInv(t)'
<1>1. TurnTypes'
  BY DEF VoiceInv, TurnTypes
<1>2. ASSUME NEW t \in VoiceTurns
      PROVE  PipeInv(t)' /\ RecordInv(t)' /\ (MemoryOf(t) => MemoryOf(t)')
  <2>1. Texts(t)' = Texts(t) /\ (HasError(t)' <=> HasError(t)) /\ Owed(t)' = Owed(t)
    BY DEF Texts, HasError, Owed
  <2>2. PipeInv(t)' /\ RecordInv(t)'
    BY <2>1 DEF VoiceInv, PipeInv, RecordInv, Balance, SpeaksBalance
  <2>3. MemoryOf(t) => MemoryOf(t)'
    BY <2>1, MemoryFrame
  <2>4. QED
    BY <2>2, <2>3
<1>3. MemoryInv'
  BY <1>2 DEF VoiceInv, MemoryInv, OneBusy, Busy
<1>4. QED
  BY <1>1, <1>2, <1>3

LEMMA VoiceStep ==
    ASSUME VoiceInv, [VoiceNext]_voiceVars
    PROVE  VoiceInv'
<1>1. CASE \E t \in VoiceTurns :
              \/ StartTurn(t) \/ RecordOpening(t) \/ RunWorkflow(t)
              \/ HearText(t) \/ Speak(t) \/ SpeakFails(t)
              \/ HearEnd(t) \/ RecordEnd(t) \/ RecordError(t) \/ SetResult(t)
              \/ FlowBegins(t) \/ FlowSends(t) \/ FlowFails(t) \/ FlowKeeps(t)
  BY <1>1, TurnStep
<1>2. CASE \E k \in Kinds : ListenerReads(k)
  <2>1. UNCHANGED <<pipes, logs, flows, channel, history, speaker, crossed>>
    BY <1>2 DEF ListenerReads
  <2>2. TurnTypes /\ ListenersInv
    BY DEF VoiceInv
  <2>3. ListenersInv'
    BY <1>2, <2>2, ListenStep
  <2>4. QED
    BY <2>1, <2>3, VoiceStays DEF VoiceInv
<1>3. CASE UNCHANGED voiceVars
  <2>1. UNCHANGED <<pipes, logs, flows, channel, history, speaker, listeners, crossed>>
    BY <1>3 DEF voiceVars
  <2>2. ListenersInv'
    BY <2>1 DEF VoiceInv, ListenersInv, FirstLen, LogDone, LogRevision
  <2>3. QED
    BY <2>1, <2>2, VoiceStays DEF VoiceInv
<1>4. QED
  BY <1>1, <1>2, <1>3 DEF VoiceNext

LEMMA VoiceBegins == ASSUME VoiceInit PROVE VoiceInv
<1>1. FirstSpeaker \in VoiceAgents /\ MaxTexts \in Nat
  BY VoiceAssumption DEF FirstSpeaker
<1>2. <<>> \in Seq(HistoryItems) /\ <<>> \in Seq({"text", "error"})
  OBVIOUS
<1>3. TurnTypes
  <2>1. [len |-> 0, result |-> "none"] \in LogRecords
    BY DEF LogRecords
  <2>2. [at |-> "none", given |-> <<>>, agent |-> FirstSpeaker, said |-> 0] \in FlowRecords
    BY <1>1, <1>2 DEF FlowRecords, FlowPlaces
  <2>3. [texts |-> <<>>, sender |-> TRUE, receiver |-> TRUE] \in ChannelRecords
    BY <1>2 DEF ChannelRecords
  <2>4. QED
    BY <1>1, <1>2, <2>1, <2>2, <2>3 DEF VoiceInit, TurnTypes, PipePlaces
<1>4. ASSUME NEW t \in VoiceTurns
      PROVE  PipeInv(t) /\ RecordInv(t) /\ MemoryOf(t) /\ ~Busy(t)
  <2>1. /\ pipes[t] = "none" /\ logs[t].len = 0 /\ logs[t].result = "none"
        /\ flows[t].at = "none" /\ channel[t].sender /\ channel[t].receiver
        /\ Texts(t) = <<>> /\ Len(history) = 0
    BY DEF VoiceInit, Texts
  <2>2. PipeInv(t) /\ RecordInv(t)
    BY <2>1, NoTextsNoError DEF PipeInv, RecordInv
  <2>3. MemoryOf(t) /\ ~Busy(t)
    BY <2>1 DEF MemoryOf, NothingOf, Busy
  <2>4. QED
    BY <2>2, <2>3
<1>5. ListenersInv
  <2>1. FirstLen = 0 /\ LogRevision \in Nat
    BY <1>3, FirstTurn, FirstTypes DEF VoiceInit, FirstLen
  <2>2. \A k \in Kinds : listeners[k] = NewReader(k = "waiter")
    BY DEF VoiceInit
  <2>3. \A k \in Kinds : /\ listeners[k] \in Readers(FirstLen, LogRevision)
                         /\ listeners[k].at # "asleep"
    BY <2>1, <2>2, NewReaderType
  <2>4. listeners = [k \in Kinds |-> listeners[k]]
    BY DEF VoiceInit
  <2>5. QED
    BY <2>3, <2>4 DEF ListenersInv, Told
<1>6. QED
  BY <1>3, <1>4, <1>5 DEF VoiceInv, MemoryInv, OneBusy

LEMMA BalanceBounds ==
    ASSUME NEW l \in Nat, NEW n \in Nat, NEW s \in Nat, NEW o \in Nat, NEW max \in Nat,
           s <= max, o <= 2, o <= 2 * n, l + 2 * n <= 2 + 2 * s + o
    PROVE  l <= 2 + 2 * max
  OBVIOUS

LEMMA VoiceHolds ==
    ASSUME VoiceInv
    PROVE  VoiceTypeOK /\ ListenersAreTold /\ HeardTurnsAreRemembered
<1>1. TurnTypes /\ ListenersInv /\ MemoryInv
      /\ \A t \in VoiceTurns : PipeInv(t) /\ RecordInv(t)
  BY DEF VoiceInv
<1>2. ASSUME NEW t \in VoiceTurns PROVE logs[t].len \in 0..MaxLog
  <2>1. /\ logs[t].len \in Nat /\ Len(Texts(t)) \in Nat /\ MaxTexts \in Nat
        /\ flows[t].said \in 0..MaxTexts /\ pipes[t] \in PipePlaces
    BY <1>1, TurnType
  <2>2. ~HasError(t) \/ Len(Texts(t)) >= 1
    BY <2>1 DEF HasError
  <2>3. Owed(t) = 0 \/ (Owed(t) = 2 /\ Len(Texts(t)) >= 1)
    BY <2>2 DEF Owed
  <2>4. Balance(t) \/ SpeaksBalance(t) => logs[t].len <= 2 + 2 * MaxTexts
    <3>1. PICK l \in Nat, n \in Nat, s \in Nat, o \in Nat :
              /\ l = logs[t].len /\ n = Len(Texts(t)) /\ s = flows[t].said
              /\ o = Owed(t) /\ o <= 2 /\ o <= 2 * n /\ s <= MaxTexts
      BY <2>1, <2>3
    <3>2. Balance(t) <=> l + 2 * n <= 2 + 2 * s + o
      BY <3>1 DEF Balance
    <3>3. SpeaksBalance(t) <=> l + 2 * n + 1 <= 2 + 2 * s + o
      BY <3>1 DEF SpeaksBalance
    <3>4. l + 2 * n <= 2 + 2 * s + o => l <= 2 + 2 * MaxTexts
      BY <2>1, <3>1, BalanceBounds
    <3>5. l + 2 * n + 1 <= 2 + 2 * s + o => l + 2 * n <= 2 + 2 * s + o
      OBVIOUS
    <3>6. QED
      BY <2>1, <3>1, <3>2, <3>3, <3>4, <3>5
  <2>5. RecordInv(t)
    BY <1>1
  <2>6. logs[t].len <= 2 * MaxTexts + 4
    BY <2>1, <2>4, <2>5 DEF RecordInv, PipePlaces
  <2>7. QED
    BY <2>1, <2>6 DEF MaxLog
<1>3. logs \in [VoiceTurns -> [len : 0..MaxLog, result : {"none", "ok", "error"}]]
  <2>1. logs \in [VoiceTurns -> LogRecords]
    BY <1>1 DEF TurnTypes
  <2>2. ASSUME NEW t \in VoiceTurns
        PROVE  logs[t] \in [len : 0..MaxLog, result : {"none", "ok", "error"}]
    BY <1>2, <2>1 DEF LogRecords
  <2>3. QED
    BY <2>1, <2>2
<1>4. VoiceTypeOK
  BY <1>1, <1>3 DEF TurnTypes, ListenersInv, FirstLen, VoiceTypeOK, FlowRecords,
     ChannelRecords
<1>5. ListenersAreTold
  BY <1>1 DEF ListenersInv, ListenersAreTold, Forgotten, Told, FirstLen
<1>6. HeardTurnsAreRemembered
  <2>1. SUFFICES ASSUME ~crossed, NEW t \in VoiceTurns, logs[t].result = "ok"
                 PROVE  IsRemembered(t)
    BY DEF HeardTurnsAreRemembered
  <2>2. /\ channel[t].receiver /\ Texts(t) = <<>> /\ ~channel[t].sender
        /\ flows[t].at = "over"
    BY <1>1, <2>1 DEF PipeInv
  <2>3. ~HasError(t)
    BY <2>2, NoTextsNoError
  <2>4. QED
    BY <1>1, <2>1, <2>2, <2>3 DEF MemoryInv, MemoryOf
<1>7. QED
  BY <1>4, <1>5, <1>6

(* However many turns a caller starts and however they fail: a turn that   *)
(* was heard to its end is in the history, in one piece and once, as long  *)
(* as no two workflow tasks of the session ran at a time.                  *)
THEOREM RememberedCorrect == VoiceSpec => []HeardTurnsAreRemembered
<1>1. VoiceInit => VoiceInv
  BY VoiceBegins
<1>2. VoiceInv /\ [VoiceNext]_voiceVars => VoiceInv'
  BY VoiceStep
<1>3. VoiceInv => HeardTurnsAreRemembered
  BY VoiceHolds
<1>4. QED
  BY <1>1, <1>2, <1>3, PTL DEF VoiceSpec

-----------------------------------------------------------------------------
(* The clients of an MCP server.                                           *)

UserStates == [at : UserPlaces, visit : BOOLEAN, has : ClientOrNone]

LEMMA NumbersType == MaxClients \in Nat /\ MaxVisits \in Nat /\ NoClient \in ClientOrNone
BY MCPServerAssumption DEF NoClient, ClientOrNone

LEMMA NowhereType == Nowhere \in UserStates /\ Nowhere.at = "away"
BY NumbersType DEF Nowhere, UserStates, UserPlaces

(* What moving a user and ending its call do to the users.                 *)
LEMMA GoesType ==
    ASSUME MCPServerTypeOK, NEW u \in Users, NEW place \in UserPlaces,
           NEW c \in ClientOrNone, UserGoes(u, place, c)
    PROVE  /\ users' \in [Users -> UserStates]
           /\ users'[u].at = place /\ users'[u].has = c
           /\ \A v \in Users \ {u} : users'[v] = users[v]
BY DEF MCPServerTypeOK, UserGoes, UserStates

LEMMA EndsType ==
    ASSUME MCPServerTypeOK, NEW u \in Users, NEW ok \in BOOLEAN,
           NEW next \in {"away", "use"}, CallEnds(u, ok, next)
    PROVE  /\ users' \in [Users -> UserStates]
           /\ users'[u].at = next
           /\ \A v \in Users \ {u} : users'[v] = users[v]
           /\ stumbled' = ~ok
<1>1. users \in [Users -> UserStates]
  BY DEF MCPServerTypeOK, UserStates
<1>2. [users[u] EXCEPT !.at = next, !.has = NoClient] \in UserStates
  BY <1>1, NumbersType DEF UserStates, UserPlaces
<1>3. QED
  BY <1>1, <1>2, NowhereType DEF CallEnds, UserStates

(* A step keeps the types.                                                 *)
LEMMA ServerTypesStay ==
    MCPServerTypeOK /\ [MCPServerNext]_serverVars => MCPServerTypeOK'
<1> SUFFICES ASSUME MCPServerTypeOK, [MCPServerNext]_serverVars
             PROVE  MCPServerTypeOK'
  OBVIOUS
<1> USE NumbersType
<1>1. CASE UNCHANGED serverVars
  BY <1>1 DEF serverVars, MCPServerTypeOK
<1>2. CASE NewServer
  BY <1>2 DEF NewServer, MCPServerTypeOK
<1>3. ASSUME NEW u \in Users, NEW visit \in BOOLEAN, EnterConnect(u, visit)
      PROVE  MCPServerTypeOK'
  <2>1. [Nowhere EXCEPT !.at = "take", !.visit = visit] \in UserStates
    BY NowhereType DEF UserStates, UserPlaces
  <2>2. QED
    BY <1>3, <2>1 DEF EnterConnect, Meets, MCPServerTypeOK, UserStates
<1>4. ASSUME NEW u \in Users, EnterCleanup(u)
      PROVE  MCPServerTypeOK'
  <2>1. [Nowhere EXCEPT !.at = "drop client"] \in UserStates
    BY NowhereType DEF UserStates, UserPlaces
  <2>2. users' \in [Users -> UserStates]
    BY <1>4, <2>1 DEF EnterCleanup, MCPServerTypeOK, UserStates
  <2>3. visits' \in 0..MaxVisits /\ met' \in BOOLEAN
    <3>1. visits' \in 0..MaxVisits
      <4>1. visits \in 0..MaxVisits /\ visits < MaxVisits /\ visits' = visits + 1
        BY <1>4 DEF EnterCleanup, MCPServerTypeOK
      <4>2. QED
        BY <4>1
    <3>2. met' \in BOOLEAN
      BY <1>4 DEF EnterCleanup, Meets, MCPServerTypeOK
    <3>3. QED
      BY <3>1, <3>2
  <2>4. UNCHANGED <<transport, flag, client, open, built, lost, stumbled>>
    BY <1>4 DEF EnterCleanup
  <2>5. QED
    BY <2>2, <2>3, <2>4 DEF MCPServerTypeOK, UserStates
<1>5. ASSUME NEW u \in Users,
             \/ UseAndLeave(u) \/ TakeOld(u) \/ CleanOld(u)
             \/ Store(u) \/ TakeClient(u) \/ CleanClient(u)
      PROVE  MCPServerTypeOK'
  <2>1. users[u].has \in ClientOrNone /\ client \in ClientOrNone
    BY DEF MCPServerTypeOK
  <2>2. \E place \in UserPlaces, c \in ClientOrNone : UserGoes(u, place, c)
    BY <1>5, <2>1
       DEF UseAndLeave, TakeOld, CleanOld, Store, TakeClient, CleanClient, UserPlaces
  <2>3. users' \in [Users -> UserStates]
    BY <2>2, GoesType
  <2>4. QED
    BY <1>5, <2>1, <2>3 DEF UseAndLeave, TakeOld, CleanOld, Store, TakeClient,
       CleanClient, Meets, MCPServerTypeOK, UserStates
<1>6. ASSUME NEW u \in Users, BuildClient(u)
      PROVE  MCPServerTypeOK'
  <2>1. built' \in ClientOrNone /\ built' \in ServerClients
    BY <1>6 DEF BuildClient, MCPServerTypeOK, ClientOrNone, ServerClients, NoClient
  <2>2. users' \in [Users -> UserStates]
    BY <1>6, <2>1, GoesType DEF BuildClient, UserPlaces
  <2>3. QED
    BY <1>6, <2>1, <2>2 DEF BuildClient, MCPServerTypeOK, UserStates
<1>7. ASSUME NEW u \in Users,
             \/ ConnectStdio(u) \/ StoreToo(u) \/ CleanupStdio(u)
             \/ Unflag(u) \/ RemoteFails(u)
      PROVE  MCPServerTypeOK'
  <2>1. users[u].has \in ClientOrNone
    BY DEF MCPServerTypeOK
  <2>2. \E ok \in BOOLEAN, next \in {"away", "use"} : CallEnds(u, ok, next)
    BY <1>7 DEF ConnectStdio, StoreToo, CleanupStdio, Unflag, RemoteFails
  <2>3. users' \in [Users -> UserStates] /\ stumbled' \in BOOLEAN
    BY <2>2, EndsType
  <2>4. QED
    BY <1>7, <2>1, <2>3 DEF ConnectStdio, StoreToo, CleanupStdio, Unflag,
       RemoteFails, MCPServerTypeOK, UserStates
<1>8. ASSUME NEW u \in Users, UserIsDropped(u)
      PROVE  MCPServerTypeOK'
  BY <1>8, NowhereType DEF UserIsDropped, MCPServerTypeOK, UserStates
<1>9. QED
  BY <1>1, <1>2, <1>3, <1>4, <1>5, <1>6, <1>7, <1>8 DEF MCPServerNext

LEMMA ServerTypesBegin == MCPServerInit => MCPServerTypeOK
<1>1. 0 \in ClientOrNone /\ 0 \in 0..MaxVisits
  BY NumbersType DEF NoClient
<1>2. QED
  BY <1>1, NowhereType DEF MCPServerInit, MCPServerTypeOK, UserStates, NoClient

(* The state of a server and of its users keeps its types.                 *)
THEOREM ServerTypes == MCPServerSpec => []MCPServerTypeOK
BY ServerTypesBegin, ServerTypesStay, PTL DEF MCPServerSpec

-----------------------------------------------------------------------------
(* Who has the open client.                                                *)

NobodyInside == \A u \in Users : ~Inside(u)
AloneInside(u) == \A v \in Users \ {u} : ~Inside(v)

(* At rest: the property, but for the two histories that excuse it.        *)
AtRest ==
    /\ open = {client} \ {NoClient}
    /\ transport # "stdio" /\ ~stumbled => (flag <=> client # NoClient)

(* On its way through connect() or cleanup() a user that is alone has the  *)
(* only open client itself, or left it with the server.                    *)
OnItsWay(u) ==
    /\ UserAt(u, "take") \/ UserAt(u, "drop client") => open = {client} \ {NoClient}
    /\ UserAt(u, "clean old") \/ UserAt(u, "clean") \/ UserAt(u, "store") =>
           client = NoClient /\ users[u].has # NoClient /\ open = {users[u].has}
    /\ UserAt(u, "build") \/ UserAt(u, "unflag") => client = NoClient /\ open = {}
    /\ UserAt(u, "store too") =>
           /\ users[u].has # NoClient /\ open = {users[u].has}
           /\ IF transport = "sse" THEN client = users[u].has
              ELSE client = NoClient /\ flag

HoldInv ==
    /\ transport = "none" => \A u \in Users : UserAt(u, "away")
    /\ ~met /\ ~lost =>
        /\ \A u \in Users : Inside(u) => AloneInside(u) /\ OnItsWay(u)
        /\ NobodyInside => AtRest

(* Who enters without meeting anybody finds the server at rest.            *)
LEMMA UserEnters ==
    ASSUME MCPServerTypeOK, HoldInv, NEW u \in Users,
           \/ \E visit \in BOOLEAN : EnterConnect(u, visit)
           \/ EnterCleanup(u)
           \/ UseAndLeave(u)
    PROVE  HoldInv'
<1>1. /\ ~Inside(u)
      /\ \A v \in Users \ {u} : users'[v] = users[v]
      /\ users'[u].at \in {"take", "drop client"}
      /\ UNCHANGED <<transport, flag, client, open, lost, stumbled>>
      /\ met' = (met \/ \E v \in Users \ {u} : Inside(v))
  <2>1. users \in [Users -> UserStates]
    BY DEF MCPServerTypeOK, UserStates
  <2>2. CASE \E visit \in BOOLEAN : EnterConnect(u, visit)
    BY <2>1, <2>2 DEF EnterConnect, UserAt, Inside, Meets, Nowhere
  <2>3. CASE EnterCleanup(u)
    BY <2>1, <2>3 DEF EnterCleanup, UserAt, Inside, Meets, Nowhere
  <2>4. CASE UseAndLeave(u)
    BY <2>4, GoesType, NumbersType
       DEF UseAndLeave, UserAt, Inside, Meets, UserPlaces
  <2>5. QED
    BY <2>2, <2>3, <2>4
<1>2. transport' # "none"
  BY DEF EnterConnect, EnterCleanup, UseAndLeave, HoldInv, UserAt
<1>3. ASSUME ~met', ~lost' PROVE /\ AloneInside(u)' /\ OnItsWay(u)' /\ Inside(u)'
                                 /\ \A v \in Users \ {u} : ~Inside(v)'
  <2>1. NobodyInside /\ AtRest
    BY <1>1, <1>3 DEF NobodyInside, HoldInv
  <2>2. QED
    BY <1>1, <2>1 DEF NobodyInside, AtRest, AloneInside, OnItsWay, Inside, UserAt
<1>4. QED
  BY <1>2, <1>3 DEF HoldInv, NobodyInside

(* Who is alone inside takes a step: the others stay where they are.       *)
LEMMA UserInside ==
    ASSUME MCPServerTypeOK, HoldInv, NEW u \in Users, Inside(u),
           \A v \in Users \ {u} : users'[v] = users[v],
           UNCHANGED <<transport, met, lost>>,
           OnItsWay(u) => (Inside(u)' => OnItsWay(u)') /\ (~Inside(u)' => AtRest')
    PROVE  HoldInv'
<1>1. transport' # "none"
  BY DEF HoldInv, Inside, UserAt
<1>2. ASSUME ~met', ~lost'
      PROVE  /\ AloneInside(u)' /\ \A v \in Users \ {u} : ~Inside(v)'
             /\ Inside(u)' => OnItsWay(u)'
             /\ ~Inside(u)' => AtRest'
  <2>1. AloneInside(u) /\ OnItsWay(u)
    BY <1>2 DEF HoldInv
  <2>2. QED
    BY <2>1 DEF AloneInside, Inside
<1>3. QED
  BY <1>1, <1>2 DEF HoldInv, NobodyInside

(* A step of connect() or cleanup() of user u.                             *)
LEMMA UserMoves ==
    ASSUME MCPServerTypeOK, HoldInv, NEW u \in Users,
           \/ TakeOld(u) \/ CleanOld(u) \/ BuildClient(u) \/ Store(u)
           \/ TakeClient(u) \/ CleanClient(u)
    PROVE  HoldInv'
<1> DEFINE Goes(place, c) == UserGoes(u, place, c)
<1>1. users[u].has \in ClientOrNone /\ client \in ClientOrNone
  BY DEF MCPServerTypeOK
<1>2. Inside(u) /\ UNCHANGED <<transport, met, lost>>
  BY DEF TakeOld, CleanOld, BuildClient, Store, TakeClient, CleanClient, Inside, UserAt
<1>3. BuildClient(u) => built' \in ClientOrNone /\ built' # NoClient
  BY MCPServerAssumption
     DEF BuildClient, MCPServerTypeOK, ClientOrNone, NoClient
<1>4. \E place \in UserPlaces, c \in ClientOrNone :
          UserGoes(u, place, c)
  BY <1>1, <1>3, NumbersType
     DEF TakeOld, CleanOld, BuildClient, Store, TakeClient, CleanClient, UserPlaces
<1>5. \A v \in Users \ {u} : users'[v] = users[v]
  BY <1>4, GoesType
<1>6. ASSUME OnItsWay(u) PROVE Inside(u)' /\ OnItsWay(u)'
  <2>1. CASE TakeOld(u)
    BY <1>1, <1>6, <2>1, NumbersType, GoesType, ZenonT(60)
       DEF TakeOld, OnItsWay, Inside, UserAt, UserPlaces
  <2>2. CASE CleanOld(u)
    BY <1>6, <2>2, NumbersType, GoesType
       DEF CleanOld, OnItsWay, Inside, UserAt, UserPlaces
  <2>3. CASE BuildClient(u)
    BY <1>3, <1>6, <2>3, GoesType, ZenonT(60)
       DEF BuildClient, OnItsWay, Inside, UserAt, UserPlaces
  <2>4. CASE Store(u)
    BY <1>1, <1>6, <2>4, GoesType, ZenonT(60)
       DEF Store, OnItsWay, Inside, UserAt, UserPlaces
  <2>5. CASE TakeClient(u)
    BY <1>1, <1>6, <2>5, NumbersType, GoesType, ZenonT(60)
       DEF TakeClient, OnItsWay, Inside, UserAt, UserPlaces
  <2>6. CASE CleanClient(u)
    BY <1>6, <2>6, NumbersType, GoesType
       DEF CleanClient, OnItsWay, Inside, UserAt, UserPlaces
  <2>7. QED
    BY <2>1, <2>2, <2>3, <2>4, <2>5, <2>6
<1>7. QED
  BY <1>2, <1>5, <1>6, UserInside

(* The last step of connect() or cleanup() of user u.                      *)
LEMMA UserEnds ==
    ASSUME MCPServerTypeOK, HoldInv, NEW u \in Users,
           \/ ConnectStdio(u) \/ StoreToo(u) \/ CleanupStdio(u)
           \/ Unflag(u) \/ RemoteFails(u)
    PROVE  HoldInv'
<1>1. Inside(u) /\ UNCHANGED <<transport, met, lost>>
  BY DEF ConnectStdio, StoreToo, CleanupStdio, Unflag, RemoteFails, Inside, UserAt
<1>2. \E ok \in BOOLEAN, next \in {"away", "use"} :
          /\ CallEnds(u, ok, next)
          /\ RemoteFails(u) \/ ok
  BY DEF ConnectStdio, StoreToo, CleanupStdio, Unflag, RemoteFails
<1>3. /\ \A v \in Users \ {u} : users'[v] = users[v]
      /\ ~Inside(u)'
      /\ RemoteFails(u) \/ ~stumbled'
  BY <1>2, EndsType DEF Inside
<1>4. RemoteFails(u) => stumbled'
  BY EndsType DEF RemoteFails
<1>5. ASSUME OnItsWay(u) PROVE AtRest'
  <2>1. CASE ConnectStdio(u) \/ CleanupStdio(u)
    BY <1>5, <2>1 DEF ConnectStdio, CleanupStdio, OnItsWay, AtRest, UserAt
  <2>2. CASE StoreToo(u)
    BY <1>5, <2>2 DEF StoreToo, OnItsWay, AtRest, UserAt
  <2>3. CASE Unflag(u)
    BY <1>5, <2>3 DEF Unflag, OnItsWay, AtRest, UserAt
  <2>4. CASE RemoteFails(u)
    BY <1>4, <1>5, <2>4 DEF RemoteFails, OnItsWay, AtRest, UserAt
  <2>5. QED
    BY <2>1, <2>2, <2>3, <2>4
<1>6. QED
  BY <1>1, <1>3, <1>5, UserInside

LEMMA HoldStays ==
    MCPServerTypeOK /\ HoldInv /\ [MCPServerNext]_serverVars => HoldInv'
<1> SUFFICES ASSUME MCPServerTypeOK, HoldInv, [MCPServerNext]_serverVars
             PROVE  HoldInv'
  OBVIOUS
<1>1. CASE UNCHANGED serverVars
  BY <1>1 DEF serverVars, HoldInv, NobodyInside, AtRest, AloneInside, OnItsWay,
     Inside, UserAt
<1>2. CASE NewServer
  <2>1. NobodyInside /\ NobodyInside'
    BY <1>2 DEF NewServer, HoldInv, NobodyInside, Inside, UserAt
  <2>2. ~met /\ ~lost => AtRest'
    BY <1>2, <2>1 DEF NewServer, HoldInv, AtRest
  <2>3. QED
    BY <1>2, <2>1, <2>2 DEF NewServer, HoldInv, NobodyInside
<1>3. ASSUME NEW u \in Users, UserIsDropped(u)
      PROVE  HoldInv'
  BY <1>3 DEF UserIsDropped, HoldInv, UserAt
<1>4. QED
  BY <1>1, <1>2, <1>3, UserEnters, UserMoves, UserEnds DEF MCPServerNext

LEMMA HoldBegins == MCPServerInit => HoldInv
  BY NowhereType DEF MCPServerInit, HoldInv, NobodyInside, AtRest, Inside, UserAt, NoClient

(* However visits, connects and cleanups of any number of users follow one *)
(* another and fail: as long as none overlap and none is dropped, an MCP   *)
(* server leaves no client open that it does not hold (mcp/server.rs).     *)
THEOREM ClientsCorrect == MCPServerSpec => []ClientsAreAccountedFor
<1>1. HoldInv => ClientsAreAccountedFor
  BY DEF HoldInv, NobodyInside, AtRest, ClientsAreAccountedFor
<1>2. QED
  BY <1>1, HoldBegins, HoldStays, ServerTypes, PTL DEF MCPServerSpec

-----------------------------------------------------------------------------
(* Spans and traces.                                                       *)

(* What a step of run r on thread th does to all the runs.                 *)
LEMMA StepsType ==
    ASSUME TracingTypeOK, NEW r \in TracedRuns, NEW th \in Threads,
           NEW to \in TracedStates, Steps(r, th, to)
    PROVE  /\ traced' \in [TracedRuns -> TracedStates]
           /\ traced'[r].phase = to.phase /\ traced'[r].off = to.off
           /\ traced'[r].thread = th
           /\ traced'[r].alone =>
                  to.alone /\ (Running(r) => traced[r].thread = th)
           /\ \A q \in TracedRuns \ {r} :
                  /\ traced'[q].phase = traced[q].phase
                  /\ traced'[q].off = traced[q].off
                  /\ traced'[q].thread = traced[q].thread
                  /\ traced'[q].alone =>
                         traced[q].alone /\ ~(Running(q) /\ traced[q].thread = th)
<1> DEFINE mine == [to EXCEPT !.thread = th,
                              !.alone = @ /\ (~Running(r) \/ traced[r].thread = th)]
           theirs(q) == IF Running(q) /\ traced[q].thread = th
                        THEN [traced[q] EXCEPT !.alone = FALSE] ELSE traced[q]
<1>1. /\ mine \in TracedStates
      /\ mine.phase = to.phase /\ mine.off = to.off /\ mine.thread = th
      /\ mine.alone => to.alone /\ (Running(r) => traced[r].thread = th)
  BY DEF TracedStates
<1>2. ASSUME NEW q \in TracedRuns
      PROVE  /\ theirs(q) \in TracedStates
             /\ theirs(q).phase = traced[q].phase /\ theirs(q).off = traced[q].off
             /\ theirs(q).thread = traced[q].thread
             /\ theirs(q).alone =>
                    traced[q].alone /\ ~(Running(q) /\ traced[q].thread = th)
  BY DEF TracingTypeOK, TracedStates
<1>3. traced' = [q \in TracedRuns |-> IF q = r THEN mine ELSE theirs(q)]
  BY DEF Steps
<1> HIDE DEF mine, theirs
<1>4. QED
  BY <1>1, <1>2, <1>3

(* What the run of each action becomes.                                    *)
TraceStarts(r, silent) == [traced[r] EXCEPT !.phase = "live", !.off = silent]
SpanOpens(r, silent) == [traced[r] EXCEPT !.span = IF silent THEN "silent" ELSE "open"]
SpanCloses(r) == [traced[r] EXCEPT !.span = "closed"]
TraceEnds(r) == [traced[r] EXCEPT !.phase = "over", !.span = "closed"]

LEMMA BecomesType ==
    ASSUME TracingTypeOK, NEW r \in TracedRuns, NEW silent \in BOOLEAN
    PROVE  /\ TraceStarts(r, silent) \in TracedStates
           /\ TraceStarts(r, silent).phase = "live" /\ TraceStarts(r, silent).off = silent
           /\ SpanOpens(r, silent) \in TracedStates
           /\ SpanOpens(r, silent).phase = traced[r].phase
           /\ SpanOpens(r, silent).off = traced[r].off
           /\ SpanOpens(r, silent).alone = traced[r].alone
           /\ SpanCloses(r) \in TracedStates /\ SpanCloses(r).phase = traced[r].phase
           /\ SpanCloses(r).off = traced[r].off /\ SpanCloses(r).alone = traced[r].alone
           /\ TraceEnds(r) \in TracedStates /\ TraceEnds(r).phase = "over"
           /\ TraceEnds(r).off = traced[r].off
<1>1. traced[r] \in TracedStates
  BY DEF TracingTypeOK
<1>2. QED
  BY <1>1 DEF TraceStarts, SpanOpens, SpanCloses, TraceEnds, TracedStates

(* A step keeps the types.                                                 *)
LEMMA TracingTypesStay == TracingTypeOK /\ [TracingNext]_tracingVars => TracingTypeOK'
<1> SUFFICES ASSUME TracingTypeOK, [TracingNext]_tracingVars PROVE TracingTypeOK'
  OBVIOUS
<1>1. CASE UNCHANGED tracingVars
  BY <1>1 DEF tracingVars, TracingTypeOK
<1>2. CASE SetDisabled
  BY <1>2 DEF SetDisabled, TracingTypeOK
<1>3. ASSUME NEW r \in TracedRuns, NEW th \in Threads, StartTrace(r, th)
      PROVE  TracingTypeOK'
  <2>1. PICK silent \in BOOLEAN :
            /\ Steps(r, th, TraceStarts(r, silent))
            /\ current' = [current EXCEPT ![th].trace = r, ![th].traceOff = silent]
    BY <1>3 DEF StartTrace, TraceStarts, TracingTypeOK
  <2>2. traced' \in [TracedRuns -> TracedStates]
    BY <2>1, StepsType, BecomesType
  <2>3. current' \in [Threads -> Scopes]
    BY <2>1 DEF TracingTypeOK, Scopes, RunOrNone
  <2>4. QED
    BY <1>3, <2>2, <2>3 DEF StartTrace, TracingTypeOK
<1>4. ASSUME NEW r \in TracedRuns, NEW th \in Threads, StartSpan(r, th)
      PROVE  TracingTypeOK'
  <2> DEFINE silent == off \/ current[th].traceOff \/ current[th].spanOff
             named == IF current[th].trace = NoRun THEN Fresh ELSE current[th].trace
  <2>1. silent \in BOOLEAN /\ named \in TracedRuns \cup {Fresh}
    BY DEF TracingTypeOK, Scopes, RunOrNone
  <2>2. /\ Steps(r, th, SpanOpens(r, silent))
        /\ current' = [current EXCEPT ![th].span = r, ![th].spanOff = silent]
        /\ reported' = IF silent THEN reported
                       ELSE [run |-> r, trace |-> named, alone |-> traced'[r].alone]
        /\ UNCHANGED off
    BY <1>4 DEF StartSpan, SpanOpens
  <2> HIDE DEF silent, named
  <2>3. traced' \in [TracedRuns -> TracedStates]
    BY <2>1, <2>2, StepsType, BecomesType
  <2>4. current' \in [Threads -> Scopes]
    BY <2>1, <2>2 DEF TracingTypeOK, Scopes, RunOrNone
  <2>5. reported' \in ReportedSpans
    BY <2>1, <2>2, <2>3 DEF TracingTypeOK, ReportedSpans, TracedStates, RunOrNone
  <2>6. QED
    BY <2>2, <2>3, <2>4, <2>5 DEF TracingTypeOK
<1>5. ASSUME NEW r \in TracedRuns, NEW th \in Threads,
             FinishSpan(r, th) \/ FinishTrace(r, th)
      PROVE  TracingTypeOK'
  <2>1. traced' \in [TracedRuns -> TracedStates]
    BY <1>5, StepsType, BecomesType DEF FinishSpan, FinishTrace, SpanCloses, TraceEnds
  <2>2. current' \in [Threads -> Scopes]
    BY <1>5 DEF FinishSpan, FinishTrace, TracingTypeOK, Scopes, RunOrNone
  <2>3. QED
    BY <1>5, <2>1, <2>2 DEF FinishSpan, FinishTrace, TracingTypeOK
<1>6. QED
  BY <1>1, <1>2, <1>3, <1>4, <1>5 DEF TracingNext

LEMMA TracingTypesBegin == TracingInit => TracingTypeOK
<1> SUFFICES ASSUME TracingInit PROVE TracingTypeOK
  OBVIOUS
<1>1. current \in [Threads -> Scopes]
  BY DEF TracingInit, Scopes, NothingCurrent, RunOrNone
<1>2. traced \in [TracedRuns -> TracedStates]
  BY DEF TracingInit, TracedStates
<1>3. reported \in ReportedSpans
  BY DEF TracingInit, ReportedSpans, RunOrNone
<1>4. QED
  BY <1>1, <1>2, <1>3 DEF TracingInit, TracingTypeOK

(* The scopes of threads and the states of runs keep their types.          *)
THEOREM TracingTypes == TracingSpec => []TracingTypeOK
BY TracingTypesBegin, TracingTypesStay, PTL DEF TracingSpec

-----------------------------------------------------------------------------
(* Under whose trace a span is reported.                                   *)

(* A run that has been alone on its thread finds its own trace there, ...  *)
ScopeIsOwn ==
    \A r \in TracedRuns :
        Running(r) /\ traced[r].alone =>
            /\ traced[r].thread \in Threads
            /\ current[traced[r].thread].trace = r
            /\ current[traced[r].thread].traceOff = traced[r].off

(* ... and so did the one whose span was reported last.                    *)
ReportIsOwn ==
    reported.alone =>
        /\ reported.run \in TracedRuns /\ traced[reported.run].phase # "unborn"
        /\ reported.trace = reported.run /\ ~traced[reported.run].off

(* A step that leaves the trace of its thread alone.                       *)
LEMMA ScopeStays ==
    ASSUME TracingTypeOK, ScopeIsOwn, NEW r \in TracedRuns, NEW th \in Threads,
           NEW to \in TracedStates, Steps(r, th, to), Running(r),
           to.phase = traced[r].phase, to.off = traced[r].off,
           to.alone = traced[r].alone,
           \A t \in Threads : /\ current'[t].trace = current[t].trace
                              /\ current'[t].traceOff = current[t].traceOff
    PROVE  ScopeIsOwn'
<1> SUFFICES ASSUME NEW q \in TracedRuns, Running(q)', traced'[q].alone
             PROVE  /\ traced'[q].thread \in Threads
                    /\ current'[traced'[q].thread].trace = q
                    /\ current'[traced'[q].thread].traceOff = traced'[q].off
  BY DEF ScopeIsOwn
<1>1. /\ Running(q) /\ traced[q].alone
      /\ traced'[q].thread = traced[q].thread /\ traced'[q].off = traced[q].off
  <2>1. CASE q = r
    BY <2>1, StepsType
  <2>2. CASE q # r
    BY <2>2, StepsType DEF Running
  <2>3. QED
    BY <2>1, <2>2
<1>2. QED
  BY <1>1 DEF ScopeIsOwn

(* A step that makes its trace the current one, or ends it.                *)
LEMMA ScopeEnters ==
    ASSUME TracingTypeOK, ScopeIsOwn, NEW r \in TracedRuns, NEW th \in Threads,
           NEW to \in TracedStates, Steps(r, th, to),
           to.phase = "over" \/ (current'[th].trace = r /\ current'[th].traceOff = to.off),
           \A t \in Threads \ {th} : current'[t] = current[t]
    PROVE  ScopeIsOwn'
BY StepsType DEF ScopeIsOwn, Running

(* The traces of reported runs neither end unborn nor change their mind.   *)
LEMMA ReportStays ==
    ASSUME TracingTypeOK, ReportIsOwn, NEW r \in TracedRuns, NEW th \in Threads,
           NEW to \in TracedStates, Steps(r, th, to), UNCHANGED reported,
           traced[r].phase = "unborn" \/ to.off = traced[r].off,
           to.phase # "unborn"
    PROVE  ReportIsOwn'
BY StepsType DEF ReportIsOwn

LEMMA OwnStays ==
    TracingTypeOK /\ ScopeIsOwn /\ ReportIsOwn /\ [TracingNext]_tracingVars
        => ScopeIsOwn' /\ ReportIsOwn'
<1> SUFFICES ASSUME TracingTypeOK, ScopeIsOwn, ReportIsOwn, [TracingNext]_tracingVars
             PROVE  ScopeIsOwn' /\ ReportIsOwn'
  OBVIOUS
<1>1. CASE UNCHANGED tracingVars \/ SetDisabled
  BY <1>1 DEF tracingVars, SetDisabled, ScopeIsOwn, ReportIsOwn, Running
<1>2. ASSUME NEW r \in TracedRuns, NEW th \in Threads, StartTrace(r, th)
      PROVE  ScopeIsOwn' /\ ReportIsOwn'
  <2>1. PICK silent \in BOOLEAN :
            /\ Steps(r, th, TraceStarts(r, silent))
            /\ current' = [current EXCEPT ![th].trace = r, ![th].traceOff = silent]
    BY <1>2 DEF StartTrace, TraceStarts, TracingTypeOK
  <2>2. /\ current'[th].trace = r /\ current'[th].traceOff = silent
        /\ \A t \in Threads \ {th} : current'[t] = current[t]
    BY <2>1 DEF TracingTypeOK, Scopes
  <2>3. traced[r].phase = "unborn" /\ UNCHANGED reported
    BY <1>2 DEF StartTrace
  <2>4. /\ TraceStarts(r, silent) \in TracedStates
        /\ TraceStarts(r, silent).phase = "live" /\ TraceStarts(r, silent).off = silent
    BY BecomesType
  <2>5. ScopeIsOwn'
    BY <2>1, <2>2, <2>4, ScopeEnters
  <2>6. ReportIsOwn'
    BY <2>1, <2>3, <2>4, ReportStays
  <2>7. QED
    BY <2>5, <2>6
<1>3. ASSUME NEW r \in TracedRuns, NEW th \in Threads, StartSpan(r, th)
      PROVE  ScopeIsOwn' /\ ReportIsOwn'
  <2> DEFINE silent == off \/ current[th].traceOff \/ current[th].spanOff
  <2>1. silent \in BOOLEAN /\ (~silent => ~current[th].traceOff)
    BY DEF TracingTypeOK, Scopes
  <2>2. /\ Running(r) /\ Steps(r, th, SpanOpens(r, silent))
        /\ current' = [current EXCEPT ![th].span = r, ![th].spanOff = silent]
    BY <1>3 DEF StartSpan, SpanOpens
  <2>3. /\ silent => UNCHANGED reported
        /\ ~silent => /\ reported'.run = r /\ reported'.alone = traced'[r].alone
                      /\ current[th].trace = r /\ r # NoRun => reported'.trace = r
    BY <1>3 DEF StartSpan
  <2> HIDE DEF silent
  <2>4. \A t \in Threads : /\ current'[t].trace = current[t].trace
                          /\ current'[t].traceOff = current[t].traceOff
    BY <2>2 DEF TracingTypeOK, Scopes
  <2>5. ScopeIsOwn'
    BY <2>1, <2>2, <2>4, BecomesType, ScopeStays
  <2>6. CASE silent
    BY <2>1, <2>2, <2>3, <2>5, <2>6, BecomesType, ReportStays DEF Running
  <2>7. CASE ~silent
    <3>1. ASSUME traced'[r].alone
          PROVE  /\ traced'[r].phase # "unborn" /\ ~traced'[r].off
                 /\ current[th].trace = r
      <4>1. /\ traced[r].alone /\ traced[r].thread = th
            /\ traced'[r].phase = traced[r].phase /\ traced'[r].off = traced[r].off
        BY <2>1, <2>2, <3>1, BecomesType, StepsType
      <4>2. QED
        BY <2>1, <2>2, <2>7, <4>1 DEF ScopeIsOwn, Running
    <3>2. ReportIsOwn'
      BY <2>3, <2>7, <3>1, RunsAssumption DEF ReportIsOwn
    <3>3. QED
      BY <2>5, <3>2
  <2>8. QED
    BY <2>6, <2>7
<1>4. ASSUME NEW r \in TracedRuns, NEW th \in Threads, FinishSpan(r, th)
      PROVE  ScopeIsOwn' /\ ReportIsOwn'
  <2>1. Running(r) /\ Steps(r, th, SpanCloses(r)) /\ UNCHANGED reported
    BY <1>4 DEF FinishSpan, SpanCloses
  <2>2. \A t \in Threads : /\ current'[t].trace = current[t].trace
                          /\ current'[t].traceOff = current[t].traceOff
    BY <1>4 DEF FinishSpan, TracingTypeOK, Scopes
  <2>3. QED
    BY <2>1, <2>2, BecomesType, ScopeStays, ReportStays DEF Running
<1>5. ASSUME NEW r \in TracedRuns, NEW th \in Threads, FinishTrace(r, th)
      PROVE  ScopeIsOwn' /\ ReportIsOwn'
  <2>1. Steps(r, th, TraceEnds(r)) /\ UNCHANGED reported
    BY <1>5 DEF FinishTrace, TraceEnds
  <2>2. \A t \in Threads \ {th} : current'[t] = current[t]
    BY <1>5 DEF FinishTrace, TracingTypeOK, Scopes
  <2>3. QED
    BY <2>1, <2>2, BecomesType, ScopeEnters, ReportStays
<1>6. QED
  BY <1>1, <1>2, <1>3, <1>4, <1>5 DEF TracingNext

LEMMA OwnBegins == TracingInit => ScopeIsOwn /\ ReportIsOwn
  BY DEF TracingInit, ScopeIsOwn, ReportIsOwn, Running

(* A run that stays on its thread, where no other run takes a step, has    *)
(* its spans reported under its own trace, and none when its tracing is    *)
(* disabled (tracing/provider.rs, scope.rs): whatever traces and spans     *)
(* earlier runs left behind on that thread.                                *)
THEOREM SpansCorrect == TracingSpec => []SpansNameTheirRun
<1>1. ReportIsOwn => SpansNameTheirRun
  BY DEF ReportIsOwn, SpansNameTheirRun
<1>2. QED
  BY <1>1, OwnBegins, OwnStays, TracingTypes, PTL DEF TracingSpec

-----------------------------------------------------------------------------
(* Side by side.                                                           *)

LiveInv ==
    /\ RealtimeInv /\ StreamsInv
    /\ VoiceInv
    /\ MCPServerTypeOK /\ HoldInv
    /\ TracingTypeOK /\ ScopeIsOwn /\ ReportIsOwn

(* A step is a step of one component and a stutter of the others.          *)
LEMMA LiveSteps ==
    ASSUME [LiveNext]_liveVars
    PROVE  /\ [RealtimeNext]_realtimeVars
           /\ [VoiceNext]_voiceVars
           /\ [MCPServerNext]_serverVars
           /\ [TracingNext]_tracingVars
<1>1. CASE UNCHANGED liveVars
  BY <1>1 DEF liveVars
<1>2. CASE (Settings \/ Streams) /\ UNCHANGED <<voiceVars, serverVars, tracingVars>>
  BY <1>2 DEF Settings, Streams
<1>3. CASE (Turns \/ Listeners) /\ UNCHANGED <<realtimeVars, serverVars, tracingVars>>
  BY <1>3 DEF Turns, Listeners
<1>4. CASE MCPServerNext /\ UNCHANGED <<realtimeVars, voiceVars, tracingVars>>
  BY <1>4
<1>5. CASE TracingNext /\ UNCHANGED <<realtimeVars, voiceVars, serverVars>>
  BY <1>5
<1>6. QED
  BY <1>1, <1>2, <1>3, <1>4, <1>5 DEF LiveNext

LEMMA LiveBegins == LiveInit => LiveInv
<1> SUFFICES ASSUME LiveInit PROVE LiveInv
  OBVIOUS
<1>1. RealtimeInit /\ VoiceInit /\ MCPServerInit /\ TracingInit
  BY DEF LiveInit
<1>2. RealtimeInv /\ StreamsInv /\ VoiceInv
  BY <1>1, RealtimeBegins, StreamsBegin, VoiceBegins
<1>3. MCPServerTypeOK /\ HoldInv
  BY <1>1, ServerTypesBegin, HoldBegins
<1>4. TracingTypeOK /\ ScopeIsOwn /\ ReportIsOwn
  BY <1>1, TracingTypesBegin, OwnBegins
<1>5. QED
  BY <1>2, <1>3, <1>4 DEF LiveInv

LEMMA LiveStep == LiveInv /\ [LiveNext]_liveVars => LiveInv'
<1> SUFFICES ASSUME LiveInv, [LiveNext]_liveVars PROVE LiveInv'
  OBVIOUS
<1>1. RealtimeInv' /\ StreamsInv'
  BY LiveSteps, RealtimeStep, StreamsStep DEF LiveInv
<1>2. VoiceInv'
  BY LiveSteps, VoiceStep DEF LiveInv
<1>3. MCPServerTypeOK' /\ HoldInv'
  BY LiveSteps, ServerTypesStay, HoldStays DEF LiveInv
<1>4. TracingTypeOK' /\ ScopeIsOwn' /\ ReportIsOwn'
  BY LiveSteps, TracingTypesStay, OwnStays DEF LiveInv
<1>5. QED
  BY <1>1, <1>2, <1>3, <1>4 DEF LiveInv

(* The types of the realtime session, the voice pipeline, the MCP server   *)
(* and the tracing, the places of readers and the lengths of records with  *)
(* them.                                                                   *)
THEOREM LiveTypesCorrect == LiveSpec => []LiveTypeOK
<1>1. LiveInv => LiveTypeOK
  BY StreamsHold, VoiceHolds DEF LiveInv, LiveTypeOK
<1>2. QED
  BY <1>1, LiveBegins, LiveStep, PTL DEF LiveSpec

(* Who follows a realtime session or a turn of a voice pipeline, stream or *)
(* waiter, sleeps through nothing, but for what came between its look and  *)
(* its load of the revision, or a close whose events are still to come or  *)
(* were lost with the call.                                                *)
THEOREM ReadersCorrect == LiveSpec => []ReadersAreTold
<1>1. LiveInv => ReadersAreTold
  BY StreamsHold, VoiceHolds DEF LiveInv, ReadersAreTold
<1>2. QED
  BY <1>1, LiveBegins, LiveStep, PTL DEF LiveSpec
=============================================================================
