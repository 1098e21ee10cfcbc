-------------------------- MODULE MCPManagerProofs --------------------------
(***************************************************************************)
(* Proofs about MCPManager, for every number of servers and every set of   *)
(* visitors: the types, who knows of a connected server, what a strict     *)
(* failure leaves behind, and the books the manager keeps.                 *)
(***************************************************************************)
EXTENDS MCPManager, TLAPS

USE DEF Kinds, Connecting, Undoing, Cleaning

(* What the small operators return.                                        *)
LEMMA OnceType == \A S : Once(S) \in [Servers -> Nat]
BY DEF Once

LEMMA CallType ==
    \A kind \in Kinds, todo \in SUBSET Servers : Call(kind, todo) \in Calls
BY DEF Call, Calls

LEMMA CallFields ==
    ASSUME NEW kind, NEW todo
    PROVE  /\ Call(kind, todo).kind = kind /\ Call(kind, todo).todo = todo
           /\ Call(kind, todo).newly = {} /\ Call(kind, todo).refused = {}
BY DEF Call

LEMMA NoCallKind == NoCall.kind = "idle"
BY CallFields DEF NoCall

LEMMA NoCallType == NoCall \in Calls
BY CallType DEF NoCall

LEMMA AwayType == Away \in Visits
BY DEF Away, Visits

LEMMA SetOnce ==
    ASSUME NEW f \in [Servers -> Nat], NEW S, NEW T
    PROVE  [s \in Servers |-> (IF s \in S THEN 0 ELSE f[s]) + Once(T)[s]]
             \in [Servers -> Nat]
<1>1. ASSUME NEW s \in Servers
      PROVE  (IF s \in S THEN 0 ELSE f[s]) + Once(T)[s] \in Nat
  BY OnceType
<1>2. QED
  BY <1>1

(* A step keeps the types.                                                 *)
LEMMA TypeStep == TypeOK /\ [Next]_vars => TypeOK'
<1> SUFFICES ASSUME TypeOK, [Next]_vars PROVE TypeOK'
  OBVIOUS
<1>1. CASE UNCHANGED vars
  BY <1>1 DEF TypeOK, vars
<1>2. CASE \/ ConnectAll \/ ReconnectFailed \/ ReconnectAll \/ CleanupAll
           \/ \E s, d \in BOOLEAN : SetOptions(s, d)
  <2>1. ASSUME NEW kind \in Kinds, NEW todo \in SUBSET Servers, Start(kind, todo)
        PROVE  TypeOK'
    BY <2>1, CallType DEF TypeOK, Start, fields, options
  <2>2. ASSUME NEW s \in BOOLEAN, NEW d \in BOOLEAN, SetOptions(s, d)
        PROVE  TypeOK'
    BY <2>2 DEF TypeOK, SetOptions, fields
  <2>3. /\ Servers \in SUBSET Servers /\ failed \in SUBSET Servers
        /\ names \in SUBSET Servers
    BY DEF TypeOK
  <2>4. QED
    BY <1>2, <2>1, <2>2, <2>3
       DEF ConnectAll, ReconnectFailed, ReconnectAll, CleanupAll
<1>3. ASSUME NEW s \in Servers,
             \/ ConnectSucceeds(s) \/ ConnectFails(s) \/ StrictConnectFails(s)
             \/ CleanupSucceeds(s)
      PROVE  TypeOK'
  <2>1. call' \in Calls
    <3>1. call \in Calls
      BY DEF TypeOK
    <3>2. CASE ConnectSucceeds(s)
      BY <3>1, <3>2 DEF ConnectSucceeds, Calls
    <3>3. CASE ConnectFails(s)
      BY <3>1, <3>3 DEF ConnectFails, Calls
    <3>4. CASE StrictConnectFails(s)
      BY <3>1, <3>4 DEF StrictConnectFails, Undo, Calls
    <3>5. CASE CleanupSucceeds(s)
      BY <3>1, <3>5 DEF CleanupSucceeds, Calls
    <3>6. QED
      BY <1>3, <3>2, <3>3, <3>4, <3>5
  <2>2. up' \subseteq Servers /\ abandoned' \subseteq Servers
    BY <1>3 DEF TypeOK, ConnectSucceeds, ConnectFails, StrictConnectFails,
          CleanupSucceeds, Connected, Gone
  <2>3. QED
    BY <1>3, <2>1, <2>2 DEF TypeOK, ConnectSucceeds, ConnectFails,
          StrictConnectFails, CleanupSucceeds, fields, options
<1>4. ASSUME NEW s \in Servers, CleanupFails(s) \/ CallDropped(s)
      PROVE  TypeOK'
  <2>1. call.todo \subseteq Servers /\ call.newly \subseteq Servers
    BY DEF TypeOK, Calls
  <2>2. up' \subseteq Servers /\ abandoned' \subseteq Servers
    BY <1>4, <2>1 DEF TypeOK, CleanupFails, CallDropped, BrokenOff, GoneAndLeft
  <2>3. QED
    BY <1>4, <2>2, NoCallType DEF TypeOK, CleanupFails, CallDropped, Return,
          fields, options
<1>5. CASE ConnectDone \/ RetryDone
  <2>1. call \in Calls /\ active \in [Servers -> Nat]
    BY DEF TypeOK
  <2>2. names' \subseteq Servers /\ failed' \subseteq Servers
    BY <1>5, <2>1 DEF TypeOK, ConnectDone, RetryDone, Calls
  <2>3. active' \in [Servers -> Nat]
    BY <1>5, <2>1, OnceType, SetOnce DEF ConnectDone, RetryDone
  <2>4. QED
    BY <1>5, <2>2, <2>3, NoCallType DEF TypeOK, ConnectDone, RetryDone, Return,
          options
<1>6. CASE UndoDone \/ CleanupDone
  <2>1. call \in Calls /\ active \in [Servers -> Nat] /\ failed \subseteq Servers
    BY DEF TypeOK
  <2>2. failed' \subseteq Servers
    BY <1>6, <2>1 DEF UndoDone, CleanupDone, Calls
  <2>3. active' \in [Servers -> Nat]
    BY <1>6, <2>1, OnceType DEF UndoDone, CleanupDone
  <2>4. call' \in Calls
    BY <1>6, CallType, NoCallType DEF UndoDone, CleanupDone, Return
  <2>5. QED
    BY <1>6, <2>2, <2>3, <2>4 DEF TypeOK, UndoDone, CleanupDone, Return, options
<1>7. ASSUME NEW v \in Visitors, Visiting(v) PROVE TypeOK'
  <2>1. visit[v] \in Visits
    BY DEF TypeOK
  <2>2. ASSUME NEW to \in Visits, Visit(v, to) PROVE visit' \in [Visitors -> Visits]
    BY <2>2 DEF TypeOK, Visit
  <2>3. visit' \in [Visitors -> Visits]
    <3>1. ASSUME NEW servers \in SUBSET Servers
          PROVE  [step |-> "connect", todo |-> servers, held |-> {}] \in Visits
      BY DEF Visits
    <3>2. ASSUME NEW s \in Servers
          PROVE  /\ [visit[v] EXCEPT !.todo = @ \ {s}, !.held = @ \cup {s}] \in Visits
                 /\ [visit[v] EXCEPT !.todo = @ \ {s}] \in Visits
                 /\ [visit[v] EXCEPT !.held = @ \ {s}] \in Visits
      BY <2>1 DEF Visits
    <3>3. [visit[v] EXCEPT !.step = "cleanup"] \in Visits
      BY <2>1 DEF Visits
    <3>4. QED
      BY <1>7, <2>2, <3>1, <3>2, <3>3, AwayType DEF Visiting, Arrive,
         VisitConnects, VisitConnectFails, VisitUses, VisitCleans,
         VisitCleanFails, VisitEnds, VisitDropped, VisitDroppedInUse
  <2>4. up' \subseteq Servers /\ abandoned' \subseteq Servers
    <3>1. visit[v].held \subseteq Servers
      BY <2>1 DEF Visits
    <3>2. QED
      BY <1>7, <3>1 DEF TypeOK, Visiting, Arrive, VisitConnects,
         VisitConnectFails, VisitUses, VisitCleans, VisitCleanFails, VisitEnds,
         VisitDropped, VisitDroppedInUse, Connected, Gone, GoneAndLeft, BrokenOff
  <2>5. UNCHANGED <<names, active, failed, strict, drop, call, outcome>>
    BY <1>7 DEF Visiting, Arrive, VisitConnects, VisitConnectFails, VisitUses,
       VisitCleans, VisitCleanFails, VisitEnds, VisitDropped, VisitDroppedInUse,
       ManagerStays, fields, options
  <2>6. QED
    BY <2>3, <2>4, <2>5 DEF TypeOK
<1>8. QED
  BY <1>1, <1>2, <1>3, <1>4, <1>5, <1>6, <1>7 DEF Next, Manager

(* Every variable has its type: TypeOK.                                    *)
THEOREM TypeCorrect == Spec => []TypeOK
<1>1. Init => TypeOK
  BY OnceType, NoCallType, AwayType DEF Init, TypeOK
<1>2. QED
  BY <1>1, TypeStep, PTL DEF Spec

-----------------------------------------------------------------------------
(* The books of the manager.  While a call connects, a server is still to  *)
(* come, connected or refused, and a retry is about failed servers only.   *)
BooksInv ==
    /\ call.kind \in Connecting =>
          /\ call.todo \cap (call.newly \cup call.refused) = {}
          /\ call.newly \cap call.refused = {}
    /\ call.kind = "retry" =>
          call.todo \cup call.newly \cup call.refused \subseteq failed
    /\ NoServerIsBoth
    /\ ActiveOnce

(* A visit leaves the manager alone.                                       *)
LEMMA VisitLeavesManager ==
    ASSUME NEW v \in Visitors, Visiting(v)
    PROVE  UNCHANGED <<names, active, failed, strict, drop, call, outcome>>
BY DEF Visiting, Arrive, VisitConnects, VisitConnectFails, VisitUses, VisitCleans,
   VisitCleanFails, VisitEnds, VisitDropped, VisitDroppedInUse, ManagerStays,
   fields, options

LEMMA BooksStep == TypeOK /\ BooksInv /\ [Next]_vars => BooksInv'
<1> SUFFICES ASSUME TypeOK, BooksInv, [Next]_vars PROVE BooksInv'
  OBVIOUS
<1>1. CASE UNCHANGED vars
  BY <1>1 DEF BooksInv, NoServerIsBoth, ActiveOnce, vars
<1>2. CASE ConnectAll \/ ReconnectFailed \/ ReconnectAll \/ CleanupAll
  BY <1>2 DEF BooksInv, NoServerIsBoth, ActiveOnce, ConnectAll, ReconnectFailed,
     ReconnectAll, CleanupAll, Start, Call, fields
<1>3. CASE \E s, d \in BOOLEAN : SetOptions(s, d)
  BY <1>3 DEF BooksInv, NoServerIsBoth, ActiveOnce, SetOptions, fields
<1>4. ASSUME NEW s \in Servers, ConnectSucceeds(s) \/ ConnectFails(s)
      PROVE  BooksInv'
  <2>1. /\ s \in call.todo /\ call.kind \in Connecting
        /\ call'.kind = call.kind /\ call'.todo = call.todo \ {s}
        /\ \/ call'.newly = call.newly \cup {s} /\ call'.refused = call.refused
           \/ call'.refused = call.refused \cup {s} /\ call'.newly = call.newly
    BY <1>4 DEF TypeOK, Calls, ConnectSucceeds, ConnectFails, AwaitsConnect, First
  <2>2. UNCHANGED <<names, active, failed, outcome>>
    BY <1>4 DEF ConnectSucceeds, ConnectFails, fields
  <2>3. QED
    BY <2>1, <2>2 DEF BooksInv, NoServerIsBoth, ActiveOnce
<1>5. ASSUME NEW s \in Servers, StrictConnectFails(s) PROVE BooksInv'
  <2>1. call'.kind \in Undoing
    BY <1>5 DEF TypeOK, Calls, StrictConnectFails, Undo
  <2>2. QED
    BY <1>5, <2>1 DEF BooksInv, NoServerIsBoth, ActiveOnce, StrictConnectFails, fields
<1>6. ASSUME NEW s \in Servers, CleanupSucceeds(s) PROVE BooksInv'
  <2>1. call'.kind = call.kind /\ call.kind \in Undoing \cup Cleaning
    BY <1>6 DEF TypeOK, Calls, CleanupSucceeds, AwaitsCleanup
  <2>2. QED
    BY <1>6, <2>1 DEF BooksInv, NoServerIsBoth, ActiveOnce, CleanupSucceeds, fields
<1>7. ASSUME NEW s \in Servers, CleanupFails(s) \/ CallDropped(s) PROVE BooksInv'
  <2>1. call'.kind = "idle"
    BY <1>7, NoCallKind DEF CleanupFails, CallDropped, Return
  <2>2. outcome' \in {"error", "none"} /\ UNCHANGED <<names, active, failed>>
    BY <1>7 DEF CleanupFails, CallDropped, Return, fields
  <2>3. QED
    BY <2>1, <2>2 DEF BooksInv, NoServerIsBoth, ActiveOnce
<1>8. CASE ConnectDone
  BY <1>8 DEF BooksInv, NoServerIsBoth, ActiveOnce, ConnectDone, Return, NoCall,
     Call, Once
<1>9. CASE RetryDone
  <2>1. names' \cap failed' = {}
    BY <1>9 DEF BooksInv, RetryDone
  <2>2. ASSUME NEW s \in Servers PROVE active'[s] <= 1
    <3>1. active[s] \in Nat /\ active[s] <= 1
      BY DEF TypeOK, BooksInv, ActiveOnce
    <3>2. active'[s] = (IF s \in failed THEN 0 ELSE active[s])
                         + (IF s \in call.newly THEN 1 ELSE 0)
      BY <1>9 DEF RetryDone, Once
    <3>3. s \in call.newly => s \in failed
      BY <1>9 DEF BooksInv, RetryDone
    <3>4. QED
      BY <3>1, <3>2, <3>3
  <2>3. QED
    BY <1>9, <2>1, <2>2 DEF BooksInv, NoServerIsBoth, ActiveOnce, RetryDone, Return,
       NoCall, Call
<1>10. CASE UndoDone
  <2>1. call'.kind = "idle" /\ outcome' = "error"
    BY <1>10 DEF UndoDone, Return, NoCall, Call
  <2>2. ASSUME NEW s \in Servers PROVE active'[s] <= 1
    <3>1. CASE active' = active
      BY <3>1 DEF BooksInv, ActiveOnce
    <3>2. CASE \E S : active' = Once(S)
      BY <3>2 DEF Once
    <3>3. QED
      BY <1>10, <3>1, <3>2 DEF UndoDone
  <2>3. QED
    BY <2>1, <2>2 DEF BooksInv, NoServerIsBoth, ActiveOnce
<1>11. CASE CleanupDone
  BY <1>11 DEF BooksInv, NoServerIsBoth, ActiveOnce, CleanupDone, Return, NoCall,
     Call, Once
<1>12. ASSUME NEW v \in Visitors, Visiting(v) PROVE BooksInv'
  BY <1>12, VisitLeavesManager DEF BooksInv, NoServerIsBoth, ActiveOnce
<1>13. QED
  BY <1>1, <1>2, <1>3, <1>4, <1>5, <1>6, <1>7, <1>8, <1>9, <1>10, <1>11, <1>12
     DEF Next, Manager

LEMMA BooksInvariant == Spec => []BooksInv
<1>1. Init => BooksInv
  BY DEF Init, BooksInv, NoServerIsBoth, ActiveOnce, NoCall, Call, Once
<1>2. QED
  BY <1>1, TypeCorrect, BooksStep, PTL DEF Spec

(* No server is connected and failed when a connect has returned, and none *)
(* is in the active list twice: BooksAreRight.                             *)
THEOREM BooksCorrect == Spec => []BooksAreRight
<1>1. BooksInv => BooksAreRight
  BY DEF BooksInv, BooksAreRight
<1>2. QED
  BY <1>1, BooksInvariant, PTL

-----------------------------------------------------------------------------
(* Who knows of a connected server.  What a call that replaces the names   *)
(* has not come to, or has connected, is all that it may forget.           *)
KnownInv ==
    /\ NoServerIsForgotten
    /\ call.kind = "connect" =>
          up \subseteq call.todo \cup call.newly \cup Held \cup abandoned
    /\ call.kind = "retry" =>
          up \cap failed \subseteq call.todo \cup call.newly \cup Held \cup abandoned
    /\ call.kind \in Cleaning => up \subseteq call.todo \cup Held \cup abandoned

(* What a strict failure has still to undo.                                *)
UndoInv ==
    /\ call.kind \in Connecting => up \cap call.refused \subseteq Held \cup abandoned
    /\ call.kind \in Undoing =>
          up \cap (call.newly \cup call.refused)
              \subseteq call.todo \cup Held \cup abandoned

(* A visit holds what it connects, and what it lets go of is cleaned up or *)
(* abandoned.                                                              *)
LEMMA VisitCovers ==
    ASSUME TypeOK, NEW v \in Visitors, Visiting(v)
    PROVE  /\ up' \ up \subseteq Held'
           /\ up' \cap (Held \cup abandoned) \subseteq Held' \cup abandoned'
<1>1. visit \in [Visitors -> Visits] /\ visit[v] \in Visits
  BY DEF TypeOK
<1>2. ASSUME NEW to \in Visits, Visit(v, to)
      PROVE  /\ to.held \subseteq Held'
             /\ Held \subseteq Held' \cup visit[v].held
  <2>1. visit'[v] = to /\ \A w \in Visitors : w # v => visit'[w] = visit[w]
    BY <1>1, <1>2 DEF Visit
  <2>2. QED
    BY <2>1 DEF Held
<1>3. CASE \E servers \in SUBSET Servers \ {{}} : Arrive(v, servers)
  <2>1. PICK servers \in SUBSET Servers : Arrive(v, servers)
    BY <1>3
  <2>2. [step |-> "connect", todo |-> servers, held |-> {}] \in Visits
    BY DEF Visits
  <2>3. visit[v].held = {}
    BY <2>1 DEF Arrive, Away
  <2>4. QED
    BY <1>2, <2>1, <2>2, <2>3 DEF Arrive
<1>4. ASSUME NEW s \in Servers, VisitConnects(v, s)
      PROVE  /\ up' \ up \subseteq Held'
             /\ up' \cap (Held \cup abandoned) \subseteq Held' \cup abandoned'
  <2> DEFINE to == [visit[v] EXCEPT !.todo = @ \ {s}, !.held = @ \cup {s}]
  <2>1. to \in Visits /\ to.held = visit[v].held \cup {s}
    BY <1>1 DEF Visits
  <2>2. Visit(v, to) /\ Connected(s)
    BY <1>4 DEF VisitConnects
  <2> HIDE DEF to
  <2>3. QED
    BY <1>2, <2>1, <2>2 DEF Connected
<1>5. ASSUME NEW s \in Servers, VisitConnectFails(v, s)
      PROVE  /\ up' \ up \subseteq Held'
             /\ up' \cap (Held \cup abandoned) \subseteq Held' \cup abandoned'
  <2> DEFINE to == [visit[v] EXCEPT !.todo = @ \ {s}]
  <2>1. to \in Visits /\ to.held = visit[v].held
    BY <1>1 DEF Visits
  <2>2. Visit(v, to) /\ Gone(s)
    BY <1>5 DEF VisitConnectFails
  <2> HIDE DEF to
  <2>3. QED
    BY <1>2, <2>1, <2>2 DEF Gone
<1>6. CASE VisitUses(v)
  <2> DEFINE to == [visit[v] EXCEPT !.step = "cleanup"]
  <2>1. to \in Visits /\ to.held = visit[v].held
    BY <1>1 DEF Visits
  <2>2. Visit(v, to) /\ UNCHANGED <<up, abandoned>>
    BY <1>6 DEF VisitUses
  <2> HIDE DEF to
  <2>3. QED
    BY <1>2, <2>1, <2>2
<1>7. ASSUME NEW s \in Servers, VisitCleans(v, s)
      PROVE  /\ up' \ up \subseteq Held'
             /\ up' \cap (Held \cup abandoned) \subseteq Held' \cup abandoned'
  <2> DEFINE to == [visit[v] EXCEPT !.held = @ \ {s}]
  <2>1. to \in Visits /\ to.held = visit[v].held \ {s}
    BY <1>1 DEF Visits
  <2>2. Visit(v, to) /\ Gone(s)
    BY <1>7 DEF VisitCleans
  <2> HIDE DEF to
  <2>3. QED
    BY <1>2, <2>1, <2>2 DEF Gone
<1>8. ASSUME NEW s \in Servers, VisitCleanFails(v, s) \/ VisitDropped(v, s)
      PROVE  /\ up' \ up \subseteq Held'
             /\ up' \cap (Held \cup abandoned) \subseteq Held' \cup abandoned'
  <2>1. /\ Visit(v, Away)
        /\ up' \subseteq up
        /\ abandoned' = (abandoned \cup visit[v].held) \cap up'
    BY <1>8 DEF VisitCleanFails, VisitDropped, GoneAndLeft, BrokenOff
  <2>2. QED
    BY <1>2, <2>1, AwayType
<1>9. CASE VisitEnds(v)
  BY <1>2, <1>9, AwayType DEF VisitEnds
<1>10. CASE VisitDroppedInUse(v)
  BY <1>2, <1>10, AwayType DEF VisitDroppedInUse
<1>11. QED
  BY <1>3, <1>4, <1>5, <1>6, <1>7, <1>8, <1>9, <1>10 DEF Visiting

(* A manager's step leaves the visits alone.                               *)
LEMMA HeldStays == UNCHANGED visit => Held' = Held
BY DEF Held

KnowsInv == KnownInv /\ UndoInv

LEMMA KnowsStep == TypeOK /\ BooksInv /\ KnowsInv /\ [Next]_vars => KnowsInv'
<1> SUFFICES ASSUME TypeOK, BooksInv, KnowsInv, [Next]_vars PROVE KnowsInv'
  OBVIOUS
<1> USE DEF KnowsInv, KnownInv, UndoInv, NoServerIsForgotten, Pending
<1>1. CASE UNCHANGED vars
  BY <1>1, HeldStays DEF vars
<1>2. CASE ConnectAll \/ ReconnectFailed \/ ReconnectAll \/ CleanupAll
  <2>1. call.kind = "idle" /\ up \subseteq names \cup Held \cup abandoned
    BY <1>2 DEF ConnectAll, ReconnectFailed, ReconnectAll, CleanupAll, Start
  <2>2. /\ call'.newly = {} /\ call'.refused = {}
        /\ \/ call'.kind = "connect" /\ call'.todo = Servers
           \/ call'.kind = "retry" /\ call'.todo = failed
           \/ call'.kind \in Cleaning /\ call'.todo = names
    <3>1. ASSUME NEW kind, NEW todo, Start(kind, todo)
          PROVE  /\ call'.newly = {} /\ call'.refused = {}
                 /\ call'.kind = kind /\ call'.todo = todo
      BY <3>1, CallFields DEF Start
    <3>2. QED
      BY <1>2, <3>1 DEF ConnectAll, ReconnectFailed, ReconnectAll, CleanupAll
  <2>3. UNCHANGED <<up, names, failed, visit, abandoned>>
    BY <1>2 DEF ConnectAll, ReconnectFailed, ReconnectAll, CleanupAll, Start, fields
  <2>4. up \subseteq Servers /\ Held' = Held
    BY <2>3, HeldStays DEF TypeOK
  <2>5. QED
    BY <2>1, <2>2, <2>3, <2>4
<1>3. CASE \E s, d \in BOOLEAN : SetOptions(s, d)
  BY <1>3, HeldStays DEF SetOptions, fields
<1>4. ASSUME NEW s \in Servers, ConnectSucceeds(s) PROVE KnowsInv'
  <2>1. /\ s \in call.todo /\ call.kind \in Connecting
        /\ call'.kind = call.kind /\ call'.todo = call.todo \ {s}
        /\ call'.newly = call.newly \cup {s} /\ call'.refused = call.refused
    BY <1>4 DEF TypeOK, Calls, ConnectSucceeds, AwaitsConnect, First
  <2>2. /\ up' = up \cup {s} /\ abandoned' = abandoned \ {s}
        /\ UNCHANGED <<names, failed, visit>>
    BY <1>4 DEF ConnectSucceeds, Connected, fields
  <2>3. Held' = Held /\ s \notin call.refused
    BY <2>1, <2>2, HeldStays DEF BooksInv
  <2>4. QED
    BY <2>1, <2>2, <2>3
<1>5. ASSUME NEW s \in Servers, ConnectFails(s) PROVE KnowsInv'
  <2>1. /\ s \in call.todo /\ call.kind \in Connecting
        /\ call'.kind = call.kind /\ call'.todo = call.todo \ {s}
        /\ call'.newly = call.newly /\ call'.refused = call.refused \cup {s}
    BY <1>5 DEF TypeOK, Calls, ConnectFails, AwaitsConnect, First
  <2>2. /\ up' = up \ {s} /\ abandoned' = abandoned \ {s}
        /\ UNCHANGED <<names, failed, visit>>
    BY <1>5 DEF ConnectFails, Gone, fields
  <2>3. QED
    BY <2>1, <2>2, HeldStays
<1>6. ASSUME NEW s \in Servers, StrictConnectFails(s) PROVE KnowsInv'
  <2>1. /\ call.kind \in Connecting /\ call'.kind \in Undoing
        /\ call'.todo = call.newly /\ call'.newly = call.newly
        /\ call'.refused = call.refused \cup {s}
    BY <1>6 DEF TypeOK, Calls, StrictConnectFails, AwaitsConnect, Undo
  <2>2. /\ up' = up \ {s} /\ abandoned' = abandoned \ {s}
        /\ UNCHANGED <<names, failed, visit>>
    BY <1>6 DEF StrictConnectFails, Gone, fields
  <2>3. QED
    BY <2>1, <2>2, HeldStays
<1>7. ASSUME NEW s \in Servers, CleanupSucceeds(s) PROVE KnowsInv'
  <2>1. /\ call.kind \in Undoing \cup Cleaning
        /\ call'.kind = call.kind /\ call'.todo = call.todo \ {s}
        /\ call'.newly = call.newly /\ call'.refused = call.refused
    BY <1>7 DEF TypeOK, Calls, CleanupSucceeds, AwaitsCleanup
  <2>2. /\ up' = up \ {s} /\ abandoned' = abandoned \ {s}
        /\ UNCHANGED <<names, failed, visit>>
    BY <1>7 DEF CleanupSucceeds, Gone, fields
  <2>3. QED
    BY <2>1, <2>2, HeldStays
<1>8. ASSUME NEW s \in Servers, CleanupFails(s) \/ CallDropped(s) PROVE KnowsInv'
  <2>1. call'.kind = "idle" /\ UNCHANGED <<names, failed, visit>>
    BY <1>8, NoCallKind DEF CleanupFails, CallDropped, Return, fields
  <2>2. /\ up' \subseteq up
        /\ abandoned' = (abandoned \cup (Pending \ names)) \cap up'
    BY <1>8 DEF CleanupFails, CallDropped, GoneAndLeft, BrokenOff, AwaitsConnect,
       AwaitsCleanup
  <2>3. QED
    BY <2>1, <2>2, HeldStays
<1>9. CASE ConnectDone
  <2>1. /\ call.kind = "connect" /\ call.todo = {} /\ call'.kind = "idle"
        /\ names' = call.newly /\ UNCHANGED <<up, abandoned, visit>>
    BY <1>9 DEF ConnectDone, Return, NoCall, Call
  <2>2. QED
    BY <2>1, HeldStays
<1>10. CASE RetryDone
  <2>1. /\ call.kind = "retry" /\ call.todo = {} /\ call'.kind = "idle"
        /\ names' = (names \ failed) \cup call.newly
        /\ UNCHANGED <<up, abandoned, visit>>
    BY <1>10 DEF RetryDone, Return, NoCall, Call
  <2>2. QED
    BY <2>1, HeldStays
<1>11. CASE UndoDone
  <2>1. /\ call.kind \in Undoing /\ call.todo = {} /\ call'.kind = "idle"
        /\ UNCHANGED <<names, up, abandoned, visit>>
    BY <1>11 DEF UndoDone, Return, NoCall, Call
  <2>2. QED
    BY <2>1, HeldStays
<1>12. CASE CleanupDone
  <2>1. /\ call.kind \in Cleaning /\ call.todo = {}
        /\ UNCHANGED <<up, abandoned, visit>>
    BY <1>12 DEF CleanupDone, Return
  <2>2. \/ call'.kind = "idle"
        \/ call'.kind = "connect" /\ call'.todo = Servers /\ call'.refused = {}
    <3>1. CASE call' = NoCall
      BY <3>1, NoCallKind
    <3>2. CASE call' = Call("connect", Servers)
      BY <3>2 DEF Call
    <3>3. call' = NoCall \/ call' = Call("connect", Servers)
      BY <1>12 DEF CleanupDone, Return
    <3>4. QED
      BY <3>1, <3>2, <3>3
  <2>3. up \subseteq Held \cup abandoned /\ up \subseteq Servers
    BY <2>1 DEF TypeOK
  <2>4. QED
    BY <2>1, <2>2, <2>3, HeldStays
<1>13. ASSUME NEW v \in Visitors, Visiting(v) PROVE KnowsInv'
  <2>1. UNCHANGED <<names, failed, call>>
    BY <1>13, VisitLeavesManager
  <2>2. /\ up' \ up \subseteq Held'
        /\ up' \cap (Held \cup abandoned) \subseteq Held' \cup abandoned'
    BY <1>13, VisitCovers
  <2>3. QED
    BY <2>1, <2>2
<1>14. QED
  BY <1>1, <1>2, <1>3, <1>4, <1>5, <1>6, <1>7, <1>8, <1>9, <1>10, <1>11, <1>12, <1>13
     DEF Next, Manager

LEMMA KnowsInvariant == Spec => []KnowsInv
<1>1. Init => KnowsInv
  BY DEF Init, KnowsInv, KnownInv, UndoInv, NoServerIsForgotten, Pending, NoCall, Call
<1>2. QED
  BY <1>1, TypeCorrect, BooksInvariant, KnowsStep, PTL DEF Spec

(* Every connected server is known to somebody who will clean it up, or    *)
(* was abandoned by a failed cleanup or a dropped future:                  *)
(* NoServerIsForgotten.                                                    *)
THEOREM KnownCorrect == Spec => []NoServerIsForgotten
<1>1. KnowsInv => NoServerIsForgotten
  BY DEF KnowsInv, KnownInv
<1>2. QED
  BY <1>1, KnowsInvariant, PTL

(* A strict failure that was undone leaves none of its servers connected:  *)
(* StrictFailureCleansUp.                                                  *)
THEOREM StrictCorrect == Spec => StrictFailureCleansUp
<1>1. KnowsInv /\ [Next]_vars =>
        [Undone /\ call.todo = {}
          => up \cap (call.newly \cup call.refused) \subseteq Held \cup abandoned]_vars
  BY DEF KnowsInv, UndoInv, Undone
<1>2. QED
  BY <1>1, KnowsInvariant, PTL DEF Spec, StrictFailureCleansUp
=============================================================================
