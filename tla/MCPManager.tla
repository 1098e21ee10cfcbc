----------------------------- MODULE MCPManager -----------------------------
(***************************************************************************)
(* MCPServerManager of agents-core, and the runs that share its servers.   *)
(*                                                                         *)
(* One caller owns the manager: its methods take &mut self, so they follow *)
(* one another, but each awaits one server after the other and may fail or *)
(* be dropped at any of them.  The servers are Arcs.  An agent that has    *)
(* them connects them for every list of its tools (with a manager of its   *)
(* own) and for every tool call, and cleans them up again: a visit.        *)
(*                                                                         *)
(* Connecting and cleaning up one server is one step here, with the        *)
(* outcomes of the remote servers: connect() and cleanup() take the client *)
(* away before they await anything, so a failure of either leaves none.    *)
(* A server stands for its name; active_servers is a bag, for its order    *)
(* does not matter to what is stated below.                                *)
(***************************************************************************)
EXTENDS Integers

CONSTANTS Count,      \* the number of servers
          Visitors    \* runs of agents that have the servers

ASSUME CountAssumption == Count \in Nat

(* A server is its position in all_servers.                                *)
Servers == 1..Count

VARIABLES
    up,         \* the servers that hold a connected client
    names,      \* connected_server_names
    active,     \* active_servers: how often each server is in the list
    failed,     \* failed_servers
    strict, drop,  \* the public fields strict and drop_failed_servers
    call,       \* the call of the manager in progress
    outcome,    \* what the last call came to, if nothing was called or set since
    visit,      \* what each visitor is doing
    abandoned   \* history: left connected by a call or visit that broke off

vars == <<up, names, active, failed, strict, drop, call, outcome, visit, abandoned>>
fields == <<names, active, failed>>
options == <<strict, drop>>

Connecting == {"connect", "retry"}
Undoing == {"undo connect", "undo retry"}
Cleaning == {"cleanup", "renew"}

Kinds == {"idle"} \cup Connecting \cup Undoing \cup Cleaning

(* todo is what the loop in progress has still to come to, newly what it   *)
(* connected, refused what failed.                                         *)
Calls == [kind : Kinds, todo : SUBSET Servers, newly : SUBSET Servers,
          refused : SUBSET Servers]
Visits == [step : {"away", "connect", "cleanup"}, todo : SUBSET Servers,
           held : SUBSET Servers]

TypeOK ==
    /\ up \subseteq Servers
    /\ names \subseteq Servers
    /\ active \in [Servers -> Nat]
    /\ failed \subseteq Servers
    /\ strict \in BOOLEAN
    /\ drop \in BOOLEAN
    /\ call \in Calls
    /\ outcome \in {"none", "connected", "retried", "cleaned", "error"}
    /\ visit \in [Visitors -> Visits]
    /\ abandoned \subseteq Servers

Call(kind, todo) == [kind |-> kind, todo |-> todo, newly |-> {}, refused |-> {}]
NoCall == Call("idle", {})
Away == [step |-> "away", todo |-> {}, held |-> {}]

First(s, S) == s \in S /\ \A t \in S : s <= t
Last(s, S) == s \in S /\ \A t \in S : t <= s
Once(S) == [s \in Servers |-> IF s \in S THEN 1 ELSE 0]

(* A new manager has every server in its active list and none connected.   *)
Init ==
    /\ up = {}
    /\ names = {}
    /\ active = Once(Servers)
    /\ failed = {}
    /\ strict = FALSE
    /\ drop = TRUE
    /\ call = NoCall
    /\ outcome = "none"
    /\ visit = [v \in Visitors |-> Away]
    /\ abandoned = {}

-----------------------------------------------------------------------------
(* A server.  Whoever gets through to it or loses it settles whose it is.  *)

Connected(s) ==
    /\ up' = up \cup {s}
    /\ abandoned' = abandoned \ {s}

Gone(s) ==
    /\ up' = up \ {s}
    /\ abandoned' = abandoned \ {s}

(* A cleanup that fails has taken the client all the same; the connections *)
(* it was to be followed by are left to nobody.                            *)
GoneAndLeft(s, rest) ==
    /\ up' = up \ {s}
    /\ abandoned' = (abandoned \cup rest) \cap up'

(* A future that is dropped while it waits for server s has taken the      *)
(* client, or was not polled yet.                                          *)
BrokenOff(s, rest) ==
    /\ up' \in {up, up \ {s}}
    /\ abandoned' = (abandoned \cup rest) \cap up'

-----------------------------------------------------------------------------
(* The manager.                                                            *)

Start(kind, todo) ==
    /\ call.kind = "idle"
    /\ call' = Call(kind, todo)
    /\ outcome' = "none"
    /\ UNCHANGED <<up, fields, options, visit, abandoned>>

ConnectAll == Start("connect", Servers)
ReconnectFailed == Start("retry", failed)
ReconnectAll == Start("renew", names)
CleanupAll == Start("cleanup", names)

SetOptions(s, d) ==
    /\ call.kind = "idle"
    /\ strict' = s
    /\ drop' = d
    /\ outcome' = "none"
    /\ UNCHANGED <<up, fields, call, visit, abandoned>>

AwaitsConnect(s) == call.kind \in Connecting /\ First(s, call.todo)

ConnectSucceeds(s) ==
    /\ AwaitsConnect(s)
    /\ Connected(s)
    /\ call' = [call EXCEPT !.todo = @ \ {s}, !.newly = @ \cup {s}]
    /\ UNCHANGED <<fields, options, outcome, visit>>

ConnectFails(s) ==
    /\ AwaitsConnect(s)
    /\ ~strict
    /\ Gone(s)
    /\ call' = [call EXCEPT !.todo = @ \ {s}, !.refused = @ \cup {s}]
    /\ UNCHANGED <<fields, options, outcome, visit>>

Undo(kind) == IF kind = "connect" THEN "undo connect" ELSE "undo retry"

(* Mutant: only what was not connected before is cleaned up.               *)
UndoTheNew(s) ==
    /\ AwaitsConnect(s)
    /\ strict
    /\ Gone(s)
    /\ call' = [call EXCEPT !.kind = Undo(@), !.todo = call.newly \ names,
                            !.refused = @ \cup {s}]
    /\ UNCHANGED <<fields, options, outcome, visit>>

StrictConnectFails(s) ==
    /\ AwaitsConnect(s)
    /\ strict
    /\ Gone(s)
    /\ call' = [call EXCEPT !.kind = Undo(@), !.todo = call.newly,
                            !.refused = @ \cup {s}]
    /\ UNCHANGED <<fields, options, outcome, visit>>

Return(result) ==
    /\ call' = NoCall
    /\ outcome' = result
    /\ UNCHANGED <<options, visit>>

ConnectDone ==
    /\ call.kind = "connect" /\ call.todo = {}
    /\ names' = call.newly
    /\ active' = Once(call.newly \cup (IF drop THEN {} ELSE call.refused))
    /\ failed' = call.refused
    /\ Return("connected")
    /\ UNCHANGED <<up, abandoned>>

(* Mutants: the names, or the active list, keep the servers of the retry;  *)
(* each server of the retry loses one entry, which it may not have.        *)
OneEntryLess ==
    /\ call.kind = "retry" /\ call.todo = {}
    /\ names' = (names \ failed) \cup call.newly
    /\ active' = [s \in Servers |-> active[s] - Once(failed)[s] + Once(call.newly)[s]]
    /\ failed' = call.refused
    /\ Return("retried")
    /\ UNCHANGED <<up, abandoned>>

NamesKeepTheFailed ==
    /\ call.kind = "retry" /\ call.todo = {}
    /\ names' = names \cup call.newly
    /\ active' = [s \in Servers |-> (IF s \in failed THEN 0 ELSE active[s])
                                      + Once(call.newly)[s]]
    /\ failed' = call.refused
    /\ Return("retried")
    /\ UNCHANGED <<up, abandoned>>

(* A server that fails again leaves the active list, whatever drop says.   *)
RetryDone ==
    /\ call.kind = "retry" /\ call.todo = {}
    /\ names' = (names \ failed) \cup call.newly
    /\ active' = [s \in Servers |-> (IF s \in failed THEN 0 ELSE active[s])
                                      + Once(call.newly)[s]]
    /\ failed' = call.refused
    /\ Return("retried")
    /\ UNCHANGED <<up, abandoned>>

AwaitsCleanup(s) == call.kind \in Undoing \cup Cleaning /\ Last(s, call.todo)

CleanupSucceeds(s) ==
    /\ AwaitsCleanup(s)
    /\ Gone(s)
    /\ call' = [call EXCEPT !.todo = @ \ {s}]
    /\ UNCHANGED <<fields, options, outcome, visit>>

(* The ? returns at once: no field of the manager has changed, and what an *)
(* undone connect had still to clean up stays connected, without a name if *)
(* it had none before.                                                     *)
CleanupFails(s) ==
    /\ AwaitsCleanup(s)
    /\ GoneAndLeft(s, IF call.kind \in Undoing THEN call.todo \ names ELSE {})
    /\ Return("error")
    /\ UNCHANGED fields

(* Mutant: a strict failure clears the names.                              *)
ClearNames ==
    /\ call.kind \in Undoing /\ call.todo = {}
    /\ names' = {}
    /\ active' = IF names # {} THEN active ELSE Once(IF drop THEN {} ELSE Servers)
    /\ failed' = IF call.kind = "undo connect" THEN call.refused ELSE failed
    /\ Return("error")
    /\ UNCHANGED <<up, abandoned>>

(* The names and, through restore_active_servers, the active list are what *)
(* they were before; so are the failures of a retry.                       *)
UndoDone ==
    /\ call.kind \in Undoing /\ call.todo = {}
    /\ active' = IF names # {} THEN active ELSE Once(IF drop THEN {} ELSE Servers)
    /\ failed' = IF call.kind = "undo connect" THEN call.refused ELSE failed
    /\ Return("error")
    /\ UNCHANGED <<up, names, abandoned>>

CleanupDone ==
    /\ call.kind \in Cleaning /\ call.todo = {}
    /\ names' = {}
    /\ active' = Once({})
    /\ IF call.kind = "renew"
       THEN call' = Call("connect", Servers) /\ UNCHANGED <<outcome, options, visit>>
       ELSE Return("cleaned")
    /\ UNCHANGED <<up, failed, abandoned>>

(* The caller drops the future: a timeout around the call, a select.       *)
CallDropped(s) ==
    /\ \/ AwaitsConnect(s) /\ BrokenOff(s, call.newly \ names)
       \/ AwaitsCleanup(s)
            /\ BrokenOff(s, IF call.kind \in Undoing THEN call.todo \ names ELSE {})
    /\ Return("none")
    /\ UNCHANGED fields

-----------------------------------------------------------------------------
(* A visit: get_all_function_tools of an agent for all its servers, or an  *)
(* MCP tool for its own.  Nothing but a failing cleanup ends it early.     *)

Visit(v, to) == visit' = [visit EXCEPT ![v] = to]
ManagerStays == UNCHANGED <<fields, options, call, outcome>>

Arrive(v, servers) ==
    /\ visit[v] = Away
    /\ Visit(v, [step |-> "connect", todo |-> servers, held |-> {}])
    /\ ManagerStays
    /\ UNCHANGED <<up, abandoned>>

VisitAwaitsConnect(v, s) == visit[v].step = "connect" /\ First(s, visit[v].todo)
VisitAwaitsCleanup(v, s) == visit[v].step = "cleanup" /\ Last(s, visit[v].held)

VisitConnects(v, s) ==
    /\ VisitAwaitsConnect(v, s)
    /\ Connected(s)
    /\ Visit(v, [visit[v] EXCEPT !.todo = @ \ {s}, !.held = @ \cup {s}])
    /\ ManagerStays

VisitConnectFails(v, s) ==
    /\ VisitAwaitsConnect(v, s)
    /\ Gone(s)
    /\ Visit(v, [visit[v] EXCEPT !.todo = @ \ {s}])
    /\ ManagerStays

VisitUses(v) ==
    /\ visit[v].step = "connect" /\ visit[v].todo = {}
    /\ Visit(v, [visit[v] EXCEPT !.step = "cleanup"])
    /\ ManagerStays
    /\ UNCHANGED <<up, abandoned>>

VisitCleans(v, s) ==
    /\ VisitAwaitsCleanup(v, s)
    /\ Gone(s)
    /\ Visit(v, [visit[v] EXCEPT !.held = @ \ {s}])
    /\ ManagerStays

VisitCleanFails(v, s) ==
    /\ VisitAwaitsCleanup(v, s)
    /\ GoneAndLeft(s, visit[v].held)
    /\ Visit(v, Away)
    /\ ManagerStays

VisitEnds(v) ==
    /\ visit[v].step = "cleanup" /\ visit[v].held = {}
    /\ Visit(v, Away)
    /\ ManagerStays
    /\ UNCHANGED <<up, abandoned>>

VisitDropped(v, s) ==
    /\ VisitAwaitsConnect(v, s) \/ VisitAwaitsCleanup(v, s)
    /\ BrokenOff(s, visit[v].held)
    /\ Visit(v, Away)
    /\ ManagerStays

(* list_tools or call_tool is what a dropped run waits for.                *)
VisitDroppedInUse(v) ==
    /\ visit[v].step = "connect" /\ visit[v].todo = {}
    /\ Visit(v, Away)
    /\ abandoned' = (abandoned \cup visit[v].held) \cap up
    /\ ManagerStays
    /\ UNCHANGED up

-----------------------------------------------------------------------------
Manager ==
    \/ ConnectAll
    \/ ReconnectFailed
    \/ ReconnectAll
    \/ CleanupAll
    \/ \E s, d \in BOOLEAN : SetOptions(s, d)
    \/ \E s \in Servers :
          \/ ConnectSucceeds(s)
          \/ ConnectFails(s)
          \/ StrictConnectFails(s)
          \/ CleanupSucceeds(s)
          \/ CleanupFails(s)
          \/ CallDropped(s)
    \/ ConnectDone
    \/ RetryDone
    \/ UndoDone
    \/ CleanupDone

Visiting(v) ==
    \/ \E servers \in SUBSET Servers \ {{}} : Arrive(v, servers)
    \/ \E s \in Servers :
          \/ VisitConnects(v, s)
          \/ VisitConnectFails(v, s)
          \/ VisitCleans(v, s)
          \/ VisitCleanFails(v, s)
          \/ VisitDropped(v, s)
    \/ VisitUses(v)
    \/ VisitDroppedInUse(v)
    \/ VisitEnds(v)

Next == Manager \/ \E v \in Visitors : Visiting(v)

Spec == Init /\ [][Next]_vars

-----------------------------------------------------------------------------
(* Properties.                                                             *)

(* What the call in progress has connected and would clean up, or name.    *)
Pending ==
    IF call.kind \in Connecting THEN call.newly
    ELSE IF call.kind \in Undoing THEN call.todo ELSE {}

Held == UNION {visit[v].held : v \in Visitors}

(* A connected server is known to somebody who will clean it up: the       *)
(* manager by its name, the call in progress, or a visit.  Only a cleanup  *)
(* that fails, or a future that is dropped, leaves a server connected that *)
(* nobody knows of.                                                        *)
NoServerIsForgotten == up \subseteq names \cup Pending \cup Held \cup abandoned

(* When connect_all or reconnect(true) has returned, no server is both     *)
(* connected and failed, whatever failed, was undone or was broken off     *)
(* before: the next reconnect(true) leaves the connected ones alone.       *)
NoServerIsBoth == outcome \in {"connected", "retried"} => names \cap failed = {}

(* No server is in the active list twice, also when a server that failed   *)
(* is kept there and connects later; its tools would be refused as         *)
(* duplicates.                                                             *)
ActiveOnce == \A s \in Servers : active[s] <= 1

(* Both, whatever calls and visits went before: the books of the manager.  *)
BooksAreRight == NoServerIsBoth /\ ActiveOnce

(* "strict_connect_cleans_up_connected_servers_and_clears_state": when a   *)
(* strict connect has failed and was undone, none of the servers it came   *)
(* to is connected, apart from those a visit has connected meanwhile.      *)
Undone == call.kind \in Undoing /\ call'.kind = "idle" /\ outcome' = "error"

StrictFailureCleansUp ==
    [][Undone /\ call.todo = {}
         => up \cap (call.newly \cup call.refused) \subseteq Held \cup abandoned]_vars

(* "exposes only connected servers": when connect_all has returned and     *)
(* failed servers are dropped, the servers of the active list are          *)
(* connected until the manager is called again.                            *)
ExposesOnlyConnected ==
    outcome = "connected" /\ drop => {s \in Servers : active[s] > 0} \subseteq up
=============================================================================
