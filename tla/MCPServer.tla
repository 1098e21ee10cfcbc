----------------------------- MODULE MCPServer -----------------------------
(***************************************************************************)
(* One MCP server of agents-core (mcp/server.rs) and those who share it.   *)
(* MCPManager has connect() and cleanup() of a server as single steps;     *)
(* here they are what they are: the client is taken out of the server, the *)
(* old one is cleaned up, a new one is built and connected, and then the   *)
(* client and the flag are stored, with other users coming in between.     *)
(*                                                                         *)
(* Users connect and clean up on their own, or visit: a tool call, or a    *)
(* list of tools, connects the server, uses it and cleans it up (util.rs). *)
(***************************************************************************)
EXTENDS Naturals

CONSTANTS Users,
          MaxClients,   \* bound: clients built
          MaxVisits     \* bound: calls begun

ASSUME MCPServerAssumption == MaxClients \in Nat /\ MaxVisits \in Nat

VARIABLES
    transport,   \* which server type; "none" before it is made
    flag,        \* connected
    client,      \* current_client
    open,        \* the clients that are connected to the remote server
    built,       \* how many were built
    users,       \* what each user is doing
    visits,      \* calls begun
    met,         \* history: two calls of connect or cleanup overlapped,
    lost,        \*          one was dropped,
    stumbled     \*          the last one that ended had failed

serverVars == <<transport, flag, client, open, built, users, visits, met, lost,
                stumbled>>

NoClient == 0
ServerClients == 1..MaxClients
ClientOrNone == NoClient..MaxClients
UserPlaces == {"away", "take", "clean old", "build", "store", "store too",
               "use", "drop client", "clean", "unflag"}

MCPServerTypeOK ==
    /\ transport \in {"none", "stdio", "sse", "http"}
    /\ flag \in BOOLEAN
    /\ client \in ClientOrNone
    /\ open \subseteq ServerClients
    /\ built \in ClientOrNone
    /\ users \in [Users -> [at : UserPlaces, visit : BOOLEAN, has : ClientOrNone]]
    /\ visits \in 0..MaxVisits
    /\ met \in BOOLEAN /\ lost \in BOOLEAN /\ stumbled \in BOOLEAN

Nowhere == [at |-> "away", visit |-> FALSE, has |-> NoClient]

MCPServerInit ==
    /\ transport = "none"
    /\ flag = FALSE /\ client = NoClient
    /\ open = {} /\ built = 0
    /\ users = [u \in Users |-> Nowhere]
    /\ visits = 0
    /\ met = FALSE /\ lost = FALSE /\ stumbled = FALSE

NewServer ==
    /\ transport = "none"
    /\ transport' \in {"stdio", "sse", "http"}
    /\ UNCHANGED <<flag, client, open, built, users, visits, met, lost, stumbled>>

UserAt(u, place) == users[u].at = place
UserGoes(u, place, c) == users' = [users EXCEPT ![u].at = place, ![u].has = c]

(* Inside connect() or cleanup(), where calls can meet.                    *)
Inside(u) == users[u].at \notin {"away", "use"}
Meets(u) == met' = (met \/ \E v \in Users \ {u} : Inside(v))

(* A call is over: a visit goes on to use the server, or ends.             *)
CallEnds(u, ok, next) ==
    /\ users' = [users EXCEPT
           ![u] = IF next = "away" THEN Nowhere
                  ELSE [@ EXCEPT !.at = next, !.has = NoClient]]
    /\ stumbled' = ~ok

-----------------------------------------------------------------------------

EnterConnect(u, visit) ==
    /\ transport # "none"
    /\ UserAt(u, "away")
    /\ visits < MaxVisits
    /\ visits' = visits + 1
    /\ users' = [users EXCEPT ![u] = [Nowhere EXCEPT !.at = "take", !.visit = visit]]
    /\ Meets(u)
    /\ UNCHANGED <<transport, flag, client, open, built, lost, stumbled>>

EnterCleanup(u) ==
    /\ transport # "none"
    /\ UserAt(u, "away")
    /\ visits < MaxVisits
    /\ visits' = visits + 1
    /\ users' = [users EXCEPT ![u] = [Nowhere EXCEPT !.at = "drop client"]]
    /\ Meets(u)
    /\ UNCHANGED <<transport, flag, client, open, built, lost, stumbled>>

(* The tool was called, well or badly, or the tools were listed: the visit *)
(* cleans the server up.                                                   *)
UseAndLeave(u) ==
    /\ UserAt(u, "use")
    /\ UserGoes(u, "drop client", NoClient)
    /\ Meets(u)
    /\ UNCHANGED <<transport, flag, client, open, built, visits, lost, stumbled>>

(* connect().  MCPServerStdio has no client and only sets the flag.        *)
ConnectStdio(u) ==
    /\ UserAt(u, "take")
    /\ transport = "stdio"
    /\ flag' = TRUE
    /\ CallEnds(u, TRUE, IF users[u].visit THEN "use" ELSE "away")
    /\ UNCHANGED <<transport, client, open, built, visits, met, lost>>

TakeOld(u) ==
    /\ UserAt(u, "take")
    /\ transport # "stdio"
    /\ client' = NoClient
    /\ UserGoes(u, IF client = NoClient THEN "build" ELSE "clean old", client)
    /\ UNCHANGED <<transport, flag, open, built, visits, met, lost, stumbled>>

CleanOld(u) ==
    /\ UserAt(u, "clean old")
    /\ open' = open \ {users[u].has}
    /\ UserGoes(u, "build", NoClient)
    /\ UNCHANGED <<transport, flag, client, built, visits, met, lost, stumbled>>

BuildClient(u) ==
    /\ UserAt(u, "build")
    /\ built < MaxClients
    /\ built' = built + 1
    /\ open' = open \cup {built'}
    /\ UserGoes(u, "store", built')
    /\ UNCHANGED <<transport, flag, client, visits, met, lost, stumbled>>

(* MCPServerSse stores the client and then the flag, MCPServerStreamable-  *)
(* Http the flag first; either way a client that is there is overwritten.  *)
Store(u) ==
    /\ UserAt(u, "store")
    /\ IF transport = "sse"
       THEN client' = users[u].has /\ UNCHANGED flag
       ELSE flag' = TRUE /\ UNCHANGED client
    /\ UserGoes(u, "store too", users[u].has)
    /\ UNCHANGED <<transport, open, built, visits, met, lost, stumbled>>

(* Mutant: only the first of the two is stored.                            *)
StoreNoMore(u) ==
    /\ UserAt(u, "store too")
    /\ CallEnds(u, TRUE, IF users[u].visit THEN "use" ELSE "away")
    /\ UNCHANGED <<transport, flag, client, open, built, visits, met, lost>>

StoreToo(u) ==
    /\ UserAt(u, "store too")
    /\ IF transport = "sse"
       THEN flag' = TRUE /\ UNCHANGED client
       ELSE client' = users[u].has /\ UNCHANGED flag
    /\ CallEnds(u, TRUE, IF users[u].visit THEN "use" ELSE "away")
    /\ UNCHANGED <<transport, open, built, visits, met, lost>>

(* cleanup().                                                              *)
CleanupStdio(u) ==
    /\ UserAt(u, "drop client")
    /\ transport = "stdio"
    /\ flag' = FALSE
    /\ CallEnds(u, TRUE, "away")
    /\ UNCHANGED <<transport, client, open, built, visits, met, lost>>

TakeClient(u) ==
    /\ UserAt(u, "drop client")
    /\ transport # "stdio"
    /\ client' = NoClient
    /\ UserGoes(u, IF client = NoClient THEN "unflag" ELSE "clean", client)
    /\ UNCHANGED <<transport, flag, open, built, visits, met, lost, stumbled>>

CleanClient(u) ==
    /\ UserAt(u, "clean")
    /\ open' = open \ {users[u].has}
    /\ UserGoes(u, "unflag", NoClient)
    /\ UNCHANGED <<transport, flag, client, built, visits, met, lost, stumbled>>

Unflag(u) ==
    /\ UserAt(u, "unflag")
    /\ flag' = FALSE
    /\ CallEnds(u, TRUE, "away")
    /\ UNCHANGED <<transport, client, open, built, visits, met, lost>>

(* The remote server fails a cleanup, of a client that is beyond reach by  *)
(* then, or a connect: an early return, and a visit ends with it.          *)
RemoteFails(u) ==
    /\ users[u].at \in {"clean old", "build", "clean"}
    /\ open' = open \ {users[u].has}
    /\ CallEnds(u, FALSE, "away")
    /\ UNCHANGED <<transport, flag, client, built, visits, met, lost>>

(* The future is dropped while it awaits the remote server.                *)
UserIsDropped(u) ==
    /\ users[u].at \in {"clean old", "build", "use", "clean"}
    /\ users' = [users EXCEPT ![u] = Nowhere]
    /\ lost' = TRUE
    /\ UNCHANGED <<transport, flag, client, open, built, visits, met, stumbled>>

MCPServerNext ==
    \/ NewServer
    \/ \E u \in Users :
        \/ \E visit \in BOOLEAN : EnterConnect(u, visit)
        \/ EnterCleanup(u) \/ UseAndLeave(u)
        \/ ConnectStdio(u) \/ TakeOld(u) \/ CleanOld(u) \/ BuildClient(u)
        \/ Store(u) \/ StoreToo(u)
        \/ CleanupStdio(u) \/ TakeClient(u) \/ CleanClient(u) \/ Unflag(u)
        \/ RemoteFails(u) \/ UserIsDropped(u)

MCPServerSpec == MCPServerInit /\ [][MCPServerNext]_serverVars

-----------------------------------------------------------------------------

(* Visits and calls of several users may follow one another in any order   *)
(* and fail at the remote server: as long as no two calls overlap and none *)
(* is dropped, no client is left open that the server does not hold, and   *)
(* the server says that it is connected exactly when it holds one, or the  *)
(* last call failed and left the flag as it was.                           *)
ClientsAreAccountedFor ==
    ~met /\ ~lost /\ (\A u \in Users : ~Inside(u)) =>
        /\ open = {client} \ {NoClient}
        /\ transport # "stdio" /\ ~stumbled => (flag <=> client # NoClient)
=============================================================================
