--------------------------- MODULE SessionStores ---------------------------
(***************************************************************************)
(* The stores of session items: MemorySession, SQLiteSession (and the      *)
(* Advanced, Async and Database sessions that delegate to it),             *)
(* RedisSession, DaprSession, and EncryptedSession around any of them.     *)
(*                                                                         *)
(* Several clients (runs, threads or processes) use one session.  A step   *)
(* is one statement or request that the backend executes atomically.  An   *)
(* operation may be abandoned between two steps: the connection fails, the *)
(* future is dropped or the process dies, and what was executed stays.     *)
(***************************************************************************)
EXTENDS Naturals, Sequences, SequencesExt

CONSTANTS Clients,   \* the users of the session
          MaxAdds,   \* bound: items added by each
          MaxOps     \* bound: operations begun, in all

ASSUME StoreBoundsAssumption == MaxAdds \in Nat /\ MaxOps \in Nat

VARIABLES
    store,    \* which backend, under an EncryptedSession or not, with a TTL
    rows,     \* the stored items, oldest first
    parent,   \* SQLite: the row of the sessions table; Redis: the key's TTL
    old,      \* items older than the TTL of an EncryptedSession
    doing,    \* what each client is doing
    begun,    \* how many operations were begun
    acked,    \* history: items whose add_items returned Ok,
    taken,    \*          items that a pop_item took,
    twice,    \*          items that a pop_item returned after another took
              \*          them,
    held,     \*          items that somebody else had read when one was taken,
    wiped,    \*          items that a clear or an expiry removed
    raced     \*          two operations overlapped

storeHistory == <<acked, taken, twice, held, wiped, raced>>
storeVars == <<store, rows, parent, old, doing, begun, storeHistory>>

StoredItems == [by : Clients, n : 1..MaxAdds]
Kinds == {"memory", "sqlite", "redis", "dapr"}
Steps == {"none", "parent", "insert", "touch", "push", "expire", "select",
          "delete", "pop", "read", "write", "messages", "session", "clear"}
Doings ==
    [op : {"none", "add", "pop", "clear"}, at : Steps,
     batch : Seq(StoredItems),
     left : Seq(StoredItems), seen : Seq(StoredItems), added : 0..MaxAdds]

StoreTypeOK ==
    /\ store \in [kind : Kinds \cup {"none"}, sealed : BOOLEAN, ttl : BOOLEAN]
    /\ rows \in Seq(StoredItems)
    /\ parent \in BOOLEAN
    /\ old \subseteq StoredItems
    /\ doing \in [Clients -> Doings]
    /\ begun \in 0..MaxOps
    /\ \A h \in {acked, taken, twice, held, wiped} : h \subseteq StoredItems
    /\ raced \in BOOLEAN

StoreInit ==
    /\ store = [kind |-> "none", sealed |-> FALSE, ttl |-> FALSE]
    /\ rows = <<>>
    /\ parent = FALSE
    /\ old = {}
    /\ doing = [c \in Clients |->
                    [op |-> "none", at |-> "none", batch |-> <<>>,
                     left |-> <<>>, seen |-> <<>>, added |-> 0]]
    /\ begun = 0
    /\ acked = {} /\ taken = {} /\ twice = {} /\ held = {} /\ wiped = {}
    /\ raced = FALSE

(* The session is opened over one backend.                                 *)
OpenStore ==
    /\ store.kind = "none"
    /\ store' \in [kind : Kinds, sealed : BOOLEAN, ttl : BOOLEAN]
    /\ store'.ttl => store'.sealed \/ store'.kind \in {"redis", "dapr"}
    /\ UNCHANGED <<rows, parent, old, doing, begun, storeHistory>>

-----------------------------------------------------------------------------
(* An operation begins with its first statement or request to come.        *)

First(op) ==
    CASE op = "add" -> [memory |-> "push", redis |-> "push",
                        sqlite |-> "parent", dapr |-> "read"][store.kind]
      [] op = "pop" -> [memory |-> "pop", redis |-> "pop",
                        sqlite |-> "select", dapr |-> "read"][store.kind]
      [] op = "clear" -> [memory |-> "clear", redis |-> "clear",
                          sqlite |-> "messages", dapr |-> "clear"][store.kind]

Busy(c) == doing[c].op # "none"

Begin(c, op, batch) ==
    /\ store.kind # "none"
    /\ ~Busy(c)
    /\ begun < MaxOps
    /\ begun' = begun + 1
    /\ doing' = [doing EXCEPT
           ![c] = [@ EXCEPT !.op = op, !.at = First(op), !.batch = batch,
                            !.left = batch,
                            !.added = doing[c].added + Len(batch)]]
    /\ raced' = (raced \/ \E d \in Clients : Busy(d))
    /\ UNCHANGED <<store, rows, parent, old, acked, taken, twice, held, wiped>>

(* add_items of no items returns at once.                                  *)
BeginAdd(c) ==
    \E n \in 1..MaxAdds - doing[c].added :
        Begin(c, "add", [k \in 1..n |-> [by |-> c, n |-> doing[c].added + k]])
BeginPop(c) == Begin(c, "pop", <<>>)
BeginClear(c) == Begin(c, "clear", <<>>)

AtStep(c, step) == doing[c].at = step
Goto(c, step) == doing' = [doing EXCEPT ![c].at = step]

(* The operation is over; a pop keeps what it saw for nobody.              *)
Idling(c) == [doing[c] EXCEPT !.op = "none", !.at = "none", !.batch = <<>>,
                              !.left = <<>>, !.seen = <<>>]
Stops(c) == doing' = [doing EXCEPT ![c] = Idling(c)]
AddReturns(c) == Stops(c) /\ acked' = acked \cup ToSet(doing[c].batch)

(* Those of the items that another operation has read, and may return or   *)
(* write back.                                                             *)
ReadByOthers(c, items) ==
    {item \in items : \E d \in Clients \ {c} : item \in ToSet(doing[d].seen)}
TakenBy(c, items) ==
    /\ taken' = taken \cup items
    /\ held' = held \cup ReadByOthers(c, items)

(* pop_item returns the item; an EncryptedSession drops one that is too    *)
(* old and pops again.                                                     *)
PopReturns(c, item) ==
    IF store.sealed /\ item \in old
    THEN /\ doing' = [doing EXCEPT ![c].at = First("pop"), ![c].seen = <<>>]
         /\ wiped' = wiped \cup {item}
         /\ UNCHANGED <<taken, twice, held>>
    ELSE /\ Stops(c)
         /\ TakenBy(c, {item})
         /\ twice' = twice \cup (taken \cap {item})
         /\ UNCHANGED wiped

-----------------------------------------------------------------------------
(* MemorySession: one lock.  RedisSession: RPUSH and EXPIRE, RPOP, DEL.    *)
(* The key goes with its last element, and its TTL with it.                *)

Push(c) ==
    /\ AtStep(c, "push")
    /\ rows' = rows \o doing[c].left
    /\ IF store.kind = "redis" /\ store.ttl
       THEN Goto(c, "expire") /\ UNCHANGED acked
       ELSE AddReturns(c)
    /\ UNCHANGED <<store, begun, parent, old, taken, twice, held, wiped,
                   raced>>

Expire(c) ==
    /\ AtStep(c, "expire")
    /\ parent' = (rows # <<>>)
    /\ AddReturns(c)
    /\ UNCHANGED <<store, begun, rows, old, taken, twice, held, wiped, raced>>

(* Mutant: the newest item is read and stays.                              *)
PopLeaves(c) ==
    /\ AtStep(c, "pop")
    /\ IF rows = <<>> THEN Stops(c) /\ UNCHANGED <<taken, twice, held, wiped>>
       ELSE PopReturns(c, Last(rows))
    /\ UNCHANGED <<store, begun, rows, parent, old, acked, raced>>

Pop(c) ==
    /\ AtStep(c, "pop")
    /\ IF rows = <<>>
       THEN Stops(c) /\ UNCHANGED <<rows, parent, taken, twice, held, wiped>>
       ELSE /\ rows' = Front(rows)
            /\ parent' = (parent /\ rows' # <<>>)
            /\ PopReturns(c, Last(rows))
    /\ UNCHANGED <<store, begun, old, acked, raced>>

Clear(c) ==
    /\ AtStep(c, "clear")
    /\ rows' = <<>>
    /\ parent' = FALSE
    /\ wiped' = wiped \cup ToSet(rows)
    /\ Stops(c)
    /\ UNCHANGED <<store, begun, old, acked, taken, twice, held, raced>>

-----------------------------------------------------------------------------
(* SQLiteSession: no transaction around the statements of an operation.    *)
(* The driver enforces the foreign key of agent_messages.                  *)

InsertParent(c) ==
    /\ AtStep(c, "parent")
    /\ parent' = TRUE
    /\ Goto(c, "insert")
    /\ UNCHANGED <<store, begun, rows, old, storeHistory>>

InsertMessage(c) ==
    /\ AtStep(c, "insert")
    /\ parent
    /\ rows' = Append(rows, Head(doing[c].left))
    /\ doing' = [doing EXCEPT
           ![c].left = Tail(@),
           ![c].at = IF Len(doing[c].left) = 1 THEN "touch" ELSE @]
    /\ UNCHANGED <<store, begun, parent, old, storeHistory>>

Touch(c) ==
    /\ AtStep(c, "touch")
    /\ AddReturns(c)
    /\ UNCHANGED <<store, begun, rows, parent, old, taken, twice, held, wiped,
                   raced>>

SelectNewest(c) ==
    /\ AtStep(c, "select")
    /\ IF rows = <<>>
       THEN Stops(c)
       ELSE doing' = [doing EXCEPT ![c].at = "delete",
                                   ![c].seen = <<Last(rows)>>]
    /\ UNCHANGED <<store, begun, rows, parent, old, storeHistory>>

(* Mutant: the row that is the newest by now is deleted.                   *)
DeleteNewest(c) ==
    /\ AtStep(c, "delete")
    /\ rows' = IF rows = <<>> THEN rows ELSE Front(rows)
    /\ PopReturns(c, doing[c].seen[1])
    /\ UNCHANGED <<store, begun, parent, old, acked, raced>>

(* DELETE ... WHERE id = ?: whether a row was deleted is not looked at.    *)
DeleteSelected(c) ==
    /\ AtStep(c, "delete")
    /\ \/ \E i \in DOMAIN rows :
              rows[i] = doing[c].seen[1] /\ rows' = RemoveAt(rows, i)
       \/ doing[c].seen[1] \notin ToSet(rows) /\ rows' = rows
    /\ PopReturns(c, doing[c].seen[1])
    /\ UNCHANGED <<store, begun, parent, old, acked, raced>>

DeleteMessages(c) ==
    /\ AtStep(c, "messages")
    /\ rows' = <<>>
    /\ wiped' = wiped \cup ToSet(rows)
    /\ Goto(c, "session")
    /\ UNCHANGED <<store, begun, parent, old, acked, taken, twice, held,
                   raced>>

(* ON DELETE CASCADE takes messages that came in between.                  *)
DeleteSession(c) ==
    /\ AtStep(c, "session")
    /\ parent' = FALSE
    /\ rows' = <<>>
    /\ wiped' = wiped \cup ToSet(rows)
    /\ Stops(c)
    /\ UNCHANGED <<store, begun, old, acked, taken, twice, held, raced>>

-----------------------------------------------------------------------------
(* DaprSession: the whole list is read and written back, without an etag.  *)

ReadAll(c) ==
    /\ AtStep(c, "read")
    /\ doing' = [doing EXCEPT ![c].at = "write", ![c].seen = rows]
    /\ UNCHANGED <<store, begun, rows, parent, old, storeHistory>>

Popped(items) == IF items = <<>> THEN <<>> ELSE Front(items)

(* Mutant: new items are put in front.                                     *)
WrittenInFront(c) == IF doing[c].op = "add" THEN doing[c].left \o doing[c].seen
                     ELSE Popped(doing[c].seen)

Written(c) == IF doing[c].op = "add" THEN doing[c].seen \o doing[c].left
              ELSE Popped(doing[c].seen)

WriteAll(c) ==
    /\ AtStep(c, "write")
    /\ rows' = Written(c)
    /\ IF doing[c].op = "add"
       THEN AddReturns(c) /\ UNCHANGED <<taken, twice, held, wiped>>
       ELSE /\ IF doing[c].seen = <<>>
               THEN Stops(c) /\ UNCHANGED <<taken, twice, held, wiped>>
               ELSE PopReturns(c, Last(doing[c].seen))
            /\ UNCHANGED acked
    /\ UNCHANGED <<store, begun, parent, old, raced>>

-----------------------------------------------------------------------------
(* Faults and time.                                                        *)

(* The statement is not executed, or its caller is gone before it: SQLite  *)
(* also refuses a message whose session row a clear has deleted.           *)
Abandon(c) ==
    /\ Busy(c)
    /\ store.kind # "memory"
    /\ Stops(c)
    /\ UNCHANGED <<store, begun, rows, parent, old, storeHistory>>

(* The request was executed and its answer lost: add_items returns an      *)
(* error for items that are stored, pop_item for one that is gone.         *)
AnswerLost(c) ==
    /\ store.kind \in {"redis", "dapr"}
    /\ \/ AtStep(c, "push") /\ rows' = rows \o doing[c].left
       \/ AtStep(c, "pop") /\ rows' = Popped(rows)
       \/ AtStep(c, "write") /\ rows' = Written(c)
    /\ parent' = (parent /\ rows' # <<>>)
    /\ TakenBy(c, IF doing[c].op = "pop" THEN ToSet(rows) \ ToSet(rows')
                  ELSE {})
    /\ Stops(c)
    /\ UNCHANGED <<store, begun, old, acked, twice, wiped, raced>>

(* Time passes: the envelopes written so far reach their age, or the       *)
(* backend expires the whole key.                                          *)
EnvelopesAge ==
    /\ store.sealed /\ store.ttl
    /\ old' = old \cup ToSet(rows)
    /\ old' # old
    /\ UNCHANGED <<store, rows, parent, doing, begun, storeHistory>>

KeyExpires ==
    /\ rows # <<>>
    /\ store.ttl
    /\ store.kind = "dapr" \/ (store.kind = "redis" /\ parent)
    /\ rows' = <<>>
    /\ parent' = FALSE
    /\ wiped' = wiped \cup ToSet(rows)
    /\ UNCHANGED <<store, old, doing, begun, acked, taken, twice, held, raced>>

StoreNext ==
    \/ OpenStore
    \/ \E c \in Clients :
        \/ BeginAdd(c) \/ BeginPop(c) \/ BeginClear(c)
        \/ Push(c) \/ Expire(c) \/ Pop(c) \/ Clear(c)
        \/ InsertParent(c) \/ InsertMessage(c) \/ Touch(c)
        \/ SelectNewest(c) \/ DeleteSelected(c)
        \/ DeleteMessages(c) \/ DeleteSession(c)
        \/ ReadAll(c) \/ WriteAll(c)
        \/ Abandon(c) \/ AnswerLost(c)
    \/ EnvelopesAge
    \/ KeyExpires

StoreSpec == StoreInit /\ [][StoreNext]_storeVars

-----------------------------------------------------------------------------
(* Properties.  The Dapr store writes the whole list back: it is a log,    *)
(* and keeps what was added, only as long as no two operations overlap.    *)

Rewritten == store.kind = "dapr" /\ raced

Listed == IF Rewritten THEN <<>> ELSE rows
Log == INSTANCE ItemLog WITH LogItems <- StoredItems, log <- Listed

(* Whatever statements of several clients come between one another, and    *)
(* wherever an operation is cut off, the list grows at its end, loses one  *)
(* item, or is emptied: no step brings back an older list or reorders it,  *)
(* but for a Dapr store once two operations on it overlapped.              *)
StoreIsALog == Log!LogSpec

(* An item whose add_items returned is in the store until a pop takes      *)
(* exactly it, or a clear or an expiry removes it, but for a Dapr store    *)
(* once two operations on it overlapped.                                   *)
AddedIsKept == Rewritten \/ acked \subseteq ToSet(rows) \cup taken \cup wiped

(* An item that a pop took is returned by another, or is in the store once *)
(* more, only if somebody else had read it by then.  In memory and Redis   *)
(* nobody can.  In SQLite that is a pop between its two statements: pops   *)
(* that overlap may return one item, but it has left the store, so that    *)
(* none that begins later does, whatever other operations overlapped.  In  *)
(* Dapr it is an add or a pop that writes back what it read, and then a    *)
(* later pop returns the item again.                                       *)
PoppedOnce ==
    /\ twice \cup (ToSet(rows) \cap taken) \subseteq held
    /\ store.kind # "dapr" => ToSet(rows) \cap taken = {}
    /\ store.kind \notin {"sqlite", "dapr"} => held = {}
=============================================================================
