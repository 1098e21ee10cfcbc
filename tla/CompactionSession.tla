------------------------- MODULE CompactionSession -------------------------
(***************************************************************************)
(* OpenAIResponsesCompactionSession (agents-openai/src/memory.rs) and what *)
(* a run does with it: it loads the conversation state, adds its items at  *)
(* the end, saves the state, and asks for a compaction.                    *)
(*                                                                         *)
(* The items lie in a MemorySession, and each field under a lock of its    *)
(* own.  A compaction reads the items, clears them and adds what it keeps  *)
(* under three acquisitions: a run that is dropped stops in between.  Runs *)
(* use the session one after the other: when two overlap, what the one     *)
(* adds between the read and the clear of the other is lost, and the code  *)
(* claims nothing else.                                                    *)
(***************************************************************************)
EXTENDS Naturals, Sequences, SequencesExt, FiniteSetsExt, ItemSelection

CONSTANTS MaxRuns,    \* bound: runs and compactions by the caller
          Threshold,  \* compaction_threshold
          MaxItems    \* bound: items added to the session

ASSUME CompactionAssumption ==
    MaxRuns \in Nat /\ Threshold \in Nat /\ MaxItems \in Nat

VARIABLES
    mode,      \* OpenAIResponsesCompactionMode, chosen when it is opened
    kept,      \* the items of the inner session
    ids,       \* response_id, deferred_response_id, last_unstored_response_id
    run,       \* the run that uses the session, numbered, and where it is
    added,     \* history: how many items were added,
    forgettable, \*        those of them that were candidates,
    removed,   \*          those a pop or a clear removed,
    lost,      \*          those a run cleared that was then dropped,
    unstored,  \*          responses of runs that had store = false
    asked,     \*          somebody asked for previous_response_id by name
    cut        \*          a run was dropped on its way

compactionVars ==
    <<mode, kept, ids, run, added, forgettable, removed, lost, unstored,
      asked, cut>>

itemHistory == <<added, forgettable, removed, lost>>

(* Run n has the response id n, when its last response has one.            *)
NoId == 0
Ids == NoId..MaxRuns
Modes == {"input", "previous", "auto"}

(* User-like items, candidates for compaction, and compaction markers: a   *)
(* marker carries the id it continues from.                                *)
SessionItems ==
    [sort : {"user", "candidate"}, n : 1..MaxItems, id : {NoId}]
        \cup [sort : {"marker"}, n : {0}, id : Ids]
IsCandidate(item) == item.sort = "candidate"

Compactable(items) == {item \in ToSet(items) : IsCandidate(item)}
KeptAlways(items) == ToSet(items) \ Compactable(items)
Candidates(items) == Those(items, Compactable(items))

RunPlaces ==
    {"working", "check", "read", "clear", "put", "save", "compact", "done"}
RunRecords ==
    [no : Ids, at : RunPlaces, offered : Ids, has : BOOLEAN,
     store : {"true", "false", "unset"}, auto : BOOLEAN, force : BOOLEAN,
     to : Ids, next : Seq(SessionItems)]

CompactionTypeOK ==
    /\ mode \in Modes \cup {"unopened"}
    /\ kept \in Seq(SessionItems)
    /\ ids \in [response : Ids, deferred : Ids, unstored : Ids]
    /\ run \in RunRecords
    /\ added \in 0..MaxItems
    /\ forgettable \subseteq 1..MaxItems
    /\ removed \subseteq 1..MaxItems /\ lost \subseteq 1..MaxItems
    /\ unstored \subseteq Ids
    /\ asked \in BOOLEAN /\ cut \in BOOLEAN

Finished(no) ==
    [no |-> no, at |-> "done", offered |-> NoId, has |-> FALSE,
     store |-> "unset", auto |-> FALSE, force |-> FALSE, to |-> NoId,
     next |-> <<>>]
NoIds == [response |-> NoId, deferred |-> NoId, unstored |-> NoId]
CompactionInit ==
    /\ mode = "unopened"
    /\ kept = <<>>
    /\ ids = NoIds
    /\ run = Finished(0)
    /\ added = 0
    /\ forgettable = {} /\ removed = {} /\ lost = {} /\ unstored = {}
    /\ asked = FALSE /\ cut = FALSE

OpenCompaction ==
    /\ mode = "unopened"
    /\ mode' \in Modes
    /\ asked' = (mode' = "previous")
    /\ UNCHANGED <<kept, ids, run, unstored, cut>>
    /\ UNCHANGED itemHistory

-----------------------------------------------------------------------------

RunAt(place) == run.at = place
RunGoes(place) == run' = IF place = "done" THEN Finished(run.no)
                         ELSE [run EXCEPT !.at = place]

Or(a, b) == IF a # NoId THEN a ELSE b

(* load_openai_conversation_state: the id that the next run continues      *)
(* from; not one that was not stored.                                      *)
Offered ==
    LET candidate == Or(ids.deferred, ids.response)
    IN  IF mode = "input" \/ candidate = ids.unstored THEN NoId ELSE candidate

(* A run begins, works, and has its last response: with an id or without.  *)
LoadState ==
    /\ mode # "unopened"
    /\ RunAt("done")
    /\ run.no < MaxRuns
    /\ \E has \in BOOLEAN, store \in {"true", "false", "unset"} :
        run' = [Finished(run.no + 1) EXCEPT
                    !.at = "working", !.offered = Offered,
                    !.has = has, !.store = store]
    /\ UNCHANGED <<mode, kept, ids, unstored, asked, cut>>
    /\ UNCHANGED itemHistory

(* Mutant: the id after the one of the last response.                      *)
TrackedAhead == IF run.has /\ mode # "input" THEN run.no + 1 ELSE run.offered

(* OpenAIServerConversationTracker: what the run hands on as its           *)
(* previous_response_id.                                                   *)
Tracked == IF run.has /\ mode # "input" THEN run.no ELSE run.offered

(* add_items, when there is something to add: the inner session takes them *)
(* under one lock.                                                         *)
AddSessionItems ==
    /\ RunAt("working")
    /\ \E sorts \in SeqOf({"user", "candidate"}, Min({2, MaxItems - added})) :
        /\ kept' = kept \o [k \in 1..Len(sorts) |->
                      [sort |-> sorts[k], n |-> added + k, id |-> NoId]]
        /\ added' = added + Len(sorts)
        /\ forgettable' = forgettable \cup
               {added + k : k \in {j \in 1..Len(sorts) :
                                      sorts[j] = "candidate"}}
        /\ RunGoes(IF sorts = <<>> \/ mode = "previous" THEN "save"
                   ELSE "check")
    /\ UNCHANGED <<mode, ids, removed, lost, unstored, asked, cut>>

(* should_compact: at the threshold it says yes.                           *)
ShouldCompact ==
    /\ RunAt("check")
    /\ run' = IF Len(Candidates(kept)) >= Threshold
              THEN [run EXCEPT !.at = "read", !.auto = TRUE]
              ELSE [run EXCEPT !.at = "save"]
    /\ UNCHANGED <<mode, kept, ids, unstored, asked, cut>>
    /\ UNCHANGED itemHistory

-----------------------------------------------------------------------------
(* Compacting.  "to" is the response id to continue from, or NoId when the *)
(* items themselves are compacted.                                         *)

KeepCount == Max({1, Max({Threshold, 2}) \div 2})

(* Mutant: the oldest candidates are kept.                                 *)
OldestInput ==
    LET oldest == {item \in Compactable(kept) :
                       Cardinality({other \in Compactable(kept) :
                                       other.n < item.n}) < KeepCount}
    IN  Those(kept, KeptAlways(kept) \cup oldest)

(* The newest candidates, and everything that is none.                     *)
CompactedInput ==
    LET newest == {item \in Compactable(kept) :
                       Cardinality({other \in Compactable(kept) :
                                       other.n > item.n}) < KeepCount}
    IN  Those(kept, KeptAlways(kept) \cup newest)

CompactedTo(id) ==
    Append(Those(kept, KeptAlways(kept)),
           [sort |-> "marker", n |-> 0, id |-> id])

(* compact_with_force: at the threshold nothing happens; by force the items *)
(* are written back as they are.                                           *)
NothingToDo ==
    LET count == Len(Candidates(kept))
    IN  /\ ~run.force
        /\ IF run.to = NoId THEN count <= Threshold ELSE count < Threshold

AfterCompaction == IF run.auto THEN "save" ELSE "done"

ReadItems ==
    /\ RunAt("read")
    /\ IF NothingToDo
       THEN RunGoes(AfterCompaction)
       ELSE run' = [run EXCEPT
                !.at = "clear",
                !.next = IF run.to # NoId THEN CompactedTo(run.to)
                         ELSE IF Len(Candidates(kept)) <= Threshold THEN kept
                         ELSE CompactedInput]
    /\ UNCHANGED <<mode, kept, ids, unstored, asked, cut>>
    /\ UNCHANGED itemHistory

ClearItems ==
    /\ RunAt("clear")
    /\ kept' = <<>>
    /\ RunGoes("put")
    /\ UNCHANGED <<mode, ids, unstored, asked, cut>>
    /\ UNCHANGED itemHistory

PutItems ==
    /\ RunAt("put")
    /\ kept' = kept \o run.next
    /\ ids' = IF run.to = NoId THEN ids
              ELSE [NoIds EXCEPT !.response = run.to]
    /\ run' = IF run.auto THEN [run EXCEPT !.at = "save", !.auto = FALSE,
                                           !.next = <<>>]
              ELSE Finished(run.no)
    /\ UNCHANGED <<mode, unstored, asked, cut>>
    /\ UNCHANGED itemHistory

(* save_openai_conversation_state.                                         *)
SaveState ==
    /\ RunAt("save")
    /\ ids' = [NoIds EXCEPT !.response =
                   IF mode = "input" THEN NoId ELSE Tracked]
    /\ RunGoes("compact")
    /\ UNCHANGED <<mode, kept, unstored, asked, cut>>
    /\ UNCHANGED itemHistory

(* Mutant: that a response was not stored is not noted.                    *)
NotedAsStored(id, store) ==
    IF id = NoId THEN ids ELSE [ids EXCEPT !.response = id, !.unstored = NoId]

(* run_compaction: the ids first, and then how to compact.                 *)
Noted(id, store) ==
    IF id = NoId THEN ids
    ELSE [ids EXCEPT !.response = id,
                     !.unstored = CASE store = "false" -> id
                                    [] store = "true" -> NoId
                                    [] OTHER -> @]

Resolved(requested, id, store, noted) ==
    IF requested # "auto" THEN requested
    ELSE IF store = "false" \/ id = NoId \/ id = noted.unstored THEN "input"
    ELSE "previous"

(* A compaction to a response id needs one: without it the call is an      *)
(* error.                                                                  *)
Compacts(no, requested, given, store, force) ==
    LET noted == Noted(given, store)
        id == Or(given, Or(noted.deferred, noted.response))
        how == Resolved(requested, id, store, noted)
    IN  /\ ids' = noted
        /\ run' = IF how = "previous" /\ id = NoId THEN Finished(no)
                  ELSE [Finished(no) EXCEPT
                            !.at = "read", !.force = force,
                            !.to = IF how = "previous" THEN id ELSE NoId]

RunCompaction ==
    /\ RunAt("compact")
    /\ Compacts(run.no, mode, Tracked, run.store, FALSE)
    /\ unstored' = IF run.has /\ run.store = "false"
                   THEN unstored \cup {run.no} ELSE unstored
    /\ UNCHANGED <<mode, kept, asked, cut>>
    /\ UNCHANGED itemHistory

(* The caller compacts on its own, by force and in the mode it likes.      *)
CallCompaction ==
    /\ mode # "unopened"
    /\ RunAt("done")
    /\ run.no < MaxRuns
    /\ \E requested \in Modes :
        /\ Compacts(run.no + 1, requested, NoId, "unset", TRUE)
        /\ asked' = (asked \/ requested = "previous")
    /\ UNCHANGED <<mode, kept, unstored, cut>>
    /\ UNCHANGED itemHistory

-----------------------------------------------------------------------------

(* The caller defers the id of a response that was stored.                 *)
DeferId(r) ==
    /\ RunAt("done")
    /\ r \in 1..run.no \ unstored
    /\ ids.deferred # r
    /\ ids' = [ids EXCEPT !.deferred = r]
    /\ UNCHANGED <<mode, kept, run, unstored, asked, cut>>
    /\ UNCHANGED itemHistory

PopNewest ==
    /\ RunAt("done")
    /\ kept # <<>>
    /\ kept' = Front(kept)
    /\ removed' = removed \cup ({Last(kept).n} \ {0})
    /\ UNCHANGED <<mode, ids, run, added, forgettable, lost, unstored, asked,
                   cut>>

ClearAll ==
    /\ RunAt("done")
    /\ kept # <<>>
    /\ kept' = <<>>
    /\ ids' = NoIds
    /\ removed' = 1..added
    /\ UNCHANGED <<mode, run, added, forgettable, lost, unstored, asked, cut>>

(* The future of the run is dropped at an await: between the clear and the *)
(* add of a compaction with all that it was to write back.                 *)
CutOff ==
    /\ ~RunAt("done")
    /\ RunGoes("done")
    /\ cut' = TRUE
    /\ lost' = IF RunAt("put")
               THEN lost \cup ({item.n : item \in ToSet(run.next)} \ {0})
               ELSE lost
    /\ UNCHANGED <<mode, kept, ids, added, forgettable, removed, unstored,
                   asked>>

CompactionNext ==
    \/ OpenCompaction
    \/ LoadState \/ AddSessionItems \/ ShouldCompact
    \/ ReadItems \/ ClearItems \/ PutItems
    \/ SaveState \/ RunCompaction \/ CallCompaction
    \/ \E r \in Ids : DeferId(r)
    \/ PopNewest
    \/ ClearAll
    \/ CutOff

CompactionSpec == CompactionInit /\ [][CompactionNext]_compactionVars

-----------------------------------------------------------------------------
(* Properties.                                                             *)

(* The numbers of what the session holds, or a compaction for it.          *)
Present == ToSet(kept) \cup ToSet(run.next)
Numbers(sort) == {item.n : item \in {i \in Present : i.sort = sort}}

(* Compaction forgets old candidates and nothing else: whatever sequence   *)
(* of runs that use the session one after the other, of forced compactions *)
(* and of modes, and wherever a run is dropped, an item that is missing was*)
(* popped, cleared, lost with a run that was dropped between the clear and *)
(* the add of its compaction, or was added as a candidate and is older     *)
(* than every candidate there is.                                          *)
OnlyOldCandidatesGo ==
    \A n \in (1..added) \ (removed \cup lost \cup Numbers("user")
                                  \cup Numbers("candidate")) :
        /\ n \in forgettable
        /\ \A m \in Numbers("candidate") : n < m

(* A response that the server did not store is neither continued from by   *)
(* the next run nor written into a marker, unless previous_response_id     *)
(* compaction was asked for by name.                                       *)
UnstoredIsNotContinued ==
    ~cut /\ ~asked /\ RunAt("done") =>
        /\ Offered \notin unstored
        /\ \A item \in ToSet(kept) : item.id \notin unstored
=============================================================================
