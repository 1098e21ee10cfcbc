----------------------------- MODULE MCDurable -----------------------------
(***************************************************************************)
(* The components of one process that keep something for later, checked    *)
(* side by side: the local sandbox, the stores of session items, the       *)
(* compaction session and the server conversation tracker.  They share no  *)
(* state, so a behaviour is about one of them, chosen at the start, and    *)
(* the others stay as they are.                                            *)
(***************************************************************************)
EXTENDS SandboxSession, SessionStores, CompactionSession, ConversationTracker

VARIABLE subject

durableVars ==
    <<subject, sandboxVars, storeVars, compactionVars, trackerVars>>

DurableInit ==
    /\ subject \in {"sandbox", "store", "compaction", "tracker"}
    /\ SandboxInit
    /\ StoreInit
    /\ CompactionInit
    /\ TrackerInit

DurableNext ==
    /\ subject' = subject
    /\ \/ /\ subject = "sandbox"
          /\ SandboxNext
          /\ UNCHANGED <<storeVars, compactionVars, trackerVars>>
       \/ /\ subject = "store"
          /\ StoreNext
          /\ UNCHANGED <<sandboxVars, compactionVars, trackerVars>>
       \/ /\ subject = "compaction"
          /\ CompactionNext
          /\ UNCHANGED <<sandboxVars, storeVars, trackerVars>>
       \/ /\ subject = "tracker"
          /\ TrackerNext
          /\ UNCHANGED <<sandboxVars, storeVars, compactionVars>>

DurableSpec == DurableInit /\ [][DurableNext]_durableVars

(* Nothing tells the sessions of a sandbox from each other.                *)
Alike == Permutations(Sessions)

(* Each component's variables keep their types.                            *)
DurableTypeOK ==
    /\ SandboxTypeOK
    /\ StoreTypeOK
    /\ CompactionTypeOK
    /\ TrackerTypeOK
=============================================================================
