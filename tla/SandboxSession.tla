--------------------------- MODULE SandboxSession ---------------------------
(***************************************************************************)
(* The local sandbox of agents-core (sandbox/mod.rs): one workspace        *)
(* directory, the snapshot directories copied from it, the sessions that   *)
(* work in it, and the serialised state from which a caller or the runner  *)
(* resumes a session, in this process or after it died.                    *)
(*                                                                         *)
(* A session is one LocalSandboxSessionInner; it does one operation at a   *)
(* time.  A step is one pass over a directory tree (a fingerprint, a       *)
(* clear, a copy, a removal): it may break off half way, and between two   *)
(* passes another session on the same workspace may do a pass of its own,  *)
(* and the process may die.                                                *)
(***************************************************************************)
EXTENDS Naturals

CONSTANTS Files,        \* the paths of the workspace
          Sessions,     \* the session objects made over time
          Manifest,     \* the files the manifest materialises
          MaxVersions,  \* bound: different contents of one file
          MaxChanges    \* bound: changes made to files

ASSUME ManifestAssumption == Manifest \subseteq Files
ASSUME BoundsAssumption == MaxVersions \in Nat \ {0} /\ MaxChanges \in Nat

VARIABLES
    workspace,  \* the directory at workspace_root
    snapshots,  \* the snapshot directory first made by each session
    sess,       \* the sessions
    saved,      \* the last LocalSandboxSessionState somebody keeps
    kind,       \* who owns the workspace: nobody yet, the runner, the caller
    changes,    \* how many changes were made to files
    last,       \* history: what the last refresh copied,
    known,      \*          whether that copy is complete and its print right,
    had,        \*          what each file may be in a copy that is not,
    shared,     \*          two sessions were in use at the same time
    crashed     \*          the process died

disk == <<workspace, snapshots>>
history == <<kind, changes, last, known, had, shared, crashed>>
sandboxVars == <<workspace, snapshots, sess, saved, history>>

(* File contents; 0 says that there is no such file.  The SHA-256 of a     *)
(* tree identifies its contents.                                           *)
Contents == [Files -> 0..MaxVersions]
Nothing == [f \in Files |-> 0]
FromManifest == [f \in Files |-> IF f \in Manifest THEN 1 ELSE 0]

Dirs == [up : BOOLEAN, files : Contents]
Absent == [up |-> FALSE, files |-> Nothing]
Dir(c) == [up |-> TRUE, files |-> c]

Nowhere == [f \in Files |-> {}]
Only(c) == [f \in Files |-> {c[f]}]

(* What is left when a pass over the files of a directory breaks off.      *)
Part(c, some) == [f \in Files |-> IF f \in some THEN c[f] ELSE 0]

(* copy_directory_contents: files of the source replace those of the same  *)
(* name, others stay.                                                      *)
Copied(from, to) == [f \in Files |-> IF from[f] # 0 THEN from[f] ELSE to[f]]

NoDir == "none"
SnapshotDirs == Sessions \cup {NoDir}
Places == {"idle", "print", "copy", "restore", "unpack", "cleanup"}
Afterwards == {"return", "save", "create"}

SessionRecords ==
    [phase : {"unborn", "live", "gone"}, owned : BOOLEAN, at : Places,
     after : Afterwards, dir : SnapshotDirs, print : Contents,
     seen : Contents, cleaned : BOOLEAN]
SavedStates ==
    [there : BOOLEAN, owned : BOOLEAN, ready : BOOLEAN, dir : SnapshotDirs,
     print : Contents]

SandboxTypeOK ==
    /\ workspace \in Dirs
    /\ snapshots \in [Sessions -> Dirs]
    /\ sess \in [Sessions -> SessionRecords]
    /\ saved \in SavedStates
    /\ kind \in {"none", "runner", "caller"}
    /\ changes \in 0..MaxChanges
    /\ last \in Contents
    /\ had \in [Files -> SUBSET (0..MaxVersions)]
    /\ known \in BOOLEAN /\ shared \in BOOLEAN /\ crashed \in BOOLEAN

Unborn ==
    [phase |-> "unborn", owned |-> FALSE, at |-> "idle", after |-> "return",
     dir |-> NoDir, print |-> Nothing, seen |-> Nothing, cleaned |-> FALSE]

SandboxInit ==
    /\ workspace = Absent
    /\ snapshots = [s \in Sessions |-> Absent]
    /\ sess = [s \in Sessions |-> Unborn]
    /\ saved = [there |-> FALSE, owned |-> FALSE, ready |-> FALSE,
                dir |-> NoDir, print |-> Nothing]
    /\ kind = "none"
    /\ changes = 0
    /\ last = Nothing
    /\ had = Nowhere
    /\ known = FALSE /\ shared = FALSE /\ crashed = FALSE

Live(s) == sess[s].phase = "live"
Idle(s) == Live(s) /\ sess[s].at = "idle"
At(s, place) == Live(s) /\ sess[s].at = place
Goes(s, place) == sess' = [sess EXCEPT ![s].at = place]
SomeoneLive == \E s \in Sessions : Live(s)

(* What the history says of the copies, as long as nobody shares the       *)
(* workspace.                                                              *)
Remembered(copy, right, maybe) ==
    /\ last' = IF shared' THEN Nothing ELSE copy
    /\ known' = (right /\ ~shared')
    /\ had' = IF shared' THEN Nowhere ELSE maybe

(* The last Arc of a session is dropped.                                   *)
Dropped == [Unborn EXCEPT !.phase = "gone"]
WorkspaceAfterDrop(r) == IF r.owned THEN Absent ELSE workspace

Returned(r) == [r EXCEPT !.at = "idle", !.after = "return", !.seen = Nothing]

-----------------------------------------------------------------------------
(* Creating.                                                               *)

(* prepare_agent_for_sandbox without a session or a state: a workspace     *)
(* owned by the runner, and no snapshot yet.  When the manifest cannot be  *)
(* materialised the directory is removed again, and nothing has changed.   *)
CreateForRun(s) ==
    /\ kind = "none"
    /\ kind' = "runner"
    /\ workspace' = Dir(FromManifest)
    /\ sess' = [sess EXCEPT ![s].phase = "live", ![s].owned = TRUE]
    /\ UNCHANGED <<snapshots, saved, changes, last, known, had, shared,
                   crashed>>

(* LocalSandboxSession::create_caller_owned: the first refresh is part of  *)
(* it, and when it fails there is no session.                              *)
CreateCallerOwned(s) ==
    /\ kind = "none"
    /\ kind' = "caller"
    /\ workspace' = Dir(FromManifest)
    /\ sess' = [sess EXCEPT ![s].phase = "live", ![s].at = "print",
                            ![s].after = "create"]
    /\ UNCHANGED <<snapshots, saved, changes, last, known, had, shared,
                   crashed>>

-----------------------------------------------------------------------------
(* Working.  A file gets other contents, appears or goes, while a refresh  *)
(* copies the workspace too.                                               *)

Change(f, contents) ==
    /\ contents # workspace.files[f]
    /\ changes < MaxChanges
    /\ changes' = changes + 1
    /\ workspace' = Dir([workspace.files EXCEPT ![f] = contents])
    /\ had' = IF ~shared /\ \E s \in Sessions : At(s, "copy")
              THEN [had EXCEPT ![f] = @ \cup {contents}] ELSE had

Refresh(s, after) ==
    sess' = [sess EXCEPT ![s].at = "print", ![s].after = after]

(* write_file and apply_patch (which only write) and a command of          *)
(* run_shell that succeeds.  The path is resolved inside a workspace that  *)
(* exists, and the shell changes into it first.                            *)
Work(s, f) ==
    /\ Idle(s)
    /\ workspace.up
    /\ \E c \in 0..MaxVersions : Change(f, c)
    /\ Refresh(s, "return")
    /\ UNCHANGED <<snapshots, saved, kind, last, known, shared, crashed>>

(* A command that fails after it changed something, or a process of        *)
(* open_pty that still runs: nothing is refreshed.                         *)
Drift(s, f) ==
    /\ Live(s)
    /\ sess[s].at \notin {"restore", "unpack"}
    /\ workspace.up
    /\ \E c \in 0..MaxVersions : Change(f, c)
    /\ UNCHANGED <<snapshots, sess, saved, kind, last, known, shared, crashed>>

(* apply_live_manifest_update on an injected session: materialize_entry    *)
(* creates the directories it needs, the root included.                    *)
ApplyManifest(s, f) ==
    /\ Idle(s)
    /\ \E c \in 1..MaxVersions : Change(f, c)
    /\ Refresh(s, "return")
    /\ UNCHANGED <<snapshots, saved, kind, last, known, shared, crashed>>

-----------------------------------------------------------------------------
(* refresh_snapshot_state: fingerprint the workspace and clear or create   *)
(* the snapshot (nobody can tell the two apart), copy, and only then       *)
(* remember both.                                                          *)

StateOf(r) ==
    [there |-> TRUE, owned |-> r.owned, ready |-> workspace.up,
     dir |-> r.dir, print |-> r.print]

(* What the caller of the refresh does with its outcome: the runner's      *)
(* AgentSandboxRuntime::snapshot ignores a failure and takes the state as  *)
(* it is; serialize_session_state of a caller's session returns it.        *)
Ends(s, r, ok) ==
    /\ sess' = [sess EXCEPT ![s] =
                    IF r.after = "create" /\ ~ok
                    THEN Dropped ELSE Returned(r)]
    /\ saved' = IF r.after = "save" /\ (ok \/ r.owned) THEN StateOf(r)
                ELSE saved

Save(s) ==
    /\ Idle(s)
    /\ Refresh(s, "save")
    /\ UNCHANGED <<disk, saved, history>>

(* The snapshot of this session, or a new directory.                       *)
SnapshotOf(s) == IF sess[s].dir = NoDir THEN s ELSE sess[s].dir

Fingerprint(s) ==
    /\ At(s, "print")
    /\ workspace.up
    /\ sess' = [sess EXCEPT ![s].at = "copy", ![s].seen = workspace.files]
    /\ snapshots' = [snapshots EXCEPT ![SnapshotOf(s)] = Dir(Nothing)]
    /\ UNCHANGED <<workspace, saved, kind, changes, shared, crashed>>
    /\ Remembered(Nothing, FALSE, Only(workspace.files))

FingerprintFails(s) ==
    /\ At(s, "print")
    /\ ~workspace.up
    /\ Ends(s, sess[s], FALSE)
    /\ UNCHANGED <<disk, history>>

(* The clear gives out: some files of the last copy are still there.       *)
ClearFails(s) ==
    /\ At(s, "print")
    /\ workspace.up
    /\ \E some \in SUBSET Files :
           snapshots' = [snapshots EXCEPT ![SnapshotOf(s)].files =
                             Part(@, some)]
    /\ Ends(s, sess[s], FALSE)
    /\ UNCHANGED <<workspace, kind, changes, shared, crashed>>
    /\ Remembered(Nothing, FALSE, Only(snapshots[SnapshotOf(s)].files))

CopyToSnapshot(s) ==
    /\ At(s, "copy")
    /\ workspace.up
    /\ UNCHANGED <<workspace, kind, changes, shared, crashed>>
    /\ LET d == SnapshotOf(s)
           copy == Copied(workspace.files, snapshots[d].files)
       IN  /\ snapshots' = [snapshots EXCEPT ![d] = Dir(copy)]
           /\ Ends(s, [sess[s] EXCEPT !.dir = d, !.print = sess[s].seen], TRUE)
           /\ IF copy = sess[s].seen THEN Remembered(copy, TRUE, Nowhere)
              ELSE Remembered(Nothing, FALSE, had)

(* The workspace is gone or the disk gives out: some files were copied,    *)
(* and the session keeps what it remembered.                               *)
CopyFails(s) ==
    /\ At(s, "copy")
    /\ \E some \in SUBSET Files :
           LET d == SnapshotOf(s)
               part == Part(workspace.files, some)
           IN  snapshots' = [snapshots EXCEPT
                                 ![d] = Dir(Copied(part, snapshots[d].files))]
    /\ Ends(s, sess[s], FALSE)
    /\ UNCHANGED <<workspace, history>>

-----------------------------------------------------------------------------
(* LocalSandboxSession::resume.                                            *)

(* Mutant: only a state without a workspace makes the directory.           *)
ResumeWithoutDirectory(s) ==
    /\ saved.there
    /\ sess[s] = Unborn
    /\ saved.ready => workspace.up \/ saved.owned
    /\ workspace' = IF ~saved.ready THEN Dir(FromManifest) ELSE workspace
    /\ sess' = [sess EXCEPT ![s] =
                    [Unborn EXCEPT !.phase = "live", !.at = "restore",
                                   !.owned = saved.owned, !.dir = saved.dir,
                                   !.print = saved.print]]
    /\ shared' = (shared \/ SomeoneLive)
    /\ UNCHANGED <<snapshots, saved, kind, changes, crashed>>
    /\ Remembered(last, known, had)

(* The directory is made if it is missing and the state may make it; a     *)
(* state taken without a workspace materialises the manifest once more.    *)
ResumeFrom(s) ==
    /\ saved.there
    /\ sess[s] = Unborn
    /\ saved.ready => workspace.up \/ saved.owned
    /\ workspace' =
           IF ~saved.ready
           THEN Dir(Copied(FromManifest, workspace.files))
           ELSE Dir(workspace.files)
    /\ sess' = [sess EXCEPT ![s] =
                    [Unborn EXCEPT !.phase = "live", !.at = "restore",
                                   !.owned = saved.owned, !.dir = saved.dir,
                                   !.print = saved.print]]
    /\ shared' = (shared \/ SomeoneLive)
    /\ UNCHANGED <<snapshots, saved, kind, changes, crashed>>
    /\ Remembered(last, known, had)

(* The manifest cannot be materialised: an owned workspace is removed.     *)
ResumeFails ==
    /\ saved.there
    /\ ~saved.ready
    /\ workspace' = IF saved.owned THEN Absent ELSE Dir(workspace.files)
    /\ shared' = (shared \/ SomeoneLive)
    /\ UNCHANGED <<snapshots, sess, saved, kind, changes, crashed>>
    /\ Remembered(last, known, had)

(* restore_snapshot_if_needed: nothing to do without a snapshot or when    *)
(* the live contents have the remembered fingerprint.                      *)
RestoreIsNotNeeded(s) ==
    /\ At(s, "restore")
    /\ sess[s].dir = NoDir \/ workspace.files = sess[s].print
    /\ workspace' = IF sess[s].dir = NoDir THEN workspace
                    ELSE Dir(workspace.files)
    /\ Goes(s, "idle")
    /\ UNCHANGED <<snapshots, saved, history>>

(* Mutant: the snapshot is copied over what is there.                      *)
RestoreOnTop(s) ==
    /\ At(s, "restore")
    /\ sess[s].dir # NoDir /\ workspace.files # sess[s].print
    /\ workspace' = Dir(workspace.files)
    /\ Goes(s, "unpack")
    /\ UNCHANGED <<snapshots, saved, history>>

RestoreIsNeeded(s) ==
    /\ At(s, "restore")
    /\ sess[s].dir # NoDir /\ workspace.files # sess[s].print
    /\ workspace' = Dir(Nothing)
    /\ Goes(s, "unpack")
    /\ UNCHANGED <<snapshots, saved, history>>

Unpack(s) ==
    /\ At(s, "unpack")
    /\ snapshots[sess[s].dir].up
    /\ workspace' = Dir(Copied(snapshots[sess[s].dir].files, workspace.files))
    /\ Goes(s, "idle")
    /\ UNCHANGED <<snapshots, saved, history>>

(* The workspace cannot be read or cleared: resume returns an error and    *)
(* drops the session it has made.                                          *)
RestoreFails(s) ==
    /\ At(s, "restore")
    /\ sess[s].dir # NoDir
    /\ \E some \in IF workspace.files = sess[s].print THEN {Files}
                   ELSE SUBSET Files :
           workspace' = IF sess[s].owned THEN Absent
                        ELSE Dir(Part(workspace.files, some))
    /\ sess' = [sess EXCEPT ![s] = Dropped]
    /\ UNCHANGED <<snapshots, saved, history>>

(* Mutant: the session is forgotten instead of dropped.                    *)
UnpackFailsAndLeaves(s) ==
    /\ At(s, "unpack")
    /\ sess' = [sess EXCEPT ![s] = Dropped]
    /\ UNCHANGED <<disk, saved, history>>

(* The snapshot is missing or cannot be read, or not to its end.           *)
UnpackFails(s) ==
    /\ At(s, "unpack")
    /\ \E some \in SUBSET Files :
           LET part == Part(snapshots[sess[s].dir].files, some)
           IN  workspace' = IF sess[s].owned THEN Absent
                            ELSE Dir(Copied(part, workspace.files))
    /\ sess' = [sess EXCEPT ![s] = Dropped]
    /\ UNCHANGED <<snapshots, saved, history>>

-----------------------------------------------------------------------------
(* Ending.                                                                 *)

(* cleanup(): the snapshot, then a workspace of the runner; done once.     *)
RemoveSnapshot(s) ==
    /\ Idle(s)
    /\ ~sess[s].cleaned
    /\ Goes(s, "cleanup")
    /\ UNCHANGED <<workspace, saved, kind, changes, shared, crashed>>
    /\ IF sess[s].dir = NoDir
       THEN UNCHANGED <<snapshots, last, known, had>>
       ELSE /\ snapshots' = [snapshots EXCEPT ![sess[s].dir] = Absent]
            /\ Remembered(Nothing, FALSE, Nowhere)

(* The removal of the snapshot gives out: some of its files are still      *)
(* there, and cleanup returns an error.                                    *)
RemoveSnapshotFails(s) ==
    /\ Idle(s)
    /\ ~sess[s].cleaned
    /\ sess[s].dir # NoDir
    /\ \E some \in SUBSET Files :
           snapshots' = [snapshots EXCEPT ![sess[s].dir].files = Part(@, some)]
    /\ UNCHANGED <<workspace, sess, saved, kind, changes, shared, crashed>>
    /\ Remembered(Nothing, FALSE, Only(snapshots[sess[s].dir].files))

RemoveWorkspace(s) ==
    /\ At(s, "cleanup")
    /\ workspace' = WorkspaceAfterDrop(sess[s])
    /\ sess' = [sess EXCEPT ![s].at = "idle", ![s].cleaned = TRUE]
    /\ UNCHANGED <<snapshots, saved, history>>

CleanupFails(s) ==
    /\ At(s, "cleanup")
    /\ Goes(s, "idle")
    /\ UNCHANGED <<disk, saved, history>>

(* Drop for LocalSandboxSessionInner.                                      *)
DropSession(s) ==
    /\ Idle(s)
    /\ workspace' = WorkspaceAfterDrop(sess[s])
    /\ sess' = [sess EXCEPT ![s] = Dropped]
    /\ UNCHANGED <<snapshots, saved, history>>

(* The process dies: no destructor runs.  Directories and the state that   *)
(* somebody keeps survive.                                                 *)
Crash ==
    /\ SomeoneLive
    /\ crashed' = TRUE
    /\ sess' = [s \in Sessions |-> IF Live(s) THEN Dropped ELSE sess[s]]
    /\ UNCHANGED <<disk, saved, kind, changes, last, known, had, shared>>

SandboxNext ==
    \/ \E s \in Sessions :
        \/ CreateForRun(s)
        \/ CreateCallerOwned(s)
        \/ \E f \in Files : Work(s, f) \/ Drift(s, f) \/ ApplyManifest(s, f)
        \/ Save(s)
        \/ Fingerprint(s)
        \/ FingerprintFails(s)
        \/ ClearFails(s)
        \/ CopyToSnapshot(s)
        \/ CopyFails(s)
        \/ ResumeFrom(s)
        \/ RestoreIsNotNeeded(s)
        \/ RestoreIsNeeded(s)
        \/ RestoreFails(s)
        \/ Unpack(s)
        \/ UnpackFails(s)
        \/ RemoveSnapshot(s)
        \/ RemoveSnapshotFails(s)
        \/ RemoveWorkspace(s)
        \/ CleanupFails(s)
        \/ DropSession(s)
    \/ ResumeFails
    \/ Crash

SandboxSpec == SandboxInit /\ [][SandboxNext]_sandboxVars

-----------------------------------------------------------------------------
(* Properties.                                                             *)

Restored(s) ==
    /\ Live(s) /\ sess[s].at \in {"restore", "unpack"}
    /\ sess[s].dir # NoDir
    /\ sess'[s].phase = "live" /\ sess'[s].at = "idle"

IsPart(c) == \A f \in Files : c[f] \in {0} \cup had[f]

(* Whatever was torn down, crashed or drifted in between, a session that   *)
(* resume() gives out finds the contents of the last refresh, or those its *)
(* state was taken with when they are what is there.  When the state was   *)
(* taken last the two are the same.  It finds a part only if the last      *)
(* refresh or cleanup broke off, by a failure or a crash, or the workspace *)
(* changed under the copy: then each file is missing, or as it was in the  *)
(* workspace while that refresh copied or in the snapshot that it had only *)
(* begun to clear, never older.  Sessions on one workspace have to be used *)
(* one after the other.                                                    *)
ResumeRestoresTheLastRefresh ==
    [][\A s \in Sessions :
          Restored(s) /\ ~shared =>
              \/ workspace' = Dir(sess[s].print)
              \/ known /\ workspace' = Dir(last)
              \/ /\ ~known
                 /\ workspace'.up /\ IsPart(workspace'.files)]_sandboxVars

(* Sessions, resumes that fail and cleanups never remove a workspace that  *)
(* belongs to the caller; and the runner's workspace does not outlive the  *)
(* sessions that own it: each way out removes it, a resume that fails half *)
(* way included.                                                           *)
OwnerDecides ==
    /\ kind = "caller" => workspace.up
    /\ kind = "runner" /\ ~crashed /\ ~SomeoneLive => ~workspace.up

(* As long as nobody shares it, a session that was not cleaned up has its  *)
(* workspace under its feet.                                               *)
SessionsHaveTheirWorkspace ==
    ~shared =>
        \A s \in Sessions :
            Live(s) /\ ~sess[s].cleaned /\ sess[s].at # "restore"
                => workspace.up
=============================================================================
