--------------------------- MODULE DirectoryCopy ---------------------------
(***************************************************************************)
(* How a directory of the host is copied into a workspace of the local     *)
(* sandbox (sandbox/mod.rs) while somebody else changes it.  A directory   *)
(* is flat here: what is below it is copied by the same steps.             *)
(***************************************************************************)
EXTENDS Naturals, FiniteSets, Maps

CONSTANT MaxEdits   \* bound: what another process does to the directory

ASSUME CopyAssumption == MaxEdits \in Nat

VARIABLES
    host,          \* the directory: the version of each file, 0 without it,
                   \* and its own
    copying,       \* the local variables of copy_local_dir
    destination,   \* what is at the destination
    edits,         \* how many changes were made to the host
    seen           \* history: what the directory held since the copy began

copyVars == <<host, copying, destination, edits, seen>>

HostNames == {"a", "b"}
There(files) == {n \in HostNames : files[n] # 0}
Nothing == [n \in {} |-> 0]
NotCopying ==
    [at |-> "start", root |-> 0, left |-> {}, name |-> "a", entry |-> 0, half |-> 0,
     staged |-> Nothing]

CopyInit ==
    /\ host \in [files : [HostNames -> {0, 1}], version : {1}]
    /\ copying = NotCopying
    /\ destination = "old"
    /\ edits = 0 /\ seen = {}

CopyAt(place) == copying.at = place
CopyGoes(place) == copying' = [copying EXCEPT !.at = place]
(* The staging directory is removed.                                       *)
CopyFails ==
    /\ copying' = [NotCopying EXCEPT !.at = "failed"]
    /\ UNCHANGED <<host, destination, edits, seen>>

(* snapshot_local_dir_source of the directory; its listing is read later.  *)
BeginCopy ==
    /\ CopyAt("start")
    /\ copying' = [copying EXCEPT !.at = "list", !.root = host.version]
    /\ seen' = {host.files}
    /\ UNCHANGED <<host, destination, edits>>

ListSource ==
    /\ CopyAt("list")
    /\ copying' = [copying EXCEPT !.at = "next", !.left = There(host.files)]
    /\ UNCHANGED <<host, destination, edits, seen>>

(* The snapshot of the next entry, which may be gone.                      *)
NextEntry ==
    /\ CopyAt("next")
    /\ \E n \in copying.left :
        IF host.files[n] = 0 THEN CopyFails
        ELSE /\ copying' = [copying EXCEPT !.at = "copy", !.name = n, !.left = @ \ {n},
                                          !.entry = host.files[n]]
             /\ UNCHANGED <<host, destination, edits, seen>>

(* fs::copy reads the file in pieces: two here.                            *)
CopyFirst ==
    /\ CopyAt("copy")
    /\ IF host.files[copying.name] = 0 THEN CopyFails
       ELSE /\ copying' = [copying EXCEPT !.at = "rest", !.half = host.files[copying.name]]
            /\ UNCHANGED <<host, destination, edits, seen>>

(* A file that was removed can still be read to its end.                   *)
CopyRest ==
    /\ CopyAt("rest")
    /\ LET n == copying.name
           rest == IF host.files[n] = 0 THEN copying.half ELSE host.files[n]
       IN copying' = [copying EXCEPT !.at = "entry",
                                     !.staged = One(n, <<copying.half, rest>>) ++ @]
    /\ UNCHANGED <<host, destination, edits, seen>>

(* ensure_local_dir_source_unchanged, of the entry and of the directory.   *)
CheckEntry ==
    /\ CopyAt("entry")
    /\ IF host.files[copying.name] # copying.entry THEN CopyFails
       ELSE CopyGoes("root") /\ UNCHANGED <<host, destination, edits, seen>>

CheckRoot ==
    /\ CopyAt("root")
    /\ IF host.version # copying.root THEN CopyFails
       ELSE CopyGoes("next") /\ UNCHANGED <<host, destination, edits, seen>>

(* The destination is removed, and then the staging directory is renamed.  *)
RemoveOld ==
    /\ CopyAt("next") /\ copying.left = {}
    /\ CopyGoes("rename")
    /\ destination' = "none"
    /\ UNCHANGED <<host, edits, seen>>

RenameStaged ==
    /\ CopyAt("rename")
    /\ CopyGoes("done")
    /\ destination' = copying.staged
    /\ UNCHANGED <<host, edits, seen>>

(* Another process writes a file, or makes or removes one, which changes   *)
(* the directory as well.                                                  *)
HostChanges ==
    /\ edits < MaxEdits
    /\ copying.at \notin {"done", "failed"}
    /\ edits' = edits + 1
    /\ \E n \in HostNames, v \in {0, edits + 2} :
        /\ host.files[n] # v
        /\ host' = [files |-> [host.files EXCEPT ![n] = v],
                    version |-> IF 0 \in {v, host.files[n]} THEN edits + 2 ELSE host.version]
    /\ seen' = IF CopyAt("start") THEN seen ELSE seen \cup {host'.files}
    /\ UNCHANGED <<copying, destination>>

CopyNext ==
    \/ BeginCopy \/ ListSource \/ NextEntry \/ CopyFirst \/ CopyRest
    \/ CheckEntry \/ CheckRoot \/ RemoveOld \/ RenameStaged \/ HostChanges

(* Whoever changes the directory while it is copied: a copy that succeeds  *)
(* holds the names the directory held at one moment of the copy, and of    *)
(* each file a whole version that was there in that time (of two files not *)
(* the versions of one moment); one that fails leaves the old directory.   *)
CopyIsWhole ==
    /\ CopyAt("done") =>
        /\ \E files \in seen : There(files) = DOMAIN destination
        /\ \A n \in DOMAIN destination : \E files \in seen :
               destination[n] = <<files[n], files[n]>>
    /\ ~CopyAt("done") /\ ~CopyAt("rename") => destination = "old"
=============================================================================
