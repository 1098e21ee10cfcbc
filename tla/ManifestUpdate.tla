--------------------------- MODULE ManifestUpdate ---------------------------
(***************************************************************************)
(* What an update of a running session's manifest writes into a workspace  *)
(* of the local sandbox, and what is left when it fails (sandbox/mod.rs).  *)
(*                                                                         *)
(* A manifest maps relative paths to entries.  A workspace maps paths to   *)
(* what is there: a directory, or a file by its content, which is "part"   *)
(* when its writing failed.  A path is the sequence of its parts.          *)
(***************************************************************************)
EXTENDS Naturals, Sequences, FiniteSets, FiniteSetsExt, SequencesExt, TLC

FileOf(content) == [kind |-> "file", content |-> content]
DirOf(entries) == [kind |-> "dir", entries |-> entries]
LocalOf(source) == [kind |-> "local", source |-> source]
NoEntries == [p \in {} |-> FileOf("")]

Directory == "directory"
NoFiles == [p \in {} |-> Directory]

Under(path, p) == Len(path) <= Len(p) /\ SubSeq(p, 1, Len(path)) = path
WayTo(path) == {SubSeq(path, 1, n) : n \in 1..Len(path)}
Outside(files, path) == Restrict(files, {p \in DOMAIN files : ~Under(path, p)})
Planted(path, files) ==
    [p \in {path \o q : q \in DOMAIN files} |-> files[SubSeq(p, Len(path) + 1, Len(p))]]

(* The directories that may be copied, and what is in them: one file.      *)
HostSources == {"s", "t"}   \* external
HostTree(source) == (<<>> :> Directory) @@ (<<source>> :> source)

-----------------------------------------------------------------------------
(* A call of the file system.  The one after "left" of them fails, and     *)
(* what it leaves is, if it is "torn", half of what it was to do.          *)

MaxCalls == 40   \* bound: more than there are in an update
NoFault == [left |-> MaxCalls, torn |-> FALSE]
Working(files, fault) ==
    [files |-> files, ok |-> TRUE, left |-> fault.left, torn |-> fault.torn]
Broken(s) == [s EXCEPT !.ok = FALSE]
FsCall(s, after, half) ==
    CASE ~s.ok -> s
      [] s.ok /\ s.left = 0 -> [Broken(s) EXCEPT !.files = IF s.torn THEN half ELSE @]
      [] OTHER -> [s EXCEPT !.files = after, !.left = @ - 1]
FailIf(s, condition) == IF s.ok /\ condition THEN Broken(s) ELSE s

IsDirectory(s, path) == path \in DOMAIN s.files /\ s.files[path] = Directory
IsFile(s, path) == path \in DOMAIN s.files /\ s.files[path] # Directory

(* fs::create_dir_all, which takes what is a directory already.            *)
CreateDirs(s, path) ==
    LET conflict == \E p \in WayTo(path) : IsFile(s, p)
    IN FsCall(FailIf(s, conflict), [p \in WayTo(path) |-> Directory] @@ s.files, s.files)

WriteFile(s, path, content) ==
    LET below == CreateDirs(s, Front(path))
        open == FailIf(below, IsDirectory(below, path))
    IN FsCall(open, (path :> content) @@ open.files, (path :> "part") @@ open.files)

(* copy_local_dir: the copy is staged beside its place; the stage is       *)
(* removed when the copy fails, and left when the replacement does.        *)
CopyLocalDir(s, source, path) ==
    LET stage == Append(Front(path), "stage")
        sourced == FailIf(s, source \notin HostSources)
        below == CreateDirs(sourced, Front(path))
        staged == FsCall(below, Planted(stage, HostTree(source)) @@ below.files, below.files)
        found == FailIf(staged, IsFile(staged, path))
        gone == Outside(found.files, path)
        cleared == IF IsDirectory(found, path)
                   THEN FsCall(found, gone, (path :> Directory) @@ gone)
                   ELSE found
    IN FsCall(cleared,
              Planted(path, HostTree(source)) @@ Outside(cleared.files, stage),
              cleared.files)

(* The order of the keys of a BTreeMap.                                    *)
PartOrder == <<"d", "e", "x">>
Before(p, q) ==
    \E n \in 0..Min({Len(p), Len(q)}) :
        /\ SubSeq(p, 1, n) = SubSeq(q, 1, n)
        /\ \/ n = Len(p) /\ n < Len(q)
           \/ /\ n < Len(p) /\ n < Len(q)
              /\ \E i, j \in DOMAIN PartOrder :
                     i < j /\ p[n + 1] = PartOrder[i] /\ q[n + 1] = PartOrder[j]
InOrder(entries) == SetToSortSeq(DOMAIN entries, Before)

(* materialize_entry.                                                      *)
RECURSIVE MaterializeEntry(_, _, _)
MaterializeEntry(s, path, entry) ==
    CASE entry.kind = "file" -> WriteFile(s, path, entry.content)
      [] entry.kind = "local" -> CopyLocalDir(s, entry.source, path)
      [] entry.kind = "dir" ->
             FoldLeft(LAMBDA t, child : MaterializeEntry(t, path \o child, entry.entries[child]),
                      CreateDirs(s, path), InOrder(entry.entries))

(* materialize_manifest, and the loop of apply_live_manifest_update: the   *)
(* first entry that fails ends it.                                         *)
Materialize(s, entries) ==
    FoldLeft(LAMBDA t, path : MaterializeEntry(t, path, entries[path]), s, InOrder(entries))

-----------------------------------------------------------------------------

(* diff_live_session_entries and diff_live_session_entry: what is to be    *)
(* written, or that the update is refused.                                 *)
RefusedUpdate == [path \in {<<"refused">>} |-> FileOf("")]
RECURSIVE Delta(_, _)
Delta(current, processed) ==
    LET below(p) == Delta(current[p].entries, processed[p].entries)
        shared == DOMAIN current \cap DOMAIN processed
        added == DOMAIN processed \ DOMAIN current
        changed == {p \in shared : current[p] # processed[p]}
        dirs == {p \in changed : current[p].kind = "dir" /\ processed[p].kind = "dir"}
        applied == added \cup (changed \ {p \in dirs : below(p) = NoEntries})
    IN IF \/ ~(DOMAIN current \subseteq DOMAIN processed)
          \/ \E p \in changed : current[p].kind # processed[p].kind
          \/ \E p \in dirs : below(p) = RefusedUpdate
       THEN RefusedUpdate
       ELSE [p \in applied |-> IF p \in dirs THEN DirOf(below(p)) ELSE processed[p]]

(* apply_live_manifest_update, with validate_running_live_session_manifest_update: *)
(* the manifest and the workspace afterwards, and whether it succeeded.    *)
(* The last call is refresh_snapshot_state, after the manifest was set.    *)
ApplyUpdate(workspace, current, processed, fault) ==
    LET delta == Delta(current.entries, processed.entries)
        written == Materialize(Working(workspace, fault), delta)
    IN CASE processed = current ->
                [manifest |-> current, workspace |-> workspace, ok |-> TRUE]
         [] processed.root # current.root \/ delta = RefusedUpdate ->
                [manifest |-> current, workspace |-> workspace, ok |-> FALSE]
         [] OTHER ->
                [manifest |-> IF written.ok THEN processed ELSE current,
                 workspace |-> written.files,
                 ok |-> written.ok /\ written.left > 0]

-----------------------------------------------------------------------------
(* Inputs.                                                                 *)

MapsOver(keys, values) == UNION {[S -> values] : S \in SUBSET keys}
Manifests ==
    LET files == {FileOf("1"), FileOf("2")}
        leaves == files \cup {LocalOf("s"), LocalOf("t"), LocalOf("missing")}
        dirs == {DirOf(inner) : inner \in
                    MapsOver({<<"x">>}, files \cup {LocalOf("s"), DirOf(NoEntries)})}
    IN {[root |-> root, entries |-> top @@ other @@ inside] :
           root \in {"r", "q"}, top \in MapsOver({<<"d">>}, leaves \cup dirs),
           other \in MapsOver({<<"e">>}, {FileOf("1")}),
           inside \in MapsOver({<<"d", "x">>}, files)}
(* No file of a manifest, or of a workspace, has another one in it.        *)
IsPossible(entries) ==
    \A p, q \in DOMAIN entries : p # q /\ Under(p, q) => entries[p].kind # "file"
IsTree(files) ==
    \A p \in DOMAIN files : \A q \in WayTo(p) \ {p} :
        q \in DOMAIN files /\ files[q] = Directory

(* What somebody else has put into the workspace.                          *)
WrittenFiles ==
    {NoFiles, <<"e">> :> "mine", <<"e">> :> Directory, <<"d">> :> "mine",
     (<<"d">> :> Directory) @@ (<<"d", "w">> :> "mine")}
Faults == {NoFault} \cup [left : 0..9, torn : BOOLEAN]

(* After an update that was taken, a workspace that was as its manifest    *)
(* said is as the new manifest says, as if it had been made from it; the   *)
(* exception is an entry of the manifest that lies inside another one: when *)
(* that one is written anew this one is not written again.  An update that *)
(* was refused has changed nothing.  One that failed half way leaves the   *)
(* old manifest with entries of the new one: these, and directories they   *)
(* were staged in or are below, are all that it has touched.  Either way   *)
(* what somebody else has written stays, but in the entries that the       *)
(* update changes.  And an update that failed can be made again: it then   *)
(* comes to where it would have come at once, whatever it had left, but    *)
(* for the stages.                                                         *)
UpdatesAreWhole(current, processed, written, start, result) ==
    LET workspace == result.workspace
        Settled(files) == Restrict(files, {p \in DOMAIN files : "stage" \notin ToSet(p)})
        after == Materialize(Working(NoFiles, NoFault), processed.entries).files
        unchanged == {p \in DOMAIN current.entries \cap DOMAIN processed.entries :
                          current.entries[p] = processed.entries[p]}
        rewritten == DOMAIN processed.entries \ unchanged
        nested == \E p \in rewritten, q \in DOMAIN processed.entries :
                      p # q /\ Under(p, q)
        same == {p \in DOMAIN written : \A q \in rewritten :
                    Under(q, p) => p # q /\ processed.entries[q].kind # "local"}
        retypes == \E p \in DOMAIN current.entries :
                       \/ p \notin DOMAIN processed.entries
                       \/ processed.entries[p].kind # current.entries[p].kind
        clean == ApplyUpdate(start, current, processed, NoFault)
        again == ApplyUpdate(workspace, result.manifest, processed, NoFault)
    IN /\ \A p \in same : p \in DOMAIN workspace /\ workspace[p] = written[p]
       /\ result.manifest = processed =>
              \/ nested
              \/ \A p \in DOMAIN after \ same :
                     p \in DOMAIN workspace /\ workspace[p] = after[p]
       /\ processed.root # current.root \/ retypes =>
              result.manifest = current /\ workspace = start
       /\ result.manifest # processed =>
              /\ result.manifest = current /\ ~result.ok
              /\ \A p \in DOMAIN start : (\A q \in rewritten : ~Under(q, p)) =>
                     p \in DOMAIN workspace /\ workspace[p] = start[p]
              /\ \A p \in DOMAIN Settled(workspace) \ DOMAIN start :
                     \E q \in rewritten : Under(q, p) \/ Under(p, q)
       /\ again.manifest = clean.manifest
       /\ Settled(again.workspace) = Settled(clean.workspace)
=============================================================================
