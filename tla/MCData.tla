------------------------------- MODULE MCData -------------------------------
(***************************************************************************)
(* The conversions, for all the inputs of bounded size, with those that    *)
(* walk trees beside them: the updates of a manifest, the schemas, and     *)
(* the agents with their handoffs, whose sessions are a state machine.     *)
(***************************************************************************)
EXTENDS Conversions, SandboxAgents, ManifestUpdate, StrictSchemas

VARIABLES
    tree,      \* what is walked, or "none": one of the Conversions is made
    finished,  \* whether it was,
    walked,    \* the input
    became     \* what became of it
treeVars == <<tree, finished, walked, became, agentVars>>

DataInit ==
    /\ ConversionInit
    /\ tree \in {"none", "agents", "update", "schema"}
    /\ tree = "none" <=> subject # "tree"
    /\ finished = FALSE /\ walked = <<>> /\ became = <<>>
    /\ AgentsInit
    /\ tree # "agents" => team = CHOOSE t \in Teams : TRUE

(* A manifest that is changed while its session is live, with a call of    *)
(* the file system that fails or none.                                     *)
UpdateManifest ==
    /\ tree = "update"
    /\ \E current \in Manifests, written \in WrittenFiles :
        LET created == Materialize(Working(NoFiles, NoFault), current.entries)
            start == written @@ created.files
        IN /\ current.root = "r" /\ IsPossible(current.entries)
           /\ created.ok /\ IsTree(start)
           /\ \E processed \in Manifests, fault \in Faults :
                  /\ IsPossible(processed.entries)
                  /\ walked' = <<current, processed, written, start>>
                  /\ became' = ApplyUpdate(start, current, processed, fault)
                  /\ fault # NoFault => ~became'.ok

(* A JSON schema, made strict.                                            *)
MakeStrict ==
    /\ tree = "schema"
    /\ \E schema \in Schemas : walked' = schema /\ became' = EnsureStrict(schema)

DataNext ==
    \/ ConversionNext /\ UNCHANGED treeVars
    \/ /\ ~finished /\ finished' = TRUE /\ tree' = tree
       /\ UpdateManifest \/ MakeStrict
       /\ UNCHANGED <<conversionVars, agentVars>>
    \/ /\ tree = "agents" /\ AgentsNext
       /\ UNCHANGED <<conversionVars, tree, finished, walked, became>>
DataSpec == DataInit /\ [][DataNext]_<<conversionVars, treeVars>>

-----------------------------------------------------------------------------
(* What is below a node is treated as it would be on its own: an update of *)
(* a manifest is made as a whole, or refused, or fails half way and can be *)
(* made again; a schema is strict all the way down; and a sandbox session  *)
(* belongs to one agent of the tree through handoffs, interruptions and    *)
(* resumptions.                                                            *)
Trees ==
    /\ finished /\ tree = "update" =>
           UpdatesAreWhole(walked[1], walked[2], walked[3], walked[4], became)
    /\ finished /\ tree = "schema" => SchemaBecomesStrict(walked, became)
    /\ AgentsKeepTheirSessions
=============================================================================
