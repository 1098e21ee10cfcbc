--------------------------- MODULE SandboxAgents ---------------------------
(***************************************************************************)
(* Which sandbox session an agent works in, over the handoffs of a run and *)
(* over its interruptions: the identity graph of sandbox/mod.rs, and what  *)
(* run.rs does with it when a run starts, hands off, is interrupted and is *)
(* resumed.                                                                *)
(*                                                                         *)
(* A name is a sequence and the key of its n-th agent is Append(name, n),  *)
(* so that an agent may be called what another one's key is.  A session is *)
(* the number of its workspace: what becomes of the files is the subject   *)
(* of SandboxSession.                                                      *)
(***************************************************************************)
EXTENDS Naturals, Sequences, FiniteSets, FiniteSetsExt, SequencesExt, TLC

CONSTANT MaxRounds   \* bound: runs of one conversation

ASSUME AgentsAssumption == MaxRounds \in Nat

VARIABLES
    team,          \* the tree the caller builds, anew for each call
    active,        \* current_agent of the run, or of the last one
    identities,    \* SandboxIdentityMap
    runtimes,      \* sandbox_runtimes_by_key
    resumed,       \* sandbox_resume_state of the run's configuration
    suspended,     \* the RunState of the last interruption
    opened,        \* how many workspaces were made
    rounds,        \* history: runs so far; 0 before the first
    running,       \* history: whether a run is going on
    mixed          \* history: a state was resumed whose agent is not the one
                   \* whose session is its current one

agentVars == <<team, active, identities, runtimes, resumed, suspended, opened,
               rounds, running, mixed>>

NoKey == <<>>
NoRuntime == [session |-> 0, words |-> <<>>, of |-> <<>>]
NoSandbox == [key |-> NoKey, sessions |-> [k \in {} |-> NoRuntime]]

(* An agent, with the place in the tree as history: the instructions it    *)
(* has, and the tools of the sandbox with the session they work in and     *)
(* whether they ask for an approval.                                       *)
AgentNode(name, own, sandboxed, handoffs) ==
    [name |-> name, words |-> <<own>>, sandboxed |-> sandboxed, key |-> NoKey,
     runtime |-> NoRuntime, handoffs |-> handoffs, own |-> own,
     tools |-> IF own = 2 THEN "shell" :> [session |-> 0, asks |-> TRUE]
               ELSE [c \in {} |-> [session |-> 0, asks |-> TRUE]]]
Targets(agent) == [i \in DOMAIN agent.handoffs |-> agent.handoffs[i].name]

(* sandbox_agent_signature and sandbox_reachability_signature.             *)
IsSandboxed(agent) == agent.sandboxed
UserWords(agent) == IF agent.runtime # NoRuntime THEN agent.runtime.words ELSE agent.words
Signature(agent) == <<agent.name, UserWords(agent), Targets(agent)>>
Reachability(agent) ==
    <<agent.name, agent.words, Targets(agent),
      IF IsSandboxed(agent) THEN Signature(agent) ELSE <<>> >>

(* Mutant: whether the key is taken is not looked at.                      *)
NumberedKey(name, count, literal, used) == IF count = 1 THEN name ELSE Append(name, count)

(* next_sandbox_identity_key: after an agent's name was counted.           *)
NextKey(name, count, literal, used) ==
    IF count = 1 /\ name \notin used THEN name
    ELSE LET taken == used \cup literal
             free == {n \in count..(count + Cardinality(taken)) :
                         Append(name, n) \notin taken}
         IN Append(name, Min(free))

CountOf(counts, name) == IF name \in DOMAIN counts THEN counts[name] ELSE 0

(* annotate_sandbox_identity_graph: the agent, with its keys, and what is  *)
(* known of all of them.  "path" has the agents above.                     *)
RECURSIVE Annotate(_, _, _, _)
Annotate(agent, path, literal, known) ==
    LET reach == Reachability(agent)
        above == {i \in DOMAIN path : path[i].reach = reach /\ path[i].key # NoKey}
        count == CountOf(known.counts, agent.name) + 1
        key == IF agent.key # NoKey \/ ~IsSandboxed(agent) THEN agent.key
               ELSE NextKey(agent.name, count, literal, known.used)
        below == Append(path, [reach |-> reach, key |-> key])
        noted == IF ~IsSandboxed(agent) THEN known
                 ELSE [known EXCEPT !.used = @ \cup {key},
                                    !.counts = (agent.name :> count) @@ @]
        Visit(so, handoff) ==
            LET seen == Annotate(handoff, below, literal, so)
            IN [seen EXCEPT !.agent = Append(so.agent, seen.agent)]
        all == FoldLeft(Visit, [noted EXCEPT !.agent = <<>>], agent.handoffs)
        result == [agent EXCEPT !.key = key, !.handoffs = all.agent]
    IN IF Len(path) >= 2 /\ above # {}
       THEN [known EXCEPT !.agent = [agent EXCEPT !.key = path[Max(above)].key]]
       ELSE [all EXCEPT !.agent = result,
                        !.byKey = IF key = NoKey THEN @ ELSE (key :> result) @@ @]

(* build_sandbox_identity_map.  Of the keys with one signature the last    *)
(* one, in the order of the keys, is found.                                *)
Identified(root) ==
    LET literal == {root.name} \cup ToSet(Targets(root))
    IN Annotate(root, <<>>, literal,
                [used |-> {}, counts |-> [n \in {} |-> 0],
                 byKey |-> [k \in {} |-> root], agent |-> root])
KeysOf(byKey, agent) ==
    {k \in DOMAIN byKey : byKey[k].name = agent.name
                          /\ Signature(byKey[k]) = Signature(agent)}
LastKey(keys) ==
    CHOOSE k \in keys : \A l \in keys \ {k} :
        Len(l) < Len(k) \/ (Len(l) = Len(k) /\ Last(l) < Last(k))

(* sandbox_identity_key_for_agent.                                         *)
KeyOf(byKey, agent) ==
    IF agent.key \in DOMAIN byKey THEN agent.key
    ELSE IF IsSandboxed(agent) /\ KeysOf(byKey, agent) # {}
         THEN LastKey(KeysOf(byKey, agent))
    ELSE NoKey

-----------------------------------------------------------------------------
(* Preparing an agent.                                                     *)

Capabilities == {"filesystem", "shell", "apply_patch"}

(* default_function_tools, and what apply_sandbox_tool_overrides keeps of  *)
(* the tools the agent came with.                                          *)
SandboxTools(agent, session) ==
    [c \in Capabilities |->
        [session |-> session,
         asks |-> c \in DOMAIN agent.tools /\ agent.tools[c].asks]]

(* prepare_agent_for_sandbox, with the runtime of the run and the entry of *)
(* the resumed state, if there are any; "fresh" is the session it makes    *)
(* with neither.  The words of an entry go before the agent's own.         *)
Prepare(agent, existing, entry, fresh) ==
    LET session == CASE existing # NoRuntime -> existing.session
                     [] existing = NoRuntime /\ entry # NoRuntime -> entry.session
                     [] OTHER -> fresh
        words == IF entry # NoRuntime THEN entry.words ELSE agent.words
    IN IF ~IsSandboxed(agent) \/ (existing = NoRuntime /\ agent.runtime # NoRuntime)
       THEN agent
       ELSE [agent EXCEPT
                !.words = Append(words, "workspace"),
                !.tools = SandboxTools(agent, session),
                !.runtime = [session |-> session, words |-> words, of |-> agent.own]]

(* restore_agent_from_run_state.                                           *)
Restored(agent, entry) ==
    Prepare([agent EXCEPT !.runtime = NoRuntime], NoRuntime, entry, 0)

EntryFor(sandbox, key) ==
    IF key \in DOMAIN sandbox.sessions THEN sandbox.sessions[key] ELSE NoRuntime

(* prepare_agent_runtime_for_run, where an agent takes the turn.           *)
TakeTurn(agent, byKey, before, from) ==
    LET key == KeyOf(byKey, agent)
        existing == IF key \in DOMAIN before THEN before[key] ELSE NoRuntime
        prepared == Prepare(agent, existing, EntryFor(from, key), opened + 1)
    IN IF key = NoKey
       THEN active' = agent /\ runtimes' = before /\ UNCHANGED opened
       ELSE /\ active' = prepared
            /\ runtimes' = IF prepared.runtime = NoRuntime THEN before
                           ELSE (key :> prepared.runtime) @@ before
            /\ opened' = Max({opened, prepared.runtime.session})

(* run_items_internal, as far as sandboxes are concerned.                  *)
Run(agent, from) ==
    LET known == Identified(agent)
    IN /\ identities' = known.byKey
       /\ TakeTurn(known.agent, known.byKey, [k \in {} |-> NoRuntime], from)
       /\ resumed' = from
       /\ rounds' = rounds + 1
       /\ running' = TRUE

-----------------------------------------------------------------------------
(* Teams: two agents under a root, with agents below them, some of one     *)
(* name, some of one signature, one called like another one's key; and two *)
(* that hand back to where they came from.                                 *)

Specialists ==
    {AgentNode(<<"a">>, own, TRUE, <<>>) : own \in {1, 2}}
        \cup {AgentNode(<<"a", 2>>, 1, TRUE, <<>>), AgentNode(<<"b">>, 1, FALSE, <<>>)}
Leads ==
    Specialists \cup
    {AgentNode(name, 1, name = <<"a">>, <<s>>) : name \in {<<"a">>, <<"b">>}, s \in Specialists}
Teams ==
    {AgentNode(name, 1, TRUE, leads) : name \in {<<"a">>, <<"c">>}, leads \in TupleOf(Leads, 2)}
        \cup {LET end == AgentNode(<<"a">>, 1, TRUE, <<>>)
                  back == AgentNode(<<"c">>, 1, TRUE, <<end>>)
              IN AgentNode(<<"c">>, 1, TRUE, <<AgentNode(<<"a">>, 1, there, <<back>>)>>) :
              there \in BOOLEAN}

-----------------------------------------------------------------------------

NoState == [agent |-> <<>>, sandbox |-> NoSandbox]

AgentsInit ==
    /\ team \in Teams
    /\ active = team
    /\ identities = [k \in {} |-> team]
    /\ runtimes = NoSandbox.sessions /\ resumed = NoSandbox /\ suspended = NoState
    /\ opened = 0 /\ rounds = 0 /\ running = FALSE /\ mixed = FALSE

StartRun ==
    /\ rounds = 0
    /\ Run(team, NoSandbox)
    /\ UNCHANGED <<team, suspended, mixed>>

HandOffTo(i) ==
    /\ running
    /\ i \in DOMAIN active.handoffs
    /\ TakeTurn(active.handoffs[i], identities, runtimes, resumed)
    /\ UNCHANGED <<team, identities, resumed, suspended, rounds, running, mixed>>

(* snapshot_sandbox_run_state, and merge_run_states with the state that    *)
(* was resumed: its agent stays, its sandbox unless the run has its own.   *)
(* An agent without a key leaves no sandbox.                               *)
Suspend ==
    /\ running
    /\ running' = FALSE
    /\ LET key == KeyOf(identities, active)
           own == IF key = NoKey \/ runtimes = NoSandbox.sessions THEN NoSandbox
                  ELSE [key |-> key, sessions |-> runtimes]
       IN suspended' = [agent |-> IF suspended = NoState THEN active ELSE suspended.agent,
                        sandbox |-> IF own = NoSandbox THEN suspended.sandbox ELSE own]
    /\ UNCHANGED <<team, active, identities, runtimes, resumed, opened, rounds, mixed>>

(* Runner::resume.                                                         *)
ResumeState(state) ==
    LET entry == EntryFor(state.sandbox, state.sandbox.key)
        agent == IF entry = NoRuntime THEN state.agent ELSE Restored(state.agent, entry)
    IN Run(agent, state.sandbox)

MayResume == ~running /\ rounds \in 1..(MaxRounds - 1)

Resume ==
    /\ MayResume
    /\ ResumeState(suspended)
    /\ mixed' = \/ mixed
                \/ /\ suspended.sandbox # NoSandbox
                   /\ KeyOf(identities, suspended.agent) # suspended.sandbox.key
    /\ UNCHANGED <<team, suspended>>

(* Runner::resume_with_agent, with the caller's tree.                      *)
ResumeWithAgent ==
    /\ MayResume
    /\ LET known == Identified(team)
           key == suspended.sandbox.key
           entry == EntryFor(suspended.sandbox, key)
           agent == IF key \in DOMAIN known.byKey THEN known.byKey[key] ELSE known.agent
           bound == IF entry = NoRuntime THEN agent ELSE Restored(agent, entry)
       IN /\ suspended' = [suspended EXCEPT !.agent = bound]
          /\ ResumeState(suspended')
          /\ mixed' = (mixed \/ (entry # NoRuntime /\ key \notin DOMAIN known.byKey))
    /\ UNCHANGED team

AgentsNext ==
    \/ StartRun
    \/ \E i \in 1..2 : HandOffTo(i)
    \/ Suspend
    \/ Resume
    \/ ResumeWithAgent

-----------------------------------------------------------------------------
(* Property.                                                               *)

(* Whatever the names of the agents, and however often a conversation is   *)
(* handed over, interrupted and resumed, with the agent of its state or    *)
(* with a team that was built anew: two identities never share a session,  *)
(* so that no session is used by an agent of another name or with other    *)
(* instructions; an agent whose session was in the state that was resumed  *)
(* goes on in that session; its instructions are composed once, and its    *)
(* tools work in its session and still ask for the approvals they asked    *)
(* for.  Excepted is a conversation that resume() went on with after a     *)
(* resumed run had handed off, when the state has the agent of the one and *)
(* the session of the other.                                               *)
AgentsKeepTheirSessions ==
    LET live == active.runtime # NoRuntime
    IN ~mixed =>
        /\ \A k, l \in DOMAIN runtimes :
               runtimes[k].session = runtimes[l].session => k = l
        /\ \A k \in DOMAIN runtimes \cap DOMAIN resumed.sessions :
               runtimes[k] = resumed.sessions[k]
        /\ \A k \in DOMAIN runtimes, l \in DOMAIN suspended.sandbox.sessions :
               runtimes[k].session = suspended.sandbox.sessions[l].session
                   => runtimes[k].of = suspended.sandbox.sessions[l].of
        /\ live =>
            /\ active.words = <<active.own, "workspace">>
            /\ \A c \in Capabilities : active.tools[c].session = active.runtime.session
            /\ active.own = 2 => active.tools["shell"].asks
=============================================================================
