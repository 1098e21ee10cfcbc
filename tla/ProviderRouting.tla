-------------------------- MODULE ProviderRouting --------------------------
(***************************************************************************)
(* Which provider answers for a model name, under which name and how: the  *)
(* prefixes of a MultiProvider (agents-core, models/multi_provider.rs) and *)
(* the choices of an OpenAIProvider between its own fields and the process *)
(* wide defaults (agents-openai, provider.rs, models/_openai_shared.rs,    *)
(* defaults.rs, openai_agent_registration.rs).                             *)
(*                                                                         *)
(* A model name is the sequence of its parts between slashes; None is no   *)
(* name.  A part is never empty here: "openai/" and "/m" are left out.     *)
(***************************************************************************)
EXTENDS Naturals, Sequences, SequencesExt, Maps

None == <<>>
Parts == {"openai", "mapped", "other"}
Names == BoundedSeq(Parts, 3)

(* A provider of one backend, or a MultiProvider: the providers of its     *)
(* map, and its two modes.                                                 *)
Backend(id) == [id |-> id]
Multi(map, default, openai, unknown) ==
    [map |-> map, default |-> default, openai |-> openai, unknown |-> unknown]
IsMulti(provider) == "map" \in DOMAIN provider

NoRoute == [id |-> "unavailable"]

(* MultiProvider::resolve_provider_for_model: a provider and the name that *)
(* it is given, or NoRoute.                                                *)
Step(provider, name) ==
    LET prefix == Head(name)
        default(stripped) == <<provider.default, stripped>>
    IN IF Len(name) <= 1 THEN default(name)
       ELSE IF prefix \in DOMAIN provider.map THEN <<provider.map[prefix], Tail(name)>>
       ELSE IF prefix = "openai"
            THEN default(IF provider.openai = "alias" THEN Tail(name) ELSE name)
       ELSE IF provider.unknown = "model_id" THEN default(name)
       ELSE <<NoRoute, name>>

(* resolve and resolve_with_settings: down to the backend that makes the   *)
(* model; an UnavailableModel refuses every request.                       *)
Depth == 2   \* bound: MultiProviders inside one another
Resolve(provider, name) ==
    LET down[n \in 0..Depth] ==
            IF n = 0 THEN <<provider, name>>
            ELSE LET at == down[n - 1]
                 IN IF IsMulti(at[1]) THEN Step(at[1], at[2]) ELSE at
    IN down[Depth]

(* prepare_request: the request is given the name that is left, and a      *)
(* backend its harness id; with no route it stays as it was.               *)
PrepareRequest(provider, request, harness) ==
    LET to == Resolve(provider, request.model)
        own == IF harness = "none" \/ "harness" \in DOMAIN request.metadata
               THEN request.metadata
               ELSE One("harness", harness) ++ request.metadata
    IN IF to[1] = NoRoute THEN [request EXCEPT !.model = to[2]]
       ELSE [request EXCEPT !.model = to[2], !.metadata = own]

-----------------------------------------------------------------------------
(* An OpenAIProvider.  "none" is a field that was not set; the websocket   *)
(* flag is a Boolean, taken from the shared default when the provider is   *)
(* made and overwritten by with_use_responses_websocket.                   *)

OrElse(value, default) == IF value # "none" THEN value ELSE default

(* resolved_api: use_responses, api, the shared preference and the api of  *)
(* the defaults, which is always there.                                    *)
ResolvedApi(provider, shared) ==
    OrElse(provider.useResponses,
           OrElse(provider.api, OrElse(shared.useResponses, shared.api)))

ModelOf(provider, shared) ==
    IF ResolvedApi(provider, shared) = "chat" THEN "chat"
    ELSE IF provider.websocket THEN "websocket" ELSE "responses"

(* resolve_openai_agent_registration_config: the first that is not blank.  *)
NonBlank(id) == IF id = "blank" THEN "none" ELSE id
Registered(explicit, shared) ==
    OrElse(NonBlank(explicit),
           OrElse(NonBlank(shared.harness), NonBlank(shared.envHarness)))

(* OpenAIProvider::default, and then the with_... of what the caller gives. *)
MadeWith(fields, shared, websocket) ==
    [websocket |-> IF websocket = "none" THEN shared.websocket = "on"
                   ELSE websocket = "on",
     registration |-> IF fields.registration = "none" THEN "none"
                      ELSE Registered(fields.registration, shared)] ++ fields

(* effective_harness_id: what was resolved at the registration stays.      *)
HarnessId(provider, shared) ==
    OrElse(provider.registration, Registered("none", shared))

(* client_options and auth_headers: a request without a key is refused.    *)
ClientKey(provider, shared) == OrElse(provider.key, shared.key)

-----------------------------------------------------------------------------
(* Properties.                                                             *)

(* The name a request is prepared with is the name its model is made with, *)
(* at any depth; it is what is left of the requested name after prefixes;  *)
(* the parts that were taken off are prefixes that some provider on the    *)
(* way maps or the alias; and a prefix nobody knows is refused unless a    *)
(* provider takes it for a part of the name.                               *)
RequestGoesWhereItsModelIs(name, metadata, harness, prepared, made) ==
    LET taken == Len(name) - Len(made[2])
    IN /\ made[2] = SubSeq(name, taken + 1, Len(name))
       /\ made[1] # NoRoute => prepared.model = made[2]
       /\ made[1] = NoRoute => name[taken + 1] = "other"
       /\ name # None => made[2] # None
       /\ \A i \in 1..taken : name[i] \in {"openai", "mapped"}
       /\ \A k \in DOMAIN metadata : prepared.metadata[k] = metadata[k]
       /\ made[1] # NoRoute /\ harness # "none" => "harness" \in DOMAIN prepared.metadata

(* What a provider was given itself is never replaced by a shared default, *)
(* not even by one that is set later.                                      *)
OwnFieldsWin(fields, websocket, before, after) ==
    LET p == MadeWith(fields, before, websocket)
    IN /\ fields.useResponses # "none" => ResolvedApi(p, after) = fields.useResponses
       /\ fields.useResponses = "none" /\ fields.api # "none"
              => ResolvedApi(p, after) = fields.api
       /\ websocket # "none" /\ ResolvedApi(p, after) = "responses"
              => (ModelOf(p, after) = "websocket") <=> (websocket = "on")
       /\ p.registration # "none" => HarnessId(p, after) = p.registration
       /\ fields.registration = "own" => HarnessId(p, after) = "own"
       /\ HarnessId(p, after) # "blank"
       /\ fields.key # "none" => ClientKey(p, after) = fields.key
=============================================================================
