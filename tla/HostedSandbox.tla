--------------------------- MODULE HostedSandbox ---------------------------
(***************************************************************************)
(* The clients of hosted sandbox providers (agents-extensions,             *)
(* sandbox/__init__.rs): how a session is made and resumed, and how a      *)
(* mount of a bucket becomes the provider's own description of it.  The    *)
(* providers themselves are not reached by this code.                      *)
(*                                                                         *)
(* Texts that the code only hands on are left out: a credential is given   *)
(* or not, a workspace root is the provider's own or another one.          *)
(***************************************************************************)
EXTENDS Naturals, FiniteSets

CONSTANT MaxHosted   \* bound: sessions made and resumed

ASSUME HostedAssumption == MaxHosted \in Nat

VARIABLES
    offer,  \* HostedProviderSpec of the provider, and whether its
               \* environment variable is set
    nextId,    \* NEXT_HOSTED_SESSION_ID
    hosted,    \* the sessions, and the start of the process each id is of
    restarts   \* history: how often the process was started again

hostedVars == <<offer, nextId, hosted, restarts>>

Roots == {"own", "other"}
Specs == [strict : BOOLEAN, pty : BOOLEAN, env : BOOLEAN]
HostedOptions ==
    [root : Roots \cup {"default"}, auth : BOOLEAN, ports : BOOLEAN, pty : BOOLEAN]
HostedStates == [id : 1..MaxHosted, root : Roots, ports : BOOLEAN, pty : BOOLEAN,
                 preserved : BOOLEAN]
HostedSessions == [state : HostedStates, start : 0..MaxHosted,
                   source : {"explicit", "env"}]

-----------------------------------------------------------------------------
(* Mounts.                                                                 *)

Strategies == {"e2b", "daytona", "runloop", "modal", "blaxel", "cloudflare"}
Secrets == {"none", "empty", "set"}

(* "key" and "secret" are the access key and its secret (access_id of a    *)
(* GCS mount), "token" the session token of S3, "account" and "access" the *)
(* native credentials of GCS; "name" and "place" are the secret_name and   *)
(* the secret_environment_name of Modal's strategy.                        *)
Given == {"key", "secret", "token", "account", "access"}
GivenTo(bucket) == CASE bucket = "s3" -> {"key", "secret", "token"}
                     [] bucket = "r2" -> {"key", "secret"}
                     [] bucket = "gcs" -> Given \ {"token"}
BucketParts == {"none", "slashes", "some"}
Mounts ==
    {m \in [bucket : {"s3", "r2", "gcs"}, strategy : Strategies,
            given : SUBSET Given, endpoint : {"none", "given"},
            prefix : BucketParts, name : Secrets, place : Secrets] :
        /\ m.given \subseteq GivenTo(m.bucket)
        /\ m.bucket = "r2" => m.prefix = "none"
        /\ m.strategy # "modal" => m.name = "none" /\ m.place = "none"}
Rclone == {"e2b", "daytona", "runloop"}

Pair(m) == {"key", "secret"} \subseteq m.given
Native(m) == m.given \cap {"account", "access"}

(* validate_access_key_pair, and what S3 says of a session token.          *)
PairIsWhole(m) ==
    /\ "key" \in m.given <=> "secret" \in m.given
    /\ "token" \in m.given => Pair(m)

(* validate_modal_secret_fields, and then the credentials.                 *)
ModalTakes(m) ==
    /\ m.name # "empty" /\ m.place # "empty"
    /\ m.place = "set" => m.name = "set"
    /\ m.name = "set" => m.given = {}
    /\ m.bucket = "gcs" => (Pair(m) \/ m.name = "set") /\ Native(m) = {}

RcloneTakes(m) == m.bucket = "gcs" => ~(Pair(m) /\ Native(m) # {})

BlaxelTakes(m) ==
    m.bucket = "gcs" => ~(Pair(m) /\ "account" \in m.given)
                        /\ "access" \notin m.given

CloudflareTakes(m) ==
    /\ m.bucket = "s3" => "token" \notin m.given
    /\ m.bucket = "gcs" => Pair(m) /\ Native(m) = {}

(* Mutant: Blaxel is given the service account beside a pair of keys.      *)
TakesBlaxelAsRclone(m) ==
    /\ PairIsWhole(m)
    /\ CASE m.strategy = "modal" -> ModalTakes(m)
         [] m.strategy \in Rclone -> RcloneTakes(m)
         [] m.strategy = "blaxel" -> m.bucket = "gcs" => "access" \notin m.given
         [] m.strategy = "cloudflare" -> CloudflareTakes(m)

Takes(m) ==
    /\ PairIsWhole(m)
    /\ CASE m.strategy = "modal" -> ModalTakes(m)
         [] m.strategy \in Rclone -> RcloneTakes(m)
         [] m.strategy = "blaxel" -> BlaxelTakes(m)
         [] m.strategy = "cloudflare" -> CloudflareTakes(m)

(* build_access_key_credentials: both or none.                             *)
Credentials(m) == IF Pair(m) THEN {"key", "secret"} ELSE {}

(* The credentials of the payload: a field that a payload does not have is *)
(* not passed on.                                                          *)
Passed(m) ==
    CASE m.strategy = "modal" -> m.given \cap {"key", "secret", "token"}
      [] m.strategy \in Rclone ->
             Credentials(m) \cup (m.given \cap {"token", "account", "access"})
      [] m.strategy = "blaxel" ->
             (m.given \cap {"key", "secret", "token"})
                 \cup (IF Pair(m) THEN {} ELSE m.given \cap {"account"})
      [] m.strategy = "cloudflare" -> Credentials(m)

(* Blaxel mounts a GCS bucket with HMAC keys as one of S3.                 *)
MountedAs(m) ==
    IF m.strategy = "blaxel" /\ m.bucket = "gcs" /\ Pair(m) THEN "s3" ELSE m.bucket

(* What of the bucket is mounted: join_remote_path and                     *)
(* normalize_cloudflare_prefix trim the slashes, the others hand the       *)
(* prefix on.                                                              *)
PartOf(m) ==
    IF m.prefix = "none" THEN "all"
    ELSE IF m.strategy \in Rclone \cup {"cloudflare"}
         THEN (IF m.prefix = "slashes" THEN "all" ELSE "part")
    ELSE m.prefix

(* The endpoint: given, or the provider's own when there is one to tell.   *)
EndpointOf(m) ==
    IF m.strategy = "blaxel" /\ m.bucket = "gcs" /\ ~Pair(m) THEN "none"
    ELSE IF m.endpoint = "given" THEN "given"
    ELSE IF m.bucket # "s3" \/ m.strategy = "cloudflare" THEN "own"
    ELSE "none"

Refused == [as |-> "none", with |-> {}, part |-> "all", endpoint |-> "none",
            secret |-> FALSE]

(* HostedMountEntry::resolve_provider_payload.                             *)
Resolved(m) ==
    IF ~Takes(m) THEN Refused
    ELSE [as |-> MountedAs(m), with |-> Passed(m), part |-> PartOf(m),
          endpoint |-> EndpointOf(m), secret |-> m.name = "set"]

-----------------------------------------------------------------------------
(* Sessions.                                                               *)

HostedInit ==
    /\ offer \in Specs
    /\ nextId = 1
    /\ hosted = {} /\ restarts = 0

(* resolve_auth: what the caller gives, and then the environment.          *)
Authorized(auth) == auth \/ offer.env
SourceOf(auth) == IF auth THEN "explicit" ELSE "env"
(* validate_capabilities; every provider exposes ports.                    *)
Capable(pty) == pty => offer.pty
(* normalize_workspace_root.                                               *)
Normalized(root) == IF root = "default" THEN "own" ELSE root
RootIsTaken(root) == offer.strict => Normalized(root) = "own"

CreateHosted ==
    /\ Cardinality(hosted) < MaxHosted
    /\ \E o \in HostedOptions :
        /\ Authorized(o.auth) /\ Capable(o.pty) /\ RootIsTaken(o.root)
        /\ hosted' = hosted \cup
               {[state |-> [id |-> nextId, root |-> Normalized(o.root),
                            ports |-> o.ports, pty |-> o.pty, preserved |-> FALSE],
                 start |-> restarts, source |-> SourceOf(o.auth)]}
    /\ nextId' = nextId + 1
    /\ UNCHANGED <<offer, restarts>>

(* The state of a session, serialised and read back, by any client of the  *)
(* provider: the client's own options count for the credentials only.      *)
ResumeHosted ==
    /\ Cardinality(hosted) < MaxHosted
    /\ \E h \in hosted, auth \in BOOLEAN :
        /\ Authorized(auth) /\ Capable(h.state.pty) /\ RootIsTaken(h.state.root)
        /\ hosted' = hosted \cup
               {[state |-> [h.state EXCEPT !.root = Normalized(@), !.preserved = TRUE],
                 start |-> h.start, source |-> SourceOf(auth)]}
    /\ UNCHANGED <<offer, nextId, restarts>>

(* The process is started again: the counter begins anew, and the          *)
(* environment may be another one.                                         *)
RestartProcess ==
    /\ restarts < MaxHosted
    /\ restarts' = restarts + 1
    /\ nextId' = 1
    /\ \E env \in BOOLEAN : offer' = [offer EXCEPT !.env = env]
    /\ UNCHANGED hosted

HostedNext == CreateHosted \/ ResumeHosted \/ RestartProcess

HostedSpec == HostedInit /\ [][HostedNext]_hostedVars

-----------------------------------------------------------------------------
(* Properties.                                                             *)

(* The ways in which a mount could be authenticated.                       *)
Ways(given, secret) ==
    (IF {"key", "secret"} \cap given # {} THEN {"keys"} ELSE {})
        \cup (IF {"account", "access"} \cap given # {} THEN {"native"} ELSE {})
        \cup (IF secret THEN {"secret"} ELSE {})

(* Whatever the bucket and the provider: a mount is either refused or gets *)
(* every credential it was given and no other, in at most one way; half a  *)
(* pair of keys never gets through; and a prefix that names a part of the  *)
(* bucket is never widened to all of it.  (Blaxel mounts a GCS bucket with *)
(* native credentials at the provider's endpoint, whatever was given.)     *)
MountCarriesWhatWasGiven(mount, payload) ==
    payload # Refused =>
        /\ payload.with = mount.given
        /\ Cardinality(Ways(payload.with, payload.secret)) <= 1
        /\ payload.secret <=> mount.name = "set"
        /\ "key" \in payload.with <=> "secret" \in payload.with
        /\ mount.prefix = "some" => payload.part # "all"
        /\ mount.endpoint = "given" /\ payload.endpoint # "given"
               => mount.strategy = "blaxel" /\ payload.as = "gcs"

(* A session and the ones resumed from it agree on everything a session    *)
(* has, and no other session that was made since the same start of the     *)
(* process has its id.                                                     *)
HostedSessionsAreTheirOwn ==
    /\ hosted \subseteq HostedSessions
    /\ \A g, h \in hosted :
        g.state.id = h.state.id /\ g.start = h.start =>
            [g.state EXCEPT !.preserved = TRUE] = [h.state EXCEPT !.preserved = TRUE]
=============================================================================
