------------------------- MODULE ConversionsProofs -------------------------
(***************************************************************************)
(* Proofs about the Conversions, for inputs of any length where the        *)
(* conversion is a loop: what becomes of sandboxes, of tools and of        *)
(* requests.                                                               *)
(***************************************************************************)
EXTENDS Conversions, ListProofs

-----------------------------------------------------------------------------
(* Hosted sessions.                                                        *)

(* The counter is behind every session of this start of the process, and   *)
(* not more than one ahead of how many there are.                          *)
HostedInv ==
    /\ offer \in Specs
    /\ nextId \in Nat \ {0} /\ restarts \in 0..MaxHosted
    /\ IsFiniteSet(hosted) /\ Cardinality(hosted) <= MaxHosted
    /\ nextId <= Cardinality(hosted) + 1
    /\ \A h \in hosted :
           h.start <= restarts /\ (h.start = restarts => h.state.id < nextId)
    /\ HostedSessionsAreTheirOwn

LEMMA HostedStart == HostedInit => HostedInv
<1> SUFFICES ASSUME HostedInit PROVE HostedInv
  OBVIOUS
<1>1. IsFiniteSet({}) /\ Cardinality({}) = 0
  BY FS_EmptySet
<1>2. QED
  BY <1>1, HostedAssumption DEF HostedInit, HostedInv, HostedSessionsAreTheirOwn

(* A session more: a new one, or one that agrees with one that was there.  *)
LEMMA SessionMore ==
    ASSUME HostedInv, Cardinality(hosted) < MaxHosted, NEW new \in HostedSessions,
           hosted' = hosted \cup {new}, new.start <= restarts,
           offer' = offer, restarts' = restarts,
           \/ /\ new.start = restarts /\ new.state.id = nextId /\ nextId' = nextId + 1
           \/ /\ nextId' = nextId
              /\ \E h \in hosted :
                     /\ h.start = new.start
                     /\ [h.state EXCEPT !.preserved = TRUE]
                            = [new.state EXCEPT !.preserved = TRUE]
    PROVE  HostedInv'
<1>1. /\ IsFiniteSet(hosted') /\ Cardinality(hosted') \in Nat /\ Cardinality(hosted) \in Nat
      /\ Cardinality(hosted') = IF new \in hosted THEN Cardinality(hosted)
                                ELSE Cardinality(hosted) + 1
  BY FS_AddElement, FS_CardinalityType DEF HostedInv
<1>2. /\ hosted' \subseteq HostedSessions /\ Cardinality(hosted') <= MaxHosted
      /\ offer' \in Specs /\ restarts' \in 0..MaxHosted
  BY <1>1, HostedAssumption DEF HostedInv, HostedSessionsAreTheirOwn
<1>3. \A g, h \in hosted :
          g.state.id = h.state.id /\ g.start = h.start =>
              [g.state EXCEPT !.preserved = TRUE] = [h.state EXCEPT !.preserved = TRUE]
  BY DEF HostedInv, HostedSessionsAreTheirOwn
<1>4. \A h \in HostedSessions : h.state \in HostedStates /\ h.state.id \in Nat
  BY HostedAssumption DEF HostedSessions, HostedStates
<1>5. CASE new.start = restarts /\ new.state.id = nextId /\ nextId' = nextId + 1
  <2>1. \A h \in hosted : ~(h.state.id = new.state.id /\ h.start = new.start)
    BY <1>5 DEF HostedInv
  <2>2. new \notin hosted
    BY <2>1
  <2>3. /\ nextId' \in Nat \ {0} /\ nextId' <= Cardinality(hosted') + 1
        /\ \A h \in hosted' :
               h.start <= restarts' /\ (h.start = restarts' => h.state.id < nextId')
    <3>1. nextId \in Nat /\ nextId <= Cardinality(hosted) + 1
          /\ \A h \in hosted :
                 h.start <= restarts /\ (h.start = restarts => h.state.id < nextId)
      BY DEF HostedInv
    <3>2. \A h \in hosted : h.state.id \in Nat
      BY <1>4 DEF HostedInv, HostedSessionsAreTheirOwn
    <3>3. QED
      BY <1>1, <1>5, <2>2, <3>1, <3>2
  <2>4. HostedSessionsAreTheirOwn'
    BY <1>2, <1>3, <2>1, ZenonT(60) DEF HostedSessionsAreTheirOwn
  <2>5. QED
    BY <1>1, <1>2, <2>3, <2>4 DEF HostedInv
<1>6. CASE /\ nextId' = nextId
           /\ \E h \in hosted :
                  /\ h.start = new.start
                  /\ [h.state EXCEPT !.preserved = TRUE]
                         = [new.state EXCEPT !.preserved = TRUE]
  <2>1. PICK h \in hosted :
            /\ h.start = new.start
            /\ [h.state EXCEPT !.preserved = TRUE] = [new.state EXCEPT !.preserved = TRUE]
    BY <1>6
  <2>2. h \in HostedSessions
    BY DEF HostedInv, HostedSessionsAreTheirOwn
  <2>3. h.state.id = new.state.id
    BY <1>4, <2>1, <2>2 DEF HostedStates
  <2>4. /\ nextId' \in Nat \ {0} /\ nextId' <= Cardinality(hosted') + 1
        /\ \A g \in hosted' :
               g.start <= restarts' /\ (g.start = restarts' => g.state.id < nextId')
    BY <1>1, <1>6, <2>1, <2>3 DEF HostedInv
  <2>5. HostedSessionsAreTheirOwn'
    <3>1. \A g \in hosted : g.state.id = new.state.id /\ g.start = new.start =>
              [g.state EXCEPT !.preserved = TRUE] = [new.state EXCEPT !.preserved = TRUE]
      BY <1>3, <2>1, <2>3
    <3>2. QED
      BY <1>2, <1>3, <3>1, ZenonT(60) DEF HostedSessionsAreTheirOwn
  <2>6. QED
    BY <1>1, <1>2, <2>4, <2>5 DEF HostedInv
<1>7. QED
  BY <1>5, <1>6

LEMMA CreateHostedKeeps == HostedInv /\ CreateHosted => HostedInv'
<1> SUFFICES ASSUME HostedInv, CreateHosted PROVE HostedInv'
  OBVIOUS
<1>1. PICK o \in HostedOptions :
          hosted' = hosted \cup
               {[state |-> [id |-> nextId, root |-> Normalized(o.root),
                            ports |-> o.ports, pty |-> o.pty, preserved |-> FALSE],
                 start |-> restarts, source |-> SourceOf(o.auth)]}
  BY DEF CreateHosted
<1> DEFINE new == [state |-> [id |-> nextId, root |-> Normalized(o.root),
                              ports |-> o.ports, pty |-> o.pty, preserved |-> FALSE],
                   start |-> restarts, source |-> SourceOf(o.auth)]
<1>2. Cardinality(hosted) \in Nat /\ Cardinality(hosted) < MaxHosted /\ nextId \in 1..MaxHosted
  <2>1. Cardinality(hosted) \in Nat
    BY FS_CardinalityType DEF HostedInv
  <2>2. QED
    BY <2>1, HostedAssumption DEF HostedInv, CreateHosted
<1>3. Normalized(o.root) \in Roots /\ SourceOf(o.auth) \in {"explicit", "env"}
  BY DEF Normalized, SourceOf, HostedOptions, Roots
<1>4. new \in HostedSessions
  BY <1>2, <1>3 DEF HostedSessions, HostedStates, HostedInv, HostedOptions
<1>5. new.start = restarts /\ new.start <= restarts /\ new.state.id = nextId
  BY HostedAssumption DEF HostedInv
<1> HIDE DEF new
<1>6. QED
  BY <1>1, <1>2, <1>4, <1>5, SessionMore DEF CreateHosted, new

LEMMA ResumeHostedKeeps == HostedInv /\ ResumeHosted => HostedInv'
<1> SUFFICES ASSUME HostedInv, ResumeHosted PROVE HostedInv'
  OBVIOUS
<1>1. PICK h \in hosted, auth \in BOOLEAN :
          hosted' = hosted \cup
               {[state |-> [h.state EXCEPT !.root = Normalized(@), !.preserved = TRUE],
                 start |-> h.start, source |-> SourceOf(auth)]}
  BY DEF ResumeHosted
<1> DEFINE new == [state |-> [h.state EXCEPT !.root = Normalized(@), !.preserved = TRUE],
                   start |-> h.start, source |-> SourceOf(auth)]
<1>2. h \in HostedSessions /\ h.start <= restarts
  BY DEF HostedInv, HostedSessionsAreTheirOwn
<1>3. Normalized(h.state.root) = h.state.root
  BY <1>2 DEF Normalized, HostedSessions, HostedStates, Roots
<1>4. SourceOf(auth) \in {"explicit", "env"}
  BY DEF SourceOf
<1>5. new \in HostedSessions /\ new.start = h.start
      /\ [h.state EXCEPT !.preserved = TRUE] = [new.state EXCEPT !.preserved = TRUE]
  BY <1>2, <1>3, <1>4 DEF HostedSessions, HostedStates
<1> HIDE DEF new
<1>6. QED
  BY <1>1, <1>2, <1>5, SessionMore DEF ResumeHosted, new

LEMMA RestartKeeps == HostedInv /\ RestartProcess => HostedInv'
<1> SUFFICES ASSUME HostedInv, RestartProcess PROVE HostedInv'
  OBVIOUS
<1>1. Cardinality(hosted) \in Nat
  BY FS_CardinalityType DEF HostedInv
<1>2. offer' \in Specs
  BY DEF RestartProcess, HostedInv, Specs
<1>3. \A h \in hosted : h.start <= restarts' /\ h.start # restarts'
  <2>1. \A h \in hosted : h.start \in Nat
    BY HostedAssumption DEF HostedInv, HostedSessionsAreTheirOwn, HostedSessions
  <2>2. QED
    BY <2>1, HostedAssumption DEF RestartProcess, HostedInv
<1>4. QED
  BY <1>1, <1>2, <1>3, HostedAssumption
     DEF RestartProcess, HostedInv, HostedSessionsAreTheirOwn

(* Whatever clients create and resume, over any number of restarts.        *)
LEMMA HostedStepKeeps == HostedInv /\ HostedNext => HostedInv'
BY CreateHostedKeeps, ResumeHostedKeeps, RestartKeeps DEF HostedNext

-----------------------------------------------------------------------------
(* Mounts.                                                                 *)

(* What is passed on is what was given.                                    *)
LEMMA PassedIsGiven ==
    ASSUME NEW m \in Mounts, Takes(m)
    PROVE  Passed(m) = m.given
<1>1. /\ m.given \subseteq GivenTo(m.bucket) /\ m.bucket \in {"s3", "r2", "gcs"}
      /\ m.strategy \in Strategies
  BY DEF Mounts
<1>2. m.given \subseteq Given /\ ("token" \in m.given => m.bucket = "s3")
      /\ (Native(m) # {} => m.bucket = "gcs")
  BY <1>1 DEF GivenTo, Given, Native
<1>3. /\ "key" \in m.given <=> "secret" \in m.given
      /\ "token" \in m.given => Pair(m)
  BY DEF Takes, PairIsWhole
<1>4. CASE m.strategy = "modal"
  <2>1. ModalTakes(m)
    BY <1>4 DEF Takes, Rclone
  <2>2. Native(m) = {}
    BY <1>2, <2>1 DEF ModalTakes
  <2>3. Passed(m) = m.given \cap {"key", "secret", "token"}
    BY <1>4 DEF Passed, Rclone
  <2>4. QED
    BY <1>2, <2>2, <2>3 DEF Native, Given
<1>5. CASE m.strategy \in Rclone
  <2>1. Passed(m) = Credentials(m) \cup (m.given \cap {"token", "account", "access"})
    BY <1>5 DEF Passed, Rclone
  <2>2. QED
    BY <1>2, <1>3, <2>1 DEF Credentials, Pair, Given
<1>6. CASE m.strategy = "blaxel"
  <2>1. Takes(m) => BlaxelTakes(m)
    BY <1>6 DEF Takes, Rclone
  <2>2. Passed(m) = (m.given \cap {"key", "secret", "token"})
                 \cup (IF Pair(m) THEN {} ELSE m.given \cap {"account"})
    BY <1>6 DEF Passed, Rclone
  <2>3. "access" \notin m.given /\ ~(Pair(m) /\ "account" \in m.given)
    BY <1>2, <2>1 DEF BlaxelTakes, Native
  <2>4. QED
    BY <1>2, <2>2, <2>3 DEF Given
<1>7. CASE m.strategy = "cloudflare"
  <2>1. CloudflareTakes(m)
    BY <1>7 DEF Takes, Rclone
  <2>2. Passed(m) = Credentials(m)
    BY <1>7 DEF Passed, Rclone
  <2>3. Native(m) = {} /\ "token" \notin m.given
    BY <1>2, <2>1 DEF CloudflareTakes
  <2>4. QED
    BY <1>2, <1>3, <2>2, <2>3 DEF Credentials, Pair, Native, Given
<1>8. QED
  BY <1>1, <1>4, <1>5, <1>6, <1>7 DEF Strategies, Rclone

(* There is at most one way to authenticate it.                            *)
LEMMA OneWay ==
    ASSUME NEW m \in Mounts, Takes(m)
    PROVE  Cardinality(Ways(m.given, m.name = "set")) <= 1
<1> DEFINE keys == {"key", "secret"} \cap m.given # {}
           native == {"account", "access"} \cap m.given # {}
           secret == m.name = "set"
<1>1. /\ m.given \subseteq GivenTo(m.bucket) /\ m.strategy \in Strategies
      /\ m.bucket \in {"s3", "r2", "gcs"} /\ (m.strategy # "modal" => ~secret)
  BY DEF Mounts
<1>2. keys <=> Pair(m)
  BY DEF Takes, PairIsWhole, Pair
<1>3. native <=> Native(m) # {}
  BY DEF Native
<1>4. native => m.bucket = "gcs"
  BY <1>1, <1>3 DEF GivenTo, Native, Given
<1>5. ~(keys /\ secret) /\ ~(native /\ secret)
  <2>1. secret => ModalTakes(m)
    BY <1>1 DEF Takes, Rclone
  <2>2. QED
    BY <2>1 DEF ModalTakes
<1>6. ~(keys /\ native)
  <2>1. CASE m.strategy = "modal"
    <3>1. ModalTakes(m)
      BY <2>1 DEF Takes, Rclone
    <3>2. QED
      BY <1>3, <1>4, <3>1 DEF ModalTakes
  <2>2. CASE m.strategy \in Rclone
    <3>1. RcloneTakes(m)
      BY <2>2 DEF Takes, Rclone
    <3>2. QED
      BY <1>2, <1>3, <1>4, <3>1 DEF RcloneTakes
  <2>3. CASE m.strategy = "blaxel"
    <3>1. BlaxelTakes(m)
      BY <2>3 DEF Takes, Rclone
    <3>2. QED
      BY <1>2, <1>4, <3>1 DEF BlaxelTakes
  <2>4. CASE m.strategy = "cloudflare"
    <3>1. CloudflareTakes(m)
      BY <2>4 DEF Takes, Rclone
    <3>2. QED
      BY <1>3, <1>4, <3>1 DEF CloudflareTakes
  <2>5. QED
    BY <1>1, <2>1, <2>2, <2>3, <2>4 DEF Strategies, Rclone
<1>7. Ways(m.given, secret) = (IF keys THEN {"keys"} ELSE {})
          \cup (IF native THEN {"native"} ELSE {}) \cup (IF secret THEN {"secret"} ELSE {})
  BY DEF Ways
<1>8. \E x : Ways(m.given, secret) \in {{}, {x}}
  <2> HIDE DEF keys, native, secret
  <2>1. CASE keys
    BY <1>5, <1>6, <1>7, <2>1
  <2>2. CASE native
    BY <1>5, <1>6, <1>7, <2>2
  <2>3. CASE secret
    BY <1>5, <1>6, <1>7, <2>3
  <2>4. CASE ~keys /\ ~native /\ ~secret
    BY <1>7, <2>4
  <2>5. QED
    BY <2>1, <2>2, <2>3, <2>4
<1>9. QED
  <2>1. PICK x : Ways(m.given, secret) \in {{}, {x}}
    BY <1>8
  <2>2. Cardinality({}) = 0 /\ Cardinality({x}) = 1
    BY FS_EmptySet, FS_Singleton
  <2>3. Cardinality(Ways(m.given, secret)) <= 1
    BY <2>1, <2>2
  <2>4. QED
    BY <2>3

(* Any mount, for any provider.                                            *)
LEMMA MountsAreWhole ==
    ASSUME NEW m \in Mounts
    PROVE  MountCarriesWhatWasGiven(m, Resolved(m))
<1>1. CASE ~Takes(m)
  BY <1>1 DEF Resolved, MountCarriesWhatWasGiven
<1>2. CASE Takes(m)
  <2> DEFINE payload == Resolved(m)
  <2>1. payload = [as |-> MountedAs(m), with |-> Passed(m), part |-> PartOf(m),
                   endpoint |-> EndpointOf(m), secret |-> m.name = "set"]
    BY <1>2 DEF Resolved
  <2>2. payload.with = m.given /\ (payload.secret <=> m.name = "set")
    <3>1. payload.with = Passed(m) /\ payload.secret = (m.name = "set")
      BY <2>1
    <3>2. QED
      BY <1>2, <3>1, PassedIsGiven
  <2>3. Cardinality(Ways(payload.with, payload.secret)) <= 1
    <3>1. payload.with = m.given /\ payload.secret = (m.name = "set")
      <4>1. payload.secret = (m.name = "set")
        BY <2>1
      <4>2. QED
        BY <2>2, <4>1
    <3>2. QED
      BY <1>2, <3>1, OneWay
  <2>4. "key" \in payload.with <=> "secret" \in payload.with
    BY <1>2, <2>2 DEF Takes, PairIsWhole
  <2>5. m.strategy \in Strategies
    BY DEF Mounts
  <2>6. m.prefix = "some" => payload.part # "all"
    BY <2>1, <2>5 DEF PartOf, Rclone, Strategies
  <2>7. m.endpoint = "given" /\ payload.endpoint # "given"
            => m.strategy = "blaxel" /\ payload.as = "gcs"
    BY <2>1, <2>5 DEF EndpointOf, MountedAs
  <2> HIDE DEF payload
  <2>8. MountCarriesWhatWasGiven(m, payload)
    BY <2>2, <2>3, <2>4, <2>6, <2>7 DEF MountCarriesWhatWasGiven
  <2>9. QED
    BY <2>8 DEF payload
<1>3. QED
  BY <1>1, <1>2

-----------------------------------------------------------------------------
(* Copying a directory.                                                    *)

Places == {"start", "list", "next", "copy", "rest", "entry", "root", "rename",
           "done", "failed"}
Stages == UNION {[S -> Nat \X Nat] : S \in SUBSET HostNames}
Copies == [at : Places, root : Nat, left : SUBSET HostNames, name : HostNames,
           entry : Nat, half : Nat, staged : Stages]

CopyTypeOK ==
    /\ edits \in Nat
    /\ host \in [files : [HostNames -> Nat], version : Nat]
    /\ copying \in Copies
    /\ seen \subseteq [HostNames -> Nat]

(* A version that is replaced never comes back: when the file still is the *)
(* one of the snapshot, what was read of it is.  The names that are staged *)
(* and that are left are those of the listing.                             *)
AtWork == copying.at \in {"copy", "rest", "entry"}
InHand == IF copying.at \in {"copy", "rest"} THEN {copying.name} ELSE {}
Unchanged == host.files[copying.name] = copying.entry
VersionsAreNumbered == \A n \in HostNames : host.files[n] <= edits + 1
WasThere(n, pair) == \E files \in seen : pair = <<files[n], files[n]>>
CopyInv ==
    /\ CopyTypeOK /\ VersionsAreNumbered
    /\ copying.at \notin {"start", "failed"} => host.files \in seen
    /\ AtWork => copying.entry \in 1..(edits + 1)
    /\ copying.at = "rest" /\ Unchanged => copying.half = copying.entry
    /\ copying.at = "entry" /\ Unchanged =>
           copying.staged[copying.name] = <<copying.entry, copying.entry>>
    /\ copying.at \in {"start", "list"} => copying.staged = Nothing
    /\ copying.at \in {"next", "root", "rename", "done"} \/ AtWork =>
           \E files \in seen :
               There(files) = DOMAIN copying.staged \cup copying.left \cup InHand
    /\ copying.at \in {"rename", "done"} => copying.left = {}
    /\ \A n \in DOMAIN copying.staged :
           \/ copying.at \in {"entry", "failed"} /\ n = copying.name
           \/ WasThere(n, copying.staged[n])
    /\ copying.at = "done" => destination = copying.staged
    /\ copying.at \notin {"done", "rename"} => destination = "old"

LEMMA CopyInvImplies == CopyInv => CopyIsWhole
BY DEF CopyInv, CopyIsWhole, CopyAt, WasThere, InHand

LEMMA NothingIsStaged == Nothing \in Stages /\ DOMAIN Nothing = {}
<1>1. Nothing \in [{} -> Nat \X Nat] /\ DOMAIN Nothing = {}
  BY DEF Nothing
<1>2. {} \in SUBSET HostNames
  OBVIOUS
<1>3. QED
  BY <1>1, <1>2 DEF Stages

LEMMA CopyStart == CopyInit => CopyInv
<1> SUFFICES ASSUME CopyInit PROVE CopyInv
  OBVIOUS
<1>1. copying \in Copies /\ copying.at = "start" /\ copying.staged = Nothing
  BY NothingIsStaged DEF CopyInit, NotCopying, Copies, Places, HostNames
<1>2. CopyTypeOK
  BY <1>1 DEF CopyTypeOK, CopyInit
<1>3. QED
  BY <1>1, <1>2, NothingIsStaged DEF CopyInv, CopyInit, AtWork, VersionsAreNumbered

(* What "EXCEPT" leaves of the local variables.                            *)
LEMMA FailsKeep == CopyInv /\ copying.at \notin {"done", "rename"} /\ CopyFails => CopyInv'
<1> SUFFICES ASSUME CopyInv, copying.at \notin {"done", "rename"}, CopyFails PROVE CopyInv'
  OBVIOUS
<1>1. /\ copying' \in Copies /\ copying'.at = "failed" /\ copying'.staged = Nothing
  BY NothingIsStaged DEF CopyFails, NotCopying, Copies, Places, HostNames
<1>2. CopyTypeOK'
  BY <1>1 DEF CopyTypeOK, CopyFails, CopyInv
<1>3. destination' = "old"
  BY DEF CopyFails, CopyInv
<1>4. QED
  BY <1>1, <1>2, <1>3, NothingIsStaged DEF CopyInv, AtWork, CopyFails, VersionsAreNumbered

LEMMA BeginKeeps == CopyInv /\ BeginCopy => CopyInv'
<1> SUFFICES ASSUME CopyInv, BeginCopy PROVE CopyInv'
  OBVIOUS
<1> USE DEF CopyInv, CopyTypeOK, BeginCopy, CopyAt
<1>1. /\ copying' \in Copies /\ copying'.at = "list" /\ copying'.staged = Nothing
  BY DEF Copies, Places
<1>2. /\ host' = host /\ host.files \in [HostNames -> Nat] /\ seen' = {host.files}
      /\ edits' = edits /\ destination' = "old"
  OBVIOUS
<1>3. QED
  BY <1>1, <1>2, NothingIsStaged DEF AtWork, VersionsAreNumbered

LEMMA ListKeeps == CopyInv /\ ListSource => CopyInv'
<1> SUFFICES ASSUME CopyInv, ListSource PROVE CopyInv'
  OBVIOUS
<1> USE DEF CopyInv, CopyTypeOK, ListSource, CopyAt
<1>1. /\ copying' \in Copies /\ copying'.at = "next" /\ copying'.staged = Nothing
      /\ copying'.left = There(host.files)
  BY DEF Copies, Places, There
<1>2. /\ host' = host /\ host.files \in seen /\ seen' = seen
      /\ edits' = edits /\ destination' = "old"
  OBVIOUS
<1>3. There(host.files) = DOMAIN copying'.staged \cup copying'.left \cup InHand'
  BY <1>1, NothingIsStaged DEF InHand
<1>4. QED
  BY <1>1, <1>2, <1>3, NothingIsStaged DEF AtWork, VersionsAreNumbered

LEMMA EntryKeeps == CopyInv /\ NextEntry => CopyInv'
<1> SUFFICES ASSUME CopyInv, NextEntry PROVE CopyInv'
  OBVIOUS
<1>1. copying.at = "next" /\ copying \in Copies
  BY DEF NextEntry, CopyAt, CopyInv, CopyTypeOK
<1>2. PICK n \in copying.left :
          IF host.files[n] = 0 THEN CopyFails
          ELSE /\ copying' = [copying EXCEPT !.at = "copy", !.name = n, !.left = @ \ {n},
                                             !.entry = host.files[n]]
               /\ UNCHANGED <<host, destination, edits, seen>>
  BY DEF NextEntry
<1>3. CASE host.files[n] = 0
  BY <1>1, <1>2, <1>3, FailsKeep
<1>4. CASE host.files[n] # 0
  <2>1. n \in HostNames /\ host.files[n] \in Nat /\ edits \in Nat
    BY <1>1 DEF Copies, CopyInv, CopyTypeOK
  <2>2. /\ copying' \in Copies /\ copying'.at = "copy" /\ copying'.name = n
        /\ copying'.left = copying.left \ {n} /\ copying'.entry = host.files[n]
        /\ copying'.staged = copying.staged
    BY <1>1, <1>2, <1>4, <2>1, ZenonT(60) DEF Copies, Places
  <2>3. UNCHANGED <<host, destination, edits, seen>>
    BY <1>2, <1>4
  <2>4. DOMAIN copying'.staged \cup copying'.left \cup InHand'
            = DOMAIN copying.staged \cup copying.left \cup InHand
    BY <1>1, <2>2 DEF InHand
  <2>5. copying'.entry \in 1..(edits' + 1)
    BY <1>4, <2>1, <2>2, <2>3 DEF CopyInv, VersionsAreNumbered
  <2>6. CopyTypeOK'
    BY <2>2, <2>3 DEF CopyInv, CopyTypeOK
  <2>7. QED
    BY <1>1, <2>2, <2>3, <2>4, <2>5, <2>6 DEF CopyInv, AtWork, WasThere, VersionsAreNumbered
<1>5. QED
  BY <1>3, <1>4

LEMMA FirstKeeps == CopyInv /\ CopyFirst => CopyInv'
<1> SUFFICES ASSUME CopyInv, CopyFirst PROVE CopyInv'
  OBVIOUS
<1>1. copying.at = "copy" /\ copying \in Copies
  BY DEF CopyFirst, CopyAt, CopyInv, CopyTypeOK
<1>2. CASE host.files[copying.name] = 0
  BY <1>1, <1>2, FailsKeep DEF CopyFirst
<1>3. CASE host.files[copying.name] # 0
  <2>1. copying.name \in HostNames /\ host.files[copying.name] \in Nat
    BY <1>1 DEF Copies, CopyInv, CopyTypeOK
  <2>2. /\ copying' = [copying EXCEPT !.at = "rest", !.half = host.files[copying.name]]
        /\ UNCHANGED <<host, destination, edits, seen>>
    BY <1>3 DEF CopyFirst
  <2>3. /\ copying' \in Copies /\ copying'.at = "rest" /\ copying'.name = copying.name
        /\ copying'.left = copying.left /\ copying'.entry = copying.entry
        /\ copying'.staged = copying.staged /\ copying'.half = host.files[copying.name]
    BY <1>1, <2>1, <2>2 DEF Copies, Places
  <2>4. InHand' = InHand
    BY <1>1, <2>3 DEF InHand
  <2>5. CopyTypeOK'
    BY <2>2, <2>3 DEF CopyInv, CopyTypeOK
  <2>6. Unchanged' => copying'.half = copying'.entry
    BY <2>2, <2>3 DEF Unchanged
  <2>7. QED
    BY <1>1, <2>2, <2>3, <2>4, <2>5, <2>6 DEF CopyInv, AtWork, WasThere, VersionsAreNumbered
<1>4. QED
  BY <1>2, <1>3

LEMMA RestKeeps == CopyInv /\ CopyRest => CopyInv'
<1> SUFFICES ASSUME CopyInv, CopyRest PROVE CopyInv'
  OBVIOUS
<1>1. copying.at = "rest" /\ copying \in Copies
  BY DEF CopyRest, CopyAt, CopyInv, CopyTypeOK
<1> DEFINE n == copying.name
           rest == IF host.files[n] = 0 THEN copying.half ELSE host.files[n]
<1>2. /\ copying' = [copying EXCEPT !.at = "entry",
                         !.staged = One(n, <<copying.half, rest>>) ++ @]
      /\ UNCHANGED <<host, destination, edits, seen>>
  BY DEF CopyRest
<1>3. n \in HostNames /\ copying.half \in Nat /\ rest \in Nat
  BY <1>1 DEF Copies, CopyInv, CopyTypeOK
<1>4. PICK staged : staged = One(n, <<copying.half, rest>>) ++ copying.staged
  OBVIOUS
<1>5. /\ DOMAIN staged = DOMAIN copying.staged \cup {n}
      /\ staged[n] = <<copying.half, rest>>
      /\ \A x \in DOMAIN copying.staged \ {n} : staged[x] = copying.staged[x]
  BY <1>4 DEF ++, One
<1>6. staged \in Stages
  <2>1. PICK S \in SUBSET HostNames : copying.staged \in [S -> Nat \X Nat]
    BY <1>1 DEF Copies, Stages
  <2>2. staged \in [S \cup {n} -> Nat \X Nat]
    BY <1>3, <1>4, <2>1 DEF ++, One
  <2>3. S \cup {n} \in SUBSET HostNames
    BY <1>3
  <2>4. QED
    BY <2>2, <2>3 DEF Stages
<1>7. /\ copying' \in Copies /\ copying'.at = "entry" /\ copying'.name = n
      /\ copying'.left = copying.left /\ copying'.entry = copying.entry
      /\ copying'.staged = staged
  BY <1>1, <1>2, <1>4, <1>6 DEF Copies, Places
<1>8. DOMAIN staged \cup copying'.left \cup InHand'
          = DOMAIN copying.staged \cup copying.left \cup InHand
  BY <1>1, <1>5, <1>7 DEF InHand
<1>9. Unchanged' => staged[n] = <<copying'.entry, copying'.entry>>
  <2>1. copying.entry # 0
    BY <1>1 DEF CopyInv, AtWork
  <2>2. Unchanged' => Unchanged
    BY <1>2, <1>7 DEF Unchanged
  <2>3. Unchanged => copying.half = copying.entry /\ rest = copying.entry
    BY <1>1, <2>1 DEF CopyInv, Unchanged
  <2>4. QED
    BY <1>5, <1>7, <2>2, <2>3
<1>10. CopyTypeOK'
  BY <1>2, <1>7 DEF CopyInv, CopyTypeOK
<1> HIDE DEF n, rest
<1>11. QED
  BY <1>1, <1>2, <1>5, <1>7, <1>8, <1>9, <1>10
     DEF CopyInv, AtWork, WasThere, VersionsAreNumbered, n

LEMMA CheckEntryKeeps == CopyInv /\ CheckEntry => CopyInv'
<1> SUFFICES ASSUME CopyInv, CheckEntry PROVE CopyInv'
  OBVIOUS
<1>1. copying.at = "entry" /\ copying \in Copies
  BY DEF CheckEntry, CopyAt, CopyInv, CopyTypeOK
<1>2. CASE host.files[copying.name] # copying.entry
  BY <1>1, <1>2, FailsKeep DEF CheckEntry
<1>3. CASE host.files[copying.name] = copying.entry
  <2>1. /\ copying' = [copying EXCEPT !.at = "root"]
        /\ UNCHANGED <<host, destination, edits, seen>>
    BY <1>3 DEF CheckEntry, CopyGoes
  <2>2. /\ copying' \in Copies /\ copying'.at = "root"
        /\ copying'.left = copying.left /\ copying'.staged = copying.staged
    BY <1>1, <2>1 DEF Copies, Places
  <2>3. InHand' = InHand
    BY <1>1, <2>2 DEF InHand
  <2>4. CopyTypeOK' /\ VersionsAreNumbered'
    BY <2>1, <2>2 DEF CopyInv, CopyTypeOK, VersionsAreNumbered
  <2>5. WasThere(copying.name, copying.staged[copying.name])
    <3>1. host.files \in seen
      BY <1>1 DEF CopyInv
    <3>2. copying.staged[copying.name] = <<copying.entry, copying.entry>>
      BY <1>1, <1>3 DEF CopyInv, Unchanged
    <3>3. QED
      BY <1>3, <3>1, <3>2 DEF WasThere
  <2>6. (\A n \in DOMAIN copying.staged : WasThere(n, copying.staged[n]))'
    <3>1. \A n \in DOMAIN copying.staged : WasThere(n, copying.staged[n])
      BY <1>1, <2>5 DEF CopyInv
    <3>2. \A n, pair : WasThere(n, pair) => WasThere(n, pair)'
      BY <2>1 DEF WasThere
    <3>3. QED
      BY <2>2, <3>1, <3>2
  <2>7. \E files \in seen' :
            There(files) = DOMAIN copying'.staged \cup copying'.left \cup InHand'
    <3>1. \E files \in seen :
              There(files) = DOMAIN copying.staged \cup copying.left \cup InHand
      BY <1>1 DEF CopyInv, AtWork
    <3>2. QED
      BY <2>1, <2>2, <2>3, <3>1
  <2>8. host'.files \in seen' /\ destination' = "old"
    BY <1>1, <2>1 DEF CopyInv
  <2>9. QED
    BY <2>2, <2>4, <2>6, <2>7, <2>8 DEF CopyInv, AtWork
<1>4. QED
  BY <1>2, <1>3

(* A step that only moves on.                                              *)
LEMMA GoesKeeps ==
    ASSUME CopyInv, NEW point \in Places,
           \/ copying.at = "root" /\ point = "next" /\ destination' = destination
           \/ /\ copying.at = "next" /\ copying.left = {} /\ point = "rename"
           \/ /\ copying.at = "rename" /\ point = "done" /\ destination' = copying.staged,
           CopyGoes(point), UNCHANGED <<host, edits, seen>>
    PROVE  CopyInv'
<1>1. copying \in Copies
  BY DEF CopyInv, CopyTypeOK
<1>2. /\ copying' \in Copies /\ copying'.at = point
      /\ copying'.left = copying.left /\ copying'.staged = copying.staged
  BY <1>1 DEF Copies, CopyGoes
<1>3. InHand' = InHand
  BY <1>2 DEF InHand, Places
<1>4. CopyTypeOK' /\ VersionsAreNumbered'
  BY <1>2 DEF CopyInv, CopyTypeOK, VersionsAreNumbered
<1>5. (\A n \in DOMAIN copying.staged : WasThere(n, copying.staged[n]))'
  <2>1. \A n \in DOMAIN copying.staged : WasThere(n, copying.staged[n])
    BY DEF CopyInv
  <2>2. \A n, pair : WasThere(n, pair) => WasThere(n, pair)'
    BY DEF WasThere
  <2>3. QED
    BY <1>2, <2>1, <2>2
<1>6. \E files \in seen' :
          There(files) = DOMAIN copying'.staged \cup copying'.left \cup InHand'
  <2>1. \E files \in seen :
            There(files) = DOMAIN copying.staged \cup copying.left \cup InHand
    BY DEF CopyInv
  <2>2. QED
    BY <1>2, <1>3, <2>1
<1>7. host'.files \in seen'
  BY DEF CopyInv
<1>8. copying.at # "rename" => destination = "old"
  BY DEF CopyInv
<1>9. QED
  BY <1>2, <1>4, <1>5, <1>6, <1>7, <1>8 DEF CopyInv, AtWork

LEMMA CheckRootKeeps == CopyInv /\ CheckRoot => CopyInv'
<1> SUFFICES ASSUME CopyInv, CheckRoot PROVE CopyInv'
  OBVIOUS
<1>1. copying.at = "root"
  BY DEF CheckRoot, CopyAt
<1>2. CASE host.version # copying.root
  BY <1>1, <1>2, FailsKeep DEF CheckRoot
<1>3. CASE host.version = copying.root
  BY <1>1, <1>3, GoesKeeps DEF CheckRoot, Places
<1>4. QED
  BY <1>2, <1>3

LEMMA RenameKeeps ==
    /\ CopyInv /\ RemoveOld => CopyInv'
    /\ CopyInv /\ RenameStaged => CopyInv'
BY GoesKeeps DEF RemoveOld, RenameStaged, CopyAt, Places

(* A change makes a version that was never there.                          *)
LEMMA HostKeeps == CopyInv /\ HostChanges => CopyInv'
<1> SUFFICES ASSUME CopyInv, HostChanges PROVE CopyInv'
  OBVIOUS
<1>1. PICK n \in HostNames, v \in {0, edits + 2} :
          host' = [files |-> [host.files EXCEPT ![n] = v],
                   version |-> IF 0 \in {v, host.files[n]} THEN edits + 2 ELSE host.version]
  BY DEF HostChanges
<1>2. /\ edits \in Nat /\ host.files \in [HostNames -> Nat] /\ host.version \in Nat
      /\ copying \in Copies /\ seen \subseteq [HostNames -> Nat]
      /\ \A x \in HostNames : host.files[x] <= edits + 1
  BY DEF CopyInv, CopyTypeOK, VersionsAreNumbered
<1>3. /\ host'.files = [host.files EXCEPT ![n] = v]
      /\ host' \in [files : [HostNames -> Nat], version : Nat]
  BY <1>1, <1>2
<1>4. /\ copying' = copying /\ destination' = destination /\ edits' = edits + 1
      /\ seen' = IF copying.at = "start" THEN seen ELSE seen \cup {host'.files}
  BY DEF HostChanges, CopyAt
<1>5. host'.files \in [HostNames -> Nat] /\ seen \subseteq seen'
  BY <1>3, <1>4
<1>6. CopyTypeOK'
  BY <1>2, <1>3, <1>4, <1>5 DEF CopyTypeOK
<1>7. VersionsAreNumbered'
  BY <1>1, <1>2, <1>3, <1>4 DEF VersionsAreNumbered
<1>8. copying.name \in HostNames
  BY <1>2 DEF Copies
<1>9. AtWork => (Unchanged' => Unchanged)
  <2>1. AtWork => copying.entry \in 1..(edits + 1)
    BY DEF CopyInv
  <2>2. host'.files[copying.name] = IF n = copying.name THEN v ELSE host.files[copying.name]
    BY <1>2, <1>3, <1>8
  <2>3. QED
    BY <1>2, <1>4, <2>1, <2>2 DEF Unchanged
<1>10. \A x, pair : WasThere(x, pair) => WasThere(x, pair)'
  BY <1>5 DEF WasThere
<1>11. AtWork => copying.entry \in 1..(edits' + 1)
  BY <1>2, <1>4 DEF CopyInv
<1>12. InHand' = InHand /\ (AtWork' <=> AtWork)
  BY <1>4 DEF InHand, AtWork
<1>13. /\ copying.at \in {"next", "root", "rename", "done"} \/ AtWork =>
              \E files \in seen' :
                  There(files) = DOMAIN copying.staged \cup copying.left \cup InHand
       /\ copying.at \notin {"start", "failed"} => host'.files \in seen'
  BY <1>4, <1>5 DEF CopyInv
<1>14. copying.at = "rest" \/ copying.at = "entry" => AtWork
  BY DEF AtWork
<1> HIDE DEF AtWork, InHand, Unchanged
<1>15. QED
  BY <1>4, <1>6, <1>7, <1>9, <1>10, <1>11, <1>12, <1>13, <1>14 DEF CopyInv

LEMMA CopyStepKeeps == CopyInv /\ CopyNext => CopyInv'
BY BeginKeeps, ListKeeps, EntryKeeps, FirstKeeps, RestKeeps, CheckEntryKeeps,
   CheckRootKeeps, RenameKeeps, HostKeeps DEF CopyNext

-----------------------------------------------------------------------------
(* Sandboxes.                                                              *)

SandboxesInv ==
    /\ HostedInv /\ CopyInv
    /\ done /\ subject = "mount" => given \in Mounts /\ made = Resolved(given)

(* Each subject makes its own conversion.                                  *)
LEMMA MountIsResolved ==
    ASSUME Convert, subject = "mount"
    PROVE  given' \in Mounts /\ made' = Resolved(given')
<1>1. ResolveMount
  BY DEF Convert, Replay, TrimOutputs, HandOff, CombineInput, RouteRequest,
         ConfigureProvider, SendRequest, AnswerResponses, AnswerChat, ReadFrames,
         OfferTools, CallTool, AskGuardrails, CallAgentTool, RunCodex
<1>2. QED
  BY <1>1 DEF ResolveMount

LEMMA SandboxesStep == SandboxesInv /\ [ConversionNext]_conversionVars => SandboxesInv'
<1> SUFFICES ASSUME SandboxesInv, [ConversionNext]_conversionVars PROVE SandboxesInv'
  OBVIOUS
<1>1. UNCHANGED hostedVars => HostedInv'
  BY DEF SandboxesInv, HostedInv, HostedSessionsAreTheirOwn, hostedVars
<1>2. UNCHANGED copyVars => CopyInv'
  BY DEF SandboxesInv, CopyInv, CopyTypeOK, VersionsAreNumbered, AtWork, InHand,
         Unchanged, WasThere, copyVars
<1>3. CASE /\ ~done /\ done' = TRUE /\ subject' = subject
           /\ Convert
           /\ UNCHANGED <<hostedVars, copyVars>>
  BY <1>1, <1>2, <1>3, MountIsResolved DEF SandboxesInv
<1>4. CASE subject = "hosted" /\ HostedNext /\ UNCHANGED <<dataVars, copyVars>>
  BY <1>2, <1>4, HostedStepKeeps DEF SandboxesInv, dataVars
<1>5. CASE subject = "copy" /\ CopyNext /\ UNCHANGED <<dataVars, hostedVars>>
  BY <1>1, <1>5, CopyStepKeeps DEF SandboxesInv, dataVars
<1>6. CASE UNCHANGED conversionVars
  BY <1>1, <1>2, <1>6 DEF SandboxesInv, conversionVars, dataVars
<1>7. QED
  BY <1>3, <1>4, <1>5, <1>6 DEF ConversionNext

(* For any number of sessions, restarts and changes of the host: every     *)
(* mount carries what was given, hosted sessions are their own, and a      *)
(* copied directory is one that was there (Sandboxes).                     *)
THEOREM SandboxesAreRight == ConversionSpec => []Sandboxes
<1>1. ConversionInit => SandboxesInv
  BY HostedStart, CopyStart DEF ConversionInit, SandboxesInv
<1>2. SandboxesInv => Sandboxes
  BY CopyInvImplies, MountsAreWhole DEF SandboxesInv, HostedInv, Sandboxes
<1>3. QED
  BY <1>1, <1>2, SandboxesStep, PTL DEF ConversionSpec

-----------------------------------------------------------------------------
(* Inputs of bounded length.                                               *)

LEMMA SeqOfIs ==
    ASSUME NEW S, NEW n \in Nat, NEW s \in SeqOf(S, n)
    PROVE  s \in Seq(S) /\ Len(s) \in 0..n /\ DOMAIN s = 1..Len(s)
<1>1. PICK m \in 0..n : s \in [1..m -> S]
  BY DEF SeqOf
<1>2. QED
  BY <1>1

LEMMA AllOfBoth ==
    ASSUME NEW S, NEW s \in Seq(S), NEW t \in Seq(S), NEW W
    PROVE  (\A i \in DOMAIN (s \o t) : (s \o t)[i] \in W)
               <=> (\A i \in DOMAIN s : s[i] \in W) /\ (\A i \in DOMAIN t : t[i] \in W)
<1>1. /\ Len(s) \in Nat /\ Len(t) \in Nat /\ DOMAIN s = 1..Len(s) /\ DOMAIN t = 1..Len(t)
      /\ DOMAIN (s \o t) = 1..(Len(s) + Len(t))
  OBVIOUS
<1>2. /\ \A i \in 1..Len(s) : (s \o t)[i] = s[i]
      /\ \A i \in 1..Len(t) : (s \o t)[Len(s) + i] = t[i]
  OBVIOUS
<1>3. ASSUME \A i \in DOMAIN (s \o t) : (s \o t)[i] \in W
      PROVE  /\ \A i \in 1..Len(s) : s[i] \in W
             /\ \A i \in 1..Len(t) : t[i] \in W
  <2>1. ASSUME NEW i \in 1..Len(s) PROVE s[i] \in W
    <3>1. i \in 1..(Len(s) + Len(t))
      BY <1>1
    <3>2. QED
      BY <1>1, <1>2, <1>3, <3>1
  <2>2. ASSUME NEW i \in 1..Len(t) PROVE t[i] \in W
    <3>1. Len(s) + i \in 1..(Len(s) + Len(t))
      BY <1>1
    <3>2. QED
      BY <1>1, <1>2, <1>3, <3>1
  <2>3. QED
    BY <2>1, <2>2
<1>4. ASSUME \A i \in 1..Len(s) : s[i] \in W, \A i \in 1..Len(t) : t[i] \in W
      PROVE  \A i \in DOMAIN (s \o t) : (s \o t)[i] \in W
  <2>1. SUFFICES ASSUME NEW i \in 1..(Len(s) + Len(t)) PROVE (s \o t)[i] \in W
    BY <1>1
  <2>2. CASE i \in 1..Len(s)
    BY <1>2, <1>4, <2>2
  <2>3. CASE i \notin 1..Len(s)
    <3>1. PICK k \in 1..Len(t) : i = Len(s) + k
      <4>1. i - Len(s) \in 1..Len(t) /\ i = Len(s) + (i - Len(s))
        BY <1>1, <2>3
      <4>2. QED
        BY <4>1
    <3>2. QED
      BY <1>2, <1>4, <3>1
  <2>4. QED
    BY <2>2, <2>3
<1>5. QED
  BY <1>1, <1>3, <1>4

-----------------------------------------------------------------------------
(* One call of a tool.                                                     *)

(* What guardrails make of an output.                                      *)
LEMMA GuardedIs ==
    ASSUME NEW verdicts \in Seq(GuardrailVerdicts), NEW point, NEW output
    PROVE  /\ (\E i \in DOMAIN verdicts : verdicts[i] \in {"raise", "error"})
                  => Guarded(verdicts, point, output) = NotAnswered
           /\ (\A i \in DOMAIN verdicts : verdicts[i] = "allow")
                  => Guarded(verdicts, point, output) = output
           /\ (\A i \in DOMAIN verdicts : verdicts[i] \in {"allow", "reject"})
                  /\ (\E i \in DOMAIN verdicts : verdicts[i] # "allow")
                  => \E n : Guarded(verdicts, point, output) = <<point, n>>
BY DEF Guarded, GuardrailVerdicts

(* The texts of a call are told apart.                                     *)
LEMMA TextsDiffer ==
    \A point, n : /\ <<point, n>> # NotAnswered /\ <<point, n>> # <<"go">>
                  /\ <<point, n>> # <<"answer">>
BY DEF NotAnswered

LEMMA VerdictsAre ==
    ASSUME NEW s \in Seq(Executors)
    PROVE  LET verdicts == [i \in DOMAIN s |-> ToolVerdict(s[i])]
           IN /\ verdicts \in Seq(GuardrailVerdicts) /\ Len(verdicts) = Len(s)
              /\ DOMAIN verdicts = DOMAIN s
              /\ \A i \in DOMAIN s :
                     /\ verdicts[i] = "allow" <=> s[i] = "allow"
                     /\ verdicts[i] = "reject" <=> s[i] = "reject"
                     /\ verdicts[i] \in GuardrailVerdicts
<1>1. \A i \in DOMAIN s : ToolVerdict(s[i]) \in GuardrailVerdicts
          /\ (ToolVerdict(s[i]) = "allow" <=> s[i] = "allow")
          /\ (ToolVerdict(s[i]) = "reject" <=> s[i] = "reject")
  BY ElementOfSeq DEF ToolVerdict, Executors, GuardrailVerdicts
<1>2. QED
  BY <1>1

LEMMA InvokedIs ==
    ASSUME NEW outcome \in {"ok", "fails"}, NEW formatter \in {"default", "text", "silent"}
    PROVE  \/ outcome = "ok" /\ Invoked(outcome, formatter) = <<"answer">>
           \/ outcome = "fails" /\ formatter = "default"
                  /\ Invoked(outcome, formatter) = <<"default">>
           \/ outcome = "fails" /\ formatter = "text"
                  /\ Invoked(outcome, formatter) = <<"text">>
           \/ outcome = "fails" /\ formatter = "silent"
                  /\ Invoked(outcome, formatter) = NotAnswered
<1>1. outcome = "ok" => Invoked(outcome, formatter) = <<"answer">>
  BY DEF Invoked
<1>2. outcome = "fails" /\ formatter = "default" => Invoked(outcome, formatter) = <<"default">>
  BY DEF Invoked
<1>3. outcome = "fails" /\ formatter = "text" => Invoked(outcome, formatter) = <<"text">>
  BY DEF Invoked
<1>4. outcome = "fails" /\ formatter = "silent" => Invoked(outcome, formatter) = NotAnswered
  BY DEF Invoked
<1>5. QED
  BY <1>1, <1>2, <1>3, <1>4

(* A call of a tool gets through only when all of its guardrails let it,   *)
(* however many there are on either side.                                  *)
THEOREM EveryCallIsGuarded ==
    ASSUME NEW input \in Seq(Executors), NEW output \in Seq(Executors),
           NEW outcome \in {"ok", "fails"}, NEW formatter \in {"default", "text", "silent"}
    PROVE  CallsAreGuarded(input, outcome, formatter, output,
                           Called(input, outcome, formatter, output))
<1> DEFINE ins == [i \in DOMAIN input |-> ToolVerdict(input[i])]
           outs == [i \in DOMAIN output |-> ToolVerdict(output[i])]
           before == Guarded(ins, "input", <<"go">>)
           invoked == before = <<"go">>
           answer == IF invoked THEN Invoked(outcome, formatter) ELSE before
           shown == IF answer = NotAnswered THEN <<>>
                    ELSE [i \in DOMAIN outs |->
                             Guarded(SubSeq(outs, 1, i - 1), "output", answer)]
           end == IF answer = NotAnswered THEN NotAnswered
                  ELSE Guarded(outs, "output", answer)
           call == Called(input, outcome, formatter, output)
<1>1. call.invoked = invoked /\ call.shown = shown /\ call.output = end
  BY DEF Called
<1>2. /\ ins \in Seq(GuardrailVerdicts) /\ DOMAIN ins = DOMAIN input
      /\ \A i \in DOMAIN input : /\ ins[i] = "allow" <=> input[i] = "allow"
                                 /\ ins[i] = "reject" <=> input[i] = "reject"
                                 /\ ins[i] \in GuardrailVerdicts
  BY VerdictsAre
<1>3. /\ outs \in Seq(GuardrailVerdicts) /\ DOMAIN outs = DOMAIN output
      /\ Len(outs) = Len(output)
      /\ \A i \in DOMAIN output : /\ outs[i] = "allow" <=> output[i] = "allow"
                                  /\ outs[i] = "reject" <=> output[i] = "reject"
                                  /\ outs[i] \in GuardrailVerdicts
  BY VerdictsAre
<1> HIDE DEF ins, outs
<1>4. \/ /\ \A i \in DOMAIN ins : ins[i] = "allow"
         /\ before = <<"go">>
      \/ /\ \A i \in DOMAIN ins : ins[i] \in {"allow", "reject"}
         /\ \E n : before = <<"input", n>>
      \/ /\ \E i \in DOMAIN ins : ins[i] \in {"raise", "error"}
         /\ before = NotAnswered
  BY <1>2, GuardedIs DEF GuardrailVerdicts
<1>5. <<"go">> # NotAnswered
  BY DEF NotAnswered
<1>6. invoked => \A i \in DOMAIN input : input[i] = "allow"
  BY <1>2, <1>4, <1>5, TextsDiffer
<1>7. \/ answer = NotAnswered
      \/ answer # NotAnswered /\ \A i \in DOMAIN ins : ins[i] \in {"allow", "reject"}
  BY <1>4, <1>5
<1>8. answer = NotAnswered =>
          \/ \E i \in DOMAIN input : input[i] \notin {"allow", "reject"}
          \/ invoked /\ outcome = "fails" /\ formatter = "silent"
  <2>1. CASE invoked
    <3>1. answer = Invoked(outcome, formatter)
      BY <2>1
    <3>2. /\ <<"answer">> # NotAnswered /\ <<"default">> # NotAnswered
          /\ <<"text">> # NotAnswered
      BY DEF NotAnswered
    <3>3. QED
      BY <2>1, <3>1, <3>2, InvokedIs
  <2>2. CASE ~invoked
    BY <1>2, <1>4, <2>2, TextsDiffer
  <2>3. QED
    BY <2>1, <2>2
<1>9. \A x : answer # <<"output", x>>
  <2>1. \/ Invoked(outcome, formatter) = <<"answer">>
        \/ Invoked(outcome, formatter) = <<"default">>
        \/ Invoked(outcome, formatter) = <<"text">>
        \/ Invoked(outcome, formatter) = NotAnswered
    BY InvokedIs
  <2>2. /\ \A x : <<"answer">> # <<"output", x>> /\ <<"default">> # <<"output", x>>
                  /\ <<"text">> # <<"output", x>> /\ NotAnswered # <<"output", x>>
        /\ \A n, x : <<"input", n>> # <<"output", x>>
    BY DEF NotAnswered
  <2>3. CASE invoked
    <3>1. answer = Invoked(outcome, formatter)
      BY <2>3
    <3>2. QED
      BY <2>1, <2>2, <3>1
  <2>4. CASE ~invoked
    <3>1. answer = before
      BY <2>4
    <3>2. QED
      BY <1>4, <2>2, <2>4, <3>1
  <2>5. QED
    BY <2>3, <2>4
<1>10. answer = <<"answer">> => invoked
  <2>1. ASSUME ~invoked PROVE answer # <<"answer">>
    <3>1. answer = before
      BY <2>1
    <3>2. NotAnswered # <<"answer">> /\ \A n : <<"input", n>> # <<"answer">>
      BY DEF NotAnswered
    <3>3. QED
      BY <1>4, <2>1, <3>1, <3>2
  <2>2. QED
    BY <2>1
<1> HIDE DEF before, invoked, answer
<1>11. ASSUME answer # NotAnswered
       PROVE  \/ /\ \A i \in DOMAIN outs : outs[i] = "allow"
                 /\ end = answer
              \/ /\ \A i \in DOMAIN outs : outs[i] \in {"allow", "reject"}
                 /\ \E n : end = <<"output", n>>
              \/ /\ \E i \in DOMAIN outs : outs[i] \in {"raise", "error"}
                 /\ end = NotAnswered
  BY <1>3, <1>11, GuardedIs, ZenonT(60) DEF GuardrailVerdicts
<1> DEFINE guards == input \o output
<1>12. \A W : (\A i \in DOMAIN guards : guards[i] \in W)
                  <=> (\A i \in DOMAIN input : input[i] \in W)
                          /\ (\A i \in DOMAIN output : output[i] \in W)
  BY AllOfBoth
<1> HIDE DEF guards
<1>13. end = <<"answer">> => \A i \in DOMAIN guards : guards[i] \in {"allow"}
  <2>1. ASSUME end = <<"answer">>
        PROVE  answer = <<"answer">> /\ \A i \in DOMAIN outs : outs[i] = "allow"
    <3>1. NotAnswered # <<"answer">>
      BY DEF NotAnswered
    <3>2. answer # NotAnswered
      BY <2>1, <3>1
    <3>3. QED
      BY <1>11, <2>1, <3>1, <3>2, TextsDiffer
  <2>2. QED
    BY <1>3, <1>6, <1>10, <1>12, <2>1
<1>14. end = NotAnswered =>
           \/ \E i \in DOMAIN guards : guards[i] \notin {"allow", "reject"}
           \/ invoked /\ outcome = "fails" /\ formatter = "silent"
  <2>1. CASE answer = NotAnswered
    BY <1>8, <1>12, <2>1
  <2>2. CASE answer # NotAnswered
    <3>1. ASSUME end = NotAnswered
          PROVE  \E i \in DOMAIN outs : outs[i] \in {"raise", "error"}
      BY <1>11, <2>2, <3>1, TextsDiffer
    <3>2. ASSUME NEW i \in DOMAIN outs, outs[i] \in {"raise", "error"}
          PROVE  output[i] \notin {"allow", "reject"}
      BY <1>3, <3>2
    <3>3. ASSUME end = NotAnswered
          PROVE  \E i \in DOMAIN output : output[i] \notin {"allow", "reject"}
      BY <1>3, <3>1, <3>2, <3>3
    <3>4. (\A i \in DOMAIN guards : guards[i] \in {"allow", "reject"})
              => \A i \in DOMAIN output : output[i] \in {"allow", "reject"}
      BY <1>12
    <3>5. QED
      BY <3>3, <3>4
  <2>3. QED
    BY <2>1, <2>2
<1>14a. answer = NotAnswered => end = NotAnswered
  OBVIOUS
<1>14b. answer # NotAnswered => /\ shown = [i \in DOMAIN outs |->
                                             Guarded(SubSeq(outs, 1, i - 1), "output", answer)]
                               /\ DOMAIN shown = DOMAIN outs
  OBVIOUS
<1>14c. answer = NotAnswered => shown = <<>>
  OBVIOUS
<1> HIDE DEF shown, end, call
<1>15. end # NotAnswered => /\ \A i \in DOMAIN guards : guards[i] \in {"allow", "reject"}
                            /\ Len(shown) = Len(output)
  <2>1. SUFFICES ASSUME end # NotAnswered
                 PROVE  /\ \A i \in DOMAIN guards : guards[i] \in {"allow", "reject"}
                        /\ Len(shown) = Len(output)
    OBVIOUS
  <2>2. answer # NotAnswered
    BY <1>14a, <2>1
  <2>3. \A i \in DOMAIN outs : outs[i] \in {"allow", "reject"}
    BY <1>11, <2>1, <2>2
  <2>4. Len(shown) = Len(output)
    <3>1. shown = [i \in 1..Len(outs) |-> Guarded(SubSeq(outs, 1, i - 1), "output", answer)]
      BY <1>3, <1>14b, <2>2
    <3>2. Len(outs) \in Nat
      BY <1>3
    <3>3. QED
      BY <1>3, <3>1, <3>2
  <2>5. \A i \in DOMAIN input : input[i] \in {"allow", "reject"}
    BY <1>2, <1>7, <2>2
  <2>6. \A i \in DOMAIN output : output[i] \in {"allow", "reject"}
    BY <1>3, <2>3
  <2>7. QED
    BY <1>12, <2>4, <2>5, <2>6
<1>16. \A i \in DOMAIN shown : shown[i] = <<"answer">> => \A j \in 1..(i - 1) : output[j] = "allow"
  <2>1. SUFFICES ASSUME NEW i \in DOMAIN shown, shown[i] = <<"answer">>
                 PROVE  \A j \in 1..(i - 1) : output[j] = "allow"
    OBVIOUS
  <2>2. answer # NotAnswered /\ i \in DOMAIN outs
        /\ Guarded(SubSeq(outs, 1, i - 1), "output", answer) = <<"answer">>
    <3>1. answer # NotAnswered
      BY <1>14c, <2>1
    <3>2. QED
      BY <1>14b, <2>1, <3>1
  <2>3. PICK head : head = SubSeq(outs, 1, i - 1)
    OBVIOUS
  <2>4. /\ i \in 1..Len(outs) /\ head \in Seq(GuardrailVerdicts)
        /\ DOMAIN head = 1..(i - 1) /\ \A j \in 1..(i - 1) : head[j] = outs[j]
    BY <1>3, <2>2, <2>3
  <2>5. \/ \A j \in DOMAIN head : head[j] = "allow"
        \/ \E n : Guarded(head, "output", answer) = <<"output", n>>
        \/ Guarded(head, "output", answer) = NotAnswered
    BY <2>4, GuardedIs DEF GuardrailVerdicts
  <2>6. \A j \in DOMAIN head : head[j] = "allow"
    <3>1. NotAnswered # <<"answer">>
      BY DEF NotAnswered
    <3>2. Guarded(head, "output", answer) = <<"answer">>
      BY <2>2, <2>3
    <3>3. QED
      BY <2>5, <3>1, <3>2, TextsDiffer
  <2>7. QED
    BY <1>3, <2>4, <2>6
<1>17. CallsAreGuarded(input, outcome, formatter, output, call)
  BY <1>1, <1>6, <1>13, <1>14, <1>15, <1>16 DEF CallsAreGuarded, guards
<1>18. QED
  BY <1>17 DEF call

(* The guardrails of an agent pass only together, however many it has.     *)
THEOREM AgentIsGuarded ==
    ASSUME NEW executors \in Seq(Executors)
    PROVE  GuardrailsAgree(executors, AgentGuardrails(executors))
<1> DEFINE verdicts == [i \in DOMAIN executors |-> Verdict(executors[i])]
           errors == {i \in DOMAIN verdicts : verdicts[i] = "error"}
           trips == {i \in DOMAIN verdicts : verdicts[i] = "raise"}
           results == AgentGuardrails(executors)
<1>1. CASE errors # {}
  <2>1. results = {<<"error", i>> : i \in errors}
    BY <1>1 DEF AgentGuardrails
  <2> HIDE DEF errors, results
  <2>2. <<"passed", 0>> \notin results /\ \A r \in results : r[1] = "error"
    BY <2>1
  <2> USE DEF results
  <2>3. QED
    BY <2>2 DEF GuardrailsAgree
<1>2. CASE errors = {} /\ trips # {}
  <2>1. results = {<<"tripwire", Min(trips)>>}
    BY <1>2 DEF AgentGuardrails
  <2> HIDE DEF errors, trips, results
  <2>2. <<"passed", 0>> \notin results
    BY <2>1
  <2>3. Cardinality(results) = 1
    BY <2>1, FS_Singleton
  <2> USE DEF results
  <2>4. QED
    BY <2>2, <2>3 DEF GuardrailsAgree
<1>3. CASE errors = {} /\ trips = {}
  <2>1. results = {<<"passed", 0>>}
    BY <1>3 DEF AgentGuardrails
  <2>2. \A i \in DOMAIN executors : Verdict(executors[i]) # "error" /\ Verdict(executors[i]) # "raise"
    BY <1>3
  <2>3. Cardinality(results) = 1
    BY <2>1, FS_Singleton
  <2>4. \A i \in DOMAIN executors : executors[i] \in Executors
    BY ElementOfSeq
  <2> HIDE DEF errors, trips, results, verdicts
  <2>5. \A i \in DOMAIN executors : executors[i] \in {"allow", "reject"}
    BY <2>2, <2>4 DEF Verdict, Executors, GuardrailVerdicts
  <2>6. QED
    BY <2>1, <2>3, <2>5 DEF GuardrailsAgree, results
<1>4. QED
  BY <1>1, <1>2, <1>3

-----------------------------------------------------------------------------
(* A call of an agent as a tool.                                           *)

(* What was said last was said.                                            *)
LEMMA LastIsHeld ==
    ASSUME NEW S, NEW s \in Seq(S), s # <<>>
    PROVE  Last(s) \in ToSet(s) /\ Last(s) \in S
<1>1. Len(s) \in 1..Len(s) /\ DOMAIN s = 1..Len(s) /\ s[Len(s)] \in S
  OBVIOUS
<1>2. QED
  BY <1>1 DEF Last, ToSet

LEMMA OutputWasSaid ==
    ASSUME NEW T, NEW run, run.items \in Seq(NestedItems)
    PROVE  OutputText(run) \in {run.final, run.output} \cup ToSet(SaidBy(run.items))
<1> DEFINE texts == [i \in DOMAIN run.items |-> run.items[i][2]]
           places == {i \in DOMAIN texts : texts[i] \notin {"call"}}
<1>1. texts \in Seq({"m", "o", "call"})
  <2>1. \A i \in DOMAIN run.items : run.items[i] \in NestedItems
    BY ElementOfSeq
  <2>2. \A item \in NestedItems : item[2] \in {"m", "o", "call"}
    BY DEF NestedItems
  <2>3. QED
    BY <2>1, <2>2
<1>2. SaidBy(run.items) = Picked(texts, places)
  BY DEF SaidBy, Others
<1>3. places \in SUBSET DOMAIN texts
  OBVIOUS
<1> HIDE DEF texts, places
<1>4. SaidBy(run.items) \in Seq({"m", "o", "call"})
  BY <1>1, <1>2, <1>3, PickedAre
<1>5. CASE run.final \notin {Unset, ""}
  BY <1>5 DEF OutputText
<1>6. CASE run.final \in {Unset, ""} /\ SaidBy(run.items) # <<>>
  <2>1. OutputText(run) = Last(SaidBy(run.items))
    BY <1>6 DEF OutputText
  <2>2. QED
    BY <1>4, <1>6, <2>1, LastIsHeld
<1>7. CASE run.final \in {Unset, ""} /\ SaidBy(run.items) = <<>>
  BY <1>7 DEF OutputText
<1>8. QED
  BY <1>5, <1>6, <1>7

LEMMA ExtractedIs ==
    ASSUME NEW options \in ToolOptions, NEW text, NEW keys
    PROVE  \/ options.extractor = "none" /\ Extracted(options, text, keys) = Told(text, keys)
           \/ options.extractor = "text" /\ Extracted(options, text, keys) = Told("extracted", keys)
           \/ options.extractor = "fails" /\ Extracted(options, text, keys) = Erred(keys)
<1>1. options.extractor \in {"none", "text", "fails"}
  BY DEF ToolOptions
<1>2. CASE options.extractor = "none"
  BY <1>2 DEF Extracted
<1>3. CASE options.extractor = "text"
  BY <1>3 DEF Extracted
<1>4. CASE options.extractor = "fails"
  BY <1>4 DEF Extracted
<1>5. QED
  BY <1>1, <1>2, <1>3, <1>4

LEMMA PlainEndIs ==
    ASSUME NEW options, NEW context, NEW run
    PROVE  LET keys == {<<context.scope, "call">>}
               plain == PlainEnd(options, context, run)
           IN /\ run.outcome # "failed" => plain = Extracted(options, OutputText(run), keys)
              /\ run.outcome = "failed" /\ Formats(options) => plain = Told("formatted", {})
              /\ run.outcome = "failed" /\ ~Formats(options) => plain = Erred({})
<1> DEFINE plain == PlainEnd(options, context, run)
<1>1. run.outcome # "failed" => plain = Extracted(options, OutputText(run), {<<context.scope, "call">>})
  BY DEF PlainEnd
<1>2. run.outcome = "failed" /\ Formats(options) => plain = Told("formatted", {})
  BY DEF PlainEnd
<1>3. run.outcome = "failed" /\ ~Formats(options) => plain = Erred({})
  BY DEF PlainEnd
<1>4. QED
  BY <1>1, <1>2, <1>3

LEMMA StreamedEndIs ==
    ASSUME NEW options, NEW context, NEW run
    PROVE  LET keys == {<<context.scope, "call">>}
               end == StreamedEnd(options, context, run)
           IN /\ options.stream = "fails" => end = Erred({})
              /\ options.stream # "fails" /\ run.outcome # "failed"
                     => end = Extracted(options, OutputText(run), keys)
              /\ options.stream # "fails" /\ run.outcome = "failed" /\ Formats(options)
                     => end = Told("formatted", {})
              /\ options.stream # "fails" /\ run.outcome = "failed" /\ ~Formats(options)
                     => end = IF options.extractor = "text" THEN Told("extracted", {}) ELSE Erred({})
<1> DEFINE end == StreamedEnd(options, context, run)
<1>1. options.stream = "fails" => end = Erred({})
  BY DEF StreamedEnd
<1>2. options.stream # "fails" /\ run.outcome # "failed"
          => end = Extracted(options, OutputText(run), {<<context.scope, "call">>})
  BY DEF StreamedEnd
<1>3. options.stream # "fails" /\ run.outcome = "failed" /\ Formats(options)
          => end = Told("formatted", {})
  BY DEF StreamedEnd
<1>4. options.stream # "fails" /\ run.outcome = "failed" /\ ~Formats(options)
          => end = IF options.extractor = "text" THEN Told("extracted", {}) ELSE Erred({})
  BY DEF StreamedEnd
<1>5. QED
  BY <1>1, <1>2, <1>3, <1>4

(* The run of an agent as a tool ends in the same way with and without a   *)
(* listener, whatever the options, and however many items it has; but for  *)
(* a handler that fails and an extractor on a failed run, and the session, *)
(* which only a streamed run uses (ListeningChangesNothing).               *)
THEOREM EveryRunIsListenedTo ==
    ASSUME NEW options \in ToolOptions, NEW context, NEW arguments, NEW isTyped, NEW builder,
           NEW schema, NEW run, run.items \in Seq(NestedItems),
           context.config = <<>> \/ context.config = <<Config("parent", "parents")>>
    PROVE  ListeningChangesNothing(options, context, run,
               CallAgent(options, context, arguments, isTyped, builder, schema, run))
<1> DEFINE call == CallAgent(options, context, arguments, isTyped, builder, schema, run)
           listened == [options EXCEPT !.stream = "taken"]
           other == IF options.stream = "none" THEN StreamedEnd(listened, context, run)
                    ELSE PlainEnd(options, context, run)
           keys == {<<context.scope, "call">>}
           text == OutputText(run)
           said == {run.final, run.output} \cup ToSet(SaidBy(run.items))
<1>1. /\ call.end = IF options.stream = "none" THEN PlainEnd(options, context, run)
                    ELSE StreamedEnd(options, context, run)
      /\ call.context.approvals = {}
      /\ call.config = NestedConfig(options, context)
  BY DEF CallAgent, NestedContext
<1>2. /\ listened \in ToolOptions /\ listened.stream = "taken"
      /\ listened.extractor = options.extractor /\ listened.formatter = options.formatter
      /\ Formats(listened) <=> Formats(options)
      /\ Formats(options) <=> options.formatter = "text"
  BY DEF ToolOptions, Formats
<1>3. options.stream \in {"none", "taken", "fails"}
  BY DEF ToolOptions
<1>4. text \in said
  BY OutputWasSaid
<1> HIDE DEF call, listened, text, said
<1>5. Extracted(listened, text, keys) = Extracted(options, text, keys)
  BY <1>2 DEF Extracted
<1>6. PICK ended : ended = Extracted(options, text, keys)
  OBVIOUS
<1>7. \/ options.extractor = "none" /\ ended = Told(text, keys)
      \/ options.extractor = "text" /\ ended = Told("extracted", keys)
      \/ options.extractor = "fails" /\ ended = Erred(keys)
  BY <1>6, ExtractedIs
<1>8. /\ options.stream = "none" =>
             /\ run.outcome # "failed" => call.end = ended /\ other = ended
             /\ run.outcome = "failed" /\ Formats(options)
                    => call.end = Told("formatted", {}) /\ other = Told("formatted", {})
             /\ run.outcome = "failed" /\ ~Formats(options)
                    => /\ call.end = Erred({})
                       /\ other = Erred({}) \/ options.extractor = "text"
      /\ options.stream = "taken" =>
             /\ run.outcome # "failed" => call.end = ended /\ other = ended
             /\ run.outcome = "failed" /\ Formats(options)
                    => call.end = Told("formatted", {}) /\ other = Told("formatted", {})
             /\ run.outcome = "failed" /\ ~Formats(options)
                    => \/ options.extractor = "text" /\ call.end = Told("extracted", {})
                       \/ options.extractor # "text" /\ call.end = Erred({}) /\ other = Erred({})
      /\ options.stream = "fails" => call.end = Erred({})
  <2>1. CASE options.stream = "none"
    <3>1. call.end = PlainEnd(options, context, run) /\ other = StreamedEnd(listened, context, run)
      BY <1>1, <2>1
    <3>2. QED
      BY <1>2, <1>5, <1>6, <2>1, <3>1, PlainEndIs, StreamedEndIs DEF text
  <2>2. CASE options.stream # "none"
    <3>1. call.end = StreamedEnd(options, context, run) /\ other = PlainEnd(options, context, run)
      BY <1>1, <2>2
    <3>2. QED
      BY <1>6, <2>2, <3>1, PlainEndIs, StreamedEndIs DEF text
  <2>3. QED
    BY <2>1, <2>2
<1> HIDE DEF other
<1>9. \A t, k : /\ Told(t, k).kept = k /\ Told(t, k).answer = <<"text", t>>
                /\ Told(t, k).answer[1] = "text" /\ Told(t, k).answer[2] = t
                /\ Erred(k).kept = k /\ Erred(k).answer[1] # "text"
  BY DEF Told, Erred
<1>10. \/ call.end = other
       \/ options.stream = "fails"
       \/ options.extractor = "text" /\ run.outcome = "failed"
  BY <1>3, <1>8
<1>11. /\ call.end.kept # {} <=> (run.outcome # "failed" /\ options.stream # "fails")
       /\ \A key \in call.end.kept : key[1] = context.scope
  <2>1. keys # {} /\ \A key \in keys : key[1] = context.scope
    OBVIOUS
  <2> HIDE DEF keys
  <2>2. ended.kept = keys
    BY <1>7, <1>9
  <2>3. CASE options.stream # "fails" /\ run.outcome # "failed"
    <3>1. call.end = ended
      BY <1>3, <1>8, <2>3
    <3>2. QED
      BY <2>1, <2>2, <2>3, <3>1
  <2>4. CASE options.stream = "fails" \/ run.outcome = "failed"
    <3>1. call.end.kept = {}
      BY <1>3, <1>8, <1>9, <2>4
    <3>2. QED
      BY <2>4, <3>1
  <2>5. QED
    BY <2>3, <2>4
<1>12. call.end.answer[1] = "text" =>
           \/ call.end.answer[2] \in said /\ run.outcome # "failed"
           \/ call.end.answer[2] = "extracted" /\ options.extractor = "text"
           \/ call.end.answer[2] = "formatted" /\ options.formatter = "text"
  BY <1>2, <1>3, <1>4, <1>7, <1>8, <1>9
<1>13. call.config.conversation = "parents" => options.config = <<>> /\ options.conversation = Unset
  <2>1. options.config \in {<<>>, <<Config("configured", "theirs")>>} /\ options.conversation \in {Unset, "own"}
    BY DEF ToolOptions
  <2>2. CASE options.conversation = "own"
    <3>1. call.config.conversation = "own"
      BY <1>1, <2>2 DEF NestedConfig, Config, Or, Unset
    <3>2. QED
      BY <3>1
  <2>3. CASE options.config # <<>>
    <3>1. options.config[1] = Config("configured", "theirs")
      BY <2>1, <2>3
    <3>2. call.config.conversation = Or(options.conversation, options.config[1].conversation)
      BY <1>1, <2>3 DEF NestedConfig, Config
    <3>3. call.config.conversation \in {"own", "theirs"}
      BY <2>1, <3>1, <3>2 DEF Config, Or
    <3>4. QED
      BY <3>3
  <2>4. QED
    BY <2>1, <2>2, <2>3
<1>14. ListeningChangesNothing(options, context, run, call)
  BY <1>1, <1>10, <1>11, <1>12, <1>13 DEF ListeningChangesNothing, other, listened, said
<1>15. QED
  BY <1>14 DEF call

-----------------------------------------------------------------------------
(* Turns of the command line client.                                       *)

CodexIds == {NoId, "a", "p", "t", "u"}

LEMMA EventsAre ==
    ASSUME NEW events \in Seq(CodexEvents), NEW type
    PROVE  /\ EventsOf(events, type) \in Seq(CodexEvents)
           /\ \A e : e \in ToSet(EventsOf(events, type)) <=> e \in ToSet(events) /\ e.type = type
           /\ EventsOf(events, type) = <<>> <=> \A e \in ToSet(events) : e.type # type
<1> DEFINE places == {i \in DOMAIN events : events[i].type = type}
           found == EventsOf(events, type)
<1>1. found = Picked(events, places)
  BY DEF EventsOf
<1>2. places \in SUBSET DOMAIN events
  OBVIOUS
<1>3. \A e : (\E i \in places : events[i] = e) <=> e \in ToSet(events) /\ e.type = type
  BY DEF ToSet
<1> HIDE DEF places, found
<1>4. found \in Seq(CodexEvents) /\ ToSet(found) = {events[i] : i \in places}
  BY <1>1, <1>2, PickedAre, PickedCounts
<1>5. \A e : e \in ToSet(found) <=> e \in ToSet(events) /\ e.type = type
  BY <1>3, <1>4
<1>6. found = <<>> <=> ToSet(found) = {}
  <2>1. found # <<>> => ToSet(found) # {}
    BY <1>4, LastIsHeld
  <2>2. QED
    BY <2>1, EmptyHolds
<1>7. QED
  BY <1>4, <1>5, <1>6 DEF found

LEMMA HeldEvents ==
    ASSUME NEW events \in Seq(CodexEvents), NEW e \in ToSet(events)
    PROVE  e \in CodexEvents
BY ElementOfSeq DEF ToSet

LEMMA GarbageIs ==
    ASSUME NEW events \in Seq(CodexEvents)
    PROVE  EventsOf(events, "garbage") = <<>> <=> Event("garbage", "x") \notin ToSet(events)
<1>1. \A e \in CodexEvents : e.type = "garbage" <=> e = Event("garbage", "x")
  BY DEF CodexEvents, Event
<1>2. QED
  BY <1>1, EventsAre, HeldEvents

LEMMA MessagesAreSaid ==
    ASSUME NEW events \in Seq(CodexEvents), Messages(events) # <<>>
    PROVE  Event("item", Last(Messages(events)).value) \in ToSet(events)
<1> DEFINE items == EventsOf(events, "item")
           places == {i \in DOMAIN items : items[i] \notin {Event("item", "other")}}
<1>1. Messages(events) = Picked(items, places)
  BY DEF Messages, Others
<1>2. places \in SUBSET DOMAIN items
  OBVIOUS
<1> HIDE DEF places
<1>3. items \in Seq(CodexEvents)
  BY EventsAre
<1>4. /\ Messages(events) \in Seq(CodexEvents)
      /\ ToSet(Messages(events)) \subseteq ToSet(items)
  <2>1. Messages(events) \in Seq(CodexEvents)
    BY <1>1, <1>2, <1>3, PickedAre
  <2>2. ToSet(Messages(events)) = {items[i] : i \in places}
    BY <1>1, <1>2, <1>3, PickedCounts
  <2>3. ToSet(items) = {items[i] : i \in DOMAIN items}
    BY DEF ToSet
  <2>4. QED
    BY <1>2, <2>1, <2>2, <2>3
<1>5. Last(Messages(events)) \in ToSet(items)
  BY <1>4, LastIsHeld
<1>6. PICK e : e = Last(Messages(events))
  OBVIOUS
<1>7. e \in ToSet(events) /\ e.type = "item" /\ e \in CodexEvents
  BY <1>5, <1>6, EventsAre, HeldEvents
<1>8. \A x \in CodexEvents : x.type = "item" => x = Event("item", x.value)
  BY DEF CodexEvents, Event
<1>9. e = Event("item", e.value)
  BY <1>7, <1>8
<1>10. QED
  BY <1>6, <1>7, <1>9

(* What a process told.                                                    *)
LEMMA StreamedIs ==
    ASSUME NEW thread \in CodexIds, NEW turn, NEW process, process.events \in Seq(CodexEvents)
    PROVE  LET readable == /\ Launch(turn) /\ process.success
                           /\ Event("garbage", "x") \notin ToSet(process.events)
               started == EventsOf(process.events, "started")
               streamed == Streamed(thread, turn, process)
           IN /\ streamed.ok <=> readable
              /\ streamed.ok => streamed.events = process.events
              /\ streamed.thread = IF readable /\ started # <<>> THEN Last(started).value ELSE thread
              /\ streamed.thread \in CodexIds
<1> DEFINE readable == /\ Launch(turn) /\ process.success
                       /\ Event("garbage", "x") \notin ToSet(process.events)
           started == EventsOf(process.events, "started")
           streamed == Streamed(thread, turn, process)
<1>1. streamed.ok <=> readable
  BY GarbageIs DEF Streamed
<1>2. streamed.ok => streamed.events = process.events
  BY DEF Streamed
<1>3. streamed.thread = IF streamed.ok /\ started # <<>> THEN Last(started).value ELSE thread
  BY DEF Streamed
<1>4. started # <<>> => Last(started).value \in CodexIds
  <2>1. SUFFICES ASSUME started # <<>> PROVE Last(started).value \in CodexIds
    OBVIOUS
  <2>2. PICK e : e = Last(started)
    OBVIOUS
  <2>3. e \in ToSet(started)
    BY <2>1, <2>2, EventsAre, LastIsHeld
  <2>4. e \in CodexEvents /\ e.type = "started"
    BY <2>3, EventsAre, HeldEvents
  <2>5. QED
    BY <2>2, <2>4 DEF CodexEvents, Event, CodexIds
<1>5. QED
  BY <1>1, <1>2, <1>3, <1>4

LEMMA TurnIs ==
    ASSUME NEW thread \in CodexIds, NEW turn, NEW process, process.events \in Seq(CodexEvents)
    PROVE  LET told == TurnOf(thread, turn, process)
           IN /\ told.ok =>
                    /\ Launch(turn) /\ process.success
                    /\ \A e \in ToSet(process.events) :
                           e.type \notin {"failed", "error", "garbage"}
                    /\ told.response # "" =>
                           Event("item", told.response) \in ToSet(process.events)
              /\ ~told.ok => told.response = ""
              /\ told.thread = Streamed(thread, turn, process).thread
<1> DEFINE told == TurnOf(thread, turn, process)
           streamed == Streamed(thread, turn, process)
           events == process.events
           fails == ~streamed.ok \/ EventsOf(streamed.events, "failed")
                                        \o EventsOf(streamed.events, "error") # <<>>
<1>1. fails => told = FailedTurn(streamed.thread)
  BY DEF TurnOf
<1>2. ~fails => /\ told.ok /\ told.thread = streamed.thread
                /\ told.response = IF Messages(streamed.events) = <<>> THEN ""
                                   ELSE Last(Messages(streamed.events)).value
  BY DEF TurnOf
<1>3. streamed.ok => /\ Launch(turn) /\ process.success /\ streamed.events = events
                     /\ EventsOf(events, "garbage") = <<>>
  BY StreamedIs, GarbageIs
<1>4. ~fails => EventsOf(events, "failed") = <<>> /\ EventsOf(events, "error") = <<>>
  <2>1. \A s, t \in Seq(CodexEvents) : s \o t = <<>> => s = <<>> /\ t = <<>>
    OBVIOUS
  <2>2. EventsOf(events, "failed") \in Seq(CodexEvents) /\ EventsOf(events, "error") \in Seq(CodexEvents)
    BY EventsAre
  <2>3. QED
    BY <1>3, <2>1, <2>2
<1> HIDE DEF told, fails, streamed
<1>5. CASE fails
  <2>1. \A x : /\ FailedTurn(x).ok = FALSE /\ FailedTurn(x).response = ""
                /\ FailedTurn(x).thread = x
    BY DEF FailedTurn
  <2>2. told.ok = FALSE /\ told.response = "" /\ told.thread = streamed.thread
    BY <1>1, <1>5, <2>1
  <2>3. QED
    BY <2>2 DEF told, streamed
<1>6. CASE ~fails
  <2>1. streamed.ok /\ streamed.events = events
    BY <1>3, <1>6 DEF fails
  <2>2. \A e \in ToSet(events) : e.type \notin {"failed", "error", "garbage"}
    BY <1>3, <1>4, <1>6, <2>1, EventsAre
  <2>3. told.response # "" => Event("item", told.response) \in ToSet(events)
    BY <1>2, <1>6, <2>1, MessagesAreSaid
  <2>4. QED
    BY <1>2, <1>3, <1>6, <2>1, <2>2, <2>3 DEF told, streamed
<1>7. QED
  BY <1>5, <1>6

LEMMA BehindIs ==
    ASSUME NEW W, NEW s \in Seq(W), NEW t \in Seq(W)
    PROVE  /\ s \o t \in Seq(W) /\ Len(s \o t) = Len(s) + Len(t)
           /\ \A i \in 1..Len(s) : (s \o t)[i] = s[i]
           /\ \A i \in 1..Len(t) : (s \o t)[Len(s) + i] = t[i]
OBVIOUS

(* The arguments of a process.                                             *)
ArgumentsFollow(args, options, thread) ==
    LET resumes == {k \in DOMAIN args : args[k] = "resume"}
    IN /\ resumes = {} <=> thread = NoId
       /\ \A r \in resumes : args[r + 1] = thread
       /\ args # <<>> /\ Last(args) = "-"
       /\ \A flag \in options : \E k \in DOMAIN args :
              args[k] = flag /\ \A r \in resumes : k < r

LEMMA FlagsAre ==
    ToSet(Flags) = {"model", "sandbox", "cd", "add-dir", "skip-git-repo-check",
                     "output-schema", "reasoning", "network", "web_search", "approval"}
<1>1. DOMAIN Flags = {1, 2, 3, 4, 5, 6, 7, 8, 9, 10}
  <2>1. Len(Flags) = 10 /\ DOMAIN Flags = 1..10
    BY DEF Flags
  <2>2. 1..10 = {1, 2, 3, 4, 5, 6, 7, 8, 9, 10}
    OBVIOUS
  <2>3. QED
    BY <2>1, <2>2
<1>2. ToSet(Flags) = {Flags[1], Flags[2], Flags[3], Flags[4], Flags[5],
                      Flags[6], Flags[7], Flags[8], Flags[9], Flags[10]}
  BY <1>1 DEF ToSet
<1>3. QED
  BY <1>2 DEF Flags

LEMMA ArgumentsAre ==
    ASSUME NEW options, NEW schemaFile \in BOOLEAN, NEW thread \in CodexIds, NEW images \in Nat,
           options \subseteq ToSet(Flags)
    PROVE  ArgumentsFollow(CommandArgs(options, schemaFile, thread, images), options, thread)
<1> DEFINE set == options \cup IF schemaFile THEN {"output-schema"} ELSE {}
           W == ToSet(Flags) \cup CodexIds \cup {"resume", "image", "-"}
<1>1. PICK a : a = Those(Flags, set)
  OBVIOUS
<1>2. PICK b : b = IF thread = NoId THEN <<>> ELSE <<"resume", thread>>
  OBVIOUS
<1>3. PICK c : c = [i \in 1..images |-> "image"]
  OBVIOUS
<1>4. PICK d : d = <<"-">>
  OBVIOUS
<1>5. ToSet(Flags) = {"model", "sandbox", "cd", "add-dir", "skip-git-repo-check",
                      "output-schema", "reasoning", "network", "web_search", "approval"}
  BY FlagsAre
<1>6. Flags \in Seq(ToSet(Flags))
  <2>1. ASSUME NEW V, ToSet(Flags) \subseteq V PROVE Flags \in Seq(V)
    BY <1>5, <2>1 DEF Flags
  <2>2. QED
    BY <2>1
<1>7. /\ a \in Seq(ToSet(Flags)) /\ ToSet(a) = ToSet(Flags) \cap set
  BY <1>1, <1>6, ThoseHold
<1> HIDE DEF W, set
<1>8. /\ \A w \in ToSet(Flags) : w \in W /\ w # "resume"
      /\ \A w \in CodexIds : w \in W /\ w # "resume"
      /\ "resume" \in W /\ "image" \in W /\ "-" \in W
  BY <1>5 DEF W, CodexIds, NoId
<1>9. a \in Seq(W) /\ \A i \in 1..Len(a) : a[i] # "resume"
  BY <1>7, <1>8
<1>10. b \in Seq(W) /\ (thread = NoId => Len(b) = 0)
       /\ (thread # NoId => Len(b) = 2 /\ b[1] = "resume" /\ b[2] = thread)
  BY <1>2, <1>8
<1>11. c \in Seq(W) /\ Len(c) = images /\ \A i \in 1..images : c[i] = "image"
  BY <1>3, <1>8
<1>12. d \in Seq(W) /\ Len(d) = 1 /\ d[1] = "-"
  BY <1>4, <1>8
<1>13. PICK args : args = CommandArgs(options, schemaFile, thread, images)
  OBVIOUS
<1>14. args = ((a \o b) \o c) \o d
  BY <1>1, <1>2, <1>3, <1>4, <1>13 DEF CommandArgs, set
<1>15. PICK l \in Nat : l = Len(a)
  BY <1>9
<1>16. PICK n \in Nat : n = Len(b)
  BY <1>10
<1>17. PICK ab : ab = a \o b
  OBVIOUS
<1>18. /\ ab \in Seq(W) /\ Len(ab) = l + n
       /\ \A i \in 1..l : ab[i] = a[i]
       /\ \A i \in 1..n : ab[l + i] = b[i]
  BY <1>9, <1>10, <1>15, <1>16, <1>17
<1>19. PICK abc : abc = ab \o c
  OBVIOUS
<1>20. /\ abc \in Seq(W) /\ Len(abc) = l + n + images
       /\ \A i \in 1..(l + n) : abc[i] = ab[i]
       /\ \A i \in 1..images : abc[l + n + i] = "image"
  <2>1. /\ abc \in Seq(W) /\ Len(abc) = (l + n) + images
        /\ \A i \in 1..(l + n) : abc[i] = ab[i]
        /\ \A i \in 1..images : abc[(l + n) + i] = c[i]
    <3>1. /\ ab \o c \in Seq(W) /\ Len(ab \o c) = Len(ab) + Len(c)
          /\ \A i \in 1..Len(ab) : (ab \o c)[i] = ab[i]
          /\ \A i \in 1..Len(c) : (ab \o c)[Len(ab) + i] = c[i]
      <4>1. ab \in Seq(W) /\ c \in Seq(W)
        BY <1>11, <1>18
      <4>2. QED
        BY <4>1, BehindIs
    <3>2. Len(ab) = l + n /\ Len(c) = images
      BY <1>11, <1>18
    <3>3. QED
      BY <1>19, <3>1, <3>2
  <2>2. QED
    BY <1>11, <2>1
<1>21. /\ args \in Seq(W) /\ Len(args) = l + n + images + 1
       /\ \A i \in 1..(l + n + images) : args[i] = abc[i]
       /\ args[l + n + images + 1] = "-"
  <2>1. args = abc \o d
    BY <1>14, <1>17, <1>19
  <2>2. /\ args \in Seq(W) /\ Len(args) = (l + n + images) + 1
        /\ \A i \in 1..(l + n + images) : args[i] = abc[i]
        /\ \A i \in 1..1 : args[(l + n + images) + i] = d[i]
    <3>1. /\ abc \o d \in Seq(W) /\ Len(abc \o d) = Len(abc) + Len(d)
          /\ \A i \in 1..Len(abc) : (abc \o d)[i] = abc[i]
          /\ \A i \in 1..Len(d) : (abc \o d)[Len(abc) + i] = d[i]
      <4>1. abc \in Seq(W) /\ d \in Seq(W)
        BY <1>12, <1>20
      <4>2. QED
        BY <4>1, BehindIs
    <3>2. Len(abc) = l + n + images /\ Len(d) = 1
      BY <1>12, <1>20
    <3>3. QED
      BY <2>1, <3>1, <3>2
  <2>3. QED
    BY <1>12, <2>2
<1>22. DOMAIN args = 1..(l + n + images + 1)
  BY <1>21
<1>23. /\ \A i \in 1..l : args[i] = a[i]
       /\ \A i \in 1..n : args[l + i] = b[i]
  <2>1. ASSUME NEW i \in 1..l PROVE args[i] = a[i]
    <3>1. i \in 1..(l + n) /\ i \in 1..(l + n + images)
      OBVIOUS
    <3>2. QED
      BY <1>18, <1>20, <1>21, <3>1
  <2>2. ASSUME NEW i \in 1..n PROVE args[l + i] = b[i]
    <3>1. l + i \in 1..(l + n) /\ l + i \in 1..(l + n + images)
      OBVIOUS
    <3>2. QED
      BY <1>18, <1>20, <1>21, <3>1
  <2>3. QED
    BY <2>1, <2>2
<1>24. \A i \in (l + n + 1)..(l + n + images + 1) : args[i] \in {"image", "-"}
  <2>1. SUFFICES ASSUME NEW i \in (l + n + 1)..(l + n + images + 1) PROVE args[i] \in {"image", "-"}
    OBVIOUS
  <2>2. CASE i = l + n + images + 1
    BY <1>21, <2>2
  <2>3. CASE i # l + n + images + 1
    <3>1. /\ i - (l + n) \in 1..images /\ i = l + n + (i - (l + n))
          /\ i \in 1..(l + n + images)
      BY <2>3
    <3>2. QED
      BY <1>20, <1>21, <3>1
  <2>4. QED
    BY <2>2, <2>3
<1> DEFINE resumes == {k \in DOMAIN args : args[k] = "resume"}
<1>25. \A k \in resumes : k > l /\ k <= l + n
  <2>1. SUFFICES ASSUME NEW k \in resumes PROVE k > l /\ k <= l + n
    OBVIOUS
  <2>2. k \in 1..(l + n + images + 1) /\ args[k] = "resume"
    BY <1>22
  <2>3. ~(k \in 1..l)
    BY <1>9, <1>15, <1>23, <2>2
  <2>4. ~(k \in (l + n + 1)..(l + n + images + 1))
    BY <1>24, <2>2
  <2>5. QED
    BY <2>2, <2>3, <2>4
<1>26. thread = NoId => resumes = {}
  BY <1>10, <1>16, <1>22, <1>25
<1>27. thread # NoId => resumes = {l + 1} /\ args[(l + 1) + 1] = thread
  <2>1. SUFFICES ASSUME thread # NoId PROVE resumes = {l + 1} /\ args[(l + 1) + 1] = thread
    OBVIOUS
  <2>2. n = 2 /\ b[1] = "resume" /\ b[2] = thread
    BY <1>10, <1>16, <2>1
  <2>3. args[l + 1] = "resume" /\ args[l + 2] = thread /\ l + 1 \in 1..(l + n + images + 1)
    BY <1>23, <2>2
  <2>4. thread # "resume"
    BY <1>8
  <2>5. \A k \in resumes : k = l + 1
    <3>1. SUFFICES ASSUME NEW k \in resumes PROVE k = l + 1
      OBVIOUS
    <3>2. k \in Nat /\ args[k] = "resume"
      BY <1>22
    <3>3. k = l + 1 \/ k = l + 2
      BY <1>25, <2>2, <3>1, <3>2
    <3>4. QED
      BY <2>3, <2>4, <3>2, <3>3
  <2>6. l + 1 \in resumes
    BY <1>22, <2>3
  <2>7. (l + 1) + 1 = l + 2
    OBVIOUS
  <2>8. QED
    BY <2>3, <2>5, <2>6, <2>7
<1>28. args # <<>> /\ Last(args) = "-"
  BY <1>21 DEF Last
<1>29. \A flag \in options : \E k \in DOMAIN args : args[k] = flag /\ \A r \in resumes : k < r
  <2>1. SUFFICES ASSUME NEW flag \in options
                 PROVE  \E k \in DOMAIN args : args[k] = flag /\ \A r \in resumes : k < r
    OBVIOUS
  <2>2. flag \in ToSet(a)
    BY <1>7 DEF set
  <2>3. PICK k \in 1..l : a[k] = flag
    BY <1>9, <1>15, <2>2, HoldsAt
  <2>4. k \in DOMAIN args /\ args[k] = flag
    BY <1>22, <1>23, <2>3
  <2>5. \A r \in resumes : k < r
    BY <1>22, <1>25, <2>3
  <2>6. QED
    BY <2>4, <2>5
<1> HIDE DEF resumes
<1>30. /\ resumes = {} <=> thread = NoId
       /\ \A r \in resumes : args[r + 1] = thread
  BY <1>26, <1>27
<1>31. QED
  BY <1>13, <1>28, <1>29, <1>30 DEF resumes, ArgumentsFollow

(* One turn of a thread.                                                   *)
OneTurnFollows(client, told, launched, thread, turn, process) ==
    /\ told.ok =>
            /\ Launch(turn) /\ process.success
            /\ \A e \in ToSet(process.events) : e.type \notin {"failed", "error", "garbage"}
            /\ told.response # "" => Event("item", told.response) \in ToSet(process.events)
    /\ ~told.ok => told.response = ""
    /\ launched.args # <<>> =>
            /\ ArgumentsFollow(launched.args, client.flags, thread)
            /\ launched.env = Inherited \/ "inherited" \notin launched.env
            /\ client.apiKey => "CODEX_API_KEY" \in launched.env
            /\ client.env # Inherited => client.env \subseteq launched.env

(* What a client may be given.                                             *)
IsClient(client) ==
    /\ client.flags \subseteq ToSet(Flags)
    /\ client.env = Inherited \/ "inherited" \notin client.env
    /\ client.apiKey \in BOOLEAN /\ client.baseUrl \in BOOLEAN

LEMMA OneTurnIs ==
    ASSUME NEW client, IsClient(client), NEW thread \in CodexIds, NEW turn, NEW process,
           process.events \in Seq(CodexEvents), NEW input, ImagesIn(input) \in Nat
    PROVE  OneTurnFollows(client, TurnOf(thread, turn, process),
                          LaunchOf(client, thread, turn, input), thread, turn, process)
<1> DEFINE launched == LaunchOf(client, thread, turn, input)
           args == CommandArgs(client.flags, turn.schema = "object", thread, ImagesIn(input))
<1>1. CASE Launch(turn)
  <2>1. launched.args = args /\ launched.env = ProcessEnv(client.env, client.baseUrl, client.apiKey)
    BY <1>1 DEF LaunchOf
  <2>2. /\ launched.env = Inherited \/ "inherited" \notin launched.env
        /\ client.apiKey => "CODEX_API_KEY" \in launched.env
        /\ client.env # Inherited => client.env \subseteq launched.env
    BY <2>1 DEF ProcessEnv, IsClient, Inherited
  <2>3. ArgumentsFollow(args, client.flags, thread)
    <3>1. (turn.schema = "object") \in BOOLEAN
      OBVIOUS
    <3>2. QED
      BY <3>1, ArgumentsAre DEF IsClient
  <2> HIDE DEF args, launched
  <2>4. QED
    BY <2>1, <2>2, <2>3, TurnIs DEF OneTurnFollows, launched
<1>2. CASE ~Launch(turn)
  <2>1. launched.args = <<>>
    BY <1>2 DEF LaunchOf
  <2>2. QED
    BY <2>1, TurnIs DEF OneTurnFollows
<1>3. QED
  BY <1>1, <1>2

(* A turn of a thread goes on where the one before it ended, however many  *)
(* events a process prints, and whatever the client is given.              *)
THEOREM EveryTurnFollows ==
    ASSUME NEW asked \in {NoId, "a"}, NEW pinned \in {NoId, "p"},
           NEW client, IsClient(client), NEW turns, NEW processes,
           processes[1].events \in Seq(CodexEvents), processes[2].events \in Seq(CodexEvents),
           NEW input, ImagesIn(input) \in Nat
    PROVE  TurnsFollowTheirThread(asked, pinned, client, turns, processes,
               TwoTurns(asked, pinned, client, input, turns, processes))
<1> DEFINE start == ToolThread(asked, pinned)
           first == TurnOf(start, turns[1], processes[1])
           second == TurnOf(first.thread, turns[2], processes[2])
           both == TwoTurns(asked, pinned, client, input, turns, processes)
           started == EventsOf(processes[1].events, "started")
           readable == /\ Launch(turns[1]) /\ processes[1].success
                       /\ Event("garbage", "x") \notin ToSet(processes[1].events)
           expected == <<start, IF readable /\ started # <<>> THEN Last(started).value ELSE start>>
<1>1. start \in CodexIds
  BY DEF ToolThread, GivenIds, CodexIds
<1>2. first.thread = expected[2] /\ first.thread \in CodexIds
  <2>1. first.thread = Streamed(start, turns[1], processes[1]).thread
    <3>1. PICK process : process = processes[1]
      OBVIOUS
    <3>2. PICK turn : turn = turns[1]
      OBVIOUS
    <3>3. PICK thread \in CodexIds : thread = start
      BY <1>1
    <3>4. process.events \in Seq(CodexEvents)
      BY <3>1
    <3>5. TurnOf(thread, turn, process).thread = Streamed(thread, turn, process).thread
      BY <3>4, TurnIs
    <3>6. QED
      BY <3>1, <3>2, <3>3, <3>5
  <2>2. /\ Streamed(start, turns[1], processes[1]).thread = expected[2]
        /\ Streamed(start, turns[1], processes[1]).thread \in CodexIds
    BY <1>1, StreamedIs
  <2>3. QED
    BY <2>1, <2>2
<1>3. /\ both.told[1] = first /\ both.told[2] = second
      /\ both.launched[1] = LaunchOf(client, start, turns[1], input)
      /\ both.launched[2] = LaunchOf(client, first.thread, turns[2], input)
  BY DEF TwoTurns
<1>4. expected[1] = start
  OBVIOUS
<1> HIDE DEF start, expected, both
<1>5. OneTurnFollows(client, both.told[1], both.launched[1], expected[1], turns[1], processes[1])
  BY <1>1, <1>3, <1>4, OneTurnIs
<1>6. OneTurnFollows(client, both.told[2], both.launched[2], expected[2], turns[2], processes[2])
  BY <1>2, <1>3, OneTurnIs
<1> HIDE DEF first, second, readable, started
<1>7. \A i \in 1..2 :
          OneTurnFollows(client, both.told[i], both.launched[i], expected[i], turns[i], processes[i])
  BY <1>5, <1>6
<1>8. QED
  BY <1>7 DEF TurnsFollowTheirThread, OneTurnFollows, ArgumentsFollow, both, expected, start, readable, started

-----------------------------------------------------------------------------
(* The tools that are offered.                                             *)

(* All that an agent and its servers have, in one list, and the places of  *)
(* what it may offer.                                                      *)
Offerable(own, servers) == own \o FlattenSeq(servers)
Mine(own, servers, filter) ==
    {i \in DOMAIN Offerable(own, servers) :
        Offerable(own, servers)[i].enabled /\ (i > Len(own) => Allowed(filter, Offerable(own, servers)[i]))}
EnabledOf(tools) == {i \in DOMAIN tools : tools[i].enabled}
Permitted(servers, filter) ==
    {i \in DOMAIN FlattenSeq(servers) : Allowed(filter, FlattenSeq(servers)[i])}

(* A filter of what is not disabled goes through both lists.               *)
LEMMA VisibleIs ==
    ASSUME NEW T, NEW own \in Seq(T), NEW servers \in Seq(Seq(T)), NEW filter
    PROVE  \A tools, all :
              /\ \A i \in DOMAIN FlattenSeq(servers) : FlattenSeq(servers)[i].enabled = TRUE
              /\ tools = Picked(FlattenSeq(servers), Permitted(servers, filter))
              /\ all = own \o tools
              => Picked(all, EnabledOf(all))
                     = Picked(Offerable(own, servers), Mine(own, servers, filter))
<1>0. SUFFICES ASSUME NEW tools, NEW all,
             \A i \in DOMAIN FlattenSeq(servers) : FlattenSeq(servers)[i].enabled = TRUE,
             tools = Picked(FlattenSeq(servers), Permitted(servers, filter)),
             all = own \o tools
      PROVE  Picked(all, EnabledOf(all))
                 = Picked(Offerable(own, servers), Mine(own, servers, filter))
  OBVIOUS
<1>1. PICK listed \in Seq(T) : listed = FlattenSeq(servers)
  BY FlattenOfBoth
<1>2. PICK A \in SUBSET DOMAIN listed : A = {i \in DOMAIN listed : Allowed(filter, listed[i])}
  OBVIOUS
<1>3. PICK E \in SUBSET DOMAIN own : E = {i \in DOMAIN own : own[i].enabled}
  OBVIOUS
<1>4. tools = Picked(listed, A) /\ tools \in Seq(T)
  BY <1>0, <1>1, <1>2, PickedAre DEF Permitted
<1>5. \A i \in DOMAIN tools : tools[i].enabled = TRUE
  <2>1. PICK p, m : /\ Enumerates(p, m, A) /\ m = Len(Picked(listed, A))
                    /\ Picked(listed, A) = [k \in 1..m |-> listed[p[k]]]
    BY PickedBy
  <2>2. SUFFICES ASSUME NEW i \in DOMAIN tools PROVE tools[i].enabled = TRUE
    OBVIOUS
  <2>3. i \in 1..m /\ tools[i] = listed[p[i]]
    BY <1>4, <2>1
  <2>4. p[i] \in DOMAIN listed
    BY <2>1, <2>3 DEF Enumerates
  <2>5. QED
    BY <1>0, <1>1, <2>3, <2>4
<1>6. PICK D \in SUBSET DOMAIN tools : D = DOMAIN tools
  OBVIOUS
<1>7. {i \in DOMAIN all : all[i].enabled} = E \cup {Len(own) + j : j \in D}
  <2>1. /\ DOMAIN all = 1..(Len(own) + Len(tools)) /\ Len(own) \in Nat /\ Len(tools) \in Nat
        /\ DOMAIN own = 1..Len(own) /\ DOMAIN tools = 1..Len(tools)
    BY <1>0, <1>4
  <2>2. /\ \A i \in 1..Len(own) : all[i] = own[i]
        /\ \A j \in 1..Len(tools) : all[Len(own) + j] = tools[j]
    BY <1>0, <1>4
  <2>3. ASSUME NEW i \in 1..(Len(own) + Len(tools)), ~(i \in 1..Len(own))
        PROVE  \E j \in 1..Len(tools) : i = Len(own) + j
    <3>1. i - Len(own) \in 1..Len(tools) /\ i = Len(own) + (i - Len(own))
      BY <2>1, <2>3
    <3>2. QED
      BY <3>1
  <2>4. ASSUME NEW i \in DOMAIN all, all[i].enabled PROVE i \in E \cup {Len(own) + j : j \in D}
    <3>1. CASE i \in 1..Len(own)
      BY <1>3, <2>1, <2>2, <2>4, <3>1
    <3>2. CASE ~(i \in 1..Len(own))
      BY <1>6, <2>1, <2>3, <3>2
    <3>3. QED
      BY <3>1, <3>2
  <2>5. ASSUME NEW i \in E PROVE i \in DOMAIN all /\ all[i].enabled
    BY <1>3, <2>1, <2>2
  <2>6. ASSUME NEW j \in D PROVE Len(own) + j \in DOMAIN all /\ all[Len(own) + j].enabled
    <3>1. j \in 1..Len(tools) /\ tools[j].enabled = TRUE
      BY <1>5, <1>6, <2>1
    <3>2. all[Len(own) + j] = tools[j] /\ Len(own) + j \in 1..(Len(own) + Len(tools))
      BY <2>1, <2>2, <3>1
    <3>3. QED
      BY <2>1, <3>1, <3>2
  <2>7. QED
    BY <2>4, <2>5, <2>6
<1>8. Picked(all, EnabledOf(all)) = Picked(own, E) \o Picked(tools, D)
  <2>1. tools \in Seq(T)
    BY <1>4
  <2>2. Picked(own \o tools, Behind(own, E, D)) = Picked(own, E) \o Picked(tools, D)
    <3>1. \A t \in Seq(T) : \A J \in SUBSET DOMAIN t :
              Picked(own \o t, Behind(own, E, J)) = Picked(own, E) \o Picked(t, J)
      BY PickedOfBoth, SMTT(30)
    <3>2. QED
      BY <2>1, <3>1
  <2>5. QED
    BY <1>0, <1>7, <2>2 DEF Behind, EnabledOf
<1>9. Picked(tools, D) = tools
  BY <1>4, <1>6, PickedAll
<1>10. Mine(own, servers, filter) = E \cup {Len(own) + j : j \in A}
  <2>1. PICK has : has = own \o listed
    OBVIOUS
  <2>2. /\ DOMAIN has = 1..(Len(own) + Len(listed)) /\ Len(own) \in Nat /\ Len(listed) \in Nat
        /\ DOMAIN own = 1..Len(own) /\ DOMAIN listed = 1..Len(listed)
        /\ \A i \in 1..Len(own) : has[i] = own[i]
        /\ \A j \in 1..Len(listed) : has[Len(own) + j] = listed[j]
    BY <2>1
  <2>3. ASSUME NEW i \in 1..(Len(own) + Len(listed)), ~(i \in 1..Len(own))
        PROVE  \E j \in 1..Len(listed) : i = Len(own) + j
    <3>1. i - Len(own) \in 1..Len(listed) /\ i = Len(own) + (i - Len(own))
      BY <2>2, <2>3
    <3>2. QED
      BY <3>1
  <2>4. Mine(own, servers, filter)
            = {i \in DOMAIN has : has[i].enabled /\ (i > Len(own) => Allowed(filter, has[i]))}
    BY <1>1, <2>1 DEF Mine, Offerable
  <2>5. ASSUME NEW i \in DOMAIN has, has[i].enabled, i > Len(own) => Allowed(filter, has[i])
        PROVE  i \in E \cup {Len(own) + j : j \in A}
    <3>1. CASE i \in 1..Len(own)
      BY <1>3, <2>2, <2>5, <3>1
    <3>2. CASE ~(i \in 1..Len(own))
      <4>1. PICK j \in 1..Len(listed) : i = Len(own) + j
        BY <2>2, <2>3, <3>2
      <4>2. Allowed(filter, listed[j]) /\ j \in DOMAIN listed
        BY <2>2, <2>5, <4>1
      <4>3. QED
        BY <1>2, <4>1, <4>2
    <3>3. QED
      BY <3>1, <3>2
  <2>6. ASSUME NEW i \in E
        PROVE  i \in DOMAIN has /\ has[i].enabled /\ (i > Len(own) => Allowed(filter, has[i]))
    BY <1>3, <2>2
  <2>7. ASSUME NEW j \in A
        PROVE  /\ Len(own) + j \in DOMAIN has /\ has[Len(own) + j].enabled
               /\ Allowed(filter, has[Len(own) + j])
    BY <1>0, <1>1, <1>2, <2>2
  <2>8. QED
    BY <2>4, <2>5, <2>6, <2>7
<1>11. Picked(Offerable(own, servers), Mine(own, servers, filter)) = Picked(own, E) \o Picked(listed, A)
  <2>1. Picked(own \o listed, Behind(own, E, A)) = Picked(own, E) \o Picked(listed, A)
    <3>1. \A t \in Seq(T) : \A J \in SUBSET DOMAIN t :
              Picked(own \o t, Behind(own, E, J)) = Picked(own, E) \o Picked(t, J)
      BY PickedOfBoth
    <3>2. QED
      BY <3>1
  <2>2. Mine(own, servers, filter) = Behind(own, E, A)
    BY <1>10 DEF Behind
  <2>3. QED
    BY <1>1, <2>1, <2>2 DEF Offerable
<1>12. QED
  BY <1>4, <1>8, <1>9, <1>11

(* What is in the two lists behind each other.                             *)
LEMMA HasBoth ==
    ASSUME NEW T, NEW own \in Seq(T), NEW servers \in Seq(Seq(T))
    PROVE  /\ FlattenSeq(servers) \in Seq(T) /\ Offerable(own, servers) \in Seq(T)
           /\ Len(Offerable(own, servers)) = Len(own) + Len(FlattenSeq(servers))
           /\ \A i \in 1..Len(FlattenSeq(servers)) :
                  Offerable(own, servers)[Len(own) + i] = FlattenSeq(servers)[i]
<1>1. PICK listed \in Seq(T) : listed = FlattenSeq(servers)
  BY FlattenOfBoth
<1>2. /\ own \o listed \in Seq(T) /\ Len(own \o listed) = Len(own) + Len(listed)
      /\ \A i \in 1..Len(listed) : (own \o listed)[Len(own) + i] = listed[i]
  OBVIOUS
<1>3. QED
  BY <1>1, <1>2 DEF Offerable

(* The offer is what may be offered, or an error for one of the reasons.   *)
GivenNames(tools) == [i \in DOMAIN tools |-> tools[i].name]
QualifiedNames(tools) == [i \in DOMAIN tools |-> QualifiedName(tools[i])]
Served(servers, filter) == Picked(FlattenSeq(servers), Permitted(servers, filter))
Visible(own, servers, filter) == Picked(Offerable(own, servers), Mine(own, servers, filter))
OfferFollows(T, offered, tools, visible) ==
    /\ tools \in Seq(T) /\ visible \in Seq(T)
    /\ offered # NoOffer => offered = visible /\ ~Duplicates(QualifiedNames(visible))
    /\ offered = NoOffer =>
           \/ \E i \in DOMAIN tools : tools[i].schema = "open"
           \/ Duplicates(GivenNames(tools))
           \/ Duplicates(QualifiedNames(visible))

LEMMA OfferIs ==
    ASSUME NEW T, \A t \in T : t.from # "error",
           NEW own \in Seq(T), NEW servers \in Seq(Seq(T)), NEW filter,
           \A i \in DOMAIN FlattenSeq(servers) : FlattenSeq(servers)[i].enabled = TRUE
    PROVE  OfferFollows(T, OfferedTools(own, servers, filter),
                        Served(servers, filter), Visible(own, servers, filter))
<1> PICK tools : tools = Picked(FlattenSeq(servers), Permitted(servers, filter))
  OBVIOUS
<1> PICK visible : visible = Picked(Offerable(own, servers), Mine(own, servers, filter))
  OBVIOUS
<1> PICK offered : offered = OfferedTools(own, servers, filter)
  OBVIOUS
<1> DEFINE bad == \/ \E i \in DOMAIN tools : tools[i].schema = "open"
                  \/ Duplicates(GivenNames(tools))
           all == own \o tools
<1>1. tools \in Seq(T)
  <2>1. PICK s \in Seq(T) : s = FlattenSeq(servers)
    BY HasBoth
  <2>2. PICK A \in SUBSET DOMAIN s : A = Permitted(servers, filter)
    BY <2>1 DEF Permitted
  <2>3. Picked(s, A) \in Seq(T)
    BY PickedAre
  <2>4. QED
    BY <2>1, <2>2, <2>3
<1>2. visible \in Seq(T)
  <2>1. PICK s \in Seq(T) : s = Offerable(own, servers)
    BY HasBoth
  <2>2. PICK A \in SUBSET DOMAIN s : A = Mine(own, servers, filter)
    BY <2>1 DEF Mine
  <2>3. Picked(s, A) \in Seq(T)
    BY PickedAre
  <2>4. QED
    BY <2>1, <2>2, <2>3
<1>3. \A s \in Seq(T) : s # NoOffer
  <2>1. NoOffer[1].from = "error" /\ Len(NoOffer) = 1
    BY DEF NoOffer, ToolOf
  <2>2. ASSUME NEW s \in Seq(T), Len(s) = 1 PROVE s[1] \in T
    <3>1. 1 \in 1..Len(s)
      BY <2>2
    <3>2. QED
      BY <3>1
  <2>3. QED
    BY <2>1, <2>2
<1>4. ServerTools(servers, filter) = IF bad THEN NoOffer ELSE tools
  BY DEF ServerTools, Permitted, GivenNames
<1>5. ~bad => Picked(all, EnabledOf(all)) = visible
  <2>1. PICK a : a = own \o tools
    OBVIOUS
  <2>2. Picked(a, EnabledOf(a))
            = Picked(Offerable(own, servers), Mine(own, servers, filter))
    BY <2>1, VisibleIs
  <2>3. QED
    BY <2>1, <2>2
<1>6. ASSUME bad PROVE offered = NoOffer
  <2>1. ServerTools(servers, filter) = NoOffer
    BY <1>4, <1>6
  <2>2. OfferedTools(own, servers, filter) = NoOffer
    BY <2>1 DEF OfferedTools
  <2>3. QED
    BY <2>2
<1>7. ASSUME ~bad
      PROVE  offered = IF Duplicates(QualifiedNames(visible)) THEN NoOffer ELSE visible
  <2>1. ServerTools(servers, filter) = tools /\ ServerTools(servers, filter) # NoOffer
    BY <1>1, <1>3, <1>4, <1>7
  <2> HIDE DEF bad
  <2>2. OfferedTools(own, servers, filter)
            = IF Duplicates(QualifiedNames(visible)) THEN NoOffer ELSE visible
    BY <1>5, <1>7, <2>1 DEF OfferedTools, QualifiedNames, EnabledOf
  <2>3. QED
    BY <2>2
<1>8. OfferFollows(T, offered, tools, visible)
  BY <1>1, <1>2, <1>3, <1>6, <1>7 DEF OfferFollows
<1>9. QED
  BY <1>8 DEF Served, Visible

(* A list without something twice.                                         *)
LEMMA TwiceIn ==
    ASSUME NEW n \in Nat, NEW S, NEW f \in [1..n -> S]
    PROVE  Duplicates(f) <=> \E i, j \in 1..n : i < j /\ f[i] = f[j]
<1>1. f \in Seq(S) /\ Len(f) = n
  OBVIOUS
<1>2. QED
  BY <1>1, TwiceIs DEF Duplicates

(* What an error says.                                                     *)
Explained(own, has, mine) ==
    \/ \E i \in mine : has[i].schema = "open"
    \/ \E i, j \in DOMAIN has : i < j /\ j \in mine /\ i \in mine
           /\ QualifiedName(has[i]) = QualifiedName(has[j])
    \/ \E i, j \in Len(own) + 1..Len(has) : i < j /\ has[i].name = has[j].name

LEMMA ErrorsAre ==
    ASSUME NEW T, \A t \in T : t.from # "error",
           NEW own \in Seq(T), NEW servers \in Seq(Seq(T)), NEW filter,
           \A i \in DOMAIN FlattenSeq(servers) : FlattenSeq(servers)[i].enabled = TRUE,
           OfferedTools(own, servers, filter) = NoOffer
    PROVE  Explained(own, Offerable(own, servers), Mine(own, servers, filter))
<1> PICK has : has = Offerable(own, servers)
  OBVIOUS
<1> PICK mine : mine = Mine(own, servers, filter)
  OBVIOUS
<1>1. PICK listed \in Seq(T) : listed = FlattenSeq(servers)
  BY HasBoth
<1>2. PICK A \in SUBSET DOMAIN listed : A = Permitted(servers, filter)
  BY <1>1 DEF Permitted
<1>3. has \in Seq(T) /\ Len(has) = Len(own) + Len(listed)
      /\ \A i \in 1..Len(listed) : has[Len(own) + i] = listed[i]
  BY <1>1, HasBoth, ZenonT(60)
<1>4. PICK tools : tools = Picked(listed, A)
  OBVIOUS
<1>5. PICK p, m : /\ Enumerates(p, m, A) /\ m = Len(Picked(listed, A))
                  /\ Picked(listed, A) = [k \in 1..m |-> listed[p[k]]]
  BY PickedBy
<1>6. PICK M \in SUBSET DOMAIN has : M = mine
  BY DEF Mine
<1>7. PICK q, n : /\ Enumerates(q, n, M) /\ n = Len(Picked(has, M))
                  /\ Picked(has, M) = [k \in 1..n |-> has[q[k]]]
  <2>1. \A s \in Seq(T) : \A I \in SUBSET DOMAIN s :
            \E k, l : /\ Enumerates(k, l, I) /\ l = Len(Picked(s, I))
                     /\ Picked(s, I) = [j \in 1..l |-> s[k[j]]]
    BY PickedBy
  <2>2. QED
    BY <1>3, <2>1
<1>8. PICK visible : visible = Picked(has, M)
  OBVIOUS
<1>9. \/ \E i \in DOMAIN tools : tools[i].schema = "open"
      \/ Duplicates(GivenNames(tools))
      \/ Duplicates(QualifiedNames(visible))
  <2>1. OfferFollows(T, OfferedTools(own, servers, filter), Served(servers, filter),
                     Visible(own, servers, filter))
    BY OfferIs
  <2>2. Served(servers, filter) = tools /\ Visible(own, servers, filter) = visible
    BY <1>1, <1>2, <1>4, <1>6, <1>8 DEF Served, Visible
  <2>3. QED
    BY <2>1, <2>2 DEF OfferFollows
<1>10. m \in Nat /\ n \in Nat /\ DOMAIN tools = 1..m /\ DOMAIN visible = 1..n
  BY <1>4, <1>5, <1>7, <1>8 DEF Enumerates
<1>11. \A k \in 1..m : /\ p[k] \in 1..Len(listed) /\ tools[k] = has[Len(own) + p[k]]
                        /\ Len(own) + p[k] \in Len(own) + 1..Len(has)
  <2>1. SUFFICES ASSUME NEW k \in 1..m
                 PROVE  /\ p[k] \in 1..Len(listed) /\ tools[k] = has[Len(own) + p[k]]
                        /\ Len(own) + p[k] \in Len(own) + 1..Len(has)
    OBVIOUS
  <2>2. p[k] \in 1..Len(listed) /\ tools[k] = listed[p[k]]
    <3>1. p[k] \in A
      BY <1>5 DEF Enumerates
    <3>2. DOMAIN listed = 1..Len(listed)
      OBVIOUS
    <3>3. QED
      BY <1>4, <1>5, <3>1, <3>2
  <2>3. QED
    BY <1>3, <2>2
<1>12. ASSUME \E i \in DOMAIN tools : tools[i].schema = "open"
       PROVE  \E i \in mine : has[i].schema = "open"
  <2>1. PICK k \in 1..m : tools[k].schema = "open"
    BY <1>10, <1>12
  <2>2. p[k] \in A
    BY <1>5, <2>1 DEF Enumerates
  <2>3. Allowed(filter, listed[p[k]]) /\ listed[p[k]].enabled
    BY <1>1, <1>2, <2>2 DEF Permitted
  <2>4. Len(own) + p[k] \in DOMAIN has
    BY <1>3, <1>11
  <2>5. has[Len(own) + p[k]] = listed[p[k]]
    BY <1>3, <1>11
  <2>6. Len(own) + p[k] \in mine
    BY <2>3, <2>4, <2>5 DEF Mine
  <2>7. QED
    BY <1>11, <2>1, <2>6
<1>13. ASSUME Duplicates(GivenNames(tools))
       PROVE  \E i, j \in Len(own) + 1..Len(has) : i < j /\ has[i].name = has[j].name
  <2>1. PICK i, j \in 1..m : i < j /\ tools[i].name = tools[j].name
    <3>1. PICK f : f = GivenNames(tools)
      OBVIOUS
    <3>2. f = [i \in 1..m |-> tools[i].name]
      BY <1>10, <3>1 DEF GivenNames
    <3>3. \A i \in 1..m : f[i] = tools[i].name
      BY <3>2
    <3>4. PICK S : S = {f[i] : i \in 1..m}
      OBVIOUS
    <3>5. f \in [1..m -> S]
      BY <3>2, <3>4
    <3>6. \E i, j \in 1..m : i < j /\ f[i] = f[j]
      <4>1. Duplicates(f)
        BY <1>13, <3>1
      <4>2. QED
        BY <1>10, <3>5, <4>1, TwiceIn
    <3>7. QED
      BY <3>3, <3>6
  <2>2. p[i] < p[j] /\ p[i] \in Nat /\ p[j] \in Nat
    BY <1>5, <1>11, <2>1 DEF Enumerates
  <2>3. Len(own) + p[i] < Len(own) + p[j]
    BY <2>2
  <2>4. PICK a \in Len(own) + 1..Len(has) : a = Len(own) + p[i]
    BY <1>11
  <2>5. PICK b \in Len(own) + 1..Len(has) : b = Len(own) + p[j]
    BY <1>11
  <2>6. a < b /\ has[a].name = has[b].name
    BY <1>11, <2>1, <2>3, <2>4, <2>5
  <2>7. QED
    BY <2>6
<1>14. ASSUME Duplicates(QualifiedNames(visible))
       PROVE  \E i, j \in DOMAIN has : i < j /\ j \in mine /\ i \in mine
                  /\ QualifiedName(has[i]) = QualifiedName(has[j])
  <2>1. PICK i, j \in 1..n : i < j /\ QualifiedName(visible[i]) = QualifiedName(visible[j])
    <3>1. PICK f : f = QualifiedNames(visible)
      OBVIOUS
    <3>2. f = [i \in 1..n |-> QualifiedName(visible[i])]
      BY <1>10, <3>1 DEF QualifiedNames
    <3>3. \A i \in 1..n : f[i] = QualifiedName(visible[i])
      BY <3>2
    <3>4. PICK S : S = {f[i] : i \in 1..n}
      OBVIOUS
    <3>5. f \in [1..n -> S]
      BY <3>2, <3>4
    <3>6. \E i, j \in 1..n : i < j /\ f[i] = f[j]
      <4>1. Duplicates(f)
        BY <1>14, <3>1
      <4>2. QED
        BY <1>10, <3>5, <4>1, TwiceIn
    <3>7. QED
      BY <3>3, <3>6
  <2>2. q[i] < q[j] /\ q[i] \in M /\ q[j] \in M
    BY <1>7, <2>1 DEF Enumerates
  <2>3. visible[i] = has[q[i]] /\ visible[j] = has[q[j]]
    BY <1>7, <1>8, <2>1
  <2>4. q[i] \in DOMAIN has /\ q[j] \in DOMAIN has
    BY <1>6, <2>2
  <2>5. QED
    BY <1>6, <2>1, <2>2, <2>3, <2>4
<1>15. QED
  BY <1>9, <1>12, <1>13, <1>14 DEF Explained

(* Tools whose qualified names differ are told apart by everything else.   *)
TrimmedAre(P) == \A n \in Seq(P) : Trimmed(n) \in Seq(P)
LEMMA Trimming == ASSUME NEW P PROVE TrimmedAre(P)
<1>1. SUFFICES ASSUME NEW n \in Seq(P) PROVE Trimmed(n) \in Seq(P)
  BY DEF TrimmedAre
<1>2. PICK I \in SUBSET DOMAIN n : I = {i \in DOMAIN n : n[i] \notin {"_"}}
  OBVIOUS
<1>3. Picked(n, I) \in Seq(P)
  BY PickedAre
<1>4. QED
  BY <1>2, <1>3 DEF Trimmed, Others

LEMMA FoundByName ==
    ASSUME NEW T, NEW offered \in Seq(T), NEW i \in 1..Len(offered),
           \A j \in 1..Len(offered) :
               QualifiedName(offered[i]) = QualifiedName(offered[j]) => i = j
    PROVE  ToolFor(offered, offered[i].name, offered[i].ns) = offered[i]
<1>1. PICK found : found = {j \in DOMAIN offered : offered[j].name = offered[i].name
                                                   /\ offered[j].ns = offered[i].ns}
  OBVIOUS
<1>2. \A j \in found : QualifiedName(offered[i]) = QualifiedName(offered[j])
  BY <1>1 DEF QualifiedName
<1>3. found = {i}
  BY <1>1, <1>2
<1>4. Min({i}) = i
  BY DEF Min
<1>5. QED
  BY <1>1, <1>3, <1>4 DEF ToolFor

LEMMA FoundByKey ==
    ASSUME NEW T, NEW offered \in Seq(T), NEW i \in 1..Len(offered),
           \A j \in 1..Len(offered) :
               QualifiedName(offered[i]) = QualifiedName(offered[j]) => i = j,
           LookupMap(offered) # <<>>, Trimmed(offered[i].name) # <<>>
    PROVE  LookupMap(offered)[LookupKey(offered[i].name, offered[i].ns)] = offered[i]
<1> PICK key : key = LookupKey(offered[i].name, offered[i].ns)
  OBVIOUS
<1> PICK map : map = LookupMap(offered)
  OBVIOUS
<1>1. \A j \in 1..Len(offered) : ~IsReserved(offered[j].name, offered[j].ns)
  BY DEF LookupMap
<1>2. /\ key[1] \in {"bare", "namespaced"}
      /\ key[2] = Trimmed(offered[i].ns) /\ key[3] = Trimmed(offered[i].name)
  BY <1>1 DEF LookupKey
<1>3. key \in LookupKeys(offered[i])
  <2>1. key # NoLookup /\ key # <<"deferred", <<>>, Trimmed(offered[i].name)>>
    BY <1>2 DEF NoLookup
  <2>2. QED
    BY <2>1 DEF LookupKeys
<1>4. \A j \in 1..Len(offered) : key \in LookupKeys(offered[j]) => j = i
  <2>1. SUFFICES ASSUME NEW j \in 1..Len(offered), key \in LookupKeys(offered[j]) PROVE j = i
    OBVIOUS
  <2>2. \A t : IsDeferred(t) => KeyOfTool(t)[1] = "deferred"
    BY DEF KeyOfTool
  <2>3. key = LookupKey(offered[j].name, offered[j].ns)
    BY <1>2, <2>1, <2>2 DEF LookupKeys
  <2>4. Trimmed(offered[j].name) # <<>>
    BY <1>2, <2>3 DEF LookupKey, NoLookup
  <2>5. key[2] = Trimmed(offered[j].ns) /\ key[3] = Trimmed(offered[j].name)
    BY <1>1, <2>3, <2>4 DEF LookupKey
  <2>6. QualifiedName(offered[i]) = QualifiedName(offered[j])
    BY <1>2, <2>4, <2>5 DEF QualifiedName
  <2>7. QED
    BY <2>6
<1>5. {j \in DOMAIN offered : key \in LookupKeys(offered[j])} = {i}
  BY <1>3, <1>4
<1>6. Max({i}) = i
  BY DEF Max
<1>7. map = [k \in UNION {LookupKeys(offered[j]) : j \in DOMAIN offered} |->
                offered[Max({j \in DOMAIN offered : k \in LookupKeys(offered[j])})]]
  BY <1>1 DEF LookupMap
<1>8. key \in UNION {LookupKeys(offered[j]) : j \in DOMAIN offered}
  BY <1>3
<1>9. map[key] = offered[Max({j \in DOMAIN offered : key \in LookupKeys(offered[j])})]
  BY <1>7, <1>8
<1>10. QED
  BY <1>5, <1>6, <1>9

(* The prefix of what is approved for a tool that is loaded later.         *)
LEMMA PrefixIs ==
    ASSUME NEW P, "deferred_top_level:" \notin P, NEW s \in Seq(P), NEW t \in Seq(P)
    PROVE  /\ <<"deferred_top_level:">> \o s # t
           /\ <<"deferred_top_level:">> \o s = <<"deferred_top_level:">> \o t => s = t
<1>1. PICK w : w = "deferred_top_level:"
  OBVIOUS
<1>2. PICK x : x = <<w>> \o s
  OBVIOUS
<1>3. PICK y : y = <<w>> \o t
  OBVIOUS
<1>4. /\ Len(x) = 1 + Len(s) /\ x[1] = w /\ \A i \in 1..Len(s) : x[1 + i] = s[i]
      /\ Len(y) = 1 + Len(t) /\ y[1] = w /\ \A i \in 1..Len(t) : y[1 + i] = t[i]
  BY <1>2, <1>3
<1>5. x # t
  <2>1. SUFFICES ASSUME x = t PROVE FALSE
    OBVIOUS
  <2>2. 1 \in 1..Len(t)
    BY <1>4, <2>1
  <2>3. t[1] \in P
    BY <2>2
  <2>4. QED
    BY <1>1, <1>4, <2>1, <2>3
<1>6. x = y => s = t
  <2>1. SUFFICES ASSUME x = y PROVE s = t
    OBVIOUS
  <2>2. Len(s) = Len(t)
    BY <1>4, <2>1
  <2>3. \A i \in 1..Len(s) : s[i] = t[i]
    BY <1>4, <2>1, <2>2
  <2>4. QED
    BY <2>2, <2>3
<1>7. QED
  BY <1>1, <1>2, <1>3, <1>5, <1>6

(* What is approved for a tool.                                            *)
ApprovedFor(tool) == ApprovalKeys(tool.name, tool.ns, FALSE, KeyOfTool(tool))
LEMMA ApprovedIs ==
    ASSUME NEW P, NEW tool, tool.name \in Seq(P), tool.ns \in Seq(P),
           ~IsReserved(tool.name, tool.ns)
    PROVE  /\ Trimmed(tool.name) = <<>> => ApprovedFor(tool) = {}
           /\ Trimmed(tool.name) # <<>> =>
                  IF IsDeferred(tool)
                  THEN ApprovedFor(tool) = {<<"deferred_top_level:">> \o tool.name}
                  ELSE ApprovedFor(tool) = {QualifiedName(tool)}
<1>1. Trimmed(tool.name) = <<>> => ApprovedFor(tool) = {}
  BY DEF ApprovedFor, ApprovalKeys
<1>2. ASSUME Trimmed(tool.name) # <<>>, IsDeferred(tool)
      PROVE  ApprovedFor(tool) = {<<"deferred_top_level:">> \o tool.name}
  <2>1. PICK key : key = KeyOfTool(tool)
    OBVIOUS
  <2>2. key[1] = "deferred" /\ key[3] = tool.name
    BY <1>2, <2>1 DEF KeyOfTool
  <2>3. ApprovalKeys(tool.name, tool.ns, FALSE, key) = {<<"deferred_top_level:">> \o key[3]}
    BY <1>2, <2>2 DEF ApprovalKeys
  <2>4. QED
    BY <2>1, <2>2, <2>3 DEF ApprovedFor
<1>3. ASSUME Trimmed(tool.name) # <<>>, ~IsDeferred(tool)
      PROVE  ApprovedFor(tool) = {QualifiedName(tool)}
  <2>1. PICK key : key = KeyOfTool(tool)
    OBVIOUS
  <2>2. /\ key[1] = IF Trimmed(tool.ns) = <<>> THEN "bare" ELSE "namespaced"
        /\ key[2] = Trimmed(tool.ns) /\ key[3] = Trimmed(tool.name)
    BY <1>3, <2>1 DEF KeyOfTool, LookupKey
  <2>3. Trimmed(tool.name) \in Seq(P)
    BY Trimming DEF TrimmedAre
  <2>4. QualifiedName(tool) = Trimmed(tool.ns) \o Trimmed(tool.name)
    BY <1>3 DEF QualifiedName
  <2>5. Trimmed(tool.ns) = <<>> => Trimmed(tool.ns) \o Trimmed(tool.name) = Trimmed(tool.name)
    BY <2>3
  <2>6. CASE Trimmed(tool.ns) = <<>>
    <3>1. ApprovalKeys(tool.name, tool.ns, FALSE, key) = {key[3]}
      BY <1>3, <2>2, <2>6 DEF ApprovalKeys
    <3>2. QED
      BY <2>1, <2>2, <2>4, <2>5, <2>6, <3>1 DEF ApprovedFor
  <2>7. CASE Trimmed(tool.ns) # <<>>
    <3>1. ApprovalKeys(tool.name, tool.ns, FALSE, key) = {key[2] \o key[3]}
      BY <1>3, <2>2, <2>7 DEF ApprovalKeys
    <3>2. QED
      BY <2>1, <2>2, <2>4, <3>1 DEF ApprovedFor
  <2>8. QED
    BY <2>6, <2>7
<1>4. QED
  BY <1>1, <1>2, <1>3

LEMMA ApprovedApart ==
    ASSUME NEW P, "deferred_top_level:" \notin P,
           NEW t, t.name \in Seq(P), t.ns \in Seq(P), ~IsReserved(t.name, t.ns),
           NEW u, u.name \in Seq(P), u.ns \in Seq(P), ~IsReserved(u.name, u.ns),
           ApprovedFor(t) \cap ApprovedFor(u) # {}
    PROVE  QualifiedName(t) = QualifiedName(u)
<1>1. Trimmed(t.name) # <<>> /\ Trimmed(u.name) # <<>>
  BY ApprovedIs
<1>2. \A x : x.name \in Seq(P) /\ x.ns \in Seq(P) /\ Trimmed(x.name) # <<>> =>
          QualifiedName(x) \in Seq(P)
  <2>1. SUFFICES ASSUME NEW x, x.name \in Seq(P), x.ns \in Seq(P), Trimmed(x.name) # <<>>
                 PROVE  QualifiedName(x) \in Seq(P)
    OBVIOUS
  <2>2. PICK a \in Seq(P) : a = Trimmed(x.ns)
    BY <2>1, Trimming DEF TrimmedAre
  <2>3. PICK b \in Seq(P) : b = Trimmed(x.name)
    BY <2>1, Trimming DEF TrimmedAre
  <2>4. a \o b \in Seq(P)
    OBVIOUS
  <2>5. QED
    BY <2>1, <2>2, <2>3, <2>4 DEF QualifiedName
<1>3. PICK qt \in Seq(P) : qt = QualifiedName(t)
  BY <1>1, <1>2
<1>4. PICK qu \in Seq(P) : qu = QualifiedName(u)
  BY <1>1, <1>2
<1>5. CASE IsDeferred(t) /\ IsDeferred(u)
  <2>1. /\ ApprovedFor(t) = {<<"deferred_top_level:">> \o t.name}
        /\ ApprovedFor(u) = {<<"deferred_top_level:">> \o u.name}
    BY <1>1, <1>5, ApprovedIs
  <2>2. <<"deferred_top_level:">> \o t.name = <<"deferred_top_level:">> \o u.name
    BY <2>1
  <2>3. t.name = u.name
    BY <2>2, PrefixIs
  <2>4. QED
    BY <1>5, <2>3 DEF IsDeferred, QualifiedName
<1>6. CASE IsDeferred(t) /\ ~IsDeferred(u)
  <2>1. ApprovedFor(t) = {<<"deferred_top_level:">> \o t.name} /\ ApprovedFor(u) = {qu}
    BY <1>1, <1>4, <1>6, ApprovedIs
  <2>2. <<"deferred_top_level:">> \o t.name # qu
    BY PrefixIs
  <2>3. QED
    BY <2>1, <2>2
<1>7. CASE ~IsDeferred(t) /\ IsDeferred(u)
  <2>1. ApprovedFor(u) = {<<"deferred_top_level:">> \o u.name} /\ ApprovedFor(t) = {qt}
    BY <1>1, <1>3, <1>7, ApprovedIs
  <2>2. <<"deferred_top_level:">> \o u.name # qt
    BY PrefixIs
  <2>3. QED
    BY <2>1, <2>2
<1>8. CASE ~IsDeferred(t) /\ ~IsDeferred(u)
  <2>1. ApprovedFor(t) = {QualifiedName(t)} /\ ApprovedFor(u) = {QualifiedName(u)}
    BY <1>1, <1>8, ApprovedIs
  <2>2. QED
    BY <2>1
<1>9. QED
  BY <1>5, <1>6, <1>7, <1>8

LEMMA ShownApart ==
    ASSUME NEW t, NEW u, ShownAs(t) = ShownAs(u), t.ns = u.ns
    PROVE  QualifiedName(t) = QualifiedName(u)
<1>1. t.name = u.name
  <2>1. CASE t.schema = "none" /\ u.schema = "none"
    BY <2>1 DEF ShownAs
  <2>2. CASE t.schema # "none" /\ u.schema # "none"
    BY <2>2 DEF ShownAs
  <2>3. CASE (t.schema = "none") # (u.schema = "none")
    <3>1. \A x, y, z : DOMAIN [type |-> x] # DOMAIN [type |-> y, name |-> z]
      OBVIOUS
    <3>2. QED
      BY <2>3, <3>1 DEF ShownAs
  <2>4. QED
    BY <2>1, <2>2, <2>3
<1>2. QED
  BY <1>1 DEF QualifiedName

ToldApart(own, has, mine, map, offered) ==
    /\ Len(offered) = Cardinality(mine)
    /\ \A i \in DOMAIN offered : \E j \in mine : offered[i] = has[j]
    /\ \A i \in DOMAIN offered :
           LET tool == offered[i]
           IN /\ ToolFor(offered, tool.name, tool.ns) = tool
              /\ map # <<>> /\ Trimmed(tool.name) # <<>> =>
                     map[LookupKey(tool.name, tool.ns)] = tool
    /\ \A i, j \in DOMAIN offered : i # j =>
           /\ ShownAs(offered[i]) = ShownAs(offered[j]) => offered[i].ns # offered[j].ns
           /\ ApprovedFor(offered[i]) \cap ApprovedFor(offered[j]) # {} =>
                  \E t \in {offered[i], offered[j]} : IsReserved(t.name, t.ns)

(* The tools that are offered can be told apart by name and by approval,   *)
(* however many an agent and its servers have, and whatever their names.   *)
THEOREM EveryOfferIsTold ==
    ASSUME NEW P, "deferred_top_level:" \notin P,
           NEW T, \A t \in T : t.from # "error" /\ t.name \in Seq(P) /\ t.ns \in Seq(P),
           NEW own \in Seq(T), NEW servers \in Seq(Seq(T)), NEW filter,
           \A i \in DOMAIN FlattenSeq(servers) : FlattenSeq(servers)[i].enabled = TRUE
    PROVE  OfferedToolsAreTold(own, servers, filter, OfferedTools(own, servers, filter))
<1>1. PICK offered : offered = OfferedTools(own, servers, filter)
  OBVIOUS
<1>2. PICK has : has = Offerable(own, servers)
  OBVIOUS
<1>3. PICK mine : mine = Mine(own, servers, filter)
  OBVIOUS
<1>4. mine = {i \in DOMAIN has : has[i].enabled /\ (i > Len(own) => Allowed(filter, has[i]))}
  BY <1>2, <1>3 DEF Mine
<1>5. has = own \o FlattenSeq(servers) /\ has \in Seq(T)
  BY <1>2, HasBoth DEF Offerable
<1>6. CASE offered = NoOffer
  <2>1. Explained(own, Offerable(own, servers), Mine(own, servers, filter))
    <3>1. OfferedTools(own, servers, filter) = NoOffer
      BY <1>1, <1>6
    <3>2. QED
      BY <3>1, ErrorsAre
  <2>2. OfferedToolsAreTold(own, servers, filter, offered)
    BY <1>2, <1>3, <1>4, <1>5, <1>6, <2>1 DEF OfferedToolsAreTold, Explained
  <2>3. QED
    BY <1>1, <2>2
<1>7. CASE offered # NoOffer
  <2>1. PICK M \in SUBSET DOMAIN has : M = mine
    BY <1>4
  <2>2. PICK q, n : /\ Enumerates(q, n, M) /\ n = Len(Picked(has, M))
                    /\ Picked(has, M) = [k \in 1..n |-> has[q[k]]]
    <3>1. \A s \in Seq(T) : \A I \in SUBSET DOMAIN s :
              \E k, l : /\ Enumerates(k, l, I) /\ l = Len(Picked(s, I))
                       /\ Picked(s, I) = [j \in 1..l |-> s[k[j]]]
      BY PickedBy
    <3>2. QED
      BY <1>5, <3>1
  <2>4. offered = Picked(has, M) /\ offered \in Seq(T) /\ ~Duplicates(QualifiedNames(offered))
    <3>1. OfferFollows(T, OfferedTools(own, servers, filter), Served(servers, filter),
                       Visible(own, servers, filter))
      BY OfferIs
    <3>2. Visible(own, servers, filter) = Picked(has, M)
      BY <1>2, <1>3, <2>1 DEF Visible
    <3>3. QED
      BY <1>1, <1>7, <3>1, <3>2 DEF OfferFollows
  <2>5. n \in Nat /\ Len(offered) = n /\ DOMAIN offered = 1..n
        /\ \A k \in 1..n : q[k] \in mine /\ offered[k] = has[q[k]]
    <3>1. n \in Nat /\ \A k \in 1..n : q[k] \in mine
      BY <2>1, <2>2 DEF Enumerates
    <3>2. offered = [k \in 1..n |-> has[q[k]]]
      BY <2>2, <2>4
    <3>3. QED
      BY <2>4, <3>1, <3>2
  <2>6. Len(offered) = Cardinality(mine)
    <3>1. M \subseteq Nat
      BY <1>5
    <3>2. Cardinality(M) = n
      BY <2>2, <3>1, EnumerationCounts
    <3>3. QED
      BY <2>1, <2>5, <3>2
  <2>7. \A i \in DOMAIN offered : \E j \in mine : offered[i] = has[j]
    BY <2>5
  <2>8. \A i, j \in 1..n : QualifiedName(offered[i]) = QualifiedName(offered[j]) => i = j
    <3>1. PICK f : f = QualifiedNames(offered)
      OBVIOUS
    <3>2. f = [i \in 1..n |-> QualifiedName(offered[i])]
      BY <2>5, <3>1 DEF QualifiedNames
    <3>3. \A i \in 1..n : f[i] = QualifiedName(offered[i])
      BY <3>2
    <3>4. PICK S : S = {f[i] : i \in 1..n}
      OBVIOUS
    <3>5. f \in [1..n -> S]
      BY <3>2, <3>4
    <3>6. ~\E i, j \in 1..n : i < j /\ f[i] = f[j]
      <4>1. ~Duplicates(f)
        BY <2>4, <3>1
      <4>2. QED
        BY <2>5, <3>5, <4>1, TwiceIn
    <3>7. QED
      BY <2>5, <3>3, <3>6
  <2>9. PICK map : map = LookupMap(offered)
    OBVIOUS
  <2>10. \A i \in DOMAIN offered :
             /\ ToolFor(offered, offered[i].name, offered[i].ns) = offered[i]
             /\ map # <<>> /\ Trimmed(offered[i].name) # <<>> =>
                    map[LookupKey(offered[i].name, offered[i].ns)] = offered[i]
    <3>1. SUFFICES ASSUME NEW i \in 1..Len(offered)
                   PROVE  /\ ToolFor(offered, offered[i].name, offered[i].ns) = offered[i]
                          /\ map # <<>> /\ Trimmed(offered[i].name) # <<>> =>
                                map[LookupKey(offered[i].name, offered[i].ns)] = offered[i]
      BY <2>5
    <3>2. \A j \in 1..Len(offered) :
              QualifiedName(offered[i]) = QualifiedName(offered[j]) => i = j
      BY <2>5, <2>8
    <3>3. ToolFor(offered, offered[i].name, offered[i].ns) = offered[i]
      BY <2>4, <3>2, FoundByName
    <3>4. LookupMap(offered) # <<>> /\ Trimmed(offered[i].name) # <<>> =>
              LookupMap(offered)[LookupKey(offered[i].name, offered[i].ns)] = offered[i]
      BY <2>4, <3>2, FoundByKey
    <3>5. QED
      BY <2>9, <3>3, <3>4
  <2>11. \A i, j \in DOMAIN offered : i # j =>
             /\ ShownAs(offered[i]) = ShownAs(offered[j]) => offered[i].ns # offered[j].ns
             /\ ApprovedFor(offered[i]) \cap ApprovedFor(offered[j]) # {} =>
                    \E t \in {offered[i], offered[j]} : IsReserved(t.name, t.ns)
    <3>1. SUFFICES ASSUME NEW i \in 1..n, NEW j \in 1..n, i # j
                   PROVE  /\ ShownAs(offered[i]) = ShownAs(offered[j]) =>
                                 offered[i].ns # offered[j].ns
                          /\ ApprovedFor(offered[i]) \cap ApprovedFor(offered[j]) # {} =>
                                 \E t \in {offered[i], offered[j]} : IsReserved(t.name, t.ns)
      BY <2>5
    <3>2. PICK t \in T : t = offered[i]
      BY <2>4, <2>5
    <3>3. PICK u \in T : u = offered[j]
      BY <2>4, <2>5
    <3>4. QualifiedName(t) # QualifiedName(u)
      BY <2>8, <3>1, <3>2, <3>3
    <3>5. ShownAs(t) = ShownAs(u) => t.ns # u.ns
      BY <3>4, ShownApart
    <3>6. ApprovedFor(t) \cap ApprovedFor(u) # {} =>
              IsReserved(t.name, t.ns) \/ IsReserved(u.name, u.ns)
      BY <3>4, ApprovedApart
    <3>7. QED
      BY <3>2, <3>3, <3>5, <3>6
  <2>12. OfferedToolsAreTold(own, servers, filter, offered)
    <3> DEFINE h == own \o FlattenSeq(servers)
               m == {i \in DOMAIN h : h[i].enabled /\ (i > Len(own) => Allowed(filter, h[i]))}
               p == LookupMap(offered)
    <3>1. h = has /\ m = mine /\ p = map
      BY <1>4, <1>5, <2>9
    <3>2. ToldApart(own, has, mine, map, offered)
      BY <2>6, <2>7, <2>10, <2>11 DEF ToldApart, ApprovedFor
    <3> HIDE DEF h, m, p
    <3>3. ToldApart(own, h, m, p, offered)
      BY <3>1, <3>2
    <3>4. QED
      BY <1>7, <3>3 DEF ToldApart, ApprovedFor, h, m, p, OfferedToolsAreTold
  <2>13. QED
    BY <1>1, <2>12
<1>8. QED
  BY <1>6, <1>7

-----------------------------------------------------------------------------
(* The conversions of the subjects of Tools.                               *)

(* Each conversion has its subject.                                        *)
LEMMA SubjectsAct ==
    ASSUME Convert
    PROVE  /\ subject = "replay" => Replay
           /\ subject = "trimmer" => TrimOutputs
           /\ subject = "handoff" => HandOff
           /\ subject = "session" => CombineInput
           /\ subject = "mount" => ResolveMount
           /\ subject = "routing" => RouteRequest
           /\ subject = "provider" => ConfigureProvider
           /\ subject = "request" => SendRequest
           /\ subject = "message" => AnswerResponses
           /\ subject = "chat" => AnswerChat
           /\ subject = "frames" => ReadFrames
           /\ subject = "tools" => OfferTools
           /\ subject = "call" => CallTool
           /\ subject = "guardrails" => AskGuardrails
           /\ subject = "agent tool" => CallAgentTool
           /\ subject = "codex" => RunCodex
<1>1. Replay => subject = "replay"
  BY DEF Replay
<1>2. TrimOutputs => subject = "trimmer"
  BY DEF TrimOutputs
<1>3. HandOff => subject = "handoff"
  BY DEF HandOff
<1>4. CombineInput => subject = "session"
  BY DEF CombineInput
<1>5. ResolveMount => subject = "mount"
  BY DEF ResolveMount
<1>6. RouteRequest => subject = "routing"
  BY DEF RouteRequest
<1>7. ConfigureProvider => subject = "provider"
  BY DEF ConfigureProvider
<1>8. SendRequest => subject = "request"
  BY DEF SendRequest
<1>9. AnswerResponses => subject = "message"
  BY DEF AnswerResponses
<1>10. AnswerChat => subject = "chat"
  BY DEF AnswerChat
<1>11. ReadFrames => subject = "frames"
  BY DEF ReadFrames
<1>12. OfferTools => subject = "tools"
  BY DEF OfferTools
<1>13. CallTool => subject = "call"
  BY DEF CallTool
<1>14. AskGuardrails => subject = "guardrails"
  BY DEF AskGuardrails
<1>15. CallAgentTool => subject = "agent tool"
  BY DEF CallAgentTool
<1>16. RunCodex => subject = "codex"
  BY DEF RunCodex
<1>17. QED
  BY <1>1, <1>2, <1>3, <1>4, <1>5, <1>6, <1>7, <1>8,
     <1>9, <1>10, <1>11, <1>12, <1>13, <1>14, <1>15, <1>16 DEF Convert

LEMMA ShortSeqs ==
    ASSUME NEW S PROVE <<>> \in Seq(S) /\ \A a, b \in S : <<a>> \in Seq(S) /\ <<a, b>> \in Seq(S)
OBVIOUS

LEMMA ToolsOffered ==
    ASSUME NEW tool, NEW from, tool \in OwnTools \/ tool \in McpTools(from)
    PROVE  /\ tool.name \in {<<"a">>, <<"b">>, <<"_", "a">>, <<"x", "a">>, <<"_">>}
           /\ tool.ns \in Namespaces
           /\ tool \in OwnTools => tool.from = "own"
           /\ tool \in McpTools(from) => tool.from = from /\ tool.enabled = TRUE
<1>1. PICK N : N = Namespaces
  OBVIOUS
<1>2. PICK M : M = {<<"a">>, <<"b">>}
  OBVIOUS
<1>3. ASSUME tool \in OwnTools
      PROVE  tool.name \in ToolNames /\ tool.ns \in N /\ tool.from = "own"
  <2>1. /\ <<"a">> \in ToolNames /\ <<>> \in N
    BY <1>1 DEF ToolNames, Namespaces
  <2>2. CASE tool \in PlainTools
    <3>1. PICK n \in ToolNames, s \in Namespaces : tool = ToolOf(n, s, "own")
      BY <2>2 DEF PlainTools
    <3>2. QED
      <4>1. tool.name = n /\ tool.ns = s /\ tool.from = "own"
        BY <3>1 DEF ToolOf
      <4>2. QED
        BY <1>1, <4>1
  <2>3. CASE tool = [ToolOf(<<"a">>, <<>>, "own") EXCEPT !.enabled = FALSE]
    BY <2>1, <2>3 DEF ToolOf
  <2>4. CASE tool = [ToolOf(<<"a">>, <<>>, "own") EXCEPT !.deferred = TRUE]
    BY <2>1, <2>4 DEF ToolOf
  <2>5. CASE tool = [ToolOf(<<"a">>, <<>>, "own") EXCEPT !.schema = "none"]
    BY <2>1, <2>5 DEF ToolOf
  <2>6. QED
    BY <1>3, <2>2, <2>3, <2>4, <2>5 DEF OwnTools
<1>4. ASSUME tool \in McpTools(from)
      PROVE  tool.name \in M /\ tool.ns \in N /\ tool.from = from /\ tool.enabled = TRUE
  <2>1. <<"b">> \in M /\ <<>> \in N /\ \A s \in {<<>>, <<"x">>} : s \in N
    BY <1>1, <1>2 DEF Namespaces
  <2> DEFINE A == {[ToolOf(name, ns, from) EXCEPT !.schema = schema] :
                       name \in {<<"a">>, <<"b">>}, ns \in {<<>>, <<"x">>},
                       schema \in {"strict", "none"}}
  <2>2. CASE tool \in A
    <3>1. PICK n \in {<<"a">>, <<"b">>}, s \in {<<>>, <<"x">>}, x \in {"strict", "none"} :
              tool = [ToolOf(n, s, from) EXCEPT !.schema = x]
      BY <2>2
    <3>2. QED
      BY <1>2, <2>1, <3>1 DEF ToolOf
  <2>3. CASE tool = [ToolOf(<<"b">>, <<>>, from) EXCEPT !.schema = "open"]
    BY <2>1, <2>3 DEF ToolOf
  <2>4. McpTools(from) = A \cup {[ToolOf(<<"b">>, <<>>, from) EXCEPT !.schema = "open"]}
    BY SMT DEF McpTools
  <2> HIDE DEF A
  <2>5. QED
    BY <1>4, <2>2, <2>3, <2>4, Zenon
<1>5. ASSUME tool \in OwnTools
      PROVE  tool.name \in {<<"a">>, <<"b">>, <<"_", "a">>, <<"x", "a">>, <<"_">>}
  BY <1>3, <1>5, Zenon DEF ToolNames
<1>6. ASSUME tool \in McpTools(from)
      PROVE  /\ tool.name \in {<<"a">>, <<"b">>, <<"_", "a">>, <<"x", "a">>, <<"_">>}
             /\ tool.ns \in Namespaces
  BY <1>1, <1>2, <1>4, <1>6, Zenon
<1>7. QED
  BY <1>1, <1>3, <1>4, <1>5, <1>6, Zenon

LEMMA OfferStep ==
    OfferTools => OfferedToolsAreTold(given'[1], given'[2], given'[3], made')
<1> SUFFICES ASSUME OfferTools PROVE OfferedToolsAreTold(given'[1], given'[2], given'[3], made')
  OBVIOUS
<1> DEFINE Mcp == McpTools("m") \cup McpTools("n")
           Servers == {<<>>} \cup {<<<<t>>>> : t \in McpTools("m")}
                          \cup {<<<<t>>, <<u>>>> : t \in McpTools("m"), u \in McpTools("n")}
<1>1. PICK own \in SeqOf(OwnTools, 3), servers \in Servers, filter \in ToolFilters :
          given' = <<own, servers, filter>> /\ made' = OfferedTools(own, servers, filter)
  BY DEF OfferTools
<1> HIDE DEF Mcp, Servers
<1>2. PICK P : P = {"a", "b", "x", "_"}
  OBVIOUS
<1>3. "deferred_top_level:" \notin P
  BY <1>2
<1>4. <<>> \in Seq(P) /\ <<"a">> \in Seq(P) /\ <<"b">> \in Seq(P) /\ <<"x">> \in Seq(P)
      /\ <<"_">> \in Seq(P) /\ <<"_", "a">> \in Seq(P) /\ <<"x", "a">> \in Seq(P)
  <2>1. "a" \in P /\ "b" \in P /\ "x" \in P /\ "_" \in P
    BY <1>2
  <2>2. QED
    BY <2>1, ShortSeqs, Zenon
<1>5. \A t \in OwnTools : t.from = "own" /\ t.name \in Seq(P) /\ t.ns \in Seq(P)
  BY <1>4, ToolsOffered, Zenon DEF Namespaces
<1>6. \A t \in Mcp : /\ t.from \in {"m", "n"} /\ t.name \in Seq(P) /\ t.ns \in Seq(P)
                     /\ t.enabled = TRUE
  BY <1>4, ToolsOffered, Zenon DEF Mcp, Namespaces
<1>7. PICK T : T = OwnTools \cup Mcp
  OBVIOUS
<1>8. \A t \in T : t.from # "error" /\ t.name \in Seq(P) /\ t.ns \in Seq(P)
  BY <1>5, <1>6, <1>7
<1>9. own \in Seq(T)
  <2>1. own \in Seq(OwnTools)
    BY SeqOfIs
  <2>2. \A S, R : \A s \in Seq(S) : S \subseteq R => s \in Seq(R)
    OBVIOUS
  <2>3. QED
    BY <1>7, <2>1, <2>2
<1>10. servers \in Seq(Seq(Mcp))
  <2>1. \A t, u \in Mcp : <<t>> \in Seq(Mcp) /\ <<<<t>>>> \in Seq(Seq(Mcp))
                          /\ <<<<t>>, <<u>>>> \in Seq(Seq(Mcp))
    <3>1. \A t \in Mcp : <<t>> \in Seq(Mcp)
      OBVIOUS
    <3>2. QED
      BY <3>1, ShortSeqs, Zenon
  <2>2. <<>> \in Seq(Seq(Mcp))
    OBVIOUS
  <2>3. McpTools("m") \subseteq Mcp /\ McpTools("n") \subseteq Mcp
    BY DEF Mcp
  <2>4. CASE servers = <<>>
    BY <2>2, <2>4
  <2>5. CASE servers \in {<<<<t>>>> : t \in McpTools("m")}
    <3>1. PICK t \in McpTools("m") : servers = <<<<t>>>>
      BY <2>5
    <3>2. QED
      BY <2>1, <2>3, <3>1, Zenon
  <2>6. CASE servers \in {<<<<t>>, <<u>>>> : t \in McpTools("m"), u \in McpTools("n")}
    <3>1. PICK t \in McpTools("m"), u \in McpTools("n") : servers = <<<<t>>, <<u>>>>
      BY <2>6
    <3>2. QED
      BY <2>1, <2>3, <3>1, Zenon
  <2>7. QED
    BY <2>4, <2>5, <2>6 DEF Servers
<1>11. servers \in Seq(Seq(T))
  <2>1. \A s \in Seq(Mcp) : s \in Seq(T)
    BY <1>7
  <2>2. \A S, R : \A s \in Seq(S) : S \subseteq R => s \in Seq(R)
    OBVIOUS
  <2>3. QED
    BY <1>10, <2>1, <2>2
<1>12. \A i \in DOMAIN FlattenSeq(servers) : FlattenSeq(servers)[i].enabled = TRUE
  <2>1. PICK listed \in Seq(Mcp) : listed = FlattenSeq(servers)
    BY <1>10, FlattenOfBoth
  <2>2. \A i \in DOMAIN listed : listed[i] \in Mcp
    OBVIOUS
  <2>3. QED
    BY <1>6, <2>1, <2>2
<1>13. OfferedToolsAreTold(own, servers, filter, OfferedTools(own, servers, filter))
  BY <1>3, <1>8, <1>9, <1>11, <1>12, EveryOfferIsTold
<1>14. QED
  BY <1>1, <1>13

LEMMA CallStep ==
    CallTool => CallsAreGuarded(given'[1], given'[2], given'[3], given'[4], made')
<1> SUFFICES ASSUME CallTool
             PROVE  CallsAreGuarded(given'[1], given'[2], given'[3], given'[4], made')
  OBVIOUS
<1>1. PICK input \in SeqOf(Executors, 2), outcome \in {"ok", "fails"},
           formatter \in {"default", "text", "silent"}, output \in SeqOf(Executors, 2) :
          /\ given' = <<input, outcome, formatter, output>>
          /\ made' = Called(input, outcome, formatter, output)
  BY DEF CallTool
<1>2. input \in Seq(Executors) /\ output \in Seq(Executors)
  BY SeqOfIs
<1>3. CallsAreGuarded(input, outcome, formatter, output,
                      Called(input, outcome, formatter, output))
  BY <1>2, EveryCallIsGuarded
<1>4. QED
  BY <1>1, <1>3

LEMMA AskStep == AskGuardrails => GuardrailsAgree(given', made')
<1> SUFFICES ASSUME AskGuardrails PROVE GuardrailsAgree(given', made')
  OBVIOUS
<1>1. PICK verdicts \in SeqOf({"allow", "raise", "error", "none"}, 3) :
          given' = verdicts /\ made' = AgentGuardrails(verdicts)
  BY DEF AskGuardrails
<1>2. verdicts \in Seq({"allow", "raise", "error", "none"})
  BY SeqOfIs
<1>3. verdicts \in Seq(Executors)
  BY <1>2 DEF Executors, GuardrailVerdicts
<1>4. QED
  BY <1>1, <1>3, AgentIsGuarded

LEMMA CallAgentStep ==
    CallAgentTool => ListeningChangesNothing(given'[1], given'[2], given'[3], made')
<1> SUFFICES ASSUME CallAgentTool
             PROVE  ListeningChangesNothing(given'[1], given'[2], given'[3], made')
  OBVIOUS
<1>1. PICK options \in ToolOptions, context \in CallContexts, nested \in NestedRuns,
           arguments \in Arguments, isTyped \in BOOLEAN, builder \in BOOLEAN,
           schema \in BOOLEAN :
        /\ isTyped \/ builder \/ schema => nested.items = <<>>
        /\ given' = <<options, context, nested>>
        /\ made' = CallAgent(options, context, arguments, isTyped, builder, schema, nested)
  BY Zenon DEF CallAgentTool
<1>2. nested.items \in Seq(NestedItems)
  <2>1. nested.items \in BoundedSeq(NestedItems, 2) \/ nested.items = <<>>
    <3>1. CASE nested \in [outcome : {"done", "interrupted"}, final : {Unset, "", "f"},
                            items : BoundedSeq(NestedItems, 2), output : {"", "r"}]
      BY <3>1
    <3>2. CASE nested = [outcome |-> "failed", final |-> Unset, items |-> <<>>, output |-> ""]
      BY <3>2
    <3>3. QED
      BY <3>1, <3>2 DEF NestedRuns
  <2>2. \A s \in BoundedSeq(NestedItems, 2) : s \in Seq(NestedItems)
    BY SeqOfIs DEF BoundedSeq
  <2>3. QED
    BY <2>1, <2>2, ShortSeqs, Zenon
<1>3. context.config = <<>> \/ context.config = <<Config("parent", "parents")>>
  BY DEF CallContexts
<1>4. ListeningChangesNothing(options, context, nested,
          CallAgent(options, context, arguments, isTyped, builder, schema, nested))
  BY <1>2, <1>3, EveryRunIsListenedTo
<1>5. QED
  BY <1>1, <1>4

LEMMA RunCodexStep ==
    RunCodex => TurnsFollowTheirThread(given'[1], given'[2], given'[3], given'[4], given'[5],
                                       made')
<1> SUFFICES ASSUME RunCodex
             PROVE  TurnsFollowTheirThread(given'[1], given'[2], given'[3], given'[4],
                                           given'[5], made')
  OBVIOUS
<1>1. PICK asked \in {NoId, "a"}, pinned \in {NoId, "p"}, client \in Clients,
           input \in {<<"text">>, <<"image", "text">>},
           turn \in TurnOptions, next \in NextTurns,
           process \in Processes, after \in NextProcesses :
        /\ given' = <<asked, pinned, client, <<turn, next>>, <<process, after>>>>
        /\ made' = TwoTurns(asked, pinned, client, input, given'[4], given'[5])
  BY DEF RunCodex
<1>2. PICK turns : turns = <<turn, next>>
  OBVIOUS
<1>3. PICK processes : processes = <<process, after>>
  OBVIOUS
<1>4. IsClient(client)
  <2>1. CASE client = [flags |-> {}, env |-> Inherited, baseUrl |-> FALSE, apiKey |-> FALSE]
    BY <2>1 DEF IsClient
  <2>2. CASE client = [flags |-> {"model", "approval"}, env |-> Inherited,
                       baseUrl |-> FALSE, apiKey |-> TRUE]
    BY <2>2, FlagsAre DEF IsClient
  <2>3. CASE client = [flags |-> {"network"}, env |-> {"PATH"}, baseUrl |-> TRUE, apiKey |-> FALSE]
    BY <2>3, FlagsAre DEF IsClient
  <2>4. QED
    BY <2>1, <2>2, <2>3 DEF Clients
<1>5. process.events \in Seq(CodexEvents)
  <2>1. process.events \in BoundedSeq(CodexEvents, 2)
    BY DEF Processes
  <2>2. QED
    BY <2>1, SeqOfIs DEF BoundedSeq
<1>6. after.events \in Seq(CodexEvents)
  <2>1. Event("started", "u") \in CodexEvents /\ Event("item", "m1") \in CodexEvents
        /\ Event("failed", "why") \in CodexEvents
    BY DEF CodexEvents
  <2>2. PICK e \in CodexEvents : e = Event("started", "u")
    BY <2>1
  <2>3. PICK f \in CodexEvents : f = Event("item", "m1")
    BY <2>1
  <2>4. PICK g \in CodexEvents : g = Event("failed", "why")
    BY <2>1
  <2>5. after.events \in {<<>>, <<e, f>>, <<g>>}
    BY <2>2, <2>3, <2>4 DEF NextProcesses
  <2>6. QED
    BY <2>5, ShortSeqs, Zenon
<1>7. ImagesIn(input) \in Nat
  <2>1. input \in Seq({"text", "image"})
    <3>1. "text" \in {"text", "image"} /\ "image" \in {"text", "image"}
      OBVIOUS
    <3>2. QED
      BY <3>1, ShortSeqs, Zenon
  <2>2. Those(input, {"image"}) \in Seq({"text", "image"})
    BY <2>1, ThoseHold
  <2>3. QED
    BY <2>2 DEF ImagesIn
<1>8. TurnsFollowTheirThread(asked, pinned, client, turns, processes,
          TwoTurns(asked, pinned, client, input, turns, processes))
  BY <1>3, <1>4, <1>5, <1>6, <1>7, EveryTurnFollows
<1>9. QED
  BY <1>1, <1>2, <1>3, <1>8

LEMMA ToolsStep == Tools /\ [ConversionNext]_conversionVars => Tools'
<1> SUFFICES ASSUME Tools, [ConversionNext]_conversionVars PROVE Tools'
  OBVIOUS
<1>1. CASE UNCHANGED dataVars
  BY <1>1 DEF Tools, dataVars
<1>2. CASE ~done /\ done' = TRUE /\ subject' = subject /\ Convert
  BY <1>2, SubjectsAct, OfferStep, CallStep, AskStep, CallAgentStep, RunCodexStep DEF Tools
<1>3. QED
  BY <1>1, <1>2 DEF ConversionNext, conversionVars

(* The tools that are offered can be told apart, calls are guarded, nested *)
(* runs are the same with a listener, and threads are gone on with where   *)
(* they ended (Tools).                                                     *)
THEOREM ToolsAreTold == ConversionSpec => []Tools
<1>1. ConversionInit => Tools
  BY DEF ConversionInit, Tools
<1>2. QED
  BY <1>1, ToolsStep, PTL DEF ConversionSpec

-----------------------------------------------------------------------------
(* A response is taken from frames that end with it, or not at all,        *)
(* however many there are.                                                 *)
THEOREM EveryAnswerIsWhole ==
    ASSUME NEW frames \in Seq(Frames) PROVE AnswerIsWhole(frames, WebSocketAnswer(frames))
<1> DEFINE bad == {"not json", "error", "ended", "ended without response", "close", "broken"}
<1>1. PICK telling : telling = {i \in DOMAIN frames : frames[i] \notin Skipped}
  OBVIOUS
<1>2. DOMAIN frames = 1..Len(frames) /\ Len(frames) \in Nat
      /\ \A i \in 1..Len(frames) : frames[i] \in Frames
  OBVIOUS
<1>3. \A i \in 1..Len(frames) : i \in telling <=> frames[i] \in bad
  <2>1. \A f \in Frames : f \notin Skipped <=> f \in bad
    BY DEF Frames, Skipped
  <2> HIDE DEF bad
  <2>2. QED
    BY <1>1, <1>2, <2>1
<1>4. Answer("response") # Failed
  BY DEF Answer, Failed
<1>5. ASSUME telling # {}
      PROVE  /\ Min(telling) \in telling /\ \A j \in telling : Min(telling) <= j
  <2>1. telling \subseteq Nat
    BY <1>1, <1>2
  <2>2. \E x \in telling : \A y \in telling : x <= y
    BY <1>5, <2>1, NatMin
  <2>3. QED
    BY <2>2 DEF Min
<1> HIDE DEF bad
<1>6. ASSUME telling # {}, frames[Min(telling)] = "ended"
      PROVE  \E i \in DOMAIN frames : frames[i] = "ended" /\ \A j \in 1..(i - 1) : frames[j] \notin bad
  <2>1. PICK i \in 1..Len(frames) : i = Min(telling)
    BY <1>1, <1>2, <1>5, <1>6
  <2>2. \A j \in 1..(i - 1) : j \in 1..Len(frames) /\ ~(i <= j)
    BY <1>2
  <2>3. \A j \in 1..(i - 1) : frames[j] \notin bad
    BY <1>3, <1>5, <1>6, <2>1, <2>2
  <2>4. QED
    BY <1>2, <1>6, <2>1, <2>3
<1>7. ASSUME NEW i \in DOMAIN frames, frames[i] = "ended",
             \A j \in 1..(i - 1) : frames[j] \notin bad
      PROVE  telling # {} /\ frames[Min(telling)] = "ended"
  <2>1. i \in telling
    BY <1>2, <1>3, <1>7 DEF bad
  <2>2. PICK m \in 1..Len(frames) : m = Min(telling) /\ m \in telling /\ m <= i
    BY <1>1, <1>2, <1>5, <2>1
  <2>3. ~(m \in 1..(i - 1))
    BY <1>3, <1>7, <2>2
  <2>4. m = i
    BY <1>2, <2>2, <2>3
  <2>5. QED
    BY <1>7, <2>1, <2>2, <2>4
<1>8. WebSocketAnswer(frames) = Answer("response")
          <=> telling # {} /\ frames[Min(telling)] = "ended"
  BY <1>1, <1>4 DEF WebSocketAnswer
<1>9. QED
  BY <1>6, <1>7, <1>8 DEF AnswerIsWhole, bad

-----------------------------------------------------------------------------
(* A provider's own fields.                                                *)

LEMMA LaidOver ==
    ASSUME NEW f, NEW g
    PROVE  /\ DOMAIN (f ++ g) = DOMAIN f \cup DOMAIN g
           /\ \A x \in DOMAIN f : (f ++ g)[x] = f[x]
           /\ \A x \in DOMAIN g : x \notin DOMAIN f => (f ++ g)[x] = g[x]
BY DEF ++

LEMMA OwnFieldsAlwaysWin ==
    ASSUME NEW fields \in ProviderFields, NEW websocket \in {"none", "on", "off"},
           NEW before \in SharedDefaults, NEW after \in SharedDefaults
    PROVE  OwnFieldsWin(fields, websocket, before, after)
<1>1. PICK p : p = MadeWith(fields, before, websocket)
  OBVIOUS
<1>2. /\ p.useResponses = fields.useResponses /\ p.api = fields.api /\ p.key = fields.key
      /\ p.websocket = IF websocket = "none" THEN before.websocket = "on" ELSE websocket = "on"
      /\ p.registration = IF fields.registration = "none" THEN "none"
                          ELSE Registered(fields.registration, before)
  <2> DEFINE first == [websocket |-> IF websocket = "none" THEN before.websocket = "on"
                                     ELSE websocket = "on",
                       registration |-> IF fields.registration = "none" THEN "none"
                                        ELSE Registered(fields.registration, before)]
  <2>1. DOMAIN first = {"websocket", "registration"}
    OBVIOUS
  <2>2. DOMAIN fields = {"useResponses", "api", "registration", "key"}
    BY DEF ProviderFields
  <2>3. p = first ++ fields
    BY <1>1 DEF MadeWith
  <2>4. /\ p["useResponses"] = fields["useResponses"] /\ p["api"] = fields["api"]
        /\ p["key"] = fields["key"] /\ p["websocket"] = first["websocket"]
        /\ p["registration"] = first["registration"]
    <3> HIDE DEF first
    <3>1. /\ \A x \in DOMAIN first : (first ++ fields)[x] = first[x]
          /\ \A x \in DOMAIN fields : x \notin DOMAIN first => (first ++ fields)[x] = fields[x]
      BY LaidOver, Zenon
    <3>2. QED
      BY <2>1, <2>2, <2>3, <3>1
  <2>5. QED
    BY <2>4
<1>3. /\ fields.useResponses \in {"none", "chat", "responses"}
      /\ fields.api \in {"none", "chat", "responses"}
      /\ fields.registration \in {"none", "blank", "own"} /\ fields.key \in {"none", "own"}
  BY DEF ProviderFields
<1>4. /\ fields.useResponses # "none" => ResolvedApi(p, after) = fields.useResponses
      /\ fields.useResponses = "none" /\ fields.api # "none" => ResolvedApi(p, after) = fields.api
  BY <1>2, <1>3 DEF ResolvedApi, OrElse
<1>5. websocket # "none" /\ ResolvedApi(p, after) = "responses"
          => (ModelOf(p, after) = "websocket") <=> (websocket = "on")
  <2>1. SUFFICES ASSUME websocket # "none", ResolvedApi(p, after) = "responses"
                 PROVE  (ModelOf(p, after) = "websocket") <=> (websocket = "on")
    OBVIOUS
  <2>2. p.websocket = (websocket = "on")
    BY <1>2, <2>1
  <2>3. CASE websocket = "on"
    BY <2>1, <2>2, <2>3 DEF ModelOf
  <2>4. CASE websocket # "on"
    BY <2>1, <2>2, <2>4 DEF ModelOf
  <2>5. QED
    BY <2>3, <2>4
<1>6. /\ p.registration # "none" => HarnessId(p, after) = p.registration
      /\ fields.registration = "own" => HarnessId(p, after) = "own"
      /\ HarnessId(p, after) # "blank"
  <2>1. \A x, s : Registered(x, s) # "blank"
    BY DEF Registered, OrElse, NonBlank
  <2>2. QED
    BY <1>2, <1>3, <2>1 DEF HarnessId, Registered, OrElse, NonBlank
<1>7. fields.key # "none" => ClientKey(p, after) = fields.key
  BY <1>2, <1>3 DEF ClientKey, OrElse
<1>8. QED
  BY <1>1, <1>4, <1>5, <1>6, <1>7 DEF OwnFieldsWin

-----------------------------------------------------------------------------
(* Where a request goes.                                                   *)

(* One step of the way down.                                               *)
Onward(at) == IF IsMulti(at[1]) THEN Step(at[1], at[2]) ELSE at

LEMMA DownIs ==
    ASSUME NEW provider, NEW name
    PROVE  Resolve(provider, name) = Onward(Onward(<<provider, name>>))
<1>1. PICK start : start = <<provider, name>>
  OBVIOUS
<1>2. PICK down : down = [n \in 0..2 |-> IF n = 0 THEN start
                                        ELSE IF n = 1 THEN Onward(start) ELSE Onward(Onward(start))]
  OBVIOUS
<1>3. down = [n \in 0..2 |-> IF n = 0 THEN start
                            ELSE IF IsMulti(down[n - 1][1])
                                 THEN Step(down[n - 1][1], down[n - 1][2]) ELSE down[n - 1]]
  <2>1. /\ down[0] = start /\ down[1] = Onward(start) /\ down[2] = Onward(Onward(start))
    BY <1>2
  <2>2. \A n \in 0..2 : n = 0 \/ n = 1 \/ n = 2
    OBVIOUS
  <2>3. QED
    BY <1>2, <2>1, <2>2 DEF Onward
<1>4. \A f : f = [n \in 0..2 |-> IF n = 0 THEN start
                            ELSE IF IsMulti(f[n - 1][1])
                                 THEN Step(f[n - 1][1], f[n - 1][2]) ELSE f[n - 1]]
             => f[2] = Onward(Onward(start))
  <2>1. SUFFICES ASSUME NEW f,
                        f = [n \in 0..2 |-> IF n = 0 THEN start
                                ELSE IF IsMulti(f[n - 1][1])
                                     THEN Step(f[n - 1][1], f[n - 1][2]) ELSE f[n - 1]]
                 PROVE  f[2] = Onward(Onward(start))
    OBVIOUS
  <2>2. f[0] = start
    BY <2>1
  <2>3. f[1] = IF IsMulti(f[0][1]) THEN Step(f[0][1], f[0][2]) ELSE f[0]
    BY <2>1
  <2>4. f[2] = IF IsMulti(f[1][1]) THEN Step(f[1][1], f[1][2]) ELSE f[1]
    BY <2>1
  <2>5. QED
    BY <2>2, <2>3, <2>4 DEF Onward
<1>5. QED
  BY <1>1, <1>3, <1>4 DEF Resolve, Depth

(* A provider with what is left of a name, on the way down.                *)
IsOnTheWay(name, at) ==
    \E t \in 0..Len(name) :
        /\ at[2] = SubSeq(name, t + 1, Len(name))
        /\ \A i \in 1..t : name[i] \in {"openai", "mapped"}
        /\ name # None => t < Len(name)
        /\ at[1] = NoRoute => t < Len(name) /\ name[t + 1] = "other"

LEMMA StaysOnTheWay ==
    ASSUME NEW name \in Seq(Parts), NEW provider, provider # NoRoute
    PROVE  IsOnTheWay(name, <<provider, name>>)
<1>1. name = SubSeq(name, 0 + 1, Len(name)) /\ Len(name) \in Nat
  BY SMT
<1>2. name # <<>> => 0 < Len(name)
  OBVIOUS
<1>3. 0 \in 0..Len(name) /\ \A i \in 1..0 : FALSE
  BY <1>1
<1>4. QED
  BY <1>1, <1>2, <1>3 DEF IsOnTheWay, None

LEMMA OneStepDown ==
    ASSUME NEW m, NEW d, m # NoRoute, d # NoRoute,
           NEW o \in {"alias", "model_id"}, NEW u \in {"error", "model_id"},
           NEW name \in Seq(Parts), NEW at,
           at = Onward(<<Multi(One("mapped", m), d, o, u), name>>)
    PROVE  at[1] \in {m, d, NoRoute} /\ IsOnTheWay(name, at)
<1>1. PICK p : p = Multi(One("mapped", m), d, o, u)
  OBVIOUS
<1>2. /\ IsMulti(p) /\ p.default = d /\ p.openai = o /\ p.unknown = u
      /\ DOMAIN p.map = {"mapped"} /\ p.map["mapped"] = m
  BY <1>1 DEF IsMulti, Multi, One
<1>3. at = Step(p, name)
  BY <1>1, <1>2 DEF Onward
<1>4. Len(name) \in Nat /\ \A i \in 1..Len(name) : name[i] \in Parts
  OBVIOUS
<1>5. CASE Len(name) <= 1
  <2>1. at = <<d, name>>
    BY <1>2, <1>3, <1>5 DEF Step
  <2>2. QED
    BY <2>1, StaysOnTheWay
<1>6. CASE ~(Len(name) <= 1)
  <2>1. Head(name) = name[1] /\ name[1] \in Parts /\ 1 \in 0..Len(name) /\ 1 < Len(name)
    BY <1>4, <1>6
  <2>2. Tail(name) = SubSeq(name, 1 + 1, Len(name))
    BY <1>4, <1>6
  <2>3. ASSUME NEW to, to # NoRoute, at = <<to, Tail(name)>>, name[1] \in {"openai", "mapped"}
        PROVE  IsOnTheWay(name, at)
    <3>1. \A i \in 1..1 : name[i] \in {"openai", "mapped"}
      BY <2>3
    <3>2. at[2] = SubSeq(name, 1 + 1, Len(name)) /\ at[1] # NoRoute
      <4>1. PICK rest : rest = Tail(name)
        OBVIOUS
      <4>2. at[1] = to /\ at[2] = rest
        <5>1. \A x, y : <<x, y>>[1] = x /\ <<x, y>>[2] = y
          OBVIOUS
        <5>2. at = <<to, rest>>
          BY <2>3, <4>1, Zenon
        <5>3. QED
          BY <5>1, <5>2, ZenonT(60)
      <4>3. QED
        BY <2>2, <2>3, <4>1, <4>2, Zenon
    <3>3. QED
      BY <2>1, <3>1, <3>2, Zenon DEF IsOnTheWay
  <2>4. CASE name[1] = "mapped"
    <3>1. at = <<m, Tail(name)>>
      BY <1>2, <1>3, <1>6, <2>1, <2>4 DEF Step
    <3>2. QED
      BY <2>3, <2>4, <3>1
  <2>5. CASE name[1] = "openai"
    <3>1. at = <<d, IF o = "alias" THEN Tail(name) ELSE name>>
      BY <1>2, <1>3, <1>6, <2>1, <2>5 DEF Step
    <3>2. QED
      <4>1. CASE o = "alias"
        BY <2>3, <2>5, <3>1, <4>1
      <4>2. CASE o # "alias"
        BY <3>1, <4>2, StaysOnTheWay
      <4>3. QED
        BY <4>1, <4>2
  <2>6. CASE name[1] = "other"
    <3>1. at = IF u = "model_id" THEN <<d, name>> ELSE <<NoRoute, name>>
      BY <1>2, <1>3, <1>6, <2>1, <2>6 DEF Step
    <3>2. ASSUME at = <<NoRoute, name>> PROVE IsOnTheWay(name, at)
      <4>1. name = SubSeq(name, 0 + 1, Len(name)) /\ 0 \in 0..Len(name) /\ 0 < Len(name)
            /\ 0 + 1 = 1
        BY <1>4, <1>6
      <4>2. \A i \in 1..0 : FALSE
        OBVIOUS
      <4>3. QED
        BY <2>6, <3>2, <4>1, <4>2 DEF IsOnTheWay
    <3>3. QED
      BY <3>1, <3>2, StaysOnTheWay
  <2>7. QED
    BY <2>1, <2>4, <2>5, <2>6 DEF Parts
<1>7. QED
  BY <1>5, <1>6

LEMMA FurtherOnTheWay ==
    ASSUME NEW name \in Seq(Parts), NEW at, NEW next, IsOnTheWay(name, at), at[1] # NoRoute,
           IsOnTheWay(at[2], next)
    PROVE  IsOnTheWay(name, next) /\ at[2] \in Seq(Parts)
<1>1. PICK t \in 0..Len(name) :
        /\ at[2] = SubSeq(name, t + 1, Len(name))
        /\ \A i \in 1..t : name[i] \in {"openai", "mapped"}
        /\ name # None => t < Len(name)
  BY DEF IsOnTheWay
<1>2. PICK u \in 0..Len(at[2]) :
        /\ next[2] = SubSeq(at[2], u + 1, Len(at[2]))
        /\ \A i \in 1..u : at[2][i] \in {"openai", "mapped"}
        /\ at[2] # None => u < Len(at[2])
        /\ next[1] = NoRoute => u < Len(at[2]) /\ at[2][u + 1] = "other"
  BY DEF IsOnTheWay
<1>3. /\ at[2] \in Seq(Parts) /\ Len(name) \in Nat /\ Len(at[2]) = Len(name) - t
      /\ \A i \in 1..(Len(name) - t) : at[2][i] = name[t + i]
  BY <1>1
<1>4. t + u \in 0..Len(name) /\ Len(name) - t - u = Len(at[2]) - u /\ u \in Nat /\ t \in Nat
  BY <1>2, <1>3
<1>5. next[2] = SubSeq(name, (t + u) + 1, Len(name))
  <2>1. PICK s : s = SubSeq(name, (t + u) + 1, Len(name))
    OBVIOUS
  <2>2. s \in Seq(Parts) /\ Len(s) = Len(name) - t - u
        /\ \A i \in 1..(Len(name) - t - u) : s[i] = name[t + u + i]
    <3>1. PICK b \in 0..Len(name) : b = t + u
      BY <1>4
    <3>2. /\ SubSeq(name, b + 1, Len(name)) \in Seq(Parts)
          /\ Len(SubSeq(name, b + 1, Len(name))) = Len(name) - b
          /\ \A i \in 1..(Len(name) - b) : SubSeq(name, b + 1, Len(name))[i] = name[b + i]
      BY <1>3
    <3>3. Len(name) - b = Len(name) - t - u
      BY <1>3, <1>4, <3>1
    <3>4. QED
      BY <2>1, <3>1, <3>2, <3>3
  <2>3. next[2] \in Seq(Parts) /\ Len(next[2]) = Len(at[2]) - u
        /\ \A i \in 1..(Len(at[2]) - u) : next[2][i] = at[2][u + i]
    BY <1>2, <1>3, <1>4
  <2>4. \A i \in 1..(Len(name) - t - u) : u + i \in 1..(Len(name) - t) /\ t + (u + i) = t + u + i
    BY <1>3, <1>4
  <2>5. \A i \in 1..(Len(name) - t - u) : next[2][i] = s[i]
    BY <1>3, <1>4, <2>2, <2>3, <2>4
  <2>6. Len(next[2]) = Len(s)
    BY <1>4, <2>2, <2>3
  <2>7. PICK n : n = Len(name) - t - u
    OBVIOUS
  <2>8. s \in [1..n -> Parts] /\ next[2] \in [1..n -> Parts]
    <3>1. \A q \in Seq(Parts) : q \in [1..Len(q) -> Parts]
      OBVIOUS
    <3>2. QED
      BY <2>2, <2>3, <2>6, <2>7, <3>1
  <2>9. \A i \in 1..n : next[2][i] = s[i]
    BY <2>5, <2>7
  <2>10. \A a, b \in [1..n -> Parts] : (\A i \in 1..n : a[i] = b[i]) => a = b
    <3>1. SUFFICES ASSUME NEW a \in [1..n -> Parts], NEW b \in [1..n -> Parts],
                          \A i \in 1..n : a[i] = b[i]
                   PROVE  a = b
      OBVIOUS
    <3>2. a = [i \in 1..n |-> a[i]] /\ b = [i \in 1..n |-> b[i]]
      BY <3>1, Zenon
    <3>3. [i \in 1..n |-> a[i]] = [i \in 1..n |-> b[i]]
      BY <3>1, Zenon
    <3>4. QED
      BY <3>2, <3>3, Zenon
  <2>11. next[2] = s
    BY <2>8, <2>9, <2>10, Zenon
  <2>12. QED
    BY <2>1, <2>11, Zenon
<1>6. ASSUME NEW i \in 1..(t + u) PROVE name[i] \in {"openai", "mapped"}
  <2>1. CASE i <= t
    BY <1>1, <1>4, <2>1
  <2>2. CASE ~(i <= t)
    <3>1. i - t \in 1..u /\ i - t \in 1..(Len(name) - t) /\ t + (i - t) = i
      BY <1>2, <1>3, <1>4, <2>2
    <3>2. QED
      BY <1>2, <1>3, <3>1
  <2>3. QED
    BY <2>1, <2>2
<1>7. name # None => t + u < Len(name)
  <2>1. SUFFICES ASSUME name # None PROVE t + u < Len(name)
    OBVIOUS
  <2>2. t < Len(name)
    BY <1>1, <2>1
  <2>3. at[2] # None
    BY <1>3, <2>2 DEF None
  <2>4. u < Len(at[2])
    BY <1>2, <2>3
  <2>5. QED
    BY <1>3, <1>4, <2>4
<1>8. next[1] = NoRoute => t + u < Len(name) /\ name[(t + u) + 1] = "other"
  <2>1. SUFFICES ASSUME next[1] = NoRoute PROVE t + u < Len(name) /\ name[(t + u) + 1] = "other"
    OBVIOUS
  <2>2. u < Len(at[2]) /\ at[2][u + 1] = "other"
    BY <1>2, <2>1
  <2>3. u + 1 \in 1..(Len(name) - t) /\ t + (u + 1) = (t + u) + 1 /\ t + u < Len(name)
    BY <1>3, <1>4, <2>2
  <2>4. QED
    BY <1>3, <2>2, <2>3
<1>9. QED
  BY <1>3, <1>4, <1>5, <1>6, <1>7, <1>8 DEF IsOnTheWay

LEMMA BackendsAre ==
    ASSUME NEW p \in Backends
    PROVE  /\ p # NoRoute
           /\ \/ ~IsMulti(p)
              \/ \E o \in {"alias", "model_id"}, u \in {"error", "model_id"} :
                     p = Multi(One("mapped", Backend("c")), Backend("d"), o, u)
<1>1. \A x \in {"a", "b"} : Backend(x) # NoRoute /\ ~IsMulti(Backend(x))
  BY DEF Backend, NoRoute, IsMulti
<1>2. \A m, d, o, u : Multi(m, d, o, u) # NoRoute
  BY DEF Multi, NoRoute
<1>3. \/ \E x \in {"a", "b"} : p = Backend(x)
      \/ \E o \in {"alias", "model_id"}, u \in {"error", "model_id"} :
             p = Multi(One("mapped", Backend("c")), Backend("d"), o, u)
  <2>1. PICK m, d : m = One("mapped", Backend("c")) /\ d = Backend("d")
    OBVIOUS
  <2>2. p \in {Multi(m, d, openai, unknown) :
                   openai \in {"alias", "model_id"}, unknown \in {"error", "model_id"}}
        => \E o \in {"alias", "model_id"}, u \in {"error", "model_id"} : p = Multi(m, d, o, u)
    BY SMT
  <2>3. QED
    BY <2>1, <2>2 DEF Backends, LeafBackends
<1>4. CASE \E x \in {"a", "b"} : p = Backend(x)
  BY <1>1, <1>4
<1>5. CASE \E o \in {"alias", "model_id"}, u \in {"error", "model_id"} :
             p = Multi(One("mapped", Backend("c")), Backend("d"), o, u)
  BY <1>2, <1>5
<1>6. QED
  BY <1>3, <1>4, <1>5

LEMMA EveryWayIsKnown ==
    ASSUME NEW m \in Backends, NEW d \in Backends,
           NEW o \in {"alias", "model_id"}, NEW u \in {"error", "model_id"},
           NEW name \in Seq(Parts), NEW provider,
           provider = Multi(One("mapped", m), d, o, u)
    PROVE  IsOnTheWay(name, Resolve(provider, name))
<1>1. PICK first : first = Onward(<<provider, name>>)
  OBVIOUS
<1>2. m # NoRoute /\ d # NoRoute
  BY BackendsAre
<1>3. first[1] \in {m, d, NoRoute} /\ IsOnTheWay(name, first)
  BY <1>1, <1>2, OneStepDown
<1>4. PICK second : second = Onward(first)
  OBVIOUS
<1>5. Resolve(provider, name) = second
  BY <1>1, <1>4, DownIs, Zenon
<1>6. ~IsMulti(NoRoute)
  BY DEF IsMulti, NoRoute
<1>7. CASE ~IsMulti(first[1])
  <2>1. second = first
    BY <1>4, <1>7 DEF Onward
  <2>2. QED
    BY <1>3, <1>5, <2>1
<1>8. CASE IsMulti(first[1])
  <2>1. first[1] # NoRoute /\ first[1] \in Backends
    BY <1>3, <1>6, <1>8
  <2>2. PICK p \in {"alias", "model_id"}, q \in {"error", "model_id"} :
            first[1] = Multi(One("mapped", Backend("c")), Backend("d"), p, q)
    BY <1>8, <2>1, BackendsAre
  <2>3. Backend("c") # NoRoute /\ Backend("d") # NoRoute
    BY DEF Backend, NoRoute
  <2>4. PICK rest : rest = first[2]
    OBVIOUS
  <2>5. rest \in Seq(Parts)
    <3>1. PICK t \in 0..Len(name) : rest = SubSeq(name, t + 1, Len(name))
      BY <1>3, <2>4 DEF IsOnTheWay
    <3>2. QED
      BY <3>1
  <2>6. \A x, y : <<x, y>>[1] = x /\ <<x, y>>[2] = y
    OBVIOUS
  <2>7. Onward(first) = Onward(<<first[1], rest>>)
    <3>1. PICK p1 : p1 = first[1]
      OBVIOUS
    <3>2. Onward(first) = Step(p1, rest)
      BY <1>8, <2>4, <3>1, Zenon DEF Onward
    <3>3. Onward(<<p1, rest>>) = Step(p1, rest)
      <4>1. <<p1, rest>>[1] = p1 /\ <<p1, rest>>[2] = rest
        BY <2>6, Zenon
      <4>2. QED
        BY <1>8, <3>1, <4>1, Zenon DEF Onward
    <3>4. QED
      BY <3>1, <3>2, <3>3, Zenon
  <2>8. IsOnTheWay(rest, second)
    BY <1>4, <2>2, <2>3, <2>5, <2>7, OneStepDown
  <2>9. QED
    BY <1>3, <1>5, <2>1, <2>4, <2>8, FurtherOnTheWay
<1>9. QED
  BY <1>7, <1>8

LEMMA RouteStep ==
    ASSUME RouteRequest
    PROVE  RequestGoesWhereItsModelIs(given'[1], given'[2], given'[3], made'[1], made'[2])
<1>1. PICK name \in Names, inner \in Backends, mapped \in Backends,
           openai \in {"alias", "model_id"}, unknown \in {"error", "model_id"},
           harness \in {"none", "h"}, metadata \in Metadata :
          LET provider == Multi(One("mapped", mapped), inner, openai, unknown)
              prepared == PrepareRequest(provider, [model |-> name, metadata |-> metadata],
                                         harness)
          IN /\ given' = <<name, metadata, harness>>
             /\ made' = <<prepared, Resolve(provider, name)>>
  BY Zenon DEF RouteRequest
<1>2. PICK provider : provider = Multi(One("mapped", mapped), inner, openai, unknown)
  OBVIOUS
<1>3. PICK request : request = [model |-> name, metadata |-> metadata]
  OBVIOUS
<1>4. PICK to : to = Resolve(provider, name)
  OBVIOUS
<1>5. PICK prepared : prepared = PrepareRequest(provider, request, harness)
  OBVIOUS
<1>6. given' = <<name, metadata, harness>> /\ made' = <<prepared, to>>
  BY <1>1, <1>2, <1>3, <1>4, <1>5, Zenon
<1>7. name \in Seq(Parts) /\ Len(name) \in Nat
  <2>1. name \in SeqOf(Parts, 3)
    BY DEF Names, BoundedSeq
  <2>2. QED
    BY <2>1, SeqOfIs
<1>8. IsOnTheWay(name, to)
  BY <1>2, <1>4, <1>7, EveryWayIsKnown
<1>9. PICK t \in 0..Len(name) :
        /\ to[2] = SubSeq(name, t + 1, Len(name))
        /\ \A i \in 1..t : name[i] \in {"openai", "mapped"}
        /\ name # None => t < Len(name)
        /\ to[1] = NoRoute => t < Len(name) /\ name[t + 1] = "other"
  BY <1>8 DEF IsOnTheWay
<1>10. Len(to[2]) = Len(name) - t /\ Len(name) - Len(to[2]) = t /\ t \in Nat
  <2>1. Len(SubSeq(name, t + 1, Len(name))) = Len(name) - t
    BY <1>7
  <2>2. Len(to[2]) = Len(name) - t
    BY <1>9, <2>1
  <2>3. QED
    BY <1>7, <2>2
<1>11. name # None => to[2] # None
  <2>1. \A s \in Seq(Parts) : Len(s) # 0 => s # <<>>
    OBVIOUS
  <2>2. SubSeq(name, t + 1, Len(name)) \in Seq(Parts)
    BY <1>7
  <2>3. name # None => Len(name) - t # 0
    BY <1>7, <1>9
  <2>4. QED
    BY <1>9, <1>10, <2>1, <2>2, <2>3 DEF None
<1>12. PICK own : own = IF harness = "none" \/ "harness" \in DOMAIN metadata THEN metadata
                       ELSE One("harness", harness) ++ metadata
  OBVIOUS
<1>13. /\ request.model = name /\ request.metadata = metadata
       /\ prepared = IF to[1] = NoRoute THEN [request EXCEPT !.model = to[2]]
                     ELSE [request EXCEPT !.model = to[2], !.metadata = own]
  BY <1>3, <1>4, <1>5, <1>12 DEF PrepareRequest
<1>14. /\ to[1] # NoRoute => prepared.model = to[2] /\ prepared.metadata = own
       /\ to[1] = NoRoute => prepared.metadata = metadata
  BY <1>3, <1>13
<1>15. /\ \A k \in DOMAIN metadata : own[k] = metadata[k]
       /\ harness # "none" => "harness" \in DOMAIN own
  <2>1. CASE harness = "none" \/ "harness" \in DOMAIN metadata
    BY <1>12, <2>1
  <2>2. CASE ~(harness = "none" \/ "harness" \in DOMAIN metadata)
    <3>1. PICK one : one = One("harness", harness)
      OBVIOUS
    <3>2. DOMAIN one = {"harness"}
      BY <3>1 DEF One
    <3>3. own = one ++ metadata
      BY <1>12, <2>2, <3>1
    <3>4. /\ DOMAIN own = DOMAIN one \cup DOMAIN metadata
          /\ \A x \in DOMAIN metadata : x \notin DOMAIN one => own[x] = metadata[x]
      BY <3>3 DEF ++
    <3>5. QED
      BY <2>2, <3>2, <3>4
  <2>3. QED
    BY <2>1, <2>2
<1>16. RequestGoesWhereItsModelIs(name, metadata, harness, prepared, to)
  BY <1>9, <1>10, <1>11, <1>14, <1>15 DEF RequestGoesWhereItsModelIs
<1>17. QED
  BY <1>6, <1>16

LEMMA ConfigureStep ==
    ASSUME ConfigureProvider
    PROVE  OwnFieldsWin(given'[1], given'[2], given'[3], given'[4])
<1>1. PICK fields \in ProviderFields, websocket \in {"none", "on", "off"},
           before \in {s \in SharedDefaults : s.useResponses = "none" /\ s.api = "chat"
                                              /\ s.key = "none"},
           after \in SharedDefaults : given' = <<fields, websocket, before, after>>
  BY Zenon DEF ConfigureProvider
<1>2. OwnFieldsWin(fields, websocket, before, after)
  BY OwnFieldsAlwaysWin
<1>3. QED
  BY <1>1, <1>2

LEMMA FramesStep == ASSUME ReadFrames PROVE AnswerIsWhole(given', made')
<1>1. PICK frames \in SeqOf(Frames, 4) : given' = frames /\ made' = WebSocketAnswer(frames)
  BY Zenon DEF ReadFrames
<1>2. frames \in Seq(Frames)
  BY SeqOfIs
<1>3. QED
  BY <1>1, <1>2, EveryAnswerIsWhole, Zenon

-----------------------------------------------------------------------------
(* Settings in a payload.                                                  *)

LEMMA FieldsAre ==
    ASSUME NEW form \in {"chat", "responses"}
    PROVE  /\ \A o, p \in DOMAIN FieldOf(form) : FieldOf(form)[o] = FieldOf(form)[p] => o = p
           /\ \A o \in DOMAIN FieldOf(form) :
                  FieldOf(form)[o] \notin {"model", "tools", "input", "messages",
                      "conversation", "previous_response_id", "response_format",
                      "type", "stream", "logprobs", "metadata"}
           /\ \A o \in DOMAIN FieldOf(form) :
                  /\ FieldOf(form)[o] = "tool_choice" => o = "tool_choice"
                  /\ form = "responses" /\ FieldOf(form)[o] = "text" => o = "verbosity"
           /\ "tool_choice" \in DOMAIN FieldOf(form)
           /\ FieldOf(form)["tool_choice"] = "tool_choice"
<1>1. /\ DOMAIN Both = {"temperature", "top_p", "parallel_tool_calls", "tool_choice"}
      /\ \A o \in DOMAIN Both : Both[o] = o
  BY DEF Both
<1>2. CASE form = "chat"
  <2>1. PICK g : g = [max_output_tokens |-> "max_tokens",
          frequency_penalty |-> "frequency_penalty",
          presence_penalty |-> "presence_penalty", top_logprobs |-> "top_logprobs"]
    OBVIOUS
  <2>2. /\ DOMAIN g = {"max_output_tokens", "frequency_penalty", "presence_penalty",
                       "top_logprobs"}
        /\ g["max_output_tokens"] = "max_tokens"
        /\ \A o \in DOMAIN g : o # "max_output_tokens" => g[o] = o
    BY <2>1
  <2>3. PICK f : f = FieldOf(form)
    OBVIOUS
  <2>4. f = Both ++ g
    BY <1>2, <2>1, <2>3, Zenon DEF FieldOf
  <2>5. /\ DOMAIN f = DOMAIN Both \cup DOMAIN g
        /\ \A o \in DOMAIN Both : f[o] = Both[o]
        /\ \A o \in DOMAIN g : o \notin DOMAIN Both => f[o] = g[o]
    BY <2>4 DEF ++
  <2>6. /\ \A o \in DOMAIN f : o # "max_output_tokens" => f[o] = o
        /\ f["max_output_tokens"] = "max_tokens"
        /\ DOMAIN f = {"temperature", "top_p", "parallel_tool_calls", "tool_choice",
                       "max_output_tokens", "frequency_penalty", "presence_penalty",
                       "top_logprobs"}
    BY <1>1, <2>2, <2>5
  <2>7. QED
    BY <1>2, <2>3, <2>6
<1>3. CASE form = "responses"
  <2>1. PICK g : g = [max_output_tokens |-> "max_output_tokens", truncation |-> "truncation",
          store |-> "store", response_include |-> "include",
          reasoning |-> "reasoning", verbosity |-> "text"]
    OBVIOUS
  <2>2. /\ DOMAIN g = {"max_output_tokens", "truncation", "store", "response_include",
                       "reasoning", "verbosity"}
        /\ g["response_include"] = "include" /\ g["verbosity"] = "text"
        /\ \A o \in DOMAIN g : o \notin {"response_include", "verbosity"} => g[o] = o
    BY <2>1
  <2>3. PICK f : f = FieldOf(form)
    OBVIOUS
  <2>4. f = Both ++ g
    <3>1. "responses" # "chat"
      OBVIOUS
    <3>2. QED
      BY <1>3, <2>1, <2>3, <3>1, Zenon DEF FieldOf
  <2>5. /\ DOMAIN f = DOMAIN Both \cup DOMAIN g
        /\ \A o \in DOMAIN Both : f[o] = Both[o]
        /\ \A o \in DOMAIN g : o \notin DOMAIN Both => f[o] = g[o]
    BY <2>4 DEF ++
  <2>6. /\ \A o \in DOMAIN f : o \notin {"response_include", "verbosity"} => f[o] = o
        /\ f["response_include"] = "include" /\ f["verbosity"] = "text"
        /\ DOMAIN f = {"temperature", "top_p", "parallel_tool_calls", "tool_choice",
                       "max_output_tokens", "truncation", "store", "response_include",
                       "reasoning", "verbosity"}
    BY <1>1, <2>2, <2>5
  <2>7. QED
    BY <1>3, <2>3, <2>6
<1>4. QED
  BY <1>2, <1>3

(* The options that are sent: each as its field.                           *)
LEMMA SentAre ==
    ASSUME NEW form \in {"chat", "responses"}, NEW options, NEW sent,
           sent = SentOptions(form, options)
    PROVE  /\ \A f : f \in DOMAIN sent <=> \E o \in DOMAIN options \cap DOMAIN FieldOf(form) :
                                               f = FieldOf(form)[o]
           /\ \A o \in DOMAIN options \cap DOMAIN FieldOf(form) :
                  sent[FieldOf(form)[o]] = <<o, options[o]>>
<1>1. PICK field : field = FieldOf(form)
  OBVIOUS
<1>2. PICK S : S = DOMAIN options \cap DOMAIN field
  OBVIOUS
<1>3. sent = [f \in {field[o] : o \in S} |->
                LET o == CHOOSE o \in S : field[o] = f IN <<o, options[o]>>]
  <2>1. sent = [f \in {FieldOf(form)[o] : o \in DOMAIN options \cap DOMAIN FieldOf(form)} |->
                  LET o == CHOOSE o \in DOMAIN options \cap DOMAIN FieldOf(form) :
                               FieldOf(form)[o] = f IN <<o, options[o]>>]
    BY DEF SentOptions
  <2>2. QED
    BY <1>1, <1>2, <2>1
<1>4. \A o, p \in S : field[o] = field[p] => o = p
  BY <1>1, <1>2, FieldsAre
<1>5. ASSUME NEW o \in S PROVE sent[field[o]] = <<o, options[o]>>
  <2>1. PICK c : c = CHOOSE p \in S : field[p] = field[o]
    OBVIOUS
  <2>2. c \in S /\ field[c] = field[o]
    BY <2>1, Zenon
  <2>3. c = o
    BY <1>4, <2>2
  <2>4. field[o] \in {field[p] : p \in S}
    BY Zenon
  <2>5. sent[field[o]] = <<c, options[c]>>
    BY <1>3, <2>1, <2>4, ZenonT(60)
  <2>6. QED
    BY <2>3, <2>5
<1>6. DOMAIN sent = {field[o] : o \in S}
  BY <1>3, Zenon
<1>7. QED
  BY <1>1, <1>2, <1>5, <1>6

LEMMA FieldIs ==
    ASSUME NEW name, NEW value
    PROVE  /\ DOMAIN Field(name, value) = IF value = "none" THEN {} ELSE {name}
           /\ DOMAIN Flag(name) = {name}
BY DEF Field, Flag, One, Empty

(* The fields of a payload that are not settings.                          *)
PlainResponses(name, request) ==
    Field("model", name) ++ Flag("input") ++ Field("conversation", request.conversation)
        ++ (IF request.conversation = "none"
            THEN Field("previous_response_id", request.previous) ELSE Empty)
        ++ ToolsField(request) ++ SchemaField("responses", request)
PlainChat(name, request) ==
    Field("model", name) ++ Flag("messages") ++ ToolsField(request)
        ++ SchemaField("chat", request)

LEMMA SchemaIs ==
    ASSUME NEW api, NEW request, NEW n, n = IF api = "chat" THEN "response_format" ELSE "text"
    PROVE  /\ request.schema => SchemaField(api, request) = One(n, <<"schema", "">>)
           /\ ~request.schema => SchemaField(api, request) = Empty
BY Zenon DEF SchemaField

LEMMA ToolsFieldIs ==
    ASSUME NEW request, request.tools \in BOOLEAN
    PROVE  DOMAIN ToolsField(request) \subseteq {"tools"}
<1>1. DOMAIN Flag("tools") = {"tools"} /\ DOMAIN Empty = {}
  BY FieldIs DEF Empty
<1>2. ToolsField(request) \in {Flag("tools"), Empty}
  BY Zenon DEF ToolsField
<1>3. QED
  BY <1>1, <1>2

Plain(form, name, request) ==
    IF form = "chat" THEN PlainChat(name, request) ELSE PlainResponses(name, request)
HasPlainFields(form, request, p) ==
    /\ DOMAIN p \subseteq {"model", "input", "messages", "conversation",
                           "previous_response_id", "tools",
                           IF form = "chat" THEN "response_format" ELSE "text"}
    /\ (IF form = "chat" THEN "messages" ELSE "input") \in DOMAIN p
    /\ form = "chat" => {"conversation", "previous_response_id"} \cap DOMAIN p = {}
    /\ form # "chat" => ("conversation" \in DOMAIN p <=> request.conversation # "none")
    /\ "previous_response_id" \in DOMAIN p => request.conversation = "none"
    /\ request.schema => LET f == IF form = "chat" THEN "response_format" ELSE "text"
                         IN f \in DOMAIN p /\ p[f] = <<"schema", "">>

LEMMA PlainIs ==
    ASSUME NEW form \in {"chat", "responses"}, NEW name, NEW request,
           request.schema \in BOOLEAN, request.tools \in BOOLEAN
    PROVE  HasPlainFields(form, request, Plain(form, name, request))
<1> SUFFICES ASSUME NEW p, p = IF form = "chat" THEN PlainChat(name, request)
                               ELSE PlainResponses(name, request)
             PROVE  HasPlainFields(form, request, p)
  BY DEF Plain
<1>1. PICK s : s = SchemaField(form, request)
  OBVIOUS
<1>2. PICK t : t = ToolsField(request)
  OBVIOUS
<1>3. PICK n : n = IF form = "chat" THEN "response_format" ELSE "text"
  OBVIOUS
<1>4. /\ request.schema => DOMAIN s = {n} /\ s[n] = <<"schema", "">>
      /\ ~request.schema => DOMAIN s = {}
  <2>1. /\ request.schema => s = One(n, <<"schema", "">>)
        /\ ~request.schema => s = Empty
    BY <1>1, <1>3, SchemaIs, Zenon
  <2>2. \A v : DOMAIN One(n, v) = {n} /\ One(n, v)[n] = v
    BY DEF One
  <2>3. ASSUME request.schema PROVE DOMAIN s = {n} /\ s[n] = <<"schema", "">>
    BY <2>1, <2>2, <2>3, Zenon
  <2>4. ASSUME ~request.schema PROVE DOMAIN s = {}
    <3>1. DOMAIN Empty = {}
      BY DEF Empty
    <3>2. QED
      BY <2>1, <2>4, <3>1, Zenon
  <2>5. QED
    BY <2>3, <2>4, Zenon
<1>5. DOMAIN t \subseteq {"tools"}
  BY <1>2, ToolsFieldIs
<1>6. PICK m : m = Field("model", name)
  OBVIOUS
<1>7. DOMAIN m \subseteq {"model"}
  BY <1>6, FieldIs
<1>8. CASE form = "chat"
  <2>1. PICK i : i = Flag("messages")
    OBVIOUS
  <2>2. DOMAIN i = {"messages"}
    BY <2>1, FieldIs
  <2>3. PICK q : q = m ++ i
    OBVIOUS
  <2>4. PICK r : r = q ++ t
    OBVIOUS
  <2>5. p = r ++ s
    <3>1. p = Field("model", name) ++ Flag("messages") ++ ToolsField(request)
                  ++ SchemaField("chat", request)
      BY <1>8 DEF PlainChat
    <3>2. QED
      BY <1>1, <1>2, <1>6, <1>8, <2>1, <2>3, <2>4, <3>1
  <2>6. /\ DOMAIN q = DOMAIN m \cup DOMAIN i /\ DOMAIN r = DOMAIN q \cup DOMAIN t
        /\ DOMAIN p = DOMAIN r \cup DOMAIN s
    BY <2>3, <2>4, <2>5, LaidOver
  <2>7. \A x \in DOMAIN s : x \notin DOMAIN r => p[x] = s[x]
    BY <2>5 DEF ++
  <2>8. n = "response_format" /\ DOMAIN s \subseteq {n}
    BY <1>3, <1>4, <1>8
  <2>9. /\ DOMAIN p \subseteq {"model", "messages", "tools", n}
        /\ "messages" \in DOMAIN p
    BY <1>5, <1>7, <2>2, <2>6, <2>8
  <2>10. request.schema => n \in DOMAIN p /\ p[n] = <<"schema", "">>
    <3>1. n \notin DOMAIN r
      BY <1>5, <1>7, <2>2, <2>6, <2>8
    <3>2. QED
      BY <1>4, <2>6, <2>7, <3>1
  <2>11. /\ "conversation" \notin DOMAIN p /\ "previous_response_id" \notin DOMAIN p
    BY <2>8, <2>9
  <2>12. QED
    BY <1>8, <2>8, <2>9, <2>10, <2>11 DEF HasPlainFields
<1>9. CASE form = "responses"
  <2>1. PICK i : i = Flag("input")
    OBVIOUS
  <2>2. PICK c : c = Field("conversation", request.conversation)
    OBVIOUS
  <2>3. PICK v : v = IF request.conversation = "none"
                     THEN Field("previous_response_id", request.previous) ELSE Empty
    OBVIOUS
  <2>4. /\ DOMAIN i = {"input"}
        /\ DOMAIN c = IF request.conversation = "none" THEN {} ELSE {"conversation"}
        /\ DOMAIN v \subseteq {"previous_response_id"}
        /\ request.conversation # "none" => DOMAIN v = {}
    <3>1. DOMAIN Empty = {}
      BY DEF Empty
    <3>2. QED
      BY <2>1, <2>2, <2>3, <3>1, FieldIs
  <2>5. PICK q1 : q1 = m ++ i
    OBVIOUS
  <2>6. PICK q2 : q2 = q1 ++ c
    OBVIOUS
  <2>7. PICK q3 : q3 = q2 ++ v
    OBVIOUS
  <2>8. PICK q4 : q4 = q3 ++ t
    OBVIOUS
  <2>9. p = q4 ++ s
    <3>1. p = PlainResponses(name, request)
      BY <1>9
    <3>2. p = m ++ i ++ c ++ v ++ t ++ s
      BY <1>1, <1>2, <1>6, <1>9, <2>1, <2>2, <2>3, <3>1, Zenon DEF PlainResponses
    <3>3. QED
      BY <2>5, <2>6, <2>7, <2>8, <3>2, Zenon
  <2>10. /\ DOMAIN q1 = DOMAIN m \cup DOMAIN i /\ DOMAIN q2 = DOMAIN q1 \cup DOMAIN c
         /\ DOMAIN q3 = DOMAIN q2 \cup DOMAIN v /\ DOMAIN q4 = DOMAIN q3 \cup DOMAIN t
         /\ DOMAIN p = DOMAIN q4 \cup DOMAIN s
    BY <2>5, <2>6, <2>7, <2>8, <2>9, LaidOver, ZenonT(60)
  <2>11. \A x \in DOMAIN s : x \notin DOMAIN q4 => p[x] = s[x]
    BY <2>9 DEF ++
  <2>12. n = "text" /\ DOMAIN s \subseteq {n} /\ form # "chat"
    BY <1>3, <1>4, <1>9
  <2>13. /\ DOMAIN p \subseteq {"model", "input", "conversation", "previous_response_id",
                                "tools", n}
         /\ "input" \in DOMAIN p
         /\ "conversation" \in DOMAIN p <=> request.conversation # "none"
    BY <1>5, <1>7, <2>4, <2>10, <2>12
  <2>14. request.schema => n \in DOMAIN p /\ p[n] = <<"schema", "">>
    <3>1. n \notin DOMAIN q4
      BY <1>5, <1>7, <2>4, <2>10, <2>12
    <3>2. QED
      BY <1>4, <2>10, <2>11, <3>1
  <2>15. "previous_response_id" \in DOMAIN p => request.conversation = "none"
    BY <1>5, <1>7, <2>4, <2>10, <2>12
  <2>16. QED
    BY <1>9, <2>12, <2>13, <2>14, <2>15 DEF HasPlainFields
<1>10. QED
  BY <1>8, <1>9

(* The settings of a call, by the layers.                                  *)
AreLayered(s, name, agent, run) ==
    /\ DOMAIN s.options = DOMAIN run.options \cup DOMAIN agent.options
                              \cup DOMAIN DefaultSettings(name).options
    /\ \A o \in DOMAIN s.options :
           s.options[o] = IF o \in DOMAIN run.options THEN run.options[o]
                          ELSE IF o \in DOMAIN agent.options THEN agent.options[o]
                          ELSE DefaultSettings(name).options[o]
    /\ DOMAIN s.metadata = DOMAIN run.metadata \cup DOMAIN agent.metadata
    /\ \A k \in DOMAIN s.metadata :
           s.metadata[k] = IF k \in DOMAIN run.metadata THEN run.metadata[k]
                           ELSE agent.metadata[k]
    /\ DOMAIN s.extra = DOMAIN run.extra \cup DOMAIN agent.extra
    /\ \A k \in DOMAIN s.extra :
           s.extra[k] = IF k \in DOMAIN run.extra THEN run.extra[k] ELSE agent.extra[k]

LEMMA CalledWith ==
    ASSUME NEW name, NEW agent, NEW run
    PROVE  AreLayered(CallSettings(name, agent, run), name, agent, run)
<1> SUFFICES ASSUME NEW s, s = CallSettings(name, agent, run)
             PROVE  AreLayered(s, name, agent, run)
  OBVIOUS
<1>1. PICK d : d = DefaultSettings(name)
  OBVIOUS
<1>2. PICK a : a = ResolveSettings(d, agent)
  OBVIOUS
<1>3. s = ResolveSettings(a, run)
  BY <1>1, <1>2, Zenon DEF CallSettings
<1>4. \A b, o : /\ ResolveSettings(b, o).options = o.options ++ b.options
                /\ ResolveSettings(b, o).metadata = o.metadata ++ b.metadata
                /\ ResolveSettings(b, o).extra = o.extra ++ b.extra
  BY DEF ResolveSettings, Settings
<1>5. /\ a.options = agent.options ++ d.options /\ a.extra = agent.extra ++ d.extra
      /\ a.metadata = agent.metadata ++ d.metadata
      /\ s.options = run.options ++ a.options /\ s.extra = run.extra ++ a.extra
      /\ s.metadata = run.metadata ++ a.metadata
  BY <1>2, <1>3, <1>4, Zenon
<1>6. DOMAIN d.extra = {} /\ DOMAIN d.metadata = {}
  <2>1. d.extra = Empty /\ d.metadata = Empty
    BY <1>1 DEF DefaultSettings, Settings
  <2>2. QED
    BY <2>1 DEF Empty
<1>7. PICK ro, ao, do, re, ae, de, so, se, mo, me, rd, ad, dd, sd, md :
          /\ ro = run.options /\ ao = agent.options /\ do = d.options /\ mo = a.options
          /\ re = run.extra /\ ae = agent.extra /\ de = d.extra /\ me = a.extra
          /\ so = s.options /\ se = s.extra
          /\ rd = run.metadata /\ ad = agent.metadata /\ dd = d.metadata
          /\ md = a.metadata /\ sd = s.metadata
  OBVIOUS
<1>8. /\ mo = ao ++ do /\ me = ae ++ de /\ so = ro ++ mo /\ se = re ++ me
      /\ md = ad ++ dd /\ sd = rd ++ md
  BY <1>5, <1>7, Zenon
<1>9. /\ DOMAIN mo = DOMAIN ao \cup DOMAIN do /\ DOMAIN me = DOMAIN ae \cup DOMAIN de
      /\ DOMAIN so = DOMAIN ro \cup DOMAIN mo /\ DOMAIN se = DOMAIN re \cup DOMAIN me
      /\ DOMAIN md = DOMAIN ad \cup DOMAIN dd /\ DOMAIN sd = DOMAIN rd \cup DOMAIN md
  BY <1>8, LaidOver
<1>10. /\ \A o \in DOMAIN so : so[o] = IF o \in DOMAIN ro THEN ro[o]
                                       ELSE IF o \in DOMAIN ao THEN ao[o] ELSE do[o]
       /\ \A k \in DOMAIN se : k \notin DOMAIN de =>
                 se[k] = IF k \in DOMAIN re THEN re[k] ELSE ae[k]
       /\ \A k \in DOMAIN sd : k \notin DOMAIN dd =>
                 sd[k] = IF k \in DOMAIN rd THEN rd[k] ELSE ad[k]
  BY <1>8 DEF ++
<1>11. QED
  BY <1>1, <1>6, <1>7, <1>9, <1>10 DEF AreLayered

LEMMA ReservedAre ==
    ASSUME NEW form \in {"chat", "responses"}
    PROVE  /\ \A o \in DOMAIN FieldOf(form) : FieldOf(form)[o] \in Reserved(form)
           /\ {"model", "tools"} \subseteq Reserved(form)
           /\ form # "chat" => "metadata" \in Reserved(form)
           /\ form = "chat" => {"messages", "response_format", "logprobs"} \subseteq Reserved(form)
           /\ form # "chat" => {"input", "conversation", "previous_response_id", "text"}
                                   \subseteq Reserved(form)
<1>1. PICK F : F = FieldOf(form)
  OBVIOUS
<1>2. Reserved(form) = {F[o] : o \in DOMAIN F} \cup {"model", "tools"}
        \cup IF form = "chat" THEN {"messages", "response_format", "logprobs"}
             ELSE {"instructions", "previous_response_id", "conversation", "input",
                   "metadata"}
  BY <1>1 DEF Reserved
<1>3. form # "chat" => \E o \in DOMAIN F : F[o] = "text"
  <2>1. PICK g : g = [max_output_tokens |-> "max_output_tokens", truncation |-> "truncation",
          store |-> "store", response_include |-> "include",
          reasoning |-> "reasoning", verbosity |-> "text"]
    OBVIOUS
  <2>2. "verbosity" \in DOMAIN g /\ g["verbosity"] = "text"
    BY <2>1
  <2>3. "verbosity" \notin DOMAIN Both
    BY DEF Both
  <2>4. form # "chat" => F = Both ++ g
    BY <1>1, <2>1, Zenon DEF FieldOf
  <2>5. form # "chat" => "verbosity" \in DOMAIN F /\ F["verbosity"] = "text"
    BY <2>2, <2>3, <2>4 DEF ++
  <2>6. QED
    BY <2>5
<1>4. QED
  BY <1>1, <1>2, <1>3

(* What a payload is made of, when it is not refused.                      *)
IsMadeOf(form, plain, request, P) ==
    LET s == request.settings
        n == IF form = "chat" THEN "response_format" ELSE "text"
        m == IF form = "chat" THEN "messages" ELSE "input"
    IN /\ \A o \in DOMAIN s.options \cap DOMAIN FieldOf(form) :
              /\ FieldOf(form)[o] \in DOMAIN P
              /\ P[FieldOf(form)[o]] = <<o, s.options[o]>>
       /\ \A k \in DOMAIN s.extra : k \in DOMAIN P /\ P[k] = s.extra[k]
       /\ \A f \in {"conversation", "previous_response_id", m} :
              f \notin DOMAIN s.extra => (f \in DOMAIN P <=> f \in DOMAIN plain)
       /\ n \in DOMAIN plain => \/ n \in DOMAIN P /\ P[n] = plain[n]
                                \/ form # "chat" /\ "verbosity" \in DOMAIN s.options
       /\ "tool_choice" \in DOMAIN P => request.tools \/ "tool_choice" \in DOMAIN s.options
       /\ form # "chat" /\ DOMAIN s.metadata # {} =>
              "metadata" \in DOMAIN P /\ P["metadata"] = <<"metadata", s.metadata>>

LEMMA AppliedIs ==
    ASSUME NEW form \in {"chat", "responses"}, NEW request, NEW plain,
           request.tools \in BOOLEAN,
           DOMAIN request.settings.extra \cap Reserved(form) = {},
           HasPlainFields(form, request, plain)
    PROVE  IsMadeOf(form, plain, request, ApplySettings(form, plain, request))
<1> SUFFICES ASSUME NEW P, P = ApplySettings(form, plain, request)
             PROVE  IsMadeOf(form, plain, request, P)
  OBVIOUS
<1>1. PICK n, m, s : /\ n = IF form = "chat" THEN "response_format" ELSE "text"
                     /\ m = IF form = "chat" THEN "messages" ELSE "input"
                     /\ s = request.settings
  OBVIOUS
<1>2. PICK F : F = FieldOf(form)
  OBVIOUS
<1>3. PICK e, o : e = s.extra /\ o = s.options
  OBVIOUS
<1>4. PICK t : t = SentOptions(form, o)
  OBVIOUS
<1>5. PICK f : f = IF "top_logprobs" \in DOMAIN t THEN Flag("logprobs") ELSE Empty
  OBVIOUS
<1>6. PICK a : a = IF form = "chat" /\ request.tools /\ "tool_choice" \notin DOMAIN t
                   THEN One("tool_choice", <<"auto", "">>) ELSE Empty
  OBVIOUS
<1>d. PICK d : d = MetadataField(form, s.metadata)
  OBVIOUS
<1>7. P = e ++ t ++ d ++ f ++ a ++ plain
  BY <1>1, <1>3, <1>4, <1>5, <1>6, <1>d DEF ApplySettings
<1>8. /\ DOMAIN P = DOMAIN e \cup DOMAIN t \cup DOMAIN d \cup DOMAIN f \cup DOMAIN a
                         \cup DOMAIN plain
      /\ \A x \in DOMAIN e : P[x] = e[x]
      /\ \A x \in DOMAIN t : x \notin DOMAIN e => P[x] = t[x]
      /\ \A x \in DOMAIN d : x \notin DOMAIN e \cup DOMAIN t => P[x] = d[x]
      /\ \A x \in DOMAIN plain :
             x \notin DOMAIN e \cup DOMAIN t \cup DOMAIN d \cup DOMAIN f \cup DOMAIN a =>
                 P[x] = plain[x]
  <2>0. PICK h : h = e ++ t
    OBVIOUS
  <2>1. PICK q : q = h ++ d
    OBVIOUS
  <2>2. PICK r : r = q ++ f
    OBVIOUS
  <2>3. PICK w : w = r ++ a
    OBVIOUS
  <2>4. P = w ++ plain
    BY <1>7, <2>0, <2>1, <2>2, <2>3
  <2>5. /\ DOMAIN h = DOMAIN e \cup DOMAIN t /\ DOMAIN q = DOMAIN h \cup DOMAIN d
        /\ DOMAIN r = DOMAIN q \cup DOMAIN f
        /\ DOMAIN w = DOMAIN r \cup DOMAIN a /\ DOMAIN P = DOMAIN w \cup DOMAIN plain
    BY <2>0, <2>1, <2>2, <2>3, <2>4, LaidOver, ZenonT(60)
  <2>a. /\ \A x \in DOMAIN e : h[x] = e[x]
        /\ \A x \in DOMAIN t : x \notin DOMAIN e => h[x] = t[x]
    BY <2>0 DEF ++
  <2>b. /\ \A x \in DOMAIN h : q[x] = h[x]
        /\ \A x \in DOMAIN d : x \notin DOMAIN h => q[x] = d[x]
    BY <2>1 DEF ++
  <2>6. /\ \A x \in DOMAIN e : q[x] = e[x]
        /\ \A x \in DOMAIN t : x \notin DOMAIN e => q[x] = t[x]
        /\ \A x \in DOMAIN d : x \notin DOMAIN e \cup DOMAIN t => q[x] = d[x]
    BY <2>5, <2>a, <2>b
  <2>7. \A x \in DOMAIN q : r[x] = q[x]
    BY <2>2 DEF ++
  <2>8. \A x \in DOMAIN r : w[x] = r[x]
    BY <2>3 DEF ++
  <2>9. /\ \A x \in DOMAIN w : P[x] = w[x]
        /\ \A x \in DOMAIN plain : x \notin DOMAIN w => P[x] = plain[x]
    BY <2>4 DEF ++
  <2>10. QED
    BY <2>5, <2>6, <2>7, <2>8, <2>9
<1>9. /\ \A x : x \in DOMAIN t <=> \E y \in DOMAIN o \cap DOMAIN F : x = F[y]
      /\ \A y \in DOMAIN o \cap DOMAIN F : t[F[y]] = <<y, o[y]>>
  BY <1>2, <1>4, SentAre
<1>10. /\ DOMAIN f \subseteq {"logprobs"} /\ DOMAIN a \subseteq {"tool_choice"}
       /\ DOMAIN a # {} => request.tools
       /\ DOMAIN f # {} => "top_logprobs" \in DOMAIN t
  <2>1. \A v : DOMAIN One("tool_choice", v) = {"tool_choice"}
    BY DEF One
  <2>2. DOMAIN Flag("logprobs") = {"logprobs"}
    BY FieldIs
  <2>3. DOMAIN Empty = {}
    BY DEF Empty
  <2>4. /\ (a = One("tool_choice", <<"auto", "">>) /\ request.tools) \/ a = Empty
        /\ (f = Flag("logprobs") /\ "top_logprobs" \in DOMAIN t) \/ f = Empty
    BY <1>5, <1>6, Zenon
  <2>5. /\ DOMAIN f \subseteq {"logprobs"}
        /\ DOMAIN f # {} => "top_logprobs" \in DOMAIN t
    BY <2>2, <2>3, <2>4
  <2>6. DOMAIN a \subseteq {"tool_choice"}
    BY <2>1, <2>3, <2>4
  <2>7. DOMAIN a # {} => request.tools
    BY <2>3, <2>4, Zenon
  <2>8. QED
    BY <2>5, <2>6, <2>7, Zenon
<1>e. /\ DOMAIN d \subseteq {"metadata"}
      /\ form # "chat" /\ DOMAIN s.metadata # {} =>
             "metadata" \in DOMAIN d /\ d["metadata"] = <<"metadata", s.metadata>>
  <2>1. \A v : DOMAIN One("metadata", v) = {"metadata"} /\ One("metadata", v)["metadata"] = v
    BY DEF One
  <2>2. DOMAIN Empty = {}
    BY DEF Empty
  <2>3. PICK v : v = <<"metadata", s.metadata>>
    OBVIOUS
  <2>4. d = IF form = "chat" \/ DOMAIN s.metadata = {} THEN Empty ELSE One("metadata", v)
    BY <1>d, <2>3, Zenon DEF MetadataField
  <2>5. QED
    BY <2>1, <2>2, <2>3, <2>4, Zenon
<1>11. /\ \A y \in DOMAIN F : F[y] \notin DOMAIN e
       /\ \A y \in DOMAIN F :
              /\ F[y] \notin {"model", "tools", "input", "messages", "conversation",
                              "previous_response_id", "response_format", "logprobs",
                              "metadata"}
              /\ F[y] = "tool_choice" => y = "tool_choice"
              /\ form = "responses" /\ F[y] = "text" => y = "verbosity"
  BY <1>1, <1>2, <1>3, ReservedAre, FieldsAre
<1>12. n \notin DOMAIN e /\ m \notin DOMAIN e
       /\ n # "tool_choice" /\ n # "logprobs"
       /\ m # "tool_choice" /\ m # "logprobs" /\ m \in {"input", "messages"}
  BY <1>1, <1>3, ReservedAre
<1>13. \A y \in DOMAIN o \cap DOMAIN F : F[y] \in DOMAIN P /\ P[F[y]] = <<y, o[y]>>
  BY <1>8, <1>9, <1>11
<1>14. \A k \in DOMAIN e : k \in DOMAIN P /\ P[k] = e[k]
  BY <1>8
<1>15. \A x \in {"conversation", "previous_response_id", m} :
           x \notin DOMAIN e => (x \in DOMAIN P <=> x \in DOMAIN plain)
  <2>1. SUFFICES ASSUME NEW x \in {"conversation", "previous_response_id", m},
                        x \notin DOMAIN e
                 PROVE  x \in DOMAIN P <=> x \in DOMAIN plain
    OBVIOUS
  <2>2. x \in {"conversation", "previous_response_id", "input", "messages"}
    BY <1>12
  <2>3. x \notin DOMAIN t
    BY <1>9, <1>11, <2>2
  <2>4. x \notin DOMAIN f /\ x \notin DOMAIN a /\ x \notin DOMAIN d
    BY <1>10, <1>e, <2>2
  <2>5. QED
    BY <1>8, <2>1, <2>3, <2>4
<1>16. n \in DOMAIN plain => \/ n \in DOMAIN P /\ P[n] = plain[n]
                             \/ form # "chat" /\ "verbosity" \in DOMAIN o
  <2>1. n \notin DOMAIN f /\ n \notin DOMAIN a /\ n \notin DOMAIN d
    BY <1>1, <1>10, <1>12, <1>e
  <2>2. n \in DOMAIN t => form # "chat" /\ "verbosity" \in DOMAIN o
    BY <1>1, <1>9, <1>11
  <2>3. QED
    BY <1>8, <1>12, <2>1, <2>2
<1>17. "tool_choice" \in DOMAIN P => request.tools \/ "tool_choice" \in DOMAIN o
  <2>1. "tool_choice" \notin DOMAIN e
    BY <1>2, <1>11, FieldsAre
  <2>2. "tool_choice" \in DOMAIN t => "tool_choice" \in DOMAIN o
    BY <1>9, <1>11
  <2>3. /\ "tool_choice" \notin DOMAIN f /\ "tool_choice" \notin DOMAIN plain
        /\ "tool_choice" \notin DOMAIN d
    BY <1>1, <1>10, <1>12, <1>e DEF HasPlainFields
  <2>4. "tool_choice" \in DOMAIN P => "tool_choice" \in DOMAIN a \/ "tool_choice" \in DOMAIN o
    BY <1>8, <2>1, <2>2, <2>3
  <2>5. "tool_choice" \in DOMAIN a => DOMAIN a # {}
    OBVIOUS
  <2>6. QED
    BY <1>10, <2>4, <2>5, Zenon
<1>18. form # "chat" /\ DOMAIN s.metadata # {} =>
           "metadata" \in DOMAIN P /\ P["metadata"] = <<"metadata", s.metadata>>
  <2>1. HAVE form # "chat" /\ DOMAIN s.metadata # {}
  <2>2. "metadata" \notin DOMAIN e
    BY <1>1, <1>3, <2>1, ReservedAre
  <2>3. "metadata" \notin DOMAIN t
    BY <1>9, <1>11
  <2>4. P["metadata"] = d["metadata"] /\ "metadata" \in DOMAIN P
    BY <1>8, <1>e, <2>1, <2>2, <2>3
  <2>5. QED
    BY <1>e, <2>1, <2>4
<1>19. QED
  BY <1>1, <1>2, <1>3, <1>13, <1>14, <1>15, <1>16, <1>17, <1>18, Zenon DEF IsMadeOf

(* Also over a websocket, where more fields are laid over the payload.     *)
LEMMA FramedIs ==
    ASSUME NEW payload, NEW responseId, NEW P,
           P = Field("type", "response.create") ++ Flag("stream")
                  ++ (IF "conversation" \in DOMAIN payload THEN Empty
                      ELSE Field("previous_response_id", responseId))
                  ++ payload
    PROVE  /\ \A x : x \notin {"type", "stream", "previous_response_id"} =>
                  /\ x \in DOMAIN P <=> x \in DOMAIN payload
                  /\ x \in DOMAIN payload => P[x] = payload[x]
           /\ "conversation" \in DOMAIN payload /\ "previous_response_id" \in DOMAIN P
                  => "previous_response_id" \in DOMAIN payload
<1>1. PICK a, b, c : /\ a = Field("type", "response.create") /\ b = Flag("stream")
                     /\ c = IF "conversation" \in DOMAIN payload THEN Empty
                            ELSE Field("previous_response_id", responseId)
  OBVIOUS
<1>2. PICK q : q = a ++ b
  OBVIOUS
<1>3. PICK r : r = q ++ c
  OBVIOUS
<1>4. P = r ++ payload
  BY <1>1, <1>2, <1>3
<1>5. /\ DOMAIN a \subseteq {"type"} /\ DOMAIN b = {"stream"}
      /\ DOMAIN c \subseteq {"previous_response_id"}
      /\ "conversation" \in DOMAIN payload => DOMAIN c = {}
  <2>1. DOMAIN Empty = {}
    BY DEF Empty
  <2>2. QED
    BY <1>1, <2>1, FieldIs
<1>6. /\ DOMAIN q = DOMAIN a \cup DOMAIN b /\ DOMAIN r = DOMAIN q \cup DOMAIN c
      /\ DOMAIN P = DOMAIN r \cup DOMAIN payload
  BY <1>2, <1>3, <1>4, LaidOver
<1>7. \A x \in DOMAIN payload : x \notin DOMAIN r => P[x] = payload[x]
  BY <1>4 DEF ++
<1>8. QED
  BY <1>5, <1>6, <1>7

(* A payload before it is framed.                                          *)
LEMMA EverySettingIsApplied ==
    ASSUME NEW form \in {"chat", "responses"}, NEW name, NEW agent, NEW run, NEW request,
           NEW P,
           P = (IF form = "chat" THEN ChatPayload(name, request)
                ELSE ResponsesPayload(name, request)),
           request.settings = CallSettings(name, agent, run),
           request.schema \in BOOLEAN, request.tools \in BOOLEAN
    PROVE  /\ SettingsReachTheRequest(form, name, agent, run, request, P)
           /\ P # RefusedRequest =>
                  /\ form = "chat" \/ "input" \in DOMAIN P
                  /\ \A o \in (DOMAIN run.options \cup DOMAIN agent.options
                                  \cup DOMAIN DefaultSettings(name).options)
                              \cap DOMAIN FieldOf(form) : FieldOf(form)[o] \in DOMAIN P
                  /\ \A k \in DOMAIN run.extra \cup DOMAIN agent.extra : k \in DOMAIN P
<1>1. PICK s : s = request.settings
  OBVIOUS
<1>2. PICK d : d = DefaultSettings(name)
  OBVIOUS
<1>3. /\ DOMAIN s.options = DOMAIN run.options \cup DOMAIN agent.options \cup DOMAIN d.options
      /\ \A o \in DOMAIN s.options :
             s.options[o] = IF o \in DOMAIN run.options THEN run.options[o]
                            ELSE IF o \in DOMAIN agent.options THEN agent.options[o]
                            ELSE d.options[o]
      /\ DOMAIN s.extra = DOMAIN run.extra \cup DOMAIN agent.extra
      /\ \A k \in DOMAIN s.extra :
             s.extra[k] = IF k \in DOMAIN run.extra THEN run.extra[k] ELSE agent.extra[k]
      /\ DOMAIN s.metadata = DOMAIN run.metadata \cup DOMAIN agent.metadata
      /\ \A k \in DOMAIN s.metadata :
             s.metadata[k] = IF k \in DOMAIN run.metadata THEN run.metadata[k]
                             ELSE agent.metadata[k]
  <2>1. AreLayered(s, name, agent, run)
    BY <1>1, CalledWith
  <2>2. QED
    BY <1>2, <2>1, Zenon DEF AreLayered
<1>4. DOMAIN RefusedRequest = {"refused"}
  BY FieldIs DEF RefusedRequest
<1>5. PICK plain : plain = Plain(form, name, request)
  OBVIOUS
<1>6. P = IF DOMAIN s.extra \cap Reserved(form) # {} THEN RefusedRequest
          ELSE ApplySettings(form, plain, request)
  <2>1. CASE form = "chat"
    BY <1>1, <1>5, <2>1, Zenon DEF ChatPayload, Plain, PlainChat
  <2>2. CASE form = "responses"
    <3>1. "responses" # "chat"
      OBVIOUS
    <3>2. QED
      BY <1>1, <1>5, <2>2, <3>1, Zenon DEF ResponsesPayload, Plain, PlainResponses
  <2>3. QED
    BY <2>1, <2>2
<1>7. PICK n, m : /\ n = IF form = "chat" THEN "response_format" ELSE "text"
                  /\ m = IF form = "chat" THEN "messages" ELSE "input"
  OBVIOUS
<1>8. /\ DOMAIN plain \subseteq {"model", "input", "messages", "conversation",
                                 "previous_response_id", "tools", n}
      /\ m \in DOMAIN plain
      /\ form = "chat" => {"conversation", "previous_response_id"} \cap DOMAIN plain = {}
      /\ form # "chat" => ("conversation" \in DOMAIN plain <=> request.conversation # "none")
      /\ "previous_response_id" \in DOMAIN plain => request.conversation = "none"
      /\ request.schema => n \in DOMAIN plain /\ plain[n] = <<"schema", "">>
  <2>1. HasPlainFields(form, request, plain)
    BY <1>5, PlainIs
  <2>2. QED
    BY <1>7, <2>1, Zenon DEF HasPlainFields
<1>9. CASE DOMAIN s.extra \cap Reserved(form) # {}
  <2>1. P = RefusedRequest
    BY <1>6, <1>9
  <2>2. QED
    BY <1>3, <1>9, <2>1, Zenon DEF SettingsReachTheRequest
<1>10. CASE DOMAIN s.extra \cap Reserved(form) = {}
  <2>1. P = ApplySettings(form, plain, request)
    BY <1>6, <1>10
  <2>2. /\ \A o \in DOMAIN s.options \cap DOMAIN FieldOf(form) :
                  /\ FieldOf(form)[o] \in DOMAIN P
                  /\ P[FieldOf(form)[o]] = <<o, s.options[o]>>
        /\ \A k \in DOMAIN s.extra : k \in DOMAIN P /\ P[k] = s.extra[k]
        /\ \A f \in {"conversation", "previous_response_id", m} :
               f \notin DOMAIN s.extra => (f \in DOMAIN P <=> f \in DOMAIN plain)
        /\ n \in DOMAIN plain => \/ n \in DOMAIN P /\ P[n] = plain[n]
                                 \/ form # "chat" /\ "verbosity" \in DOMAIN s.options
        /\ "tool_choice" \in DOMAIN P => request.tools \/ "tool_choice" \in DOMAIN s.options
        /\ form # "chat" /\ DOMAIN s.metadata # {} =>
               "metadata" \in DOMAIN P /\ P["metadata"] = <<"metadata", s.metadata>>
    <3>1. HasPlainFields(form, request, plain)
      BY <1>5, PlainIs
    <3>2. IsMadeOf(form, plain, request, P)
      BY <1>1, <1>10, <2>1, <3>1, AppliedIs
    <3>3. QED
      BY <1>1, <1>7, <3>2, Zenon DEF IsMadeOf
  <2>3. m \in DOMAIN P /\ m # "refused"
    <3>1. m \notin DOMAIN s.extra
      BY <1>7, <1>10, ReservedAre
    <3>2. QED
      BY <1>7, <1>8, <2>2, <3>1
  <2>4. P # RefusedRequest
    BY <1>4, <2>3
  <2>5. form # "chat" => \A f \in {"conversation", "previous_response_id"} :
            f \in DOMAIN P <=> f \in DOMAIN plain
    BY <1>10, <2>2, ReservedAre
  <2>6. form # "chat" =>
            ~({"conversation", "previous_response_id"} \subseteq DOMAIN P)
    BY <1>8, <2>5
  <2>7. form # "chat" /\ request.conversation # "none" => "conversation" \in DOMAIN P
    BY <1>8, <2>5
  <2>8. request.schema
            => \/ <<"schema", "">> \in {P[f] : f \in DOMAIN P \cap {"text", "response_format"}}
               \/ form # "chat" /\ "verbosity" \in DOMAIN s.options
    <3>1. n \in {"text", "response_format"}
      BY <1>7
    <3>2. QED
      BY <1>8, <2>2, <3>1, ZenonT(60)
  <2>9. \A o \in DOMAIN s.options \cap DOMAIN FieldOf(form) :
            P[FieldOf(form)[o]] = <<o, IF o \in DOMAIN run.options THEN run.options[o]
                            ELSE IF o \in DOMAIN agent.options THEN agent.options[o]
                            ELSE d.options[o]>>
    BY <1>3, <2>2
  <2>10. \A k \in DOMAIN s.extra :
             P[k] = IF k \in DOMAIN run.extra THEN run.extra[k] ELSE agent.extra[k]
    BY <1>3, <2>2
  <2>a. form # "chat" => \A k \in DOMAIN s.metadata :
            /\ "metadata" \in DOMAIN P
            /\ P["metadata"][2][k] = IF k \in DOMAIN run.metadata THEN run.metadata[k]
                                     ELSE agent.metadata[k]
    <3>1. PICK all, sent : all = s.metadata /\ sent = P["metadata"]
      OBVIOUS
    <3>2. ASSUME form # "chat", NEW k \in DOMAIN all
          PROVE  "metadata" \in DOMAIN P /\ sent[2] = all
      BY <2>2, <3>1, <3>2
    <3>3. QED
      BY <1>3, <3>1, <3>2
  <2>b. form \in {"chat", "responses"} /\ form # "websocket"
    OBVIOUS
  <2>11. SettingsReachTheRequest(form, name, agent, run, request, P)
    BY <1>2, <1>3, <1>10, <2>2, <2>4, <2>6, <2>7, <2>8, <2>9, <2>10, <2>a, <2>b, ZenonT(120)
    DEF SettingsReachTheRequest
  <2>12. QED
    BY <1>2, <1>3, <1>7, <2>2, <2>3, <2>11
<1>11. QED
  BY <1>9, <1>10

(* Every option arrives with the value of its innermost layer, or the      *)
(* request is refused, for any number of options and extra arguments; over *)
(* a websocket the type and the stream are the frame's own                 *)
(* (SettingsReachTheRequest).                                              *)
THEOREM EverySettingReaches ==
    ASSUME NEW api \in {"chat", "responses", "websocket"}, NEW name, NEW agent, NEW run,
           NEW request, NEW responseId,
           request.settings = CallSettings(name, agent, run),
           request.schema \in BOOLEAN, request.tools \in BOOLEAN
    PROVE  SettingsReachTheRequest(api, name, agent, run, request,
                                   Payload(api, name, request, responseId))
<1>1. PICK form : form = IF api = "chat" THEN "chat" ELSE "responses"
  OBVIOUS
<1>2. PICK Q : Q = IF form = "chat" THEN ChatPayload(name, request)
                   ELSE ResponsesPayload(name, request)
  OBVIOUS
<1>3. form \in {"chat", "responses"}
  BY <1>1
<1>4. /\ SettingsReachTheRequest(form, name, agent, run, request, Q)
      /\ Q # RefusedRequest =>
             /\ form = "chat" \/ "input" \in DOMAIN Q
             /\ \A o \in (DOMAIN run.options \cup DOMAIN agent.options
                             \cup DOMAIN DefaultSettings(name).options)
                         \cap DOMAIN FieldOf(form) : FieldOf(form)[o] \in DOMAIN Q
             /\ \A k \in DOMAIN run.extra \cup DOMAIN agent.extra : k \in DOMAIN Q
  BY <1>2, <1>3, EverySettingIsApplied, Zenon
<1>5. PICK P : P = Payload(api, name, request, responseId)
  OBVIOUS
<1>6. CASE api # "websocket"
  <2>1. P = Q /\ form = api
    BY <1>1, <1>2, <1>5, <1>6 DEF Payload
  <2>2. QED
    BY <1>4, <1>5, <2>1
<1>7. CASE api = "websocket"
  <2>1. form = "responses" /\ form # "chat" /\ api # "chat" /\ Q = ResponsesPayload(name, request)
    BY <1>1, <1>2, <1>7
  <2>2. P = WebSocketFrame(name, request, responseId)
    BY <1>5, <1>7 DEF Payload
  <2>3. CASE Q = RefusedRequest
    <3>1. P = Q
      BY <2>1, <2>2, <2>3, Zenon DEF WebSocketFrame
    <3>2. QED
      BY <1>4, <1>5, <2>1, <2>3, <3>1, Zenon DEF SettingsReachTheRequest
  <2>4. CASE Q # RefusedRequest
    <3>1. P = Field("type", "response.create") ++ Flag("stream")
                  ++ (IF "conversation" \in DOMAIN Q THEN Empty
                      ELSE Field("previous_response_id", responseId))
                  ++ Q
      BY <2>1, <2>2, <2>4, Zenon DEF WebSocketFrame
    <3>2. /\ \A x : x \notin {"type", "stream", "previous_response_id"} =>
                  /\ x \in DOMAIN P <=> x \in DOMAIN Q
                  /\ x \in DOMAIN Q => P[x] = Q[x]
          /\ "conversation" \in DOMAIN Q /\ "previous_response_id" \in DOMAIN P
                  => "previous_response_id" \in DOMAIN Q
      BY <3>1, FramedIs
    <3>3. P # RefusedRequest
      <4>1. DOMAIN RefusedRequest = {"refused"}
        BY FieldIs DEF RefusedRequest
      <4>2. "input" \in DOMAIN P
        BY <1>4, <2>1, <2>4, <3>2
      <4>3. QED
        BY <4>1, <4>2
    <3>4. PICK d : d = DefaultSettings(name)
      OBVIOUS
    <3>5. PICK F : F = FieldOf("responses")
      OBVIOUS
    <3>6. PICK set, extra, meta :
                            /\ meta = DOMAIN run.metadata \cup DOMAIN agent.metadata
                            /\ set = DOMAIN run.options \cup DOMAIN agent.options \cup DOMAIN d.options
                            /\ extra = DOMAIN run.extra \cup DOMAIN agent.extra
      OBVIOUS
    <3>7. /\ extra \cap Reserved("responses") = {}
          /\ \A o \in set \cap DOMAIN F :
                 Q[F[o]] = <<o, IF o \in DOMAIN run.options THEN run.options[o]
                                ELSE IF o \in DOMAIN agent.options THEN agent.options[o]
                                ELSE d.options[o]>>
          /\ \A k \in extra : Q[k] = IF k \in DOMAIN run.extra THEN run.extra[k]
                                     ELSE agent.extra[k]
          /\ \A k \in meta :
                 /\ "metadata" \in DOMAIN Q
                 /\ Q["metadata"][2][k] = IF k \in DOMAIN run.metadata THEN run.metadata[k]
                                          ELSE agent.metadata[k]
          /\ ~({"conversation", "previous_response_id"} \subseteq DOMAIN Q)
          /\ request.conversation # "none" => "conversation" \in DOMAIN Q
          /\ request.schema
                 => \/ <<"schema", "">> \in {Q[f] : f \in DOMAIN Q \cap {"text", "response_format"}}
                    \/ "verbosity" \in set
          /\ "tool_choice" \in DOMAIN Q => request.tools \/ "tool_choice" \in set
      BY <1>4, <2>1, <2>4, <3>4, <3>5, <3>6, Zenon DEF SettingsReachTheRequest
    <3>8. \A o \in DOMAIN F : F[o] \notin {"type", "stream", "previous_response_id"}
      BY <3>5, FieldsAre
    <3>9. \A o \in set \cap DOMAIN F : P[F[o]] = Q[F[o]]
      <4>1. \A o \in set \cap DOMAIN F : F[o] \in DOMAIN Q
        BY <1>4, <2>1, <2>4, <3>4, <3>5, <3>6
      <4>2. QED
        BY <3>2, <3>8, <4>1
    <3>10. \A k \in extra \ {"type", "stream"} : P[k] = Q[k]
      <4>1. \A k \in extra : k \in DOMAIN Q
        BY <1>4, <2>1, <2>4, <3>6
      <4>2. "previous_response_id" \notin extra
        BY <3>7, ReservedAre
      <4>3. QED
        BY <3>2, <4>1, <4>2
    <3>11. /\ "conversation" \in DOMAIN P <=> "conversation" \in DOMAIN Q
           /\ "tool_choice" \in DOMAIN P <=> "tool_choice" \in DOMAIN Q
      BY <3>2
    <3>12. ~({"conversation", "previous_response_id"} \subseteq DOMAIN P)
      BY <3>2, <3>7, <3>11
    <3>13. <<"schema", "">> \in {Q[f] : f \in DOMAIN Q \cap {"text", "response_format"}}
               => <<"schema", "">> \in {P[f] : f \in DOMAIN P \cap {"text", "response_format"}}
      <4>1. \A f \in DOMAIN Q \cap {"text", "response_format"} :
                f \in DOMAIN P \cap {"text", "response_format"} /\ P[f] = Q[f]
        BY <3>2
      <4>2. QED
        BY <4>1, Zenon
    <3>14. \A o \in set \cap DOMAIN F :
                 P[F[o]] = <<o, IF o \in DOMAIN run.options THEN run.options[o]
                                ELSE IF o \in DOMAIN agent.options THEN agent.options[o]
                                ELSE d.options[o]>>
      BY <3>7, <3>9
    <3>a. \A k \in meta :
                 /\ "metadata" \in DOMAIN P
                 /\ P["metadata"][2][k] = IF k \in DOMAIN run.metadata THEN run.metadata[k]
                                          ELSE agent.metadata[k]
      <4>1. "metadata" \in DOMAIN Q => "metadata" \in DOMAIN P /\ P["metadata"] = Q["metadata"]
        BY <3>2
      <4>2. QED
        BY <3>7, <4>1, Zenon
    <3>15. \A k \in extra \ {"type", "stream"} : P[k] = IF k \in DOMAIN run.extra THEN run.extra[k]
                                   ELSE agent.extra[k]
      BY <3>7, <3>10
    <3>16. SettingsReachTheRequest(api, name, agent, run, request, P)
      BY <1>7, <2>1, <3>3, <3>4, <3>5, <3>6, <3>7, <3>11, <3>12, <3>13, <3>14, <3>15, <3>a
      DEF SettingsReachTheRequest
    <3>17. QED
      BY <1>5, <3>16
  <2>5. QED
    BY <2>3, <2>4
<1>8. QED
  BY <1>6, <1>7

LEMMA SendStep ==
    ASSUME SendRequest
    PROVE  SettingsReachTheRequest(given'[1], given'[2], given'[3], given'[4], given'[5], made')
<1>1. PICK name \in {"gpt-5", "gpt-5-ultra", "gpt-4.1"}, agent \in Layers("agent"),
          run \in Layers("run"), schema \in BOOLEAN, tools \in BOOLEAN,
          conversation \in {"none", "c"}, previous \in {"none", "p"},
          responseId \in {"none", "r"}, api \in {"chat", "responses", "websocket"} :
          LET request == [settings |-> CallSettings(name, agent, run), schema |-> schema,
                          tools |-> tools, conversation |-> conversation,
                          previous |-> previous]
          IN /\ api # "websocket" => responseId = "none"
             /\ given' = <<api, name, agent, run, request>>
             /\ made' = Payload(api, name, request, responseId)
  BY Zenon DEF SendRequest
<1>2. PICK request : request = [settings |-> CallSettings(name, agent, run), schema |-> schema,
                          tools |-> tools, conversation |-> conversation,
                          previous |-> previous]
  OBVIOUS
<1>3. given' = <<api, name, agent, run, request>> /\ made' = Payload(api, name, request, responseId)
  BY <1>1, <1>2, Zenon
<1>4. /\ request.settings = CallSettings(name, agent, run)
      /\ request.schema = schema /\ request.tools = tools
  BY <1>2, Zenon
<1>5. request.schema \in BOOLEAN /\ request.tools \in BOOLEAN
  BY <1>4, Zenon
<1>7. SettingsReachTheRequest(api, name, agent, run, request,
                              Payload(api, name, request, responseId))
  BY <1>4, <1>5, EverySettingReaches, Zenon
<1>8. PICK P : P = made'
  OBVIOUS
<1>9. SettingsReachTheRequest(api, name, agent, run, request, P)
  BY <1>3, <1>7, <1>8, Zenon
<1>10. \A g : g = <<api, name, agent, run, request>> =>
          g[1] = api /\ g[2] = name /\ g[3] = agent /\ g[4] = run /\ g[5] = request
  OBVIOUS
<1>11. QED
  BY <1>3, <1>8, <1>9, <1>10, Zenon

-----------------------------------------------------------------------------
(* What a model said, sent back to it.                                     *)

PutToModel(api, item) == IF api = "chat" THEN ChatMessage(item) ELSE ResponsesItem(item)
IsPutAs(type, item, m) ==
    CASE type = "call" -> /\ m.type = "function_call" /\ m.id = item.id /\ m.name = item.name
                          /\ m.arguments = SerializeArguments(item.arguments)
      [] type = "output" -> m.type = "function_call_output"
      [] type = "text" -> m.type = "message" /\ m.role = "user" /\ m.text = item.text
      [] type = "reasoning" ->
             m.type = "message" /\ m.role = "assistant" /\ m.text = item.text
      [] type = "json" -> /\ m.type \in {"message", "json"} /\ m.text = item.text
                          /\ HasRole(item) => m.role = "assistant"
                          /\ m.beside = item.beside \/ item.text = "message"

LEMMA ItemIsPut ==
    ASSUME NEW api, NEW item, item.kind \in {"text", "json", "reasoning", "call", "output"}
    PROVE  IsPutAs(item.kind, item, PutToModel(api, item))
<1>1. PICK m : m = PutToModel(api, item)
  OBVIOUS
<1>2. CASE api = "chat"
  <2>1. m = ChatMessage(item)
    BY <1>1, <1>2, Zenon DEF PutToModel
  <2>2. CASE item.kind = "text"
    <3>1. m = [type |-> "message", role |-> "user", text |-> item.text]
      BY <2>1, <2>2 DEF ChatMessage
    <3>2. QED
      BY <1>1, <2>2, <3>1 DEF IsPutAs
  <2>3. CASE item.kind = "reasoning"
    <3>1. m = [type |-> "message", role |-> "assistant", text |-> item.text]
      BY <2>1, <2>3 DEF ChatMessage
    <3>2. QED
      BY <1>1, <2>3, <3>1 DEF IsPutAs
  <2>4. CASE item.kind = "call"
    <3>1. m = [type |-> "function_call", id |-> item.id, name |-> item.name,
               arguments |-> SerializeArguments(item.arguments)]
      BY <2>1, <2>4 DEF ChatMessage
    <3>2. QED
      BY <1>1, <2>4, <3>1 DEF IsPutAs
  <2>5. CASE item.kind = "output"
    <3>1. m.type = "function_call_output"
      BY <2>1, <2>5 DEF ChatMessage
    <3>2. QED
      BY <1>1, <2>5, <3>1 DEF IsPutAs
  <2>6. CASE item.kind = "json"
    <3>1. m = IF HasRole(item) THEN OfMessage(item)
              ELSE [type |-> "message", role |-> "user", text |-> item.text,
                    beside |-> item.beside]
      BY <2>1, <2>6 DEF ChatMessage
    <3>2. /\ m.type = "message" /\ m.text = item.text
          /\ HasRole(item) => m.role = "assistant"
          /\ m.beside = item.beside \/ item.text = "message"
      BY <3>1 DEF OfMessage
    <3>3. QED
      BY <1>1, <2>6, <3>2 DEF IsPutAs
  <2>7. QED
    BY <2>2, <2>3, <2>4, <2>5, <2>6
<1>3. CASE api # "chat"
  <2>1. m = ResponsesItem(item)
    BY <1>1, <1>3, Zenon DEF PutToModel
  <2>2. CASE item.kind = "text"
    <3>1. m = [type |-> "message", role |-> "user", text |-> item.text]
      BY <2>1, <2>2 DEF ResponsesItem
    <3>2. QED
      BY <1>1, <2>2, <3>1 DEF IsPutAs
  <2>3. CASE item.kind = "reasoning"
    <3>1. m = [type |-> "message", role |-> "assistant", text |-> item.text]
      BY <2>1, <2>3 DEF ResponsesItem
    <3>2. QED
      BY <1>1, <2>3, <3>1 DEF IsPutAs
  <2>4. CASE item.kind = "call"
    <3>1. m = [type |-> "function_call", id |-> item.id, name |-> item.name,
               arguments |-> SerializeArguments(item.arguments)]
      BY <2>1, <2>4 DEF ResponsesItem
    <3>2. QED
      BY <1>1, <2>4, <3>1 DEF IsPutAs
  <2>5. CASE item.kind = "output"
    <3>1. m.type = "function_call_output"
      BY <2>1, <2>5 DEF ResponsesItem
    <3>2. QED
      BY <1>1, <2>5, <3>1 DEF IsPutAs
  <2>6. CASE item.kind = "json"
    <3>1. m = IF HasRole(item) THEN OfMessage(item)
              ELSE [type |-> "json", role |-> "none", text |-> item.text, beside |-> item.beside]
      BY <2>1, <2>6 DEF ResponsesItem
    <3>2. /\ m.type \in {"message", "json"} /\ m.text = item.text
          /\ HasRole(item) => m.role = "assistant"
          /\ m.beside = item.beside \/ item.text = "message"
      BY <3>1 DEF OfMessage
    <3>3. QED
      BY <1>1, <2>6, <3>2 DEF IsPutAs
  <2>7. QED
    BY <2>2, <2>3, <2>4, <2>5, <2>6
<1>4. QED
  BY <1>2, <1>3

LEMMA OutputIsPut ==
    ASSUME NEW api, NEW id, NEW value, id # "absent"
    PROVE  \/ PutToModel(api, Output(id, value)).id = id
           \/ /\ api = "chat" /\ id = "empty"
              /\ PutToModel(api, Output(id, value)).id = "absent"
<1>1. PICK item : item = Output(id, value)
  OBVIOUS
<1>2. item.kind = "output" /\ item.id = id
  BY <1>1 DEF Output
<1>3. CASE api = "chat"
  <2>1. ChatMessage(item).id = FirstNonEmptyString(id, "absent")
    BY <1>2 DEF ChatMessage
  <2>2. FirstNonEmptyString(id, "absent") = IF id = "empty" THEN "absent" ELSE id
    BY DEF FirstNonEmptyString
  <2>3. QED
    BY <1>1, <1>3, <2>1, <2>2 DEF PutToModel
<1>4. CASE api # "chat"
  <2>1. ResponsesItem(item).id = id
    BY <1>2 DEF ResponsesItem
  <2>2. QED
    BY <1>1, <1>4, <2>1, Zenon DEF PutToModel
<1>5. QED
  BY <1>3, <1>4

ParsedArguments == {"null", "string plain", "string object", "object"}
IsSaid(x) ==
    /\ x.kind \in {"text", "json", "reasoning", "call"}
    /\ x.kind = "call" => x.id # "absent" /\ x.arguments \in ParsedArguments

LEMMA ArgumentsReturn ==
    ASSUME NEW a \in ParsedArguments
    PROVE  ParseArguments(SerializeArguments(a)) = a \/ a = "string object"
BY DEF ParsedArguments, ParseArguments, SerializeArguments

(* The list that is put to the model: of the output, and of its calls'     *)
(* outputs.                                                                *)
Puts(api, S) == {PutToModel(api, x) : x \in S}

LEMMA PutInOrder ==
    ASSUME NEW api, NEW S, NEW s \in Seq(S), NEW t \in Seq(S)
    PROVE  /\ RequestInput(api, s) \in Seq(Puts(api, S))
           /\ RequestInput(api, s \o t) = RequestInput(api, s) \o RequestInput(api, t)
<1>1. PICK put : put = [x \in S |-> PutToModel(api, x)]
  OBVIOUS
<1>2. PICK R : R = Puts(api, S)
  OBVIOUS
<1>3. IsMap(put, S, R)
  BY <1>1, <1>2, Zenon DEF IsMap, Puts
<1>4. \A u, v \in Seq(S) :
          Mapped(put, u) \in Seq(R) /\ Mapped(put, u \o v) = Mapped(put, u) \o Mapped(put, v)
  BY <1>3, MappedOfBoth, SMTT(30)
<1>5. \A u \in Seq(S) : RequestInput(api, u) = Mapped(put, u)
  <2>1. \A u \in Seq(S) : \A i \in DOMAIN u : u[i] \in S
    OBVIOUS
  <2>2. \A u \in Seq(S) : \A i \in DOMAIN u : PutToModel(api, u[i]) = put[u[i]]
    BY <1>1, <2>1, Zenon
  <2>3. \A u : RequestInput(api, u) = [i \in DOMAIN u |-> PutToModel(api, u[i])]
    BY Zenon DEF RequestInput, PutToModel
  <2>4. QED
    <3>1. SUFFICES ASSUME NEW u \in Seq(S) PROVE RequestInput(api, u) = Mapped(put, u)
      OBVIOUS
    <3>2. [i \in DOMAIN u |-> PutToModel(api, u[i])] = [i \in DOMAIN u |-> put[u[i]]]
      BY <2>2, <3>1
    <3>3. QED
      BY <2>3, <3>2, Zenon DEF Mapped
<1>6. s \o t \in Seq(S)
  OBVIOUS
<1>7. QED
  BY <1>2, <1>4, <1>5, <1>6

(* What was read of an answer is sent back in its order and with its calls *)
(* and outputs paired, as ModelIsQuotedRight says of whose words they      *)
(* become and what is dropped, for answers of any length.                  *)
THEOREM EveryWordIsQuoted ==
    ASSUME NEW api, NEW S, NEW output \in Seq(S), \A x \in S : IsSaid(x), NEW answers,
           NEW items, items = RunItems(output, answers)
    PROVE  ModelIsQuotedRight(api, output, items, RequestInput(api, items))
<1>1. PICK I : I = {i \in DOMAIN output : output[i].kind = "call"}
  OBVIOUS
<1>2. PICK calls : calls = Picked(output, I)
  OBVIOUS
<1>3. I \in SUBSET DOMAIN output
  BY <1>1
<1>4. PICK outs : outs = [i \in DOMAIN calls |-> Output(calls[i].id, answers[calls[i].name])]
  OBVIOUS
<1>5. calls \in Seq(S)
  BY <1>2, <1>3, PickedAre
<1>6. PICK T : T = {Output(x.id, answers[x.name]) : x \in S}
  OBVIOUS
<1>7. outs \in Seq(T) /\ Len(outs) = Len(calls)
      /\ \A i \in 1..Len(calls) : outs[i] = Output(calls[i].id, answers[calls[i].name])
  BY <1>4, <1>5, <1>6
<1>8. items = output \o outs
  BY <1>1, <1>2, <1>4 DEF RunItems
<1>9. PICK R : R = Puts(api, S \cup T)
  OBVIOUS
<1>10. PICK a, b : a = RequestInput(api, output) /\ b = RequestInput(api, outs)
  OBVIOUS
<1>11. PICK request : request = RequestInput(api, items)
  OBVIOUS
<1>12. /\ a \in Seq(R) /\ b \in Seq(R) /\ request = a \o b
       /\ Len(a) = Len(output) /\ Len(b) = Len(outs)
       /\ \A i \in 1..Len(output) : a[i] = PutToModel(api, output[i])
       /\ \A i \in 1..Len(outs) : b[i] = PutToModel(api, outs[i])
  <2>1. PICK U : U = S \cup T
    OBVIOUS
  <2>2. output \in Seq(U) /\ outs \in Seq(U)
    BY <1>7, <2>1
  <2>3. /\ \A s \in Seq(U) : RequestInput(api, s) \in Seq(Puts(api, U))
        /\ \A s, t \in Seq(U) :
               RequestInput(api, s \o t) = RequestInput(api, s) \o RequestInput(api, t)
    BY PutInOrder
  <2>4. /\ a \in Seq(R) /\ b \in Seq(R) /\ request = a \o b
    BY <1>8, <1>9, <1>10, <1>11, <2>1, <2>2, <2>3
  <2>5. \A s \in Seq(U) : /\ Len([i \in DOMAIN s |-> PutToModel(api, s[i])]) = Len(s)
                           /\ \A i \in 1..Len(s) :
                                  [k \in DOMAIN s |-> PutToModel(api, s[k])][i]
                                      = PutToModel(api, s[i])
    OBVIOUS
  <2>6. \A s : RequestInput(api, s) = [i \in DOMAIN s |-> PutToModel(api, s[i])]
    BY Zenon DEF RequestInput, PutToModel
  <2>7. \A s \in Seq(U) : /\ Len(RequestInput(api, s)) = Len(s)
                           /\ \A i \in 1..Len(s) :
                                  RequestInput(api, s)[i] = PutToModel(api, s[i])
    BY <2>5, <2>6
  <2>8. QED
    BY <1>10, <2>2, <2>4, <2>7
<1>13. PICK n \in Nat : n = Len(output)
  OBVIOUS
<1>14. PICK m \in Nat : m = Len(calls)
  BY <1>5
<1>15. /\ DOMAIN output = 1..n /\ DOMAIN a = 1..n /\ DOMAIN outs = 1..m /\ DOMAIN b = 1..m
       /\ DOMAIN request = 1..(n + m) /\ Len(request) = n + m /\ Len(items) = n + m
       /\ \A i \in 1..n : request[i] = a[i]
       /\ \A j \in 1..m : request[n + j] = b[j]
  <2>1. Len(a) = n /\ Len(b) = m /\ Len(outs) = m
    BY <1>7, <1>12, <1>13, <1>14
  <2>2. /\ DOMAIN output = 1..n /\ DOMAIN a = 1..n /\ DOMAIN outs = 1..m /\ DOMAIN b = 1..m
    BY <1>7, <1>12, <1>13, <2>1
  <2>3. /\ DOMAIN (a \o b) = 1..(n + m) /\ Len(a \o b) = n + m
        /\ \A i \in 1..n : (a \o b)[i] = a[i]
        /\ \A j \in 1..m : (a \o b)[n + j] = b[j]
    <3>1. \A x, y \in Seq(R) :
              /\ DOMAIN (x \o y) = 1..(Len(x) + Len(y)) /\ Len(x \o y) = Len(x) + Len(y)
              /\ \A i \in 1..Len(x) : (x \o y)[i] = x[i]
              /\ \A j \in 1..Len(y) : (x \o y)[Len(x) + j] = y[j]
      OBVIOUS
    <3>2. QED
      BY <1>12, <2>1, <3>1, ZenonT(60)
  <2>4. Len(items) = n + m
    <3>1. Len(output \o outs) = Len(output) + Len(outs)
      <4>1. output \in Seq(S \cup T) /\ outs \in Seq(S \cup T)
        BY <1>7
      <4>2. QED
        BY <4>1
    <3>2. QED
      BY <1>8, <1>13, <2>1, <3>1
  <2>5. QED
    BY <1>12, <2>2, <2>3, <2>4, Zenon
<1>16. \A i \in 1..n : IsSaid(output[i]) /\ IsPutAs(output[i].kind, output[i], a[i])
  <2>1. SUFFICES ASSUME NEW i \in 1..n
                 PROVE  IsSaid(output[i]) /\ IsPutAs(output[i].kind, output[i], a[i])
    OBVIOUS
  <2>2. IsSaid(output[i])
    BY <1>13
  <2>3. a[i] = PutToModel(api, output[i])
    BY <1>12, <1>13
  <2>4. QED
    BY <2>2, <2>3, ItemIsPut DEF IsSaid
<1>17. \A j \in 1..m : b[j] = PutToModel(api, outs[j]) /\ b[j].type = "function_call_output"
  <2>1. SUFFICES ASSUME NEW j \in 1..m
                 PROVE  b[j] = PutToModel(api, outs[j]) /\ b[j].type = "function_call_output"
    OBVIOUS
  <2>2. outs[j].kind = "output"
    <3>1. \A x, v : Output(x, v).kind = "output"
      BY DEF Output
    <3>2. outs[j] = Output(calls[j].id, answers[calls[j].name])
      BY <1>7, <1>14
    <3>3. QED
      BY <3>1, <3>2, Zenon
  <2>3. b[j] = PutToModel(api, outs[j])
    BY <1>7, <1>12, <1>14
  <2>4. PICK item : item = outs[j]
    OBVIOUS
  <2>5. IsPutAs("output", item, b[j])
    <3>1. IsPutAs(item.kind, item, PutToModel(api, item))
      BY <2>2, <2>4, ItemIsPut
    <3>2. QED
      BY <2>2, <2>3, <2>4, <3>1
  <2>6. b[j].type = "function_call_output"
    BY <2>5 DEF IsPutAs
  <2>7. QED
    BY <2>3, <2>6
<1>18. \A i \in 1..n : /\ a[i].type = "function_call" <=> i \in I
                       /\ a[i].type # "function_call_output"
  <2>1. SUFFICES ASSUME NEW i \in 1..n
                 PROVE  /\ a[i].type = "function_call" <=> i \in I
                        /\ a[i].type # "function_call_output"
    OBVIOUS
  <2>2. i \in I <=> output[i].kind = "call"
    BY <1>1, <1>15
  <2>3. IsSaid(output[i]) /\ IsPutAs(output[i].kind, output[i], a[i])
    BY <1>16
  <2>4. CASE output[i].kind = "call"
    BY <2>2, <2>3, <2>4 DEF IsPutAs
  <2>5. CASE output[i].kind \in {"text", "json", "reasoning"}
    BY <2>2, <2>3, <2>5 DEF IsPutAs
  <2>6. QED
    BY <2>3, <2>4, <2>5 DEF IsSaid
<1>19. /\ {i \in DOMAIN request : request[i].type = "function_call"} = Behind(a, I, {})
       /\ {i \in DOMAIN request : request[i].type = "function_call_output"} = Behind(a, {}, 1..m)
  <2>1. \A i \in 1..(n + m) : i \in 1..n \/ \E j \in 1..m : i = n + j
    <3>1. \A i \in 1..(n + m) : i \in 1..n \/ (i - n \in 1..m /\ i = n + (i - n))
      OBVIOUS
    <3>2. QED
      BY <3>1
  <2>2. \A j \in 1..m : n + j \in 1..(n + m) /\ n + j \notin 1..n
    OBVIOUS
  <2>3. \A i \in 1..n : i \in 1..(n + m)
    OBVIOUS
  <2>4. I \subseteq 1..n /\ Len(a) = n
    BY <1>3, <1>12, <1>13, <1>15
  <2>5. \A i \in 1..(n + m) :
            /\ request[i].type = "function_call" <=> i \in I
            /\ request[i].type = "function_call_output" <=> \E j \in 1..m : i = n + j
    <3>1. SUFFICES ASSUME NEW i \in 1..(n + m)
                   PROVE  /\ request[i].type = "function_call" <=> i \in I
                          /\ request[i].type = "function_call_output"
                                 <=> \E j \in 1..m : i = n + j
      OBVIOUS
    <3>2. CASE i \in 1..n
      <4>1. \A j \in 1..m : i # n + j
        BY <2>2, <3>2
      <4>2. QED
        BY <1>15, <1>18, <3>2, <4>1
    <3>3. CASE \E j \in 1..m : i = n + j
      <4>1. PICK j \in 1..m : i = n + j
        BY <3>3
      <4>2. i \notin I
        BY <2>2, <2>4, <4>1
      <4>3. request[i].type = "function_call_output"
        BY <1>15, <1>17, <4>1
      <4>4. QED
        BY <3>3, <4>2, <4>3
    <3>4. QED
      BY <2>1, <3>2, <3>3
  <2>6. /\ {i \in DOMAIN request : request[i].type = "function_call"} = I
        /\ {i \in DOMAIN request : request[i].type = "function_call_output"}
              = {n + j : j \in 1..m}
    <3>1. DOMAIN request = 1..(n + m)
      BY <1>15
    <3>2. {i \in 1..(n + m) : request[i].type = "function_call"} = I
      BY <2>3, <2>4, <2>5
    <3>3. {i \in 1..(n + m) : request[i].type = "function_call_output"}
              = {n + j : j \in 1..m}
      BY <2>2, <2>5
    <3>4. QED
      BY <3>1, <3>2, <3>3
  <2>7. QED
    BY <2>4, <2>6 DEF Behind
<1>20. PICK quoted, outputs :
          /\ quoted = Picked(request, {i \in DOMAIN request : request[i].type = "function_call"})
          /\ outputs = Picked(request, {i \in DOMAIN request : request[i].type = "function_call_output"})
  OBVIOUS
<1>21. quoted = Picked(a, I) /\ outputs = b
  <2>1. {} \in SUBSET DOMAIN a /\ {} \in SUBSET DOMAIN b /\ I \in SUBSET DOMAIN a
        /\ 1..m \in SUBSET DOMAIN b
    BY <1>3, <1>15
  <2>2. /\ Picked(a \o b, Behind(a, I, {})) = Picked(a, I) \o Picked(b, {})
        /\ Picked(a \o b, Behind(a, {}, 1..m)) = Picked(a, {}) \o Picked(b, 1..m)
    <3>1. ArePickedInTurn(a, b, I, {}) /\ ArePickedInTurn(a, b, {}, 1..m)
      BY <1>12, <2>1, PickedOfTwo, Zenon
    <3>2. QED
      BY <3>1 DEF ArePickedInTurn
  <2>3. Picked(a, {}) = <<>> /\ Picked(b, {}) = <<>>
    BY <1>12, PickedNone
  <2>4. Picked(b, 1..m) = b
    BY <1>12, <1>15, PickedAll
  <2>5. PICK q : q = Picked(a, I)
    OBVIOUS
  <2>6. q \in Seq(R)
    BY <1>12, <2>1, <2>5, PickedAre
  <2>7. q \o <<>> = q /\ <<>> \o b = b
    BY <1>12, <2>6
  <2>8. QED
    BY <1>12, <1>19, <1>20, <2>2, <2>3, <2>4, <2>5, <2>7
<1>22. PICK p, l : /\ Enumerates(p, l, I) /\ Len(calls) = l /\ Len(quoted) = l
                   /\ \A k \in 1..l : calls[k] = output[p[k]] /\ quoted[k] = a[p[k]]
  <2>1. Len(output) = Len(a)
    BY <1>12
  <2>2. PickedAlike(output, a, I)
    BY <1>3, <1>12, <2>1, PickedAgree
  <2>3. QED
    BY <1>2, <1>21, <2>2 DEF PickedAlike
<1>23. l = m /\ l \in Nat /\ p \in [1..l -> I] /\ Len(quoted) = l /\ DOMAIN quoted = 1..l
  <2>1. l \in Nat /\ p \in [1..l -> I]
    BY <1>22 DEF Enumerates
  <2>2. quoted \in Seq(R)
    BY <1>3, <1>12, <1>15, <1>21, PickedAre
  <2>3. QED
    BY <1>14, <1>22, <2>1, <2>2
<1>24. Len(quoted) = Len(outputs) /\ Len(request) = Len(items)
  BY <1>12, <1>7, <1>14, <1>15, <1>21, <1>23
<1>25. \A k \in DOMAIN quoted : \/ quoted[k].id = outputs[k].id
                                \/ api = "chat" /\ quoted[k].id = "empty" /\ outputs[k].id = "absent"
  <2>1. SUFFICES ASSUME NEW k \in 1..l
                 PROVE  \/ quoted[k].id = outputs[k].id
                        \/ api = "chat" /\ quoted[k].id = "empty" /\ outputs[k].id = "absent"
    BY <1>23
  <2>2. PICK i \in 1..n : i = p[k] /\ i \in I
    BY <1>3, <1>15, <1>23
  <2>3. calls[k] = output[i] /\ quoted[k] = a[i]
    BY <1>22, <2>2
  <2>4. output[i].kind = "call"
    BY <1>1, <2>2
  <2>5. quoted[k].id = output[i].id /\ output[i].id # "absent"
    BY <1>16, <2>3, <2>4 DEF IsPutAs, IsSaid
  <2>6. outputs[k] = PutToModel(api, Output(output[i].id, answers[output[i].name]))
    BY <1>7, <1>14, <1>17, <1>21, <1>23, <2>3
  <2>7. QED
    BY <2>5, <2>6, OutputIsPut
<1>26. \A i \in DOMAIN output :
          LET x == request[i]
          IN CASE output[i].kind = "call" ->
                    /\ x.type = "function_call"
                    /\ <<x.id, x.name>> = <<output[i].id, output[i].name>>
                    /\ \/ ParseArguments(x.arguments) = output[i].arguments
                       \/ output[i].arguments = "string object"
               [] output[i].kind = "text" ->
                    x.role = "user" /\ x.text = output[i].text
               [] output[i].kind = "reasoning" ->
                    x.role = "assistant" /\ x.text = output[i].text
               [] output[i].kind = "json" ->
                    /\ x.text = output[i].text
                    /\ HasRole(output[i]) => x.role = "assistant"
                    /\ x.beside = output[i].beside \/ output[i].text = "message"
  <2>1. SUFFICES ASSUME NEW i \in 1..n, NEW x, x = request[i]
                 PROVE  CASE output[i].kind = "call" ->
                    /\ x.type = "function_call"
                    /\ <<x.id, x.name>> = <<output[i].id, output[i].name>>
                    /\ \/ ParseArguments(x.arguments) = output[i].arguments
                       \/ output[i].arguments = "string object"
               [] output[i].kind = "text" ->
                    x.role = "user" /\ x.text = output[i].text
               [] output[i].kind = "reasoning" ->
                    x.role = "assistant" /\ x.text = output[i].text
               [] output[i].kind = "json" ->
                    /\ x.text = output[i].text
                    /\ HasRole(output[i]) => x.role = "assistant"
                    /\ x.beside = output[i].beside \/ output[i].text = "message"
    BY <1>15
  <2>2. x = a[i] /\ IsSaid(output[i]) /\ IsPutAs(output[i].kind, output[i], x)
    BY <1>15, <1>16, <2>1
  <2>3. CASE output[i].kind = "call"
    <3>1. /\ x.type = "function_call" /\ x.id = output[i].id /\ x.name = output[i].name
          /\ x.arguments = SerializeArguments(output[i].arguments)
          /\ output[i].arguments \in ParsedArguments
      BY <2>2, <2>3 DEF IsPutAs, IsSaid
    <3>2. QED
      BY <2>3, <3>1, ArgumentsReturn
  <2>4. CASE output[i].kind \in {"text", "json", "reasoning"}
    BY <2>2, <2>4 DEF IsPutAs
  <2>5. QED
    BY <2>2, <2>3, <2>4 DEF IsSaid
<1>27. ModelIsQuotedRight(api, output, items, request)
  BY <1>20, <1>24, <1>25, <1>26 DEF ModelIsQuotedRight
<1>28. QED
  BY <1>11, <1>27

(* What the answers of both APIs become.                                   *)
Words == {"t1", "t2", "t3", "absent", "null", "message", "bare_message", "function_call",
          "tool_search_call", "reasoning"}
Ids == {"empty", "c", "d", "i", "n", "n2"}
SaidItems == [kind : {"text", "reasoning"}, text : Words]
            \cup [kind : {"json"}, text : Words, beside : {"none", "refusal"}]
            \cup [kind : {"call"}, id : Ids, name : Ids, arguments : ParsedArguments]

LEMMA SaidAre == \A x \in SaidItems : IsSaid(x)
BY DEF SaidItems, IsSaid, Ids

LEMMA ToldAre ==
    /\ \A t \in Words : Text(t) \in SaidItems /\ Reasoning(t) \in SaidItems
    /\ \A t \in Words, b \in {"none", "refusal"} : Json(t, b) \in SaidItems
    /\ \A id, name \in Ids, a \in ParsedArguments : Call(id, name, a) \in SaidItems
BY DEF SaidItems, Text, Json, Reasoning, Call

LEMMA OneSaid ==
    ASSUME NEW x \in SaidItems PROVE <<x>> \in Seq(SaidItems)
OBVIOUS

LEMMA ItemIsSaid ==
    ASSUME NEW item \in ApiItems PROVE ParseItem(item) \in Seq(SaidItems)
<1>1. CASE item \in {[type |-> "message", parts |-> p] : p \in BoundedSeq({"t1", "t2", "absent"}, 2)}
  <2>1. PICK parts \in BoundedSeq({"t1", "t2", "absent"}, 2) :
            item = [type |-> "message", parts |-> parts]
    BY <1>1
  <2>2. parts \in Seq({"t1", "t2", "absent"})
    BY SeqOfIs DEF BoundedSeq
  <2>3. PICK texts : texts = Others(parts, {"absent"})
    OBVIOUS
  <2>4. texts \in Seq({"t1", "t2", "absent"})
    BY <2>2, <2>3, PickedAre DEF Others
  <2>5. item.type = "message" /\ item.parts = parts
    BY <2>1
  <2>6. \A i \in DOMAIN texts : Text(texts[i]) \in SaidItems
    <3>1. \A i \in DOMAIN texts : texts[i] \in Words
      BY <2>4 DEF Words
    <3>2. QED
      BY <3>1, ToldAre
  <2>7. [i \in DOMAIN texts |-> Text(texts[i])] \in Seq(SaidItems)
    BY <2>4, <2>6
  <2>8. <<Json("message", "none")>> \in Seq(SaidItems)
    BY ToldAre, OneSaid DEF Words
  <2>9. ParseItem(item) = IF texts = <<>> THEN <<Json("message", "none")>>
                          ELSE [i \in DOMAIN texts |-> Text(texts[i])]
    BY <2>3, <2>5 DEF ParseItem
  <2>10. QED
    BY <2>7, <2>8, <2>9
<1>2. CASE item \in [type : {"reasoning"}, summary : {"absent", "t1"}]
  <2>1. item.type = "reasoning" /\ item.summary \in {"absent", "t1"}
    BY <1>2
  <2>2. PICK x : x = Reasoning(IF item.summary = "absent" THEN "reasoning" ELSE item.summary)
    OBVIOUS
  <2>3. ParseItem(item) = <<x>>
    BY <2>1, <2>2 DEF ParseItem
  <2>4. x \in SaidItems
    BY <2>1, <2>2, ToldAre DEF Words
  <2>5. QED
    BY <2>3, <2>4, OneSaid
<1>3. CASE item \in [type : {"function_call"}, callId : {"absent", "empty", "c"},
                     id : {"absent", "i"}, name : {"absent", "empty", "n"},
                     toolName : {"absent", "n2"}, arguments : {"absent", "quoted object", "quoted"}]
  <2>1. /\ item.type = "function_call" /\ item.callId \in {"absent", "empty", "c"}
        /\ item.id \in {"absent", "i"} /\ item.name \in {"absent", "empty", "n"}
        /\ item.toolName \in {"absent", "n2"}
        /\ item.arguments \in {"absent", "quoted object", "quoted"}
    BY <1>3
  <2>2. PICK name : name = FirstNonEmptyString(item.name, item.toolName)
    OBVIOUS
  <2>3. PICK id : id = OrEmpty(FirstNonEmptyString(item.callId, item.id))
    OBVIOUS
  <2>4. name = "absent" \/ name \in Ids
    BY <2>1, <2>2 DEF FirstNonEmptyString, Ids
  <2>5. id \in Ids
    BY <2>1, <2>3 DEF FirstNonEmptyString, OrEmpty, Ids
  <2>6. ParseArguments(item.arguments) \in ParsedArguments
    BY <2>1 DEF ParseArguments, ParsedArguments
  <2>7. ParseItem(item) = IF name = "absent" THEN <<Json("function_call", "none")>>
                          ELSE <<Call(id, name, ParseArguments(item.arguments))>>
    BY <2>1, <2>2, <2>3 DEF ParseItem
  <2>8. CASE name = "absent"
    <3>1. Json("function_call", "none") \in SaidItems
      BY ToldAre DEF Words
    <3>2. QED
      BY <2>7, <2>8, <3>1, OneSaid
  <2>9. CASE name \in Ids
    <3>1. Call(id, name, ParseArguments(item.arguments)) \in SaidItems
      BY <2>5, <2>6, <2>9, ToldAre
    <3>2. name # "absent"
      BY <2>9 DEF Ids
    <3>3. QED
      BY <2>7, <3>1, <3>2, OneSaid
  <2>10. QED
    BY <2>4, <2>8, <2>9
<1>4. CASE item \in {[type |-> "tool_search_call"]}
  <2>1. item.type = "tool_search_call"
    BY <1>4
  <2>2. ParseItem(item) = <<Json("tool_search_call", "none")>>
    BY <2>1 DEF ParseItem
  <2>3. Json("tool_search_call", "none") \in SaidItems
    BY ToldAre DEF Words
  <2>4. QED
    BY <2>2, <2>3, OneSaid
<1>5. item \in [type : {"reasoning"}, summary : {"absent", "t1"}]
      \/ item \notin {[type |-> "reasoning", summary |-> s] : s \in {"absent", "t1"}}
  OBVIOUS
<1>6. QED
  BY <1>1, <1>2, <1>3, <1>4, <1>5 DEF ApiItems

LEMMA ResponsesAreSaid ==
    ASSUME NEW items \in Seq(ApiItems), NEW outputText \in {"absent", "t3"}
    PROVE  ParseResponses(items, outputText) \in Seq(SaidItems)
<1>1. PICK parsed : parsed = [i \in DOMAIN items |-> ParseItem(items[i])]
  OBVIOUS
<1>2. parsed \in Seq(Seq(SaidItems))
  <2>1. \A i \in DOMAIN items : items[i] \in ApiItems
    OBVIOUS
  <2>2. \A i \in DOMAIN items : ParseItem(items[i]) \in Seq(SaidItems)
    BY <2>1, ItemIsSaid
  <2>3. QED
    BY <1>1, <2>2
<1>3. FlattenSeq(parsed) \in Seq(SaidItems)
  BY <1>2, FlattenOfBoth
<1>4. <<Text(outputText)>> \in Seq(SaidItems)
  <2>1. Text(outputText) \in SaidItems
    BY ToldAre DEF Words
  <2>2. QED
    BY <2>1, OneSaid
<1>5. QED
  BY <1>1, <1>3, <1>4 DEF ParseResponses

LEMMA ChatIsSaid ==
    ASSUME NEW content \in {"absent", "null", "t1"}, NEW refusal \in {"none", "refusal"},
           NEW calls \in Seq(ChatCalls)
    PROVE  ParseChat(content, refusal, calls) \in Seq(SaidItems)
<1>1. PICK text : text = IF content \in {"absent", "null"} THEN <<>> ELSE <<Text(content)>>
  OBVIOUS
<1>2. PICK called : called = [i \in DOMAIN calls |->
                      Call(OrEmpty(FirstNonEmptyString(calls[i].id, "absent")),
                           OrEmpty(FirstNonEmptyString(calls[i].name, "absent")),
                           ParseArguments(calls[i].arguments))]
  OBVIOUS
<1>3. text \in Seq(SaidItems)
  <2>1. Text(content) \in SaidItems
    BY ToldAre DEF Words
  <2>2. QED
    BY <1>1, <2>1, OneSaid
<1>4. \A c \in ChatCalls : Call(OrEmpty(FirstNonEmptyString(c.id, "absent")),
                                OrEmpty(FirstNonEmptyString(c.name, "absent")),
                                ParseArguments(c.arguments)) \in SaidItems
  <2>1. \A c \in ChatCalls : /\ c.id \in {"absent", "empty", "c", "d"}
                             /\ c.name \in {"absent", "n", "n2"}
                             /\ c.arguments \in {"absent", "object", "plain", "null"}
    BY DEF ChatCalls
  <2>2. \A x \in {"absent", "empty", "c", "d", "n", "n2"} :
            OrEmpty(FirstNonEmptyString(x, "absent")) \in Ids
    BY DEF OrEmpty, FirstNonEmptyString, Ids
  <2>3. \A a \in {"absent", "object", "plain", "null"} : ParseArguments(a) \in ParsedArguments
    BY DEF ParseArguments, ParsedArguments
  <2>4. QED
    BY <2>1, <2>2, <2>3, ToldAre
<1>5. called \in Seq(SaidItems)
  <2>1. \A i \in DOMAIN calls : calls[i] \in ChatCalls
    OBVIOUS
  <2>2. QED
    BY <1>2, <1>4, <2>1
<1>6. text \o called \in Seq(SaidItems)
  BY <1>3, <1>5
<1>7. PICK said : said = Json(IF content = "absent" THEN "bare_message" ELSE "message", refusal)
  OBVIOUS
<1>8. <<said>> \in Seq(SaidItems)
  <2>1. said \in SaidItems
    BY <1>7, ToldAre DEF Words
  <2>2. QED
    BY <2>1, OneSaid
<1>9. QED
  BY <1>1, <1>2, <1>6, <1>7, <1>8 DEF ParseChat

LEMMA ResendStep ==
    ASSUME NEW api, NEW output \in Seq(SaidItems), Resend(api, output)
    PROVE  ModelIsQuotedRight(given'[1], given'[2], given'[3], made')
<1>1. PICK value \in {"text", "json", "other"} :
        LET items == RunItems(output, [n \in {"n", "n2", "empty"} |-> value])
        IN /\ given' = <<api, output, items>>
           /\ made' = RequestInput(api, items)
  BY Zenon DEF Resend
<1>2. PICK items : items = RunItems(output, [n \in {"n", "n2", "empty"} |-> value])
  OBVIOUS
<1>3. given' = <<api, output, items>> /\ made' = RequestInput(api, items)
  BY <1>1, <1>2, Zenon
<1>4. ModelIsQuotedRight(api, output, items, RequestInput(api, items))
  BY <1>2, SaidAre, EveryWordIsQuoted, Zenon
<1>5. \A x, y, z : <<x, y, z>>[1] = x /\ <<x, y, z>>[2] = y /\ <<x, y, z>>[3] = z
  OBVIOUS
<1>6. given'[1] = api /\ given'[2] = output /\ given'[3] = items
  BY <1>3, <1>5, Zenon
<1>7. QED
  BY <1>3, <1>4, <1>6, Zenon

LEMMA AnswerStep ==
    ASSUME AnswerResponses \/ AnswerChat
    PROVE  ModelIsQuotedRight(given'[1], given'[2], given'[3], made')
<1>1. CASE AnswerResponses
  <2>1. PICK items \in SeqOf(ApiItems, 2), outputText \in {"absent", "t3"} :
            Resend("responses", ParseResponses(items, outputText))
    BY <1>1, Zenon DEF AnswerResponses
  <2>2. items \in Seq(ApiItems)
    BY SeqOfIs
  <2>3. ParseResponses(items, outputText) \in Seq(SaidItems)
    BY <2>2, ResponsesAreSaid
  <2>4. QED
    BY <2>1, <2>3, ResendStep, Zenon
<1>2. CASE AnswerChat
  <2>1. PICK content \in {"absent", "null", "t1"}, refusal \in {"none", "refusal"},
             calls \in SeqOf(ChatCalls, 2) :
            Resend("chat", ParseChat(content, refusal, calls))
    BY <1>2, Zenon DEF AnswerChat
  <2>2. calls \in Seq(ChatCalls)
    BY SeqOfIs
  <2>3. ParseChat(content, refusal, calls) \in Seq(SaidItems)
    BY <2>2, ChatIsSaid
  <2>4. QED
    BY <2>1, <2>3, ResendStep, Zenon
<1>3. QED
  BY <1>1, <1>2

LEMMA RequestsStep == Requests /\ [ConversionNext]_conversionVars => Requests'
<1> SUFFICES ASSUME Requests, [ConversionNext]_conversionVars PROVE Requests'
  OBVIOUS
<1>1. CASE UNCHANGED dataVars
  BY <1>1 DEF Requests, dataVars
<1>2. CASE ~done /\ done' = TRUE /\ subject' = subject /\ Convert
  BY <1>2, SubjectsAct, RouteStep, ConfigureStep, SendStep, AnswerStep, FramesStep DEF Requests
<1>3. QED
  BY <1>1, <1>2 DEF ConversionNext, conversionVars

(* Requests go where their models are, with the settings of their run, and *)
(* what was answered is read as a whole and quoted as it was said          *)
(* (Requests).                                                             *)
THEOREM RequestsAreRight == ConversionSpec => []Requests
<1>1. ConversionInit => Requests
  BY DEF ConversionInit, Requests
<1>2. QED
  BY <1>1, RequestsStep, PTL DEF ConversionSpec
=============================================================================
