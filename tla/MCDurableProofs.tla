-------------------------- MODULE MCDurableProofs --------------------------
(***************************************************************************)
(* Proofs about what is kept for later, for any files, sessions, items and *)
(* bounds: the stores of session items, the sandbox session, the           *)
(* compaction session, the server conversation tracker, and the components *)
(* of MCDurable side by side.                                              *)
(***************************************************************************)
EXTENDS MCDurable, ListProofs

-----------------------------------------------------------------------------
(* The stores of session items: the inductive invariant.                   *)

(* Where an item that was added may be.                                    *)
Reached == ToSet(rows) \cup taken \cup wiped

(* The items that a client has still to store.                             *)
Unstored(d) ==
    IF d.at \in {"push", "read", "write", "parent", "insert"}
    THEN ToSet(d.left) ELSE {}

(* Which operation is at which step, and of which backend.                 *)
Fits(d) ==
    /\ d.op = "none" <=> d.at = "none"
    /\ d.at # "none" => store.kind # "none"
    /\ d.at \in {"push", "expire", "parent", "insert", "touch"} => d.op = "add"
    /\ d.at \in {"pop", "select", "delete"} => d.op = "pop"
    /\ d.at \in {"read", "write"} =>
           d.op \in {"add", "pop"} /\ store.kind = "dapr"
    /\ d.at \in {"select", "delete"} => store.kind = "sqlite"
    /\ d.at = "delete" => d.seen # <<>>
    /\ d.at \in {"parent", "insert"} => d.left # <<>>
    /\ d.op # "add" => d.left = <<>>
    /\ d.seen # <<>> => d.at \in {"delete", "write"}

(* What add_items was given is stored, or was, but for what is to come.    *)
Lands(d) == d.op = "add" => ToSet(d.batch) \subseteq Reached \cup Unstored(d)

(* What was read is what is there, if nobody comes in between: but a key   *)
(* may expire.                                                             *)
Sees(d) ==
    /\ d.at = "delete" => rows # <<>> /\ d.seen = <<Last(rows)>>
    /\ d.at = "write" => rows = d.seen \/ rows = <<>>

NobodyElse == \A c, d \in Clients : Busy(c) /\ Busy(d) => c = d

(* Where an item is that is no longer new.                                 *)
SeenByAny == UNION {ToSet(doing[c].seen) : c \in Clients}
AnyPlace == ToSet(rows) \cup taken \cup SeenByAny

OnePlace ==
    /\ IsInjective(rows)
    /\ PoppedOnce
    /\ \A x \in AnyPlace : x.n <= doing[x.by].added

(* The items that client c has still to store are new; those that it has   *)
(* read were noted if one was taken since.                                 *)
IsNew(c) ==
    /\ IsInjective(doing[c].left) /\ IsInjective(doing[c].seen)
    /\ ToSet(doing[c].seen) \cap taken \subseteq held
    /\ \A x \in Unstored(doing[c]) :
           x.by = c /\ x.n <= doing[c].added /\ x \notin AnyPlace

LandInv == ~Rewritten => AddedIsKept /\ \A c \in Clients : Lands(doing[c])
AloneInv ==
    ~raced => NobodyElse /\ held = {} /\ \A c \in Clients : Sees(doing[c])
OnceInv == OnePlace /\ \A c \in Clients : IsNew(c)
FitInv == \A c \in Clients : Fits(doing[c])

StoreInv == StoreTypeOK /\ FitInv /\ LandInv /\ AloneInv /\ OnceInv

-----------------------------------------------------------------------------
(* A step of one client: what it has to show for the invariant to hold of  *)
(* everybody.                                                              *)

(* What a pop takes is noted if somebody else has read it.                 *)
PopsGrow(c) ==
    /\ taken \subseteq taken' /\ taken' \subseteq StoredItems
    /\ held \subseteq held' /\ held' \subseteq StoredItems
    /\ ReadByOthers(c, taken' \ taken) \subseteq held'
    /\ ~raced \/ store.kind \notin {"sqlite", "dapr"} => held' = {}

(* What the store has is known, or what c has just stored.                 *)
RowsInPlace(c) ==
    /\ IsInjective(rows')
    /\ ToSet(rows') \cup taken' \subseteq AnyPlace \cup Unstored(doing[c])
    /\ (ToSet(rows') \cap taken') \cup twice' \subseteq held'
    /\ store.kind # "dapr" => ToSet(rows') \cap taken' = {}

(* What c goes on with.                                                    *)
SeenInPlace(c, d) ==
    /\ IsInjective(d.left) /\ IsInjective(d.seen)
    /\ ToSet(d.seen) \subseteq AnyPlace
    /\ ToSet(d.seen) \cap taken' \subseteq held'
    /\ Unstored(d) \subseteq Unstored(doing[c])
    /\ Unstored(d) \cap (ToSet(rows') \cup taken') = {}

LEMMA PlacesAre == StoreInv => AnyPlace \subseteq StoredItems
<1> SUFFICES ASSUME StoreInv PROVE AnyPlace \subseteq StoredItems
  OBVIOUS
<1>1. /\ rows \in Seq(StoredItems) /\ taken \subseteq StoredItems
      /\ \A c \in Clients : doing[c].seen \in Seq(StoredItems)
  BY DEF StoreInv, StoreTypeOK, Doings
<1>2. QED
  BY <1>1, HoldsAt DEF AnyPlace, SeenByAny

LEMMA ClientStep ==
    ASSUME StoreInv, NEW c \in Clients, NEW d \in Doings, Busy(c),
           doing' = [doing EXCEPT ![c] = d], d.added = doing[c].added,
           UNCHANGED <<store, old, begun, raced>>,
           rows' \in Seq(StoredItems), parent' \in BOOLEAN,
           acked' \subseteq StoredItems, wiped' \subseteq StoredItems,
           Fits(d),
           ~Rewritten =>
               /\ Reached \subseteq Reached'
               /\ acked' \subseteq acked \cup Reached'
               /\ d.op = "add" =>
                      /\ doing[c].op = "add" /\ d.batch = doing[c].batch
                      /\ Unstored(doing[c]) \subseteq Unstored(d) \cup Reached',
           ~raced => Sees(d)',
           PopsGrow(c), RowsInPlace(c), SeenInPlace(c, d)
    PROVE  StoreInv'
<1>1. /\ doing \in [Clients -> Doings] /\ doing'[c] = d
      /\ \A e \in Clients \ {c} : doing'[e] = doing[e]
      /\ \A e \in Clients : doing'[e].added = doing[e].added
  BY DEF StoreInv, StoreTypeOK
<1>2. StoreTypeOK'
  <2>1. twice' \subseteq StoredItems
    BY DEF RowsInPlace, PopsGrow
  <2>2. QED
    BY <1>1, <2>1 DEF StoreInv, StoreTypeOK, PopsGrow
<1>3. FitInv'
  BY <1>1 DEF StoreInv, FitInv, Fits
<1>4. Rewritten' <=> Rewritten
  BY DEF Rewritten
<1>5. LandInv'
  <2> SUFFICES ASSUME ~Rewritten
               PROVE  AddedIsKept' /\ \A e \in Clients : Lands(doing[e])'
    BY <1>4 DEF LandInv
  <2>1. Reached \subseteq Reached' /\ acked' \subseteq acked \cup Reached'
    OBVIOUS
  <2>2. AddedIsKept /\ \A e \in Clients : Lands(doing[e])
    BY DEF StoreInv, LandInv
  <2>3. AddedIsKept'
    BY <1>4, <2>1, <2>2 DEF AddedIsKept, Reached
  <2>4. ASSUME NEW e \in Clients
        PROVE  Lands(doing[e])'
    <3>1. CASE e = c
      BY <1>1, <2>1, <2>2, <3>1 DEF Lands, Unstored
    <3>2. CASE e # c
      BY <1>1, <2>1, <2>2, <3>2 DEF Lands, Unstored
    <3>3. QED
      BY <3>1, <3>2
  <2>5. QED
    BY <2>3, <2>4
<1>6. AloneInv'
  <2> SUFFICES ASSUME ~raced
               PROVE  NobodyElse' /\ held' = {} /\ \A e \in Clients : Sees(doing[e])'
    BY DEF AloneInv
  <2>1. NobodyElse
    BY DEF StoreInv, AloneInv
  <2>2. \A e \in Clients \ {c} : ~Busy(e) /\ doing[e].at = "none"
    BY <2>1 DEF NobodyElse, StoreInv, FitInv, Fits, Busy
  <2>3. NobodyElse'
    BY <1>1, <2>2 DEF NobodyElse, Busy
  <2>4. ASSUME NEW e \in Clients
        PROVE  Sees(doing[e])'
    <3>1. CASE e = c
      BY <1>1, <3>1 DEF Sees, Unstored
    <3>2. CASE e # c
      BY <1>1, <2>2, <3>2 DEF Sees
    <3>3. QED
      BY <3>1, <3>2
  <2>5. QED
    BY <2>3, <2>4 DEF PopsGrow
<1>7. OnceInv'
  <2>1. OnePlace /\ \A e \in Clients : IsNew(e)
    BY DEF StoreInv, OnceInv
  <2>2. AnyPlace' \subseteq AnyPlace \cup Unstored(doing[c])
    BY <1>1 DEF AnyPlace, SeenByAny, RowsInPlace, SeenInPlace
  <2>3. ASSUME NEW x \in AnyPlace'
        PROVE  x.n <= doing'[x.by].added
    <3>1. CASE x \in AnyPlace
      <4>1. x.n <= doing[x.by].added /\ x \in StoredItems
        BY <2>1, <3>1, PlacesAre DEF OnePlace
      <4>2. QED
        BY <1>1, <4>1 DEF StoredItems
    <3>2. CASE x \in Unstored(doing[c])
      BY <1>1, <2>1, <3>2 DEF IsNew
    <3>3. QED
      BY <2>2, <3>1, <3>2
  <2>4. PoppedOnce'
    <3>1. store' = store /\ (store.kind \notin {"sqlite", "dapr"} => held' = {})
      BY DEF PopsGrow
    <3>2. QED
      BY <3>1 DEF PoppedOnce, RowsInPlace
  <2>5. OnePlace'
    BY <2>3, <2>4 DEF OnePlace, RowsInPlace
  <2>6. ASSUME NEW e \in Clients
        PROVE  IsNew(e)'
    <3>1. CASE e = c
      <4>1. \A x \in Unstored(d) : x \notin AnyPlace'
        <5>1. \A x \in Unstored(d) : x \in Unstored(doing[c]) /\ x \notin AnyPlace
          BY <2>1 DEF IsNew, SeenInPlace
        <5>2. \A x \in SeenByAny' : x \in AnyPlace
          BY <1>1 DEF AnyPlace, SeenByAny, SeenInPlace
        <5>3. QED
          BY <5>1, <5>2 DEF AnyPlace, SeenInPlace
      <4>2. Unstored(doing[e])' = Unstored(d)
        BY <1>1, <3>1 DEF Unstored
      <4>3. \A x \in Unstored(d) : x.by = e /\ x.n <= doing'[e].added
        BY <1>1, <2>1, <3>1 DEF IsNew, SeenInPlace
      <4>4. QED
        BY <1>1, <3>1, <4>1, <4>2, <4>3 DEF IsNew, SeenInPlace
    <3>2. CASE e # c
      <4>1. doing'[e] = doing[e] /\ IsNew(e)
        BY <1>1, <2>1, <3>2
      <4>2. ToSet(doing[e].seen) \cap taken' \subseteq held'
        BY <3>2, <4>1 DEF IsNew, PopsGrow, ReadByOthers
      <4>3. ASSUME NEW x \in Unstored(doing[e])
            PROVE  x.by = e /\ x.n <= doing'[e].added /\ x \notin AnyPlace'
        <5>1. x.by = e /\ x.n <= doing[e].added /\ x \notin AnyPlace
          BY <4>1 DEF IsNew
        <5>2. x \notin Unstored(doing[c])
          BY <2>1, <3>2, <5>1 DEF IsNew
        <5>3. QED
          BY <2>2, <4>1, <5>1, <5>2
      <4>4. Unstored(doing[e])' = Unstored(doing[e])
        BY <4>1 DEF Unstored
      <4>5. QED
        BY <4>1, <4>2, <4>3, <4>4 DEF IsNew
    <3>3. QED
      BY <3>1, <3>2
  <2>7. QED
    BY <2>5, <2>6 DEF OnceInv
<1>8. QED
  BY <1>2, <1>3, <1>5, <1>6, <1>7 DEF StoreInv

(* A client that is done, or goes back to its first step.                  *)
Quiet(d) ==
    /\ d.op # "add" /\ d.at \notin {"delete", "write"} /\ d.seen = <<>>
    /\ Fits(d) /\ Unstored(d) = {} /\ IsInjective(d.left)

LEMMA QuietStep ==
    ASSUME StoreInv, NEW c \in Clients, NEW d \in Doings, Busy(c),
           doing' = [doing EXCEPT ![c] = d], d.added = doing[c].added,
           UNCHANGED <<store, old, begun, raced>>,
           rows' \in Seq(StoredItems), parent' \in BOOLEAN,
           acked' \subseteq StoredItems, wiped' \subseteq StoredItems,
           Quiet(d),
           ~Rewritten => /\ Reached \subseteq Reached'
                         /\ acked' \subseteq acked \cup Reached',
           PopsGrow(c), RowsInPlace(c)
    PROVE  StoreInv'
<1>1. Fits(d) /\ d.op # "add"
  BY DEF Quiet
<1>2. Sees(d)'
  BY DEF Quiet, Sees
<1>3. SeenInPlace(c, d)
  BY EmptyHolds DEF Quiet, SeenInPlace
<1>4. QED
  BY <1>1, <1>2, <1>3, ClientStep

(* The records of clients, and what the invariant says of them.            *)
LEMMA RecordIs ==
    ASSUME StoreInv, NEW c \in Clients
    PROVE  /\ doing[c] \in Doings /\ Fits(doing[c])
           /\ AtStep(c, doing[c].at)
           /\ doing[c].at # "none" => Busy(c)
           /\ doing[c].left \in Seq(StoredItems) /\ doing[c].seen \in Seq(StoredItems)
           /\ doing[c].batch \in Seq(StoredItems)
           /\ ToSet(doing[c].batch) \subseteq StoredItems
           /\ ToSet(doing[c].left) \subseteq StoredItems
           /\ ToSet(doing[c].seen) \subseteq StoredItems
           /\ ToSet(rows) \subseteq StoredItems
<1>1. doing[c] \in Doings /\ rows \in Seq(StoredItems)
  BY DEF StoreInv, StoreTypeOK
<1>2. Fits(doing[c])
  BY DEF StoreInv, FitInv
<1>3. doing[c].left \in Seq(StoredItems) /\ doing[c].seen \in Seq(StoredItems)
      /\ doing[c].batch \in Seq(StoredItems)
  BY <1>1 DEF Doings
<1>4. QED
  BY <1>1, <1>2, <1>3, HoldsAt DEF Fits, Busy, AtStep

LEMMA StopsIs ==
    ASSUME StoreInv, NEW c \in Clients, Stops(c)
    PROVE  \E d \in Doings : /\ doing' = [doing EXCEPT ![c] = d]
                             /\ d.added = doing[c].added /\ Quiet(d)
<1>1. doing[c] \in Doings
  BY RecordIs
<1>2. Idling(c) \in Doings /\ Idling(c).added = doing[c].added
      /\ Idling(c).op = "none" /\ Idling(c).at = "none" /\ Idling(c).left = <<>>
      /\ Idling(c).seen = <<>>
  BY <1>1, EmptyHolds DEF Idling, Doings, Steps
<1>3. Quiet(Idling(c))
  BY <1>2, EmptyHolds DEF Quiet, Fits, Unstored
<1>4. QED
  BY <1>2, <1>3 DEF Stops

(* Who has read anything.                                                  *)
LEMMA ReadersAre ==
    ASSUME StoreInv
    PROVE  /\ \A c \in Clients : doing[c].seen # <<>> =>
                  Busy(c) /\ store.kind \in {"sqlite", "dapr"}
           /\ OnePlace /\ \A c \in Clients : IsNew(c)
           /\ ~raced => held = {} /\ NobodyElse /\ \A c \in Clients : Sees(doing[c])
BY DEF StoreInv, FitInv, Fits, Busy, OnceInv, AloneInv

(* Nothing is taken.                                                       *)
LEMMA NothingTaken ==
    ASSUME StoreInv, NEW c \in Clients, UNCHANGED <<taken, twice, held>>,
           IsInjective(rows'),
           ToSet(rows') \subseteq AnyPlace \cup Unstored(doing[c]),
           ToSet(rows') \cap taken \subseteq held,
           store.kind # "dapr" => ToSet(rows') \cap taken = {}
    PROVE  RowsInPlace(c) /\ PopsGrow(c)
<1>1. PoppedOnce /\ (~raced => held = {})
  BY ReadersAre DEF OnePlace
<1>2. RowsInPlace(c)
  BY <1>1 DEF RowsInPlace, AnyPlace, PoppedOnce
<1>3. PopsGrow(c)
  BY <1>1 DEF PopsGrow, PoppedOnce, ReadByOthers, StoreInv, StoreTypeOK
<1>4. QED
  BY <1>2, <1>3

LEMMA RowsStay ==
    ASSUME StoreInv, NEW c \in Clients, UNCHANGED <<rows, taken, twice, held>>
    PROVE  RowsInPlace(c) /\ PopsGrow(c)
<1>1. OnePlace
  BY ReadersAre
<1>2. QED
  BY <1>1, NothingTaken DEF OnePlace, PoppedOnce, AnyPlace

LEMMA RowsGone ==
    ASSUME StoreInv, NEW c \in Clients, UNCHANGED <<taken, twice, held>>, rows' = <<>>
    PROVE  RowsInPlace(c) /\ PopsGrow(c)
BY EmptyHolds, NothingTaken

(* Items are taken: those that somebody else has read are noted.           *)
LEMMA TakenGrow ==
    ASSUME StoreInv, NEW c \in Clients, NEW items \in SUBSET StoredItems, Busy(c),
           TakenBy(c, items)
    PROVE  PopsGrow(c)
<1>1. /\ taken \subseteq StoredItems /\ held \subseteq StoredItems
      /\ taken' = taken \cup items /\ held' = held \cup ReadByOthers(c, items)
  BY DEF StoreInv, StoreTypeOK, TakenBy
<1>2. ReadByOthers(c, items) \subseteq items /\ taken' \ taken \subseteq items
  BY <1>1 DEF ReadByOthers
<1>3. ReadByOthers(c, taken' \ taken) \subseteq ReadByOthers(c, items)
  BY <1>2 DEF ReadByOthers
<1>4. ASSUME ~raced \/ store.kind \notin {"sqlite", "dapr"}
      PROVE  held' = {}
  <2>1. held = {}
    BY <1>4, ReadersAre DEF OnePlace, PoppedOnce
  <2>2. \A d \in Clients \ {c} : doing[d].seen = <<>>
    BY <1>4, ReadersAre DEF NobodyElse
  <2>3. \A d \in Clients \ {c} : ToSet(doing[d].seen) = {}
    BY <2>2, EmptyHolds
  <2>4. QED
    BY <1>1, <2>1, <2>3 DEF ReadByOthers
<1>5. QED
  BY <1>1, <1>2, <1>3, <1>4 DEF PopsGrow

(* What becomes of an item that was popped.                                *)
PopGoes(c, item) ==
    \/ taken' = taken /\ twice' = twice /\ held' = held /\ wiped' = wiped \cup {item}
    \/ /\ TakenBy(c, {item}) /\ twice' = twice \cup (taken \cap {item})
       /\ wiped' = wiped

LEMMA ItemGoes ==
    ASSUME StoreInv, NEW c \in Clients, NEW item \in AnyPlace, Busy(c), PopGoes(c, item),
           item \in taken => item \in held, IsInjective(rows'),
           ToSet(rows') \subseteq AnyPlace \ {item},
           ToSet(rows') \cap taken \subseteq held,
           store.kind # "dapr" => ToSet(rows') \cap taken = {}
    PROVE  RowsInPlace(c) /\ PopsGrow(c)
<1>1. CASE UNCHANGED <<taken, twice, held>>
  BY <1>1, NothingTaken
<1>2. CASE TakenBy(c, {item}) /\ twice' = twice \cup (taken \cap {item})
  <2>1. PopsGrow(c)
    BY <1>2, PlacesAre, TakenGrow
  <2>2. taken' = taken \cup {item} /\ held \subseteq held' /\ twice \subseteq held
    BY <1>2, ReadersAre DEF TakenBy, OnePlace, PoppedOnce
  <2>3. twice' \subseteq held'
    BY <1>2, <2>2
  <2>4. ToSet(rows') \cap taken' = ToSet(rows') \cap taken
    BY <2>2
  <2>5. RowsInPlace(c)
    BY <2>2, <2>3, <2>4 DEF RowsInPlace, AnyPlace
  <2>6. QED
    BY <2>1, <2>5
<1>3. QED
  BY <1>1, <1>2 DEF PopGoes

(* A pop that was answered: the item goes to the caller, or the envelope   *)
(* was too old and the pop begins again.                                   *)
LEMMA PopReturnsIs ==
    ASSUME StoreInv, NEW c \in Clients, NEW item \in StoredItems,
           doing[c].op = "pop", PopReturns(c, item)
    PROVE  \E d \in Doings :
              /\ doing' = [doing EXCEPT ![c] = d]
              /\ d.added = doing[c].added /\ Quiet(d) /\ PopGoes(c, item)
<1>1. doing[c] \in Doings /\ Fits(doing[c]) /\ store.kind \in Kinds
  BY RecordIs DEF StoreInv, StoreTypeOK, Fits
<1>2. CASE store.sealed /\ item \in old
  <2> DEFINE d == [doing[c] EXCEPT !.at = First("pop"), !.seen = <<>>]
  <2>1. First("pop") \in {"pop", "select", "read"}
        /\ (First("pop") = "select" => store.kind = "sqlite")
        /\ (First("pop") = "read" => store.kind = "dapr")
    BY <1>1 DEF First, Kinds
  <2>2. d \in Doings /\ d.at = First("pop") /\ d.op = "pop" /\ d.left = <<>>
        /\ d.added = doing[c].added /\ d.seen = <<>>
    BY <1>1, <2>1, EmptyHolds DEF Doings, Steps, Fits
  <2>3. Quiet(d)
    BY <1>1, <2>1, <2>2, EmptyHolds DEF Quiet, Fits, Unstored, Kinds
  <2>4. doing' = [doing EXCEPT ![c] = d]
    BY <1>2 DEF PopReturns
  <2>5. QED
    BY <1>2, <2>2, <2>3, <2>4 DEF PopReturns, PopGoes
<1>3. CASE ~(store.sealed /\ item \in old)
  BY <1>3, StopsIs DEF PopReturns, PopGoes
<1>4. QED
  BY <1>2, <1>3

(* What add_items acknowledges is there.                                   *)
LEMMA AddReturnsIs ==
    ASSUME StoreInv, NEW c \in Clients, AddReturns(c), doing[c].op = "add",
           ~Rewritten => Reached \subseteq Reached' /\ Unstored(doing[c]) \subseteq Reached'
    PROVE  /\ \E d \in Doings : /\ doing' = [doing EXCEPT ![c] = d]
                                /\ d.added = doing[c].added /\ Quiet(d)
           /\ acked' \subseteq StoredItems
           /\ ~Rewritten => acked' \subseteq acked \cup Reached'
<1>1. acked' = acked \cup ToSet(doing[c].batch) /\ ToSet(doing[c].batch) \subseteq StoredItems
  BY RecordIs DEF AddReturns
<1>2. ~Rewritten => ToSet(doing[c].batch) \subseteq Reached \cup Unstored(doing[c])
  BY DEF StoreInv, LandInv, Lands
<1>3. QED
  BY <1>1, <1>2, StopsIs DEF AddReturns, StoreInv, StoreTypeOK

-----------------------------------------------------------------------------
(* The steps.  What a step does to the rows is what ItemLog allows.        *)

RowsStep ==
    \/ Rewritten
    \/ rows' = rows
    \/ rows' = <<>>
    \/ IsPrefix(rows, rows')
    \/ \E i \in 1..Len(rows) : rows' = RemoveAt(rows, i)

LEMMA RowsAre ==
    ASSUME StoreInv
    PROVE  /\ rows \in Seq(StoredItems) /\ parent \in BOOLEAN
           /\ acked \subseteq StoredItems /\ taken \subseteq StoredItems
           /\ twice \subseteq StoredItems /\ wiped \subseteq StoredItems
           /\ ToSet(rows) \subseteq StoredItems
           /\ OnePlace /\ \A c \in Clients : IsNew(c)
           /\ ~raced => \A c \in Clients : Sees(doing[c])
           /\ ToSet(rows) \subseteq AnyPlace
BY HoldsAt DEF AnyPlace, StoreInv, StoreTypeOK, OnceInv, AloneInv

LEMMA EmptyIsPrefix == ASSUME NEW S, NEW s \in Seq(S) PROVE IsPrefix(<<>>, s)
BY LenProperties DEF IsPrefix

(* The last row goes.                                                      *)
LEMMA FrontStep ==
    ASSUME NEW s \in Seq(StoredItems)
    PROVE  /\ Popped(s) \in Seq(StoredItems)
           /\ s = <<>> => Popped(s) = <<>>
           /\ s # <<>> => /\ Last(s) \in StoredItems
                          /\ ToSet(s) = ToSet(Popped(s)) \cup {Last(s)}
                          /\ Len(s) \in 1..Len(s) /\ Popped(s) = RemoveAt(s, Len(s))
           /\ IsInjective(s) => /\ IsInjective(Popped(s))
                                /\ s # <<>> => Last(s) \notin ToSet(Popped(s))
<1>1. CASE s = <<>>
  BY <1>1, EmptyHolds DEF Popped
<1>2. CASE s # <<>>
  <2>1. Len(s) \in 1..Len(s)
    BY <1>2, EmptySeq
  <2>2. QED
    BY <1>2, <2>1, FrontIs, FrontHolds DEF Popped
<1>3. QED
  BY <1>1, <1>2

LEMMA PushStep ==
    ASSUME StoreInv, NEW c \in Clients, Push(c)
    PROVE  StoreInv' /\ RowsStep
<1> DEFINE left == doing[c].left
<1>1. /\ doing[c].at = "push" /\ doing[c].op = "add" /\ Busy(c)
      /\ doing[c] \in Doings /\ left \in Seq(StoredItems)
      /\ ToSet(left) = Unstored(doing[c]) /\ store.kind # "none"
  BY RecordIs DEF Push, AtStep, Fits, Unstored
<1>2. /\ rows' \in Seq(StoredItems) /\ IsPrefix(rows, rows')
      /\ ToSet(rows') = ToSet(rows) \cup ToSet(left)
      /\ IsInjective(rows) /\ IsInjective(left) /\ ToSet(rows) \cap ToSet(left) = {}
             => IsInjective(rows')
  BY <1>1, RowsAre, ConcatHolds DEF Push
<1>3. Reached \subseteq Reached' /\ Unstored(doing[c]) \subseteq Reached'
  BY <1>1, <1>2 DEF Reached, Push
<1>4. RowsInPlace(c) /\ PopsGrow(c)
  <2>1. /\ OnePlace /\ IsInjective(left)
        /\ \A x \in ToSet(left) : x \notin AnyPlace
    BY <1>1, RowsAre DEF IsNew
  <2>2. UNCHANGED <<taken, twice, held>>
    BY DEF Push
  <2>3. IsInjective(rows') /\ ToSet(rows') \cap taken = ToSet(rows) \cap taken
    BY <1>2, <2>1 DEF OnePlace, AnyPlace
  <2>4. QED
    BY <1>1, <1>2, <2>1, <2>2, <2>3, RowsAre, NothingTaken DEF OnePlace, PoppedOnce
<1>5. RowsStep
  BY <1>2 DEF RowsStep
<1>6. CASE store.kind = "redis" /\ store.ttl
  <2>0. PICK d : d = [doing[c] EXCEPT !.at = "expire"]
    OBVIOUS
  <2>1. d \in Doings /\ d.at = "expire" /\ d.op = "add" /\ d.added = doing[c].added
        /\ d.batch = doing[c].batch /\ d.left = left /\ Unstored(d) = {}
        /\ d.seen = doing[c].seen
    BY <1>1, <2>0 DEF Doings, Steps, Unstored
  <2>2. Fits(d) /\ Sees(d)' /\ d.seen = <<>>
    BY <1>1, <2>1, RecordIs DEF Fits, Sees
  <2>3. SeenInPlace(c, d)
    BY <2>1, <2>2, RowsAre, EmptyHolds DEF IsNew, SeenInPlace
  <2>4. doing' = [doing EXCEPT ![c] = d] /\ acked' = acked
    BY <1>6, <2>0 DEF Push, Goto
  <2>5. StoreInv'
    BY <1>1, <1>2, <1>3, <1>4, <2>1, <2>2, <2>3, <2>4, RowsAre, ClientStep DEF Push
  <2>6. QED
    BY <1>5, <2>5
<1>7. CASE ~(store.kind = "redis" /\ store.ttl)
  BY <1>1, <1>2, <1>3, <1>4, <1>5, <1>7, RowsAre, AddReturnsIs, QuietStep DEF Push
<1>8. QED
  BY <1>6, <1>7

(* An add that ends: Expire, Touch.                                        *)
LEMMA AckStep ==
    ASSUME StoreInv, NEW c \in Clients, Expire(c) \/ Touch(c)
    PROVE  StoreInv' /\ RowsStep
<1>1. /\ doing[c].at \in {"expire", "touch"} /\ doing[c].op = "add" /\ Busy(c)
      /\ Unstored(doing[c]) = {}
      /\ AddReturns(c) /\ rows' = rows /\ parent' \in BOOLEAN
      /\ UNCHANGED <<store, old, begun, raced, taken, twice, held, wiped>>
  BY RecordIs, RowsAre DEF Expire, Touch, AtStep, Fits, Unstored
<1>2. Reached' = Reached
  BY <1>1 DEF Reached
<1>3. QED
  BY <1>1, <1>2, RowsAre, RowsStay, AddReturnsIs, QuietStep DEF RowsStep

LEMMA PopStep ==
    ASSUME StoreInv, NEW c \in Clients, Pop(c)
    PROVE  StoreInv' /\ RowsStep
<1>1. doing[c].at = "pop" /\ doing[c].op = "pop" /\ Busy(c)
  BY RecordIs DEF Pop, AtStep, Fits
<1>2. CASE rows = <<>>
  <2>1. /\ Stops(c) /\ rows' = rows /\ parent' = parent
        /\ UNCHANGED <<store, begun, old, acked, taken, twice, held, wiped, raced>>
    BY <1>2 DEF Pop
  <2>2. Reached' = Reached
    BY <2>1 DEF Reached
  <2>3. QED
    BY <1>1, <2>1, <2>2, RowsAre, RowsStay, StopsIs, QuietStep DEF RowsStep
<1>3. CASE rows # <<>>
  <2> DEFINE item == Last(rows)
  <2>1. /\ rows' \in Seq(StoredItems) /\ item \in StoredItems
        /\ ToSet(rows) = ToSet(rows') \cup {item}
        /\ Len(rows) \in 1..Len(rows) /\ rows' = RemoveAt(rows, Len(rows))
        /\ IsInjective(rows) => IsInjective(rows') /\ item \notin ToSet(rows')
    BY <1>3, RowsAre, FrontStep DEF Pop, Popped
  <2>2. /\ PopReturns(c, item) /\ parent' \in BOOLEAN
        /\ UNCHANGED <<store, begun, old, acked, raced>>
    BY <1>3, RowsAre DEF Pop
  <2> HIDE DEF item
  <2>3. PICK d \in Doings : /\ doing' = [doing EXCEPT ![c] = d]
                            /\ d.added = doing[c].added /\ Quiet(d)
    BY <1>1, <2>1, <2>2, PopReturnsIs
  <2>4. PopGoes(c, item)
    BY <1>1, <2>1, <2>2, PopReturnsIs
  <2>5. Reached \subseteq Reached' /\ wiped' \subseteq StoredItems
    BY <2>1, <2>4, RowsAre DEF Reached, PopGoes, TakenBy
  <2>6. RowsInPlace(c) /\ PopsGrow(c)
    BY <1>1, <2>1, <2>4, RowsAre, ItemGoes DEF OnePlace, PoppedOnce
  <2>7. RowsStep
    BY <2>1 DEF RowsStep
  <2>8. QED
    BY <1>1, <2>1, <2>2, <2>3, <2>4, <2>5, <2>6, <2>7, RowsAre, QuietStep
<1>4. QED
  BY <1>2, <1>3

(* Everything is removed: Clear and DeleteSession; DeleteMessages goes on. *)
LEMMA ClearStep ==
    ASSUME StoreInv, NEW c \in Clients, Clear(c) \/ DeleteSession(c) \/ DeleteMessages(c)
    PROVE  StoreInv' /\ RowsStep
<1>1. /\ doing[c].at \in {"clear", "session", "messages"} /\ Busy(c)
      /\ doing[c] \in Doings /\ Fits(doing[c])
      /\ rows' = <<>> /\ parent' \in BOOLEAN /\ wiped' = wiped \cup ToSet(rows)
      /\ UNCHANGED <<store, begun, old, acked, taken, twice, held, raced>>
  BY RecordIs, RowsAre DEF Clear, DeleteSession, DeleteMessages, AtStep
<1>2. Reached \subseteq Reached' /\ wiped' \subseteq StoredItems /\ RowsStep
  BY <1>1, RowsAre DEF Reached, RowsStep
<1>3. rows' \in Seq(StoredItems) /\ RowsInPlace(c) /\ PopsGrow(c)
  BY <1>1, EmptyHolds, RowsGone
<1>4. CASE Stops(c)
  BY <1>1, <1>2, <1>3, <1>4, RowsAre, StopsIs, QuietStep
<1>5. CASE DeleteMessages(c)
  <2>0. PICK d : d = [doing[c] EXCEPT !.at = "session"]
    OBVIOUS
  <2>1. /\ d \in Doings /\ d.at = "session" /\ d.op = doing[c].op
        /\ d.added = doing[c].added /\ d.batch = doing[c].batch /\ d.left = doing[c].left
        /\ Unstored(d) = {} /\ Unstored(doing[c]) = {} /\ d.seen = doing[c].seen
    BY <1>1, <1>5, <2>0 DEF Doings, Steps, Unstored, DeleteMessages, AtStep
  <2>2. Fits(d) /\ Sees(d)' /\ d.seen = <<>>
    BY <1>1, <2>1 DEF Fits, Sees
  <2>3. SeenInPlace(c, d)
    BY <2>1, <2>2, RowsAre, EmptyHolds DEF IsNew, SeenInPlace
  <2>4. doing' = [doing EXCEPT ![c] = d]
    BY <1>5, <2>0 DEF DeleteMessages, Goto
  <2>5. QED
    BY <1>1, <1>2, <1>3, <2>1, <2>2, <2>3, <2>4, RowsAre, ClientStep
<1>6. QED
  BY <1>4, <1>5 DEF Clear, DeleteSession

LEMMA InsertParentStep ==
    ASSUME StoreInv, NEW c \in Clients, InsertParent(c)
    PROVE  StoreInv' /\ RowsStep
<1>0. PICK d : d = [doing[c] EXCEPT !.at = "insert"]
  OBVIOUS
<1>1. doing[c].at = "parent" /\ doing[c].op = "add" /\ Busy(c) /\ doing[c] \in Doings
      /\ Fits(doing[c])
  BY RecordIs DEF InsertParent, AtStep, Fits
<1>2. /\ d \in Doings /\ d.at = "insert" /\ d.op = "add" /\ d.added = doing[c].added
      /\ d.batch = doing[c].batch /\ d.left = doing[c].left
      /\ Unstored(d) = Unstored(doing[c]) /\ d.seen = <<>>
  BY <1>0, <1>1 DEF Doings, Steps, Unstored, Fits
<1>3. UNCHANGED <<store, begun, rows, old, storeHistory>> /\ parent' = TRUE
      /\ doing' = [doing EXCEPT ![c] = d]
  BY <1>0 DEF InsertParent, Goto
<1>4. Reached' = Reached /\ RowsStep
  BY <1>3 DEF Reached, RowsStep, storeHistory
<1>5. Fits(d) /\ Sees(d)'
  BY <1>1, <1>2 DEF Fits, Sees
<1>6. SeenInPlace(c, d) /\ RowsInPlace(c) /\ PopsGrow(c)
  <2>1. IsNew(c)
    BY RowsAre
  <2>2. SeenInPlace(c, d)
    BY <1>2, <1>3, <2>1, EmptyHolds DEF IsNew, AnyPlace, SeenInPlace, storeHistory
  <2>3. QED
    BY <1>3, <2>2, RowsStay DEF storeHistory
<1>7. QED
  BY <1>1, <1>2, <1>3, <1>4, <1>5, <1>6, RowsAre, ClientStep DEF storeHistory

LEMMA InsertMessageStep ==
    ASSUME StoreInv, NEW c \in Clients, InsertMessage(c)
    PROVE  StoreInv' /\ RowsStep
<1> DEFINE left == doing[c].left
<1>0. PICK d : d = [doing[c] EXCEPT !.left = Tail(left),
                                   !.at = IF Len(left) = 1 THEN "touch" ELSE @]
  OBVIOUS
<1>1. /\ doing[c].at = "insert" /\ doing[c].op = "add" /\ Busy(c) /\ doing[c] \in Doings
      /\ Fits(doing[c]) /\ left \in Seq(StoredItems) /\ left # <<>>
      /\ Unstored(doing[c]) = ToSet(left)
  BY RecordIs DEF InsertMessage, AtStep, Fits, Unstored
<1>2. /\ Head(left) \in StoredItems /\ Tail(left) \in Seq(StoredItems)
      /\ Len(left) = 1 <=> Tail(left) = <<>>
      /\ ToSet(left) = ToSet(Tail(left)) \cup {Head(left)}
      /\ IsInjective(left) => /\ IsInjective(Tail(left))
                              /\ Head(left) \notin ToSet(Tail(left))
  BY <1>1, TailHolds
<1>3. /\ rows' \in Seq(StoredItems) /\ IsPrefix(rows, rows')
      /\ ToSet(rows') = ToSet(rows) \cup {Head(left)}
      /\ IsInjective(rows) /\ Head(left) \notin ToSet(rows) => IsInjective(rows')
  BY <1>2, RowsAre, AppendHolds DEF InsertMessage
<1>4. /\ UNCHANGED <<store, begun, parent, old, storeHistory>>
      /\ doing' = [doing EXCEPT ![c] = d]
  <2>1. doing' = [doing EXCEPT ![c].left = Tail(@),
                               ![c].at = IF Len(left) = 1 THEN "touch" ELSE @]
    BY DEF InsertMessage
  <2>2. doing \in [Clients -> Doings]
    BY DEF StoreInv, StoreTypeOK
  <2>3. QED
    BY <1>0, <1>1, <2>1, <2>2 DEF InsertMessage, Doings
<1>5. /\ d \in Doings /\ d.left = Tail(left) /\ d.op = "add"
      /\ d.at = IF Tail(left) = <<>> THEN "touch" ELSE "insert"
      /\ d.added = doing[c].added /\ d.batch = doing[c].batch /\ d.seen = <<>>
  BY <1>0, <1>1, <1>2 DEF Doings, Steps, Fits
<1>6. Unstored(d) = ToSet(Tail(left))
  BY <1>5, EmptyHolds DEF Unstored
<1>7. Fits(d) /\ Sees(d)'
  BY <1>1, <1>5 DEF Fits, Sees
<1>8. /\ Reached \subseteq Reached' /\ RowsStep
      /\ Unstored(doing[c]) \subseteq Unstored(d) \cup Reached'
  BY <1>1, <1>2, <1>3, <1>4, <1>6 DEF Reached, RowsStep, storeHistory
<1>9. SeenInPlace(c, d) /\ RowsInPlace(c) /\ PopsGrow(c)
  <2>1. /\ OnePlace /\ IsInjective(left)
        /\ \A x \in ToSet(left) : x \notin AnyPlace
    BY <1>1, RowsAre DEF IsNew
  <2>2. UNCHANGED <<taken, twice, held>>
    BY <1>4 DEF storeHistory
  <2>3. IsInjective(rows') /\ ToSet(rows') \cap taken = ToSet(rows) \cap taken
    BY <1>2, <1>3, <2>1 DEF OnePlace, AnyPlace
  <2>4. RowsInPlace(c) /\ PopsGrow(c)
    BY <1>1, <1>2, <1>3, <2>1, <2>2, <2>3, RowsAre, NothingTaken DEF OnePlace, PoppedOnce
  <2>5. Unstored(d) \cap (ToSet(rows') \cup taken') = {}
    BY <1>2, <1>3, <1>6, <2>1, <2>2 DEF AnyPlace
  <2>6. SeenInPlace(c, d)
    BY <1>1, <1>2, <1>5, <1>6, <2>1, <2>5, EmptyHolds DEF SeenInPlace
  <2>7. QED
    BY <2>4, <2>6
<1>10. QED
  BY <1>1, <1>3, <1>4, <1>5, <1>7, <1>8, <1>9, RowsAre, ClientStep DEF storeHistory

LEMMA SelectStep ==
    ASSUME StoreInv, NEW c \in Clients, SelectNewest(c)
    PROVE  StoreInv' /\ RowsStep
<1>1. /\ doing[c].at = "select" /\ doing[c].op = "pop" /\ Busy(c) /\ doing[c] \in Doings
      /\ Fits(doing[c]) /\ UNCHANGED <<store, begun, rows, parent, old, storeHistory>>
  BY RecordIs DEF SelectNewest, AtStep, Fits
<1>2. Reached' = Reached /\ RowsStep /\ RowsInPlace(c) /\ PopsGrow(c)
  BY <1>1, RowsStay DEF Reached, RowsStep, storeHistory
<1>3. CASE rows = <<>>
  BY <1>1, <1>2, <1>3, RowsAre, StopsIs, QuietStep DEF SelectNewest, storeHistory
<1>4. CASE rows # <<>>
  <2>0. PICK d : d = [doing[c] EXCEPT !.at = "delete", !.seen = <<Last(rows)>>]
    OBVIOUS
  <2>1. <<Last(rows)>> \in Seq(StoredItems)
    <3>1. \A x \in StoredItems : <<x>> \in Seq(StoredItems)
      OBVIOUS
    <3>2. QED
      BY <1>4, <3>1, RowsAre, FrontStep
  <2>2. /\ d \in Doings /\ d.at = "delete" /\ d.op = "pop" /\ d.seen = <<Last(rows)>>
        /\ d.added = doing[c].added /\ d.left = doing[c].left /\ Unstored(d) = {}
    BY <1>1, <2>0, <2>1 DEF Doings, Steps, Unstored
  <2>3. doing' = [doing EXCEPT ![c] = d]
    <3>1. doing' = [doing EXCEPT ![c].at = "delete", ![c].seen = <<Last(rows)>>]
      BY <1>4 DEF SelectNewest
    <3>2. doing \in [Clients -> Doings]
      BY DEF StoreInv, StoreTypeOK
    <3>3. QED
      BY <1>1, <2>0, <3>1, <3>2 DEF Doings
  <2>4. Fits(d) /\ Sees(d)' /\ IsInjective(d.left)
    BY <1>1, <1>4, <2>2, EmptyHolds DEF Fits, Sees
  <2>5. SeenInPlace(c, d)
    <3>0. \A x : IsInjective(<<x>>) /\ ToSet(<<x>>) = {x}
      BY DEF IsInjective, ToSet
    <3>1. /\ IsInjective(d.seen) /\ ToSet(d.seen) = {Last(rows)}
          /\ Last(rows) \in ToSet(rows)
      BY <1>4, <2>2, <3>0, RowsAre, FrontStep
    <3>2. PoppedOnce
      BY RowsAre DEF OnePlace
    <3>3. QED
      BY <1>1, <2>2, <2>4, <3>1, <3>2, RowsAre DEF SeenInPlace, PoppedOnce, storeHistory
  <2>6. QED
    BY <1>1, <1>2, <2>2, <2>3, <2>4, <2>5, RowsAre, ClientStep DEF storeHistory
<1>5. QED
  BY <1>3, <1>4

LEMMA DeleteStep ==
    ASSUME StoreInv, NEW c \in Clients, DeleteSelected(c)
    PROVE  StoreInv' /\ RowsStep
<1> DEFINE item == doing[c].seen[1]
<1>1. /\ doing[c].at = "delete" /\ doing[c].op = "pop" /\ Busy(c) /\ doing[c] \in Doings
      /\ store.kind = "sqlite" /\ item \in StoredItems
  BY RecordIs, EmptySeq, ElementOfSeq DEF DeleteSelected, AtStep, Fits
<1>2. /\ PopReturns(c, item) /\ UNCHANGED <<store, begun, parent, old, acked, raced>>
      /\ \/ \E i \in 1..Len(rows) : rows[i] = item /\ rows' = RemoveAt(rows, i)
         \/ item \notin ToSet(rows) /\ rows' = rows
  BY RowsAre, LenProperties DEF DeleteSelected
<1>3. item \in SeenByAny /\ item \in AnyPlace /\ (item \in taken => item \in held)
  <2>1. doing[c].seen \in Seq(StoredItems) /\ doing[c].seen # <<>>
    BY <1>1, RecordIs DEF Fits
  <2>2. item \in ToSet(doing[c].seen)
    BY <2>1, HoldsAt, EmptySeq
  <2>3. QED
    BY <2>2, RowsAre DEF IsNew, SeenByAny, AnyPlace
<1> HIDE DEF item
<1>4. PICK d \in Doings : /\ doing' = [doing EXCEPT ![c] = d]
                          /\ d.added = doing[c].added /\ Quiet(d)
  BY <1>1, <1>2, PopReturnsIs
<1>5. PopGoes(c, item)
  BY <1>1, <1>2, PopReturnsIs
<1>6. /\ rows' \in Seq(StoredItems) /\ ToSet(rows) \subseteq ToSet(rows') \cup {item}
      /\ ToSet(rows') \subseteq ToSet(rows)
      /\ IsInjective(rows) => IsInjective(rows') /\ item \notin ToSet(rows')
      /\ RowsStep
  BY <1>2, RowsAre, RemoveHolds DEF RowsStep
<1>7. Reached \subseteq Reached' /\ wiped' \subseteq StoredItems
  BY <1>1, <1>5, <1>6, RowsAre DEF Reached, PopGoes, TakenBy
<1>8. RowsInPlace(c) /\ PopsGrow(c)
  BY <1>1, <1>3, <1>5, <1>6, RowsAre, ItemGoes DEF OnePlace, PoppedOnce
<1>9. QED
  BY <1>1, <1>2, <1>4, <1>6, <1>7, <1>8, RowsAre, QuietStep

LEMMA ReadStep ==
    ASSUME StoreInv, NEW c \in Clients, ReadAll(c)
    PROVE  StoreInv' /\ RowsStep
<1>0. PICK d : d = [doing[c] EXCEPT !.at = "write", !.seen = rows]
  OBVIOUS
<1>1. /\ doing[c].at = "read" /\ doing[c].op \in {"add", "pop"} /\ store.kind = "dapr"
      /\ Busy(c) /\ doing[c] \in Doings /\ Fits(doing[c])
      /\ UNCHANGED <<store, begun, rows, parent, old, storeHistory>>
  BY RecordIs DEF ReadAll, AtStep, Fits
<1>2. /\ d \in Doings /\ d.at = "write" /\ d.op = doing[c].op /\ d.seen = rows
      /\ d.added = doing[c].added /\ d.left = doing[c].left /\ d.batch = doing[c].batch
      /\ Unstored(d) = Unstored(doing[c])
  BY <1>0, <1>1, RowsAre DEF Doings, Steps, Unstored
<1>3. doing' = [doing EXCEPT ![c] = d]
  <2>1. doing' = [doing EXCEPT ![c].at = "write", ![c].seen = rows]
    BY DEF ReadAll
  <2>2. doing \in [Clients -> Doings]
    BY DEF StoreInv, StoreTypeOK
  <2>3. QED
    BY <1>0, <1>1, <2>1, <2>2 DEF Doings
<1>4. Fits(d) /\ RowsStep /\ Reached' = Reached
  BY <1>1, <1>2 DEF Fits, RowsStep, Reached, storeHistory
<1>5. RowsInPlace(c) /\ PopsGrow(c) /\ SeenInPlace(c, d)
  <2>1. OnePlace /\ IsNew(c)
    BY RowsAre
  <2>2. UNCHANGED <<rows, taken, twice, held>>
    BY <1>1 DEF storeHistory
  <2>3. SeenInPlace(c, d)
    BY <1>1, <1>2, <2>1, <2>2 DEF SeenInPlace, OnePlace, PoppedOnce, IsNew, AnyPlace
  <2>4. QED
    BY <2>2, <2>3, RowsStay
<1>6. Sees(d)'
  BY <1>1, <1>2 DEF Sees
<1>7. QED
  BY <1>1, <1>2, <1>3, <1>4, <1>5, <1>6, RowsAre, ClientStep DEF storeHistory

(* DaprSession writes back what it read.                                   *)
LEMMA WriteStep ==
    ASSUME StoreInv, NEW c \in Clients, WriteAll(c)
    PROVE  StoreInv' /\ RowsStep
<1> DEFINE left == doing[c].left
           copy == doing[c].seen
<1>1. /\ doing[c].at = "write" /\ doing[c].op \in {"add", "pop"} /\ store.kind = "dapr"
      /\ Busy(c) /\ doing[c] \in Doings /\ left \in Seq(StoredItems)
      /\ copy \in Seq(StoredItems) /\ ToSet(copy) \subseteq StoredItems
      /\ Unstored(doing[c]) = ToSet(left)
      /\ UNCHANGED <<store, begun, parent, old, raced>>
      /\ doing[c].op = "pop" => left = <<>>
  BY RecordIs DEF WriteAll, AtStep, Fits, Unstored
<1>2. (Rewritten <=> raced) /\ (~raced => rows = copy \/ rows = <<>>)
  <2>1. ~raced => Sees(doing[c])
    BY RowsAre
  <2>2. QED
    BY <1>1, <2>1 DEF Rewritten, Sees
<1>3. /\ IsInjective(copy) /\ IsInjective(left) /\ ToSet(copy) \cap ToSet(left) = {}
      /\ ToSet(copy) \cap taken \subseteq held /\ ToSet(left) \cap taken = {}
      /\ ToSet(copy) \subseteq AnyPlace
  <2>1. IsNew(c) /\ ToSet(copy) \subseteq AnyPlace
    BY RowsAre DEF AnyPlace, SeenByAny
  <2>2. QED
    BY <1>1, <2>1 DEF IsNew, AnyPlace
<1>4. CASE doing[c].op = "add"
  <2>1. /\ rows' \in Seq(StoredItems) /\ IsPrefix(copy, rows') /\ IsPrefix(<<>>, rows')
        /\ ToSet(rows') = ToSet(copy) \cup ToSet(left)
        /\ IsInjective(copy) /\ IsInjective(left) /\ ToSet(copy) \cap ToSet(left) = {}
               => IsInjective(rows')
    BY <1>1, <1>4, ConcatHolds, EmptyIsPrefix DEF WriteAll, Written
  <2>2. AddReturns(c) /\ UNCHANGED <<taken, twice, held, wiped>>
    BY <1>4 DEF WriteAll
  <2>3. ~Rewritten => Reached \subseteq Reached' /\ Unstored(doing[c]) \subseteq Reached'
    BY <1>1, <1>2, <1>3, <2>1, <2>2, EmptyHolds DEF Reached
  <2>4. RowsInPlace(c) /\ PopsGrow(c)
    BY <1>1, <1>3, <2>1, <2>2, NothingTaken
  <2>5. RowsStep
    BY <1>2, <1>3, <2>1 DEF RowsStep
  <2>6. PICK d \in Doings : /\ doing' = [doing EXCEPT ![c] = d]
                            /\ d.added = doing[c].added /\ Quiet(d)
    BY <1>4, <2>2, <2>3, AddReturnsIs
  <2>7. acked' \subseteq StoredItems /\ (~Rewritten => acked' \subseteq acked \cup Reached')
    BY <1>4, <2>2, <2>3, AddReturnsIs
  <2>8. QED
    BY <1>1, <2>1, <2>2, <2>3, <2>4, <2>5, <2>6, <2>7, RowsAre, QuietStep
<1>5. CASE doing[c].op = "pop" /\ copy = <<>>
  <2>1. /\ Stops(c) /\ UNCHANGED <<taken, twice, held, wiped, acked>> /\ rows' = <<>>
    BY <1>5 DEF WriteAll, Written, Popped
  <2>2. /\ ~Rewritten => Reached \subseteq Reached' /\ acked' \subseteq acked \cup Reached'
        /\ RowsStep /\ rows' \in Seq(StoredItems) /\ RowsInPlace(c) /\ PopsGrow(c)
    BY <1>2, <1>5, <2>1, EmptyHolds, RowsGone DEF Reached, RowsStep
  <2>3. QED
    BY <1>1, <2>1, <2>2, RowsAre, StopsIs, QuietStep
<1>6. CASE doing[c].op = "pop" /\ copy # <<>>
  <2>0. PICK item : item = Last(copy)
    OBVIOUS
  <2>1. /\ rows' \in Seq(StoredItems) /\ item \in StoredItems
        /\ ToSet(copy) = ToSet(rows') \cup {item}
        /\ rows' = RemoveAt(copy, Len(copy)) /\ Len(copy) \in 1..Len(copy)
        /\ IsInjective(copy) => IsInjective(rows') /\ item \notin ToSet(rows')
        /\ IsPrefix(<<>>, rows')
    BY <1>1, <1>6, <2>0, FrontStep, EmptyIsPrefix DEF WriteAll, Written
  <2>2. PopReturns(c, item) /\ acked' = acked
    BY <1>6, <2>0 DEF WriteAll
  <2>3. PICK d \in Doings : /\ doing' = [doing EXCEPT ![c] = d]
                            /\ d.added = doing[c].added /\ Quiet(d)
    BY <1>6, <2>1, <2>2, PopReturnsIs
  <2>4. PopGoes(c, item)
    BY <1>6, <2>1, <2>2, PopReturnsIs
  <2>5. /\ ~Rewritten => Reached \subseteq Reached'
        /\ wiped' \subseteq StoredItems
    BY <1>2, <2>1, <2>4, EmptyHolds, RowsAre DEF Reached, PopGoes, TakenBy
  <2>6. RowsInPlace(c) /\ PopsGrow(c)
    BY <1>1, <1>3, <2>1, <2>4, ItemGoes
  <2>7. RowsStep
    BY <1>2, <1>3, <2>1 DEF RowsStep
  <2>8. QED
    BY <1>1, <2>1, <2>2, <2>3, <2>4, <2>5, <2>6, <2>7, RowsAre, QuietStep
<1>7. QED
  BY <1>1, <1>4, <1>5, <1>6

LEMMA AbandonStep ==
    ASSUME StoreInv, NEW c \in Clients, Abandon(c)
    PROVE  StoreInv' /\ RowsStep
<1>1. /\ Busy(c) /\ Stops(c)
      /\ UNCHANGED <<store, begun, rows, parent, old, acked, taken, twice, held, wiped, raced>>
  BY DEF Abandon, storeHistory
<1>2. Reached' = Reached
  BY <1>1 DEF Reached
<1>3. QED
  BY <1>1, <1>2, RowsAre, RowsStay, StopsIs, QuietStep DEF RowsStep

LEMMA AnswerLostStep ==
    ASSUME StoreInv, NEW c \in Clients, AnswerLost(c)
    PROVE  StoreInv' /\ RowsStep
<1> DEFINE left == doing[c].left
           copy == doing[c].seen
<1>1. /\ doing[c].at \in {"push", "pop", "write"} /\ Busy(c) /\ doing[c] \in Doings
      /\ Fits(doing[c]) /\ left \in Seq(StoredItems) /\ copy \in Seq(StoredItems)
      /\ doing[c].at = "push" => doing[c].op = "add"
      /\ doing[c].at = "pop" => doing[c].op = "pop"
      /\ doing[c].at = "write" => store.kind = "dapr" /\ doing[c].op \in {"add", "pop"}
      /\ doing[c].at # "pop" => Unstored(doing[c]) = ToSet(left)
  BY RecordIs DEF AnswerLost, AtStep, Fits, Unstored
<1>2. /\ Stops(c) /\ UNCHANGED <<store, begun, old, acked, twice, wiped, raced>>
      /\ parent' \in BOOLEAN
      /\ TakenBy(c, IF doing[c].op = "pop" THEN ToSet(rows) \ ToSet(rows') ELSE {})
  BY RowsAre DEF AnswerLost
<1>3. /\ OnePlace /\ IsInjective(copy) /\ IsInjective(left)
      /\ ToSet(copy) \subseteq AnyPlace /\ ToSet(copy) \cap taken \subseteq held
      /\ \A x \in Unstored(doing[c]) : x \notin AnyPlace
      /\ ~raced /\ doing[c].at = "write" => rows = copy \/ rows = <<>>
      /\ doing[c].at = "write" => (Rewritten <=> raced)
  <2>1. /\ OnePlace /\ IsNew(c) /\ (~raced => Sees(doing[c]))
        /\ ToSet(copy) \subseteq AnyPlace
    BY RowsAre DEF AnyPlace, SeenByAny
  <2>2. QED
    BY <1>1, <2>1 DEF IsNew, Sees, Rewritten
<1>4. /\ rows' \in Seq(StoredItems) /\ RowsStep /\ IsInjective(rows')
      /\ ToSet(rows') \subseteq AnyPlace \cup Unstored(doing[c])
      /\ ToSet(rows') \cap taken \subseteq held
      /\ store.kind # "dapr" => ToSet(rows') \cap taken = {}
      /\ ~Rewritten => ToSet(rows) \subseteq ToSet(rows') \cup taken'
  <2>1. CASE AtStep(c, "push") /\ rows' = rows \o left
    <3>1. Unstored(doing[c]) = ToSet(left)
      BY <1>1, <2>1 DEF AtStep
    <3>2. ToSet(rows) \cap ToSet(left) = {} /\ ToSet(left) \cap taken = {}
      BY <1>3, <3>1 DEF AnyPlace
    <3>3. /\ rows' \in Seq(StoredItems) /\ IsPrefix(rows, rows')
          /\ ToSet(rows') = ToSet(rows) \cup ToSet(left) /\ IsInjective(rows')
      BY <1>1, <1>3, <2>1, <3>2, RowsAre, ConcatHolds DEF OnePlace
    <3>4. QED
      BY <1>3, <3>1, <3>2, <3>3, RowsAre DEF RowsStep, OnePlace, PoppedOnce
  <2>2. CASE AtStep(c, "pop") /\ rows' = Popped(rows)
    <3>1. /\ rows' \in Seq(StoredItems)
          /\ ToSet(rows') \subseteq ToSet(rows)
          /\ rows = <<>> => rows' = rows
          /\ rows # <<>> => Len(rows) \in 1..Len(rows) /\ rows' = RemoveAt(rows, Len(rows))
          /\ IsInjective(rows')
      BY <1>3, <2>2, RowsAre, FrontStep DEF OnePlace
    <3>2. taken' = taken \cup (ToSet(rows) \ ToSet(rows'))
      BY <1>1, <1>2, <2>2 DEF AtStep, TakenBy
    <3>3. QED
      BY <1>3, <3>1, <3>2, RowsAre DEF RowsStep, OnePlace, PoppedOnce
  <2>3. CASE AtStep(c, "write") /\ rows' = Written(c) /\ doing[c].op = "add"
    <3>1. Unstored(doing[c]) = ToSet(left) /\ doing[c].at = "write" /\ store.kind = "dapr"
      BY <1>1, <2>3 DEF AtStep
    <3>2. ToSet(copy) \cap ToSet(left) = {} /\ ToSet(left) \cap taken = {}
      BY <1>3, <3>1 DEF AnyPlace
    <3>3. /\ rows' \in Seq(StoredItems) /\ IsPrefix(copy, rows') /\ IsPrefix(<<>>, rows')
          /\ ToSet(rows') = ToSet(copy) \cup ToSet(left) /\ IsInjective(rows')
      BY <1>1, <1>3, <2>3, <3>2, ConcatHolds, EmptyIsPrefix DEF Written
    <3>4. QED
      BY <1>3, <3>1, <3>2, <3>3, EmptyHolds DEF RowsStep
  <2>4. CASE AtStep(c, "write") /\ rows' = Written(c) /\ doing[c].op = "pop"
    <3>1. /\ rows' \in Seq(StoredItems) /\ IsPrefix(<<>>, rows')
          /\ ToSet(rows') \subseteq ToSet(copy)
          /\ copy = <<>> => rows' = <<>>
          /\ copy # <<>> => Len(copy) \in 1..Len(copy) /\ rows' = RemoveAt(copy, Len(copy))
          /\ IsInjective(rows')
      BY <1>1, <1>3, <2>4, FrontStep, EmptyIsPrefix DEF Written
    <3>2. /\ taken' = taken \cup (ToSet(rows) \ ToSet(rows')) /\ doing[c].at = "write"
          /\ store.kind = "dapr"
      BY <1>1, <1>2, <2>4 DEF AtStep, TakenBy
    <3>3. QED
      BY <1>3, <3>1, <3>2, EmptyHolds DEF RowsStep
  <2>5. QED
    BY <1>1, <2>1, <2>2, <2>3, <2>4 DEF AnswerLost, AtStep
<1>5. PICK items : items = IF doing[c].op = "pop" THEN ToSet(rows) \ ToSet(rows') ELSE {}
  OBVIOUS
<1>6. /\ TakenBy(c, items) /\ taken' = taken \cup items /\ held \subseteq held'
      /\ items \in SUBSET StoredItems /\ items \cap ToSet(rows') = {}
      /\ items \subseteq AnyPlace /\ twice \subseteq held
  BY <1>2, <1>3, <1>5, RowsAre DEF TakenBy, OnePlace, PoppedOnce
<1>7. ~Rewritten => Reached \subseteq Reached'
  BY <1>2, <1>4, <1>6 DEF Reached
<1>8. PopsGrow(c)
  BY <1>1, <1>6, TakenGrow
<1>9. RowsInPlace(c)
  <2>1. ToSet(rows') \cap taken' = ToSet(rows') \cap taken
    BY <1>6
  <2>2. QED
    BY <1>2, <1>4, <1>6, <2>1 DEF RowsInPlace, AnyPlace
<1>10. PICK d \in Doings : /\ doing' = [doing EXCEPT ![c] = d]
                           /\ d.added = doing[c].added /\ Quiet(d)
  BY <1>2, StopsIs
<1>11. QED
  BY <1>1, <1>2, <1>4, <1>7, <1>8, <1>9, <1>10, RowsAre, QuietStep

-----------------------------------------------------------------------------
(* The steps that are nobody's operation, and the beginning of one.        *)

LEMMA BeginStep ==
    ASSUME StoreInv, NEW c \in Clients, NEW op \in {"add", "pop", "clear"},
           NEW batch \in Seq(StoredItems), Begin(c, op, batch),
           op = "add" => batch # <<>>, op # "add" => batch = <<>>,
           IsInjective(batch), doing[c].added + Len(batch) \in 0..MaxAdds,
           \A x \in ToSet(batch) :
               x.by = c /\ x.n \in (doing[c].added + 1)..(doing[c].added + Len(batch))
    PROVE  StoreInv' /\ RowsStep
<1>1. /\ doing \in [Clients -> Doings] /\ doing[c] \in Doings
      /\ doing[c].added \in Nat /\ Len(batch) \in Nat /\ store.kind \in Kinds
  BY LenProperties DEF Begin, StoreInv, StoreTypeOK, Doings
<1>2. PICK d : d = [doing[c] EXCEPT !.op = op, !.at = First(op), !.batch = batch,
                                    !.left = batch,
                                    !.added = doing[c].added + Len(batch)]
  OBVIOUS
<1>3. /\ First(op) \in {"push", "parent", "read", "pop", "select", "clear", "messages"}
      /\ First(op) \in {"push", "parent"} => op = "add"
      /\ First(op) \in {"pop", "select"} => op = "pop"
      /\ First(op) = "read" => op \in {"add", "pop"} /\ store.kind = "dapr"
      /\ First(op) = "select" => store.kind = "sqlite"
      /\ op = "add" => First(op) \in {"push", "parent", "read"}
  BY <1>1 DEF First, Kinds
<1>4. /\ d \in Doings /\ d.op = op /\ d.at = First(op) /\ d.batch = batch /\ d.left = batch
      /\ d.added = doing[c].added + Len(batch) /\ d.seen = doing[c].seen
  BY <1>1, <1>2, <1>3 DEF Doings, Steps
<1>5. /\ doing' = [doing EXCEPT ![c] = d] /\ begun' \in 0..MaxOps
      /\ raced' \in BOOLEAN /\ (raced => raced')
      /\ ~raced' => \A e \in Clients : ~Busy(e)
      /\ UNCHANGED <<store, rows, parent, old, acked, taken, twice, held, wiped>>
      /\ ~Busy(c)
  <2>1. doing' = [doing EXCEPT ![c] = d]
    BY <1>2 DEF Begin
  <2>2. begun' \in 0..MaxOps
    BY StoreBoundsAssumption DEF Begin, StoreInv, StoreTypeOK
  <2>3. raced' \in BOOLEAN /\ (raced => raced') /\ (~raced' => \A e \in Clients : ~Busy(e))
    <3>1. raced \in BOOLEAN /\ raced' = (raced \/ \E e \in Clients : Busy(e))
      BY DEF Begin, StoreInv, StoreTypeOK
    <3>2. QED
      BY <3>1
  <2>4. QED
    BY <2>1, <2>2, <2>3 DEF Begin
<1>6. /\ doing'[c] = d /\ \A e \in Clients \ {c} : doing'[e] = doing[e]
      /\ \A e \in Clients : doing[e].added <= doing'[e].added
                            /\ doing[e].added \in Nat /\ doing'[e].added \in Nat
  <2>1. \A e \in Clients : doing[e].added \in Nat
    BY <1>1 DEF Doings
  <2>2. QED
    BY <1>1, <1>4, <1>5, <2>1
<1>7. StoreTypeOK'
  BY <1>1, <1>4, <1>5 DEF StoreInv, StoreTypeOK
<1>8. FitInv'
  <2>0. doing[c].seen = <<>>
    BY <1>5 DEF StoreInv, FitInv, Fits, Busy
  <2>1. Fits(d)
    BY <1>1, <1>3, <1>4, <2>0 DEF Fits, Kinds
  <2>2. QED
    BY <1>5, <1>6, <2>1 DEF StoreInv, FitInv, Fits
<1>9. Reached' = Reached /\ (Rewritten => Rewritten')
  BY <1>5 DEF Reached, Rewritten
<1>10. LandInv'
  <2>1. Lands(d)
    BY <1>3, <1>4 DEF Lands, Unstored
  <2>2. QED
    BY <1>5, <1>6, <1>9, <2>1 DEF StoreInv, LandInv, Lands, Unstored, AddedIsKept
<1>11. AloneInv'
  <2> SUFFICES ASSUME ~raced'
               PROVE  NobodyElse' /\ held' = {} /\ \A e \in Clients : Sees(doing[e])'
    BY DEF AloneInv
  <2>0. held' = {}
    BY <1>5 DEF StoreInv, AloneInv
  <2>1. \A e \in Clients : ~Busy(e) /\ doing[e].at = "none"
    BY <1>5 DEF StoreInv, FitInv, Fits, Busy
  <2>2. \A e \in Clients \ {c} : ~Busy(e)'
    BY <1>6, <2>1 DEF Busy
  <2>3. doing'[c].at \notin {"delete", "write"}
    BY <1>3, <1>4, <1>6
  <2>4. QED
    BY <1>6, <2>0, <2>1, <2>2, <2>3 DEF NobodyElse, Sees
<1>12. OnceInv'
  <2>1. OnePlace /\ \A e \in Clients : IsNew(e)
    BY RowsAre
  <2>2. \A x \in AnyPlace : x.by \in Clients /\ x.n \in Nat
    BY PlacesAre DEF StoredItems
  <2>3. AnyPlace' = AnyPlace
    <3>1. \A e \in Clients : doing'[e].seen = doing[e].seen
      BY <1>4, <1>6
    <3>2. QED
      BY <1>5, <3>1 DEF AnyPlace, SeenByAny
  <2>4. OnePlace'
    <3>1. \A x \in AnyPlace : x.n <= doing'[x.by].added
      BY <1>6, <2>1, <2>2 DEF OnePlace
    <3>2. IsInjective(rows') /\ PoppedOnce'
      BY <1>5, <2>1 DEF OnePlace, PoppedOnce
    <3>3. QED
      BY <2>3, <3>1, <3>2 DEF OnePlace
  <2>5. IsNew(c)'
    <3>1. \A x \in ToSet(batch) : x \notin AnyPlace
      BY <1>1, <2>1, <2>2 DEF OnePlace
    <3>2. \A x \in ToSet(batch) : x.n <= doing'[c].added
      BY <1>1, <1>4, <1>6
    <3>3. Unstored(doing[c])' \subseteq ToSet(batch)
      BY <1>4, <1>6 DEF Unstored
    <3>4. IsInjective(doing'[c].seen) /\ ToSet(doing'[c].seen) \cap taken' \subseteq held'
      BY <1>4, <1>5, <1>6, <2>1 DEF IsNew
    <3>5. QED
      BY <1>4, <1>6, <2>3, <3>1, <3>2, <3>3, <3>4 DEF IsNew
  <2>6. ASSUME NEW e \in Clients \ {c} PROVE IsNew(e)'
    <3>1. doing'[e] = doing[e] /\ IsNew(e)
      BY <1>6, <2>1
    <3>2. QED
      BY <1>5, <2>3, <3>1 DEF IsNew, Unstored
  <2>7. QED
    BY <2>4, <2>5, <2>6 DEF OnceInv
<1>13. QED
  BY <1>5, <1>7, <1>8, <1>10, <1>11, <1>12 DEF StoreInv, RowsStep

LEMMA BeginsStep ==
    ASSUME StoreInv, NEW c \in Clients, BeginAdd(c) \/ BeginPop(c) \/ BeginClear(c)
    PROVE  StoreInv' /\ RowsStep
<1>1. doing[c].added \in 0..MaxAdds /\ MaxAdds \in Nat
  BY StoreBoundsAssumption DEF StoreInv, StoreTypeOK, Doings
<1>2. CASE BeginAdd(c)
  <2>1. PICK n \in 1..(MaxAdds - doing[c].added) :
            Begin(c, "add", [k \in 1..n |-> [by |-> c, n |-> doing[c].added + k]])
    BY <1>2 DEF BeginAdd
  <2>2. PICK batch : batch = [k \in 1..n |-> [by |-> c, n |-> doing[c].added + k]]
    OBVIOUS
  <2>3. /\ batch \in Seq(StoredItems) /\ Len(batch) = n
        /\ \A x \in ToSet(batch) :
               x.by = c /\ x.n \in (doing[c].added + 1)..(doing[c].added + n)
        /\ IsInjective(batch)
    <3>1. \A k \in 1..n : [by |-> c, n |-> doing[c].added + k] \in StoredItems
      BY <1>1, <2>1 DEF StoredItems
    <3>2. batch \in Seq(StoredItems) /\ Len(batch) = n
      <4>1. n \in Nat /\ batch \in [1..n -> StoredItems]
        BY <1>1, <2>1, <2>2, <3>1
      <4>2. QED
        BY <4>1
    <3>3. \A k \in 1..n : batch[k].by = c /\ batch[k].n = doing[c].added + k
      BY <2>2
    <3>4. /\ \A x : x \in ToSet(batch) <=> \E k \in 1..n : batch[k] = x
          /\ IsInjective(batch) <=> \A i, j \in 1..n : batch[i] = batch[j] => i = j
      BY <2>2, HoldsUpTo, ZenonT(60)
    <3>5. IsInjective(batch)
      BY <1>1, <3>3, <3>4
    <3>6. QED
      BY <1>1, <3>2, <3>3, <3>4, <3>5
  <2>4. batch # <<>> /\ doing[c].added + n \in 0..MaxAdds
    BY <1>1, <2>1, <2>3, EmptySeq
  <2>5. QED
    BY <2>1, <2>2, <2>3, <2>4, BeginStep
<1> DEFINE none == <<>>
<1>0. /\ none \in Seq(StoredItems) /\ Len(none) = 0 /\ IsInjective(none)
      /\ none = <<>> /\ ToSet(none) = {} /\ doing[c].added + Len(none) \in 0..MaxAdds
  BY <1>1, EmptyHolds
<1> HIDE DEF none
<1>3. CASE BeginPop(c)
  <2>1. Begin(c, "pop", none)
    BY <1>0, <1>3 DEF BeginPop
  <2>2. QED
    BY <1>0, <1>1, <2>1, BeginStep
<1>4. CASE BeginClear(c)
  <2>1. Begin(c, "clear", none)
    BY <1>0, <1>4 DEF BeginClear
  <2>2. QED
    BY <1>0, <1>1, <2>1, BeginStep
<1>5. QED
  BY <1>2, <1>3, <1>4

LEMMA OpenStep == ASSUME StoreInv, OpenStore PROVE StoreInv' /\ RowsStep
<1>1. UNCHANGED <<rows, parent, old, doing, begun, acked, taken, twice, held, wiped, raced>>
  BY DEF OpenStore, storeHistory
<1>2. store.kind = "none" /\ \A c \in Clients : doing[c].at = "none" /\ doing[c].op = "none"
  BY DEF OpenStore, StoreInv, FitInv, Fits
<1>3. ~Rewritten
  BY <1>2 DEF Rewritten
<1>4. StoreTypeOK'
  BY <1>1 DEF OpenStore, StoreInv, StoreTypeOK
<1>5. FitInv'
  BY <1>1, <1>2 DEF StoreInv, FitInv, Fits
<1>6. LandInv' /\ AloneInv' /\ OnceInv'
  <2>1. LandInv'
    BY <1>1, <1>2, <1>3 DEF StoreInv, LandInv, AddedIsKept, Lands
  <2>2. AloneInv'
    BY <1>1 DEF StoreInv, AloneInv, NobodyElse, Sees, Busy, Unstored
  <2>3. PoppedOnce'
    BY <1>1, <1>2 DEF StoreInv, OnceInv, OnePlace, PoppedOnce
  <2>4. OnceInv'
    BY <1>1, <2>3 DEF StoreInv, OnceInv, OnePlace, IsNew, Unstored, AnyPlace, SeenByAny
  <2>5. QED
    BY <2>1, <2>2, <2>4
<1>7. QED
  BY <1>1, <1>4, <1>5, <1>6 DEF StoreInv, RowsStep

LEMMA TimeStep == ASSUME StoreInv, EnvelopesAge \/ KeyExpires PROVE StoreInv' /\ RowsStep
<1>1. CASE EnvelopesAge
  <2>1. /\ UNCHANGED <<store, rows, parent, doing, begun, acked, taken, twice, held, wiped, raced>>
        /\ old' \subseteq StoredItems
    BY <1>1, RowsAre DEF EnvelopesAge, storeHistory, StoreInv, StoreTypeOK
  <2>2. StoreTypeOK' /\ FitInv'
    BY <2>1 DEF StoreInv, StoreTypeOK, FitInv, Fits
  <2>3. LandInv'
    BY <2>1 DEF StoreInv, LandInv, AddedIsKept, Lands, Rewritten, Reached, Unstored
  <2>4. AloneInv' /\ OnceInv'
    BY <2>1 DEF StoreInv, AloneInv, NobodyElse, Sees, Busy, Unstored, OnceInv, OnePlace, IsNew,
                PoppedOnce, AnyPlace, SeenByAny
  <2>5. QED
    BY <2>1, <2>2, <2>3, <2>4 DEF StoreInv, RowsStep
<1>2. CASE KeyExpires
  <2>1. /\ UNCHANGED <<store, old, doing, begun, acked, taken, twice, held, raced>>
        /\ rows' = <<>> /\ rows' \in Seq(StoredItems) /\ ToSet(rows') = {}
        /\ IsInjective(rows') /\ parent' = FALSE
        /\ wiped' = wiped \cup ToSet(rows) /\ wiped' \subseteq StoredItems
        /\ store.kind \in {"redis", "dapr"}
    BY <1>2, EmptyHolds, RowsAre DEF KeyExpires
  <2>2. StoreTypeOK' /\ FitInv'
    BY <2>1 DEF StoreInv, StoreTypeOK, FitInv, Fits
  <2>3. /\ Reached \subseteq Reached' /\ (Rewritten' <=> Rewritten)
        /\ AnyPlace' \subseteq AnyPlace
        /\ \A c \in Clients : Unstored(doing[c])' = Unstored(doing[c])
    BY <2>1 DEF Reached, Rewritten, Unstored, AnyPlace, SeenByAny
  <2>4. LandInv'
    BY <2>1, <2>3 DEF StoreInv, LandInv, AddedIsKept, Lands, Reached
  <2>5. AloneInv'
    <3>1. \A c \in Clients : doing[c].at # "delete"
      BY <2>1 DEF StoreInv, FitInv, Fits
    <3>2. QED
      BY <2>1, <3>1 DEF StoreInv, AloneInv, NobodyElse, Sees, Busy, Unstored
  <2>6. OnceInv'
    <3>1. PoppedOnce'
      BY <2>1 DEF StoreInv, OnceInv, OnePlace, PoppedOnce
    <3>2. QED
      BY <2>1, <2>3, <3>1 DEF StoreInv, OnceInv, OnePlace, IsNew
  <2>7. QED
    BY <2>1, <2>2, <2>4, <2>5, <2>6 DEF StoreInv, RowsStep
<1>3. QED
  BY <1>1, <1>2

LEMMA StoreStep == ASSUME StoreInv, StoreNext PROVE StoreInv' /\ RowsStep
<1>1. ASSUME NEW c \in Clients,
             \/ BeginAdd(c) \/ BeginPop(c) \/ BeginClear(c)
             \/ Push(c) \/ Expire(c) \/ Pop(c) \/ Clear(c)
             \/ InsertParent(c) \/ InsertMessage(c) \/ Touch(c)
             \/ SelectNewest(c) \/ DeleteSelected(c)
             \/ DeleteMessages(c) \/ DeleteSession(c)
             \/ ReadAll(c) \/ WriteAll(c)
             \/ Abandon(c) \/ AnswerLost(c)
      PROVE  StoreInv' /\ RowsStep
  BY <1>1, BeginsStep, PushStep, AckStep, PopStep, ClearStep, InsertParentStep,
     InsertMessageStep, SelectStep, DeleteStep, ReadStep, WriteStep, AbandonStep,
     AnswerLostStep
<1>2. QED
  BY <1>1, OpenStep, TimeStep DEF StoreNext

LEMMA StoreStutter == StoreInv /\ UNCHANGED storeVars => StoreInv'
<1> SUFFICES ASSUME StoreInv, UNCHANGED storeVars PROVE StoreInv'
  OBVIOUS
<1>1. UNCHANGED <<store, rows, parent, old, doing, begun, acked, taken, twice, held, wiped,
                  raced>>
  BY DEF storeVars, storeHistory
<1>2. StoreTypeOK' /\ FitInv'
  BY <1>1 DEF StoreInv, StoreTypeOK, FitInv, Fits
<1>3. LandInv'
  BY <1>1 DEF StoreInv, LandInv, AddedIsKept, Lands, Rewritten, Reached, Unstored
<1>4. AloneInv' /\ OnceInv'
  BY <1>1 DEF StoreInv, AloneInv, NobodyElse, Sees, Busy, Unstored, OnceInv, OnePlace, IsNew,
              PoppedOnce, AnyPlace, SeenByAny
<1>5. QED
  BY <1>2, <1>3, <1>4 DEF StoreInv

LEMMA StoreStarts == StoreInit => StoreInv
<1> SUFFICES ASSUME StoreInit PROVE StoreInv
  OBVIOUS
<1>1. /\ \A c \in Clients : /\ doing[c].op = "none" /\ doing[c].at = "none"
                            /\ doing[c].left = <<>> /\ doing[c].seen = <<>>
      /\ rows = <<>> /\ acked = {} /\ taken = {} /\ twice = {} /\ held = {}
      /\ store.kind = "none"
  BY DEF StoreInit
<1>2. StoreTypeOK
  <2>1. [op |-> "none", at |-> "none", batch |-> <<>>, left |-> <<>>, seen |-> <<>>,
         added |-> 0] \in Doings
    BY StoreBoundsAssumption, EmptyHolds DEF Doings, Steps
  <2>2. QED
    <3>1. doing \in [Clients -> Doings] /\ begun \in 0..MaxOps
      BY StoreBoundsAssumption, <2>1 DEF StoreInit
    <3>2. store \in [kind : Kinds \cup {"none"}, sealed : BOOLEAN, ttl : BOOLEAN]
      BY DEF StoreInit
    <3>3. QED
      BY EmptyHolds, <3>1, <3>2 DEF StoreInit, StoreTypeOK
<1>3. FitInv /\ AddedIsKept
  BY <1>1 DEF FitInv, Fits, AddedIsKept
<1>4. LandInv /\ AloneInv
  BY <1>1, <1>3 DEF LandInv, Lands, AloneInv, NobodyElse, Busy, Sees
<1>5. OnceInv
  <2>1. AnyPlace = {} /\ PoppedOnce
    BY <1>1, EmptyHolds DEF AnyPlace, SeenByAny, PoppedOnce
  <2>2. QED
    BY <1>1, <2>1, EmptyHolds DEF OnceInv, OnePlace, IsNew, Unstored
<1>6. QED
  BY <1>2, <1>3, <1>4, <1>5 DEF StoreInv

-----------------------------------------------------------------------------
(* The results.                                                            *)

(* StoreInv is inductive: the conjuncts say where each item is while its   *)
(* operation is between two statements.                                    *)
THEOREM StoreInvariant == StoreSpec => []StoreInv
<1>1. StoreInv /\ [StoreNext]_storeVars => StoreInv'
  BY StoreStep, StoreStutter
<1>2. QED
  BY <1>1, StoreStarts, PTL DEF StoreSpec

(* Type correctness of the stores.                                         *)
THEOREM StoreTypes == StoreSpec => []StoreTypeOK
<1>1. StoreInv => StoreTypeOK
  BY DEF StoreInv
<1>2. QED
  BY <1>1, StoreInvariant, PTL

(* An item whose add_items returned is stored, was returned by a pop, or   *)
(* was removed with the rest: in every backend, whatever the clients'      *)
(* statements do between one another and wherever one is cut off; but for  *)
(* Dapr only while no two operations overlap.                              *)
THEOREM AddedStays == StoreSpec => []AddedIsKept
<1>1. StoreInv => AddedIsKept
  BY DEF StoreInv, LandInv, AddedIsKept
<1>2. QED
  BY <1>1, StoreInvariant, PTL

(* An item that a pop took is returned or stored once more only if         *)
(* somebody else had read it by then: never in memory and Redis, and never *)
(* by a pop that begins later but in Dapr.                                 *)
THEOREM PoppedAtMostOnce == StoreSpec => []PoppedOnce
<1>1. StoreInv => PoppedOnce
  BY DEF StoreInv, OnceInv, OnePlace
<1>2. QED
  BY <1>1, StoreInvariant, PTL

-----------------------------------------------------------------------------
(* Refinement of ItemLog.                                                  *)

LEMMA ListedStep ==
    ASSUME StoreInv, StoreNext
    PROVE  \/ IsPrefix(Listed, Listed') /\ Listed' \in Seq(StoredItems)
           \/ \E i \in 1..Len(Listed) : Listed' = RemoveAt(Listed, i)
           \/ Listed' = <<>>
           \/ Listed' = Listed
<1>1. StoreInv' /\ RowsStep
  BY StoreStep
<1>2. (store.kind # "none" => store' = store) /\ (raced => raced')
  <2>1. CASE OpenStore
    BY <2>1 DEF OpenStore, storeHistory
  <2>2. ASSUME NEW c \in Clients, BeginAdd(c) \/ BeginPop(c) \/ BeginClear(c)
        PROVE  <1>2
    BY <2>2 DEF BeginAdd, BeginPop, BeginClear, Begin
  <2>3. CASE \E c \in Clients : \/ Push(c) \/ Expire(c) \/ Pop(c) \/ Clear(c)
                                \/ InsertParent(c) \/ InsertMessage(c) \/ Touch(c)
    BY <2>3 DEF Push, Expire, Pop, Clear, InsertParent, InsertMessage, Touch, storeHistory
  <2>4. CASE \E c \in Clients : \/ SelectNewest(c) \/ DeleteSelected(c)
                                \/ DeleteMessages(c) \/ DeleteSession(c)
    BY <2>4 DEF SelectNewest, DeleteSelected, DeleteMessages, DeleteSession, storeHistory
  <2>5. CASE \E c \in Clients : \/ ReadAll(c) \/ WriteAll(c) \/ Abandon(c) \/ AnswerLost(c)
    BY <2>5 DEF ReadAll, WriteAll, Abandon, AnswerLost, storeHistory
  <2>6. CASE EnvelopesAge \/ KeyExpires
    BY <2>6 DEF EnvelopesAge, KeyExpires, storeHistory
  <2>7. QED
    BY <2>1, <2>2, <2>3, <2>4, <2>5, <2>6 DEF StoreNext
<1>3. Rewritten => Rewritten'
  BY <1>2 DEF Rewritten
<1>4. rows' \in Seq(StoredItems)
  BY <1>1 DEF StoreInv, StoreTypeOK
<1>5. CASE Rewritten'
  BY <1>5 DEF Listed
<1>6. CASE ~Rewritten'
  <2>1. ~Rewritten /\ Listed = rows /\ Listed' = rows'
    BY <1>3, <1>6 DEF Listed
  <2>2. QED
    BY <1>1, <1>4, <2>1 DEF RowsStep
<1>7. QED
  BY <1>5, <1>6

LEMMA StoreLogStep ==
    StoreInv /\ [StoreNext]_storeVars => [Log!Grow \/ Log!Take \/ Log!Empty]_Listed
<1>1. StoreInv /\ StoreNext => [Log!Grow \/ Log!Take \/ Log!Empty]_Listed
  BY ListedStep DEF Log!Grow, Log!Take, Log!Empty, Log!IsPrefix, IsPrefix, Log!RemoveAt,
     RemoveAt
<1>2. UNCHANGED storeVars => Listed' = Listed
  BY DEF storeVars, storeHistory, Listed, Rewritten
<1>3. QED
  BY <1>1, <1>2

(* Every backend implements the log of items: each statement or request    *)
(* adds at the end, takes one item or empties the list.                    *)
THEOREM StoreRefinesLog == StoreSpec => StoreIsALog
<1>1. StoreInit => Log!LogInit
  BY DEF StoreInit, Log!LogInit, Rewritten, Listed
<1>2. QED
  BY <1>1, StoreLogStep, StoreInvariant, PTL DEF StoreSpec, StoreIsALog, Log!LogSpec

-----------------------------------------------------------------------------
(* The sandbox session.                                                    *)

LEMMA ContentsType ==
    /\ Nothing \in Contents /\ FromManifest \in Contents
    /\ \A from, to \in Contents : Copied(from, to) \in Contents
    /\ Absent \in Dirs /\ ~Absent.up
    /\ \A c \in Contents : Dir(c) \in Dirs /\ Dir(c).up /\ Dir(c).files = c
<1>1. 0 \in 0..MaxVersions /\ 1 \in 0..MaxVersions
  BY BoundsAssumption
<1>2. Nothing \in Contents /\ FromManifest \in Contents
  BY <1>1 DEF Nothing, FromManifest, Contents
<1>3. ASSUME NEW from \in Contents, NEW to \in Contents
      PROVE  Copied(from, to) \in Contents
  BY <1>3 DEF Copied, Contents
<1>4. QED
  BY <1>2, <1>3 DEF Absent, Dir, Dirs

Hads == [Files -> SUBSET (0..MaxVersions)]

LEMMA PartsType ==
    ASSUME NEW c \in Contents
    PROVE  /\ Only(c) \in Hads
           /\ \A some \in SUBSET Files : Part(c, some) \in Contents
  BY BoundsAssumption DEF Only, Part, Contents, Hads

LEMMA RememberedType ==
    ASSUME NEW copy \in Contents, NEW right \in BOOLEAN, NEW maybe \in Hads,
           Remembered(copy, right, maybe)
    PROVE  last' \in Contents /\ known' \in BOOLEAN /\ had' \in Hads
  BY ContentsType DEF Remembered, Nowhere, Hads

LEMMA RecordsType ==
    ASSUME SandboxTypeOK
    PROVE  /\ \A s \in Sessions : sess[s] \in SessionRecords
           /\ \A d \in Sessions : snapshots[d] \in Dirs
           /\ workspace \in Dirs /\ workspace.files \in Contents
           /\ workspace = [up |-> workspace.up, files |-> workspace.files]
  BY DEF SandboxTypeOK, Dirs

LEMMA RecordType ==
    /\ Unborn \in SessionRecords /\ Dropped \in SessionRecords
    /\ Unborn.phase = "unborn" /\ Dropped.phase = "gone" /\ Dropped.at = "idle"
    /\ \A r \in SessionRecords :
           /\ Returned(r) \in SessionRecords /\ Returned(r).phase = r.phase
           /\ Returned(r).owned = r.owned /\ Returned(r).cleaned = r.cleaned
           /\ Returned(r).after = "return" /\ Returned(r).at = "idle"
  BY ContentsType DEF Unborn, Dropped, Returned, SessionRecords, SnapshotDirs, Places,
     Afterwards

(* What a change of one session does to the sessions.                      *)
LEMMA SessType ==
    ASSUME SandboxTypeOK, NEW s \in Sessions, NEW r \in SessionRecords,
           sess' = [sess EXCEPT ![s] = r]
    PROVE  /\ sess' \in [Sessions -> SessionRecords]
           /\ sess'[s] = r
           /\ \A t \in Sessions \ {s} : sess'[t] = sess[t]
  BY DEF SandboxTypeOK

LEMMA ChangeType ==
    ASSUME SandboxTypeOK, NEW f \in Files, NEW c \in 0..MaxVersions, Change(f, c)
    PROVE  /\ workspace' \in Dirs /\ workspace'.up /\ changes' \in 0..MaxChanges
           /\ had' \in Hads /\ \A g \in Files : had[g] \subseteq had'[g]
<1>1. [workspace.files EXCEPT ![f] = c] \in Contents
  BY RecordsType DEF Contents
<1>2. changes' \in 0..MaxChanges
  BY BoundsAssumption DEF Change, SandboxTypeOK
<1>3. had' \in Hads /\ \A g \in Files : had[g] \subseteq had'[g]
  BY DEF Change, SandboxTypeOK, Hads
<1>4. QED
  BY <1>1, <1>2, <1>3, ContentsType DEF Change

-----------------------------------------------------------------------------
(* What a step of session s makes of it.                                   *)

(* A session that has to be restored has a snapshot to restore from.       *)
Placed == \A s \in Sessions : sess[s].at = "unpack" => sess[s].dir \in Sessions

(* Most steps keep who owns the workspace and whether it was cleaned up.   *)
OwnerStays(s) ==
    /\ sess' \in [Sessions -> SessionRecords]
    /\ sess'[s].phase = sess[s].phase /\ sess'[s].owned = sess[s].owned
    /\ sess'[s].cleaned = sess[s].cleaned
    /\ sess'[s].after \in {sess[s].after, "return", "save"}
    /\ sess'[s].dir = sess[s].dir
    /\ \A t \in Sessions \ {s} : sess'[t] = sess[t]

LEMMA RefreshKeeps ==
    ASSUME SandboxTypeOK, NEW s \in Sessions, NEW after \in {"return", "save"},
           Refresh(s, after)
    PROVE  OwnerStays(s) /\ sess'[s].at = "print"
  BY ZenonT(60) DEF SandboxTypeOK, Refresh, OwnerStays, SessionRecords, Places, Afterwards

LEMMA GoesKeeps ==
    ASSUME SandboxTypeOK, NEW s \in Sessions, NEW point \in Places, Goes(s, point)
    PROVE  OwnerStays(s) /\ sess'[s].at = point
  BY DEF SandboxTypeOK, Goes, OwnerStays, SessionRecords

LEMMA FingerprintKeeps ==
    ASSUME SandboxTypeOK, NEW s \in Sessions, Fingerprint(s)
    PROVE  OwnerStays(s) /\ sess'[s].at = "copy"
  BY RecordsType, ZenonT(60) DEF SandboxTypeOK, Fingerprint, OwnerStays, SessionRecords, Places

LEMMA SameKeeps ==
    ASSUME SandboxTypeOK, NEW s \in Sessions, sess' = sess
    PROVE  OwnerStays(s) /\ sess'[s].at = sess[s].at
  BY DEF SandboxTypeOK, OwnerStays

(* Steps in which s goes on.                                               *)
GoOn(s) ==
    \/ \E f \in Files : Work(s, f) \/ Drift(s, f) \/ ApplyManifest(s, f)
    \/ Save(s) \/ Fingerprint(s)
    \/ RestoreIsNotNeeded(s) \/ RestoreIsNeeded(s) \/ Unpack(s)
    \/ RemoveSnapshot(s) \/ RemoveSnapshotFails(s) \/ CleanupFails(s)

LEMMA GoesOn ==
    ASSUME SandboxTypeOK, Placed, NEW s \in Sessions, GoOn(s)
    PROVE  /\ Live(s) /\ OwnerStays(s)
           /\ sess'[s].at = "unpack" => sess'[s].dir \in Sessions
           /\ saved' = saved /\ UNCHANGED <<kind, shared, crashed>>
<1>1. Live(s) /\ saved' = saved /\ UNCHANGED <<kind, shared, crashed>>
  BY DEF GoOn, Work, Drift, ApplyManifest, Save, Fingerprint, RestoreIsNotNeeded,
     RestoreIsNeeded, Unpack, RemoveSnapshot, RemoveSnapshotFails, CleanupFails, Idle,
     At, history
<1>2. \/ \E after \in {"return", "save"} : Refresh(s, after)
      \/ \E point \in Places : Goes(s, point)
      \/ Fingerprint(s)
      \/ sess' = sess
  BY DEF GoOn, Work, Drift, ApplyManifest, Save, RestoreIsNotNeeded, RestoreIsNeeded,
     Unpack, RemoveSnapshot, RemoveSnapshotFails, CleanupFails, Places
<1>3. OwnerStays(s)
  BY <1>2, RefreshKeeps, GoesKeeps, FingerprintKeeps, SameKeeps
<1>4. sess'[s].at = "unpack" => sess'[s].dir \in Sessions
  <2>1. CASE RestoreIsNeeded(s)
    <3>1. sess[s].dir \in SnapshotDirs /\ sess[s].dir # NoDir
      BY <2>1, RecordsType DEF RestoreIsNeeded, SessionRecords
    <3>2. QED
      BY <1>3, <3>1 DEF OwnerStays, SnapshotDirs
  <2>2. CASE sess' = sess
    BY <2>2 DEF Placed
  <2>3. CASE ~RestoreIsNeeded(s) /\ sess' # sess
    <3>1. \/ \E after \in {"return", "save"} : Refresh(s, after)
          \/ \E point \in Places \ {"unpack"} : Goes(s, point)
          \/ Fingerprint(s)
      BY <2>3 DEF GoOn, Work, Drift, ApplyManifest, Save, RestoreIsNotNeeded, Unpack,
         RemoveSnapshot, RemoveSnapshotFails, CleanupFails, Places
    <3>2. QED
      BY <3>1, RefreshKeeps, GoesKeeps, FingerprintKeeps
  <2>4. QED
    BY <2>1, <2>2, <2>3
<1>5. QED
  BY <1>1, <1>3, <1>4

(* The end of a refresh.                                                   *)
LEMMA EndsType ==
    ASSUME SandboxTypeOK, NEW s \in Sessions, NEW ok \in BOOLEAN,
           NEW r \in SessionRecords, Ends(s, r, ok)
    PROVE  /\ sess' \in [Sessions -> SessionRecords]
           /\ \A t \in Sessions \ {s} : sess'[t] = sess[t]
           /\ sess'[s].at = "idle"
           /\ IF r.after = "create" /\ ~ok THEN sess'[s].phase = "gone"
              ELSE /\ sess'[s].phase = r.phase /\ sess'[s].owned = r.owned
                   /\ sess'[s].cleaned = r.cleaned /\ sess'[s].after = "return"
           /\ saved' \in SavedStates
           /\ saved' = saved \/ (saved'.there /\ saved'.owned = r.owned)
<1>1. StateOf(r) \in SavedStates /\ StateOf(r).there /\ StateOf(r).owned = r.owned
  BY RecordsType DEF StateOf, SavedStates, SessionRecords, Dirs
<1>2. saved \in SavedStates
  BY DEF SandboxTypeOK
<1>3. CASE r.after = "create" /\ ~ok
  BY <1>1, <1>2, <1>3, RecordType, SessType DEF Ends
<1>4. CASE ~(r.after = "create" /\ ~ok)
  BY <1>1, <1>2, <1>4, RecordType, SessType DEF Ends
<1>5. QED
  BY <1>3, <1>4

(* The refresh of a session ends: it goes on, or it was never given out.   *)
LEMMA RefreshEnds ==
    ASSUME SandboxTypeOK, NEW s \in Sessions,
           FingerprintFails(s) \/ ClearFails(s) \/ CopyToSnapshot(s) \/ CopyFails(s)
    PROVE  /\ Live(s) /\ workspace' = workspace /\ UNCHANGED <<kind, shared, crashed>>
           /\ sess' \in [Sessions -> SessionRecords]
           /\ \A t \in Sessions \ {s} : sess'[t] = sess[t]
           /\ sess'[s].at = "idle"
           /\ \/ sess'[s].phase = "gone" /\ sess[s].after = "create"
              \/ /\ sess'[s].phase = "live" /\ sess'[s].owned = sess[s].owned
                 /\ sess'[s].cleaned = sess[s].cleaned /\ sess'[s].after = "return"
           /\ saved' \in SavedStates
           /\ saved' = saved \/ (saved'.there /\ saved'.owned = sess[s].owned)
<1>1. sess[s] \in SessionRecords
  BY RecordsType
<1>2. Live(s) /\ workspace' = workspace /\ UNCHANGED <<kind, shared, crashed>>
  BY DEF FingerprintFails, ClearFails, CopyToSnapshot, CopyFails, At, disk, history
<1>3. CASE FingerprintFails(s) \/ ClearFails(s) \/ CopyFails(s)
  <2>1. Ends(s, sess[s], FALSE)
    BY <1>3 DEF FingerprintFails, ClearFails, CopyFails
  <2>2. QED
    BY <1>1, <1>2, <2>1, EndsType DEF Live
<1>4. CASE CopyToSnapshot(s)
  <2> DEFINE r == [sess[s] EXCEPT !.dir = SnapshotOf(s), !.print = sess[s].seen]
  <2>1. Ends(s, r, TRUE)
    BY <1>4 DEF CopyToSnapshot
  <2>2. /\ r \in SessionRecords /\ r.phase = sess[s].phase /\ r.owned = sess[s].owned
        /\ r.cleaned = sess[s].cleaned
    BY <1>1 DEF SessionRecords, SnapshotOf, SnapshotDirs
  <2> HIDE DEF r
  <2>3. QED
    BY <1>2, <2>1, <2>2, EndsType DEF Live
<1>5. QED
  BY <1>3, <1>4

(* Sessions that begin: made, or resumed from the state that is kept.      *)
LEMMA Creates ==
    ASSUME SandboxTypeOK, NEW s \in Sessions, sess[s] = Unborn,
           CreateForRun(s) \/ CreateCallerOwned(s)
    PROVE  /\ kind = "none" /\ kind' \in {"runner", "caller"}
           /\ sess' \in [Sessions -> SessionRecords]
           /\ sess'[s].phase = "live" /\ sess'[s].owned = (kind' = "runner")
           /\ sess'[s].after = "create" => kind' = "caller"
           /\ sess'[s].at # "unpack"
           /\ \A t \in Sessions \ {s} : sess'[t] = sess[t]
           /\ workspace'.up /\ workspace' \in Dirs
           /\ UNCHANGED <<snapshots, saved, changes, last, known, had, shared, crashed>>
<1>1. CASE CreateForRun(s)
  BY <1>1, ContentsType DEF CreateForRun, SandboxTypeOK, SessionRecords, Unborn
<1>2. CASE CreateCallerOwned(s)
  BY <1>2, ContentsType DEF CreateCallerOwned, SandboxTypeOK, SessionRecords, Unborn,
     Places, Afterwards
<1>3. QED
  BY <1>1, <1>2

LEMMA Resumes ==
    ASSUME SandboxTypeOK, NEW s \in Sessions, ResumeFrom(s)
    PROVE  /\ saved.there /\ sess[s] = Unborn
           /\ sess' \in [Sessions -> SessionRecords]
           /\ sess'[s].phase = "live" /\ sess'[s].owned = saved.owned
           /\ sess'[s].after = "return" /\ sess'[s].at = "restore"
           /\ \A t \in Sessions \ {s} : sess'[t] = sess[t]
           /\ workspace'.up /\ workspace' \in Dirs
           /\ shared' = (shared \/ SomeoneLive)
           /\ UNCHANGED <<snapshots, saved, kind, changes, crashed>>
           /\ ~shared' => UNCHANGED <<last, known, had>>
<1> DEFINE r == [Unborn EXCEPT !.phase = "live", !.at = "restore",
                               !.owned = saved.owned, !.dir = saved.dir,
                               !.print = saved.print]
<1>1. saved \in SavedStates
  BY DEF SandboxTypeOK
<1>2. /\ r \in SessionRecords /\ r.phase = "live" /\ r.owned = saved.owned
      /\ r.after = "return" /\ r.at = "restore"
  BY <1>1, ContentsType DEF Unborn, SessionRecords, SavedStates, Places, Afterwards
<1>3. sess' = [sess EXCEPT ![s] = r]
  BY DEF ResumeFrom
<1> HIDE DEF r
<1>4. workspace' \in Dirs /\ workspace'.up
  BY RecordsType, ContentsType DEF ResumeFrom
<1>5. QED
  BY <1>2, <1>3, <1>4, SessType DEF ResumeFrom, Remembered, SandboxTypeOK

(* Sessions that are over.                                                 *)
LEMMA Leaves ==
    ASSUME SandboxTypeOK, Placed, NEW s \in Sessions,
           RestoreFails(s) \/ UnpackFails(s) \/ DropSession(s)
    PROVE  /\ Live(s) /\ sess' \in [Sessions -> SessionRecords]
           /\ sess'[s].phase = "gone" /\ sess'[s].at = "idle"
           /\ \A t \in Sessions \ {s} : sess'[t] = sess[t]
           /\ IF sess[s].owned THEN workspace' = Absent
              ELSE workspace' \in Dirs /\ (workspace.up => workspace'.up)
           /\ UNCHANGED <<snapshots, saved, history>>
<1>1. /\ Live(s) /\ sess' = [sess EXCEPT ![s] = Dropped]
      /\ UNCHANGED <<snapshots, saved, history>>
  BY DEF RestoreFails, UnpackFails, DropSession, At, Idle
<1>2. IF sess[s].owned THEN workspace' = Absent
      ELSE workspace' \in Dirs /\ (workspace.up => workspace'.up)
  <2>1. CASE RestoreFails(s)
    BY <2>1, RecordsType, PartsType, ContentsType DEF RestoreFails
  <2>2. CASE UnpackFails(s)
    <3>1. snapshots[sess[s].dir].files \in Contents
      BY <2>2, RecordsType DEF UnpackFails, At, Placed, Dirs
    <3>2. QED
      BY <2>2, <3>1, RecordsType, PartsType, ContentsType DEF UnpackFails
  <2>3. CASE DropSession(s)
    BY <2>3, RecordsType DEF DropSession, WorkspaceAfterDrop
  <2>4. QED
    BY <2>1, <2>2, <2>3
<1>3. QED
  BY <1>1, <1>2, RecordType, SessType

LEMMA Removes ==
    ASSUME SandboxTypeOK, NEW s \in Sessions, RemoveWorkspace(s)
    PROVE  /\ Live(s) /\ sess' \in [Sessions -> SessionRecords]
           /\ sess'[s].phase = "live" /\ sess'[s].owned = sess[s].owned
           /\ sess'[s].cleaned /\ sess'[s].after = sess[s].after
           /\ sess'[s].at = "idle"
           /\ \A t \in Sessions \ {s} : sess'[t] = sess[t]
           /\ workspace' = IF sess[s].owned THEN Absent ELSE workspace
           /\ UNCHANGED <<snapshots, saved, history>>
  BY ZenonT(60) DEF RemoveWorkspace, WorkspaceAfterDrop, At, Live, SandboxTypeOK, SessionRecords,
     Places

LEMMA Dies ==
    ASSUME SandboxTypeOK, Crash
    PROVE  /\ sess' \in [Sessions -> SessionRecords]
           /\ \A s \in Sessions : sess'[s].phase # "live"
           /\ \A s \in Sessions : sess'[s] \in {sess[s], Dropped}
           /\ \A s \in Sessions : sess[s] = Unborn <=> sess'[s] = Unborn
  BY RecordType DEF SandboxTypeOK, Crash, Live

(* The workspace a step leaves behind for whom goes on.                    *)
LEMMA Stands ==
    ASSUME SandboxTypeOK, Placed, NEW s \in Sessions, GoOn(s)
    PROVE  workspace' \in Dirs /\ (workspace.up => workspace'.up)
           /\ changes' \in 0..MaxChanges
<1>1. workspace' = workspace => workspace' \in Dirs /\ (workspace.up => workspace'.up)
  BY RecordsType
<1>2. changes' = changes => changes' \in 0..MaxChanges
  BY DEF SandboxTypeOK
<1>3. CASE \E f \in Files : Work(s, f) \/ Drift(s, f) \/ ApplyManifest(s, f)
  <2>1. PICK f \in Files, c \in 0..MaxVersions : Change(f, c)
    BY <1>3 DEF Work, Drift, ApplyManifest
  <2>2. QED
    BY <2>1, ChangeType
<1>4. CASE \/ Save(s) \/ Fingerprint(s) \/ RemoveSnapshot(s) \/ RemoveSnapshotFails(s)
           \/ CleanupFails(s)
  BY <1>1, <1>2, <1>4
     DEF Save, Fingerprint, RemoveSnapshot, RemoveSnapshotFails, CleanupFails, disk, history
<1>5. CASE RestoreIsNotNeeded(s) \/ RestoreIsNeeded(s)
  BY <1>1, <1>2, <1>5, RecordsType, ContentsType
     DEF RestoreIsNotNeeded, RestoreIsNeeded, history
<1>6. CASE Unpack(s)
  <2>1. snapshots[sess[s].dir] \in Dirs
    BY <1>6, RecordsType DEF Placed, Unpack, At
  <2>2. snapshots[sess[s].dir].files \in Contents
    BY <2>1 DEF Dirs
  <2>3. QED
    BY <1>2, <1>6, <2>2, RecordsType, ContentsType DEF Unpack, history
<1>7. QED
  BY <1>3, <1>4, <1>5, <1>6 DEF GoOn

-----------------------------------------------------------------------------
(* The kinds of step there are.                                            *)
LEMMA StepKinds ==
    ASSUME SandboxNext
    PROVE  \/ \E s \in Sessions :
              \/ CreateForRun(s) \/ CreateCallerOwned(s)
              \/ GoOn(s)
              \/ FingerprintFails(s) \/ ClearFails(s) \/ CopyToSnapshot(s) \/ CopyFails(s)
              \/ ResumeFrom(s)
              \/ RestoreFails(s) \/ UnpackFails(s) \/ DropSession(s)
              \/ RemoveWorkspace(s)
           \/ ResumeFails \/ Crash
  BY SMTT(30) DEF SandboxNext, GoOn

(* The snapshots, and what the history says of them.                       *)
RememberedIsTyped == last' \in Contents /\ known' \in BOOLEAN /\ had' \in Hads

LEMMA SnapshotsStep ==
    ASSUME SandboxTypeOK, Placed, SandboxNext
    PROVE  snapshots' \in [Sessions -> Dirs] /\ RememberedIsTyped
<1>1. \A s \in Sessions : SnapshotOf(s) \in Sessions
  BY RecordsType DEF SnapshotOf, SessionRecords, SnapshotDirs
<1>2. /\ Nothing \in Contents /\ Nowhere \in Hads /\ had \in Hads /\ last \in Contents
      /\ known \in BOOLEAN /\ snapshots \in [Sessions -> Dirs]
  BY ContentsType DEF Nowhere, Hads, SandboxTypeOK
<1>3. \A d \in Sessions : snapshots[d].files \in Contents
  BY RecordsType DEF Dirs
<1>4. ASSUME UNCHANGED <<last, known, had>>
      PROVE  RememberedIsTyped
  BY <1>2, <1>4 DEF RememberedIsTyped
<1>5. ASSUME NEW c \in Contents, NEW right \in BOOLEAN, NEW maybe \in Hads,
             Remembered(c, right, maybe)
      PROVE  RememberedIsTyped
  BY <1>5, RememberedType DEF RememberedIsTyped
<1>6. CASE UNCHANGED snapshots /\ UNCHANGED <<last, known, had>>
  BY <1>2, <1>4, <1>6
<1>7. CASE \E s \in Sessions, f \in Files : Work(s, f) \/ Drift(s, f) \/ ApplyManifest(s, f)
  <2>1. PICK s \in Sessions, f \in Files : Work(s, f) \/ Drift(s, f) \/ ApplyManifest(s, f)
    BY <1>7
  <2>2. PICK c \in 0..MaxVersions : Change(f, c)
    BY <2>1 DEF Work, Drift, ApplyManifest
  <2>3. UNCHANGED snapshots /\ UNCHANGED <<last, known>>
    BY <2>1 DEF Work, Drift, ApplyManifest
  <2>4. QED
    BY <1>2, <2>2, <2>3, ChangeType DEF RememberedIsTyped
<1>8. CASE (\E s \in Sessions : ResumeFrom(s)) \/ ResumeFails
  BY <1>2, <1>5, <1>8 DEF ResumeFrom, ResumeFails
<1>9. ASSUME NEW s \in Sessions, Fingerprint(s)
      PROVE  snapshots' \in [Sessions -> Dirs] /\ RememberedIsTyped
  <2>1. Only(workspace.files) \in Hads
    BY RecordsType, PartsType
  <2>2. RememberedIsTyped
    BY <1>2, <1>5, <1>9, <2>1 DEF Fingerprint
  <2>3. snapshots' = [snapshots EXCEPT ![SnapshotOf(s)] = Dir(Nothing)]
    BY <1>9 DEF Fingerprint
  <2>4. QED
    BY <1>2, <2>2, <2>3, ContentsType
<1>10. ASSUME NEW s \in Sessions, ClearFails(s)
       PROVE  snapshots' \in [Sessions -> Dirs] /\ RememberedIsTyped
  <2>1. Only(snapshots[SnapshotOf(s)].files) \in Hads
    BY <1>1, <1>3, PartsType
  <2>2. RememberedIsTyped
    BY <1>2, <1>5, <1>10, <2>1 DEF ClearFails
  <2>3. PICK some \in SUBSET Files :
            snapshots' = [snapshots EXCEPT ![SnapshotOf(s)].files = Part(@, some)]
    BY <1>10 DEF ClearFails
  <2>4. Part(snapshots[SnapshotOf(s)].files, some) \in Contents
    BY <1>1, <1>3, PartsType
  <2>5. QED
    BY <1>1, <1>2, <2>2, <2>3, <2>4 DEF Dirs
<1>11. ASSUME NEW s \in Sessions, CopyToSnapshot(s)
       PROVE  snapshots' \in [Sessions -> Dirs] /\ RememberedIsTyped
  <2> DEFINE copy == Copied(workspace.files, snapshots[SnapshotOf(s)].files)
  <2>1. copy \in Contents
    BY <1>1, <1>3, RecordsType, ContentsType
  <2>2. /\ snapshots' = [snapshots EXCEPT ![SnapshotOf(s)] = Dir(copy)]
        /\ Remembered(copy, TRUE, Nowhere) \/ Remembered(Nothing, FALSE, had)
    BY <1>11 DEF CopyToSnapshot
  <2> HIDE DEF copy
  <2>3. RememberedIsTyped
    BY <1>2, <1>5, <2>1, <2>2
  <2>4. QED
    BY <1>2, <2>1, <2>2, <2>3, ContentsType
<1>12. ASSUME NEW s \in Sessions, CopyFails(s)
       PROVE  snapshots' \in [Sessions -> Dirs] /\ RememberedIsTyped
  <2>1. PICK some \in SUBSET Files :
            snapshots' = [snapshots EXCEPT ![SnapshotOf(s)] =
                             Dir(Copied(Part(workspace.files, some),
                                        snapshots[SnapshotOf(s)].files))]
    BY <1>12 DEF CopyFails
  <2>2. Part(workspace.files, some) \in Contents
    BY RecordsType, PartsType
  <2>3. Dir(Copied(Part(workspace.files, some), snapshots[SnapshotOf(s)].files)) \in Dirs
    BY <1>1, <1>3, <2>2, ContentsType
  <2>4. RememberedIsTyped
    BY <1>4, <1>12 DEF CopyFails, history
  <2>5. QED
    BY <1>2, <2>1, <2>3, <2>4
<1>13. ASSUME NEW s \in Sessions, RemoveSnapshot(s)
       PROVE  snapshots' \in [Sessions -> Dirs] /\ RememberedIsTyped
  <2>1. snapshots' \in [Sessions -> Dirs]
    BY <1>2, <1>13, ContentsType DEF RemoveSnapshot
  <2>2. QED
    BY <1>2, <1>4, <1>5, <1>13, <2>1 DEF RemoveSnapshot
<1>14. ASSUME NEW s \in Sessions, RemoveSnapshotFails(s)
       PROVE  snapshots' \in [Sessions -> Dirs] /\ RememberedIsTyped
  <2> DEFINE d == sess[s].dir
  <2>1. d \in Sessions
    BY <1>14, RecordsType DEF RemoveSnapshotFails, SessionRecords, SnapshotDirs
  <2>2. Only(snapshots[d].files) \in Hads
    BY <1>3, <2>1, PartsType
  <2>3. RememberedIsTyped
    BY <1>2, <1>5, <1>14, <2>2 DEF RemoveSnapshotFails
  <2>4. PICK some \in SUBSET Files :
            snapshots' = [snapshots EXCEPT ![d].files = Part(@, some)]
    BY <1>14 DEF RemoveSnapshotFails
  <2>5. Part(snapshots[d].files, some) \in Contents
    BY <1>3, <2>1, PartsType
  <2> HIDE DEF d
  <2>6. QED
    BY <1>2, <2>1, <2>3, <2>4, <2>5 DEF Dirs
<1>15. \/ UNCHANGED snapshots /\ UNCHANGED <<last, known, had>>
       \/ \E s \in Sessions, f \in Files : Work(s, f) \/ Drift(s, f) \/ ApplyManifest(s, f)
       \/ (\E s \in Sessions : ResumeFrom(s)) \/ ResumeFails
       \/ \E s \in Sessions :
              \/ Fingerprint(s) \/ ClearFails(s) \/ CopyToSnapshot(s) \/ CopyFails(s)
              \/ RemoveSnapshot(s) \/ RemoveSnapshotFails(s)
  BY DEF SandboxNext, CreateForRun, CreateCallerOwned, Save, FingerprintFails,
         RestoreIsNotNeeded, RestoreIsNeeded, RestoreFails, Unpack, UnpackFails,
         RemoveWorkspace, CleanupFails, DropSession, Crash, disk, history
<1>16. QED
  BY <1>6, <1>7, <1>8, <1>9, <1>10, <1>11, <1>12, <1>13, <1>14, <1>15

-----------------------------------------------------------------------------
(* Who owns the workspace.  A session and a state that is kept know it,    *)
(* a first refresh belongs to a caller's session, and nobody who is alone  *)
(* takes the workspace away before it was cleaned up.                      *)

OwnersAgree ==
    /\ \A s \in Sessions :
          IF kind = "none" THEN sess[s] = Unborn
          ELSE /\ Live(s) => sess[s].owned = (kind = "runner")
               /\ Live(s) /\ sess[s].after = "create" => kind = "caller"
    /\ saved.there => kind # "none" /\ saved.owned = (kind = "runner")

Alone ==
    ~shared =>
        /\ \A s, t \in Sessions : Live(s) /\ Live(t) => s = t
        /\ \A s \in Sessions : Live(s) /\ ~sess[s].cleaned => workspace.up

SandboxInv == SandboxTypeOK /\ Placed /\ OwnersAgree /\ OwnerDecides /\ Alone

(* What stays to be shown of each kind of step.                            *)
Shown ==
    /\ workspace' \in Dirs /\ sess' \in [Sessions -> SessionRecords]
    /\ saved' \in SavedStates /\ kind' \in {"none", "runner", "caller"}
    /\ changes' \in 0..MaxChanges /\ shared' \in BOOLEAN /\ crashed' \in BOOLEAN
    /\ Placed' /\ OwnersAgree' /\ OwnerDecides' /\ Alone'

LEMMA Begins ==
    ASSUME SandboxInit
    PROVE  SandboxInv
<1>1. SandboxTypeOK
  <2>1. workspace \in Dirs /\ snapshots \in [Sessions -> Dirs] /\ last \in Contents
        /\ had \in [Files -> SUBSET (0..MaxVersions)]
    BY ContentsType DEF SandboxInit, Nowhere
  <2>2. sess \in [Sessions -> SessionRecords]
    BY RecordType DEF SandboxInit
  <2>3. saved \in SavedStates
    BY ContentsType DEF SandboxInit, SavedStates, SnapshotDirs
  <2>4. changes \in 0..MaxChanges
    BY BoundsAssumption DEF SandboxInit
  <2>5. QED
    BY <2>1, <2>2, <2>3, <2>4 DEF SandboxInit, SandboxTypeOK
<1>2. Placed /\ OwnersAgree /\ OwnerDecides /\ Alone
  BY DEF SandboxInit, Placed, OwnersAgree, OwnerDecides, Alone, SomeoneLive, Live, Unborn,
     Absent
<1>3. QED
  BY <1>1, <1>2 DEF SandboxInv

LEMMA CreateStep ==
    ASSUME SandboxInv, NEW s \in Sessions, CreateForRun(s) \/ CreateCallerOwned(s)
    PROVE  Shown
<1>1. SandboxTypeOK /\ kind = "none"
  BY DEF SandboxInv, CreateForRun, CreateCallerOwned
<1>2. \A t \in Sessions : sess[t] = Unborn /\ ~Live(t) /\ sess[t].at # "unpack"
  <2>1. \A t \in Sessions : sess[t] = Unborn
    BY <1>1 DEF SandboxInv, OwnersAgree
  <2>2. Unborn.phase = "unborn" /\ Unborn.at = "idle"
    BY DEF Unborn
  <2>3. QED
    BY <2>1, <2>2 DEF Live
<1>3. ~saved.there
  BY <1>1 DEF SandboxInv, OwnersAgree
<1>4. /\ kind' \in {"runner", "caller"}
      /\ sess' \in [Sessions -> SessionRecords]
      /\ sess'[s].phase = "live" /\ sess'[s].owned = (kind' = "runner")
      /\ sess'[s].after = "create" => kind' = "caller"
      /\ sess'[s].at # "unpack"
      /\ \A t \in Sessions \ {s} : sess'[t] = sess[t]
      /\ workspace'.up /\ workspace' \in Dirs
      /\ UNCHANGED <<snapshots, saved, changes, last, known, had, shared, crashed>>
  BY <1>1, <1>2, Creates
<1>5. QED
  BY <1>1, <1>2, <1>3, <1>4
     DEF Shown, SandboxTypeOK, Placed, OwnersAgree, OwnerDecides, Alone, SomeoneLive, Live

LEMMA GoOnStep ==
    ASSUME SandboxInv, NEW s \in Sessions, GoOn(s)
    PROVE  Shown
<1>1. SandboxTypeOK /\ Placed
  BY DEF SandboxInv
<1>2. /\ Live(s) /\ OwnerStays(s) /\ (sess'[s].at = "unpack" => sess'[s].dir \in Sessions)
      /\ saved' = saved /\ UNCHANGED <<kind, shared, crashed>>
  BY <1>1, GoesOn
<1>3. workspace' \in Dirs /\ (workspace.up => workspace'.up) /\ changes' \in 0..MaxChanges
  BY <1>1, Stands
<1>4. Placed'
  BY <1>1, <1>2 DEF Placed, OwnerStays
<1>5. \A t \in Sessions : Live(t)' <=> Live(t)
  BY <1>2 DEF OwnerStays, Live
<1>6. kind # "none"
  BY <1>2 DEF SandboxInv, OwnersAgree, Live, Unborn
<1>7. OwnersAgree'
  BY <1>2, <1>5, <1>6 DEF SandboxInv, OwnersAgree, OwnerStays
<1>8. OwnerDecides' /\ Alone'
  BY <1>2, <1>3, <1>5 DEF SandboxInv, OwnerDecides, Alone, SomeoneLive, OwnerStays
<1>9. QED
  BY <1>1, <1>2, <1>3, <1>4, <1>7, <1>8 DEF Shown, SandboxTypeOK, OwnerStays

LEMMA RefreshStep ==
    ASSUME SandboxInv, NEW s \in Sessions,
           FingerprintFails(s) \/ ClearFails(s) \/ CopyToSnapshot(s) \/ CopyFails(s)
    PROVE  Shown
<1>1. SandboxTypeOK /\ Placed
  BY DEF SandboxInv
<1>2. /\ Live(s) /\ workspace' = workspace /\ UNCHANGED <<kind, shared, crashed>>
      /\ sess' \in [Sessions -> SessionRecords]
      /\ \A t \in Sessions \ {s} : sess'[t] = sess[t]
      /\ sess'[s].at = "idle"
      /\ \/ sess'[s].phase = "gone" /\ sess[s].after = "create"
         \/ /\ sess'[s].phase = "live" /\ sess'[s].owned = sess[s].owned
            /\ sess'[s].cleaned = sess[s].cleaned /\ sess'[s].after = "return"
      /\ saved' \in SavedStates
      /\ saved' = saved \/ (saved'.there /\ saved'.owned = sess[s].owned)
  BY <1>1, RefreshEnds
<1>3. changes' = changes
  BY DEF FingerprintFails, ClearFails, CopyToSnapshot, CopyFails, history
<1>4. Placed'
  BY <1>1, <1>2 DEF Placed
<1>5. kind # "none" /\ sess[s].owned = (kind = "runner")
  BY <1>2 DEF SandboxInv, OwnersAgree, Live, Unborn
<1>6. OwnersAgree'
  BY <1>2, <1>5 DEF SandboxInv, OwnersAgree, Live
<1>7. OwnerDecides'
  <2>1. kind = "runner" => sess'[s].phase = "live"
    BY <1>2, <1>5 DEF SandboxInv, OwnersAgree
  <2>2. QED
    BY <1>2, <2>1 DEF SandboxInv, OwnerDecides, SomeoneLive, Live
<1>8. Alone'
  BY <1>2 DEF SandboxInv, Alone, Live
<1>9. QED
  BY <1>1, <1>2, <1>3, <1>4, <1>6, <1>7, <1>8 DEF Shown, SandboxTypeOK

LEMMA ResumeStep ==
    ASSUME SandboxInv, NEW s \in Sessions, ResumeFrom(s)
    PROVE  Shown
<1>1. SandboxTypeOK /\ Placed
  BY DEF SandboxInv
<1>2. /\ saved.there /\ sess[s] = Unborn
      /\ sess' \in [Sessions -> SessionRecords]
      /\ sess'[s].phase = "live" /\ sess'[s].owned = saved.owned
      /\ sess'[s].after = "return" /\ sess'[s].at = "restore"
      /\ \A t \in Sessions \ {s} : sess'[t] = sess[t]
      /\ workspace'.up /\ workspace' \in Dirs
      /\ shared' = (shared \/ SomeoneLive)
      /\ UNCHANGED <<snapshots, saved, kind, changes, crashed>>
  BY <1>1, Resumes
<1>3. Placed'
  BY <1>1, <1>2 DEF Placed
<1>4. OwnersAgree'
  BY <1>2 DEF SandboxInv, OwnersAgree, Live
<1>5. OwnerDecides'
  BY <1>2 DEF SandboxInv, OwnerDecides, SomeoneLive, Live
<1>6. Alone'
  BY <1>2 DEF SandboxInv, Alone, SomeoneLive, Live
<1>7. QED
  BY <1>1, <1>2, <1>3, <1>4, <1>5, <1>6 DEF Shown, SandboxTypeOK

LEMMA LeaveStep ==
    ASSUME SandboxInv, NEW s \in Sessions,
           RestoreFails(s) \/ UnpackFails(s) \/ DropSession(s)
    PROVE  Shown
<1>1. SandboxTypeOK /\ Placed
  BY DEF SandboxInv
<1>2. /\ Live(s) /\ sess' \in [Sessions -> SessionRecords]
      /\ sess'[s].phase = "gone" /\ sess'[s].at = "idle"
      /\ \A t \in Sessions \ {s} : sess'[t] = sess[t]
      /\ IF sess[s].owned THEN workspace' = Absent
         ELSE workspace' \in Dirs /\ (workspace.up => workspace'.up)
      /\ UNCHANGED <<snapshots, saved, history>>
  BY <1>1, Leaves
<1>3. workspace' \in Dirs
  BY <1>1, <1>2, ContentsType, RecordsType
<1>4. Placed'
  BY <1>1, <1>2 DEF Placed
<1>5. kind # "none" /\ sess[s].owned = (kind = "runner")
  BY <1>2 DEF SandboxInv, OwnersAgree, Live, Unborn
<1>6. OwnersAgree'
  BY <1>2, <1>5 DEF SandboxInv, OwnersAgree, Live, history
<1>7. OwnerDecides'
  BY <1>2, <1>5, ContentsType DEF SandboxInv, OwnerDecides, history
<1>8. Alone'
  BY <1>2 DEF SandboxInv, Alone, Live, history
<1>9. QED
  BY <1>1, <1>2, <1>3, <1>4, <1>6, <1>7, <1>8 DEF Shown, SandboxTypeOK, history

LEMMA RemoveStep ==
    ASSUME SandboxInv, NEW s \in Sessions, RemoveWorkspace(s)
    PROVE  Shown
<1>1. SandboxTypeOK /\ Placed
  BY DEF SandboxInv
<1>2. /\ Live(s) /\ sess' \in [Sessions -> SessionRecords]
      /\ sess'[s].phase = "live" /\ sess'[s].owned = sess[s].owned
      /\ sess'[s].cleaned /\ sess'[s].after = sess[s].after
      /\ sess'[s].at = "idle"
      /\ \A t \in Sessions \ {s} : sess'[t] = sess[t]
      /\ workspace' = IF sess[s].owned THEN Absent ELSE workspace
      /\ UNCHANGED <<snapshots, saved, history>>
  BY <1>1, Removes
<1>3. workspace' \in Dirs
  BY <1>1, <1>2, ContentsType, RecordsType
<1>4. Placed'
  BY <1>1, <1>2 DEF Placed
<1>5. kind # "none" /\ sess[s].owned = (kind = "runner")
  BY <1>2 DEF SandboxInv, OwnersAgree, Live, Unborn
<1>6. OwnersAgree'
  BY <1>2, <1>5 DEF SandboxInv, OwnersAgree, Live, history
<1>7. OwnerDecides'
  BY <1>2, <1>5, ContentsType DEF SandboxInv, OwnerDecides, history
<1>8. Alone'
  BY <1>2 DEF SandboxInv, Alone, Live, history
<1>9. QED
  BY <1>1, <1>2, <1>3, <1>4, <1>6, <1>7, <1>8 DEF Shown, SandboxTypeOK, history

LEMMA ResumeFailsStep ==
    ASSUME SandboxInv, ResumeFails
    PROVE  Shown
<1>1. /\ workspace' \in Dirs /\ saved.there
      /\ IF saved.owned THEN ~workspace'.up ELSE workspace'.up
  <2>1. workspace.files \in Contents
    BY RecordsType DEF SandboxInv
  <2>2. saved.there /\ workspace' = IF saved.owned THEN Absent ELSE Dir(workspace.files)
    BY DEF ResumeFails
  <2>3. QED
    BY <2>1, <2>2, ContentsType
<1>2. /\ shared' = (shared \/ SomeoneLive)
      /\ UNCHANGED <<snapshots, sess, saved, kind, changes, crashed>>
  BY DEF ResumeFails
<1>3. OwnersAgree' /\ Placed'
  BY <1>2 DEF SandboxInv, OwnersAgree, Placed, Live
<1>4. OwnerDecides'
  BY <1>1, <1>2 DEF SandboxInv, OwnersAgree, OwnerDecides
<1>5. Alone'
  BY <1>2 DEF SandboxInv, Alone, SomeoneLive, Live
<1>6. QED
  BY <1>1, <1>2, <1>3, <1>4, <1>5 DEF Shown, SandboxInv, SandboxTypeOK

LEMMA CrashStep ==
    ASSUME SandboxInv, Crash
    PROVE  Shown
<1>1. SandboxTypeOK /\ Placed
  BY DEF SandboxInv
<1>2. /\ sess' \in [Sessions -> SessionRecords]
      /\ \A s \in Sessions : sess'[s].phase # "live"
      /\ \A s \in Sessions : sess'[s] \in {sess[s], Dropped}
      /\ \A s \in Sessions : sess[s] = Unborn <=> sess'[s] = Unborn
  BY <1>1, Dies
<1>3. crashed' /\ UNCHANGED <<workspace, saved, kind, changes, shared>>
  BY DEF Crash, disk
<1>4. Placed'
  BY <1>1, <1>2, RecordType DEF Placed
<1>5. OwnersAgree' /\ OwnerDecides' /\ Alone'
  BY <1>2, <1>3 DEF SandboxInv, OwnersAgree, OwnerDecides, Alone, SomeoneLive, Live
<1>6. crashed' \in BOOLEAN
  BY DEF Crash
<1>7. QED
  BY <1>1, <1>2, <1>3, <1>4, <1>5, <1>6 DEF Shown, SandboxTypeOK

LEMMA SandboxStep ==
    ASSUME SandboxInv, [SandboxNext]_sandboxVars
    PROVE  SandboxInv'
<1>1. CASE SandboxNext
  <2>1. Shown
    BY <1>1, StepKinds, CreateStep, GoOnStep, RefreshStep, ResumeStep, LeaveStep,
       RemoveStep, ResumeFailsStep, CrashStep
  <2>2. /\ snapshots' \in [Sessions -> Dirs]
        /\ last' \in Contents /\ known' \in BOOLEAN
        /\ had' \in [Files -> SUBSET (0..MaxVersions)]
    BY <1>1, SnapshotsStep DEF SandboxInv, RememberedIsTyped, Hads
  <2>3. QED
    BY <2>1, <2>2 DEF Shown, SandboxInv, SandboxTypeOK
<1>2. CASE UNCHANGED sandboxVars
  BY <1>2 DEF SandboxInv, SandboxTypeOK, Placed, OwnersAgree, OwnerDecides, Alone,
     SomeoneLive, Live, sandboxVars, disk, history
<1>3. QED
  BY <1>1, <1>2

(* What every step of sessions, resumes, failures and crashes keeps: who   *)
(* owns the workspace is known to all that work in it.                     *)
THEOREM SandboxInvariant == SandboxSpec => []SandboxInv
  BY Begins, SandboxStep, PTL DEF SandboxSpec

(* Every variable keeps its type: the snapshot a session is restored from  *)
(* exists as a place, whatever was removed or half copied before.          *)
THEOREM TypeCorrect == SandboxSpec => []SandboxTypeOK
<1>1. SandboxInv => SandboxTypeOK
  BY DEF SandboxInv
<1>2. QED
  BY <1>1, SandboxInvariant, PTL

(* No session, failing resume or cleanup removes a caller's workspace, and *)
(* without a crash the runner's goes with the last session that owns it.   *)
THEOREM OwnerCorrect == SandboxSpec => []OwnerDecides
<1>1. SandboxInv => OwnerDecides
  BY DEF SandboxInv
<1>2. QED
  BY <1>1, SandboxInvariant, PTL

(* A session that is alone and was not cleaned up has its workspace.       *)
THEOREM WorkspaceCorrect == SandboxSpec => []SessionsHaveTheirWorkspace
<1>1. SandboxInv => SessionsHaveTheirWorkspace
  BY DEF SandboxInv, Alone, SessionsHaveTheirWorkspace
<1>2. QED
  BY <1>1, SandboxInvariant, PTL

-----------------------------------------------------------------------------
(* What a resume restores.  While sessions come one after the other, there *)
(* is one snapshot directory: the session that works and the state that is *)
(* kept name it or none, it holds the last copy or, when that broke off, a *)
(* part of what the copy could have been, and a restore unpacks it into an *)
(* empty directory.                                                        *)

Holds(d) == IF known THEN snapshots[d].files = last ELSE IsPart(snapshots[d].files)

Copying(s) ==
    ~known /\ IsPart(snapshots[SnapshotOf(s)].files) /\ IsPart(workspace.files)

Resumable ==
    ~shared =>
        /\ ~saved.there => saved.dir = NoDir
        /\ \A s \in Sessions : Live(s) /\ sess[s].at = "unpack" => workspace.files = Nothing
        /\ \A s \in Sessions : Live(s) /\ sess[s].at = "copy" => Copying(s)
        /\ \A s \in Sessions : Live(s) /\ saved.dir # NoDir => sess[s].dir = saved.dir
        /\ \A s \in Sessions : Live(s) /\ sess[s].dir # NoDir => Holds(sess[s].dir)
        /\ saved.dir # NoDir => Holds(saved.dir)

(* A step that keeps the snapshot that is in use.                          *)
LEMMA KeepsSnapshot ==
    ASSUME SandboxInv, Resumable, shared => shared',
           \/ saved' = saved
           \/ /\ saved'.there
              /\ \E s \in Sessions : Live(s) /\ saved'.dir = sess[s].dir,
           ~shared' =>
               \A t \in Sessions : Live(t)' =>
                   /\ \/ Live(t) /\ sess'[t].dir = sess[t].dir
                      \/ sess'[t].dir = saved.dir /\ \A u \in Sessions : ~Live(u)
                   /\ sess'[t].at = "unpack" => workspace'.files = Nothing
                   /\ sess'[t].at = "copy" => Copying(t)',
           ~shared' =>
               \A d \in Sessions \ {NoDir} :
                   /\ Holds(d)
                   /\ d = saved.dir \/ \E t \in Sessions : Live(t) /\ sess[t].dir = d
                   => Holds(d)'
    PROVE  Resumable'
<1> SUFFICES ASSUME ~shared'
             PROVE  Resumable!2'
  BY DEF Resumable
<1>1. ~shared /\ \A s, t \in Sessions : Live(s) /\ Live(t) => s = t
  BY DEF SandboxInv, Alone
<1>2. ~saved'.there => saved'.dir = NoDir
  BY <1>1 DEF Resumable
<1>3. \A t \in Sessions : Live(t)' /\ saved'.dir # NoDir => sess'[t].dir = saved'.dir
  BY <1>1 DEF Resumable
<1>4. /\ saved.dir \in SnapshotDirs
      /\ \A t \in Sessions : sess[t].dir \in SnapshotDirs
  BY DEF SandboxInv, SandboxTypeOK, SavedStates, SessionRecords
<1>5. \A d \in Sessions \ {NoDir} :
          d = saved.dir \/ (\E t \in Sessions : Live(t) /\ sess[t].dir = d) => Holds(d)'
  BY <1>1 DEF Resumable, SnapshotDirs
<1>6. ASSUME NEW t \in Sessions, Live(t)', sess'[t].dir # NoDir
      PROVE  Holds(sess[t].dir)'
  <2>1. sess'[t].dir = saved.dir \/ (Live(t) /\ sess'[t].dir = sess[t].dir)
    BY <1>6
  <2>2. PICK d \in Sessions \ {NoDir} : d = sess'[t].dir
    BY <1>4, <1>6, <2>1 DEF SnapshotDirs
  <2>3. Holds(d)'
    BY <1>5, <2>1, <2>2
  <2>4. QED
    BY <2>2, <2>3 DEF Holds, IsPart
<1>7. ASSUME saved'.dir # NoDir
      PROVE  Holds(saved.dir)'
  <2>1. saved'.dir = saved.dir \/ \E s \in Sessions : Live(s) /\ saved'.dir = sess[s].dir
    OBVIOUS
  <2>2. PICK d \in Sessions \ {NoDir} : d = saved'.dir
    BY <1>4, <1>7, <2>1 DEF SnapshotDirs
  <2>3. Holds(d)'
    BY <1>5, <2>1, <2>2
  <2>4. QED
    BY <2>2, <2>3 DEF Holds, IsPart
<1>8. QED
  BY <1>2, <1>3, <1>6, <1>7

(* A step that leaves the snapshots and their history alone, or only adds  *)
(* to what a file may be.                                                  *)
LEMMA StillHolds ==
    ASSUME UNCHANGED <<snapshots, last, known>>,
           had' = had \/ \A f \in Files : had[f] \subseteq had'[f]
    PROVE  \A d \in Sessions : Holds(d) => Holds(d)'
  BY DEF Holds, IsPart

LEMMA AtIsLive == \A s \in Sessions : \A point : At(s, point) => Live(s) /\ sess[s].at = point
  BY DEF At

LEMMA NoDirIsNoSession ==
    ASSUME SandboxInv
    PROVE  \A s \in Sessions : /\ sess[s].dir # NoDir => sess[s].dir \in Sessions
                               /\ saved.dir # NoDir => saved.dir \in Sessions
  BY DEF SandboxInv, SandboxTypeOK, SessionRecords, SavedStates, SnapshotDirs

LEMMA NobodyYet ==
    ASSUME SandboxInv, kind = "none"
    PROVE  /\ \A t \in Sessions : sess[t] = Unborn /\ ~Live(t)
           /\ ~saved.there
<1>1. (\A t \in Sessions : sess[t] = Unborn) /\ ~saved.there
  BY DEF SandboxInv, OwnersAgree
<1>2. Unborn.phase = "unborn"
  BY DEF Unborn
<1>3. QED
  BY <1>1, <1>2 DEF Live

LEMMA GoOnResumable ==
    ASSUME SandboxInv, Resumable, NEW s \in Sessions, GoOn(s)
    PROVE  Resumable'
<1>1. /\ Live(s) /\ OwnerStays(s) /\ saved' = saved /\ UNCHANGED <<kind, shared, crashed>>
  BY GoesOn DEF SandboxInv
<1>2. ~shared => \A t \in Sessions : Live(t) => t = s
  BY <1>1 DEF SandboxInv, Alone
<1>3. \A t \in Sessions : Live(t)' => Live(t) /\ sess'[t].dir = sess[t].dir
  BY <1>1 DEF OwnerStays, Live
<1>4. sess'[s].at = "unpack" => workspace'.files = Nothing
  <2>1. CASE RestoreIsNeeded(s)
    BY <2>1, ContentsType DEF RestoreIsNeeded
  <2>2. CASE ~RestoreIsNeeded(s)
    <3>1. \/ \E after \in {"return", "save"} : Refresh(s, after)
          \/ \E point \in Places \ {"unpack"} : Goes(s, point)
          \/ Fingerprint(s)
          \/ sess' = sess /\ sess[s].at \notin {"restore", "unpack"}
      BY <2>2 DEF GoOn, Work, Drift, ApplyManifest, Save, RestoreIsNotNeeded, Unpack,
         RemoveSnapshot, RemoveSnapshotFails, CleanupFails, Idle, Places
    <3>2. QED
      BY <3>1, RefreshKeeps, GoesKeeps, FingerprintKeeps DEF SandboxInv
  <2>3. QED
    BY <2>1, <2>2
<1>5. SnapshotOf(s) \in Sessions /\ sess[s].dir \in SnapshotDirs
  BY RecordsType DEF SandboxInv, SnapshotOf, SessionRecords, SnapshotDirs
<1>6. ASSUME ~shared', NEW d \in Sessions \ {NoDir}, Holds(d),
             d = saved.dir \/ \E t \in Sessions : Live(t) /\ sess[t].dir = d
      PROVE  Holds(d)'
  <2>0. ~shared /\ d = sess[s].dir /\ d = SnapshotOf(s)
    BY <1>1, <1>2, <1>6, NoDirIsNoSession DEF Resumable, SnapshotOf
  <2>1. CASE Fingerprint(s)
    <3>1. snapshots'[d].files = Nothing /\ known' = FALSE
      BY <1>6, <2>0, <2>1, RecordsType DEF Fingerprint, Remembered, SandboxInv, SandboxTypeOK, Dir
    <3>2. QED
      BY <3>1 DEF Holds, IsPart, Nothing
  <2>2. CASE RemoveSnapshot(s)
    <3>1. snapshots'[d].files = Nothing /\ known' = FALSE
      BY <1>6, <2>0, <2>2, NoDirIsNoSession
         DEF RemoveSnapshot, Remembered, SandboxInv, SandboxTypeOK, Absent
    <3>2. QED
      BY <3>1 DEF Holds, IsPart, Nothing
  <2>3. CASE RemoveSnapshotFails(s)
    <3>1. PICK some \in SUBSET Files :
              snapshots' = [snapshots EXCEPT ![d].files = Part(@, some)]
      BY <2>0, <2>3 DEF RemoveSnapshotFails
    <3>2. had' = Only(snapshots[d].files) /\ known' = FALSE
      BY <1>6, <2>0, <2>3 DEF RemoveSnapshotFails, Remembered
    <3>3. snapshots'[d].files = Part(snapshots[d].files, some)
      BY <3>1 DEF SandboxInv, SandboxTypeOK, Dirs
    <3>4. QED
      BY <3>2, <3>3 DEF Holds, IsPart, Part, Only
  <2>4. CASE \E f \in Files : Work(s, f) \/ Drift(s, f) \/ ApplyManifest(s, f)
    <3>1. PICK f \in Files, c \in 0..MaxVersions : Change(f, c)
      BY <2>4 DEF Work, Drift, ApplyManifest
    <3>2. UNCHANGED <<snapshots, last, known>>
      BY <2>4 DEF Work, Drift, ApplyManifest
    <3>3. QED
      BY <1>6, <3>1, <3>2, ChangeType, StillHolds DEF SandboxInv
  <2>5. CASE \/ Save(s) \/ CleanupFails(s)
             \/ RestoreIsNotNeeded(s) \/ RestoreIsNeeded(s) \/ Unpack(s)
    <3>1. UNCHANGED <<snapshots, last, known>> /\ had' = had
      BY <2>5 DEF Save, CleanupFails, RestoreIsNotNeeded, RestoreIsNeeded, Unpack, disk, history
    <3>2. QED
      BY <1>6, <3>1, StillHolds
  <2>6. QED
    BY <2>1, <2>2, <2>3, <2>4, <2>5 DEF GoOn
<1>7. ASSUME ~shared', sess'[s].at = "copy"
      PROVE  Copying(s)'
  <2>1. CASE Fingerprint(s)
    <3>1. /\ snapshots' = [snapshots EXCEPT ![SnapshotOf(s)] = Dir(Nothing)]
          /\ known' = FALSE /\ had' = Only(workspace.files) /\ workspace' = workspace
      BY <1>7, <2>1 DEF Fingerprint, Remembered
    <3>2. SnapshotOf(s)' = SnapshotOf(s)
      BY <1>1 DEF OwnerStays, SnapshotOf
    <3>3. snapshots'[SnapshotOf(s)].files = Nothing
      BY <1>5, <3>1 DEF SandboxInv, SandboxTypeOK, Dir
    <3>4. QED
      BY <3>1, <3>2, <3>3 DEF Copying, IsPart, Nothing, Only
  <2>2. CASE ~Fingerprint(s)
    <3>1. \/ \E after \in {"return", "save"} : Refresh(s, after)
          \/ \E point \in Places \ {"copy"} : Goes(s, point)
          \/ sess' = sess
      BY <2>2 DEF GoOn, Work, Drift, ApplyManifest, Save, RestoreIsNotNeeded,
         RestoreIsNeeded, Unpack, RemoveSnapshot, RemoveSnapshotFails, CleanupFails, Places
    <3>2. sess' = sess /\ At(s, "copy")
      BY <1>1, <1>7, <3>1, RefreshKeeps, GoesKeeps DEF SandboxInv, At
    <3>3. ~shared /\ Copying(s)
      BY <1>1, <1>7, <3>2 DEF Resumable, At
    <3>4. PICK f \in Files : Drift(s, f)
      <4>1. /\ ~(\E f \in Files : Work(s, f) \/ ApplyManifest(s, f)) /\ ~Save(s)
            /\ ~RemoveSnapshot(s) /\ ~RemoveSnapshotFails(s)
        BY <3>2 DEF Work, ApplyManifest, Save, RemoveSnapshot, RemoveSnapshotFails, Idle, At
      <4>2. /\ ~CleanupFails(s)
            /\ ~RestoreIsNotNeeded(s) /\ ~RestoreIsNeeded(s) /\ ~Unpack(s)
        BY <3>2 DEF CleanupFails, RestoreIsNotNeeded, RestoreIsNeeded, Unpack, At
      <4>3. QED
        BY <2>2, <4>1, <4>2 DEF GoOn
    <3>5. PICK c \in 0..MaxVersions : Change(f, c)
      BY <3>4 DEF Drift
    <3>6. /\ workspace'.files = [workspace.files EXCEPT ![f] = c]
          /\ had' = [had EXCEPT ![f] = @ \cup {c}]
      BY <3>2, <3>3, <3>5 DEF Change, Dir
    <3>7. UNCHANGED <<snapshots, known>>
      BY <3>4 DEF Drift
    <3>8. /\ had \in [Files -> SUBSET (0..MaxVersions)] /\ workspace.files \in Contents
          /\ SnapshotOf(s)' = SnapshotOf(s)
      BY <3>2, RecordsType DEF SandboxInv, SandboxTypeOK, SnapshotOf
    <3>9. IsPart(workspace.files)'
      BY <3>3, <3>6, <3>8 DEF Copying, IsPart, Contents
    <3>10. IsPart(snapshots[SnapshotOf(s)].files)'
      BY <3>3, <3>6, <3>7, <3>8 DEF Copying, IsPart
    <3>11. QED
      BY <3>3, <3>7, <3>9, <3>10 DEF Copying
  <2>3. QED
    BY <2>1, <2>2
<1>8. QED
  BY <1>1, <1>2, <1>3, <1>4, <1>6, <1>7, KeepsSnapshot

(* A refresh ends: it failed, or the snapshot is the new copy.             *)
LEMMA RefreshResumable ==
    ASSUME SandboxInv, Resumable, NEW s \in Sessions,
           FingerprintFails(s) \/ ClearFails(s) \/ CopyToSnapshot(s) \/ CopyFails(s)
    PROVE  Resumable'
<1>1. /\ Live(s) /\ UNCHANGED <<kind, shared, crashed>>
      /\ sess' \in [Sessions -> SessionRecords] /\ sess'[s].at = "idle"
      /\ \A t \in Sessions \ {s} : sess'[t] = sess[t]
  BY RefreshEnds DEF SandboxInv
<1>2. ~shared => \A t \in Sessions : Live(t) => t = s
  BY <1>1 DEF SandboxInv, Alone
<1>3. sess \in [Sessions -> SessionRecords] /\ sess[s] \in SessionRecords
  BY DEF SandboxInv, SandboxTypeOK
<1>4. CASE FingerprintFails(s) \/ ClearFails(s) \/ CopyFails(s)
  <2>1. Ends(s, sess[s], FALSE)
    BY <1>4 DEF FingerprintFails, ClearFails, CopyFails
  <2>2. Live(s)' => sess'[s].dir = sess[s].dir
    <3>1. Returned(sess[s]).dir = sess[s].dir
      BY <1>3 DEF Returned, SessionRecords
    <3>2. sess'[s] = Dropped \/ sess'[s] = Returned(sess[s])
      BY <1>3, <2>1 DEF Ends
    <3>3. QED
      BY <3>1, <3>2, RecordType DEF Live
  <2>3. saved' = saved \/ (saved'.there /\ saved'.dir = sess[s].dir)
    BY <2>1 DEF Ends, StateOf
  <2>4. \A t \in Sessions : Live(t)' => Live(t) /\ sess'[t].dir = sess[t].dir
    BY <1>1, <2>2 DEF Live
  <2>5. ASSUME ~shared', NEW d \in Sessions \ {NoDir}, Holds(d),
               d = saved.dir \/ \E t \in Sessions : Live(t) /\ sess[t].dir = d
        PROVE  Holds(d)'
    <3>1. CASE FingerprintFails(s)
      BY <2>5, <3>1, StillHolds DEF FingerprintFails, disk, history
    <3>2. d = SnapshotOf(s)
      BY <1>1, <1>2, <2>5 DEF Resumable, SnapshotOf
    <3>3. CASE ClearFails(s)
      <4>1. PICK some \in SUBSET Files :
                snapshots' = [snapshots EXCEPT ![d].files = Part(@, some)]
        BY <3>2, <3>3 DEF ClearFails
      <4>2. had' = Only(snapshots[d].files) /\ known' = FALSE
        BY <2>5, <3>2, <3>3 DEF ClearFails, Remembered
      <4>3. snapshots'[d].files = Part(snapshots[d].files, some)
        BY <4>1 DEF SandboxInv, SandboxTypeOK, Dirs
      <4>4. QED
        BY <4>2, <4>3 DEF Holds, IsPart, Part, Only
    <3>4. CASE CopyFails(s)
      <4>1. Copying(s) /\ UNCHANGED <<known, had>>
        BY <1>1, <2>5, <3>4, AtIsLive DEF CopyFails, Resumable, history
      <4>2. PICK some \in SUBSET Files :
                snapshots'[d].files = Copied(Part(workspace.files, some), snapshots[d].files)
        BY <3>2, <3>4 DEF CopyFails, SandboxInv, SandboxTypeOK, Dir
      <4>3. QED
        BY <3>2, <4>1, <4>2 DEF Copying, Holds, IsPart, Copied, Part
    <3>5. QED
      BY <1>4, <3>1, <3>3, <3>4
  <2>6. QED
    BY <1>1, <1>2, <2>3, <2>4, <2>5, KeepsSnapshot
<1>5. CASE CopyToSnapshot(s)
  <2>0. PICK d, copy : /\ d = SnapshotOf(s)
                       /\ copy = Copied(workspace.files, snapshots[d].files)
    OBVIOUS
  <2>1. PICK r : r = [sess[s] EXCEPT !.dir = d, !.print = sess[s].seen]
    OBVIOUS
  <2>2. /\ r \in SessionRecords /\ r.dir = d /\ d \in Sessions
        /\ sess[s].dir \in {NoDir, d}
    BY <1>3, <2>0, <2>1 DEF SessionRecords, SnapshotOf, SnapshotDirs
  <2>3. /\ snapshots' = [snapshots EXCEPT ![d] = Dir(copy)]
        /\ Ends(s, r, TRUE)
        /\ Remembered(copy, TRUE, Nowhere) \/ Remembered(Nothing, FALSE, had)
    BY <1>5, <2>0, <2>1 DEF CopyToSnapshot
  <2>4. sess'[s] = Returned(r) /\ sess'[s].dir = d
    BY <1>3, <2>2, <2>3 DEF Ends, Returned, SessionRecords
  <2>5. saved' = saved \/ (saved'.there /\ saved'.dir = d)
    BY <2>2, <2>3 DEF Ends, StateOf
  <2> SUFFICES ASSUME ~shared'
               PROVE  Resumable!2'
    BY DEF Resumable
  <2>7. ~shared /\ \A t \in Sessions : Live(t)' => t = s
    BY <1>1, <1>2 DEF Live
  <2>8. /\ ~saved'.there => saved'.dir = NoDir
        /\ saved'.dir \in {NoDir, d}
    BY <1>1, <2>2, <2>5, <2>7 DEF Resumable
  <2>9. Copying(s)
    BY <1>1, <1>5, <2>7, AtIsLive DEF CopyToSnapshot, Resumable
  <2>10. Holds(d)'
    <3>1. snapshots'[d].files = copy
      BY <2>2, <2>3 DEF SandboxInv, SandboxTypeOK, Dir
    <3>2. CASE Remembered(copy, TRUE, Nowhere)
      BY <3>1, <3>2 DEF Remembered, Holds
    <3>3. CASE Remembered(Nothing, FALSE, had)
      <4>1. had' = had /\ known' = FALSE
        BY <3>3 DEF Remembered
      <4>2. QED
        BY <2>0, <2>9, <3>1, <4>1 DEF Holds, Copying, IsPart, Copied
    <3>4. QED
      BY <2>3, <3>2, <3>3
  <2>11. sess'[s].dir # NoDir => Holds(sess[s].dir)'
    BY <2>4, <2>10 DEF Holds, IsPart
  <2>12. saved'.dir # NoDir => Holds(saved.dir)'
    BY <2>8, <2>10 DEF Holds, IsPart
  <2>13. QED
    BY <1>1, <2>4, <2>7, <2>8, <2>11, <2>12
<1>6. QED
  BY <1>4, <1>5

LEMMA OtherResumable ==
    ASSUME SandboxInv, Resumable, NEW s \in Sessions,
           \/ CreateForRun(s) \/ CreateCallerOwned(s) \/ ResumeFrom(s)
           \/ RestoreFails(s) \/ UnpackFails(s) \/ DropSession(s) \/ RemoveWorkspace(s)
    PROVE  Resumable'
<1> USE DEF SandboxInv
<1>1. CASE CreateForRun(s) \/ CreateCallerOwned(s)
  <2>1. kind = "none"
    BY <1>1 DEF CreateForRun, CreateCallerOwned
  <2>2. /\ \A t \in Sessions : sess[t] = Unborn /\ ~Live(t)
        /\ ~saved.there
    BY <2>1, NobodyYet
  <2>3. /\ \A t \in Sessions \ {s} : sess'[t] = sess[t]
        /\ sess'[s].at \in {"idle", "print"} /\ sess'[s].dir = NoDir
        /\ UNCHANGED <<snapshots, saved, last, known, had, shared>>
    <3>1. \A t \in Sessions \ {s} : sess'[t] = sess[t]
      BY <1>1, <2>2, Creates
    <3>2. sess'[s].at \in {"idle", "print"} /\ sess'[s].dir = NoDir
      BY <1>1, <2>2 DEF CreateForRun, CreateCallerOwned, SandboxTypeOK, Unborn
    <3>3. QED
      BY <1>1, <3>1, <3>2 DEF CreateForRun, CreateCallerOwned
  <2>4. ~shared => saved.dir = NoDir
    BY <2>2 DEF Resumable
  <2>5. \A t \in Sessions : Live(t)' => t = s
    BY <2>2, <2>3 DEF Live
  <2>6. QED
    BY <2>2, <2>3, <2>4, <2>5, KeepsSnapshot, StillHolds
<1>2. CASE ResumeFrom(s)
  <2>1. /\ sess'[s].at = "restore" /\ \A t \in Sessions \ {s} : sess'[t] = sess[t]
        /\ shared' = (shared \/ SomeoneLive)
        /\ UNCHANGED <<snapshots, saved>>
        /\ ~shared' => UNCHANGED <<last, known, had>>
    BY <1>2, Resumes
  <2>2. sess'[s].dir = saved.dir
    BY <1>2 DEF ResumeFrom, SandboxTypeOK, Unborn
  <2>3. ~shared' => \A t \in Sessions : ~Live(t)
    BY <2>1 DEF SomeoneLive
  <2>4. ~shared' => \A t \in Sessions : Live(t)' => t = s
    BY <2>1, <2>3 DEF Live
  <2>5. QED
    BY <2>1, <2>2, <2>3, <2>4, KeepsSnapshot, StillHolds
<1>3. CASE RestoreFails(s) \/ UnpackFails(s) \/ DropSession(s) \/ RemoveWorkspace(s)
  <2>1. /\ Live(s) /\ sess'[s].at = "idle" /\ \A t \in Sessions \ {s} : sess'[t] = sess[t]
        /\ UNCHANGED <<snapshots, saved, last, known, had, shared>>
    BY <1>3, Leaves, Removes DEF history
  <2>2. Live(s)' => sess'[s].dir = sess[s].dir
    <3>1. CASE RemoveWorkspace(s)
      BY <3>1 DEF RemoveWorkspace, SandboxTypeOK, SessionRecords
    <3>2. CASE RestoreFails(s) \/ UnpackFails(s) \/ DropSession(s)
      BY <3>2, Leaves DEF Live
    <3>3. QED
      BY <1>3, <3>1, <3>2
  <2>3. ~shared => \A t \in Sessions : Live(t)' => t = s
    BY <2>1 DEF Alone, Live
  <2>4. QED
    BY <2>1, <2>2, <2>3, KeepsSnapshot, StillHolds
<1>4. QED
  BY <1>1, <1>2, <1>3

LEMMA ResumableStep ==
    ASSUME SandboxInv, Resumable, [SandboxNext]_sandboxVars
    PROVE  Resumable'
<1>1. CASE ResumeFails
  <2>1. /\ shared' = (shared \/ SomeoneLive)
        /\ UNCHANGED <<snapshots, sess, saved>>
        /\ ~shared' => UNCHANGED <<last, known, had>>
    BY <1>1 DEF ResumeFails, Remembered, SandboxInv, SandboxTypeOK
  <2>2. ~shared' => \A t \in Sessions : ~Live(t)'
    BY <2>1 DEF SomeoneLive, Live
  <2>3. QED
    BY <2>1, <2>2, KeepsSnapshot, StillHolds
<1>2. CASE Crash
  <2>1. \A t \in Sessions : ~Live(t)'
    BY <1>2, Dies DEF SandboxInv, Live
  <2>2. UNCHANGED <<snapshots, saved, last, known, had, shared>>
    BY <1>2 DEF Crash, disk
  <2>3. QED
    BY <2>1, <2>2, KeepsSnapshot, StillHolds
<1>3. CASE UNCHANGED sandboxVars
  BY <1>3 DEF Resumable, Live, Copying, Holds, IsPart, SnapshotOf, sandboxVars, disk, history
<1>4. QED
  BY <1>1, <1>2, <1>3, StepKinds, GoOnResumable, RefreshResumable, OtherResumable

LEMMA CopiedOnNothing == \A c \in Contents : Copied(c, Nothing) = c
  BY DEF Copied, Nothing, Contents

(* The two steps that give a resumed session out.                          *)
LEMMA RestoredIsRight ==
    ASSUME SandboxInv, Resumable, SandboxNext, NEW s \in Sessions, Restored(s), ~shared
    PROVE  \/ workspace' = Dir(sess[s].print)
           \/ known /\ workspace' = Dir(last)
           \/ ~known /\ workspace'.up /\ IsPart(workspace'.files)
<1>1. /\ Live(s) /\ sess[s].at \in {"restore", "unpack"} /\ sess[s].dir # NoDir
      /\ sess'[s].phase = "live" /\ sess'[s].at = "idle" /\ sess'[s] # sess[s]
  BY DEF Restored
<1>2. CASE RestoreIsNotNeeded(s)
  BY <1>1, <1>2 DEF RestoreIsNotNeeded
<1>3. CASE Unpack(s)
  <2>1. sess[s].dir \in Sessions /\ sess[s].at = "unpack"
    BY <1>3, AtIsLive DEF SandboxInv, Placed, Unpack
  <2>2. workspace.files = Nothing /\ Holds(sess[s].dir)
    BY <1>1, <2>1 DEF Resumable
  <2>3. snapshots[sess[s].dir].files \in Contents
    BY <2>1, RecordsType DEF SandboxInv, Dirs
  <2>4. workspace' = Dir(snapshots[sess[s].dir].files)
    BY <1>3, <2>2, <2>3, CopiedOnNothing DEF Unpack
  <2>5. QED
    BY <2>2, <2>4 DEF Holds, Dir, IsPart
<1>4. \/ RestoreIsNotNeeded(s) \/ Unpack(s)
  <2>1. CASE ResumeFails \/ Crash
    BY <1>1, <2>1, Dies DEF ResumeFails, SandboxInv
  <2>2. ASSUME NEW t \in Sessions, t # s, GoOn(t)
        PROVE  FALSE
    BY <1>1, <2>2, GoesOn DEF SandboxInv, OwnerStays
  <2>3. ASSUME NEW t \in Sessions,
               FingerprintFails(t) \/ ClearFails(t) \/ CopyToSnapshot(t) \/ CopyFails(t)
        PROVE  FALSE
    <3>1. sess[t].at \in {"print", "copy"}
      BY <2>3 DEF FingerprintFails, ClearFails, CopyToSnapshot, CopyFails, At
    <3>2. QED
      BY <1>1, <2>3, <3>1, RefreshEnds DEF SandboxInv
  <2>4. ASSUME NEW t \in Sessions, CreateForRun(t) \/ CreateCallerOwned(t)
        PROVE  FALSE
    BY <1>1, <2>4, NobodyYet DEF CreateForRun, CreateCallerOwned
  <2>5. ASSUME NEW t \in Sessions, ResumeFrom(t)
        PROVE  FALSE
    BY <1>1, <2>5, Resumes DEF SandboxInv, Live, Unborn
  <2>6. ASSUME NEW t \in Sessions, RestoreFails(t) \/ UnpackFails(t) \/ DropSession(t)
        PROVE  FALSE
    BY <1>1, <2>6, Leaves DEF SandboxInv
  <2>7. ASSUME NEW t \in Sessions, RemoveWorkspace(t)
        PROVE  FALSE
    <3>1. sess[t].at = "cleanup" /\ \A u \in Sessions \ {t} : sess'[u] = sess[u]
      BY <2>7, Removes DEF SandboxInv, RemoveWorkspace, At
    <3>2. QED
      BY <1>1, <3>1
  <2>8. CASE GoOn(s)
    <3>1. ~(\E f \in Files : Work(s, f) \/ ApplyManifest(s, f)) /\ ~Save(s)
          /\ ~RemoveSnapshot(s) /\ ~RemoveSnapshotFails(s)
      BY <1>1 DEF Work, ApplyManifest, Save, RemoveSnapshot, RemoveSnapshotFails, Idle
    <3>2. ~Fingerprint(s) /\ ~CleanupFails(s)
      BY <1>1 DEF Fingerprint, CleanupFails, At
    <3>3. ~(\E f \in Files : Drift(s, f))
      BY <1>1 DEF Drift
    <3>4. ~RestoreIsNeeded(s)
      BY <1>1, GoesKeeps DEF RestoreIsNeeded, SandboxInv, Places
    <3>5. QED
      BY <2>8, <3>1, <3>2, <3>3, <3>4 DEF GoOn
  <2>9. QED
    BY <2>1, <2>2, <2>3, <2>4, <2>5, <2>6, <2>7, <2>8, StepKinds
<1>5. QED
  BY <1>2, <1>3, <1>4

(* However a session ended, crashed or drifted before, the next one that   *)
(* resume() gives out finds the last complete refresh, or the contents its *)
(* state was taken with; or a part, after a refresh or cleanup that broke  *)
(* off, of what was being copied or cleared then: sessions on one          *)
(* workspace used one at a time.                                           *)
THEOREM ResumeCorrect == SandboxSpec => ResumeRestoresTheLastRefresh
<1>1. SandboxInit => Resumable
  BY DEF SandboxInit, Resumable, Live, Unborn
<1>2. SandboxInv /\ Resumable /\ [SandboxNext]_sandboxVars => Resumable'
  BY ResumableStep
<1>3. SandboxInv /\ Resumable /\ [SandboxNext]_sandboxVars =>
          [\A s \in Sessions :
              Restored(s) /\ ~shared =>
                  \/ workspace' = Dir(sess[s].print)
                  \/ known /\ workspace' = Dir(last)
                  \/ /\ ~known
                     /\ workspace'.up /\ IsPart(workspace'.files)]_sandboxVars
  BY RestoredIsRight
<1>4. QED
  BY <1>1, <1>2, <1>3, SandboxInvariant, PTL DEF SandboxSpec, ResumeRestoresTheLastRefresh

-----------------------------------------------------------------------------
(* The compaction session.                                                 *)

(* A run whose response is yet to be noted.                                *)
Noting == run.at \in {"working", "check", "save", "compact"} \/ run.auto

(* An id that is of an earlier run than the one to be noted, and of a      *)
(* response that was stored.                                               *)
Fresh(id) ==
    id \notin unstored /\ id <= run.no /\ (Noting => id < run.no)

Candidate == Or(ids.deferred, ids.response)

Resting == RunAt("done") => run = Finished(run.no)

UnstoredInv ==
    ~cut /\ ~asked =>
        /\ mode # "previous"
        /\ unstored \subseteq 1..run.no
        /\ Noting => run.no \notin unstored /\ Fresh(run.offered)
        /\ Fresh(run.to)
        /\ \A item \in ToSet(kept) \cup ToSet(run.next) : Fresh(item.id)
        /\ Candidate <= run.no
        /\ Candidate \in unstored => Candidate = ids.unstored
        /\ RunAt("compact") =>
               ids = [NoIds EXCEPT !.response =
                          IF mode = "input" THEN NoId ELSE Tracked]

(* Item number n is a candidate, and older than every one in "items".      *)
Forgotten(n, items) ==
    /\ n \in forgettable
    /\ \A item \in items : IsCandidate(item) => n < item.n

(* Of the items added so far: what is not in "items" was popped, cleared,  *)
(* lost, or is an older candidate than every one there is.                 *)
LostAreOld(items) ==
    \A n \in (1..added) \ (removed \cup lost) :
        \/ \E item \in items : item.n = n
        \/ Forgotten(n, items)

CandidatesAre(items) ==
    \A item \in items : IsCandidate(item) => item.n \in forgettable

RewriteInv ==
    /\ ~RunAt("put") => LostAreOld(ToSet(kept))
    /\ RunAt("put") => kept = <<>>
    /\ RunAt("clear") \/ RunAt("put") => LostAreOld(ToSet(run.next))
    /\ ~RunAt("clear") /\ ~RunAt("put") => run.next = <<>>
    /\ CandidatesAre(ToSet(kept)) /\ CandidatesAre(ToSet(run.next))

CompactionInv ==
    /\ CompactionTypeOK
    /\ mode = "unopened" => ~asked /\ RunAt("done")
    /\ Resting
    /\ UnstoredInv
    /\ RewriteInv

LEMMA FinishedIs ==
    ASSUME NEW no \in Ids
    PROVE  /\ Finished(no) \in RunRecords
           /\ Finished(no).no = no /\ Finished(no).at = "done"
           /\ Finished(no).offered = NoId /\ Finished(no).to = NoId
           /\ Finished(no).has = FALSE /\ Finished(no).store = "unset"
           /\ Finished(no).auto = FALSE /\ Finished(no).force = FALSE
           /\ Finished(no).next = <<>>
<1>1. NoId \in Ids /\ <<>> \in Seq(SessionItems)
  BY CompactionAssumption DEF Ids, NoId
<1>2. QED
  BY <1>1 DEF Finished, RunRecords, RunPlaces

LEMMA GoesIs ==
    ASSUME run \in RunRecords, NEW spot \in RunPlaces, RunGoes(spot)
    PROVE  /\ run' \in RunRecords
           /\ run'.at = spot /\ run'.no = run.no
           /\ spot = "done" => run' = Finished(run.no)
           /\ spot # "done" =>
                  /\ run'.offered = run.offered /\ run'.has = run.has
                  /\ run'.store = run.store /\ run'.auto = run.auto
                  /\ run'.force = run.force /\ run'.to = run.to
                  /\ run'.next = run.next
<1>1. run.no \in Ids
  BY DEF RunRecords
<1>2. CASE spot = "done"
  <2>1. run' = Finished(run.no)
    BY <1>2 DEF RunGoes
  <2>2. QED
    BY <1>1, <1>2, <2>1, FinishedIs
<1>3. CASE spot # "done"
  <2>1. run' = [run EXCEPT !.at = spot]
    BY <1>3 DEF RunGoes
  <2>2. QED
    BY <1>3, <2>1 DEF RunRecords
<1>4. QED
  BY <1>2, <1>3

LEMMA IdsAre ==
    ASSUME CompactionTypeOK
    PROVE  /\ NoId = 0 /\ NoId \in Ids /\ Ids \subseteq Nat
           /\ run \in RunRecords /\ run.no \in Ids /\ run.offered \in Ids
           /\ run.to \in Ids /\ run.at \in RunPlaces
           /\ run.has \in BOOLEAN /\ run.auto \in BOOLEAN /\ run.force \in BOOLEAN
           /\ run.store \in {"true", "false", "unset"}
           /\ run.next \in Seq(SessionItems)
           /\ ids.response \in Ids /\ ids.deferred \in Ids /\ ids.unstored \in Ids
           /\ Tracked \in Ids /\ Candidate \in Ids /\ Offered \in Ids
           /\ \A item \in ToSet(kept) \cup ToSet(run.next) :
                  item \in SessionItems /\ item.id \in Ids
<1>1. NoId = 0 /\ NoId \in Ids /\ Ids \subseteq Nat
  BY CompactionAssumption DEF Ids, NoId
<1>2. /\ run \in RunRecords /\ run.no \in Ids /\ run.offered \in Ids
      /\ run.to \in Ids /\ run.at \in RunPlaces
      /\ run.has \in BOOLEAN /\ run.auto \in BOOLEAN /\ run.force \in BOOLEAN
      /\ run.store \in {"true", "false", "unset"}
      /\ run.next \in Seq(SessionItems)
  BY DEF CompactionTypeOK, RunRecords
<1>3. ids.response \in Ids /\ ids.deferred \in Ids /\ ids.unstored \in Ids
  BY DEF CompactionTypeOK
<1>4. Tracked \in Ids /\ Candidate \in Ids /\ Offered \in Ids
  BY <1>1, <1>2, <1>3 DEF Tracked, Candidate, Offered, Or
<1>5. kept \in Seq(SessionItems)
  BY DEF CompactionTypeOK
<1>6. ToSet(kept) \subseteq SessionItems /\ ToSet(run.next) \subseteq SessionItems
  BY <1>2, <1>5, HoldsAt
<1>7. \A item \in SessionItems : item.id \in Ids
  BY <1>1 DEF SessionItems
<1>8. QED
  BY <1>1, <1>2, <1>3, <1>4, <1>6, <1>7

(* What stays as it is while the items and what is known of them do.       *)
LEMMA RewriteKeeps ==
    ASSUME RewriteInv, UNCHANGED <<kept, added, forgettable, removed, lost>>,
           run'.next = run.next \/ run'.next = <<>>,
           ~RunAt("put"), ~RunAt("clear"), ~RunAt("put")', ~RunAt("clear")'
    PROVE  RewriteInv'
<1>1. /\ LostAreOld(ToSet(kept))' = LostAreOld(ToSet(kept))
      /\ CandidatesAre(ToSet(kept))' = CandidatesAre(ToSet(kept))
  BY DEF LostAreOld, Forgotten, CandidatesAre
<1>2. run.next = <<>> /\ run'.next = <<>>
  BY DEF RewriteInv
<1>3. CandidatesAre(ToSet(run.next))'
  BY <1>2, EmptyHolds DEF CandidatesAre
<1>4. QED
  BY <1>1, <1>2, <1>3 DEF RewriteInv

LEMMA OpenCompactionStep ==
    ASSUME CompactionInv, OpenCompaction PROVE CompactionInv'
<1>1. CompactionTypeOK'
  BY DEF CompactionInv, CompactionTypeOK, OpenCompaction, Modes, itemHistory
<1>2. /\ mode' # "unopened" /\ RunAt("done")
      /\ ~asked /\ mode = "unopened" /\ (~asked' => mode' # "previous")
      /\ UNCHANGED <<kept, ids, run, unstored, cut>>
      /\ UNCHANGED <<added, forgettable, removed, lost>>
  BY DEF CompactionInv, OpenCompaction, Modes, itemHistory
<1>3. Resting'
  BY <1>2 DEF CompactionInv, Resting, RunAt, Finished
<1>4. RewriteInv'
  BY <1>2, RewriteKeeps DEF CompactionInv, RunAt
<1>5. UnstoredInv'
  <2>1. /\ Noting' = Noting /\ Candidate' = Candidate
        /\ \A id : Fresh(id)' = Fresh(id)
        /\ ~RunAt("compact")'
    BY <1>2 DEF Noting, Candidate, Fresh, Or, RunAt
  <2>2. UnstoredInv
    BY DEF CompactionInv
  <2>3. QED
    BY <1>2, <2>1, <2>2 DEF UnstoredInv
<1>6. QED
  BY <1>1, <1>2, <1>3, <1>4, <1>5 DEF CompactionInv

LEMMA LoadStateStep ==
    ASSUME CompactionInv, LoadState PROVE CompactionInv'
<1>1. PICK has \in BOOLEAN, stored \in {"true", "false", "unset"} :
          run' = [Finished(run.no + 1) EXCEPT
                    !.at = "working", !.offered = Offered,
                    !.has = has, !.store = stored]
  BY DEF LoadState, itemHistory
<1>2. /\ mode # "unopened" /\ RunAt("done") /\ run.no < MaxRuns
      /\ UNCHANGED <<mode, kept, ids, unstored, asked, cut>>
      /\ UNCHANGED <<added, forgettable, removed, lost>>
  BY DEF LoadState, itemHistory
<1>3. CompactionTypeOK
  BY DEF CompactionInv
<1>4. run.no + 1 \in Ids /\ run.no \in Nat
  BY <1>2, <1>3, IdsAre, CompactionAssumption DEF Ids, NoId
<1>5. /\ run' \in RunRecords /\ run'.at = "working" /\ run'.no = run.no + 1
      /\ run'.offered = Offered /\ run'.to = NoId /\ run'.next = <<>>
      /\ run'.auto = FALSE
  <2>1. Offered \in Ids
    BY <1>3, IdsAre
  <2>2. PICK f \in RunRecords : f = Finished(run.no + 1)
    BY <1>4, FinishedIs
  <2>3. /\ f.no = run.no + 1 /\ f.to = NoId /\ f.next = <<>> /\ f.auto = FALSE
    BY <2>2, <1>4, FinishedIs
  <2>4. run' = [f EXCEPT !.at = "working", !.offered = Offered,
                         !.has = has, !.store = stored]
    BY <1>1, <2>2
  <2> HIDE DEF Finished
  <2>5. QED
    BY <2>1, <2>3, <2>4 DEF RunRecords, RunPlaces
<1>6. CompactionTypeOK'
  BY <1>2, <1>3, <1>5 DEF CompactionTypeOK
<1>7. RewriteInv'
  BY <1>2, <1>5, RewriteKeeps DEF CompactionInv, RunAt
<1>8. UnstoredInv'
  <2> SUFFICES ASSUME ~cut', ~asked' PROVE UnstoredInv'
    BY DEF UnstoredInv
  <2>1. UnstoredInv /\ ~cut /\ ~asked
    BY <1>2 DEF CompactionInv
  <2>2. /\ mode # "previous" /\ unstored \subseteq 1..run.no
        /\ \A item \in ToSet(kept) : Fresh(item.id)
        /\ Candidate <= run.no
        /\ Candidate \in unstored => Candidate = ids.unstored
    BY <2>1 DEF UnstoredInv
  <2>3. /\ NoId = 0 /\ Offered \in Nat /\ Candidate \in Nat
        /\ \A item \in ToSet(kept) : item.id \in Nat
    BY <1>3, IdsAre
  <2>4. 0 \notin unstored /\ run.no + 1 \notin unstored /\ unstored \subseteq 1..(run.no + 1)
    BY <2>2, <1>4
  <2>5. Offered \notin unstored /\ Offered <= run.no
    <3>1. Offered = 0 \/ (Offered = Candidate /\ Candidate # ids.unstored)
      BY <2>3 DEF Offered, Candidate
    <3>2. QED
      BY <3>1, <2>2, <2>4, <1>4
  <2>6. \A id \in Nat : id \notin unstored /\ id <= run.no
                            => id \notin unstored' /\ id < run'.no /\ id <= run'.no
    BY <1>2, <1>4, <1>5
  <2>7. /\ Fresh(run.offered)' /\ Fresh(run.to)'
        /\ \A item \in ToSet(kept) : Fresh(item.id)'
    <3>1. /\ run'.offered \in Nat /\ run'.offered \notin unstored /\ run'.offered <= run.no
          /\ run'.to \in Nat /\ run'.to \notin unstored /\ run'.to <= run.no
      BY <2>3, <2>4, <2>5, <1>4, <1>5
    <3>2. \A item \in ToSet(kept) :
              item.id \in Nat /\ item.id \notin unstored /\ item.id <= run.no
      BY <2>2, <2>3 DEF Fresh
    <3>3. \A item \in ToSet(kept) : Fresh(item.id)'
      BY <2>6, <3>2 DEF Fresh
    <3>4. QED
      BY <2>6, <3>1, <3>3 DEF Fresh
  <2>8. ToSet(run'.next) = {}
    BY <1>5, EmptyHolds
  <2>9. Candidate' = Candidate /\ ~RunAt("compact")'
    BY <1>2, <1>5 DEF Candidate, Or, RunAt
  <2>10. Candidate <= run.no + 1
    BY <2>2, <2>3, <1>4
  <2>11. QED
    BY <1>2, <1>5, <2>2, <2>4, <2>7, <2>8, <2>9, <2>10 DEF UnstoredInv
<1>9. QED
  BY <1>2, <1>5, <1>6, <1>7, <1>8 DEF CompactionInv, Resting, RunAt

(* A step that neither begins a run nor notes one.                         *)
LEMMA UnstoredKeeps ==
    ASSUME CompactionTypeOK, UnstoredInv, UNCHANGED <<mode, unstored, asked, cut>>,
           run'.no = run.no,
           run'.to = run.to \/ (run'.to = NoId /\ ~Noting'),
           Noting' => Noting /\ run'.offered = run.offered,
           ~cut /\ ~asked =>
               /\ \A item \in ToSet(kept') \cup ToSet(run'.next) : Fresh(item.id)
               /\ Candidate' <= run.no
               /\ Candidate' \in unstored => Candidate' = ids'.unstored
               /\ RunAt("compact")' =>
                      ids' = [NoIds EXCEPT !.response =
                                 IF mode' = "input" THEN NoId ELSE Tracked']
    PROVE  UnstoredInv'
<1> SUFFICES ASSUME ~cut', ~asked' PROVE UnstoredInv'
  BY DEF UnstoredInv
<1>1. ~cut /\ ~asked
  OBVIOUS
<1>2. /\ Fresh(run.to)'
      /\ Noting' => Fresh(run.offered)'
  <2>1. NoId = 0 /\ run.no \in Nat
    BY IdsAre
  <2>2. Fresh(run.to) /\ unstored \subseteq 1..run.no /\ (Noting => Fresh(run.offered))
    BY <1>1 DEF UnstoredInv
  <2>3. 0 \notin unstored /\ 0 <= run.no
    BY <2>1, <2>2
  <2>4. QED
    BY <1>1, <2>1, <2>2, <2>3 DEF Fresh
<1>3. \A item : Fresh(item.id) => Fresh(item.id)'
  BY DEF Fresh
<1>4. \A item \in (ToSet(kept) \cup ToSet(run.next))' : Fresh(item.id)'
  BY <1>1, <1>3
<1>5. QED
  BY <1>1, <1>2, <1>4 DEF UnstoredInv

LEMMA IdsKeep ==
    ASSUME CompactionTypeOK, UnstoredInv,
           UNCHANGED <<mode, ids, unstored, asked, cut>>,
           run'.no = run.no,
           run'.to = run.to \/ (run'.to = NoId /\ ~Noting'),
           Noting' => Noting /\ run'.offered = run.offered,
           ~cut /\ ~asked =>
               \A item \in ToSet(kept') \cup ToSet(run'.next) : Fresh(item.id),
           ~RunAt("compact")'
    PROVE  UnstoredInv'
<1>1. Candidate' = Candidate
  BY DEF Candidate, Or
<1>2. ~cut /\ ~asked =>
          /\ Candidate' <= run.no
          /\ Candidate' \in unstored => Candidate' = ids'.unstored
  BY <1>1 DEF UnstoredInv
<1>3. QED
  BY <1>2, UnstoredKeeps

LEMMA AddSessionItemsStep ==
    ASSUME CompactionInv, AddSessionItems PROVE CompactionInv'
<1>1. PICK sorts \in SeqOf({"user", "candidate"}, Min({2, MaxItems - added})) :
        /\ kept' = kept \o [k \in 1..Len(sorts) |->
                      [sort |-> sorts[k], n |-> added + k, id |-> NoId]]
        /\ added' = added + Len(sorts)
        /\ forgettable' = forgettable \cup
               {added + k : k \in {j \in 1..Len(sorts) :
                                      sorts[j] = "candidate"}}
        /\ RunGoes(IF sorts = <<>> \/ mode = "previous" THEN "save"
                   ELSE "check")
  BY DEF AddSessionItems
<1>2. /\ RunAt("working")
      /\ UNCHANGED <<mode, ids, removed, lost, unstored, asked, cut>>
  BY DEF AddSessionItems
<1>3. CompactionTypeOK /\ UnstoredInv /\ RewriteInv
  BY DEF CompactionInv
<1>4. PICK a \in Nat : a = added /\ a <= MaxItems
  BY <1>3, CompactionAssumption DEF CompactionTypeOK
<1>5. PICK spot \in {"save", "check"} : RunGoes(spot)
  BY <1>1
<1>6. /\ run' \in RunRecords /\ run'.at = spot /\ run'.no = run.no
      /\ run'.offered = run.offered /\ run'.to = run.to /\ run'.next = run.next
      /\ run'.auto = run.auto
  <2>1. run \in RunRecords
    BY <1>3, IdsAre
  <2>2. spot \in RunPlaces /\ spot # "done"
    BY DEF RunPlaces
  <2>3. QED
    BY <1>5, <2>1, <2>2, GoesIs
<1>7. PICK m \in Nat : m = Len(sorts) /\ sorts \in [1..m -> {"user", "candidate"}]
                      /\ a + m <= MaxItems
  <2>1. PICK b \in Nat : b = MaxItems - a
    BY <1>4, CompactionAssumption
  <2>2. Min({2, b}) \in Nat /\ Min({2, b}) <= b
    <3>1. PICK x \in {2, b} : \A y \in {2, b} : x =< y
      OBVIOUS
    <3>2. /\ Min({2, b}) \in {2, b}
          /\ \A y \in {2, b} : Min({2, b}) =< y
      BY <3>1 DEF Min
    <3>3. QED
      BY <3>2
  <2>3. PICK m \in 0..Min({2, b}) : sorts \in [1..m -> {"user", "candidate"}]
    BY <1>1, <1>4, <2>1 DEF SeqOf
  <2>4. Len(sorts) = m
    BY <2>2, <2>3
  <2>5. m \in Nat /\ a + m <= MaxItems
    BY <2>1, <2>2, <2>3, <1>4, CompactionAssumption
  <2>6. QED
    BY <2>3, <2>4, <2>5
<1>8. PICK new : new = [k \in 1..m |-> [sort |-> sorts[k], n |-> a + k, id |-> NoId]]
  OBVIOUS
<1>9. \A k \in 1..m : new[k].n = a + k /\ new[k].id = NoId
  BY <1>8
<1>10. new \in Seq(SessionItems) /\ Len(new) = m
  <2>1. ASSUME NEW k \in 1..m
        PROVE  [sort |-> sorts[k], n |-> a + k, id |-> NoId] \in SessionItems
    <3>1. a + k \in 1..MaxItems /\ sorts[k] \in {"user", "candidate"}
      BY <1>4, <1>7, CompactionAssumption
    <3>2. QED
      BY <3>1 DEF SessionItems
  <2>2. new \in [1..m -> SessionItems]
    BY <1>8, <2>1
  <2>3. QED
    BY <2>2
<1>11. kept \in Seq(SessionItems) /\ kept' = kept \o new /\ added' = a + m
  BY <1>1, <1>3, <1>4, <1>7, <1>8 DEF CompactionTypeOK
<1>12. kept' \in Seq(SessionItems) /\ ToSet(kept') = ToSet(kept) \cup ToSet(new)
  BY <1>10, <1>11, ConcatHolds
<1>13. \A x : x \in ToSet(new) <=> \E k \in 1..m : new[k] = x
  BY <1>10, HoldsAt
<1>13a. /\ forgettable \subseteq forgettable' /\ forgettable' \subseteq 1..MaxItems
        /\ \A k \in 1..m : sorts[k] = "candidate" => a + k \in forgettable'
  <2>1. forgettable' = forgettable \cup
            {a + k : k \in {j \in 1..m : sorts[j] = "candidate"}}
    BY <1>1, <1>4, <1>7
  <2>2. \A k \in 1..m : a + k \in 1..MaxItems
    BY <1>4, <1>7, CompactionAssumption
  <2>3. forgettable \subseteq 1..MaxItems
    BY <1>3 DEF CompactionTypeOK
  <2>4. QED
    BY <2>1, <2>2, <2>3
<1>14. CompactionTypeOK'
  BY <1>2, <1>3, <1>4, <1>6, <1>7, <1>11, <1>12, <1>13a, CompactionAssumption
     DEF CompactionTypeOK
<1>15. RewriteInv'
  <2>1. /\ LostAreOld(ToSet(kept)) /\ CandidatesAre(ToSet(kept))
        /\ run'.next = <<>>
    BY <1>2, <1>3, <1>6 DEF RewriteInv, RunAt
  <2>2. ASSUME NEW n \in (1..(a + m)) \ (removed \cup lost)
        PROVE  \/ \E item \in ToSet(kept') : item.n = n
               \/ Forgotten(n, ToSet(kept))'
    <3>1. CASE n <= a
      <4>1. n \in (1..added) \ (removed \cup lost)
        BY <3>1, <1>4
      <4>2. \A item \in ToSet(new) : n < item.n
        BY <1>9, <1>13, <3>1, <1>4
      <4>3. (\E item \in ToSet(kept) : item.n = n) \/ Forgotten(n, ToSet(kept))
        BY <4>1, <2>1 DEF LostAreOld
      <4>4. QED
        BY <4>2, <4>3, <1>12, <1>13a DEF Forgotten
    <3>2. CASE ~(n <= a)
      <4>1. PICK k \in 1..m : a + k = n
        <5>1. n - a \in 1..m /\ a + (n - a) = n
          BY <3>2, <1>4, <1>7
        <5>2. QED
          BY <5>1
      <4>2. new[k] \in ToSet(new) /\ new[k].n = n
        BY <4>1, <1>9, <1>13
      <4>3. QED
        BY <4>2, <1>12
    <3>3. QED
      BY <3>1, <3>2
  <2>3. LostAreOld(ToSet(kept))'
    BY <1>2, <1>11, <2>2 DEF LostAreOld, Forgotten
  <2>4. CandidatesAre(ToSet(kept))'
    <3>1. ASSUME NEW k \in 1..m, IsCandidate(new[k]) PROVE new[k].n \in forgettable'
      <4>1. sorts[k] = "candidate"
        BY <3>1, <1>8 DEF IsCandidate
      <4>2. QED
        BY <4>1, <1>9, <1>13a
    <3>2. \A item \in ToSet(new) : IsCandidate(item) => item.n \in forgettable'
      BY <3>1, <1>13
    <3>3. QED
      BY <2>1, <3>2, <1>12, <1>13a DEF CandidatesAre
  <2>5. CandidatesAre(ToSet(run.next))'
    BY <2>1, EmptyHolds DEF CandidatesAre
  <2>6. QED
    BY <1>2, <1>6, <2>1, <2>3, <2>4, <2>5 DEF RewriteInv, RunAt
<1>16. UnstoredInv'
  <2>1. Noting /\ ~RunAt("compact")'
    BY <1>2, <1>6 DEF Noting, RunAt
  <2>2. ASSUME ~cut, ~asked, NEW item \in ToSet(kept') \cup ToSet(run'.next)
        PROVE  Fresh(item.id)
    <3>1. Fresh(0)
      <4>1. /\ unstored \subseteq 1..run.no /\ Fresh(run.to)
        BY <2>2, <1>3 DEF UnstoredInv
      <4>2. run.to \in Nat /\ run.no \in Nat
        BY <1>3, IdsAre
      <4>3. QED
        BY <4>1, <4>2, <2>1 DEF Fresh
    <3>2. CASE item \in ToSet(kept) \cup ToSet(run.next)
      BY <2>2, <3>2, <1>3 DEF UnstoredInv
    <3>3. CASE item \in ToSet(new)
      <4>1. item.id = 0
        BY <3>3, <1>9, <1>13 DEF NoId
      <4>2. QED
        BY <4>1, <3>1
    <3>4. QED
      BY <3>2, <3>3, <1>6, <1>12
  <2>3. QED
    BY <2>1, <2>2, <1>2, <1>3, <1>6, IdsKeep
<1>17. QED
  BY <1>2, <1>6, <1>14, <1>15, <1>16 DEF CompactionInv, Resting, RunAt

LEMMA ShouldCompactStep ==
    ASSUME CompactionInv, ShouldCompact PROVE CompactionInv'
<1>1. /\ RunAt("check")
      /\ UNCHANGED <<mode, kept, ids, unstored, asked, cut>>
      /\ UNCHANGED <<added, forgettable, removed, lost>>
      /\ \/ run' = [run EXCEPT !.at = "read", !.auto = TRUE]
         \/ run' = [run EXCEPT !.at = "save"]
  BY DEF ShouldCompact, itemHistory
<1>2. CompactionTypeOK /\ UnstoredInv /\ RewriteInv
  BY DEF CompactionInv
<1>3. run \in RunRecords
  BY <1>2, IdsAre
<1>4. /\ run' \in RunRecords /\ run'.no = run.no
      /\ run'.offered = run.offered /\ run'.to = run.to /\ run'.next = run.next
      /\ run'.at \in {"read", "save"}
  BY <1>1, <1>3 DEF RunRecords, RunPlaces
<1>5. CompactionTypeOK'
  BY <1>1, <1>2, <1>4 DEF CompactionTypeOK
<1>6. RewriteInv'
  BY <1>1, <1>2, <1>4, RewriteKeeps DEF RunAt
<1>7. UnstoredInv'
  <2>1. Noting /\ ~RunAt("compact")'
    BY <1>1, <1>4 DEF Noting, RunAt
  <2>2. ~cut /\ ~asked => \A item \in ToSet(kept') \cup ToSet(run'.next) : Fresh(item.id)
    BY <1>1, <1>2, <1>4 DEF UnstoredInv
  <2>3. QED
    BY <2>1, <2>2, <1>1, <1>2, <1>4, IdsKeep
<1>8. QED
  BY <1>1, <1>4, <1>5, <1>6, <1>7 DEF CompactionInv, Resting, RunAt

-----------------------------------------------------------------------------

LEMMA KeepCountIs == KeepCount \in Nat
<1>1. ASSUME NEW x \in Nat, NEW y \in Nat PROVE Max({x, y}) \in Nat
  <2>1. PICK z \in {x, y} : \A w \in {x, y} : z >= w
    OBVIOUS
  <2>2. Max({x, y}) \in {x, y}
    BY <2>1 DEF Max
  <2>3. QED
    BY <2>2
<1>2. PICK a \in Nat : a = Max({Threshold, 2})
  BY <1>1, CompactionAssumption
<1>3. a \div 2 \in Nat
  OBVIOUS
<1>4. QED
  BY <1>1, <1>2, <1>3 DEF KeepCount

LEMMA CompactedInputIs ==
    ASSUME kept \in Seq(SessionItems)
    PROVE  /\ CompactedInput \in Seq(SessionItems)
           /\ ToSet(CompactedInput) \subseteq ToSet(kept)
           /\ LostAreOld(ToSet(kept)) /\ CandidatesAre(ToSet(kept))
                  => LostAreOld(ToSet(CompactedInput))
<1> DEFINE C == Compactable(kept)
           Newer(item) == {other \in C : other.n > item.n}
           newest == {item \in C : Cardinality(Newer(item)) < KeepCount}
           W == KeptAlways(kept) \cup newest
<1>1. CompactedInput \in Seq(SessionItems) /\ ToSet(CompactedInput) = ToSet(kept) \cap W
  <2>1. CompactedInput = Those(kept, W)
    BY DEF CompactedInput
  <2> HIDE DEF W
  <2>2. QED
    BY <2>1, ThoseHold
<1>2. /\ \A item \in C : item \in ToSet(kept) /\ item.n \in Nat /\ IsCandidate(item)
      /\ \A item \in ToSet(kept) : item.n \in Nat
      /\ \A item \in ToSet(kept) : item \in KeptAlways(kept) \/ item \in C
      /\ \A item \in KeptAlways(kept) : ~IsCandidate(item) /\ item \in ToSet(kept)
  <2>1. \A item \in ToSet(kept) : item.n \in Nat
    <3>1. ToSet(kept) \subseteq SessionItems
      BY HoldsAt
    <3>2. \A item \in SessionItems : item.n \in Nat
      BY CompactionAssumption DEF SessionItems
    <3>3. QED
      BY <3>1, <3>2
  <2>2. QED
    BY <2>1 DEF Compactable, KeptAlways
<1>3. ASSUME NEW gone \in C, NEW item \in C, gone \notin newest, item \in newest
      PROVE  gone.n < item.n
  <2> SUFFICES ASSUME item.n <= gone.n PROVE FALSE
    BY <1>2
  <2>1. IsFiniteSet(C)
    <3>1. IsFiniteSet(ToSet(kept))
      BY HeldIsFinite
    <3>2. C \in SUBSET ToSet(kept)
      BY <1>2
    <3>3. QED
      BY <3>1, <3>2, FS_Subset
  <2>2. Newer(gone) \subseteq Newer(item) /\ Newer(item) \subseteq C
    BY <1>2
  <2>3. IsFiniteSet(Newer(item))
    BY <2>1, <2>2, FS_Subset
  <2>4. IsFiniteSet(Newer(gone)) /\ Cardinality(Newer(gone)) <= Cardinality(Newer(item))
    BY <2>2, <2>3, FS_Subset
  <2>5. Cardinality(Newer(gone)) \in Nat /\ Cardinality(Newer(item)) \in Nat
    BY <2>3, <2>4, FS_CardinalityType
  <2>6. Cardinality(Newer(item)) < KeepCount /\ ~(Cardinality(Newer(gone)) < KeepCount)
    BY <1>3
  <2> HIDE DEF Newer
  <2>7. QED
    BY <2>4, <2>5, <2>6, KeepCountIs
<1>4. ASSUME LostAreOld(ToSet(kept)), CandidatesAre(ToSet(kept)),
             NEW n \in (1..added) \ (removed \cup lost)
      PROVE  \/ \E item \in ToSet(CompactedInput) : item.n = n
             \/ Forgotten(n, ToSet(CompactedInput))
  <2> HIDE DEF newest, C
  <2>1. CASE Forgotten(n, ToSet(kept))
    BY <2>1, <1>1 DEF Forgotten
  <2>2. CASE \E item \in ToSet(kept) : item.n = n
    <3>1. PICK gone \in ToSet(kept) : gone.n = n
      BY <2>2
    <3>2. CASE gone \in W
      BY <3>1, <3>2, <1>1
    <3>3. CASE gone \notin W
      <4>1. gone \in C /\ gone \notin newest
        BY <3>1, <3>3, <1>2
      <4>2. ASSUME NEW item \in ToSet(CompactedInput), IsCandidate(item)
            PROVE  n < item.n
        <5>1. item \in newest /\ item \in C
          BY <4>2, <1>1, <1>2
        <5>2. QED
          BY <5>1, <4>1, <3>1, <1>3
      <4>3. n \in forgettable
        BY <4>1, <3>1, <1>2, <1>4 DEF CandidatesAre
      <4>4. QED
        BY <4>2, <4>3 DEF Forgotten
    <3>4. QED
      BY <3>2, <3>3
  <2>3. QED
    BY <2>1, <2>2, <1>4 DEF LostAreOld
<1>5. QED
  BY <1>1, <1>4 DEF LostAreOld

LEMMA CompactedToIs ==
    ASSUME kept \in Seq(SessionItems), NEW id \in Ids
    PROVE  /\ CompactedTo(id) \in Seq(SessionItems)
           /\ \A item \in ToSet(CompactedTo(id)) :
                  ~IsCandidate(item) /\ (item \in ToSet(kept) \/ item.id = id)
           /\ LostAreOld(ToSet(kept)) /\ CandidatesAre(ToSet(kept))
                  => LostAreOld(ToSet(CompactedTo(id)))
<1>1. PICK marker \in SessionItems : marker = [sort |-> "marker", n |-> 0, id |-> id]
  BY DEF SessionItems
<1>2. PICK others \in Seq(SessionItems) :
          others = Those(kept, KeptAlways(kept)) /\ ToSet(others) = ToSet(kept) \cap KeptAlways(kept)
  BY ThoseHold
<1>3. CompactedTo(id) = Append(others, marker)
  BY <1>1, <1>2 DEF CompactedTo
<1>4. /\ CompactedTo(id) \in Seq(SessionItems)
      /\ ToSet(CompactedTo(id)) = (ToSet(kept) \cap KeptAlways(kept)) \cup {marker}
  BY <1>2, <1>3, AppendHolds
<1>5. marker.id = id /\ ~IsCandidate(marker)
  BY <1>1 DEF IsCandidate
<1>6. \A item \in ToSet(CompactedTo(id)) : ~IsCandidate(item)
  BY <1>4, <1>5 DEF KeptAlways, Compactable
<1>7. ASSUME LostAreOld(ToSet(kept)), CandidatesAre(ToSet(kept)),
             NEW n \in (1..added) \ (removed \cup lost)
      PROVE  \/ \E item \in ToSet(CompactedTo(id)) : item.n = n
             \/ Forgotten(n, ToSet(CompactedTo(id)))
  <2>1. n \in forgettable \/ \E item \in ToSet(kept) : item.n = n /\ ~IsCandidate(item)
    BY <1>7 DEF LostAreOld, Forgotten, CandidatesAre
  <2>2. \A item \in ToSet(kept) : ~IsCandidate(item) => item \in ToSet(CompactedTo(id))
    BY <1>4 DEF KeptAlways, Compactable
  <2>3. QED
    BY <2>1, <2>2, <1>6 DEF Forgotten
<1>8. QED
  BY <1>4, <1>5, <1>6, <1>7 DEF LostAreOld

LEMMA ReadItemsStep ==
    ASSUME CompactionInv, ReadItems PROVE CompactionInv'
<1>1. /\ RunAt("read")
      /\ UNCHANGED <<mode, kept, ids, unstored, asked, cut>>
      /\ UNCHANGED <<added, forgettable, removed, lost>>
      /\ \/ RunGoes(AfterCompaction)
         \/ run' = [run EXCEPT
                !.at = "clear",
                !.next = IF run.to # NoId THEN CompactedTo(run.to)
                         ELSE IF Len(Candidates(kept)) <= Threshold THEN kept
                         ELSE CompactedInput]
  BY DEF ReadItems, itemHistory
<1>2. CompactionTypeOK /\ UnstoredInv /\ RewriteInv /\ Resting
  BY DEF CompactionInv
<1>3. run \in RunRecords /\ run.to \in Ids /\ kept \in Seq(SessionItems)
  BY <1>2, IdsAre DEF CompactionTypeOK
<1>4. CASE RunGoes(AfterCompaction)
  <2>1. PICK spot \in RunPlaces : RunGoes(spot) /\ spot \in {"save", "done"}
                                   /\ (spot = "save" => run.auto)
    BY <1>4 DEF AfterCompaction, RunPlaces
  <2>2. /\ run' \in RunRecords /\ run'.at = spot /\ run'.no = run.no
        /\ spot = "done" => run' = Finished(run.no)
        /\ spot # "done" => /\ run'.offered = run.offered /\ run'.to = run.to
                             /\ run'.next = run.next
    BY <1>3, <2>1, GoesIs
  <2>3. run.no \in Ids
    BY <1>2, IdsAre
  <2>4. spot = "done" => run'.to = NoId /\ run'.next = <<>> /\ run'.auto = FALSE
    BY <2>2, <2>3, FinishedIs
  <2>5. CompactionTypeOK'
    BY <1>1, <1>2, <2>2 DEF CompactionTypeOK
  <2>6. RewriteInv'
    BY <1>1, <1>2, <2>1, <2>2, <2>4, RewriteKeeps DEF RunAt
  <2>7. UnstoredInv'
    <3>1. ~RunAt("compact")' /\ (Noting' => spot = "save" /\ Noting)
      BY <2>1, <2>2, <2>4 DEF Noting, RunAt
    <3>2. ToSet(run'.next) \subseteq ToSet(run.next)
      BY <2>2, <2>4, EmptyHolds
    <3>3. ~cut /\ ~asked => \A item \in ToSet(kept') \cup ToSet(run'.next) : Fresh(item.id)
      BY <1>1, <1>2, <3>2 DEF UnstoredInv
    <3>4. Noting' => Noting /\ run'.offered = run.offered
      BY <2>2, <3>1
    <3>5. run'.to = run.to \/ (run'.to = NoId /\ ~Noting')
      BY <2>1, <2>2, <2>4, <3>1
    <3>6. QED
      BY <3>1, <3>3, <3>4, <3>5, <1>1, <1>2, <2>2, IdsKeep
  <2>8. Resting'
    BY <2>1, <2>2 DEF Resting, RunAt
  <2>9. QED
    BY <1>1, <2>5, <2>6, <2>7, <2>8 DEF CompactionInv, RunAt
<1>5. CASE \E next \in {CompactedTo(run.to), kept, CompactedInput} :
               run' = [run EXCEPT !.at = "clear", !.next = next]
  <2>1. PICK next : /\ next \in {CompactedTo(run.to), kept, CompactedInput}
                    /\ run' = [run EXCEPT !.at = "clear", !.next = next]
    BY <1>5
  <2>2. /\ next \in Seq(SessionItems)
        /\ \A item \in ToSet(next) : item \in ToSet(kept) \/ item.id = run.to
        /\ \A item \in ToSet(next) : IsCandidate(item) => item \in ToSet(kept)
        /\ LostAreOld(ToSet(kept)) /\ CandidatesAre(ToSet(kept))
               => LostAreOld(ToSet(next))
    BY <1>3, <2>1, CompactedToIs, CompactedInputIs
  <2>3. /\ run' \in RunRecords /\ run'.at = "clear" /\ run'.no = run.no
        /\ run'.offered = run.offered /\ run'.to = run.to /\ run'.next = next
        /\ run'.auto = run.auto
    BY <1>3, <2>1, <2>2 DEF RunRecords, RunPlaces
  <2>4. CompactionTypeOK'
    BY <1>1, <1>2, <2>3 DEF CompactionTypeOK
  <2>5. RewriteInv'
    <3>1. LostAreOld(ToSet(kept)) /\ CandidatesAre(ToSet(kept))
      BY <1>1, <1>2 DEF RewriteInv, RunAt
    <3>2. LostAreOld(ToSet(next)) /\ CandidatesAre(ToSet(next))
      BY <2>2, <3>1 DEF CandidatesAre
    <3>3. /\ LostAreOld(ToSet(kept))' /\ LostAreOld(ToSet(run.next))'
          /\ CandidatesAre(ToSet(kept))' /\ CandidatesAre(ToSet(run.next))'
      BY <1>1, <2>3, <3>1, <3>2 DEF LostAreOld, Forgotten, CandidatesAre
    <3>4. QED
      BY <1>1, <2>3, <3>3 DEF RewriteInv, RunAt
  <2>6. UnstoredInv'
    <3>1. ~RunAt("compact")' /\ (Noting' => Noting)
      BY <2>3 DEF Noting, RunAt
    <3>2. ~cut /\ ~asked => \A item \in ToSet(kept') \cup ToSet(run'.next) : Fresh(item.id)
      BY <1>1, <1>2, <2>2, <2>3 DEF UnstoredInv
    <3>3. QED
      BY <3>1, <3>2, <1>1, <1>2, <2>3, IdsKeep
  <2>7. QED
    BY <1>1, <2>3, <2>4, <2>5, <2>6 DEF CompactionInv, Resting, RunAt
<1>6. QED
  BY <1>1, <1>4, <1>5

LEMMA ClearItemsStep ==
    ASSUME CompactionInv, ClearItems PROVE CompactionInv'
<1>1. /\ RunAt("clear") /\ kept' = <<>> /\ RunGoes("put")
      /\ UNCHANGED <<mode, ids, unstored, asked, cut>>
      /\ UNCHANGED <<added, forgettable, removed, lost>>
  BY DEF ClearItems, itemHistory
<1>2. CompactionTypeOK /\ UnstoredInv /\ RewriteInv
  BY DEF CompactionInv
<1>3. /\ run' \in RunRecords /\ run'.at = "put" /\ run'.no = run.no
      /\ run'.offered = run.offered /\ run'.to = run.to /\ run'.next = run.next
      /\ run'.auto = run.auto
  <2>1. run \in RunRecords /\ "put" \in RunPlaces
    BY <1>2, IdsAre DEF RunPlaces
  <2>2. QED
    BY <1>1, <2>1, GoesIs
<1>4. CompactionTypeOK'
  BY <1>1, <1>2, <1>3 DEF CompactionTypeOK
<1>5. RewriteInv'
  <2>1. LostAreOld(ToSet(run.next)) /\ CandidatesAre(ToSet(run.next))
    BY <1>1, <1>2 DEF RewriteInv, RunAt
  <2>2. LostAreOld(ToSet(run.next))' /\ CandidatesAre(ToSet(run.next))'
    BY <1>1, <1>3, <2>1 DEF LostAreOld, Forgotten, CandidatesAre
  <2>3. CandidatesAre(ToSet(kept))'
    BY <1>1, EmptyHolds DEF CandidatesAre
  <2>4. QED
    BY <1>1, <1>3, <2>2, <2>3 DEF RewriteInv, RunAt
<1>6. UnstoredInv'
  <2>1. ~RunAt("compact")' /\ (Noting' => Noting)
    BY <1>3 DEF Noting, RunAt
  <2>2. ToSet(kept') = {}
    BY <1>1, EmptyHolds
  <2>3. ~cut /\ ~asked => \A item \in ToSet(kept') \cup ToSet(run'.next) : Fresh(item.id)
    BY <1>2, <1>3, <2>2 DEF UnstoredInv
  <2>4. QED
    BY <2>1, <2>3, <1>1, <1>2, <1>3, IdsKeep
<1>7. QED
  BY <1>1, <1>3, <1>4, <1>5, <1>6 DEF CompactionInv, Resting, RunAt

LEMMA PutItemsStep ==
    ASSUME CompactionInv, PutItems PROVE CompactionInv'
<1>1. /\ RunAt("put") /\ kept' = kept \o run.next
      /\ UNCHANGED <<mode, unstored, asked, cut>>
      /\ UNCHANGED <<added, forgettable, removed, lost>>
      /\ \/ ids' = ids
         \/ ids' = [NoIds EXCEPT !.response = run.to]
  BY DEF PutItems, itemHistory
<1>2. CompactionTypeOK /\ UnstoredInv /\ RewriteInv
  BY DEF CompactionInv
<1>3. /\ run \in RunRecords /\ run.to \in Ids /\ run.no \in Ids /\ NoId \in Ids
      /\ kept \in Seq(SessionItems) /\ run.next \in Seq(SessionItems) /\ NoId = 0
  BY <1>2, IdsAre DEF CompactionTypeOK
<1>4. kept' \in Seq(SessionItems) /\ ToSet(kept') = ToSet(kept) \cup ToSet(run.next)
  BY <1>1, <1>3, ConcatHolds
<1>5. /\ run' \in RunRecords /\ run'.no = run.no /\ run'.next = <<>>
      /\ \/ /\ run.auto /\ run'.at = "save" /\ run'.offered = run.offered
            /\ run'.to = run.to
         \/ /\ run' = Finished(run.no) /\ run'.at = "done" /\ run'.auto = FALSE
            /\ run'.to = NoId
  <2>1. CASE run.auto
    <3>1. run' = [run EXCEPT !.at = "save", !.auto = FALSE, !.next = <<>>]
      BY <2>1 DEF PutItems
    <3>2. "save" \in RunPlaces /\ <<>> \in Seq(SessionItems)
      BY DEF RunPlaces
    <3>3. QED
      BY <1>3, <2>1, <3>1, <3>2 DEF RunRecords
  <2>2. CASE ~run.auto
    <3>1. run' = Finished(run.no)
      BY <2>2 DEF PutItems
    <3>2. QED
      BY <1>3, <3>1, FinishedIs
  <2>3. QED
    BY <2>1, <2>2
<1>6. /\ ids' \in [response : Ids, deferred : Ids, unstored : Ids]
      /\ \/ Candidate' = Candidate /\ ids'.unstored = ids.unstored
         \/ Candidate' = run.to
  <2>1. CASE ids' = ids
    BY <1>2, <2>1 DEF CompactionTypeOK, Candidate, Or
  <2>2. CASE ids' = [NoIds EXCEPT !.response = run.to]
    <3>1. ids' = [response |-> run.to, deferred |-> NoId, unstored |-> NoId]
      BY <2>2 DEF NoIds
    <3>2. QED
      BY <1>3, <3>1 DEF Candidate, Or
  <2>3. QED
    BY <1>1, <2>1, <2>2
<1>7. CompactionTypeOK'
  BY <1>1, <1>2, <1>4, <1>5, <1>6 DEF CompactionTypeOK
<1>8. RewriteInv'
  <2>1. /\ LostAreOld(ToSet(run.next)) /\ CandidatesAre(ToSet(run.next))
        /\ ToSet(kept) = {}
    BY <1>1, <1>2, EmptyHolds DEF RewriteInv
  <2>2. ToSet(kept') = ToSet(run.next)
    BY <1>4, <2>1
  <2>3. LostAreOld(ToSet(kept))' /\ CandidatesAre(ToSet(kept))'
    BY <1>1, <2>1, <2>2 DEF LostAreOld, Forgotten, CandidatesAre
  <2>4. CandidatesAre(ToSet(run.next))'
    BY <1>5, EmptyHolds DEF CandidatesAre
  <2>5. QED
    BY <1>1, <1>5, <2>3, <2>4 DEF RewriteInv, RunAt
<1>9. UnstoredInv'
  <2>1. /\ ~RunAt("compact")' /\ (Noting' => Noting /\ run'.offered = run.offered)
        /\ run'.to = run.to \/ (run'.to = NoId /\ ~Noting')
    BY <1>5 DEF Noting, RunAt
  <2>2. ToSet(run'.next) = {}
    BY <1>5, EmptyHolds
  <2>3. ~cut /\ ~asked =>
            /\ \A item \in ToSet(kept') \cup ToSet(run'.next) : Fresh(item.id)
            /\ Candidate' <= run.no
            /\ Candidate' \in unstored => Candidate' = ids'.unstored
    BY <1>2, <1>4, <1>6, <2>2 DEF UnstoredInv, Fresh
  <2>4. QED
    BY <2>1, <2>3, <1>1, <1>2, <1>5, UnstoredKeeps
<1>10. QED
  BY <1>1, <1>5, <1>7, <1>8, <1>9 DEF CompactionInv, Resting, RunAt

LEMMA SaveStateStep ==
    ASSUME CompactionInv, SaveState PROVE CompactionInv'
<1>1. /\ RunAt("save") /\ RunGoes("compact")
      /\ ids' = [NoIds EXCEPT !.response = IF mode = "input" THEN NoId ELSE Tracked]
      /\ UNCHANGED <<mode, kept, unstored, asked, cut>>
      /\ UNCHANGED <<added, forgettable, removed, lost>>
  BY DEF SaveState, itemHistory
<1>2. CompactionTypeOK /\ UnstoredInv /\ RewriteInv
  BY DEF CompactionInv
<1>3. /\ run \in RunRecords /\ run.no \in Ids /\ NoId \in Ids /\ NoId = 0
      /\ Tracked \in Ids /\ run.no \in Nat /\ run.offered \in Nat
  BY <1>2, IdsAre
<1>4. /\ run' \in RunRecords /\ run'.at = "compact" /\ run'.no = run.no
      /\ run'.offered = run.offered /\ run'.to = run.to /\ run'.next = run.next
      /\ run'.auto = run.auto /\ run'.has = run.has
  <2>1. run \in RunRecords /\ "compact" \in RunPlaces
    BY <1>3 DEF RunPlaces
  <2>2. QED
    BY <1>1, <2>1, GoesIs
<1>5. PICK r \in Ids : /\ r = IF mode = "input" THEN NoId ELSE Tracked
                       /\ ids' = [response |-> r, deferred |-> NoId, unstored |-> NoId]
  BY <1>1, <1>3 DEF NoIds
<1>6. ids' \in [response : Ids, deferred : Ids, unstored : Ids] /\ Candidate' = r
  BY <1>3, <1>5 DEF Candidate, Or
<1>7. CompactionTypeOK'
  BY <1>1, <1>2, <1>4, <1>6 DEF CompactionTypeOK
<1>8. RewriteInv'
  BY <1>1, <1>2, <1>4, RewriteKeeps DEF RunAt
<1>9. UnstoredInv'
  <2>1. Noting
    BY <1>1 DEF Noting, RunAt
  <2>2. Tracked' = Tracked
    BY <1>1, <1>4 DEF Tracked
  <2>3. ids' = [NoIds EXCEPT !.response = IF mode' = "input" THEN NoId ELSE Tracked']
    BY <1>1, <2>2
  <2>4. ASSUME ~cut, ~asked
        PROVE  /\ \A item \in ToSet(kept') \cup ToSet(run'.next) : Fresh(item.id)
               /\ r <= run.no /\ r \notin unstored
    <3>1. /\ \A item \in ToSet(kept) \cup ToSet(run.next) : Fresh(item.id)
          /\ run.no \notin unstored /\ Fresh(run.offered) /\ unstored \subseteq 1..run.no
      BY <1>2, <2>1, <2>4 DEF UnstoredInv
    <3>2. r \in {run.no, run.offered, 0}
      BY <1>3, <1>5 DEF Tracked
    <3>3. r <= run.no /\ r \notin unstored
      BY <1>3, <3>1, <3>2 DEF Fresh
    <3>4. QED
      BY <1>1, <1>4, <3>1, <3>3
  <2>5. QED
    BY <2>1, <2>3, <2>4, <1>1, <1>2, <1>4, <1>6, UnstoredKeeps
<1>10. QED
  BY <1>1, <1>4, <1>7, <1>8, <1>9 DEF CompactionInv, Resting, RunAt

(* A compaction that is asked for: the ids that it notes, and what it      *)
(* compacts to unless it was told to.                                      *)
AsCompacted(no, requested, given, stored) ==
    /\ run' \in RunRecords /\ run'.no = no /\ run'.next = <<>>
    /\ run'.auto = FALSE
    /\ run'.at = "read" \/ (run'.at = "done" /\ run' = Finished(no))
    /\ ids' \in [response : Ids, deferred : Ids, unstored : Ids]
    /\ given = NoId => ids' = ids
    /\ given # NoId =>
           /\ ids'.response = given /\ ids'.deferred = ids.deferred
           /\ stored = "false" => ids'.unstored = given
    /\ \/ run'.to = NoId
       \/ requested = "previous"
       \/ /\ run'.to = Or(given, Or(ids'.deferred, ids'.response))
          /\ stored # "false" /\ run'.to # ids'.unstored

LEMMA CompactsIs ==
    ASSUME CompactionTypeOK, NEW no \in Ids, NEW requested, NEW given \in Ids,
           NEW stored \in {"true", "false", "unset"}, NEW force \in BOOLEAN,
           Compacts(no, requested, given, stored, force)
    PROVE  AsCompacted(no, requested, given, stored)
<1> DEFINE id == Or(given, Or(ids'.deferred, ids'.response))
           how == Resolved(requested, id, stored, ids')
<1>1. /\ ids' = Noted(given, stored)
      /\ run' = IF how = "previous" /\ id = NoId THEN Finished(no)
                ELSE [Finished(no) EXCEPT
                          !.at = "read", !.force = force,
                          !.to = IF how = "previous" THEN id ELSE NoId]
  BY DEF Compacts
<1>2. NoId \in Ids /\ ids \in [response : Ids, deferred : Ids, unstored : Ids]
  BY IdsAre DEF CompactionTypeOK
<1>3. /\ ids' \in [response : Ids, deferred : Ids, unstored : Ids]
      /\ given = NoId => ids' = ids
      /\ given # NoId =>
             /\ ids'.response = given /\ ids'.deferred = ids.deferred
             /\ stored = "false" => ids'.unstored = given
  <2>1. CASE given = NoId
    BY <1>1, <1>2, <2>1 DEF Noted
  <2>2. CASE given # NoId
    <3>1. PICK u \in Ids : /\ ids' = [ids EXCEPT !.response = given, !.unstored = u]
                           /\ stored = "false" => u = given
      <4>1. CASE stored = "false"
        BY <1>1, <2>2, <4>1 DEF Noted
      <4>2. CASE stored = "true"
        BY <1>1, <1>2, <2>2, <4>2 DEF Noted
      <4>3. CASE stored = "unset"
        <5>1. ids' = [ids EXCEPT !.response = given, !.unstored = ids.unstored]
          BY <1>1, <1>2, <2>2, <4>3 DEF Noted
        <5>2. QED
          BY <1>2, <4>3, <5>1
      <4>4. QED
        BY <4>1, <4>2, <4>3
    <3>2. QED
      BY <1>2, <2>2, <3>1
  <2>3. QED
    BY <2>1, <2>2
<1>4. id \in Ids
  BY <1>3 DEF Or
<1>5. how = "previous" => requested = "previous" \/ (stored # "false" /\ id # ids'.unstored)
  BY DEF Resolved
<1> HIDE DEF how
<1> DEFINE Goal ==
               /\ run' \in RunRecords /\ run'.no = no /\ run'.next = <<>>
               /\ run'.auto = FALSE
               /\ run'.at = "read" \/ (run'.at = "done" /\ run' = Finished(no))
               /\ \/ run'.to = NoId
                  \/ requested = "previous"
                  \/ run'.to = id /\ stored # "false" /\ run'.to # ids'.unstored
<1>6. ASSUME how = "previous" /\ id = NoId PROVE Goal
  <2>1. run' = Finished(no)
    BY <1>1, <1>6
  <2> HIDE DEF id
  <2>2. QED
    BY <2>1, FinishedIs
<1>7. ASSUME ~(how = "previous" /\ id = NoId) PROVE Goal
  <2>1. PICK to \in Ids : /\ to = IF how = "previous" THEN id ELSE NoId
                          /\ run' = [Finished(no) EXCEPT
                                        !.at = "read", !.force = force, !.to = to]
    <3> HIDE DEF id
    <3>1. QED
      BY <1>1, <1>2, <1>4, <1>7
  <2>2. PICK f \in RunRecords : /\ f = Finished(no) /\ f.no = no /\ f.auto = FALSE
                                /\ f.next = <<>>
    BY FinishedIs
  <2>3. run' = [f EXCEPT !.at = "read", !.force = force, !.to = to]
    BY <2>1, <2>2
  <2>4. /\ run' \in RunRecords /\ run'.no = no /\ run'.next = <<>>
        /\ run'.auto = FALSE /\ run'.at = "read" /\ run'.to = to
    BY <2>2, <2>3 DEF RunRecords, RunPlaces
  <2> HIDE DEF id
  <2>5. QED
    BY <1>5, <2>1, <2>4
<1>8. AsCompacted(no, requested, given, stored)
  <2>1. run' \in RunRecords /\ run'.no = no /\ run'.next = <<>> /\ run'.auto = FALSE
    BY <1>6, <1>7
  <2>2. run'.at = "read" \/ (run'.at = "done" /\ run' = Finished(no))
    BY <1>6, <1>7
  <2>3. \/ run'.to = NoId
        \/ requested = "previous"
        \/ run'.to = id /\ stored # "false" /\ run'.to # ids'.unstored
    BY <1>6, <1>7
  <2>4. QED
    BY <1>3, <2>1, <2>2, <2>3 DEF AsCompacted
<1>9. QED
  BY <1>8

LEMMA RunCompactionStep ==
    ASSUME CompactionInv, RunCompaction PROVE CompactionInv'
<1>1. /\ RunAt("compact")
      /\ Compacts(run.no, mode, Tracked, run.store, FALSE)
      /\ unstored' = IF run.has /\ run.store = "false"
                     THEN unstored \cup {run.no} ELSE unstored
      /\ UNCHANGED <<mode, kept, asked, cut>>
      /\ UNCHANGED <<added, forgettable, removed, lost>>
  BY DEF RunCompaction, itemHistory
<1>2. CompactionTypeOK /\ UnstoredInv /\ RewriteInv
  BY DEF CompactionInv
<1>3. /\ run \in RunRecords /\ run.no \in Ids /\ NoId \in Ids /\ NoId = 0
      /\ Tracked \in Ids /\ run.no \in Nat /\ run.offered \in Nat
      /\ run.store \in {"true", "false", "unset"} /\ run.has \in BOOLEAN
  BY <1>2, IdsAre
<1>4. AsCompacted(run.no, mode, Tracked, run.store)
  <2>1. FALSE \in BOOLEAN
    OBVIOUS
  <2>2. PICK no \in Ids, given \in Ids, stored \in {"true", "false", "unset"} :
            no = run.no /\ given = Tracked /\ stored = run.store
    BY <1>3
  <2>3. Compacts(no, mode, given, stored, FALSE)
    BY <1>1, <2>2
  <2>4. AsCompacted(no, mode, given, stored)
    BY <1>2, <2>1, <2>3, CompactsIs
  <2>5. QED
    BY <2>2, <2>4
<1>4a. /\ run' \in RunRecords /\ run'.no = run.no /\ run'.next = <<>>
       /\ run'.auto = FALSE
       /\ run'.at = "read" \/ (run'.at = "done" /\ run' = Finished(run.no))
       /\ ids' \in [response : Ids, deferred : Ids, unstored : Ids]
       /\ Tracked = NoId => ids' = ids
       /\ Tracked # NoId =>
              /\ ids'.response = Tracked /\ ids'.deferred = ids.deferred
              /\ run.store = "false" => ids'.unstored = Tracked
       /\ \/ run'.to = NoId
          \/ mode = "previous"
          \/ /\ run'.to = Or(Tracked, Or(ids'.deferred, ids'.response))
             /\ run.store # "false" /\ run'.to # ids'.unstored
  BY <1>4 DEF AsCompacted
<1>5. CompactionTypeOK'
  BY <1>1, <1>2, <1>3, <1>4a DEF CompactionTypeOK
<1>6. RewriteInv'
  BY <1>1, <1>2, <1>4a, RewriteKeeps DEF RunAt
<1>7. UnstoredInv'
  <2> SUFFICES ASSUME ~cut', ~asked' PROVE UnstoredInv'
    BY DEF UnstoredInv
  <2>1. ~cut /\ ~asked /\ Noting
    BY <1>1 DEF Noting, RunAt
  <2>2. /\ mode # "previous" /\ unstored \subseteq 1..run.no
        /\ run.no \notin unstored /\ Fresh(run.offered) /\ Fresh(run.to)
        /\ \A item \in ToSet(kept) \cup ToSet(run.next) : Fresh(item.id)
        /\ ids = [NoIds EXCEPT !.response = IF mode = "input" THEN NoId ELSE Tracked]
    BY <1>1, <1>2, <2>1 DEF UnstoredInv
  <2>3. /\ ids.deferred = NoId
        /\ ids.response = IF mode = "input" THEN NoId ELSE Tracked
    BY <2>2 DEF NoIds
  <2>4. /\ Tracked \in {run.no, run.offered} /\ Tracked <= run.no
        /\ Tracked = run.no => run.has
        /\ ~Noting' /\ ~RunAt("compact")' /\ 0 < run.no
    <3>1. run.offered < run.no /\ run.to < run.no /\ run.to \in Nat
      BY <1>2, <2>1, <2>2, IdsAre DEF Fresh
    <3>2. Tracked \in {run.no, run.offered} /\ (Tracked = run.no => run.has)
      BY <1>3, <3>1 DEF Tracked
    <3>3. Tracked <= run.no /\ 0 < run.no
      BY <1>3, <3>1, <3>2
    <3>4. QED
      BY <1>4a, <3>2, <3>3 DEF Noting, RunAt
  <2>5. unstored' \subseteq 1..run.no /\ 0 \notin unstored'
    BY <1>1, <1>3, <2>2, <2>4
  <2>6. ASSUME NEW item \in ToSet(kept) PROVE Fresh(item.id)'
    <3>1. Fresh(item.id) /\ item.id \in Nat
      BY <1>2, <2>2, IdsAre
    <3>2. item.id \notin unstored' /\ item.id <= run.no
      BY <1>1, <1>3, <2>1, <3>1 DEF Fresh
    <3>3. QED
      BY <1>4a, <2>4, <3>2 DEF Fresh
  <2>7. Candidate' = Tracked
    <3>1. CASE Tracked = NoId
      <4>1. ids'.deferred = NoId /\ ids'.response = NoId
        BY <1>4a, <2>3, <3>1
      <4>2. QED
        BY <3>1, <4>1 DEF Candidate, Or
    <3>2. CASE Tracked # NoId
      <4>1. ids'.deferred = NoId /\ ids'.response = Tracked
        BY <1>4a, <2>3, <3>2
      <4>2. QED
        BY <3>2, <4>1 DEF Candidate, Or
    <3>3. QED
      BY <3>1, <3>2
  <2>8. Tracked \in unstored' => run.store = "false" /\ Tracked # NoId
    <3>1. run.offered \notin unstored
      BY <2>2 DEF Fresh
    <3>2. QED
      BY <1>1, <1>3, <2>2, <2>4, <2>5, <3>1
  <2>9. Candidate' <= run.no /\ (Candidate' \in unstored' => Candidate' = ids'.unstored)
    BY <1>4a, <2>4, <2>7, <2>8
  <2>10. Fresh(run.to)'
    <3>1. run'.to \in {0, Tracked} /\ (run'.to = Tracked /\ Tracked # 0 => run.store # "false")
      <4>1. Or(Tracked, Or(ids'.deferred, ids'.response)) = Tracked
        BY <2>7 DEF Or, Candidate
      <4>2. QED
        BY <1>3, <1>4a, <2>2, <4>1
    <3>2. run'.to \notin unstored' /\ run'.to <= run.no
      BY <1>3, <2>4, <2>5, <2>8, <3>1
    <3>3. QED
      BY <1>4a, <2>4, <3>2 DEF Fresh
  <2>11. ToSet(run'.next) = {}
    BY <1>4a, EmptyHolds
  <2>12. QED
    BY <1>1, <1>4a, <2>2, <2>4, <2>5, <2>6, <2>9, <2>10, <2>11 DEF UnstoredInv
<1>8. QED
  BY <1>1, <1>4a, <1>5, <1>6, <1>7 DEF CompactionInv, Resting, RunAt

LEMMA CallCompactionStep ==
    ASSUME CompactionInv, CallCompaction PROVE CompactionInv'
<1>1. PICK requested \in Modes :
        /\ Compacts(run.no + 1, requested, NoId, "unset", TRUE)
        /\ asked' = (asked \/ requested = "previous")
  BY DEF CallCompaction, itemHistory
<1>2. /\ mode # "unopened" /\ RunAt("done") /\ run.no < MaxRuns
      /\ UNCHANGED <<mode, kept, unstored, cut>>
      /\ UNCHANGED <<added, forgettable, removed, lost>>
  BY DEF CallCompaction, itemHistory
<1>3. CompactionTypeOK /\ UnstoredInv /\ RewriteInv
  BY DEF CompactionInv
<1>4. /\ run.no \in Nat /\ NoId \in Ids /\ NoId = 0 /\ run.no + 1 \in Ids
      /\ Candidate \in Nat
  BY <1>2, <1>3, IdsAre, CompactionAssumption DEF Ids
<1>5. AsCompacted(run.no + 1, requested, NoId, "unset")
  <2>1. TRUE \in BOOLEAN /\ "unset" \in {"true", "false", "unset"}
    OBVIOUS
  <2>2. PICK no \in Ids : no = run.no + 1
    BY <1>4
  <2>3. Compacts(no, requested, NoId, "unset", TRUE)
    BY <1>1, <2>2
  <2>4. AsCompacted(no, requested, NoId, "unset")
    BY <1>3, <1>4, <2>1, <2>3, CompactsIs
  <2>5. QED
    BY <2>2, <2>4
<1>5a. /\ run' \in RunRecords /\ run'.no = run.no + 1 /\ run'.next = <<>>
       /\ run'.auto = FALSE
       /\ run'.at = "read" \/ (run'.at = "done" /\ run' = Finished(run.no + 1))
       /\ ids' = ids
       /\ \/ run'.to = NoId
          \/ requested = "previous"
          \/ /\ run'.to = Or(NoId, Or(ids'.deferred, ids'.response))
             /\ run'.to # ids'.unstored
  BY <1>5 DEF AsCompacted
<1>6. CompactionTypeOK'
  <2>1. asked' \in BOOLEAN
    BY <1>1
  <2>2. QED
    BY <1>2, <1>3, <1>5a, <2>1 DEF CompactionTypeOK
<1>7. RewriteInv'
  BY <1>2, <1>3, <1>5a, RewriteKeeps DEF RunAt
<1>8. UnstoredInv'
  <2> SUFFICES ASSUME ~cut', ~asked' PROVE UnstoredInv'
    BY DEF UnstoredInv
  <2>1. ~cut /\ ~asked /\ requested # "previous"
    BY <1>1, <1>2
  <2>2. /\ mode # "previous" /\ unstored \subseteq 1..run.no
        /\ \A item \in ToSet(kept) : Fresh(item.id)
        /\ Candidate <= run.no
        /\ Candidate \in unstored => Candidate = ids.unstored
    BY <1>3, <2>1 DEF UnstoredInv
  <2>3. ~Noting' /\ ~RunAt("compact")' /\ Candidate' = Candidate
    BY <1>5a DEF Noting, RunAt, Candidate, Or
  <2>4. unstored' \subseteq 1..(run.no + 1) /\ 0 \notin unstored' /\ Candidate <= run.no + 1
    BY <1>2, <1>4, <2>2
  <2>5. ASSUME NEW item \in ToSet(kept) PROVE Fresh(item.id)'
    <3>1. item.id \in Nat /\ Fresh(item.id)
      BY <1>3, <2>2, IdsAre
    <3>2. QED
      BY <1>2, <1>4, <1>5a, <2>3, <3>1 DEF Fresh
  <2>6. Fresh(run.to)'
    <3>1. run'.to = 0 \/ (run'.to = Candidate /\ Candidate # ids.unstored)
      <4>1. Or(NoId, Or(ids'.deferred, ids'.response)) = Candidate
        BY <1>5a DEF Or, Candidate
      <4>2. QED
        BY <1>4, <1>5a, <2>1, <4>1
    <3>2. run'.to \notin unstored' /\ run'.to <= run.no + 1
      BY <1>2, <1>4, <2>2, <2>4, <3>1
    <3>3. QED
      BY <1>5a, <2>3, <3>2 DEF Fresh
  <2>7. ToSet(run'.next) = {}
    BY <1>5a, EmptyHolds
  <2>8. QED
    BY <1>2, <1>5a, <2>2, <2>3, <2>4, <2>5, <2>6, <2>7 DEF UnstoredInv
<1>9. QED
  BY <1>2, <1>5a, <1>6, <1>7, <1>8 DEF CompactionInv, Resting, RunAt

LEMMA DeferIdStep ==
    ASSUME CompactionInv, NEW r \in Ids, DeferId(r) PROVE CompactionInv'
<1>1. /\ RunAt("done") /\ r \in 1..run.no \ unstored
      /\ ids' = [ids EXCEPT !.deferred = r]
      /\ UNCHANGED <<mode, kept, run, unstored, asked, cut>>
      /\ UNCHANGED <<added, forgettable, removed, lost>>
  BY DEF DeferId, itemHistory
<1>2. CompactionTypeOK /\ UnstoredInv /\ RewriteInv /\ Resting
  BY DEF CompactionInv
<1>3. run.no \in Nat /\ NoId = 0
  BY <1>2, IdsAre
<1>4. ids' \in [response : Ids, deferred : Ids, unstored : Ids] /\ ids'.deferred = r
  BY <1>1, <1>2 DEF CompactionTypeOK
<1>5. Candidate' = r
  BY <1>1, <1>3, <1>4 DEF Candidate, Or
<1>6. CompactionTypeOK'
  BY <1>1, <1>2, <1>4 DEF CompactionTypeOK
<1>7. RewriteInv'
  BY <1>1, <1>2, RewriteKeeps DEF RunAt
<1>8. UnstoredInv'
  <2>1. ~RunAt("compact")' /\ Noting' = Noting
    BY <1>1 DEF RunAt, Noting
  <2>2. ~cut /\ ~asked =>
            /\ \A item \in ToSet(kept') \cup ToSet(run'.next) : Fresh(item.id)
            /\ Candidate' <= run.no /\ Candidate' \notin unstored
    BY <1>1, <1>2, <1>3, <1>5 DEF UnstoredInv
  <2>3. QED
    BY <2>1, <2>2, <1>1, <1>2, UnstoredKeeps
<1>9. Resting'
  BY <1>1, <1>2 DEF Resting, RunAt, Finished
<1>10. QED
  BY <1>1, <1>6, <1>7, <1>8, <1>9 DEF CompactionInv, RunAt

LEMMA PopNewestStep ==
    ASSUME CompactionInv, PopNewest PROVE CompactionInv'
<1>1. /\ RunAt("done") /\ kept # <<>> /\ kept' = Front(kept)
      /\ removed' = removed \cup ({Last(kept).n} \ {0})
      /\ UNCHANGED <<mode, ids, run, added, forgettable, lost, unstored, asked, cut>>
  BY DEF PopNewest
<1>2. CompactionTypeOK /\ UnstoredInv /\ RewriteInv /\ Resting
  BY DEF CompactionInv
<1>3. kept \in Seq(SessionItems)
  BY <1>2 DEF CompactionTypeOK
<1>4. /\ kept' \in Seq(SessionItems) /\ Last(kept) \in SessionItems
      /\ ToSet(kept) = ToSet(kept') \cup {Last(kept)}
  BY <1>1, <1>3, FrontIs, FrontHolds
<1>5. Last(kept).n \in 0..MaxItems
  BY <1>4, CompactionAssumption DEF SessionItems
<1>6. CompactionTypeOK'
  <2>1. removed' \subseteq 1..MaxItems
    <3>1. PICK l \in 0..MaxItems : l = Last(kept).n
      BY <1>5
    <3>2. {l} \ {0} \subseteq 1..MaxItems
      BY <3>1, CompactionAssumption
    <3>3. removed' = removed \cup ({l} \ {0}) /\ removed \subseteq 1..MaxItems
      BY <1>1, <1>2, <3>1 DEF CompactionTypeOK
    <3>4. QED
      BY <3>2, <3>3
  <2>2. QED
    BY <1>1, <1>2, <1>4, <2>1 DEF CompactionTypeOK
<1>7. RewriteInv'
  <2>1. /\ LostAreOld(ToSet(kept)) /\ CandidatesAre(ToSet(kept))
        /\ CandidatesAre(ToSet(run.next)) /\ run.next = <<>>
    BY <1>1, <1>2 DEF RewriteInv, RunAt
  <2>2. ASSUME NEW n \in (1..added) \ (removed' \cup lost)
        PROVE  \/ \E item \in ToSet(kept') : item.n = n
               \/ Forgotten(n, ToSet(kept'))
    <3>1. n \in (1..added) \ (removed \cup lost) /\ n # Last(kept).n
      BY <1>1, <1>2 DEF CompactionTypeOK
    <3>2. QED
      BY <2>1, <3>1, <1>4 DEF LostAreOld, Forgotten
  <2>3. LostAreOld(ToSet(kept))' /\ CandidatesAre(ToSet(kept))'
    BY <1>1, <1>4, <2>1, <2>2 DEF LostAreOld, Forgotten, CandidatesAre
  <2>4. CandidatesAre(ToSet(run.next))'
    BY <1>1, <2>1 DEF CandidatesAre
  <2>5. QED
    BY <1>1, <2>1, <2>3, <2>4 DEF RewriteInv, RunAt
<1>8. UnstoredInv'
  <2>1. ~RunAt("compact")' /\ Noting' = Noting
    BY <1>1 DEF RunAt, Noting
  <2>2. ~cut /\ ~asked =>
            \A item \in ToSet(kept') \cup ToSet(run'.next) : Fresh(item.id)
    BY <1>1, <1>2, <1>4 DEF UnstoredInv
  <2>3. QED
    BY <2>1, <2>2, <1>1, <1>2, IdsKeep
<1>9. Resting'
  BY <1>1, <1>2 DEF Resting, RunAt, Finished
<1>10. QED
  BY <1>1, <1>6, <1>7, <1>8, <1>9 DEF CompactionInv, RunAt

LEMMA ClearAllStep ==
    ASSUME CompactionInv, ClearAll PROVE CompactionInv'
<1>1. /\ RunAt("done") /\ kept' = <<>> /\ ids' = NoIds /\ removed' = 1..added
      /\ UNCHANGED <<mode, run, added, forgettable, lost, unstored, asked, cut>>
  BY DEF ClearAll
<1>2. CompactionTypeOK /\ UnstoredInv /\ RewriteInv /\ Resting
  BY DEF CompactionInv
<1>3. ToSet(kept') = {} /\ kept' \in Seq(SessionItems)
  BY <1>1, EmptyHolds
<1>4. NoId \in Ids /\ NoId = 0 /\ run.no \in Nat
  BY <1>2, IdsAre
<1>5. ids' \in [response : Ids, deferred : Ids, unstored : Ids] /\ Candidate' = 0
  BY <1>1, <1>4 DEF NoIds, Candidate, Or
<1>6. CompactionTypeOK'
  <2>1. removed' \subseteq 1..MaxItems
    BY <1>1, <1>2, CompactionAssumption DEF CompactionTypeOK
  <2>2. QED
    BY <1>1, <1>2, <1>3, <1>5, <2>1 DEF CompactionTypeOK
<1>7. RewriteInv'
  <2>1. LostAreOld(ToSet(kept))'
    BY <1>1 DEF LostAreOld
  <2>2. CandidatesAre(ToSet(kept))'
    BY <1>3 DEF CandidatesAre
  <2>3. CandidatesAre(ToSet(run.next))' /\ run.next = <<>>
    BY <1>1, <1>2 DEF RewriteInv, CandidatesAre, RunAt
  <2>4. QED
    BY <1>1, <2>1, <2>2, <2>3 DEF RewriteInv, RunAt
<1>8. UnstoredInv'
  <2>1. ~RunAt("compact")' /\ Noting' = Noting
    BY <1>1 DEF RunAt, Noting
  <2>2. ~cut /\ ~asked =>
            /\ \A item \in ToSet(kept') \cup ToSet(run'.next) : Fresh(item.id)
            /\ Candidate' <= run.no /\ Candidate' \notin unstored
    BY <1>1, <1>2, <1>3, <1>4, <1>5 DEF UnstoredInv
  <2>3. QED
    BY <2>1, <2>2, <1>1, <1>2, UnstoredKeeps
<1>9. Resting'
  BY <1>1, <1>2 DEF Resting, RunAt, Finished
<1>10. QED
  BY <1>1, <1>6, <1>7, <1>8, <1>9 DEF CompactionInv, RunAt

LEMMA CutOffStep ==
    ASSUME CompactionInv, CutOff PROVE CompactionInv'
<1> DEFINE Waiting == {item.n : item \in ToSet(run.next)} \ {0}
<1>1. /\ ~RunAt("done") /\ RunGoes("done") /\ cut' = TRUE
      /\ lost' = IF RunAt("put") THEN lost \cup Waiting ELSE lost
      /\ UNCHANGED <<mode, kept, ids, added, forgettable, removed, unstored, asked>>
  BY DEF CutOff
<1>2. CompactionTypeOK /\ RewriteInv
  BY DEF CompactionInv
<1>3. /\ run' \in RunRecords /\ run'.no = run.no /\ run' = Finished(run.no)
      /\ run'.at = "done" /\ run'.next = <<>>
  <2>1. run \in RunRecords /\ "done" \in RunPlaces /\ run.no \in Ids
    BY <1>2, IdsAre DEF RunPlaces
  <2>2. QED
    BY <1>1, <2>1, GoesIs, FinishedIs
<1>4. CompactionTypeOK'
  <2>1. Waiting \subseteq 1..MaxItems
    <3>1. \A item \in ToSet(run.next) : item \in SessionItems
      BY <1>2, IdsAre
    <3>2. \A item \in SessionItems : item.n \in 0..MaxItems
      BY CompactionAssumption DEF SessionItems
    <3>3. QED
      BY <3>1, <3>2, CompactionAssumption
  <2>2. lost' \subseteq 1..MaxItems
    BY <1>1, <1>2, <2>1 DEF CompactionTypeOK
  <2>3. QED
    BY <1>1, <1>2, <1>3, <2>2 DEF CompactionTypeOK
<1>5. RewriteInv'
  <2>1. LostAreOld(ToSet(kept))'
    <3>1. CASE RunAt("put")
      <4>1. LostAreOld(ToSet(run.next)) /\ ToSet(kept) = {}
        BY <1>2, <3>1, EmptyHolds DEF RewriteInv
      <4>2. ASSUME NEW n \in (1..added) \ (removed \cup lost'),
                   NEW item \in ToSet(run.next)
            PROVE  item.n # n
        <5>1. n # 0 /\ n \notin Waiting
          BY <1>1, <3>1, <4>2
        <5>2. QED
          BY <5>1
      <4>3. \A n \in (1..added) \ (removed \cup lost') : n \in forgettable
        BY <1>1, <3>1, <4>1, <4>2 DEF LostAreOld, Forgotten
      <4>4. QED
        BY <1>1, <4>1, <4>3 DEF LostAreOld, Forgotten
    <3>2. CASE ~RunAt("put")
      <4>1. LostAreOld(ToSet(kept)) /\ lost' = lost
        BY <1>1, <1>2, <3>2 DEF RewriteInv
      <4>2. QED
        BY <1>1, <4>1 DEF LostAreOld, Forgotten
    <3>3. QED
      BY <3>1, <3>2
  <2>2. CandidatesAre(ToSet(kept))' /\ CandidatesAre(ToSet(run.next))'
    BY <1>1, <1>2, <1>3, EmptyHolds DEF RewriteInv, CandidatesAre
  <2>3. QED
    BY <1>3, <2>1, <2>2 DEF RewriteInv, RunAt
<1>6. Resting' /\ UnstoredInv'
  BY <1>1, <1>3 DEF Resting, UnstoredInv, RunAt
<1>7. mode' # "unopened"
  BY <1>1 DEF CompactionInv
<1>8. QED
  BY <1>4, <1>5, <1>6, <1>7 DEF CompactionInv

LEMMA CompactionStep ==
    ASSUME CompactionInv, CompactionNext PROVE CompactionInv'
<1>1. ASSUME NEW r \in Ids, DeferId(r) PROVE CompactionInv'
  BY <1>1, DeferIdStep
<1>2. QED
  BY <1>1, OpenCompactionStep, LoadStateStep, AddSessionItemsStep,
     ShouldCompactStep, ReadItemsStep, ClearItemsStep, PutItemsStep,
     SaveStateStep, RunCompactionStep, CallCompactionStep, PopNewestStep,
     ClearAllStep, CutOffStep
     DEF CompactionNext

LEMMA CompactionStutter == CompactionInv /\ UNCHANGED compactionVars => CompactionInv'
<1> SUFFICES ASSUME CompactionInv, UNCHANGED compactionVars PROVE CompactionInv'
  OBVIOUS
<1>1. UNCHANGED <<mode, kept, ids, run, added, forgettable, removed, lost, unstored,
                   asked, cut>>
  BY DEF compactionVars
<1>2. CompactionTypeOK' /\ Resting' /\ RewriteInv'
  BY <1>1 DEF CompactionInv, CompactionTypeOK, Resting, RewriteInv, LostAreOld,
              Forgotten, CandidatesAre, RunAt, Finished
<1>3. UnstoredInv'
  <2>1. /\ Noting' = Noting /\ Candidate' = Candidate
        /\ RunAt("compact")' = RunAt("compact") /\ Tracked' = Tracked
        /\ \A id : Fresh(id)' = Fresh(id)
    BY <1>1 DEF Noting, Candidate, Or, RunAt, Tracked, Fresh
  <2>2. Fresh(run.to)' = Fresh(run.to) /\ Fresh(run.offered)' = Fresh(run.offered)
    BY <1>1, <2>1 DEF Fresh
  <2>3. QED
    BY <1>1, <2>1, <2>2 DEF CompactionInv, UnstoredInv
<1>4. QED
  BY <1>1, <1>2, <1>3 DEF CompactionInv, RunAt

LEMMA CompactionStarts == CompactionInit => CompactionInv
<1> SUFFICES ASSUME CompactionInit PROVE CompactionInv
  OBVIOUS
<1>1. 0 \in Ids /\ NoId = 0
  BY CompactionAssumption DEF Ids, NoId
<1>2. /\ run \in RunRecords /\ run = Finished(0) /\ run.no = 0 /\ run.at = "done"
      /\ run.to = 0 /\ run.auto = FALSE /\ run.next = <<>>
  BY <1>1, FinishedIs DEF CompactionInit
<1>3. /\ ids \in [response : Ids, deferred : Ids, unstored : Ids]
      /\ Candidate = 0
  BY <1>1 DEF CompactionInit, NoIds, Candidate, Or
<1>4. CompactionTypeOK
  <2>1. /\ mode = "unopened" /\ kept = <<>> /\ added = 0 /\ removed = {}
        /\ unstored = {} /\ asked = FALSE /\ cut = FALSE
        /\ forgettable = {} /\ lost = {}
    BY DEF CompactionInit
  <2>2. added \in 0..MaxItems /\ kept \in Seq(SessionItems)
    BY <2>1, CompactionAssumption
  <2>3. QED
    BY <1>2, <1>3, <2>1, <2>2 DEF CompactionTypeOK
<1>5. UnstoredInv
  BY <1>2, <1>3, EmptyHolds DEF CompactionInit, UnstoredInv, Fresh, Noting, RunAt
<1>6. RewriteInv
  BY <1>2, EmptyHolds
     DEF CompactionInit, RewriteInv, LostAreOld, CandidatesAre, RunAt
<1>7. QED
  BY <1>2, <1>4, <1>5, <1>6 DEF CompactionInv, Resting, RunAt, CompactionInit

(* The compaction session keeps its invariant, for every threshold and     *)
(* every bound.                                                            *)
THEOREM CompactionInvariant == CompactionSpec => []CompactionInv
BY CompactionStarts, CompactionStep, CompactionStutter, PTL DEF CompactionSpec

LEMMA OldestGo == CompactionInv => OnlyOldCandidatesGo
<1>1. ASSUME CompactionInv,
             NEW n \in (1..added) \ (removed \cup lost \cup Numbers("user")
                                           \cup Numbers("candidate"))
      PROVE  /\ n \in forgettable
             /\ \A m \in Numbers("candidate") : n < m
  <2>1. n \in (1..added) \ (removed \cup lost) /\ n # 0
    BY <1>1
  <2>2. ASSUME NEW item \in Present PROVE item.n # n
    <3>1. item \in SessionItems
      BY <1>1, IdsAre DEF CompactionInv, Present
    <3>2. item.sort \in {"user", "candidate"} \/ item.n = 0
      BY <3>1 DEF SessionItems
    <3>3. QED
      BY <1>1, <2>1, <3>2 DEF Numbers
  <2>3. /\ ToSet(kept) = {} \/ LostAreOld(ToSet(kept))
        /\ ToSet(run.next) = {} \/ LostAreOld(ToSet(run.next))
        /\ LostAreOld(ToSet(kept)) \/ LostAreOld(ToSet(run.next))
    BY <1>1, EmptyHolds DEF CompactionInv, RewriteInv
  <2>4. /\ LostAreOld(ToSet(kept)) => Forgotten(n, ToSet(kept))
        /\ LostAreOld(ToSet(run.next)) => Forgotten(n, ToSet(run.next))
    BY <2>1, <2>2 DEF LostAreOld, Present
  <2>5. n \in forgettable
    BY <2>3, <2>4 DEF Forgotten
  <2>6. ASSUME NEW m \in Numbers("candidate") PROVE n < m
    <3>1. PICK item \in Present : IsCandidate(item) /\ item.n = m
      BY <2>6 DEF Numbers, IsCandidate
    <3>2. QED
      BY <2>3, <2>4, <3>1 DEF Forgotten, Present
  <2>7. QED
    BY <2>5, <2>6
<1>2. QED
  BY <1>1 DEF OnlyOldCandidatesGo

(* Compaction forgets old candidates and nothing else, but for what a run  *)
(* had cleared and not yet written back when it was dropped.               *)
THEOREM CompactionForgetsTheOldest == CompactionSpec => []OnlyOldCandidatesGo
BY OldestGo, CompactionInvariant, PTL

LEMMA UnstoredStays == CompactionInv => UnstoredIsNotContinued
<1>1. ASSUME CompactionInv PROVE UnstoredIsNotContinued
  <2> SUFFICES ASSUME ~cut, ~asked, RunAt("done")
               PROVE  /\ Offered \notin unstored
                      /\ \A item \in ToSet(kept) : item.id \notin unstored
    BY DEF UnstoredIsNotContinued
  <2>1. /\ unstored \subseteq 1..run.no
        /\ \A item \in ToSet(kept) : Fresh(item.id)
        /\ Candidate \in unstored => Candidate = ids.unstored
    BY <1>1 DEF CompactionInv, UnstoredInv
  <2>2. NoId = 0
    BY <1>1, IdsAre DEF CompactionInv
  <2>3. Offered \notin unstored
    BY <2>1, <2>2 DEF Offered, Candidate
  <2>4. QED
    BY <2>1, <2>3 DEF Fresh
<1>2. QED
  BY <1>1

(* No run continues from a response that was not stored, and no marker     *)
(* names one, unless previous_response_id was asked for by name.           *)
THEOREM UnstoredIsLeft == CompactionSpec => []UnstoredIsNotContinued
BY UnstoredStays, CompactionInvariant, PTL

-----------------------------------------------------------------------------
(* The conversation tracker: the sources of filtered items.                *)

Distinct(m) == \A i, j \in DOMAIN m : m[i] = m[j] /\ i # j => m[j] = 0
Grown(m, r) ==
    /\ \A i \in DOMAIN m : m[i] # 0 => r[i] = m[i]
    /\ Distinct(m) => Distinct(r)
Matchings(k) == [1..k -> 0..Len(prepared)]

LEMMA ChoiceIs ==
    ASSUME prepared \in Seq(Occurrences), NEW way \in {"text", "place", "order"},
           NEW filtered, NEW m, NEW i
    PROVE  Choice(way, filtered, m, i) \subseteq Unmatched(m)
<1>1. ByText(filtered[i].print, m) \subseteq Unmatched(m)
  BY SMTT(30) DEF ByText
<1>2. ByPlace(m, i) \subseteq Unmatched(m)
  BY DEF ByPlace, Between
<1>3. Unmatched(m) \subseteq Nat
  BY LenProperties DEF Unmatched
<1>4. TheNextInOrder(m) \subseteq Unmatched(m)
  <2>1. CASE Unmatched(m) = {}
    BY <2>1 DEF TheNextInOrder
  <2>2. CASE Unmatched(m) # {}
    <3>1. \E x \in Unmatched(m) : \A y \in Unmatched(m) : x <= y
      BY <1>3, <2>2, NatMin
    <3>2. Min(Unmatched(m)) \in Unmatched(m)
      BY <3>1 DEF Min
    <3>3. QED
      BY <2>2, <3>2 DEF TheNextInOrder
  <2>3. QED
    BY <2>1, <2>2
<1>5. QED
  BY <1>1, <1>2, <1>4 DEF Choice

LEMMA MatchIs ==
    ASSUME prepared \in Seq(Occurrences), NEW way \in {"text", "place", "order"},
           NEW filtered, NEW k \in Nat, NEW m \in Matchings(k), NEW i \in 1..k
    PROVE  /\ Match(way, filtered, m, i) \in Matchings(k)
           /\ Grown(m, Match(way, filtered, m, i))
           /\ m[i] # 0 => Match(way, filtered, m, i) = m
<1>1. CASE m[i] = 0 /\ Choice(way, filtered, m, i) # {}
  <2>1. PICK j : j = CHOOSE y \in Choice(way, filtered, m, i) : TRUE
    OBVIOUS
  <2>2. j \in Unmatched(m)
    BY <1>1, <2>1, ChoiceIs
  <2>3. PICK r : r = [m EXCEPT ![i] = j]
    OBVIOUS
  <2>4. Match(way, filtered, m, i) = r
    BY <1>1, <2>1, <2>3 DEF Match
  <2>5. j \in 1..Len(prepared) /\ Len(prepared) \in Nat
    BY <2>2, LenProperties DEF Unmatched
  <2>6. r \in Matchings(k) /\ r[i] = j /\ DOMAIN r = 1..k /\ DOMAIN m = 1..k
    BY <2>3, <2>5 DEF Matchings
  <2>7. \A n \in 1..k : n # i => r[n] = m[n]
    BY <2>3 DEF Matchings
  <2>8. \A n \in 1..k : m[n] # j
    BY <2>2, <2>6 DEF Unmatched
  <2>9. Grown(m, r)
    BY <1>1, <2>6, <2>7, <2>8 DEF Grown, Distinct
  <2>10. QED
    BY <1>1, <2>4, <2>6, <2>9
<1>2. CASE ~(m[i] = 0 /\ Choice(way, filtered, m, i) # {})
  BY <1>2 DEF Match, Grown
<1>3. QED
  BY <1>1, <1>2

Passes(g, way, filtered, m) ==
    /\ g[0] = m
    /\ \A n \in 1..Len(m) : g[n] = Match(way, filtered, g[n - 1], n)

LEMMA PassCount ==
    ASSUME prepared \in Seq(Occurrences), NEW way \in {"text", "place", "order"},
           NEW filtered, NEW k \in Nat, NEW base \in Matchings(k)
    PROVE  /\ Len(base) = k
           /\ \E g \in [0..k -> Matchings(k)] :
              Passes(g, way, filtered, base) /\ Pass(way, filtered, base) = g[k]
<1> DEFINE Next(t, n) == Match(way, filtered, t, n)
           Nth(g, n) == IF n = 0 THEN base ELSE Next(g[n - 1], n)
<1>1. Len(base) = k
  BY LenProperties DEF Matchings
<1>2. PICK A : A = Matchings(k)
  OBVIOUS
<1>3. base \in A /\ \A n \in 1..k, t \in A : Next(t, n) \in A
  BY <1>2, MatchIs
<1>4. \A f : f = [n \in 0..k |-> Nth(f, n)]
                 => \E g : g = [n \in 0..k |-> Nth(g, n)] /\ Pass(way, filtered, base) = g[k]
  BY <1>1 DEF Pass
<1> HIDE DEF Next
<1>5. PICK step : step = [n \in 1..k |-> [t \in A |-> Next(t, n)]]
  OBVIOUS
<1>6. step \in [1..k -> [A -> A]] /\ \A n \in 1..k, t \in A : step[n][t] = Next(t, n)
  BY <1>3, <1>5
<1>7. PICK f \in [0..k -> A] : Repeats(f, base, k, step)
  <2>1. base \in A /\ step \in [1..k -> [A -> A]]
    BY <1>3, <1>6
  <2>2. QED
    BY <2>1, Iterates
<1>8. \A n \in 0..k : f[n] = Nth(f, n)
  <2>1. ASSUME NEW n \in 1..k PROVE f[n] = Next(f[n - 1], n)
    <3>1. f[n - 1] \in A
      OBVIOUS
    <3>2. QED
      BY <3>1, <1>6, <1>7 DEF Repeats
  <2>2. QED
    BY <2>1, <1>7 DEF Repeats
<1> HIDE DEF Nth
<1>9. f = [n \in 0..k |-> Nth(f, n)]
  <2>1. f = [n \in 0..k |-> f[n]]
    OBVIOUS
  <2>2. QED
    BY <2>1, <1>8
<1>10. PICK g : g = [n \in 0..k |-> Nth(g, n)] /\ Pass(way, filtered, base) = g[k]
  BY <1>4, <1>9
<1>11. \A n \in 0..k : g[n] = Nth(g, n)
  BY <1>10
<1>12. g[0] = base /\ \A n \in 1..k : g[n] = Next(g[n - 1], n)
  BY <1>11 DEF Nth
<1>13. \A n \in 0..k : g[n] \in A
  <2> DEFINE T == {n \in 0..k : g[n] \in A}
  <2>1. 0 \in T
    BY <1>12, <1>3
  <2>2. ASSUME NEW n \in 0..k - 1, n \in T PROVE n + 1 \in T
    <3>1. n + 1 \in 1..k /\ (n + 1) - 1 = n /\ n + 1 \in 0..k
      OBVIOUS
    <3>2. QED
      BY <3>1, <1>12, <2>2, <1>3
  <2>3. 0..k \subseteq T
    <3> HIDE DEF T
    <3>1. QED
      BY <2>1, <2>2, CountingUp
  <2>4. QED
    BY <2>3
<1>14. g \in [0..k -> A]
  <2>1. DOMAIN g = 0..k /\ g = [n \in 0..k |-> g[n]]
    BY <1>10
  <2>2. QED
    BY <2>1, <1>13
<1>15. QED
  BY <1>1, <1>2, <1>10, <1>12, <1>14 DEF Next, Passes

LEMMA GrownOn ==
    ASSUME NEW k \in Nat, NEW a \in Matchings(k), NEW b \in Matchings(k),
           NEW c \in Matchings(k), Grown(a, b), Grown(b, c)
    PROVE  Grown(a, c)
<1>1. DOMAIN a = 1..k /\ DOMAIN b = 1..k /\ DOMAIN c = 1..k
  BY DEF Matchings
<1>2. ASSUME NEW i \in 1..k, a[i] # 0 PROVE c[i] = a[i]
  BY <1>1, <1>2 DEF Grown
<1>3. Distinct(a) => Distinct(c)
  BY DEF Grown
<1>4. QED
  BY <1>1, <1>2, <1>3 DEF Grown

LEMMA PassKeeps ==
    ASSUME prepared \in Seq(Occurrences), NEW way \in {"text", "place", "order"},
           NEW filtered, NEW k \in Nat, NEW base \in Matchings(k)
    PROVE  /\ Pass(way, filtered, base) \in Matchings(k)
           /\ Grown(base, Pass(way, filtered, base))
<1>1. PICK g \in [0..k -> Matchings(k)] :
              Passes(g, way, filtered, base) /\ Pass(way, filtered, base) = g[k]
  BY PassCount
<1>2. Len(base) = k
  BY PassCount
<1> DEFINE T == {n \in 0..k : Grown(base, g[n])}
<1>3. 0 \in T
  BY <1>1 DEF Passes, Grown
<1>4. ASSUME NEW n \in 0..k - 1, n \in T PROVE n + 1 \in T
  <2>1. n + 1 \in 1..k /\ (n + 1) - 1 = n /\ n + 1 \in 0..k /\ n \in 0..k
    OBVIOUS
  <2>2. g[n + 1] = Match(way, filtered, g[n], n + 1)
    BY <1>1, <1>2, <2>1 DEF Passes
  <2>3. g[n] \in Matchings(k)
    BY <2>1
  <2>4. Grown(g[n], g[n + 1]) /\ g[n + 1] \in Matchings(k)
    BY <2>1, <2>2, <2>3, MatchIs
  <2>5. Grown(base, g[n + 1])
    BY <1>4, <2>3, <2>4, GrownOn
  <2>6. QED
    BY <2>1, <2>5
<1>5. k \in T
  <2> HIDE DEF T
  <2>1. 0..k \subseteq T
    BY <1>3, <1>4, CountingUp
  <2>2. k \in 0..k
    OBVIOUS
  <2>3. QED
    BY <2>1, <2>2
<1>6. k \in 0..k
  OBVIOUS
<1>7. QED
  BY <1>1, <1>5, <1>6

MissesOnly(filtered, base, own, j) ==
    /\ \A i \in DOMAIN base : base[i] = 0 <=> i = own
    /\ ByText(filtered[own].print, base) = {j}

(* The only item without a match gets the only one with its text.          *)
LEMMA TextMatches ==
    ASSUME prepared \in Seq(Occurrences), NEW filtered, NEW k \in Nat,
           NEW base \in Matchings(k), NEW own \in 1..k, NEW j \in 1..Len(prepared),
           MissesOnly(filtered, base, own, j)
    PROVE  Pass("text", filtered, base)[own] = j
<1>0. PICK way \in {"text", "place", "order"} : way = "text"
  OBVIOUS
<1>1. PICK g \in [0..k -> Matchings(k)] :
              Passes(g, way, filtered, base) /\ Pass(way, filtered, base) = g[k]
  BY PassCount
<1>2. Len(base) = k
  BY PassCount
<1> DEFINE T == {n \in 0..k : IF n < own THEN g[n] = base ELSE g[n][own] = j}
<1>3. 0 \in T
  BY <1>1 DEF Passes
<1>4. ASSUME NEW n \in 0..k - 1, n \in T PROVE n + 1 \in T
  <2>1. n + 1 \in 1..k /\ (n + 1) - 1 = n /\ n + 1 \in 0..k /\ n \in 0..k
    OBVIOUS
  <2>2. g[n + 1] = Match("text", filtered, g[n], n + 1)
    BY <1>0, <1>1, <1>2, <2>1 DEF Passes
  <2>3. g[n] \in Matchings(k) /\ g[n + 1] \in Matchings(k)
    BY <2>1
  <2>4. CASE n + 1 < own
    <3>1. g[n] = base /\ base[n + 1] # 0
      BY <1>4, <2>1, <2>4 DEF MissesOnly, Matchings
    <3>2. g[n + 1] = base
      BY <1>0, <2>1, <2>2, <2>3, <3>1, MatchIs
    <3>3. QED
      BY <2>1, <2>4, <3>2
  <2>5. CASE n + 1 = own
    <3>1. g[n] = base /\ base[own] = 0
      BY <1>4, <2>1, <2>5 DEF MissesOnly, Matchings
    <3>2. Choice("text", filtered, base, own) = {j}
      BY DEF Choice, MissesOnly
    <3>3. (CHOOSE e \in Choice("text", filtered, base, own) : TRUE) = j
      BY <3>2
    <3>4. g[n + 1] = [base EXCEPT ![own] = j]
      BY <2>2, <2>5, <3>1, <3>2, <3>3 DEF Match
    <3>5. g[n + 1][own] = j
      BY <3>4 DEF Matchings
    <3>6. QED
      BY <2>1, <2>5, <3>5
  <2>6. CASE n + 1 > own
    <3>1. g[n][own] = j /\ j # 0
      BY <1>4, <2>1, <2>6
    <3>2. Grown(g[n], g[n + 1])
      BY <1>0, <2>1, <2>2, <2>3, MatchIs
    <3>3. g[n + 1][own] = j
      BY <2>3, <3>1, <3>2 DEF Grown, Matchings
    <3>4. QED
      BY <2>1, <2>6, <3>3
  <2>7. QED
    BY <2>4, <2>5, <2>6
<1>5. k \in T
  <2> HIDE DEF T
  <2>1. 0..k \subseteq T
    BY <1>3, <1>4, CountingUp
  <2>2. k \in 0..k
    OBVIOUS
  <2>3. QED
    BY <2>1, <2>2
<1>6. ~(k < own)
  OBVIOUS
<1>7. QED
  BY <1>0, <1>1, <1>5, <1>6

(* What a filter returns: at most one item of its own, and no prepared     *)
(* item twice.                                                             *)
Filtered(k) == [1..k -> [from : 0..Len(prepared), print : Fingerprints]]
IsFilter(f) ==
    /\ \A i \in DOMAIN f : f[i].from # 0 => f[i].print = prepared[f[i].from].print
    /\ \A i, j \in DOMAIN f : f[i].from = f[j].from => i = j

LEMMA PlacesOf ==
    ASSUME prepared \in Seq(Occurrences)
    PROVE  /\ Len(prepared) \in Nat /\ DOMAIN prepared = 1..Len(prepared)
           /\ \A j \in 1..Len(prepared) :
                  prepared[j] \in Occurrences /\ prepared[j].print \in Fingerprints
<1>1. Len(prepared) \in Nat /\ DOMAIN prepared = 1..Len(prepared)
  BY LenProperties
<1>2. \A j \in 1..Len(prepared) : prepared[j] \in Occurrences
  BY ElementOfSeq
<1>3. QED
  BY <1>1, <1>2 DEF Occurrences

LEMMA FilterIs ==
    ASSUME prepared \in Seq(Occurrences), NEW f \in Filters
    PROVE  \E k \in Nat : f \in Filtered(k) /\ IsFilter(f)
<1> DEFINE R == [from : 0..Len(prepared), print : Fingerprints]
           Keeps(s) == [k \in DOMAIN s |-> Kept(s[k])]
           Kepts == {Keeps(s) : s \in {t \in SeqOf(DOMAIN prepared, Len(prepared)) :
                                          IsInjective(t)}}
<1>1. ASSUME NEW h \in Kepts
      PROVE  \E k \in Nat : /\ h \in [1..k -> R] /\ IsFilter(h)
                            /\ \A i \in 1..k : h[i].from # 0
  <2>1. PICK s \in SeqOf(DOMAIN prepared, Len(prepared)) : IsInjective(s) /\ h = Keeps(s)
    OBVIOUS
  <2>2. PICK k \in Nat : s \in [1..k -> DOMAIN prepared]
    <3>1. s \in UNION {[1..n -> DOMAIN prepared] : n \in 0..Len(prepared)}
      BY <2>1 DEF SeqOf
    <3>2. PICK n \in 0..Len(prepared) : s \in [1..n -> DOMAIN prepared]
      BY <3>1
    <3>3. n \in Nat
      BY PlacesOf
    <3>4. QED
      BY <3>2, <3>3
  <2>3. DOMAIN s = 1..k /\ DOMAIN h = 1..k
    BY <2>1, <2>2
  <2>4. \A i \in 1..k : /\ s[i] \in 1..Len(prepared)
                        /\ h[i] = [from |-> s[i], print |-> prepared[s[i]].print]
    BY <2>1, <2>2, <2>3, PlacesOf DEF Kept
  <2>5. \A i \in 1..k : h[i] \in R /\ h[i].from = s[i] /\ h[i].from # 0
    <3>1. ASSUME NEW i \in 1..k PROVE h[i] \in R /\ h[i].from = s[i] /\ h[i].from # 0
      <4>1. s[i] \in 1..Len(prepared) /\ h[i] = [from |-> s[i], print |-> prepared[s[i]].print]
        BY <2>4
      <4>2. prepared[s[i]].print \in Fingerprints /\ s[i] \in 0..Len(prepared) /\ s[i] # 0
        BY <4>1, PlacesOf
      <4>3. QED
        BY <4>1, <4>2
    <3>2. QED
      BY <3>1
  <2>6. h \in [1..k -> R]
    BY <2>1, <2>3, <2>5
  <2>7. \A i, j \in 1..k : s[i] = s[j] => i = j
    BY <2>1, <2>3 DEF IsInjective
  <2>8. IsFilter(h)
    BY <2>3, <2>4, <2>5, <2>7 DEF IsFilter
  <2>9. QED
    BY <2>5, <2>6, <2>8
<1>2. CASE f \in Kepts
  BY <1>1, <1>2 DEF Filtered
<1>3. CASE f \notin Kepts
  <2>0. PICK h \in Kepts :
            f \in {InsertAt(h, k, Own(print)) : k \in 1..Len(h) + 1, print \in Fingerprints}
    BY <1>3 DEF Filters
  <2>1. PICK print \in Fingerprints, at \in 1..Len(h) + 1 : f = InsertAt(h, at, Own(print))
    BY <2>0
  <2>2. PICK k \in Nat : /\ h \in [1..k -> R] /\ IsFilter(h)
                         /\ \A i \in 1..k : h[i].from # 0
    BY <1>1
  <2>3. h \in Seq(R) /\ Len(h) = k /\ DOMAIN h = 1..k
    <3> HIDE DEF R
    <3>1. h \in [1..k -> R] /\ k \in Nat
      BY <2>2
    <3>2. QED
      BY <3>1, LenProperties
  <2>4. at \in 1..k + 1 /\ Own(print) \in R /\ Own(print).from = 0
    BY <2>1, <2>3, PlacesOf DEF Own
  <2> HIDE DEF R
  <2>5. PICK a : a = SubSeq(h, 1, at - 1)
    OBVIOUS
  <2>6. PICK b : b = SubSeq(h, at, k)
    OBVIOUS
  <2>7. /\ a \in Seq(R) /\ Len(a) = at - 1
        /\ \A i \in 1..at - 1 : a[i] = h[i]
    BY <2>3, <2>4, <2>5, SubSeqProperties
  <2>8. /\ b \in Seq(R) /\ Len(b) = k - at + 1
        /\ \A i \in 1..k - at + 1 : b[i] = h[i + at - 1]
    BY <2>3, <2>4, <2>6, SubSeqProperties
  <2>9. PICK own : own = Own(print)
    OBVIOUS
  <2>10. f = (a \o <<own>>) \o b
    BY <2>1, <2>3, <2>5, <2>6, <2>9 DEF InsertAt
  <2>11. PICK c : c = a \o <<own>>
    OBVIOUS
  <2>12. /\ c \in Seq(R) /\ Len(c) = at /\ c[at] = own
         /\ \A i \in 1..at - 1 : c[i] = h[i]
    BY <2>4, <2>7, <2>9, <2>11
  <2>13. /\ f \in Seq(R) /\ Len(f) = k + 1 /\ f[at] = own
         /\ \A i \in 1..at - 1 : f[i] = h[i]
         /\ \A i \in at + 1..k + 1 : f[i] = h[i - 1]
    <3>1. f = c \o b /\ Len(c) = at /\ Len(b) = k - at + 1 /\ c \in Seq(R) /\ b \in Seq(R)
      BY <2>8, <2>10, <2>11, <2>12
    <3>1a. /\ c \o b \in Seq(R) /\ Len(c \o b) = Len(c) + Len(b)
           /\ \A i \in 1..Len(c) + Len(b) :
                 (c \o b)[i] = IF i <= Len(c) THEN c[i] ELSE b[i - Len(c)]
      BY <3>1, ConcatProperties
    <3>1b. at + (k - at + 1) = k + 1 /\ at <= k + 1 /\ at \in Nat
      BY <2>4
    <3>2. f \in Seq(R) /\ Len(f) = k + 1
      BY <3>1, <3>1a, <3>1b
    <3>2a. \A i \in 1..k + 1 : f[i] = IF i <= at THEN c[i] ELSE b[i - at]
      BY <3>1, <3>1a, <3>1b
    <3>3. \A i \in 1..at : f[i] = c[i]
      BY <3>2a, <3>1b
    <3>4. \A i \in at + 1..k + 1 : f[i] = b[i - at]
      BY <3>2a, <3>1b
    <3>5. ASSUME NEW i \in at + 1..k + 1 PROVE f[i] = h[i - 1]
      <4>1. i - at \in 1..k - at + 1 /\ (i - at) + at - 1 = i - 1
        BY <2>4
      <4>2. b[i - at] = h[(i - at) + at - 1]
        BY <4>1, <2>8
      <4>3. QED
        BY <4>1, <4>2, <3>4
    <3>6. QED
      BY <3>2, <3>3, <3>5, <2>4, <2>12
  <2>14. DOMAIN f = 1..k + 1 /\ \A i \in 1..k + 1 : f[i] \in R
    BY <2>13
  <2>15. f \in [1..k + 1 -> R]
    BY <2>13, <2>14
  <2> DEFINE Old(i) == IF i < at THEN i ELSE i - 1
  <2>16. \A i \in 1..k + 1 : i # at => Old(i) \in 1..k /\ f[i] = h[Old(i)]
    BY <2>4, <2>13
  <2>17. \A i, j \in 1..k + 1 : i # at /\ j # at /\ Old(i) = Old(j) => i = j
    BY <2>4
  <2> HIDE DEF Old
  <2>18. ASSUME NEW i \in 1..k + 1, f[i].from # 0 PROVE f[i].print = prepared[f[i].from].print
    BY <2>2, <2>3, <2>4, <2>9, <2>13, <2>16, <2>18 DEF IsFilter
  <2>19. ASSUME NEW i \in 1..k + 1, NEW j \in 1..k + 1, f[i].from = f[j].from PROVE i = j
    BY <2>2, <2>3, <2>4, <2>9, <2>13, <2>16, <2>17, <2>19 DEF IsFilter
  <2>20. IsFilter(f)
    BY <2>14, <2>18, <2>19 DEF IsFilter
  <2>21. QED
    BY <2>15, <2>20 DEF R, Filtered
<1>4. QED
  BY <1>2, <1>3

SourcesFit(f, m) ==
    \A k \in DOMAIN f :
        /\ f[k].from # 0 => m[k] = f[k].from
        /\ \A i \in DOMAIN f : m[i] = m[k] /\ i # k => m[k] = 0
        /\ \A j \in CopiedBy(f) : f[k].print = prepared[j].print => m[k] = j

(* An item that a copy stands for is not there itself, and the copy is the *)
(* only item of the filter's own.                                          *)
LEMMA CopyIs ==
    ASSUME prepared \in Seq(Occurrences), NEW k \in Nat, NEW f \in Filtered(k),
           IsFilter(f), NEW j \in CopiedBy(f), NEW x \in 1..k,
           f[x].print = prepared[j].print
    PROVE  j \in 1..Len(prepared) /\ f[x].from = 0 /\ MissesOnly(f, ByAddress(f), x, j)
<1>1. DOMAIN f = 1..k /\ DOMAIN prepared = 1..Len(prepared) /\ j \in 1..Len(prepared)
  BY PlacesOf DEF Filtered, CopiedBy
<1>2. /\ \A i \in 1..k : f[i].from # j
      /\ \A i \in 1..Len(prepared) : prepared[i].print = prepared[j].print => i = j
  BY <1>1 DEF CopiedBy
<1>3. \A i \in 1..k : f[i].from \in 0..Len(prepared)
  BY DEF Filtered
<1>4. f[x].from = 0
  <2>1. SUFFICES ASSUME f[x].from # 0 PROVE FALSE
    OBVIOUS
  <2>2. f[x].from \in 1..Len(prepared)
    BY <1>3, <2>1, PlacesOf
  <2>3. prepared[f[x].from].print = prepared[j].print
    BY <1>1, <2>1 DEF IsFilter
  <2>4. QED
    BY <1>2, <2>2, <2>3
<1>5. PICK m : m = ByAddress(f)
  OBVIOUS
<1>6. DOMAIN m = 1..k /\ \A i \in 1..k : m[i] = f[i].from
  BY <1>1, <1>5 DEF ByAddress
<1>7. \A i \in 1..k : m[i] = 0 <=> i = x
  BY <1>1, <1>4, <1>6 DEF IsFilter
<1>8. {y \in Unmatched(m) : prepared[y].print = f[x].print} = {j}
  BY <1>1, <1>2, <1>6 DEF Unmatched
<1>9. Cardinality({j}) = 1
  BY FS_Singleton
<1>10. ByText(f[x].print, m) = {j}
  BY <1>8, <1>9 DEF ByText
<1>11. QED
  BY <1>1, <1>4, <1>5, <1>6, <1>7, <1>10 DEF MissesOnly

LEMMA SourcesIs ==
    ASSUME prepared \in Seq(Occurrences), NEW k \in Nat, NEW f \in Filtered(k),
           IsFilter(f)
    PROVE  SourcesOf(f) \in Matchings(k) /\ SourcesFit(f, SourcesOf(f))
<1>1. DOMAIN f = 1..k
  BY DEF Filtered
<1>2. PICK m : m = ByAddress(f)
  OBVIOUS
<1>3. m \in Matchings(k) /\ DOMAIN m = 1..k /\ \A i \in 1..k : m[i] = f[i].from
  BY <1>1, <1>2 DEF ByAddress, Matchings, Filtered
<1>4. Distinct(m)
  BY <1>1, <1>3 DEF Distinct, IsFilter
<1>5. PICK text, rest, order \in {"text", "place", "order"} :
          text = "text" /\ rest = "place" /\ order = "order"
  OBVIOUS
<1>6. PICK a : a = Pass(text, f, m)
  OBVIOUS
<1>7. PICK b : b = Pass(rest, f, a)
  OBVIOUS
<1>8. PICK c : c = Pass(order, f, b)
  OBVIOUS
<1>9. SourcesOf(f) = c
  BY <1>2, <1>5, <1>6, <1>7, <1>8 DEF SourcesOf
<1>10. a \in Matchings(k) /\ Grown(m, a)
  BY <1>3, <1>6, PassKeeps
<1>11. b \in Matchings(k) /\ Grown(a, b)
  BY <1>7, <1>10, PassKeeps
<1>12. c \in Matchings(k) /\ Grown(b, c)
  BY <1>8, <1>11, PassKeeps
<1>13. Grown(a, c)
  BY <1>10, <1>11, <1>12, GrownOn
<1>14. Grown(m, c)
  BY <1>3, <1>10, <1>12, <1>13, GrownOn
<1>15. \A i \in 1..k : f[i].from # 0 => c[i] = f[i].from
  BY <1>3, <1>14 DEF Grown
<1>16. \A x, i \in 1..k : c[i] = c[x] /\ i # x => c[x] = 0
  BY <1>4, <1>12, <1>14 DEF Grown, Distinct, Matchings
<1>17. ASSUME NEW x \in 1..k, NEW j \in CopiedBy(f), f[x].print = prepared[j].print
       PROVE  c[x] = j
  <2>1. j \in 1..Len(prepared) /\ MissesOnly(f, m, x, j)
    BY <1>2, <1>17, CopyIs
  <2>2. Pass("text", f, m)[x] = j
    BY <1>3, <2>1, TextMatches
  <2>3. a[x] = j /\ j # 0
    BY <1>5, <1>6, <2>1, <2>2
  <2>4. x \in DOMAIN a
    BY <1>10 DEF Matchings
  <2>5. QED
    BY <1>13, <2>3, <2>4 DEF Grown
<1>18. QED
  BY <1>1, <1>9, <1>12, <1>15, <1>16, <1>17 DEF SourcesFit

LEMMA SourcesRight == prepared \in Seq(Occurrences) => SourcesAreRight
<1> SUFFICES ASSUME prepared \in Seq(Occurrences), NEW f \in Filters
             PROVE  SourcesFit(f, SourcesOf(f))
  BY DEF SourcesAreRight, SourcesFit
<1>1. PICK k \in Nat : f \in Filtered(k) /\ IsFilter(f)
  BY FilterIs
<1>2. QED
  BY <1>1, SourcesIs

-----------------------------------------------------------------------------
(* Marking.                                                                *)

Texts(items, p) == {o \in ToSet(items) : o.print = p}
Times(prints, n, p) == {k \in 1..n : prints[k] = p}

LEMMA TextsFinite ==
    ASSUME NEW S, NEW s \in Seq(S), NEW p
    PROVE  IsFiniteSet(Texts(s, p)) /\ Cardinality(Texts(s, p)) \in Nat
<1>1. IsFiniteSet(ToSet(s))
  BY HeldIsFinite
<1>2. Texts(s, p) \in SUBSET ToSet(s)
  BY DEF Texts
<1>3. QED
  BY <1>1, <1>2, FS_Subset, FS_CardinalityType

(* "r" is what is left of "s" when one item with the text p goes.          *)
LessOne(s, r, p) ==
    /\ ToSet(r) \subseteq ToSet(s)
    /\ \A o \in ToSet(s) : o \in ToSet(r) \/ o.print = p
    /\ IsInjective(s) => /\ IsInjective(r)
                         /\ Texts(s, p) # {} =>
                                \E o \in Texts(s, p) : ToSet(r) = ToSet(s) \ {o}
                         /\ Texts(s, p) = {} => r = s

LEMMA RemovedIs ==
    ASSUME NEW S, NEW s \in Seq(S), NEW p
    PROVE  Removed(s, p) \in Seq(S) /\ LessOne(s, Removed(s, p), p)
<1> DEFINE hits == {k \in DOMAIN s : s[k].print = p}
<1>1. DOMAIN s = 1..Len(s) /\ Len(s) \in Nat
  BY LenProperties
<1>2. CASE hits = {}
  <2>1. Removed(s, p) = s
    BY <1>2 DEF Removed
  <2>2. Texts(s, p) = {}
    BY <1>1, <1>2, HoldsAt DEF Texts
  <2>3. QED
    BY <2>1, <2>2 DEF LessOne
<1>3. CASE hits # {}
  <2>1. hits \subseteq Nat
    BY <1>1
  <2>2. \E x \in hits : \A y \in hits : x <= y
    BY <1>3, <2>1, NatMin
  <2>3. PICK h : h = Min(hits)
    OBVIOUS
  <2>4. h \in hits
    BY <2>2, <2>3 DEF Min
  <2>5. h \in 1..Len(s) /\ s[h].print = p
    BY <1>1, <2>4
  <2>6. PICK r : r = RemoveAt(s, h)
    OBVIOUS
  <2>7. Removed(s, p) = r
    BY <1>3, <2>3, <2>6 DEF Removed
  <2>8. /\ r \in Seq(S) /\ ToSet(s) = ToSet(r) \cup {s[h]}
        /\ IsInjective(s) => IsInjective(r) /\ s[h] \notin ToSet(r)
    BY <2>5, <2>6, RemoveHolds
  <2>9. s[h] \in Texts(s, p)
    BY <2>5, <2>8 DEF Texts
  <2>10. IsInjective(s) => ToSet(r) = ToSet(s) \ {s[h]}
    BY <2>8
  <2>11. QED
    BY <2>5, <2>7, <2>8, <2>9, <2>10 DEF LessOne
<1>4. QED
  BY <1>2, <1>3

Spends(g, items, prints) ==
    /\ g[0] = items
    /\ \A n \in 1..Len(prints) : g[n] = Removed(g[n - 1], prints[n])

LEMMA SpentCount ==
    ASSUME NEW S, NEW s \in Seq(S), NEW P, NEW prints \in Seq(P)
    PROVE  \E g \in [0..Len(prints) -> Seq(S)] :
              Spends(g, s, prints) /\ Spent(s, prints) = g[Len(prints)]
<1> DEFINE Next(t, n) == Removed(t, prints[n])
           Nth(g, n) == IF n = 0 THEN s ELSE Next(g[n - 1], n)
<1>1. PICK k \in Nat : k = Len(prints)
  OBVIOUS
<1>2. PICK A : A = Seq(S)
  OBVIOUS
<1>3. s \in A /\ \A n \in 1..k, t \in A : Next(t, n) \in A
  BY <1>2, RemovedIs
<1>4. \A f : f = [n \in 0..k |-> Nth(f, n)]
                 => \E g : g = [n \in 0..k |-> Nth(g, n)] /\ Spent(s, prints) = g[k]
  BY <1>1 DEF Spent
<1> HIDE DEF Next
<1>5. PICK step : step = [n \in 1..k |-> [t \in A |-> Next(t, n)]]
  OBVIOUS
<1>6. step \in [1..k -> [A -> A]] /\ \A n \in 1..k, t \in A : step[n][t] = Next(t, n)
  BY <1>3, <1>5
<1>7. PICK f \in [0..k -> A] : Repeats(f, s, k, step)
  <2>1. s \in A /\ step \in [1..k -> [A -> A]]
    BY <1>3, <1>6
  <2>2. QED
    BY <2>1, Iterates
<1>8. \A n \in 0..k : f[n] = Nth(f, n)
  <2>1. ASSUME NEW n \in 1..k PROVE f[n] = Next(f[n - 1], n)
    <3>1. f[n - 1] \in A
      OBVIOUS
    <3>2. QED
      BY <3>1, <1>6, <1>7 DEF Repeats
  <2>2. QED
    BY <2>1, <1>7 DEF Repeats
<1> HIDE DEF Nth
<1>9. f = [n \in 0..k |-> Nth(f, n)]
  <2>1. f = [n \in 0..k |-> f[n]]
    OBVIOUS
  <2>2. QED
    BY <2>1, <1>8
<1>10. PICK g : g = [n \in 0..k |-> Nth(g, n)] /\ Spent(s, prints) = g[k]
  BY <1>4, <1>9
<1>11. \A n \in 0..k : g[n] = Nth(g, n)
  BY <1>10
<1>12. g[0] = s /\ \A n \in 1..k : g[n] = Next(g[n - 1], n)
  BY <1>11 DEF Nth
<1>13. \A n \in 0..k : g[n] \in A
  <2> DEFINE T == {n \in 0..k : g[n] \in A}
  <2>1. 0 \in T
    BY <1>12, <1>3
  <2>2. ASSUME NEW n \in 0..k - 1, n \in T PROVE n + 1 \in T
    <3>1. n + 1 \in 1..k /\ (n + 1) - 1 = n /\ n + 1 \in 0..k
      OBVIOUS
    <3>2. QED
      BY <3>1, <1>12, <2>2, <1>3
  <2>3. 0..k \subseteq T
    <3> HIDE DEF T
    <3>1. QED
      BY <2>1, <2>2, CountingUp
  <2>4. QED
    BY <2>3
<1>14. g \in [0..k -> A]
  <2>1. DOMAIN g = 0..k /\ g = [n \in 0..k |-> g[n]]
    BY <1>10
  <2>2. QED
    BY <2>1, <1>13
<1>15. QED
  BY <1>1, <1>2, <1>10, <1>12, <1>14 DEF Next, Spends

LEMMA TimesGrow ==
    ASSUME NEW prints, NEW n \in Nat, NEW p
    PROVE  /\ IsFiniteSet(Times(prints, n, p)) /\ Cardinality(Times(prints, n, p)) \in Nat
           /\ Cardinality(Times(prints, n + 1, p)) =
                  Cardinality(Times(prints, n, p)) + (IF prints[n + 1] = p THEN 1 ELSE 0)
<1>1. IsFiniteSet(1..n)
  BY FS_Interval
<1>2. PICK T \in SUBSET (1..n) : T = Times(prints, n, p)
  BY DEF Times
<1>3. IsFiniteSet(T) /\ Cardinality(T) \in Nat
  BY <1>1, FS_Subset, FS_CardinalityType
<1>4. 1..n + 1 = (1..n) \cup {n + 1} /\ n + 1 \notin T
  OBVIOUS
<1>5. CASE prints[n + 1] = p
  <2>1. Times(prints, n + 1, p) = T \cup {n + 1}
    BY <1>2, <1>4, <1>5 DEF Times
  <2>2. Cardinality(T \cup {n + 1}) = Cardinality(T) + 1
    BY <1>3, <1>4, FS_AddElement
  <2>3. QED
    BY <1>2, <1>3, <1>5, <2>1, <2>2
<1>6. CASE prints[n + 1] # p
  <2>1. Times(prints, n + 1, p) = T
    BY <1>2, <1>4, <1>6 DEF Times
  <2>2. QED
    BY <1>2, <1>3, <1>6, <2>1
<1>7. QED
  BY <1>5, <1>6

(* "t" is what n prints leave of "s".                                      *)
LeftBy(s, t, prints, n) ==
    /\ IsInjective(t)
    /\ ToSet(t) \subseteq ToSet(s)
    /\ \A o \in ToSet(s) : o \in ToSet(t) \/ \E k \in 1..n : prints[k] = o.print
    /\ \A p : \/ Texts(t, p) = {}
              \/ Cardinality(Texts(t, p)) + Cardinality(Times(prints, n, p))
                     <= Cardinality(Texts(s, p))

LEMMA LeftByMore ==
    ASSUME NEW S, NEW s \in Seq(S), NEW t \in Seq(S), NEW r \in Seq(S),
           NEW prints, NEW n \in Nat,
           LeftBy(s, t, prints, n), LessOne(t, r, prints[n + 1])
    PROVE  LeftBy(s, r, prints, n + 1)
<1>1. IsInjective(r) /\ ToSet(r) \subseteq ToSet(t) /\ ToSet(t) \subseteq ToSet(s)
  BY DEF LeftBy, LessOne
<1>2. ASSUME NEW o \in ToSet(s), o \notin ToSet(r)
      PROVE  \E k \in 1..n + 1 : prints[k] = o.print
  <2>1. CASE o \in ToSet(t)
    <3>1. o.print = prints[n + 1] /\ n + 1 \in 1..n + 1
      BY <1>2, <2>1 DEF LessOne
    <3>2. QED
      BY <3>1
  <2>2. CASE o \notin ToSet(t)
    <3>1. PICK k \in 1..n : prints[k] = o.print
      BY <2>2 DEF LeftBy
    <3>2. k \in 1..n + 1
      OBVIOUS
    <3>3. QED
      BY <3>1, <3>2
  <2>3. QED
    BY <2>1, <2>2
<1>3. ASSUME NEW p, Texts(r, p) # {}
      PROVE  Cardinality(Texts(r, p)) + Cardinality(Times(prints, n + 1, p))
                     <= Cardinality(Texts(s, p))
  <2>1. Texts(t, p) # {}
    BY <1>1, <1>3 DEF Texts
  <2>2. Cardinality(Texts(t, p)) + Cardinality(Times(prints, n, p)) <= Cardinality(Texts(s, p))
    BY <2>1 DEF LeftBy
  <2>3. /\ Cardinality(Texts(s, p)) \in Nat /\ Cardinality(Texts(t, p)) \in Nat
        /\ IsFiniteSet(Texts(t, p))
    BY TextsFinite
  <2>4. /\ Cardinality(Times(prints, n, p)) \in Nat
        /\ Cardinality(Times(prints, n + 1, p)) =
                  Cardinality(Times(prints, n, p)) + (IF prints[n + 1] = p THEN 1 ELSE 0)
    BY TimesGrow
  <2>5. CASE prints[n + 1] = p
    <3>1. PICK o \in Texts(t, p) : ToSet(r) = ToSet(t) \ {o}
      BY <2>1, <2>5 DEF LessOne, LeftBy
    <3>2. Texts(r, p) = Texts(t, p) \ {o}
      BY <3>1 DEF Texts
    <3>3. Cardinality(Texts(r, p)) = Cardinality(Texts(t, p)) - 1
      BY <2>3, <3>1, <3>2, FS_RemoveElement, ZenonT(60)
    <3>4. QED
      BY <2>2, <2>3, <2>4, <2>5, <3>3
  <2>6. CASE prints[n + 1] # p
    <3>1. CASE Texts(t, prints[n + 1]) = {}
      <4>1. r = t
        BY <3>1 DEF LessOne, LeftBy
      <4>2. QED
        BY <2>2, <2>3, <2>4, <2>6, <4>1
    <3>2. CASE Texts(t, prints[n + 1]) # {}
      <4>1. PICK o \in Texts(t, prints[n + 1]) : ToSet(r) = ToSet(t) \ {o}
        BY <3>2 DEF LessOne, LeftBy
      <4>2. o.print # p
        BY <2>6, <4>1 DEF Texts
      <4>3. Texts(r, p) = Texts(t, p)
        BY <4>1, <4>2 DEF Texts
      <4>4. QED
        BY <2>2, <2>3, <2>4, <2>6, <4>3
    <3>3. QED
      BY <3>1, <3>2
  <2>7. QED
    BY <2>5, <2>6
<1>4. QED
  BY <1>1, <1>2, <1>3 DEF LeftBy

LEMMA SpentIs ==
    ASSUME NEW S, NEW s \in Seq(S), IsInjective(s), NEW P, NEW prints \in Seq(P)
    PROVE  /\ Spent(s, prints) \in Seq(S)
           /\ LeftBy(s, Spent(s, prints), prints, Len(prints))
<1>1. PICK g \in [0..Len(prints) -> Seq(S)] :
              Spends(g, s, prints) /\ Spent(s, prints) = g[Len(prints)]
  BY SpentCount
<1>2. PICK k \in Nat : k = Len(prints)
  OBVIOUS
<1> DEFINE T == {n \in 0..k : LeftBy(s, g[n], prints, n)}
<1>3. 0 \in T
  <2>1. \A p : Times(prints, 0, p) = {}
    BY DEF Times
  <2>2. Cardinality({}) = 0
    BY FS_EmptySet
  <2>3. \A p : Cardinality(Texts(s, p)) + 0 <= Cardinality(Texts(s, p))
    BY TextsFinite
  <2>4. g[0] = s
    BY <1>1 DEF Spends
  <2>5. LeftBy(s, s, prints, 0)
    BY <2>1, <2>2, <2>3 DEF LeftBy
  <2>6. QED
    BY <2>4, <2>5
<1>4. ASSUME NEW n \in 0..k - 1, n \in T PROVE n + 1 \in T
  <2>1. n + 1 \in 1..k /\ (n + 1) - 1 = n /\ n + 1 \in 0..k /\ n \in 0..k /\ n \in Nat
    OBVIOUS
  <2>2. g[n + 1] = Removed(g[n], prints[n + 1])
    BY <1>1, <1>2, <2>1 DEF Spends
  <2>3. g[n] \in Seq(S) /\ g[n + 1] \in Seq(S)
    BY <1>2, <2>1
  <2>4. LessOne(g[n], g[n + 1], prints[n + 1])
    BY <2>2, <2>3, RemovedIs
  <2>5. LeftBy(s, g[n + 1], prints, n + 1)
    BY <1>4, <2>1, <2>3, <2>4, LeftByMore
  <2>6. QED
    BY <2>1, <2>5
<1>5. k \in T
  <2> HIDE DEF T
  <2>1. 0..k \subseteq T
    BY <1>3, <1>4, CountingUp
  <2>2. k \in 0..k
    OBVIOUS
  <2>3. QED
    BY <2>1, <2>2
<1>6. k \in 0..k
  OBVIOUS
<1>7. QED
  BY <1>1, <1>2, <1>5, <1>6

-----------------------------------------------------------------------------

Unseen(p) == {o \in ToSet(initial) : o.print = p /\ o.no \notin seen}

(* The occurrences are numbered apart, and seen ones are known.            *)
Numbered ==
    /\ \A o \in ToSet(initial) : o.no <= MaxInitial
    /\ \A o \in ToSet(generated) :
           /\ o.no > MaxInitial
           /\ o.no <= MaxInitial + 2 * turn
           /\ place \in {"prepared", "delivered"} => o.no <= MaxInitial + 2 * turn - 2
    /\ \A o, t \in Known : o.no = t.no => o = t
    /\ seen \subseteq {o.no : o \in Known}
    /\ place \in {"prepared", "delivered"} => turn >= 1
    /\ IsInjective(initial)

Lists ==
    /\ place \in {"start", "turn"} \/ sentInitial
    /\ place = "start" => ~sentInitial
    /\ ~sentInitial => seen = {} /\ remaining = <<>> /\ generated = <<>> /\ sentPrints = {}
    /\ ToSet(remaining) \subseteq ToSet(initial) /\ IsInjective(remaining)
    /\ place = "prepared" => prepared = remaining \o NotSent(generated)

(* What counts as sent.                                                    *)
Sent ==
    /\ \A o \in Known : o.no \in seen => o.print \in sentPrints
    /\ ~edited =>
         /\ sentInitial =>
                \A o \in ToSet(initial) : o \in ToSet(remaining) \/ o.print \in sentPrints
         /\ \A p \in sentPrints : \E t \in Known : t.print = p /\ t.no \in seen

(* Of each text no more items remain than the server has yet to see.       *)
Enough ==
    \A p \in Fingerprints : Cardinality(Texts(remaining, p)) <= Cardinality(Unseen(p))

TrackerInv == TrackerTypeOK /\ Numbered /\ Lists /\ Sent /\ Enough

LEMMA KnownAre ==
    ASSUME TrackerTypeOK
    PROVE  /\ Known \subseteq Occurrences
           /\ ToSet(initial) \subseteq Occurrences /\ ToSet(generated) \subseteq Occurrences
           /\ \A o \in Occurrences : o.print \in Fingerprints /\ o.no \in 1..MaxOccurrences
<1>1. ToSet(initial) \subseteq Occurrences /\ ToSet(generated) \subseteq Occurrences
  BY HoldsAt DEF TrackerTypeOK
<1>2. QED
  BY <1>1 DEF Known, Occurrences

LEMMA BoundsAre ==
    ASSUME TrackerTypeOK
    PROVE  /\ MaxInitial \in Nat /\ MaxTurns \in Nat /\ turn \in Nat /\ turn <= MaxTurns
           /\ MaxOccurrences \in Nat /\ MaxInitial + 2 * turn <= MaxOccurrences
BY TrackerBoundsAssumption DEF TrackerTypeOK, MaxOccurrences

LEMMA NotSentIs ==
    ASSUME TrackerTypeOK
    PROVE  /\ NotSent(generated) \in Seq(Occurrences)
           /\ ToSet(NotSent(generated)) = {o \in ToSet(generated) : o.print \notin sentPrints}
<1>1. generated \in Seq(Occurrences)
  BY DEF TrackerTypeOK
<1>2. PICK W : W = {o \in ToSet(generated) : o.print \notin sentPrints}
  OBVIOUS
<1>3. NotSent(generated) = Those(generated, W)
  BY <1>2 DEF NotSent
<1>4. /\ Those(generated, W) \in Seq(Occurrences)
      /\ ToSet(Those(generated, W)) = ToSet(generated) \cap W
  BY <1>1, ThoseHold
<1>5. QED
  BY <1>2, <1>3, <1>4

LEMMA PreparedIs ==
    ASSUME TrackerInv, place = "prepared"
    PROVE  /\ ToSet(prepared) = ToSet(remaining)
                  \cup {o \in ToSet(generated) : o.print \notin sentPrints}
           /\ ToSet(prepared) \subseteq Known
           /\ \A j \in 1..Len(prepared) : prepared[j] \in ToSet(prepared)
<1>1. TrackerTypeOK /\ prepared = remaining \o NotSent(generated)
  BY DEF TrackerInv, Lists
<1>2. remaining \in Seq(Occurrences) /\ prepared \in Seq(Occurrences)
  BY <1>1 DEF TrackerTypeOK
<1>3. ToSet(prepared) = ToSet(remaining) \cup ToSet(NotSent(generated))
  BY <1>1, <1>2, NotSentIs, ConcatHolds
<1>4. ToSet(remaining) \subseteq ToSet(initial)
  BY DEF TrackerInv, Lists
<1>5. QED
  BY <1>1, <1>2, <1>3, <1>4, NotSentIs, HoldsAt DEF Known

LEMMA UnseenFinite ==
    ASSUME TrackerTypeOK, NEW p
    PROVE  IsFiniteSet(Unseen(p)) /\ Cardinality(Unseen(p)) \in Nat
<1>1. IsFiniteSet(ToSet(initial))
  BY HeldIsFinite DEF TrackerTypeOK
<1>2. Unseen(p) \in SUBSET ToSet(initial)
  BY DEF Unseen
<1>3. QED
  BY <1>1, <1>2, FS_Subset, FS_CardinalityType

(* The prepared items J are delivered, each as the print at its place.     *)
Covers(prints, J, at) ==
    /\ J \subseteq 1..Len(prepared)
    /\ at \in [J -> 1..Len(prints)]
    /\ \A i, j \in J : at[i] = at[j] => i = j
    /\ \A j \in J : prints[at[j]] = prepared[j].print

Marks(prints, J) ==
    /\ Mark(prints)
    /\ seen' = seen \cup {prepared[j].no : j \in J}
    /\ edited' \in BOOLEAN
    /\ ~edited' => /\ ~edited
                   /\ \A k \in 1..Len(prints) : \E j \in J : prints[k] = prepared[j].print
    /\ place' = "delivered"
    /\ UNCHANGED <<initial, sentInitial, generated, prepared, turn>>

LEMMA MarkEnough ==
    ASSUME TrackerInv, place = "prepared", NEW prints \in Seq(Fingerprints),
           NEW J, NEW at, Covers(prints, J, at), Marks(prints, J), TrackerTypeOK'
    PROVE  Enough'
<1> SUFFICES ASSUME NEW p \in Fingerprints
             PROVE  Cardinality(Texts(remaining', p)) <= Cardinality(Unseen(p)')
  BY DEF Enough
<1>1. TrackerTypeOK /\ remaining \in Seq(Occurrences) /\ IsInjective(remaining)
  BY DEF TrackerInv, TrackerTypeOK, Lists
<1>2. remaining' = Spent(remaining, prints)
  BY DEF Marks, Mark
<1>3. remaining' \in Seq(Occurrences) /\ LeftBy(remaining, remaining', prints, Len(prints))
  BY <1>1, <1>2, SpentIs
<1>4. Cardinality(Unseen(p)') \in Nat /\ IsFiniteSet(Unseen(p)')
  <2>1. initial' \in Seq(Occurrences)
    BY DEF TrackerTypeOK
  <2>2. IsFiniteSet(ToSet(initial'))
    BY <2>1, HeldIsFinite
  <2>3. Unseen(p)' \in SUBSET ToSet(initial')
    BY DEF Unseen
  <2>4. QED
    BY <2>2, <2>3, FS_Subset, FS_CardinalityType
<1>5. CASE Texts(remaining', p) = {}
  <2>1. Cardinality({}) = 0
    BY FS_EmptySet
  <2>2. QED
    BY <1>4, <1>5, <2>1
<1>6. CASE Texts(remaining', p) # {}
  <2>1. Cardinality(Texts(remaining', p)) + Cardinality(Times(prints, Len(prints), p))
            <= Cardinality(Texts(remaining, p))
    BY <1>3, <1>6 DEF LeftBy
  <2>2. Cardinality(Texts(remaining, p)) <= Cardinality(Unseen(p))
    BY DEF TrackerInv, Enough
  <2>3. initial' = initial /\ seen' = seen \cup {prepared[j].no : j \in J}
    BY DEF Marks
  <2>4. Unseen(p)' \subseteq Unseen(p)
    BY <2>3 DEF Unseen
  <2>5. PICK Q : Q = Unseen(p) \ Unseen(p)'
    OBVIOUS
  <2>6. PICK F : F = Times(prints, Len(prints), p)
    OBVIOUS
  <2>7. IsFiniteSet(F) /\ Cardinality(F) \in Nat
    <3>1. Len(prints) \in Nat
      BY LenProperties
    <3>2. QED
      BY <2>6, <3>1, TimesGrow
  <2>8. \A o \in Q : \E j \in J : prepared[j] = o
    <3>1. SUFFICES ASSUME NEW o \in Q PROVE \E j \in J : prepared[j] = o
      OBVIOUS
    <3>2. o \in Known /\ o.no \in {prepared[j].no : j \in J}
      BY <2>3, <2>5 DEF Unseen, Known
    <3>3. PICK j \in J : o.no = prepared[j].no
      BY <3>2
    <3>4. prepared[j] \in Known
      BY PreparedIs DEF Covers
    <3>5. QED
      BY <3>2, <3>3, <3>4 DEF TrackerInv, Numbered
  <2>9. PICK h : h = [o \in Q |-> at[CHOOSE j \in J : prepared[j] = o]]
    OBVIOUS
  <2>10. ASSUME NEW o \in Q
         PROVE  h[o] \in F /\ \E j \in J : prepared[j] = o /\ h[o] = at[j]
    <3>1. PICK j : j = CHOOSE y \in J : prepared[y] = o
      OBVIOUS
    <3>2. j \in J /\ prepared[j] = o
      BY <2>8, <3>1
    <3>3. h[o] = at[j]
      BY <2>9, <3>1
    <3>4. at[j] \in 1..Len(prints) /\ prints[at[j]] = p
      BY <2>5, <3>2 DEF Covers, Unseen
    <3>5. QED
      BY <2>6, <3>2, <3>3, <3>4 DEF Times
  <2>11. \A o, u \in Q : h[o] = h[u] => o = u
    BY <2>10 DEF Covers
  <2>12. h \in Injection(Q, F)
    <3>1. h \in [Q -> F]
      BY <2>9, <2>10
    <3>2. QED
      BY <2>11, <3>1 DEF Injection, IsInjective
  <2>13. IsFiniteSet(Q) /\ Cardinality(Q) <= Cardinality(F)
    BY <2>7, <2>12, FS_Injection
  <2>14. Cardinality(Q) \in Nat
    BY <2>13, FS_CardinalityType
  <2>15. PICK U : U = Unseen(p)'
    OBVIOUS
  <2>16. Q \cap U = {} /\ Q \cup U = Unseen(p)
    BY <2>4, <2>5, <2>15
  <2>17. Cardinality(Q \cup U) = Cardinality(Q) + Cardinality(U) - Cardinality(Q \cap U)
    BY <1>4, <2>13, <2>15, FS_Union
  <2>18. Cardinality({}) = 0
    BY FS_EmptySet
  <2>19. Cardinality(Unseen(p)) = Cardinality(Q) + Cardinality(U)
    <3>1. Cardinality(Q \cap U) = 0
      BY <2>16, <2>18
    <3>2. Cardinality(U) \in Nat
      BY <1>4, <2>15
    <3>3. Cardinality(Q \cup U) = Cardinality(Unseen(p))
      BY <2>16
    <3>4. QED
      BY <2>14, <2>17, <3>1, <3>2, <3>3
  <2>20. Cardinality(Texts(remaining, p)) \in Nat /\ Cardinality(Texts(remaining', p)) \in Nat
    BY <1>1, <1>3, TextsFinite
  <2>21. QED
    BY <1>4, <2>1, <2>2, <2>6, <2>7, <2>13, <2>14, <2>15, <2>19, <2>20
<1>7. QED
  BY <1>5, <1>6

LEMMA MarkStep ==
    ASSUME TrackerInv, place = "prepared", NEW prints \in Seq(Fingerprints),
           NEW J, NEW at, Covers(prints, J, at), Marks(prints, J)
    PROVE  TrackerInv'
<1>1. TrackerTypeOK /\ remaining \in Seq(Occurrences) /\ IsInjective(remaining)
  BY DEF TrackerInv, TrackerTypeOK, Lists
<1>2. remaining' = Spent(remaining, prints) /\ sentPrints' = sentPrints \cup ToSet(prints)
  BY DEF Marks, Mark
<1>3. remaining' \in Seq(Occurrences) /\ LeftBy(remaining, remaining', prints, Len(prints))
  BY <1>1, <1>2, SpentIs
<1>4. /\ initial' = initial /\ sentInitial' = sentInitial /\ generated' = generated
      /\ prepared' = prepared /\ turn' = turn /\ place' = "delivered"
      /\ seen' = seen \cup {prepared[j].no : j \in J} /\ edited' \in BOOLEAN
  BY DEF Marks
<1>5. /\ ToSet(prints) \subseteq Fingerprints
      /\ \A x : x \in ToSet(prints) <=> \E i \in 1..Len(prints) : prints[i] = x
  BY HoldsAt
<1>6. \A j \in J : prepared[j] \in Known /\ prepared[j] \in Occurrences
  BY <1>1, PreparedIs, KnownAre DEF Covers
<1>7. TrackerTypeOK'
  <2>1. {prepared[j].no : j \in J} \subseteq 1..MaxOccurrences
    BY <1>1, <1>6, KnownAre
  <2>2. QED
    BY <1>1, <1>2, <1>3, <1>4, <1>5, <2>1 DEF TrackerTypeOK
<1>8. Known' = Known
  BY <1>4 DEF Known
<1>9. Numbered'
  <2>1. seen' \subseteq {o.no : o \in Known}
    BY <1>4, <1>6 DEF TrackerInv, Numbered
  <2>2. QED
    BY <1>4, <1>8, <2>1 DEF TrackerInv, Numbered
<1>10. Lists'
  <2>1. sentInitial' /\ place' # "start" /\ place' # "prepared"
    BY <1>4 DEF TrackerInv, Lists
  <2>2. ToSet(remaining') \subseteq ToSet(initial') /\ IsInjective(remaining')
    BY <1>3, <1>4 DEF TrackerInv, Lists, LeftBy
  <2>3. QED
    BY <2>1, <2>2 DEF Lists
<1>11. Sent'
  <2>1. ASSUME NEW o \in Known, o.no \in seen' PROVE o.print \in sentPrints'
    <3>1. CASE o.no \in seen
      BY <1>2, <3>1 DEF TrackerInv, Sent
    <3>2. CASE o.no \notin seen
      <4>1. PICK j \in J : o.no = prepared[j].no
        BY <1>4, <2>1, <3>2
      <4>2. o = prepared[j]
        BY <1>6, <4>1 DEF TrackerInv, Numbered
      <4>3. prints[at[j]] = o.print /\ at[j] \in 1..Len(prints)
        BY <4>2 DEF Covers
      <4>4. QED
        BY <1>2, <1>5, <4>3
    <3>3. QED
      BY <3>1, <3>2
  <2>2. ASSUME ~edited', NEW o \in ToSet(initial)
        PROVE  o \in ToSet(remaining') \/ o.print \in sentPrints'
    <3>1. o \in ToSet(remaining) \/ o.print \in sentPrints
      BY <2>2 DEF TrackerInv, Sent, Lists, Marks
    <3>2. CASE o \in ToSet(remaining)
      <4>1. o \in ToSet(remaining') \/ \E k \in 1..Len(prints) : prints[k] = o.print
        BY <1>3, <3>2 DEF LeftBy
      <4>2. QED
        BY <1>2, <1>5, <4>1
    <3>3. QED
      BY <1>2, <3>1, <3>2
  <2>3. ASSUME ~edited', NEW p \in sentPrints'
        PROVE  \E t \in Known : t.print = p /\ t.no \in seen'
    <3>1. CASE p \in sentPrints
      BY <1>4, <2>3, <3>1 DEF TrackerInv, Sent, Marks
    <3>2. CASE p \notin sentPrints
      <4>1. PICK k \in 1..Len(prints) : prints[k] = p
        BY <1>2, <1>5, <3>2
      <4>2. PICK j \in J : prints[k] = prepared[j].print
        BY <2>3, <4>1 DEF Marks
      <4>3. prepared[j].no \in seen'
        BY <1>4
      <4>4. QED
        BY <1>6, <4>1, <4>2, <4>3
    <3>3. QED
      BY <3>1, <3>2
  <2>4. QED
    BY <1>4, <1>8, <2>1, <2>2, <2>3 DEF Sent
<1>12. Enough'
  BY <1>7, MarkEnough
<1>13. QED
  BY <1>7, <1>9, <1>10, <1>11, <1>12 DEF TrackerInv

LEMMA StartTrackingStep == TrackerInv /\ StartTracking => TrackerInv'
<1> SUFFICES ASSUME TrackerInv, StartTracking PROVE TrackerInv'
  OBVIOUS
<1>1. /\ place = "start" /\ place' = "turn" /\ ~sentInitial /\ ~sentInitial'
      /\ UNCHANGED <<remaining, sentPrints, generated, prepared, turn, seen, edited>>
      /\ sentInitial' = sentInitial
      /\ seen = {} /\ remaining = <<>> /\ generated = <<>> /\ sentPrints = {}
  BY DEF StartTracking, TrackerInv, Lists
<1>2. PICK prints \in SeqOf(Fingerprints, MaxInitial) :
          initial' = [k \in 1..Len(prints) |-> [print |-> prints[k], no |-> k]]
  BY DEF StartTracking
<1>3. PICK n \in 0..MaxInitial : prints \in [1..n -> Fingerprints]
  BY <1>2 DEF SeqOf
<1>4. n \in Nat /\ n <= MaxInitial /\ MaxInitial \in Nat /\ MaxInitial <= MaxOccurrences
      /\ MaxOccurrences \in Nat
  BY TrackerBoundsAssumption DEF MaxOccurrences
<1>5. Len(prints) = n
  BY <1>3, <1>4, LenProperties
<1>6. PICK i : i = initial'
  OBVIOUS
<1>7. DOMAIN i = 1..n /\ \A k \in 1..n : i[k] = [print |-> prints[k], no |-> k]
  BY <1>2, <1>5, <1>6
<1>8. \A k \in 1..n : i[k] \in Occurrences /\ i[k].no = k
  <2>1. ASSUME NEW k \in 1..n PROVE i[k] \in Occurrences /\ i[k].no = k
    <3>1. prints[k] \in Fingerprints /\ k \in 1..MaxOccurrences
      BY <1>3, <1>4
    <3>2. QED
      BY <1>7, <3>1 DEF Occurrences
  <2>2. QED
    BY <2>1
<1>9. i \in Seq(Occurrences)
  <2>1. i = [k \in 1..n |-> i[k]]
    BY <1>2, <1>5, <1>6
  <2>2. i \in [1..n -> Occurrences]
    BY <1>8, <2>1
  <2>3. QED
    BY <1>4, <2>2, LenProperties
<1>10. /\ \A o : o \in ToSet(i) <=> \E k \in 1..n : i[k] = o
       /\ IsInjective(i) <=> \A j, k \in 1..n : i[j] = i[k] => j = k
  BY <1>7, HoldsUpTo
<1>11. IsInjective(i)
  BY <1>8, <1>10
<1>12. TrackerTypeOK'
  BY <1>1, <1>6, <1>9 DEF TrackerInv, TrackerTypeOK
<1>13. ToSet(generated') = {} /\ ToSet(remaining') = {} /\ IsInjective(remaining')
  BY <1>1, EmptyHolds
<1>14. Known' = ToSet(i)
  BY <1>6, <1>13 DEF Known
<1>15. Numbered'
  BY <1>1, <1>4, <1>6, <1>8, <1>10, <1>11, <1>13, <1>14 DEF Numbered
<1>16. Lists'
  BY <1>1, <1>13 DEF Lists
<1>17. Sent'
  BY <1>1 DEF Sent
<1>18. Enough'
  <2>1. ASSUME NEW p PROVE Cardinality(Texts(remaining', p)) <= Cardinality(Unseen(p)')
    <3>1. Texts(remaining', p) = {}
      BY <1>13 DEF Texts
    <3>2. IsFiniteSet(ToSet(i))
      BY <1>9, HeldIsFinite
    <3>3. Unseen(p)' \in SUBSET ToSet(i)
      BY <1>6 DEF Unseen
    <3>4. Cardinality(Unseen(p)') \in Nat
      BY <3>2, <3>3, FS_Subset, FS_CardinalityType
    <3>5. Cardinality({}) = 0
      BY FS_EmptySet
    <3>6. QED
      BY <3>1, <3>4, <3>5
  <2>2. QED
    BY <2>1 DEF Enough
<1>19. QED
  BY <1>12, <1>15, <1>16, <1>17, <1>18 DEF TrackerInv

LEMMA PrepareInputStep == TrackerInv /\ PrepareInput => TrackerInv'
<1> SUFFICES ASSUME TrackerInv, PrepareInput PROVE TrackerInv'
  OBVIOUS
<1>1. /\ place = "turn" /\ place' = "prepared" /\ sentInitial' = TRUE
      /\ turn < MaxTurns /\ turn' = turn + 1
      /\ remaining' = IF sentInitial THEN remaining ELSE initial
      /\ prepared' = remaining' \o NotSent(generated)
      /\ initial' = initial /\ sentPrints' = sentPrints /\ generated' = generated
      /\ seen' = seen /\ edited' = edited
  BY DEF PrepareInput
<1>2. TrackerTypeOK /\ turn \in Nat /\ MaxTurns \in Nat /\ MaxInitial \in Nat
  BY BoundsAre DEF TrackerInv
<1>3. remaining' \in Seq(Occurrences) /\ NotSent(generated) \in Seq(Occurrences)
  BY <1>1, <1>2, NotSentIs DEF TrackerTypeOK
<1>4. prepared' \in Seq(Occurrences)
  BY <1>1, <1>3, ConcatHolds
<1>5. TrackerTypeOK'
  BY <1>1, <1>2, <1>3, <1>4 DEF TrackerTypeOK
<1>6. Known' = Known
  BY <1>1 DEF Known
<1>7. Numbered'
  <2>1. \A o \in ToSet(generated) : o.no > MaxInitial /\ o.no <= MaxInitial + 2 * turn
    BY DEF TrackerInv, Numbered
  <2>2. \A o \in ToSet(generated) : o.no \in Nat
    BY <1>2, KnownAre
  <2>3. \A o \in ToSet(generated') :
            /\ o.no > MaxInitial /\ o.no <= MaxInitial + 2 * turn'
            /\ o.no <= MaxInitial + 2 * turn' - 2
    BY <1>1, <1>2, <2>1, <2>2
  <2>4. turn' >= 1
    BY <1>1, <1>2
  <2>5. QED
    BY <1>1, <1>6, <2>3, <2>4 DEF TrackerInv, Numbered
<1>8. NotSent(generated)' = NotSent(generated)
  BY <1>1 DEF NotSent
<1>9. Lists'
  <2>1. ToSet(remaining') \subseteq ToSet(initial') /\ IsInjective(remaining')
    BY <1>1 DEF TrackerInv, Lists, Numbered
  <2>2. QED
    BY <1>1, <1>8, <2>1 DEF Lists
<1>10. Sent'
  BY <1>1, <1>6 DEF TrackerInv, Sent, Lists
<1>11. Enough'
  <2>1. CASE sentInitial
    BY <1>1, <2>1 DEF TrackerInv, Enough, Unseen
  <2>2. CASE ~sentInitial
    <3>1. remaining' = initial /\ seen' = {}
      BY <1>1, <2>2 DEF TrackerInv, Lists
    <3>2. ASSUME NEW p PROVE Cardinality(Texts(remaining', p)) <= Cardinality(Unseen(p)')
      <4>1. Texts(remaining', p) = Unseen(p)'
        BY <1>1, <3>1 DEF Texts, Unseen
      <4>2. Cardinality(Texts(remaining', p)) \in Nat
        BY <1>3, TextsFinite
      <4>3. QED
        BY <4>1, <4>2
    <3>3. QED
      BY <3>2 DEF Enough
  <2>3. QED
    BY <2>1, <2>2
<1>12. QED
  BY <1>5, <1>7, <1>9, <1>10, <1>11 DEF TrackerInv

LEMMA DeliverStep == TrackerInv /\ Deliver => TrackerInv'
<1> SUFFICES ASSUME TrackerInv, Deliver PROVE TrackerInv'
  OBVIOUS
<1>1. prepared \in Seq(Occurrences) /\ place = "prepared" /\ edited \in BOOLEAN
  BY DEF TrackerInv, TrackerTypeOK, Deliver
<1>2. PICK prints : prints = [k \in DOMAIN prepared |-> prepared[k].print]
  OBVIOUS
<1>3. PICK n \in Nat : n = Len(prepared) /\ DOMAIN prepared = 1..n
  BY <1>1, PlacesOf, Zenon
<1>4. /\ prints \in [1..n -> Fingerprints]
      /\ \A k \in 1..n : prints[k] = prepared[k].print
  BY <1>1, <1>2, <1>3, PlacesOf
<1>5. prints \in Seq(Fingerprints) /\ Len(prints) = n
  BY <1>4, LenProperties
<1>6. PICK J : J = 1..n
  OBVIOUS
<1>7. PICK at : at = [j \in J |-> j]
  OBVIOUS
<1>8. Covers(prints, J, at)
  BY <1>3, <1>4, <1>5, <1>6, <1>7 DEF Covers
<1>9. {o.no : o \in ToSet(prepared)} = {prepared[j].no : j \in J}
  <2>1. \A o : o \in ToSet(prepared) <=> \E j \in J : prepared[j] = o
    BY <1>1, <1>3, <1>6, HoldsAt
  <2>2. QED
    BY <2>1
<1>10. Marks(prints, J)
  BY <1>1, <1>2, <1>4, <1>5, <1>6, <1>9 DEF Deliver, Marks
<1>11. QED
  BY <1>1, <1>5, <1>8, <1>10, MarkStep

LEMMA ModelFailsStep == TrackerInv /\ ModelFails => TrackerInv'
<1> SUFFICES ASSUME TrackerInv, ModelFails PROVE TrackerInv'
  OBVIOUS
<1>1. /\ place = "prepared" /\ place' = "end"
      /\ initial' = initial /\ sentInitial' = sentInitial /\ remaining' = remaining
      /\ sentPrints' = sentPrints /\ generated' = generated /\ prepared' = prepared
      /\ turn' = turn /\ seen' = seen /\ edited' = edited
  BY DEF ModelFails
<1>2. Known' = Known
  BY <1>1 DEF Known
<1>3. TrackerTypeOK'
  BY <1>1 DEF TrackerInv, TrackerTypeOK
<1>4. Numbered'
  BY <1>1, <1>2 DEF TrackerInv, Numbered
<1>5. Lists'
  BY <1>1 DEF TrackerInv, Lists
<1>6. Sent'
  BY <1>1, <1>2 DEF TrackerInv, Sent
<1>7. Enough'
  BY <1>1 DEF TrackerInv, Enough, Unseen
<1>8. QED
  BY <1>3, <1>4, <1>5, <1>6, <1>7 DEF TrackerInv

(* The filter put in no text of its own: each item it returns stands for a *)
(* prepared one.                                                           *)
LEMMA AllStand ==
    ASSUME prepared \in Seq(Occurrences), NEW k \in Nat, NEW f \in Filtered(k),
           IsFilter(f), NEW x \in 1..k, f[x].from = 0,
           k = Cardinality(({f[i].from : i \in DOMAIN f} \ {0}) \cup CopiedBy(f))
    PROVE  \E j \in CopiedBy(f) : f[x].print = prepared[j].print
<1>1. DOMAIN f = 1..k
  BY DEF Filtered
<1>2. PICK froms : froms = {f[i].from : i \in DOMAIN f} \ {0}
  OBVIOUS
<1>3. PICK others : others = (1..k) \ {x}
  OBVIOUS
<1>4. IsFiniteSet(others) /\ Cardinality(others) = k - 1
  <2>1. IsFiniteSet(1..k) /\ Cardinality(1..k) = k
    BY FS_Interval
  <2>2. QED
    BY <1>3, <2>1, FS_RemoveElement
<1>5. PICK h : h = [i \in others |-> f[i].from]
  OBVIOUS
<1>6. \A i \in others : h[i] \in froms
  BY <1>1, <1>2, <1>3, <1>5 DEF IsFilter
<1>7. \A j \in froms : \E i \in others : h[i] = j
  BY <1>1, <1>2, <1>3, <1>5
<1>8. h \in [others -> froms]
  BY <1>5, <1>6
<1>9. h \in Surjection(others, froms)
  BY <1>7, <1>8 DEF Surjection
<1>10. Cardinality(froms) <= k - 1 /\ IsFiniteSet(froms)
  BY <1>4, <1>9, FS_Surjection
<1>11. Cardinality(froms) \in Nat
  BY <1>10, FS_CardinalityType
<1>12. CopiedBy(f) # {}
  <2>1. SUFFICES ASSUME CopiedBy(f) = {} PROVE FALSE
    OBVIOUS
  <2>2. froms \cup CopiedBy(f) = froms
    BY <2>1
  <2>3. k = Cardinality(froms)
    BY <1>2, <2>2
  <2>4. QED
    BY <1>10, <1>11, <2>3
<1>13. PICK j \in CopiedBy(f) : TRUE
  BY <1>12
<1>14. PICK i \in 1..k : f[i].from = 0 /\ f[i].print = prepared[j].print
  BY <1>1, <1>13 DEF CopiedBy
<1>15. i = x
  BY <1>1, <1>14 DEF IsFilter
<1>16. QED
  BY <1>14, <1>15

LEMMA DeliverFilteredStep == TrackerInv /\ DeliverFiltered => TrackerInv'
<1> SUFFICES ASSUME TrackerInv, DeliverFiltered PROVE TrackerInv'
  OBVIOUS
<1>1. prepared \in Seq(Occurrences) /\ place = "prepared" /\ edited \in BOOLEAN
  BY DEF TrackerInv, TrackerTypeOK, DeliverFiltered
<1> DEFINE Froms(f) == {f[k].from : k \in DOMAIN f} \ {0}
           J(f) == Froms(f) \cup CopiedBy(f)
           Prints(f, m) == [k \in DOMAIN f |->
                        IF m[k] # 0 THEN prepared[m[k]].print ELSE f[k].print]
<1>2. PICK f \in Filters :
          /\ Mark(Prints(f, SourcesOf(f)))
          /\ seen' = seen \cup {prepared[j].no : j \in J(f)}
          /\ edited' = (edited \/ Len(f) # Cardinality(J(f)))
  BY DEF DeliverFiltered
<1>3. PICK k \in Nat : f \in Filtered(k) /\ IsFilter(f)
  BY <1>1, FilterIs
<1>4. PICK m : m = SourcesOf(f)
  OBVIOUS
<1>5. m \in Matchings(k) /\ SourcesFit(f, m)
  BY <1>1, <1>3, <1>4, SourcesIs
<1>6. DOMAIN f = 1..k /\ Len(f) = k /\ \A x \in 1..k : f[x].from \in 0..Len(prepared) /\ f[x].print \in Fingerprints
  BY <1>3, LenProperties DEF Filtered
<1>7. PICK prints : prints = Prints(f, m)
  OBVIOUS
<1>8. PICK Js : Js = J(f)
  OBVIOUS
<1>9. Js \subseteq 1..Len(prepared)
  BY <1>1, <1>6, <1>8, PlacesOf DEF CopiedBy
<1>10. \A x \in 1..k : prints[x] = IF m[x] # 0 THEN prepared[m[x]].print ELSE f[x].print
  BY <1>6, <1>7
<1>11. \A x \in 1..k : prints[x] \in Fingerprints
  <2>1. SUFFICES ASSUME NEW x \in 1..k PROVE prints[x] \in Fingerprints
    OBVIOUS
  <2>2. m[x] \in 0..Len(prepared)
    BY <1>5 DEF Matchings
  <2>3. m[x] # 0 => prepared[m[x]].print \in Fingerprints
    BY <1>1, <2>2, PlacesOf
  <2>4. QED
    BY <1>6, <1>10, <2>3
<1>12. prints \in Seq(Fingerprints) /\ Len(prints) = k
  <2>1. prints = [x \in 1..k |-> prints[x]]
    BY <1>6, <1>7
  <2>2. prints \in [1..k -> Fingerprints]
    BY <1>11, <2>1
  <2>3. QED
    BY <2>2, LenProperties
<1>13. ASSUME NEW j \in Js PROVE \E x \in 1..k : m[x] = j
  <2>1. CASE j \in Froms(f)
    <3>1. PICK x \in 1..k : f[x].from = j /\ j # 0
      BY <1>6, <2>1
    <3>2. m[x] = j
      BY <1>5, <1>6, <3>1 DEF SourcesFit
    <3>3. QED
      BY <3>2
  <2>2. CASE j \in CopiedBy(f)
    <3>1. PICK x \in 1..k : f[x].print = prepared[j].print
      BY <1>6, <2>2 DEF CopiedBy
    <3>2. m[x] = j
      BY <1>5, <1>6, <2>2, <3>1 DEF SourcesFit
    <3>3. QED
      BY <3>2
  <2>3. QED
    BY <1>8, <1>13, <2>1, <2>2
<1>14. PICK at : at = [j \in Js |-> CHOOSE x \in 1..k : m[x] = j]
  OBVIOUS
<1>15. \A j \in Js : at[j] \in 1..k /\ m[at[j]] = j
  BY <1>13, <1>14
<1>16. Covers(prints, Js, at)
  <2>1. at \in [Js -> 1..Len(prints)]
    BY <1>12, <1>14, <1>15
  <2>2. \A i, j \in Js : at[i] = at[j] => i = j
    BY <1>15
  <2>3. \A j \in Js : j # 0
    BY <1>9
  <2>4. \A j \in Js : prints[at[j]] = prepared[j].print
    BY <1>10, <1>15, <2>3
  <2>5. QED
    BY <1>9, <2>1, <2>2, <2>4 DEF Covers
<1>17. ASSUME ~edited' PROVE ~edited /\ \A x \in 1..k : \E j \in Js : prints[x] = prepared[j].print
  <2>1. ~edited /\ k = Cardinality(J(f))
    BY <1>2, <1>6, <1>17
  <2>2. ASSUME NEW x \in 1..k PROVE \E j \in Js : prints[x] = prepared[j].print
    <3>1. CASE f[x].from # 0
      <4>1. m[x] = f[x].from /\ f[x].from \in Js
        BY <1>5, <1>6, <1>8, <3>1 DEF SourcesFit
      <4>2. QED
        BY <1>10, <3>1, <4>1
    <3>2. CASE f[x].from = 0
      <4>1. PICK j \in CopiedBy(f) : f[x].print = prepared[j].print
        BY <1>1, <1>3, <2>1, <3>2, AllStand
      <4>2. m[x] = j
        BY <1>5, <1>6, <4>1 DEF SourcesFit
      <4>3. j \in Js /\ j # 0
        BY <1>8, <1>9, <4>1
      <4>4. QED
        BY <1>10, <4>2, <4>3
    <3>3. QED
      BY <3>1, <3>2
  <2>3. QED
    BY <2>1, <2>2
<1>18. Marks(prints, Js)
  <2>1. /\ place' = "delivered"
        /\ UNCHANGED <<initial, sentInitial, generated, prepared, turn>>
    BY DEF DeliverFiltered
  <2>2. edited' \in BOOLEAN
    BY <1>1, <1>2
  <2>3. QED
    BY <1>2, <1>4, <1>7, <1>8, <1>12, <1>17, <2>1, <2>2 DEF Marks
<1>19. QED
  BY <1>1, <1>12, <1>16, <1>18, MarkStep

LEMMA RespondStep == TrackerInv /\ Respond => TrackerInv'
<1> SUFFICES ASSUME TrackerInv, Respond PROVE TrackerInv'
  OBVIOUS
<1>1. PICK no : no = MaxInitial + 2 * turn
  OBVIOUS
<1>2. PICK theirs, ours \in Fingerprints :
            /\ sentPrints' = sentPrints \cup {theirs}
            /\ remaining' = Those(remaining, {o \in ToSet(remaining) : o.print # theirs})
            /\ seen' = seen \cup {no - 1}
            /\ \/ /\ generated' = generated \o <<[print |-> theirs, no |-> no - 1],
                                                 [print |-> ours, no |-> no]>>
                  /\ place' = "turn"
               \/ /\ generated' = Append(generated, [print |-> theirs, no |-> no - 1])
                  /\ place' = "end"
  BY <1>1 DEF Respond
<1>3. /\ place = "delivered" /\ prepared' = <<>> /\ initial' = initial
      /\ sentInitial' = sentInitial /\ turn' = turn /\ edited' = edited
  BY DEF Respond
<1>4. /\ TrackerTypeOK /\ generated \in Seq(Occurrences) /\ remaining \in Seq(Occurrences)
      /\ sentInitial
  BY <1>3 DEF TrackerInv, TrackerTypeOK, Lists
<1>5. /\ turn \in Nat /\ turn >= 1 /\ MaxInitial \in Nat /\ MaxOccurrences \in Nat
      /\ no - 1 \in 1..MaxOccurrences /\ no \in 1..MaxOccurrences
      /\ no - 1 > MaxInitial
  BY <1>1, <1>3, <1>4, BoundsAre DEF TrackerInv, Numbered
<1>6. PICK a : a = [print |-> theirs, no |-> no - 1]
  OBVIOUS
<1>7. PICK b : b = [print |-> ours, no |-> no]
  OBVIOUS
<1>8. /\ a \in Occurrences /\ a.print = theirs /\ a.no = no - 1
      /\ b \in Occurrences /\ b.print = ours /\ b.no = no
  BY <1>5, <1>6, <1>7 DEF Occurrences
<1>9. PICK N : /\ generated' \in Seq(Occurrences)
               /\ ToSet(generated') = ToSet(generated) \cup N
               /\ a \in N /\ N \subseteq {a, b}
               /\ place' \in {"turn", "end"}
  <2>1. CASE generated' = generated \o <<a, b>> /\ place' = "turn"
    <3>1. PICK c : c = <<a, b>>
      OBVIOUS
    <3>2. c \in Seq(Occurrences) /\ Len(c) = 2 /\ c[1] = a /\ c[2] = b
      BY <1>8, <3>1
    <3>3. ToSet(c) = {a, b}
      BY <3>2, HoldsAt
    <3>4. /\ generated \o c \in Seq(Occurrences)
          /\ ToSet(generated \o c) = ToSet(generated) \cup ToSet(c)
      BY <1>4, <3>2, ConcatHolds
    <3>5. PICK N : N = {a, b}
      OBVIOUS
    <3>6. /\ generated' \in Seq(Occurrences)
          /\ ToSet(generated') = ToSet(generated) \cup N
      BY <2>1, <3>1, <3>3, <3>4, <3>5
    <3>7. QED
      BY <2>1, <3>5, <3>6
  <2>2. CASE generated' = Append(generated, a) /\ place' = "end"
    <3>1. /\ Append(generated, a) \in Seq(Occurrences)
          /\ ToSet(Append(generated, a)) = ToSet(generated) \cup {a}
      BY <1>4, <1>8, AppendHolds
    <3>2. PICK N : N = {a}
      OBVIOUS
    <3>3. /\ generated' \in Seq(Occurrences)
          /\ ToSet(generated') = ToSet(generated) \cup N
      BY <2>2, <3>1, <3>2
    <3>4. QED
      BY <2>2, <3>2, <3>3
  <2>3. QED
    BY <1>2, <1>6, <1>7, <2>1, <2>2
<1>10. PICK W : W = {o \in ToSet(remaining) : o.print # theirs}
  OBVIOUS
<1>11. /\ remaining' \in Seq(Occurrences) /\ ToSet(remaining') = W /\ IsInjective(remaining')
  <2>1. remaining' = Those(remaining, W) /\ IsInjective(remaining)
    BY <1>2, <1>10 DEF TrackerInv, Lists
  <2>2. ToSet(remaining) \cap W = W
    BY <1>10
  <2>3. QED
    BY <1>4, <2>1, <2>2, ThoseHold
<1>12. TrackerTypeOK'
  <2>1. prepared' \in Seq(Occurrences)
    BY <1>3
  <2>2. QED
    BY <1>2, <1>3, <1>4, <1>5, <1>9, <1>11, <2>1 DEF TrackerTypeOK
<1>13. Known' = Known \cup N
  BY <1>3, <1>9 DEF Known
<1>14. \A o \in Known : o.no < no - 1 /\ o.no \in Nat
  <2>1. \A o \in Known : o.no \in Nat
    BY <1>4, KnownAre
  <2>2. \A o \in ToSet(initial) : o.no <= MaxInitial
    BY DEF TrackerInv, Numbered
  <2>3. \A o \in ToSet(generated) : o.no <= no - 2
    <3>1. \A o \in ToSet(generated) : o.no <= MaxInitial + 2 * turn - 2
      BY <1>3 DEF TrackerInv, Numbered
    <3>2. no - 2 = MaxInitial + 2 * turn - 2
      BY <1>1, <1>5
    <3>3. QED
      BY <3>1, <3>2
  <2>4. QED
    BY <1>5, <2>1, <2>2, <2>3 DEF Known
<1>15. Numbered'
  <2>1. \A o \in N : o.no > MaxInitial /\ o.no <= no
    BY <1>5, <1>8, <1>9
  <2>2. \A o \in ToSet(generated) : o.no > MaxInitial /\ o.no <= no
    BY <1>1 DEF TrackerInv, Numbered
  <2>3. ASSUME NEW o \in Known', NEW t \in Known', o.no = t.no PROVE o = t
    <3>1. CASE o \in Known /\ t \in Known
      BY <2>3, <3>1 DEF TrackerInv, Numbered
    <3>2. CASE o \in N /\ t \in N
      BY <1>5, <1>8, <1>9, <2>3, <3>2
    <3>3. CASE o \in Known /\ t \in N
      BY <1>5, <1>8, <1>9, <1>14, <2>3, <3>3
    <3>4. CASE o \in N /\ t \in Known
      BY <1>5, <1>8, <1>9, <1>14, <2>3, <3>4
    <3>5. QED
      BY <1>13, <3>1, <3>2, <3>3, <3>4
  <2>4. seen' \subseteq {o.no : o \in Known'}
    <3>1. no - 1 \in {o.no : o \in Known'}
      BY <1>8, <1>9, <1>13
    <3>2. seen \subseteq {o.no : o \in Known'}
      BY <1>13 DEF TrackerInv, Numbered
    <3>3. QED
      BY <1>2, <3>1, <3>2
  <2>5. place' \notin {"prepared", "delivered"}
    BY <1>9
  <2>6. QED
    BY <1>1, <1>3, <1>9, <2>1, <2>2, <2>3, <2>4, <2>5 DEF TrackerInv, Numbered
<1>16. Lists'
  <2>1. ToSet(remaining') \subseteq ToSet(initial')
    BY <1>3, <1>10, <1>11 DEF TrackerInv, Lists
  <2>2. QED
    BY <1>3, <1>4, <1>9, <1>11, <2>1 DEF Lists
<1>17. Sent'
  <2>1. ASSUME NEW o \in Known', o.no \in seen' PROVE o.print \in sentPrints'
    <3>1. CASE o \in Known
      <4>1. o.no \in seen
        BY <1>2, <1>5, <1>14, <2>1, <3>1
      <4>2. QED
        BY <1>2, <3>1, <4>1 DEF TrackerInv, Sent
    <3>2. CASE o = a
      BY <1>2, <1>8, <3>2
    <3>3. CASE o = b
      <4>1. no \notin seen
        BY <1>5, <1>14 DEF TrackerInv, Numbered
      <4>2. QED
        BY <1>2, <1>5, <1>8, <2>1, <3>3, <4>1
    <3>4. QED
      BY <1>9, <1>13, <3>1, <3>2, <3>3
  <2>2. ASSUME ~edited', NEW o \in ToSet(initial)
        PROVE  o \in ToSet(remaining') \/ o.print \in sentPrints'
    BY <1>2, <1>3, <1>4, <1>10, <1>11, <2>2 DEF TrackerInv, Sent
  <2>3. ASSUME ~edited', NEW p \in sentPrints'
        PROVE  \E t \in Known' : t.print = p /\ t.no \in seen'
    <3>1. CASE p \in sentPrints
      BY <1>2, <1>3, <1>13, <2>3, <3>1 DEF TrackerInv, Sent
    <3>2. CASE p = theirs
      BY <1>2, <1>8, <1>9, <1>13, <3>2
    <3>3. QED
      BY <1>2, <3>1, <3>2
  <2>4. QED
    BY <1>3, <2>1, <2>2, <2>3 DEF Sent
<1>18. Enough'
  <2>1. ASSUME NEW p \in Fingerprints
        PROVE  Cardinality(Texts(remaining', p)) <= Cardinality(Unseen(p)')
    <3>1. Unseen(p)' = Unseen(p)
      <4>1. \A o \in ToSet(initial) : o.no \in seen' <=> o.no \in seen
        BY <1>2, <1>5, <1>14 DEF Known
      <4>2. QED
        BY <1>3, <4>1 DEF Unseen
    <3>2. Texts(remaining', p) \in SUBSET Texts(remaining, p)
      BY <1>10, <1>11 DEF Texts
    <3>3. IsFiniteSet(Texts(remaining, p)) /\ Cardinality(Texts(remaining, p)) \in Nat
      BY <1>4, TextsFinite
    <3>4. Cardinality(Texts(remaining', p)) <= Cardinality(Texts(remaining, p))
      BY <3>2, <3>3, FS_Subset
    <3>5. Cardinality(Texts(remaining', p)) \in Nat
      BY <1>11, TextsFinite
    <3>6. Cardinality(Texts(remaining, p)) <= Cardinality(Unseen(p)) /\ Cardinality(Unseen(p)) \in Nat
      BY <1>4, UnseenFinite DEF TrackerInv, Enough
    <3>7. QED
      BY <3>1, <3>3, <3>4, <3>5, <3>6
  <2>2. QED
    BY <2>1 DEF Enough
<1>19. QED
  BY <1>12, <1>15, <1>16, <1>17, <1>18 DEF TrackerInv

LEMMA TrackerStep == TrackerInv /\ [TrackerNext]_trackerVars => TrackerInv'
<1> SUFFICES ASSUME TrackerInv, [TrackerNext]_trackerVars PROVE TrackerInv'
  OBVIOUS
<1>1. CASE UNCHANGED trackerVars
  <2>1. /\ place' = place /\ initial' = initial /\ sentInitial' = sentInitial
        /\ remaining' = remaining /\ sentPrints' = sentPrints /\ generated' = generated
        /\ prepared' = prepared /\ turn' = turn /\ seen' = seen /\ edited' = edited
    BY <1>1 DEF trackerVars
  <2>2. Known' = Known /\ NotSent(generated)' = NotSent(generated)
    BY <2>1 DEF Known, NotSent
  <2>3. TrackerTypeOK'
    BY <2>1 DEF TrackerInv, TrackerTypeOK
  <2>4. Numbered'
    BY <2>1, <2>2 DEF TrackerInv, Numbered
  <2>5. Lists'
    BY <2>1, <2>2 DEF TrackerInv, Lists
  <2>6. Sent'
    BY <2>1, <2>2 DEF TrackerInv, Sent
  <2>7. Enough'
    BY <2>1 DEF TrackerInv, Enough, Unseen
  <2>8. QED
    BY <2>3, <2>4, <2>5, <2>6, <2>7 DEF TrackerInv
<1>2. CASE TrackerNext
  BY <1>2, StartTrackingStep, PrepareInputStep, DeliverStep, DeliverFilteredStep,
     ModelFailsStep, RespondStep DEF TrackerNext
<1>3. QED
  BY <1>1, <1>2

LEMMA TrackerStarts == TrackerInit => TrackerInv
<1> SUFFICES ASSUME TrackerInit PROVE TrackerInv
  OBVIOUS
<1>1. /\ initial = <<>> /\ remaining = <<>> /\ generated = <<>> /\ prepared = <<>>
      /\ sentInitial = FALSE /\ edited = FALSE
      /\ sentPrints = {} /\ seen = {}
      /\ turn = 0 /\ place = "start"
  BY DEF TrackerInit
<1>2. ToSet(<<>>) = {} /\ IsInjective(<<>>)
  BY EmptyHolds
<1>3. TrackerTypeOK
  <2>1. initial \in Seq(Occurrences) /\ remaining \in Seq(Occurrences)
        /\ generated \in Seq(Occurrences) /\ prepared \in Seq(Occurrences)
    BY <1>1, EmptyHolds
  <2>2. turn \in 0..MaxTurns
    BY <1>1, TrackerBoundsAssumption
  <2>3. QED
    BY <1>1, <2>1, <2>2 DEF TrackerTypeOK
<1>4. Known = {}
  BY <1>1, <1>2 DEF Known
<1>5. Numbered /\ Lists /\ Sent
  BY <1>1, <1>2, <1>4 DEF Numbered, Lists, Sent
<1>6. Enough
  <2>1. \A p : Texts(remaining, p) = {} /\ Unseen(p) = {}
    BY <1>1, <1>2 DEF Texts, Unseen
  <2>2. Cardinality({}) = 0
    BY FS_EmptySet
  <2>3. QED
    BY <2>1, <2>2 DEF Enough
<1>7. QED
  BY <1>3, <1>5, <1>6 DEF TrackerInv

(* The tracker keeps its invariant, whatever the filters do.               *)
THEOREM TrackerInvariant == TrackerSpec => []TrackerInv
BY TrackerStarts, TrackerStep, PTL DEF TrackerSpec

LEMMA UnseenPrepared == TrackerInv => UnseenIsPrepared
<1> SUFFICES ASSUME TrackerInv, place = "prepared", ~edited, NEW o \in Known,
                    o.no \notin seen, ~InRequest(o)
             PROVE  \E t \in Twins(o) : t.no \in seen
  BY DEF UnseenIsPrepared
<1>1. sentInitial
  BY DEF TrackerInv, Lists
<1>2. o.print \in sentPrints
  BY <1>1, PreparedIs DEF TrackerInv, Sent, InRequest, Known
<1>3. PICK t \in Known : t.print = o.print /\ t.no \in seen
  BY <1>2 DEF TrackerInv, Sent
<1>4. QED
  BY <1>3 DEF Twins

LEMMA SeenNotRepeated == TrackerInv => SeenIsNotRepeated
<1> SUFFICES ASSUME TrackerInv, place = "prepared", NEW o \in ToSet(prepared),
                    o.no \in seen
             PROVE  \E t \in Twins(o) : t.no \notin seen /\ ~InRequest(t)
  BY DEF SeenIsNotRepeated
<1>1. PICK p : p = o.print
  OBVIOUS
<1>2. o \in Known /\ p \in sentPrints
  BY <1>1, PreparedIs DEF TrackerInv, Sent
<1>3. p \in Fingerprints
  BY <1>2 DEF TrackerInv, TrackerTypeOK
<1>4. o \in ToSet(remaining)
  BY <1>1, <1>2, PreparedIs
<1>5. o \in Texts(remaining, p) /\ o \notin Unseen(p)
  BY <1>1, <1>4 DEF Texts, Unseen
<1>6. PICK R : R = Texts(remaining, p)
  OBVIOUS
<1>7. PICK U : U = Unseen(p)
  OBVIOUS
<1>8. IsFiniteSet(R) /\ Cardinality(R) \in Nat
  BY <1>6, TextsFinite DEF TrackerInv, TrackerTypeOK
<1>9. IsFiniteSet(U) /\ Cardinality(U) \in Nat
  BY <1>7, UnseenFinite DEF TrackerInv
<1>10. Cardinality(R) <= Cardinality(U)
  BY <1>3, <1>6, <1>7 DEF TrackerInv, Enough
<1>11. \E t \in U : t \notin R
  <2>1. SUFFICES ASSUME U \subseteq R PROVE FALSE
    OBVIOUS
  <2>2. Cardinality(U) <= Cardinality(R) /\ (Cardinality(R) = Cardinality(U) => R = U)
    BY <1>8, <2>1, FS_Subset
  <2>3. R = U
    BY <1>8, <1>9, <1>10, <2>2
  <2>4. QED
    BY <1>5, <1>6, <1>7, <2>3
<1>12. PICK t \in U : t \notin R
  BY <1>11
<1>13. t \in ToSet(initial) /\ t.print = p /\ t.no \notin seen
  BY <1>7, <1>12 DEF Unseen
<1>14. t \notin ToSet(remaining)
  BY <1>6, <1>12, <1>13 DEF Texts
<1>15. ~InRequest(t)
  BY <1>2, <1>13, <1>14, PreparedIs DEF InRequest
<1>16. t \in Twins(o)
  BY <1>1, <1>13 DEF Twins, Known
<1>17. QED
  BY <1>13, <1>15, <1>16

(* What the server has not seen is in the next request, or its text is     *)
(* that of an item it has seen.                                            *)
THEOREM UnseenArePrepared == TrackerSpec => []UnseenIsPrepared
BY TrackerInvariant, UnseenPrepared, PTL

(* No request repeats what the server has seen, but in place of an item    *)
(* with the same text that it has not: of each text no more items remain   *)
(* than are unseen.                                                        *)
THEOREM SeenAreNotRepeated == TrackerSpec => []SeenIsNotRepeated
BY TrackerInvariant, SeenNotRepeated, PTL

(* The three passes that look for sources match no prepared item twice,    *)
(* and get right what can be known by address or by text.                  *)
THEOREM SourcesCorrect == TrackerSpec => []SourcesAreRight
<1>1. TrackerInv => SourcesAreRight
  BY SourcesRight DEF TrackerInv, TrackerTypeOK
<1>2. QED
  BY <1>1, TrackerInvariant, PTL

-----------------------------------------------------------------------------
(* Side by side.                                                           *)

(* A step is a step of one component and a stutter of the others.          *)
LEMMA DurableSteps ==
    ASSUME [DurableNext]_durableVars
    PROVE  /\ [SandboxNext]_sandboxVars
           /\ [StoreNext]_storeVars
           /\ [CompactionNext]_compactionVars
           /\ [TrackerNext]_trackerVars
<1>1. CASE UNCHANGED durableVars
  BY <1>1 DEF durableVars
<1>2. CASE DurableNext
  BY <1>2 DEF DurableNext
<1>3. QED
  BY <1>1, <1>2

(* Side by side each component behaves as it does alone, so what is proved *)
(* of it holds in the composition.                                         *)
THEOREM SideBySide ==
    DurableSpec => SandboxSpec /\ StoreSpec /\ CompactionSpec /\ TrackerSpec
<1>1. DurableInit => SandboxInit /\ StoreInit /\ CompactionInit /\ TrackerInit
  BY DEF DurableInit
<1>2. [DurableNext]_durableVars
          => /\ [SandboxNext]_sandboxVars
             /\ [StoreNext]_storeVars
             /\ [CompactionNext]_compactionVars
             /\ [TrackerNext]_trackerVars
  BY DurableSteps
<1>3. QED
  BY <1>1, <1>2, PTL
     DEF DurableSpec, SandboxSpec, StoreSpec, CompactionSpec, TrackerSpec

(* The types of the four components.                                       *)
THEOREM DurableTypesCorrect == DurableSpec => []DurableTypeOK
<1>1. SandboxTypeOK /\ StoreTypeOK /\ CompactionInv /\ TrackerInv => DurableTypeOK
  BY DEF DurableTypeOK, CompactionInv, TrackerInv
<1>2. QED
  BY <1>1, SideBySide, TypeCorrect, StoreTypes, CompactionInvariant,
     TrackerInvariant, PTL
=============================================================================
