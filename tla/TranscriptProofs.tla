-------------------------- MODULE TranscriptProofs --------------------------
(***************************************************************************)
(* Proofs about the Conversions, for conversations of any length: what     *)
(* becomes of transcripts in the trimmer, in a replay, in the input of a   *)
(* session and in the history of a handoff.                                *)
(***************************************************************************)
EXTENDS ConversionsProofs

-----------------------------------------------------------------------------
(* The trimmer.                                                            *)

LEMMA NatMax ==
    ASSUME NEW m \in Nat, NEW T, T \subseteq 0..m, T # {}
    PROVE  /\ Max(T) \in T /\ \A y \in T : y <= Max(T)
<1>1. PICK R : R = {m - x : x \in T}
  OBVIOUS
<1>2. R \subseteq Nat /\ R # {}
  <2>1. \A x \in 0..m : m - x \in Nat
    OBVIOUS
  <2>2. \A x \in T : m - x \in Nat
    BY <2>1
  <2>3. QED
    BY <1>1, <2>2
<1>3. PICK r \in R : \A y \in R : r <= y
  BY <1>2, NatMin
<1>4. PICK x \in T : r = m - x
  BY <1>1
<1>5. \A y \in T : y <= x
  <2>1. SUFFICES ASSUME NEW y \in T PROVE y <= x
    OBVIOUS
  <2>2. m - y \in R /\ x \in 0..m /\ y \in 0..m
    BY <1>1
  <2>3. m - x <= m - y
    BY <1>3, <1>4, <2>2
  <2>4. QED
    BY <2>2, <2>3
<1>6. \E z \in T : \A y \in T : z >= y
  BY <1>5
<1>7. Max(T) \in T /\ \A y \in T : Max(T) >= y
  BY <1>6 DEF Max
<1>8. QED
  BY <1>7

LEMMA AtMostIs ==
    ASSUME NEW n \in Nat, NEW limit \in Nat
    PROVE  AtMost(n, limit) = IF n <= limit THEN n ELSE limit
<1>1. AtMost(n, limit) \in {n, limit} /\ \A y \in {n, limit} : AtMost(n, limit) <= y
  <2>1. \E x \in {n, limit} : \A y \in {n, limit} : x <= y
    OBVIOUS
  <2>2. QED
    BY <2>1 DEF AtMost, Min
<1>2. QED
  BY <1>1

ShownTools == [type : {"function", "namespace", "other"}, description : Nat, docs : Nat]

(* What is cut of a shown tool is not cut a second time.                   *)
LEMMA ToolIsTrimmed ==
    ASSUME NEW t, t.preview \in Nat, NEW tool \in ShownTools
    PROVE  LET shorter == TrimShownTool(t, tool)
           IN shorter \in ShownTools /\ TrimShownTool(t, shorter) = shorter
<1>1. PICK p \in Nat : p = t.preview
  OBVIOUS
<1>2. PICK d \in Nat : d = AtMost(tool.description, p) + (IF tool.description > p THEN Dots ELSE 0)
  BY AtMostIs DEF ShownTools, Dots
<1>3. d = (IF tool.description <= p THEN tool.description ELSE p + 2)
  BY <1>2, AtMostIs DEF ShownTools, Dots
<1>4. d = AtMost(d, p) + (IF d > p THEN Dots ELSE 0)
  <2>1. tool.description \in Nat
    BY DEF ShownTools
  <2>2. AtMost(d, p) = IF d <= p THEN d ELSE p
    BY AtMostIs
  <2>3. QED
    BY <1>3, <2>1, <2>2 DEF Dots
<1>5. PICK o \in Nat : o = IF tool.type = "other" THEN tool.docs ELSE 0
  BY DEF ShownTools
<1>6. PICK shorter : shorter = [tool EXCEPT !.description = d, !.docs = o]
  OBVIOUS
<1>7. TrimShownTool(t, tool) = shorter
  BY <1>1, <1>2, <1>5, <1>6 DEF TrimShownTool
<1>8. shorter \in ShownTools /\ shorter.type = tool.type
      /\ shorter.description = d /\ shorter.docs = o
  BY <1>6 DEF ShownTools
<1>9. TrimShownTool(t, shorter) = [shorter EXCEPT !.description = d, !.docs = o]
  <2>1. o = IF shorter.type = "other" THEN shorter.docs ELSE 0
    BY <1>5, <1>8
  <2>2. QED
    BY <1>1, <1>4, <1>8, <2>1 DEF TrimShownTool
<1>10. [shorter EXCEPT !.description = d, !.docs = o] = shorter
  BY <1>8 DEF ShownTools
<1>11. QED
  BY <1>7, <1>8, <1>9, <1>10

ItemKinds == {"text", "user", "call", "search_call", "output", "results", "tools"}
Trimmables(ids, names) ==
    [kind : ItemKinds, id : ids, names : names, size : Nat, tools : Seq(ShownTools), rounds : Nat]
IsOutput(x) == x.kind \in {"output", "results", "tools"}

(* What is shortened of an item.                                           *)
Cut(item) == [item EXCEPT !.size = 0, !.tools = <<>>, !.rounds = 0]
IsShortened(t, x, y) ==
    /\ <<y.kind, y.id, y.names>> = <<x.kind, x.id, x.names>>
    /\ Cut(y) = Cut(x)
    /\ x.kind \in {"output", "results"} /\ HasRoom(t) => ~(y.size > t.max)
    /\ x.kind = "tools" => Shortened(t, y) = y

LEMMA ItemIsShortened ==
    ASSUME NEW t, IsTrimmer(t), NEW ids, NEW names, NEW x \in Trimmables(ids, names), IsOutput(x)
    PROVE  IsShortened(t, x, Shortened(t, x))
<1>1. PICK p \in Nat, m \in Nat : p = t.preview /\ m = t.max
  BY DEF IsTrimmer
<1>2. PICK n \in Nat : n = x.size
  BY DEF Trimmables
<1>3. PICK y : y = Shortened(t, x)
  OBVIOUS
<1>4. PICK less \in Nat : less = AtMost(n, p)
  BY AtMostIs
<1>5. less <= p
  BY <1>4, AtMostIs
<1>6. HasRoom(t) => p + 3 <= m /\ p + 2 <= m
  BY <1>1 DEF HasRoom, HeaderLength, WrapperLength, Quotes
<1>7. PICK again \in Nat : again = x.rounds + 1
  BY DEF Trimmables
<1>8. ASSUME NEW size \in Nat, y = [x EXCEPT !.size = size, !.rounds = again]
      PROVE  /\ y.size = size /\ y.kind = x.kind /\ y.id = x.id /\ y.names = x.names
             /\ Cut(y) = Cut(x)
  BY <1>8 DEF Trimmables, Cut
<1>9. CASE x.kind = "output"
  <2>0. PICK size \in Nat : size = 3 + less
    OBVIOUS
  <2>1. y = [x EXCEPT !.size = size, !.rounds = again]
    <3>1. SummaryLength(t, x) + Quotes = size
      BY <2>0, <1>1, <1>2, <1>4 DEF SummaryLength, HeaderLength, Quotes
    <3>2. QED
      BY <1>3, <1>7, <1>9, <3>1 DEF Shortened
  <2>2. /\ y.size = size /\ y.kind = x.kind /\ y.id = x.id /\ y.names = x.names
        /\ Cut(y) = Cut(x)
    BY <1>8, <2>1, Zenon
  <2>3. HasRoom(t) => ~(y.size > m)
    BY <2>0, <1>5, <1>6, <2>2
  <2>4. QED
    BY <1>1, <1>3, <1>9, <2>2, <2>3 DEF IsShortened
<1>10. CASE x.kind = "results"
  <2>0. PICK size \in Nat : size = 2 + less
    OBVIOUS
  <2>1. y = [x EXCEPT !.size = size, !.rounds = again]
    <3>1. WrapperLength + AtMost(x.size, t.preview) + Quotes = size
      BY <2>0, <1>1, <1>2, <1>4 DEF WrapperLength, Quotes
    <3>2. QED
      BY <1>3, <1>7, <1>10, <3>1 DEF Shortened
  <2>2. /\ y.size = size /\ y.kind = x.kind /\ y.id = x.id /\ y.names = x.names
        /\ Cut(y) = Cut(x)
    BY <1>8, <2>1, Zenon
  <2>3. HasRoom(t) => ~(y.size > m)
    BY <2>0, <1>5, <1>6, <2>2
  <2>4. QED
    BY <1>1, <1>3, <1>10, <2>2, <2>3 DEF IsShortened
<1>11. CASE x.kind = "tools"
  <2>1. PICK shown : shown = [k \in DOMAIN x.tools |-> TrimShownTool(t, x.tools[k])]
    OBVIOUS
  <2>2. y = [x EXCEPT !.tools = shown, !.size = ToolsLength(shown)]
    BY <1>3, <1>11, <2>1 DEF Shortened
  <2>3. PICK l \in Nat : l = Len(x.tools) /\ DOMAIN x.tools = 1..l
    BY DEF Trimmables
  <2>4. \A k \in 1..l : TrimShownTool(t, shown[k]) = shown[k]
    <3>1. SUFFICES ASSUME NEW k \in 1..l PROVE TrimShownTool(t, shown[k]) = shown[k]
      OBVIOUS
    <3>2. x.tools[k] \in ShownTools
      BY <2>3 DEF Trimmables
    <3>3. shown[k] = TrimShownTool(t, x.tools[k])
      BY <2>1, <2>3
    <3>4. QED
      BY <1>1, <3>2, <3>3, ToolIsTrimmed
  <2>5. /\ y.kind = "tools" /\ y.size = ToolsLength(shown) /\ y.tools = shown
        /\ y.id = x.id /\ y.names = x.names /\ Cut(y) = Cut(x)
    BY <1>11, <2>2 DEF Trimmables, Cut
  <2>6. [k \in DOMAIN y.tools |-> TrimShownTool(t, y.tools[k])] = shown
    <3>1. shown = [k \in 1..l |-> shown[k]]
      BY <2>1, <2>3
    <3>2. DOMAIN y.tools = 1..l
      BY <2>5, <3>1
    <3>3. QED
      BY <2>4, <2>5, <3>1, <3>2
  <2>7. Shortened(t, y) = [y EXCEPT !.tools = shown, !.size = ToolsLength(shown)]
    BY <2>5, <2>6 DEF Shortened
  <2>8. [y EXCEPT !.tools = shown, !.size = ToolsLength(shown)] = y
    BY <2>2 DEF Trimmables
  <2>9. QED
    BY <1>3, <1>11, <2>5, <2>7, <2>8 DEF IsShortened
<1>12. QED
  BY <1>9, <1>10, <1>11 DEF IsOutput

(* Where the recent turns begin.                                           *)
UsersFrom(items, n) == {j \in DOMAIN items : j >= n /\ IsOfUser(items[j])}
Begins(t, items) ==
    {i \in DOMAIN items : IsOfUser(items[i]) /\ Cardinality(UsersFrom(items, i)) = t.recent}
LEMMA BoundaryIs ==
    ASSUME NEW t, NEW items
    PROVE  RecentBoundary(t, items)
               = IF Begins(t, items) = {} THEN 1 ELSE Max(Begins(t, items))
BY DEF RecentBoundary, Begins, UsersFrom

LEMMA UsersCount ==
    ASSUME NEW X, NEW items \in Seq(X), NEW n
    PROVE  /\ UsersFrom(items, n) \subseteq 1..Len(items)
           /\ IsFiniteSet(UsersFrom(items, n)) /\ Cardinality(UsersFrom(items, n)) \in Nat
<1>1. UsersFrom(items, n) \subseteq 1..Len(items)
  BY DEF UsersFrom
<1>2. IsFiniteSet(1..Len(items))
  BY FS_Interval
<1>3. IsFiniteSet(UsersFrom(items, n))
  BY <1>1, <1>2, FS_Subset
<1>4. QED
  BY <1>1, <1>3, FS_CardinalityType

(* Behind what is in front of the boundary are the users' turns.           *)
LEMMA UsersBehind ==
    ASSUME NEW t, NEW X, NEW items \in Seq(X), NEW i \in DOMAIN items,
           i < RecentBoundary(t, items)
    PROVE  /\ RecentBoundary(t, items) \in Begins(t, items)
           /\ t.recent \in Nat => t.recent <= Cardinality(UsersFrom(items, i + 1))
<1>1. PICK m \in Nat : m = Len(items) /\ DOMAIN items = 1..m
  OBVIOUS
<1>2. PICK b : b = RecentBoundary(t, items)
  OBVIOUS
<1>3. b \in Begins(t, items)
  <2>1. Begins(t, items) \subseteq 0..m
    BY <1>1 DEF Begins
  <2>2. Begins(t, items) # {}
    BY <1>1, BoundaryIs
  <2>3. QED
    BY <1>2, <2>1, <2>2, BoundaryIs, NatMax
<1>4. b \in 1..m /\ i \in 1..m /\ i < b /\ Cardinality(UsersFrom(items, b)) = t.recent
  BY <1>1, <1>2, <1>3 DEF Begins
<1>5. UsersFrom(items, b) \subseteq UsersFrom(items, i + 1)
  BY <1>1, <1>4 DEF UsersFrom
<1>6. Cardinality(UsersFrom(items, b)) <= Cardinality(UsersFrom(items, i + 1))
  BY <1>5, UsersCount, FS_Subset
<1>7. QED
  BY <1>2, <1>3, <1>4, <1>6

(* Where there are enough turns of the user behind a place, the boundary   *)
(* is not in front of it.                                                  *)
LEMMA BoundaryBehind ==
    ASSUME NEW t, t.recent \in Nat \ {0}, NEW X, NEW items \in Seq(X), NEW b \in DOMAIN items,
           t.recent <= Cardinality(UsersFrom(items, b))
    PROVE  b <= RecentBoundary(t, items)
<1>1. PICK m \in Nat : m = Len(items) /\ DOMAIN items = 1..m
  OBVIOUS
<1>2. PICK r \in Nat \ {0} : r = t.recent
  OBVIOUS
<1>3. PICK T : T = {i \in 1..m : IsOfUser(items[i]) /\ r <= Cardinality(UsersFrom(items, i))}
  OBVIOUS
<1>4. \A n \in 1..m : r <= Cardinality(UsersFrom(items, n)) => \E i \in T : n <= i
  <2>1. SUFFICES ASSUME NEW n \in 1..m, r <= Cardinality(UsersFrom(items, n))
                 PROVE  \E i \in T : n <= i
    OBVIOUS
  <2>2. PICK U : U = UsersFrom(items, n)
    OBVIOUS
  <2>3. U \subseteq Nat /\ U # {}
    BY <1>2, <2>1, <2>2, UsersCount, FS_EmptySet
  <2>4. PICK i \in U : \A j \in U : i <= j
    BY <2>3, NatMin
  <2>5. i \in 1..m /\ n <= i /\ IsOfUser(items[i])
    BY <1>1, <2>2, <2>4 DEF UsersFrom
  <2>6. U = UsersFrom(items, i)
    <3>1. \A j \in 1..m : j >= i /\ IsOfUser(items[j]) => j \in U
      BY <1>1, <2>1, <2>2, <2>5 DEF UsersFrom
    <3>2. \A j \in U : j \in 1..m /\ j >= i /\ IsOfUser(items[j])
      BY <1>1, <2>2, <2>4 DEF UsersFrom
    <3>3. QED
      BY <1>1, <3>1, <3>2 DEF UsersFrom
  <2>7. i \in T
    BY <1>3, <2>1, <2>2, <2>5, <2>6
  <2>8. QED
    BY <2>5, <2>7
<1>5. PICK i \in T : b <= i
  BY <1>1, <1>2, <1>4
<1>6. T \subseteq 0..m /\ T # {}
  BY <1>3, <1>5
<1>7. PICK l : l = Max(T) /\ l \in T /\ \A y \in T : y <= l
  BY <1>6, NatMax
<1>8. l \in 1..m /\ b <= l /\ IsOfUser(items[l]) /\ r <= Cardinality(UsersFrom(items, l))
  BY <1>1, <1>3, <1>5, <1>7
<1>9. Cardinality(UsersFrom(items, l)) = r
  <2>1. SUFFICES ASSUME Cardinality(UsersFrom(items, l)) # r PROVE FALSE
    OBVIOUS
  <2>2. PICK U : U = UsersFrom(items, l)
    OBVIOUS
  <2>3. IsFiniteSet(U) /\ Cardinality(U) \in Nat /\ l \in U
    <3>1. IsFiniteSet(U) /\ Cardinality(U) \in Nat
      BY <2>2, UsersCount
    <3>2. l \in U
      BY <1>1, <1>8, <2>2 DEF UsersFrom
    <3>3. QED
      BY <3>1, <3>2
  <2>4. Cardinality(U \ {l}) = Cardinality(U) - 1
    BY <2>3, FS_RemoveElement
  <2>5. U \ {l} = UsersFrom(items, l + 1)
    <3>1. \A j \in 1..m : j \in U /\ j # l <=> j >= l + 1 /\ IsOfUser(items[j])
      BY <1>1, <1>8, <2>2 DEF UsersFrom
    <3>2. U \subseteq 1..m
      BY <1>1, <2>2, UsersCount
    <3>3. QED
      BY <1>1, <3>1, <3>2 DEF UsersFrom
  <2>6. r <= Cardinality(UsersFrom(items, l + 1))
    <3>1. PICK c \in Nat : c = Cardinality(U)
      BY <2>3
    <3>2. r <= c /\ c # r
      BY <1>8, <2>1, <2>2, <3>1
    <3>3. r <= c - 1
      BY <3>2
    <3>4. QED
      BY <2>4, <2>5, <3>1, <3>3
  <2>7. l + 1 \in 1..m
    <3>1. UsersFrom(items, l + 1) # {}
      <4>1. Cardinality({}) = 0 /\ ~(r <= 0)
        BY FS_EmptySet
      <4>2. QED
        BY <2>6, <4>1
    <3>2. QED
      BY <1>1, <1>8, <3>1 DEF UsersFrom
  <2>8. PICK j \in T : l + 1 <= j
    BY <1>4, <2>6, <2>7
  <2>9. QED
    BY <1>3, <1>7, <1>8, <2>8
<1>10. l \in Begins(t, items)
  BY <1>1, <1>2, <1>8, <1>9 DEF Begins
<1>11. Begins(t, items) \subseteq 0..m
  BY <1>1 DEF Begins
<1>12. l <= Max(Begins(t, items)) /\ Max(Begins(t, items)) \in 0..m
  BY <1>10, <1>11, NatMax
<1>13. RecentBoundary(t, items) = Max(Begins(t, items))
  BY <1>10, BoundaryIs
<1>14. QED
  BY <1>1, <1>8, <1>12, <1>13

(* What Trim makes of an item.                                             *)
IsTrimmedAt(t, items, trimmed, i) ==
    \/ /\ trimmed[i] = items[i]
       /\ ~(i < RecentBoundary(t, items) /\ MayBeTrimmed(t, items, items[i]))
    \/ /\ i < RecentBoundary(t, items) /\ MayBeTrimmed(t, items, items[i])
       /\ trimmed[i] = Shortened(t, items[i])
       /\ IsOutput(items[i]) /\ items[i].size > t.max
       /\ IsShortened(t, items[i], trimmed[i])

LEMMA TrimmedIs ==
    ASSUME NEW t, IsTrimmer(t), NEW ids, NEW names, NEW items \in Seq(Trimmables(ids, names))
    PROVE  /\ DOMAIN Trim(t, items) = DOMAIN items
           /\ \A i \in DOMAIN items : IsTrimmedAt(t, items, Trim(t, items), i)
<1>1. DOMAIN Trim(t, items) = DOMAIN items
  BY DEF Trim
<1>2. SUFFICES ASSUME NEW i \in DOMAIN items PROVE IsTrimmedAt(t, items, Trim(t, items), i)
  BY <1>1
<1>3. items[i] \in Trimmables(ids, names)
  OBVIOUS
<1>4. Trim(t, items)[i] =
          IF i < RecentBoundary(t, items) /\ MayBeTrimmed(t, items, items[i])
          THEN Shortened(t, items[i]) ELSE items[i]
  BY DEF Trim
<1>5. ASSUME MayBeTrimmed(t, items, items[i])
      PROVE  IsOutput(items[i]) /\ items[i].size > t.max
  BY <1>5 DEF MayBeTrimmed, IsOutput
<1>6. ASSUME MayBeTrimmed(t, items, items[i])
      PROVE  IsShortened(t, items[i], Shortened(t, items[i]))
  BY <1>3, <1>5, <1>6, ItemIsShortened
<1>7. QED
  BY <1>4, <1>5, <1>6 DEF IsTrimmedAt

(* What is looked at to find the boundary and the names stays.             *)
IsAlike(x, y) == <<y.kind, y.id, y.names>> = <<x.kind, x.id, x.names>>
LEMMA LooksAlike ==
    ASSUME NEW t, NEW m \in Nat, NEW items, NEW trimmed,
           DOMAIN items = 1..m, DOMAIN trimmed = 1..m,
           \A i \in DOMAIN items : IsAlike(items[i], trimmed[i])
    PROVE  /\ RecentBoundary(t, trimmed) = RecentBoundary(t, items)
           /\ \A i \in DOMAIN items : NamesOf(trimmed, trimmed[i]) = NamesOf(items, items[i])
<1>1. \A i \in DOMAIN items : /\ trimmed[i].kind = items[i].kind
                              /\ trimmed[i].id = items[i].id
                              /\ trimmed[i].names = items[i].names
  BY DEF IsAlike
<1>2. \A i \in DOMAIN items : IsOfUser(trimmed[i]) <=> IsOfUser(items[i])
  BY <1>1 DEF IsOfUser
<1>3. \A n : UsersFrom(trimmed, n) = UsersFrom(items, n)
  BY <1>2 DEF UsersFrom
<1>4. Begins(t, trimmed) = Begins(t, items)
  BY <1>2, <1>3 DEF Begins
<1>5. RecentBoundary(t, trimmed) = RecentBoundary(t, items)
  BY <1>4, BoundaryIs, Zenon
<1>6. ASSUME NEW i \in DOMAIN items
      PROVE  NamesOf(trimmed, trimmed[i]) = NamesOf(items, items[i])
  <2>1. PICK calls : calls = {j \in DOMAIN items :
                     /\ items[j].kind \in Calling /\ items[j].id = items[i].id
                     /\ items[j].id # "" /\ items[j].names # {}}
    OBVIOUS
  <2>2. calls = {j \in DOMAIN trimmed :
                     /\ trimmed[j].kind \in Calling /\ trimmed[j].id = trimmed[i].id
                     /\ trimmed[j].id # "" /\ trimmed[j].names # {}}
    BY <1>1, <2>1
  <2>3. NamesOf(items, items[i]) =
            IF calls # {} THEN items[Max(calls)].names
            ELSE IF items[i].kind \in {"results", "tools"} THEN {"tool_search"} ELSE {}
    BY <2>1 DEF NamesOf
  <2>4. NamesOf(trimmed, trimmed[i]) =
            IF calls # {} THEN trimmed[Max(calls)].names
            ELSE IF trimmed[i].kind \in {"results", "tools"} THEN {"tool_search"} ELSE {}
    BY <2>2 DEF NamesOf
  <2>5. ASSUME calls # {} PROVE Max(calls) \in DOMAIN items
    <3>1. calls \subseteq 1..m
      BY <2>1, Zenon
    <3>2. calls \subseteq 0..m
      BY <3>1
    <3>3. Max(calls) \in calls
      BY <2>5, <3>2, NatMax, Zenon
    <3>4. QED
      BY <3>1, <3>3
  <2>6. QED
    BY <1>1, <2>3, <2>4, <2>5
<1>7. QED
  BY <1>5, <1>6

(* The trimmer changes nothing but what outputs say and can be used in     *)
(* every turn anew, for inputs of any length, with any tools, sizes, names *)
(* and limits that validate() takes; what it trimmed before it leaves      *)
(* alone if the limits have room for it (ToolOutputTrimmer).               *)
THEOREM EveryTrimIsStable ==
    ASSUME NEW t, IsTrimmer(t), NEW ids, NEW names, NEW items \in Seq(Trimmables(ids, names))
    PROVE  TrimmingIsStable(t, items, Trim(t, items))
<1>1. PICK m \in Nat : m = Len(items) /\ DOMAIN items = 1..m
  OBVIOUS
<1>2. PICK trimmed : trimmed = Trim(t, items)
  OBVIOUS
<1>3. DOMAIN trimmed = 1..m /\ \A i \in 1..m : IsTrimmedAt(t, items, trimmed, i)
  BY <1>1, <1>2, TrimmedIs
<1>5. \A i \in DOMAIN items : IsAlike(items[i], trimmed[i])
  <2>1. \A i \in 1..m : trimmed[i] = items[i] \/ IsShortened(t, items[i], trimmed[i])
    BY <1>3 DEF IsTrimmedAt
  <2>2. QED
    BY <1>1, <2>1, Zenon DEF IsAlike, IsShortened
<1>6. /\ RecentBoundary(t, trimmed) = RecentBoundary(t, items)
      /\ \A i \in 1..m : NamesOf(trimmed, trimmed[i]) = NamesOf(items, items[i])
  BY <1>1, <1>3, <1>5, LooksAlike, SMTT(30)
<1>7. t.recent \in Nat \ {0} /\ t.max \in Nat /\ t.preview \in Nat
  BY DEF IsTrimmer
<1>8. \A i \in DOMAIN items : Cut(trimmed[i]) = Cut(items[i])
  BY <1>1, <1>3, Zenon DEF IsTrimmedAt, IsShortened
<1>10. \A i \in DOMAIN items :
          Cardinality({j \in DOMAIN items : j > i /\ IsOfUser(items[j])}) < t.recent
              => trimmed[i] = items[i]
  <2>1. SUFFICES ASSUME NEW i \in 1..m, trimmed[i] # items[i]
                 PROVE  ~(Cardinality({j \in DOMAIN items : j > i /\ IsOfUser(items[j])}) < t.recent)
    BY <1>1
  <2>2. i < RecentBoundary(t, items)
    BY <1>3, <2>1 DEF IsTrimmedAt
  <2>3. t.recent <= Cardinality(UsersFrom(items, i + 1))
    BY <1>1, <1>7, <2>2, UsersBehind
  <2>4. {j \in DOMAIN items : j > i /\ IsOfUser(items[j])} = UsersFrom(items, i + 1)
    <3>1. \A j \in 1..m : j > i <=> j >= i + 1
      OBVIOUS
    <3>2. QED
      BY <1>1, <3>1 DEF UsersFrom
  <2>5. Cardinality(UsersFrom(items, i + 1)) \in Nat
    BY UsersCount
  <2>6. PICK c \in Nat : c = Cardinality(UsersFrom(items, i + 1))
    BY <2>5
  <2>7. ~(c < t.recent)
    BY <1>7, <2>3, <2>6
  <2>8. QED
    BY <2>4, <2>6, <2>7
<1>11. ASSUME HasRoom(t) PROVE Trim(t, trimmed) = trimmed
  <2>1. \A i \in 1..m : Trim(t, trimmed)[i] = trimmed[i]
    <3>1. SUFFICES ASSUME NEW i \in 1..m, NEW x, NEW y, x = items[i], y = trimmed[i],
                          i < RecentBoundary(t, trimmed), MayBeTrimmed(t, trimmed, y)
                   PROVE  Shortened(t, y) = y
      BY <1>3 DEF Trim
    <3>2. i < RecentBoundary(t, items) /\ NamesOf(trimmed, y) = NamesOf(items, x)
      BY <1>6, <3>1
    <3>3. /\ y.kind \in {"output", "results", "tools"} /\ y.size > t.max
          /\ t.tools # AnyTool => NamesOf(items, x) \cap t.tools # {}
          /\ y.kind = "output" => SummaryLength(t, y) < y.size
      BY <3>1, <3>2 DEF MayBeTrimmed
    <3>4. IsTrimmedAt(t, items, trimmed, i)
      BY <1>3
    <3>5. CASE IsShortened(t, x, y)
      <4>1. x.kind = y.kind
        BY <3>5 DEF IsShortened
      <4>2. QED
        BY <1>11, <3>3, <3>5, <4>1 DEF IsShortened
    <3>6. CASE y = x /\ ~(i < RecentBoundary(t, items) /\ MayBeTrimmed(t, items, x))
      <4>1. MayBeTrimmed(t, items, x)
        BY <3>3, <3>6 DEF MayBeTrimmed
      <4>2. QED
        BY <3>2, <3>6, <4>1
    <3>7. QED
      BY <3>1, <3>4, <3>5, <3>6 DEF IsTrimmedAt
  <2>2. DOMAIN Trim(t, trimmed) = 1..m
    BY <1>3 DEF Trim
  <2>3. PICK again : again = Trim(t, trimmed)
    OBVIOUS
  <2>4. again = [i \in 1..m |-> again[i]] /\ trimmed = [i \in 1..m |-> trimmed[i]]
    <3>1. again = [i \in DOMAIN trimmed |->
                      IF i < RecentBoundary(t, trimmed) /\ MayBeTrimmed(t, trimmed, trimmed[i])
                      THEN Shortened(t, trimmed[i]) ELSE trimmed[i]]
      BY <2>3 DEF Trim
    <3>2. trimmed = [i \in DOMAIN items |->
                      IF i < RecentBoundary(t, items) /\ MayBeTrimmed(t, items, items[i])
                      THEN Shortened(t, items[i]) ELSE items[i]]
      BY <1>2 DEF Trim
    <3>3. QED
      BY <1>1, <1>3, <3>1, <3>2
  <2>5. QED
    BY <2>1, <2>3, <2>4
<1>12. \A n \in 0..Len(items) : \A i \in 1..n :
           Trim(t, SubSeq(items, 1, n))[i] # items[i] /\ t.tools = AnyTool
           => trimmed[i] = Trim(t, SubSeq(items, 1, n))[i]
  <2>1. SUFFICES ASSUME NEW n \in 0..m, NEW i \in 1..n, NEW s, s = SubSeq(items, 1, n),
                        Trim(t, s)[i] # items[i], t.tools = AnyTool
                 PROVE  trimmed[i] = Trim(t, s)[i]
    BY <1>1
  <2>2. s \in Seq(Trimmables(ids, names)) /\ DOMAIN s = 1..n /\ Len(s) = n
        /\ \A j \in 1..n : s[j] = items[j]
    BY <1>1, <2>1
  <2>3. i \in 1..m /\ i \in DOMAIN s
    BY <2>2
  <2>4. IsTrimmedAt(t, s, Trim(t, s), i)
    BY <2>2, TrimmedIs
  <2>5. /\ i < RecentBoundary(t, s) /\ MayBeTrimmed(t, s, items[i])
        /\ Trim(t, s)[i] = Shortened(t, items[i])
    BY <2>1, <2>2, <2>4 DEF IsTrimmedAt
  <2>6. PICK b : b = RecentBoundary(t, s)
    OBVIOUS
  <2>7. b \in Begins(t, s) /\ i < b
    BY <2>2, <2>3, <2>5, <2>6, UsersBehind
  <2>8. b \in 1..n /\ Cardinality(UsersFrom(s, b)) = t.recent
    BY <2>2, <2>7 DEF Begins
  <2>9. UsersFrom(s, b) \subseteq UsersFrom(items, b)
    BY <1>1, <2>2 DEF UsersFrom
  <2>10. t.recent <= Cardinality(UsersFrom(items, b))
    BY <2>8, <2>9, UsersCount, FS_Subset
  <2>11. b \in DOMAIN items
    BY <1>1, <2>8
  <2>12. b <= RecentBoundary(t, items)
    BY <1>7, <2>10, <2>11, BoundaryBehind
  <2>13. RecentBoundary(t, items) \in Int
    <3>1. Begins(t, items) \subseteq 0..m
      BY <1>1 DEF Begins
    <3>2. Begins(t, items) # {} => Max(Begins(t, items)) \in 0..m
      BY <3>1, NatMax
    <3>3. QED
      BY <3>2, BoundaryIs
  <2>14. i < RecentBoundary(t, items)
    BY <2>7, <2>8, <2>12, <2>13
  <2>15. MayBeTrimmed(t, items, items[i])
    BY <2>1, <2>5 DEF MayBeTrimmed
  <2>16. trimmed[i] = Shortened(t, items[i])
    BY <1>3, <2>3, <2>14, <2>15 DEF IsTrimmedAt
  <2>17. QED
    BY <2>5, <2>16
<1>13. QED
  BY <1>2, <1>8, <1>10, <1>11, <1>12, Zenon DEF TrimmingIsStable, Cut

(* The inputs of the model are such items.                                 *)
TwoTools == <<ShownTool("function", 3, 5), ShownTool("other", 2, 2)>>
LEMMA TwoToolsAre == TwoTools \in Seq(ShownTools)
<1>1. PICK x, y : x = ShownTool("function", 3, 5) /\ y = ShownTool("other", 2, 2)
  OBVIOUS
<1>2. x \in ShownTools /\ y \in ShownTools
  BY <1>1 DEF ShownTool, ShownTools
<1>3. TwoTools = <<x, y>>
  BY <1>1 DEF TwoTools
<1>4. QED
  BY <1>2, <1>3

LEMMA TrimItemsAre == \E ids, names : TrimItems \subseteq Trimmables(ids, names)
<1>1. PICK ids, names : ids = {"", "1", "2", "3"} /\ names = {{}, {"a", "ns.a"}}
  OBVIOUS
<1>2. <<>> \in Seq(ShownTools)
  OBVIOUS
<1>3. ASSUME NEW kind \in ItemKinds, NEW id \in ids, NEW called \in names, NEW size \in Nat,
             NEW tools \in Seq(ShownTools)
      PROVE  TrimItem(kind, id, called, size, tools) \in Trimmables(ids, names)
  BY DEF TrimItem, Trimmables
<1>4. TrimItem("text", "", {}, 1, <<>>) \in Trimmables(ids, names)
  BY <1>1, <1>2, <1>3 DEF ItemKinds
<1>5. TrimItem("user", "", {}, 1, <<>>) \in Trimmables(ids, names)
  BY <1>1, <1>2, <1>3 DEF ItemKinds
<1>6. TrimItem("call", "1", {"a", "ns.a"}, 1, <<>>) \in Trimmables(ids, names)
  BY <1>1, <1>2, <1>3 DEF ItemKinds
<1>7. TrimItem("output", "1", {}, 12, <<>>) \in Trimmables(ids, names)
  BY <1>1, <1>2, <1>3 DEF ItemKinds
<1>8. TrimItem("output", "2", {}, 5, <<>>) \in Trimmables(ids, names)
  BY <1>1, <1>2, <1>3 DEF ItemKinds
<1>9. TrimItem("results", "3", {}, 9, <<>>) \in Trimmables(ids, names)
  BY <1>1, <1>2, <1>3 DEF ItemKinds
<1>10. TrimItem("tools", "", {}, 12, TwoTools) \in Trimmables(ids, names)
  BY <1>1, <1>3, TwoToolsAre DEF ItemKinds
<1>11. TrimItems \subseteq Trimmables(ids, names)
  BY <1>4, <1>5, <1>6, <1>7, <1>8, <1>9, <1>10, Zenon DEF TrimItems, TwoTools
<1>12. QED
  BY <1>11

LEMMA TrimStep == TrimOutputs => TrimmingIsStable(given'[1], given'[2], made')
<1> SUFFICES ASSUME TrimOutputs PROVE TrimmingIsStable(given'[1], given'[2], made')
  OBVIOUS
<1>1. PICK t \in Trimmers, items \in SeqOf(TrimItems, 4) :
          given' = <<t, items>> /\ made' = Trim(t, items)
  BY DEF TrimOutputs
<1>2. IsTrimmer(t)
  BY DEF Trimmers
<1>3. PICK ids, names : TrimItems \subseteq Trimmables(ids, names)
  BY TrimItemsAre
<1>4. items \in Seq(Trimmables(ids, names))
  <2>1. items \in Seq(TrimItems)
    BY SeqOfIs
  <2>2. \A S, R : \A s \in Seq(S) : S \subseteq R => s \in Seq(R)
    OBVIOUS
  <2>3. QED
    BY <1>3, <2>1, <2>2
<1>5. TrimmingIsStable(t, items, Trim(t, items))
  BY <1>2, <1>4, EveryTrimIsStable
<1>6. QED
  BY <1>1, <1>5

-----------------------------------------------------------------------------
(* What is replayed.                                                       *)

LEMMA OnceIs ==
    ASSUME NEW s, NEW n \in Nat, DOMAIN s = 1..n, NEW x
    PROVE  Once(s, x) <=> \E k \in DOMAIN s : s[k] = x /\ \A l \in DOMAIN s : s[l] = x => l = k
<1>1. PICK places : places = {i \in DOMAIN s : s[i] = x}
  OBVIOUS
<1>2. Once(s, x) <=> Cardinality(places) = 1
  BY <1>1 DEF Once
<1>3. ASSUME NEW k \in DOMAIN s, s[k] = x, \A l \in DOMAIN s : s[l] = x => l = k
      PROVE  Cardinality(places) = 1
  <2>1. places = {k}
    BY <1>1, <1>3
  <2>2. QED
    BY <2>1, FS_Singleton
<1>4. ASSUME Cardinality(places) = 1
      PROVE  \E k \in DOMAIN s : s[k] = x /\ \A l \in DOMAIN s : s[l] = x => l = k
  <2>1. IsFiniteSet(places)
    BY <1>1, FS_Interval, FS_Subset
  <2>2. PICK k : places = {k}
    BY <1>4, <2>1, FS_Singleton
  <2>3. QED
    BY <1>1, <2>2
<1>5. QED
  BY <1>2, <1>3, <1>4

(* Open are only calls without an identifier.                              *)
Searches(items) == {n \in DOMAIN items : Anonymous(items[n], "tool_search_call")}
LEMMA OpenAreSearches ==
    ASSUME NEW S, NEW items \in Seq(S)
    PROVE  OpenSearches(items) \in [0..Len(items) -> Seq(Searches(items))]
<1> DEFINE Nth(f, n) ==
        CASE n = 0 -> <<>>
          [] n > 0 /\ Anonymous(items[n], "tool_search_call") -> Append(f[n - 1], n)
          [] n > 0 /\ Anonymous(items[n], "tool_search_output")
                   /\ f[n - 1] # <<>> -> Front(f[n - 1])
          [] OTHER -> f[n - 1]
       After(n, a) ==
           IF Anonymous(items[n], "tool_search_call") THEN Append(a, n)
           ELSE IF Anonymous(items[n], "tool_search_output") /\ a # <<>> THEN Front(a) ELSE a
<1>1. PICK m \in Nat : m = Len(items) /\ DOMAIN items = 1..m
  OBVIOUS
<1>2. PICK Open : Open = Seq(Searches(items))
  OBVIOUS
<1>3. \A f : f = [n \in 0..m |-> Nth(f, n)]
              => \E g : g = [n \in 0..m |-> Nth(g, n)] /\ OpenSearches(items) = g
  BY <1>1 DEF OpenSearches
<1>4. \A n \in 1..m, a \in Open : After(n, a) \in Open
  <2>1. SUFFICES ASSUME NEW n \in 1..m, NEW a \in Open PROVE After(n, a) \in Open
    OBVIOUS
  <2>2. ASSUME Anonymous(items[n], "tool_search_call") PROVE Append(a, n) \in Open
    <3>1. n \in Searches(items)
      BY <1>1, <2>2 DEF Searches
    <3>2. QED
      BY <1>2, <3>1
  <2>3. ASSUME a # <<>> PROVE Front(a) \in Open
    BY <1>2, <2>3, FrontIs
  <2>4. QED
    BY <2>2, <2>3
<1>5. ASSUME NEW f, NEW n \in 1..m PROVE Nth(f, n) = After(n, f[n - 1])
  <2>1. n > 0 /\ n # 0
    OBVIOUS
  <2>2. CASE Anonymous(items[n], "tool_search_call")
    <3>1. ~Anonymous(items[n], "tool_search_output")
      BY <2>2 DEF Anonymous
    <3>2. QED
      BY <2>1, <2>2, <3>1
  <2>3. CASE ~Anonymous(items[n], "tool_search_call")
    BY <2>1, <2>3
  <2>4. QED
    BY <2>2, <2>3
<1>6. \A f : Nth(f, 0) = <<>>
  OBVIOUS
<1>7. <<>> \in Open
  BY <1>2
<1> HIDE DEF Nth, After
<1>8. PICK step : step = [n \in 1..m |-> [a \in Open |-> After(n, a)]]
  OBVIOUS
<1>9. step \in [1..m -> [Open -> Open]] /\ \A n \in 1..m, a \in Open : step[n][a] = After(n, a)
  BY <1>4, <1>8
<1>10. PICK f \in [0..m -> Open] : Repeats(f, <<>>, m, step)
  BY <1>7, <1>9, Iterates
<1>11. \A n \in 0..m : f[n] = Nth(f, n)
  <2>1. ASSUME NEW n \in 1..m PROVE f[n] = Nth(f, n)
    <3>1. f[n - 1] \in Open
      OBVIOUS
    <3>2. QED
      BY <1>5, <1>9, <1>10, <3>1, ZenonT(60) DEF Repeats
  <2>2. QED
    BY <1>6, <1>10, <2>1 DEF Repeats
<1>12. f = [n \in 0..m |-> Nth(f, n)]
  <2>1. f = [n \in 0..m |-> f[n]]
    OBVIOUS
  <2>2. QED
    BY <2>1, <1>11
<1>13. PICK g : g = [n \in 0..m |-> Nth(g, n)] /\ OpenSearches(items) = g
  BY <1>3, <1>12
<1>14. \A n \in 0..m : g[n] = Nth(g, n)
  BY <1>13
<1> DEFINE T == {n \in 0..m : g[n] \in Open}
<1>15. 0 \in T
  BY <1>6, <1>7, <1>14
<1>16. ASSUME NEW n \in 0..m - 1, n \in T PROVE n + 1 \in T
  <2>1. n + 1 \in 1..m /\ n + 1 \in 0..m /\ (n + 1) - 1 = n /\ g[n] \in Open
    BY <1>16
  <2>2. g[n + 1] = After(n + 1, g[n])
    BY <1>5, <1>14, <2>1
  <2>3. QED
    BY <1>4, <2>1, <2>2
<1>17. 0..m \subseteq T
  <2> HIDE DEF T
  <2>1. QED
    BY <1>15, <1>16, CountingUp
<1>18. g = [n \in 0..m |-> g[n]]
  <2>1. DOMAIN g = 0..m
    BY <1>13
  <2>2. QED
    BY <1>13, <2>1
<1>19. QED
  BY <1>1, <1>2, <1>13, <1>17, <1>18

(* With an output that is kept its call is kept.                           *)
LEMMA CallsAreKept ==
    ASSUME NEW S, NEW items \in Seq(S), NEW i \in DOMAIN items,
           items[i].kind \in HostedOutputs, IsKept(items, i)
    PROVE  Has(SanitizeHostedToolReplayItems(items), CallOf(items[i].kind), items[i].id)
<1>1. PICK kept : kept = {j \in DOMAIN items : IsKept(items, j)}
  OBVIOUS
<1>2. PICK x : x = items[i]
  OBVIOUS
<1>3. SUFFICES ASSUME TRUE
               PROVE \E j \in kept : items[j].kind = CallOf(x.kind) /\ items[j].id = x.id
  <2>1. PICK j \in kept : items[j].kind = CallOf(x.kind) /\ items[j].id = x.id
    BY <1>3
  <2>2. PICK s : s = Picked(items, kept)
    OBVIOUS
  <2>3. ToSet(s) = {items[k] : k \in kept} /\ s \in Seq(S)
    BY <1>1, <2>2, PickedCounts, PickedAre
  <2>4. items[j] \in ToSet(s)
    BY <2>3
  <2>5. PICK k \in DOMAIN s : s[k] = items[j]
    BY <2>4 DEF ToSet
  <2>6. QED
    BY <1>1, <1>2, <2>1, <2>2, <2>5 DEF Has, SanitizeHostedToolReplayItems
<1>4. /\ x.kind \in HostedOutputs /\ CallOf(x.kind) \in HostedCalls
      /\ OutputOf(CallOf(x.kind)) = x.kind
  BY <1>2 DEF HostedOutputs, HostedCalls, CallOf, OutputOf
<1>5. IF x.id = "" THEN i \in MatchedSearches(items) ELSE Has(items, CallOf(x.kind), x.id)
  BY <1>2, <1>4 DEF IsKept, HostedOutputs, HostedCalls
<1>6. CASE x.id # ""
  <2>1. PICK j \in DOMAIN items : items[j].kind = CallOf(x.kind) /\ items[j].id = x.id
    BY <1>5, <1>6 DEF Has
  <2>2. Has(items, x.kind, x.id)
    BY <1>2 DEF Has
  <2>3. IsKept(items, j)
    <3>1. PICK y : y = items[j]
      OBVIOUS
    <3>2. y.kind \in HostedCalls /\ y.id # "" /\ Has(items, OutputOf(y.kind), y.id)
      BY <1>4, <1>6, <2>1, <2>2, <3>1
    <3>3. QED
      BY <3>1, <3>2 DEF IsKept, HostedCalls, HostedOutputs
  <2>4. QED
    BY <1>1, <2>1, <2>3
<1>7. CASE x.id = ""
  <2>1. PICK m \in Nat : m = Len(items) /\ DOMAIN items = 1..m
    OBVIOUS
  <2>2. PICK open : open = OpenSearches(items)
    OBVIOUS
  <2>3. open \in [0..m -> Seq(Searches(items))]
    BY <2>1, <2>2, OpenAreSearches
  <2>4. PICK matched : matched = {n \in DOMAIN items :
                        Anonymous(items[n], "tool_search_output") /\ open[n - 1] # <<>>}
    OBVIOUS
  <2>5. MatchedSearches(items) = matched \cup {Last(open[n - 1]) : n \in matched}
    BY <2>2, <2>4 DEF MatchedSearches
  <2>6. \A n \in matched : /\ Last(open[n - 1]) \in Searches(items)
                           /\ Last(open[n - 1]) \in MatchedSearches(items)
    <3>1. SUFFICES ASSUME NEW n \in matched PROVE Last(open[n - 1]) \in Searches(items)
      BY <2>5
    <3>2. n \in 1..m /\ n - 1 \in 0..m /\ open[n - 1] # <<>>
      BY <2>1, <2>4
    <3>3. open[n - 1] \in Seq(Searches(items))
      BY <2>3, <3>2
    <3>4. QED
      BY <3>2, <3>3, FrontIs
  <2>7. i \in matched
    <3>1. i \in Searches(items) => x.kind = "tool_search_call"
      BY <1>2 DEF Searches, Anonymous
    <3>2. i \notin Searches(items)
      BY <1>4, <3>1 DEF HostedOutputs
    <3>3. QED
      BY <1>5, <1>7, <2>5, <2>6, <3>2
  <2>8. PICK j \in Searches(items) : j \in MatchedSearches(items)
    BY <2>6, <2>7
  <2>9. j \in DOMAIN items /\ items[j].kind = "tool_search_call" /\ items[j].id = ""
    BY <2>8 DEF Searches, Anonymous
  <2>10. IsKept(items, j)
    BY <2>8, <2>9 DEF IsKept, HostedCalls
  <2>11. CallOf(x.kind) = "tool_search_call"
    BY <1>2, <2>4, <2>7 DEF Anonymous, CallOf
  <2>12. QED
    BY <1>1, <1>7, <2>9, <2>10, <2>11
<1>8. QED
  BY <1>6, <1>7

(* The overlap of what the model saw and what was generated.               *)
OverlapsAt(base, G, n) ==
    /\ \A k \in 1..n : base[Len(base) - n + k] = G[k]
    /\ \E i \in 1..n : IsKeyed(G[i])
LEMMA OverlapsAre ==
    ASSUME NEW S, NEW base \in Seq(S), NEW G \in Seq(S),
           NEW n \in 1..Len(G), n <= Len(base)
    PROVE  Overlaps(base, G, n) <=> OverlapsAt(base, G, n)
<1>1. PICK l \in Nat, m \in Nat : l = Len(base) /\ m = Len(G)
  OBVIOUS
<1>2. PICK tail, head : tail = SubSeq(base, l - n + 1, l) /\ head = SubSeq(G, 1, n)
  OBVIOUS
<1>3. /\ tail \in Seq(S) /\ Len(tail) = n /\ \A k \in 1..n : tail[k] = base[l - n + k]
      /\ head \in Seq(S) /\ Len(head) = n /\ \A k \in 1..n : head[k] = G[k]
  <2>1. /\ tail \in Seq(S) /\ Len(tail) = n
        /\ \A k \in 1..n : tail[k] = base[(l - n + 1) + k - 1]
    BY <1>1, <1>2, SubSeqProperties
  <2>2. \A k \in 1..n : (l - n + 1) + k - 1 = l - n + k
    BY <1>1
  <2>3. head \in Seq(S) /\ Len(head) = n /\ \A k \in 1..n : head[k] = G[k]
    <3>1. 1 \in 1..Len(G) + 1 /\ n \in (1 - 1)..Len(G)
      BY <1>1
    <3>2. /\ head \in Seq(S) /\ Len(head) = (IF 1 <= n THEN n - 1 + 1 ELSE 0)
          /\ \A k \in 1..n - 1 + 1 : head[k] = G[1 + k - 1]
      BY <1>2, <3>1, SubSeqProperties
    <3>3. n \in Int /\ 1 <= n /\ n - 1 + 1 = n /\ \A k \in 1..n : 1 + k - 1 = k
      BY <1>1
    <3>4. QED
      BY <3>2, <3>3
  <2>4. QED
    BY <2>1, <2>2, <2>3
<1>4. tail = head <=> \A k \in 1..n : tail[k] = head[k]
  <2>1. DOMAIN tail = 1..n /\ DOMAIN head = 1..n
    BY <1>3
  <2>2. tail = [k \in 1..n |-> tail[k]] /\ head = [k \in 1..n |-> head[k]]
    BY <1>3, <2>1
  <2>3. QED
    BY <2>2
<1>5. QED
  BY <1>1, <1>2, <1>3, <1>4 DEF Overlaps, OverlapsAt

LEMMA OverlapIs ==
    ASSUME NEW S, NEW base \in Seq(S), NEW G \in Seq(S), NEW o,
           o = TrailingGeneratedOverlap(base, G)
    PROVE  /\ o \in 0..Len(G) /\ o <= Len(base)
           /\ o # 0 => Overlaps(base, G, o)
           /\ \A n \in 1..Len(G) : n <= Len(base) /\ Overlaps(base, G, n) => n <= o
<1>1. PICK l \in Nat, m \in Nat : l = Len(base) /\ m = Len(G)
  OBVIOUS
<1>2. PICK least : least = Min({l, m})
  OBVIOUS
<1>3. least \in {l, m} /\ \A y \in {l, m} : least <= y
  <2>1. \E x \in {l, m} : \A y \in {l, m} : x <= y
    <3>1. {l, m} \subseteq Nat /\ {l, m} # {}
      OBVIOUS
    <3>2. QED
      BY <3>1, NatMin, Zenon
  <2>2. QED
    BY <1>2, <2>1 DEF Min
<1>4. \A n : n \in 1..least <=> n \in 1..m /\ n <= l
  BY <1>3
<1>5. PICK overlaps : overlaps = {n \in 1..least : Overlaps(base, G, n)} \cup {0}
  OBVIOUS
<1>6. overlaps \subseteq 0..m /\ overlaps # {}
  BY <1>4, <1>5
<1>7. Max(overlaps) \in overlaps /\ \A y \in overlaps : y <= Max(overlaps)
  BY <1>6, NatMax
<1>8. o = Max(overlaps)
  BY <1>1, <1>2, <1>5 DEF TrailingGeneratedOverlap
<1>9. QED
  BY <1>1, <1>4, <1>5, <1>6, <1>7, <1>8

(* What a run generated, as input items.                                   *)
Replayed(kinds, ids) ==
    [kind : kinds \cup {"reasoning"}, id : ids, completed : BOOLEAN, text : {"whole", "short"}]
LEMMA InputItemsAre ==
    ASSUME NEW kinds, NEW ids, NEW generated \in Seq(Replayed(kinds, ids)), NEW policy,
           \A i \in DOMAIN generated : IsKeyed(generated[i]) => Once(generated, generated[i])
    PROVE  /\ InputItems(generated, policy) \in Seq(Replayed(kinds, ids))
           /\ \A j \in DOMAIN InputItems(generated, policy) :
                  IsKeyed(InputItems(generated, policy)[j]) =>
                      /\ InputItems(generated, policy)[j] \in ToSet(generated)
                      /\ \A l \in DOMAIN InputItems(generated, policy) :
                             InputItems(generated, policy)[l] = InputItems(generated, policy)[j]
                                 => l = j
<1> DEFINE R == Replayed(kinds, ids)
<1>1. PICK I : I = {i \in DOMAIN generated : ~(policy = "omit" /\ generated[i].kind = "reasoning")}
  OBVIOUS
<1>2. I \in SUBSET DOMAIN generated
  BY <1>1
<1>3. PICK kept : kept = Picked(generated, I)
  OBVIOUS
<1>4. PICK p, n : Enumerates(p, n, I) /\ n = Len(kept) /\ kept = [k \in 1..n |-> generated[p[k]]]
  BY <1>2, <1>3, PickedBy
<1>5. /\ kept \in Seq(R) /\ n \in Nat /\ DOMAIN kept = 1..n
      /\ \A k \in 1..n : p[k] \in DOMAIN generated /\ kept[k] = generated[p[k]] /\ kept[k] \in R
  <2>1. kept \in Seq(R)
    BY <1>2, <1>3, PickedAre
  <2>2. n \in Nat /\ p \in [1..n -> I]
    BY <1>4 DEF Enumerates
  <2>3. DOMAIN kept = 1..n /\ \A k \in 1..n : kept[k] = generated[p[k]] /\ p[k] \in I
    BY <1>4, <2>2
  <2>4. \A k \in 1..n : p[k] \in DOMAIN generated
    BY <1>2, <2>3
  <2> HIDE DEF R
  <2>5. \A k \in 1..n : kept[k] \in R
    <3>1. \A k \in DOMAIN kept : kept[k] \in R
      BY <2>1
    <3>2. QED
      BY <2>3, <3>1
  <2>6. QED
    BY <2>1, <2>2, <2>3, <2>4, <2>5
<1>6. \A x \in R : InputItem(x) \in R /\ (IsKeyed(InputItem(x)) => InputItem(x) = x)
  BY DEF Replayed, InputItem, IsKeyed
<1>7. PICK G : G = InputItems(generated, policy)
  OBVIOUS
<1>8. G = [i \in DOMAIN kept |-> InputItem(kept[i])]
  BY <1>1, <1>3, <1>7 DEF InputItems
<1>9. /\ DOMAIN G = 1..n /\ \A k \in 1..n : G[k] = InputItem(kept[k]) /\ G[k] \in R
      /\ G \in Seq(R)
  BY <1>5, <1>6, <1>8
<1>10. \A j \in 1..n : IsKeyed(G[j]) => G[j] = generated[p[j]]
  BY <1>5, <1>6, <1>9
<1>11. ASSUME NEW j \in 1..n, IsKeyed(G[j]), NEW l \in 1..n, G[l] = G[j]
       PROVE  l = j
  <2>1. generated[p[j]] = G[j] /\ generated[p[l]] = G[j]
    BY <1>10, <1>11
  <2>2. Once(generated, G[j])
    BY <1>5, <1>11, <2>1
  <2>3. p[j] = p[l]
    <3>1. PICK k \in DOMAIN generated :
              \A i \in DOMAIN generated : generated[i] = G[j] => i = k
      BY <2>2, OnceIs
    <3>2. QED
      BY <1>5, <2>1, <3>1
  <2>4. QED
    <3>1. I \subseteq Nat
      BY <1>2
    <3>2. IsFiniteSet(I) /\ Cardinality(I) = n
          /\ \A a, b \in 1..n : p[a] = p[b] => a = b
      <4>1. Enumerates(p, n, I)
        BY <1>4
      <4>2. QED
        BY <3>1, <4>1, EnumerationCounts, Zenon
    <3>3. QED
      BY <2>3, <3>2
<1>12. \A j \in 1..n : IsKeyed(G[j]) => G[j] \in ToSet(generated)
  BY <1>5, <1>10 DEF ToSet
<1>13. QED
  BY <1>7, <1>9, <1>11, <1>12

OnlyGenerated(input, G) ==
    \A j \in 1..Len(G) : IsKeyed(G[j]) =>
        G[j] \notin ToSet(input) /\ \A l \in 1..Len(G) : G[l] = G[j] => l = j
SeenIn(base, G, a, sent, o) ==
    \A j \in 1..Len(G) : IsKeyed(G[j]) =>
        /\ j <= sent <=> j <= o
        /\ \A i \in 1..Len(base) : base[i] = G[j] <=> i = a + j /\ j <= sent

(* What the model saw and what was generated overlap in the keyed items    *)
(* that it saw.                                                            *)
LEMMA SeenOverlaps ==
    ASSUME NEW S, NEW input \in Seq(S), NEW G \in Seq(S), NEW sent \in 0..Len(G),
           OnlyGenerated(input, G),
           NEW base, base = input \o SubSeq(G, 1, sent),
           NEW o, o = TrailingGeneratedOverlap(base, G)
    PROVE  SeenIn(base, G, Len(input), sent, o)
<1>1. PICK a \in Nat, m \in Nat : a = Len(input) /\ m = Len(G) /\ DOMAIN input = 1..a
  OBVIOUS
<1>2. sent \in Nat /\ sent <= m
  BY <1>1
<1>3. PICK head : head = SubSeq(G, 1, sent)
  OBVIOUS
<1>4. head \in Seq(S) /\ Len(head) = sent /\ \A k \in 1..sent : head[k] = G[k]
  BY <1>1, <1>2, <1>3, SubSeqProperties
<1>5. /\ base \in Seq(S) /\ Len(base) = a + sent
      /\ \A i \in 1..a : base[i] = input[i]
      /\ \A k \in 1..sent : base[a + k] = G[k]
  <2>1. /\ base \in Seq(S) /\ Len(base) = a + sent
        /\ \A i \in 1..a + sent : base[i] = IF i <= a THEN input[i] ELSE head[i - a]
    BY <1>1, <1>3, <1>4, ConcatProperties
  <2>2. \A k \in 1..sent : a + k \in 1..a + sent /\ ~(a + k <= a) /\ (a + k) - a = k
    BY <1>1, <1>2
  <2>3. \A i \in 1..a : i \in 1..a + sent /\ i <= a
    BY <1>1, <1>2
  <2>4. QED
    BY <2>1, <2>2, <2>3, <1>4
<1>6. /\ o \in 0..m /\ o <= a + sent
      /\ o # 0 => Overlaps(base, G, o)
      /\ \A n \in 1..m : n <= a + sent /\ Overlaps(base, G, n) => n <= o
  <2>1. base \in Seq(S)
    BY <1>5
  <2>2. /\ o \in 0..Len(G) /\ o <= Len(base)
        /\ o # 0 => Overlaps(base, G, o)
        /\ \A n \in 1..Len(G) : n <= Len(base) /\ Overlaps(base, G, n) => n <= o
    BY <2>1, OverlapIs, Zenon
  <2>3. QED
    BY <1>1, <1>5, <2>2
<1>7. ASSUME NEW j \in 1..m, IsKeyed(G[j]), NEW i \in 1..Len(base)
      PROVE  base[i] = G[j] <=> i = a + j /\ j <= sent
  <2>1. ASSUME base[i] = G[j] PROVE i = a + j /\ j <= sent
    <3>1. i \notin 1..a
      <4>1. i \in 1..a => base[i] \in ToSet(input)
        BY <1>1, <1>5 DEF ToSet
      <4>2. QED
        BY <1>1, <1>7, <2>1, <4>1 DEF OnlyGenerated
    <3>2. PICK k \in 1..sent : i = a + k
      <4>1. i - a \in 1..sent /\ i = a + (i - a)
        BY <1>1, <1>2, <1>5, <3>1
      <4>2. QED
        BY <4>1
    <3>3. G[k] = G[j] /\ k \in 1..m
      BY <1>2, <1>5, <2>1, <3>2
    <3>4. k = j
      BY <1>1, <1>7, <3>3 DEF OnlyGenerated
    <3>5. QED
      BY <1>2, <3>2, <3>4
  <2>2. ASSUME i = a + j, j <= sent PROVE base[i] = G[j]
    BY <1>2, <1>5, <2>2
  <2>3. QED
    BY <2>1, <2>2
<1>8. ASSUME NEW j \in 1..m, IsKeyed(G[j]), j <= sent PROVE j <= o
  <2>1. sent \in 1..m
    BY <1>2, <1>8
  <2>2. \A k \in 1..sent : base[(a + sent) - sent + k] = G[k]
    <3>1. (a + sent) - sent = a
      BY <1>1, <1>2
    <3>2. QED
      BY <1>5, <3>1
  <2>3. \E i \in 1..sent : IsKeyed(G[i])
    BY <1>2, <1>8
  <2>4. sent <= a + sent
    BY <1>1, <1>2
  <2>5. Overlaps(base, G, sent)
    <3>1. base \in Seq(S) /\ sent \in 1..Len(G) /\ sent <= Len(base)
      BY <1>1, <1>5, <2>1, <2>4
    <3>2. Overlaps(base, G, sent) <=> OverlapsAt(base, G, sent)
      BY <3>1, OverlapsAre, Zenon
    <3>3. QED
      BY <1>5, <2>2, <2>3, <3>2 DEF OverlapsAt
  <2>6. sent <= o
    BY <1>6, <2>1, <2>4, <2>5
  <2>7. QED
    BY <1>2, <1>6, <1>8, <2>6
<1>9. ASSUME NEW j \in 1..m, IsKeyed(G[j]), j <= o PROVE j <= sent
  <2>1. o \in 1..m /\ j \in 1..o
    BY <1>6, <1>9
  <2>2. Overlaps(base, G, o)
    BY <1>6, <2>1
  <2>3. \A k \in 1..o : base[Len(base) - o + k] = G[k]
    <3>1. base \in Seq(S) /\ o \in 1..Len(G) /\ o <= Len(base)
      BY <1>1, <1>5, <1>6, <2>1
    <3>2. Overlaps(base, G, o) <=> OverlapsAt(base, G, o)
      BY <3>1, OverlapsAre, Zenon
    <3>3. QED
      BY <2>2, <3>2 DEF OverlapsAt
  <2>4. (a + sent) - o + j \in 1..Len(base)
    BY <1>1, <1>2, <1>5, <1>6, <2>1
  <2>5. base[(a + sent) - o + j] = G[j]
    BY <1>5, <2>1, <2>3
  <2>6. QED
    BY <1>7, <1>9, <2>4, <2>5
<1>10. QED
  BY <1>1, <1>7, <1>8, <1>9 DEF SeenIn

(* What occurs once in what the model saw up to the overlap, or once       *)
(* behind it, is replayed once.                                            *)
Replaying(R, base, I, kept, G, m, o, tail, j, replay) ==
    /\ base \in Seq(R) /\ I \in SUBSET DOMAIN base /\ kept = Picked(base, I)
    /\ m \in Nat /\ o \in 0..m /\ tail \in Seq(R) /\ Len(tail) = m - o
    /\ \A k \in 1..m - o : tail[k] = G[o + k]
    /\ j \in 1..m /\ \A l \in 1..m : G[l] = G[j] => l = j
    /\ \A i \in 1..Len(base) : base[i] = G[j] => j <= o
    /\ \A i, k \in 1..Len(base) : base[i] = G[j] /\ base[k] = G[j] => i = k
    /\ replay = kept \o tail /\ G[j] \in ToSet(replay)
LEMMA ReplayedOnce ==
    ASSUME NEW R, NEW base, NEW I, NEW kept, NEW G, NEW m, NEW o, NEW tail, NEW j, NEW replay,
           Replaying(R, base, I, kept, G, m, o, tail, j, replay)
    PROVE  Once(replay, G[j])
<1>1. /\ base \in Seq(R) /\ I \in SUBSET DOMAIN base /\ I \subseteq 1..Len(base)
      /\ m \in Nat /\ o \in 0..m /\ j \in 1..m
      /\ kept = Picked(base, I) /\ tail \in Seq(R) /\ Len(tail) = m - o
      /\ replay = kept \o tail
      /\ kept \in Seq(R) /\ ToSet(kept) = {base[i] : i \in I}
  <2>1. /\ base \in Seq(R) /\ I \in SUBSET DOMAIN base
        /\ m \in Nat /\ o \in 0..m /\ j \in 1..m
        /\ kept = Picked(base, I) /\ tail \in Seq(R) /\ Len(tail) = m - o
        /\ replay = kept \o tail
    BY DEF Replaying
  <2>2. QED
    BY <2>1, PickedAre, PickedCounts
<1>2. \A k \in 1..m - o : tail[k] = G[o + k]
  BY DEF Replaying
<1>3. \A l \in 1..m : G[l] = G[j] => l = j
  BY DEF Replaying
<1>4. /\ \A i \in 1..Len(base) : base[i] = G[j] => j <= o
      /\ \A i, k \in 1..Len(base) : base[i] = G[j] /\ base[k] = G[j] => i = k
  BY DEF Replaying
<1>5. G[j] \in ToSet(replay)
  BY DEF Replaying
<1>6. PICK h \in Nat : h = Len(kept) /\ DOMAIN kept = 1..h
  BY <1>1, <1>2
<1>7. /\ replay \in Seq(R) /\ Len(replay) = h + (m - o)
      /\ \A k \in 1..h + (m - o) : replay[k] = IF k <= h THEN kept[k] ELSE tail[k - h]
  <2>1. kept \in Seq(R) /\ tail \in Seq(R) /\ Len(kept) = h /\ Len(tail) = m - o
    BY <1>1, <1>2, <1>6
  <2>2. PICK d \in Nat : d = m - o
    BY <1>1
  <2>3. /\ kept \o tail \in Seq(R) /\ Len(kept \o tail) = h + d
        /\ \A k \in 1..h + d :
               (kept \o tail)[k] = IF k <= h THEN kept[k] ELSE tail[k - h]
    <3>1. kept \in Seq(R) /\ tail \in Seq(R) /\ Len(kept) = h /\ Len(tail) = d
      BY <2>1, <2>2
    <3>2. QED
      BY <3>1, ConcatProperties
  <2>4. QED
    BY <1>1, <2>2, <2>3
<1>8. m - o \in Nat /\ DOMAIN replay = 1..h + (m - o)
  BY <1>1, <1>7
<1>9. ASSUME NEW k \in 1..h, kept[k] = G[j] PROVE j <= o
  <2>1. G[j] \in ToSet(kept)
    BY <1>6, <1>9 DEF ToSet
  <2>2. PICK i \in I : base[i] = G[j]
    BY <1>1, <1>2, <2>1
  <2>3. i \in 1..Len(base)
    BY <1>1, <2>2
  <2>4. QED
    BY <1>4, <2>2, <2>3
<1>10. ASSUME NEW k \in 1..m - o, tail[k] = G[j] PROVE k = j - o /\ j > o
  <2>1. G[o + k] = G[j] /\ o + k \in 1..m
    BY <1>1, <1>2, <1>10
  <2>2. o + k = j
    BY <1>3, <2>1
  <2>3. QED
    BY <1>1, <2>2
<1>11. ASSUME NEW k \in 1..h, NEW l \in 1..h, kept[k] = G[j], kept[l] = G[j] PROVE k = l
  <2>1. PICK p, n : Enumerates(p, n, I) /\ n = Len(kept) /\ kept = [z \in 1..n |-> base[p[z]]]
    <3>1. base \in Seq(R)
      BY <1>1
    <3>2. \E p, n : /\ Enumerates(p, n, I) /\ n = Len(Picked(base, I))
                    /\ Picked(base, I) = [z \in 1..n |-> base[p[z]]]
      <4>1. I \in SUBSET DOMAIN base
        BY <1>1
      <4>2. QED
        BY <3>1, <4>1, PickedBy, Zenon
    <3>3. QED
      BY <3>2, <1>1
  <2>2. p[k] \in I /\ p[l] \in I /\ base[p[k]] = G[j] /\ base[p[l]] = G[j]
    BY <1>6, <1>11, <2>1 DEF Enumerates
  <2>3. p[k] \in 1..Len(base) /\ p[l] \in 1..Len(base)
    BY <1>1, <2>2
  <2>4. p[k] = p[l]
    BY <1>4, <2>2, <2>3
  <2>5. IsFiniteSet(I) /\ Cardinality(I) = n /\ \A y, z \in 1..n : p[y] = p[z] => y = z
    <3>1. I \subseteq Nat
      BY <1>1
    <3>2. Enumerates(p, n, I)
      BY <2>1
    <3>3. QED
      BY <3>1, <3>2, EnumerationCounts, Zenon
  <2>6. QED
    BY <1>6, <2>1, <2>4, <2>5
<1>12. \E k \in DOMAIN replay : replay[k] = G[j]
  BY <1>5 DEF ToSet
<1>13. ASSUME NEW k \in DOMAIN replay, NEW l \in DOMAIN replay,
             replay[k] = G[j], replay[l] = G[j]
      PROVE  l = k
  <2>1. \A z \in DOMAIN replay : \/ z \in 1..h /\ replay[z] = kept[z]
                                 \/ /\ z - h \in 1..m - o /\ replay[z] = tail[z - h]
                                    /\ z \in Int
    BY <1>7, <1>8
  <2>2. CASE j <= o
    <3>1. \A z \in 1..m - o : tail[z] # G[j]
      BY <1>1, <1>10, <2>2
    <3>2. k \in 1..h /\ l \in 1..h /\ kept[k] = G[j] /\ kept[l] = G[j]
      BY <1>13, <2>1, <3>1
    <3>3. QED
      BY <1>11, <3>2
  <2>3. CASE ~(j <= o)
    <3>1. \A z \in 1..h : kept[z] # G[j]
      BY <1>9, <2>3
    <3>2. k - h = j - o /\ l - h = j - o /\ k \in Int /\ l \in Int
      BY <1>10, <1>13, <2>1, <3>1
    <3>3. QED
      BY <1>1, <1>6, <3>2
  <2>4. QED
    BY <2>2, <2>3
<1>14. PICK n \in Nat : n = h + (m - o)
  BY <1>8
<1>15. QED
  BY <1>8, <1>12, <1>13, <1>14, OnceIs

(* A replay has everything that the run generated, but for hosted halves,  *)
(* whatever a filter of the model's input delivered instead of it; each    *)
(* identified item once, if what the filter delivered ends as it was       *)
(* generated; and no hosted output of an earlier run without its call: for *)
(* inputs, filters and runs of any length.  A run generates an identified  *)
(* item once, and none of its input.                                       *)
THEOREM EveryReplayIsWhole ==
    ASSUME NEW kinds, NEW ids, NEW input \in Seq(Replayed(kinds, ids)),
           NEW generated \in Seq(Replayed(kinds, ids)),
           \A i \in DOMAIN generated : IsKeyed(generated[i]) =>
               Once(generated, generated[i]) /\ generated[i] \notin ToSet(input),
           NEW policy, NEW mode \in {"preserve_all", "normalized"},
           NEW looked, NEW delivered \in Seq(Replayed(kinds, ids))
    PROVE  ReplayIsWhole(Result(input, generated, policy, looked, delivered), mode,
               ToInputListMode(Result(input, generated, policy, looked, delivered), mode))
<1>0. PICK R : R = Replayed(kinds, ids)
  OBVIOUS
<1>1. PICK result : result = Result(input, generated, policy, looked, delivered)
  OBVIOUS
<1>2. PICK G : G = InputItems(generated, policy)
  OBVIOUS
<1>3. PICK m \in Nat : m = Len(G)
  BY <1>2, InputItemsAre
<1>4. G \in Seq(R) /\ DOMAIN G = 1..m
  BY <1>0, <1>2, <1>3, InputItemsAre
<1>5. \A j \in 1..m : IsKeyed(G[j]) =>
          G[j] \notin ToSet(input) /\ \A l \in 1..m : G[l] = G[j] => l = j
  <2>1. \A j \in DOMAIN G : IsKeyed(G[j]) =>
            /\ G[j] \in ToSet(generated)
            /\ \A l \in DOMAIN G : G[l] = G[j] => l = j
    BY <1>2, InputItemsAre
  <2>2. \A x \in ToSet(generated) : IsKeyed(x) => x \notin ToSet(input)
    BY DEF ToSet
  <2>3. QED
    BY <1>4, <2>1, <2>2
<1>6. PICK base : base = BaseItems(result, mode)
  OBVIOUS
<1>7. base \in Seq(R) /\ (~IsFiltered(result, mode) => base = input)
  BY <1>0, <1>1, <1>6 DEF BaseItems, Result
<1>8. PICK o : o = TrailingGeneratedOverlap(base, G)
  OBVIOUS
<1>9. o \in 0..m /\ o <= Len(base) /\ (o # 0 => Overlaps(base, G, o))
  BY <1>3, <1>4, <1>7, <1>8, OverlapIs
<1>11. result.newItems = generated /\ result.policy = policy
  BY <1>1 DEF Result
<1>15. PICK kept, tail : /\ kept = SanitizeHostedToolReplayItems(base)
                         /\ tail = SubSeq(G, o + 1, Len(G))
  OBVIOUS
<1>16. PICK replay : replay = ToInputListMode(result, mode)
  OBVIOUS
<1>17. replay = kept \o tail
  BY <1>2, <1>6, <1>8, <1>11, <1>15, <1>16 DEF ToInputListMode, ComposeReplayInputItems
<1>18. PICK I : I = {i \in DOMAIN base : IsKept(base, i)}
  OBVIOUS
<1>19. kept = Picked(base, I) /\ I \in SUBSET DOMAIN base
  BY <1>15, <1>18 DEF SanitizeHostedToolReplayItems
<1>20. /\ kept \in Seq(R) /\ ToSet(kept) = {base[i] : i \in I}
       /\ tail \in Seq(R) /\ Len(tail) = m - o /\ \A k \in 1..m - o : tail[k] = G[o + k]
  <2>1. kept \in Seq(R) /\ ToSet(kept) = {base[i] : i \in I}
    BY <1>7, <1>19, PickedAre, PickedCounts
  <2>2. /\ tail \in Seq(R) /\ Len(tail) = m - o
        /\ \A k \in 1..m - o : tail[k] = G[(o + 1) + k - 1]
    BY <1>3, <1>4, <1>9, <1>15, SubSeqProperties
  <2>3. \A k \in 1..m - o : (o + 1) + k - 1 = o + k
    BY <1>3, <1>9
  <2>4. QED
    BY <2>1, <2>2, <2>3
<1>21. ToSet(replay) = ToSet(kept) \cup ToSet(tail)
  BY <1>17, <1>20, ConcatHolds
<1>22. PICK halves : halves = {base[i] : i \in {j \in DOMAIN base : ~IsKept(base, j)}}
  OBVIOUS
<1>23. \A i \in DOMAIN base : base[i] \notin halves => i \in I
  BY <1>18, <1>22
<1>24. \A j \in 1..m : j > o => j - o \in 1..m - o /\ tail[j - o] = G[j]
  <2>1. SUFFICES ASSUME NEW j \in 1..m, j > o PROVE j - o \in 1..m - o /\ tail[j - o] = G[j]
    OBVIOUS
  <2>2. j - o \in 1..m - o /\ o + (j - o) = j
    BY <1>3, <1>9, <2>1
  <2>3. QED
    BY <1>20, <2>2
<1>25. ASSUME NEW j \in 1..m, G[j] \notin halves PROVE G[j] \in ToSet(replay)
  <2>1. CASE j > o
    <3>1. tail[j - o] \in ToSet(tail)
      BY <1>20, <1>24, <2>1, HoldsAt
    <3>2. QED
      BY <1>21, <1>24, <2>1, <3>1
  <2>2. CASE j <= o
    <3>1. o \in 1..m /\ j \in 1..o
      BY <1>9, <2>2
    <3>2. base[Len(base) - o + j] = G[j]
      <4>1. OverlapsAt(base, G, o)
        <5>1. o \in 1..Len(G) /\ Overlaps(base, G, o)
          BY <1>3, <1>9, <3>1
        <5>2. QED
          BY <1>4, <1>7, <1>9, <3>1, <5>1, OverlapsAre, Zenon
      <4>2. QED
        BY <3>1, <4>1 DEF OverlapsAt
    <3>3. Len(base) - o + j \in DOMAIN base
      <4>1. PICK l \in Nat : l = Len(base) /\ DOMAIN base = 1..l
        BY <1>7
      <4>2. QED
        BY <1>9, <3>1, <4>1
    <3>4. Len(base) - o + j \in I
      BY <1>23, <1>25, <3>2, <3>3
    <3>5. G[j] \in ToSet(kept)
      BY <1>20, <3>2, <3>4
    <3>6. QED
      BY <1>21, <3>5
  <2>3. QED
    BY <1>9, <2>1, <2>2
<1>10. ASSUME IsFiltered(result, mode) => LeftAsGenerated(base, G)
       PROVE  \A j \in 1..m : IsKeyed(G[j]) =>
                  /\ \A i \in 1..Len(base) : base[i] = G[j] => j <= o
                  /\ \A i, k \in 1..Len(base) : base[i] = G[j] /\ base[k] = G[j] => i = k
  <2>1. PICK n \in 0..m : /\ n <= Len(base)
                          /\ \A k \in 1..n : base[Len(base) - n + k] = G[k]
                          /\ \A i \in 1..Len(base) - n :
                                 IsKeyed(base[i]) => base[i] \notin ToSet(G)
    <3>1. CASE IsFiltered(result, mode)
      BY <1>3, <1>10, <3>1 DEF LeftAsGenerated
    <3>2. CASE ~IsFiltered(result, mode)
      <4>1. \A i \in 1..Len(base) : IsKeyed(base[i]) => base[i] \notin ToSet(G)
        <5>1. SUFFICES ASSUME NEW i \in 1..Len(base), IsKeyed(base[i]), base[i] \in ToSet(G)
                       PROVE  FALSE
          OBVIOUS
        <5>2. PICK j \in 1..m : G[j] = base[i]
          BY <1>4, <5>1 DEF ToSet
        <5>3. base[i] \in ToSet(input)
          BY <1>7, <3>2, HoldsAt
        <5>4. QED
          BY <1>5, <5>1, <5>2, <5>3
      <4>2. 0 \in 0..m /\ 0 <= Len(base) /\ Len(base) - 0 = Len(base) /\ \A k \in 1..0 : FALSE
        BY <1>3, <1>7
      <4>3. QED
        BY <4>1, <4>2
    <3>3. QED
      BY <3>1, <3>2
  <2>2. PICK a \in Nat : a = Len(base) - n
    <3>1. PICK l \in Nat : l = Len(base)
      BY <1>7
    <3>2. n \in Nat /\ n <= l /\ l - n \in Nat
      BY <1>3, <2>1, <3>1
    <3>3. QED
      BY <3>1, <3>2
  <2>3. PICK front, head : front = SubSeq(base, 1, a) /\ head = SubSeq(G, 1, n)
    OBVIOUS
  <2>4. /\ front \in Seq(R) /\ Len(front) = a /\ \A i \in 1..a : front[i] = base[i]
        /\ head \in Seq(R) /\ Len(head) = n /\ \A i \in 1..n : head[i] = G[i]
    <3>1. a <= Len(base) /\ n <= Len(G) /\ n \in Nat
      BY <1>3, <1>7, <2>1, <2>2
    <3>2. \A s \in Seq(R), l \in Nat : l <= Len(s) =>
              /\ SubSeq(s, 1, l) \in Seq(R) /\ Len(SubSeq(s, 1, l)) = l
              /\ \A i \in 1..l : SubSeq(s, 1, l)[i] = s[i]
      BY SubSeqProperties
    <3>3. QED
      BY <1>4, <1>7, <2>2, <2>3, <3>1, <3>2
  <2>5. base = front \o head
    <3>1. /\ front \o head \in Seq(R) /\ Len(front \o head) = a + n
          /\ \A i \in 1..a + n :
                 (front \o head)[i] = IF i <= a THEN front[i] ELSE head[i - a]
      BY <2>4, ConcatProperties
    <3>2. Len(base) = a + n /\ n \in Nat
      BY <1>7, <2>1, <2>2
    <3>3. \A i \in 1..a + n : (front \o head)[i] = base[i]
      <4>1. SUFFICES ASSUME NEW i \in 1..a + n PROVE (front \o head)[i] = base[i]
        OBVIOUS
      <4>2. CASE i <= a
        BY <2>4, <3>1, <4>1, <4>2
      <4>3. CASE ~(i <= a)
        <5>1. i - a \in 1..n /\ a + (i - a) = i /\ Len(base) - n = a
          BY <2>2, <3>2, <4>1, <4>3
        <5>2. base[i] = G[i - a]
          BY <2>1, <5>1
        <5>3. QED
          BY <2>4, <3>1, <4>1, <4>3, <5>1, <5>2
      <4>4. QED
        BY <4>2, <4>3
    <3>4. QED
      BY <1>7, <3>1, <3>2, <3>3, SeqEqual
  <2>6. OnlyGenerated(front, G)
    <3>1. SUFFICES ASSUME NEW j \in 1..m, IsKeyed(G[j]), G[j] \in ToSet(front) PROVE FALSE
      BY <1>3, <1>5 DEF OnlyGenerated
    <3>2. PICK i \in 1..a : front[i] = G[j]
      BY <2>4, <3>1 DEF ToSet
    <3>3. base[i] = G[j] /\ i \in 1..Len(base) - n
      BY <2>2, <2>4, <3>2
    <3>4. G[j] \in ToSet(G)
      BY <1>4 DEF ToSet
    <3>5. QED
      BY <2>1, <3>1, <3>3, <3>4
  <2>7. SeenIn(base, G, a, n, o)
    <3>1. n \in 0..Len(G)
      BY <1>3
    <3>2. base = front \o SubSeq(G, 1, n)
      BY <2>3, <2>5
    <3>3. QED
      BY <1>4, <1>8, <2>4, <2>6, <3>1, <3>2, SeenOverlaps, Zenon
  <2>8. QED
    BY <1>3, <2>7 DEF SeenIn
<1>26. ASSUME NEW j \in 1..m, IsKeyed(G[j]), G[j] \notin halves,
              IsFiltered(result, mode) => LeftAsGenerated(base, G)
       PROVE  Once(replay, G[j])
  <2>1. /\ \A i \in 1..Len(base) : base[i] = G[j] => j <= o
        /\ \A i, k \in 1..Len(base) : base[i] = G[j] /\ base[k] = G[j] => i = k
    BY <1>10, <1>26
  <2>2. \A l \in 1..m : G[l] = G[j] => l = j
    BY <1>5, <1>26
  <2>3. G[j] \in ToSet(replay)
    BY <1>25, <1>26
  <2>4. /\ base \in Seq(R) /\ I \in SUBSET DOMAIN base /\ kept = Picked(base, I)
        /\ o \in 0..m /\ tail \in Seq(R) /\ Len(tail) = m - o
        /\ \A k \in 1..m - o : tail[k] = G[o + k]
    BY <1>7, <1>9, <1>19, <1>20, Zenon
  <2>5. QED
    <3>1. Replaying(R, base, I, kept, G, m, o, tail, j, replay)
      BY <1>3, <1>17, <1>26, <2>1, <2>2, <2>3, <2>4, Zenon DEF Replaying
    <3>2. QED
      BY <3>1, ReplayedOnce, Zenon
<1>27. /\ \A item \in ToSet(G) \ halves : item \in ToSet(replay)
       /\ (IsFiltered(result, mode) => LeftAsGenerated(base, G)) =>
              \A item \in ToSet(G) \ halves : IsKeyed(item) => Once(replay, item)
  <2>1. \A item \in ToSet(G) : \E j \in 1..m : item = G[j]
    BY <1>4 DEF ToSet
  <2>2. QED
    BY <1>25, <1>26, <2>1
<1>28. ASSUME NEW item \in ToSet(replay) \ ToSet(G), item.kind \in HostedOutputs
       PROVE  Has(replay, CallOf(item.kind), item.id)
  <2>1. item \notin ToSet(tail)
    <3>1. \A k \in 1..m - o : tail[k] \in ToSet(G)
      <4>1. \A k \in 1..m - o : o + k \in DOMAIN G
        BY <1>4, <1>9
      <4>2. QED
        BY <1>20, <4>1 DEF ToSet
    <3>2. QED
      BY <1>20, <1>28, <3>1, HoldsAt
  <2>2. PICK i \in I : base[i] = item
    BY <1>20, <1>21, <1>28, <2>1
  <2>3. Has(kept, CallOf(item.kind), item.id)
    BY <1>7, <1>15, <1>18, <1>28, <2>2, CallsAreKept
  <2>4. PICK k \in DOMAIN kept : kept[k].kind = CallOf(item.kind) /\ kept[k].id = item.id
    BY <2>3 DEF Has
  <2>5. kept[k] \in ToSet(replay)
    BY <1>21 DEF ToSet
  <2>6. QED
    BY <2>4, <2>5 DEF Has, ToSet
<1>29. ReplayIsWhole(result, mode, replay)
  BY <1>2, <1>6, <1>11, <1>22, <1>27, <1>28 DEF ReplayIsWhole
<1>30. QED
  BY <1>1, <1>16, <1>29

LEMMA ReplayStep == Replay => ReplayIsWhole(given'[1], given'[2], made')
<1> SUFFICES ASSUME Replay PROVE ReplayIsWhole(given'[1], given'[2], made')
  OBVIOUS
<1>a. PICK input \in SeqOf(OldItems, 2), generated \in Generated,
            policy \in {"preserve", "omit"}, mode \in {"preserve_all", "normalized"},
            sent \in 0..3, filter \in Filters :
        LET prepared == PrepareModelInputItems(input, generated, policy, sent)
            delivered == Delivered(filter, prepared, Len(input))
        IN /\ sent <= Len(InputItems(generated, policy))
           /\ given' = <<Result(input, generated, policy, sent, delivered), mode>>
           /\ made' = ToInputListMode(given'[1], mode)
  BY DEF Replay
<1>1. PICK prepared, delivered :
        /\ sent <= Len(InputItems(generated, policy))
        /\ prepared = PrepareModelInputItems(input, generated, policy, sent)
        /\ delivered = Delivered(filter, prepared, Len(input))
        /\ given' = <<Result(input, generated, policy, sent, delivered), mode>>
        /\ made' = ToInputListMode(given'[1], mode)
  BY <1>a
<1>2. PICK kinds, ids :
          /\ kinds = {"message", "reasoning", "reasoning_message", "tool_call", "tool_output",
                      "shell_call", "shell_call_output", "tool_search_call",
                      "tool_search_output"}
          /\ ids = {"", "old", "new", "__fake_id__"}
  OBVIOUS
<1>3. PICK R : R = Replayed(kinds, ids)
  OBVIOUS
<1>4. OldItems \subseteq R /\ NewItems \subseteq R
  <2>1. ASSUME NEW kind \in kinds, NEW id \in ids, NEW completed \in BOOLEAN
        PROVE  Item(kind, id, completed) \in R
    BY <1>3 DEF Item, Replayed
  <2>2. OldItems \subseteq R
    BY <1>2, <2>1 DEF OldItems
  <2>3. NewItems \subseteq R
    BY <1>2, <2>1 DEF NewItems
  <2>4. QED
    BY <2>2, <2>3
<1>5. \A x \in NewItems : IsKeyed(x) => x \notin OldItems
  <2> DEFINE Old(x) == x.id \in {"", "old"}
             New(x) == x.id \in {"", "__fake_id__", "new"}
  <2>0. \A kind, completed :
            /\ Old(Item(kind, "", completed)) /\ Old(Item(kind, "old", completed))
            /\ New(Item(kind, "", completed)) /\ New(Item(kind, "new", completed))
            /\ New(Item(kind, "__fake_id__", completed))
    BY DEF Item
  <2> HIDE DEF Old, New
  <2>1. \A x \in OldItems : Old(x)
    BY <2>0, Zenon DEF OldItems
  <2>2. \A x \in NewItems : New(x)
    BY <2>0, Zenon DEF NewItems
  <2>3. \A x : IsKeyed(x) => x.id # "" /\ x.id # "__fake_id__"
    BY DEF IsKeyed
  <2>4. QED
    BY <2>1, <2>2, <2>3 DEF Old, New
<1>6. /\ generated \in Seq(NewItems)
      /\ \A i \in DOMAIN generated : IsKeyed(generated[i]) => Once(generated, generated[i])
  BY SeqOfIs DEF Generated
<1>7. input \in Seq(OldItems)
  BY SeqOfIs
<1>8. input \in Seq(R) /\ generated \in Seq(R)
  <2>1. \A S, Q : \A s \in Seq(S) : S \subseteq Q => s \in Seq(Q)
    OBVIOUS
  <2>2. QED
    BY <1>4, <1>6, <1>7, <2>1
<1>9. \A i \in DOMAIN generated : IsKeyed(generated[i]) =>
          Once(generated, generated[i]) /\ generated[i] \notin ToSet(input)
  <2>1. ToSet(input) \subseteq OldItems
    BY <1>7, HoldsAt
  <2>2. \A i \in DOMAIN generated : generated[i] \in NewItems
    BY <1>6
  <2>3. QED
    BY <1>5, <1>6, <2>1, <2>2
<1>10. delivered \in Seq(R)
  <2>1. InputItems(generated, policy) \in Seq(R)
    BY <1>3, <1>6, <1>8, InputItemsAre
  <2>2. PICK looked : looked = SubSeq(InputItems(generated, policy), 1, sent) /\ looked \in Seq(R)
    <3>1. PICK g : g = InputItems(generated, policy)
      OBVIOUS
    <3>2. g \in Seq(R) /\ sent \in Nat /\ sent <= Len(g)
      BY <1>1, <2>1, <3>1
    <3>3. \A i \in 1..sent : g[i] \in R
      BY <3>2
    <3>4. SubSeq(g, 1, sent) \in Seq(R)
      BY <3>2, <3>3, SubSeqProperties
    <3>5. QED
      BY <3>1, <3>4
  <2>3. prepared \in Seq(R)
    BY <1>1, <1>8, <2>2 DEF PrepareModelInputItems
  <2>4. \A x \in R : Short(x) \in R
    BY <1>3 DEF Short, Replayed
  <2>5. PICK n \in Nat : n = Len(prepared) /\ DOMAIN prepared = 1..n
    BY <2>3
  <2>6. CASE filter = "none"
    BY <1>1, <2>3, <2>6 DEF Delivered
  <2>7. CASE filter = "old"
    <3>1. delivered = [i \in DOMAIN prepared |->
                          IF i <= Len(input) THEN Short(prepared[i]) ELSE prepared[i]]
      BY <1>1, <2>7 DEF Delivered
    <3>2. QED
      BY <2>3, <2>4, <2>5, <3>1
  <2>8. CASE filter = "all"
    <3>1. delivered = [i \in DOMAIN prepared |-> Short(prepared[i])]
      BY <1>1, <2>8 DEF Delivered
    <3>2. QED
      BY <2>3, <2>4, <2>5, <3>1
  <2>9. CASE filter = "recent"
    <3>1. PICK from \in Nat : from = Max({0, n - 2})
      <4>1. Max({0, n - 2}) = IF n - 2 <= 0 THEN 0 ELSE n - 2
        <5>1. PICK k \in Int : k = n - 2
          BY <2>5
        <5>2. CASE k <= 0
          BY <5>1, <5>2 DEF Max
        <5>3. CASE ~(k <= 0)
          BY <5>1, <5>3 DEF Max
        <5>4. QED
          BY <5>1, <5>2, <5>3
      <4>2. QED
        BY <2>5, <4>1
    <3>2. delivered = SubSeq(prepared, 1 + from, n)
      BY <1>1, <2>5, <2>9, <3>1 DEF Delivered
    <3>3. \A i \in 1 + from..n : prepared[i] \in R
      BY <2>3, <2>5
    <3>4. SubSeq(prepared, 1 + from, n) \in Seq(R)
      <4>1. PICK first \in Int, last \in Int : first = 1 + from /\ last = n
        <5>1. from \in Nat /\ n \in Nat
          BY <2>5, <3>1, Zenon
        <5>2. 1 + from \in Int /\ n \in Int
          BY <5>1
        <5>3. QED
          BY <5>2, Zenon
      <4>2. \A i \in first..last : prepared[i] \in R
        BY <3>3, <4>1
      <4>3. SubSeq(prepared, first, last) \in Seq(R)
        BY <4>2, SubSeqProperties
      <4>4. QED
        BY <4>1, <4>3
    <3>5. QED
      BY <3>2, <3>4
  <2>10. QED
    BY <2>6, <2>7, <2>8, <2>9 DEF Filters
<1>11. PICK result : result = Result(input, generated, policy, sent, delivered)
  OBVIOUS
<1>12. ReplayIsWhole(result, mode, ToInputListMode(result, mode))
  BY <1>1, <1>3, <1>8, <1>9, <1>10, <1>11, EveryReplayIsWhole
<1>13. given'[1] = result /\ given'[2] = mode /\ made' = ToInputListMode(result, mode)
  BY <1>1, <1>11
<1>14. QED
  BY <1>12, <1>13

-----------------------------------------------------------------------------
(* What is new to a session.                                               *)

SessionItems == [content : Contents, tag : Nat]
Matches(D, E) ==
    [refs : [old : [D -> Nat], new : [E -> Nat]],
     counts : [old : [Contents -> Nat], new : [Contents -> Nat]],
     saved : Seq(SessionItems)]
RefOf(m, side, item) == IF item \in DOMAIN m.refs[side] THEN m.refs[side][item] ELSE 0
CountOf(m, side, item) == m.counts[side][Key(item)]

(* How one item is matched: by itself first, then by its key.              *)
OtherSide(side) == IF side = "old" THEN "new" ELSE "old"
CountsDown(m, side, item, after) ==
    /\ CountOf(after, side, item) = Less(CountOf(m, side, item))
    /\ CountOf(after, OtherSide(side), item) = CountOf(m, OtherSide(side), item)
UsesUp(m, side, item, after) ==
    /\ CountsDown(m, side, item, after)
    /\ RefOf(after, side, item) = RefOf(m, side, item) - 1
    /\ RefOf(after, OtherSide(side), item) = RefOf(m, OtherSide(side), item)
Refers(m, item, after) ==
    \A side \in {"old", "new"} : RefOf(after, side, item) = RefOf(m, side, item)
CountsAs(m, item, after) ==
    \A side \in {"old", "new"} : CountOf(after, side, item) = CountOf(m, side, item)
Saves(m, item, after) == after.saved = Append(m.saved, Stripped(item))
Drops(m, after) == after.saved = m.saved
OthersStay(m, item, after) ==
    \A side \in {"old", "new"}, x \in SessionItems :
        /\ x # item => RefOf(after, side, x) = RefOf(m, side, x)
        /\ Key(x) # Key(item) => CountOf(after, side, x) = CountOf(m, side, x)
IsMatched(m, item, after) ==
    \/ RefOf(m, "new", item) > 0 /\ UsesUp(m, "new", item, after) /\ Saves(m, item, after)
    \/ /\ RefOf(m, "new", item) = 0 /\ RefOf(m, "old", item) > 0
       /\ UsesUp(m, "old", item, after) /\ Drops(m, after)
    \/ /\ RefOf(m, "new", item) = 0 /\ RefOf(m, "old", item) = 0 /\ Refers(m, item, after)
       /\ \/ /\ CountOf(m, "new", item) > 0 /\ (PrefersNew(item) \/ CountOf(m, "old", item) = 0)
             /\ CountsDown(m, "new", item, after) /\ Saves(m, item, after)
          \/ /\ CountOf(m, "old", item) > 0 /\ (~PrefersNew(item) \/ CountOf(m, "new", item) = 0)
             /\ CountsDown(m, "old", item, after) /\ Drops(m, after)
          \/ /\ CountOf(m, "old", item) = 0 /\ CountOf(m, "new", item) = 0
             /\ CountsAs(m, item, after) /\ Saves(m, item, after)

LEMMA CountedIs ==
    ASSUME NEW D, NEW E, NEW m \in Matches(D, E), NEW item \in SessionItems,
           NEW side \in {"old", "new"}, NEW after, after = Counted(m, side, item)
    PROVE  /\ after \in Matches(D, E) /\ after.saved = m.saved
           /\ CountsDown(m, side, item, after) /\ Refers(m, item, after)
           /\ OthersStay(m, item, after)
<1>1. \A n \in Nat : Less(n) \in Nat
  BY DEF Less
<1>2. Key(item) \in Contents
  BY DEF Key, SessionItems
<1>3. PICK c : c = [m.counts[side] EXCEPT ![Key(item)] = Less(@)]
  OBVIOUS
<1>4. m.counts[side] \in [Contents -> Nat] /\ m.counts[OtherSide(side)] \in [Contents -> Nat]
  BY DEF Matches, OtherSide
<1>5. /\ c \in [Contents -> Nat] /\ c[Key(item)] = Less(m.counts[side][Key(item)])
      /\ \A k \in Contents : k # Key(item) => c[k] = m.counts[side][k]
  BY <1>1, <1>2, <1>3, <1>4
<1>6. /\ after.refs = m.refs /\ after.saved = m.saved
      /\ after.counts = [m.counts EXCEPT ![side] = c]
      /\ after = [m EXCEPT !.counts = [m.counts EXCEPT ![side] = c]]
  BY <1>3 DEF Counted, Matches
<1>7. m.counts \in [old : [Contents -> Nat], new : [Contents -> Nat]]
  BY DEF Matches
<1>8. /\ after.counts[side] = c /\ after.counts[OtherSide(side)] = m.counts[OtherSide(side)]
      /\ after.counts \in [old : [Contents -> Nat], new : [Contents -> Nat]]
  BY <1>5, <1>6, <1>7 DEF OtherSide
<1>9. after \in Matches(D, E)
  BY <1>6, <1>8 DEF Matches
<1>10. CountsDown(m, side, item, after)
  BY <1>5, <1>8 DEF CountsDown, CountOf
<1>11. Refers(m, item, after)
  BY <1>6 DEF Refers, RefOf
<1>12. OthersStay(m, item, after)
  <2>1. \A x \in SessionItems : Key(x) \in Contents
    BY DEF Key, SessionItems
  <2>2. \A x \in SessionItems : Key(x) # Key(item) =>
            /\ CountOf(after, side, x) = CountOf(m, side, x)
            /\ CountOf(after, OtherSide(side), x) = CountOf(m, OtherSide(side), x)
    BY <1>5, <1>8, <2>1 DEF CountOf
  <2>3. \A s, x : RefOf(after, s, x) = RefOf(m, s, x)
    BY <1>6 DEF RefOf
  <2>4. \A s \in {"old", "new"} : s = side \/ s = OtherSide(side)
    BY DEF OtherSide
  <2>5. QED
    BY <2>2, <2>3, <2>4 DEF OthersStay
<1>13. QED
  BY <1>6, <1>9, <1>10, <1>11, <1>12

LEMMA ConsumedIs ==
    ASSUME NEW D, NEW E, NEW m \in Matches(D, E), NEW item \in SessionItems,
           NEW side \in {"old", "new"}, RefOf(m, side, item) > 0,
           NEW after, after = Consumed(m, side, item)
    PROVE  /\ after \in Matches(D, E) /\ after.saved = m.saved
           /\ UsesUp(m, side, item, after) /\ OthersStay(m, item, after)
<1>1. PICK c : c = Counted(m, side, item)
  OBVIOUS
<1>2. /\ c \in Matches(D, E) /\ c.saved = m.saved
      /\ CountsDown(m, side, item, c) /\ Refers(m, item, c) /\ OthersStay(m, item, c)
  BY <1>1, CountedIs
<1>3. item \in DOMAIN m.refs[side] /\ m.refs[side][item] > 0
  BY DEF RefOf
<1>4. PICK r : r = [m.refs[side] EXCEPT ![item] = @ - 1]
  OBVIOUS
<1>5. PICK F \in {D, E} : m.refs[side] \in [F -> Nat] /\ (side = "old" => F = D)
                          /\ (side = "new" => F = E)
  BY DEF Matches
<1>6. /\ r \in [F -> Nat] /\ r[item] = m.refs[side][item] - 1
      /\ \A x : x # item => (x \in DOMAIN r <=> x \in DOMAIN m.refs[side])
                            /\ (x \in DOMAIN r => r[x] = m.refs[side][x])
  BY <1>3, <1>4, <1>5
<1>7. /\ after.counts = c.counts /\ after.saved = c.saved
      /\ after.refs = [m.refs EXCEPT ![side] = r]
      /\ after = [c EXCEPT !.refs = [m.refs EXCEPT ![side] = r]]
  BY <1>1, <1>4 DEF Consumed, Counted, Matches
<1>8. m.refs \in [old : [D -> Nat], new : [E -> Nat]]
  BY DEF Matches
<1>9. /\ after.refs[side] = r /\ after.refs[OtherSide(side)] = m.refs[OtherSide(side)]
      /\ after.refs \in [old : [D -> Nat], new : [E -> Nat]]
  BY <1>5, <1>6, <1>7, <1>8 DEF OtherSide
<1>10. after \in Matches(D, E)
  BY <1>2, <1>7, <1>9 DEF Matches
<1>11. \A s, x : CountOf(after, s, x) = CountOf(c, s, x)
  BY <1>7 DEF CountOf
<1>12. UsesUp(m, side, item, after)
  <2>1. CountsDown(m, side, item, after)
    BY <1>2, <1>11 DEF CountsDown
  <2>2. RefOf(after, side, item) = RefOf(m, side, item) - 1
    BY <1>3, <1>5, <1>6, <1>9 DEF RefOf
  <2>3. RefOf(after, OtherSide(side), item) = RefOf(m, OtherSide(side), item)
    BY <1>9 DEF RefOf
  <2>4. QED
    BY <2>1, <2>2, <2>3 DEF UsesUp
<1>13. OthersStay(m, item, after)
  <2>1. \A x : x # item =>
            /\ RefOf(after, side, x) = RefOf(m, side, x)
            /\ RefOf(after, OtherSide(side), x) = RefOf(m, OtherSide(side), x)
    BY <1>6, <1>9 DEF RefOf
  <2>2. \A s \in {"old", "new"} : s = side \/ s = OtherSide(side)
    BY DEF OtherSide
  <2>3. QED
    BY <1>2, <1>11, <2>1, <2>2 DEF OthersStay
<1>14. QED
  BY <1>2, <1>7, <1>10, <1>12, <1>13

(* What is said again keeps the rest.                                      *)
LEMMA SavingIs ==
    ASSUME NEW D, NEW E, NEW m \in Matches(D, E), NEW item \in SessionItems,
           NEW after, after = Saving(m, item)
    PROVE  /\ after \in Matches(D, E) /\ after.refs = m.refs /\ after.counts = m.counts
           /\ Saves(m, item, after)
<1>1. Stripped(item) \in SessionItems
  BY DEF Stripped, SessionItems
<1>2. m.saved \in Seq(SessionItems)
  BY DEF Matches
<1>3. Append(m.saved, Stripped(item)) \in Seq(SessionItems)
  BY <1>1, <1>2
<1>4. after = [m EXCEPT !.saved = Append(m.saved, Stripped(item))]
  BY DEF Saving
<1>5. QED
  BY <1>3, <1>4 DEF Matches, Saves

LEMMA SavedAlike ==
    ASSUME NEW m, NEW item, NEW c, NEW after, after.refs = c.refs, after.counts = c.counts
    PROVE  /\ \A side : /\ CountsDown(m, side, item, c) => CountsDown(m, side, item, after)
                        /\ UsesUp(m, side, item, c) => UsesUp(m, side, item, after)
           /\ Refers(m, item, c) => Refers(m, item, after)
           /\ CountsAs(m, item, c) => CountsAs(m, item, after)
           /\ OthersStay(m, item, c) => OthersStay(m, item, after)
<1>1. \A s, x : CountOf(after, s, x) = CountOf(c, s, x) /\ RefOf(after, s, x) = RefOf(c, s, x)
  BY DEF CountOf, RefOf
<1>2. QED
  BY <1>1 DEF CountsDown, UsesUp, Refers, CountsAs, OthersStay

LEMMA MatchedIs ==
    ASSUME NEW D, NEW E, NEW m \in Matches(D, E), NEW item \in SessionItems,
           NEW after, after = Matched(m, item)
    PROVE  after \in Matches(D, E) /\ IsMatched(m, item, after) /\ OthersStay(m, item, after)
<1>1. \A side \in {"old", "new"} : CountOf(m, side, item) \in Nat
  BY DEF CountOf, Key, Matches, SessionItems
<1>2. \A side \in {"old", "new"} :
          /\ RefOf(m, side, item) \in Nat
          /\ IsReferred(m, side, item) <=> RefOf(m, side, item) > 0
  <2>1. SUFFICES ASSUME NEW side \in {"old", "new"}
                 PROVE  /\ RefOf(m, side, item) \in Nat
                        /\ IsReferred(m, side, item) <=> RefOf(m, side, item) > 0
    OBVIOUS
  <2>2. PICK F : m.refs[side] \in [F -> Nat]
    BY DEF Matches
  <2>3. QED
    BY <2>2 DEF RefOf, IsReferred
<1>3. CASE RefOf(m, "new", item) > 0
  <2>1. PICK c : c = Consumed(m, "new", item)
    OBVIOUS
  <2>2. /\ c \in Matches(D, E) /\ c.saved = m.saved
        /\ UsesUp(m, "new", item, c) /\ OthersStay(m, item, c)
    BY <1>3, <2>1, ConsumedIs
  <2>3. after = Saving(c, item)
    BY <1>2, <1>3, <2>1 DEF Matched
  <2>4. /\ after \in Matches(D, E) /\ after.refs = c.refs /\ after.counts = c.counts
        /\ Saves(c, item, after)
    BY <2>2, <2>3, SavingIs
  <2>5. UsesUp(m, "new", item, after) /\ OthersStay(m, item, after)
    BY <2>2, <2>4, SavedAlike
  <2>6. Saves(m, item, after)
    BY <2>2, <2>4 DEF Saves
  <2>7. QED
    BY <1>3, <2>4, <2>5, <2>6 DEF IsMatched
<1>4. CASE RefOf(m, "new", item) = 0 /\ RefOf(m, "old", item) > 0
  <2>1. after = Consumed(m, "old", item)
    BY <1>2, <1>4 DEF Matched
  <2>2. /\ after \in Matches(D, E) /\ after.saved = m.saved
        /\ UsesUp(m, "old", item, after) /\ OthersStay(m, item, after)
    BY <1>4, <2>1, ConsumedIs
  <2>3. QED
    BY <1>4, <2>2 DEF IsMatched, Drops
<1>5. CASE RefOf(m, "new", item) = 0 /\ RefOf(m, "old", item) = 0
  <2>1. PICK o \in Nat, n \in Nat : o = CountOf(m, "old", item) /\ n = CountOf(m, "new", item)
    BY <1>1
  <2>2. PICK side : side =
            IF PrefersNew(item) THEN IF n > 0 THEN "new" ELSE IF o > 0 THEN "old" ELSE "none"
            ELSE IF o > 0 THEN "old" ELSE IF n > 0 THEN "new" ELSE "none"
    OBVIOUS
  <2>3. after = CASE side = "new" -> Saving(Counted(m, "new", item), item)
                  [] side = "old" -> Counted(m, "old", item)
                  [] side = "none" -> Saving(m, item)
    <3>1. ~IsReferred(m, "new", item) /\ ~IsReferred(m, "old", item)
      BY <1>2, <1>5
    <3>2. CASE PrefersNew(item)
      BY <2>1, <2>2, <3>1, <3>2 DEF Matched, CountOf
    <3>3. CASE ~PrefersNew(item)
      BY <2>1, <2>2, <3>1, <3>3 DEF Matched, CountOf
    <3>4. QED
      BY <3>2, <3>3
  <2>4. CASE side = "new"
    <3>1. PICK c : c = Counted(m, "new", item)
      OBVIOUS
    <3>2. /\ c \in Matches(D, E) /\ c.saved = m.saved
          /\ CountsDown(m, "new", item, c) /\ Refers(m, item, c) /\ OthersStay(m, item, c)
      BY <3>1, CountedIs
    <3>3. after = Saving(c, item)
      BY <2>3, <2>4, <3>1
    <3>4. /\ after \in Matches(D, E) /\ after.refs = c.refs /\ after.counts = c.counts
          /\ Saves(c, item, after)
      BY <3>2, <3>3, SavingIs
    <3>5. CountsDown(m, "new", item, after) /\ Refers(m, item, after)
          /\ OthersStay(m, item, after)
      BY <3>2, <3>4, SavedAlike
    <3>6. Saves(m, item, after)
      BY <3>2, <3>4 DEF Saves
    <3>7. n > 0 /\ (PrefersNew(item) \/ o = 0)
      BY <2>2, <2>4
    <3>8. QED
      BY <1>5, <2>1, <3>4, <3>5, <3>6, <3>7 DEF IsMatched
  <2>5. CASE side = "old"
    <3>1. after = Counted(m, "old", item)
      BY <2>3, <2>5
    <3>2. /\ after \in Matches(D, E) /\ after.saved = m.saved
          /\ CountsDown(m, "old", item, after) /\ Refers(m, item, after)
          /\ OthersStay(m, item, after)
      BY <3>1, CountedIs
    <3>3. o > 0 /\ (~PrefersNew(item) \/ n = 0)
      BY <2>2, <2>5
    <3>4. QED
      BY <1>5, <2>1, <3>2, <3>3 DEF IsMatched, Drops
  <2>6. CASE side = "none"
    <3>1. after = Saving(m, item)
      BY <2>3, <2>6
    <3>2. /\ after \in Matches(D, E) /\ after.refs = m.refs /\ after.counts = m.counts
          /\ Saves(m, item, after)
      BY <3>1, SavingIs
    <3>3. /\ Refers(m, item, after) /\ CountsAs(m, item, after)
          /\ OthersStay(m, item, after)
      BY <3>2 DEF Refers, CountsAs, OthersStay, RefOf, CountOf
    <3>4. o = 0 /\ n = 0
      BY <2>2, <2>6
    <3>5. QED
      BY <1>5, <2>1, <3>2, <3>3, <3>4 DEF IsMatched
  <2>7. QED
    BY <2>2, <2>4, <2>5, <2>6
<1>6. QED
  BY <1>2, <1>3, <1>4, <1>5

(* What can be matched at the start.                                       *)
WithIdentity(items) == {i \in ToSet(items) : HasIdentity(i)}
IsStart(m, history, new) ==
    /\ m \in Matches(WithIdentity(history), WithIdentity(new)) /\ m.saved = <<>>
    /\ \A x \in SessionItems :
           /\ CountOf(m, "old", x) = Occurs(history, Key(x))
           /\ CountOf(m, "new", x) = Occurs(new, Key(x))
           /\ RefOf(m, "old", x) = IF x \in WithIdentity(history)
                                   THEN Cardinality({n \in DOMAIN history : history[n] = x}) ELSE 0
           /\ RefOf(m, "new", x) = IF x \in WithIdentity(new)
                                   THEN Cardinality({n \in DOMAIN new : new[n] = x}) ELSE 0

LEMMA PlacesAreCounted ==
    ASSUME NEW n \in Nat, NEW T, T \subseteq 1..n
    PROVE  IsFiniteSet(T) /\ Cardinality(T) \in Nat
<1>1. IsFiniteSet(1..n)
  BY FS_Interval
<1>2. IsFiniteSet(T)
  BY <1>1, FS_Subset
<1>3. QED
  BY <1>2, FS_CardinalityType

LEMMA MapsAre ==
    ASSUME NEW s \in Seq(SessionItems)
    PROVE  /\ References(s) \in [WithIdentity(s) -> Nat]
           /\ \A x \in WithIdentity(s) :
                  References(s)[x] = Cardinality({n \in DOMAIN s : s[n] = x})
           /\ Frequencies(s) \in [Contents -> Nat]
           /\ \A k \in Contents : Frequencies(s)[k] = Occurs(s, k)
<1>1. \A x : Cardinality({n \in DOMAIN s : s[n] = x}) \in Nat
  BY PlacesAreCounted
<1>2. \A k : Cardinality({n \in DOMAIN s : Key(s[n]) = k}) \in Nat
  BY PlacesAreCounted
<1>3. QED
  BY <1>1, <1>2 DEF References, Frequencies, WithIdentity, Occurs

LEMMA StartIs ==
    ASSUME NEW history \in Seq(SessionItems), NEW new \in Seq(SessionItems)
    PROVE  IsStart(Matching(history, new), history, new)
<1>1. PICK m : m = Matching(history, new)
  OBVIOUS
<1>2. /\ References(history) \in [WithIdentity(history) -> Nat]
      /\ References(new) \in [WithIdentity(new) -> Nat]
      /\ Frequencies(history) \in [Contents -> Nat] /\ Frequencies(new) \in [Contents -> Nat]
  BY MapsAre
<1>3. /\ m.refs["old"] = References(history) /\ m.refs["new"] = References(new)
      /\ m.counts["old"] = Frequencies(history) /\ m.counts["new"] = Frequencies(new)
      /\ m.saved = <<>>
  BY <1>1 DEF Matching
<1>4. m \in Matches(WithIdentity(history), WithIdentity(new))
  BY <1>1, <1>2 DEF Matching, Matches
<1>5. \A x \in SessionItems : Key(x) \in Contents
  BY DEF Key, SessionItems
<1>6. \A x \in SessionItems :
           /\ CountOf(m, "old", x) = Occurs(history, Key(x))
           /\ CountOf(m, "new", x) = Occurs(new, Key(x))
  BY <1>3, <1>5, MapsAre DEF CountOf
<1>7. \A x : /\ RefOf(m, "old", x) = IF x \in WithIdentity(history)
                                     THEN References(history)[x] ELSE 0
             /\ RefOf(m, "new", x) = IF x \in WithIdentity(new) THEN References(new)[x] ELSE 0
  BY <1>2, <1>3 DEF RefOf
<1>8. /\ \A x \in WithIdentity(history) :
             References(history)[x] = Cardinality({n \in DOMAIN history : history[n] = x})
      /\ \A x \in WithIdentity(new) :
             References(new)[x] = Cardinality({n \in DOMAIN new : new[n] = x})
  BY MapsAre
<1>9. QED
  BY <1>1, <1>3, <1>4, <1>6, <1>7, <1>8 DEF IsStart

(* The loop.                                                               *)
Loops(f, history, new, combined) ==
    /\ IsStart(f[0], history, new)
    /\ \A n \in 1..Len(combined) : f[n] = Matched(f[n - 1], combined[n])
LEMMA LoopIs ==
    ASSUME NEW history \in Seq(SessionItems), NEW new \in Seq(SessionItems),
           NEW combined \in Seq(SessionItems)
    PROVE  \E f \in [0..Len(combined) -> Matches(WithIdentity(history), WithIdentity(new))] :
               /\ Loops(f, history, new, combined)
               /\ PrepareWithCallback(history, new, combined).saved = f[Len(combined)].saved
<1> DEFINE Nth(f, n) == IF n = 0 THEN Matching(history, new) ELSE Matched(f[n - 1], combined[n])
<1>1. PICK m \in Nat : m = Len(combined)
  OBVIOUS
<1>2. PICK A : A = Matches(WithIdentity(history), WithIdentity(new))
  OBVIOUS
<1>3. \A f : f = [n \in 0..m |-> Nth(f, n)]
                 => \E g : g = [n \in 0..m |-> Nth(g, n)]
                           /\ PrepareWithCallback(history, new, combined).saved = g[m].saved
  BY <1>1 DEF PrepareWithCallback
<1>4. Matching(history, new) \in A /\ IsStart(Matching(history, new), history, new)
  BY <1>2, StartIs DEF IsStart
<1>5. \A n \in 1..m, a \in A : Matched(a, combined[n]) \in A
  <2>1. SUFFICES ASSUME NEW n \in 1..m, NEW a \in A PROVE Matched(a, combined[n]) \in A
    OBVIOUS
  <2>2. combined[n] \in SessionItems
    BY <1>1
  <2>3. QED
    BY <1>2, <2>2, MatchedIs
<1>6. PICK step : step = [n \in 1..m |-> [a \in A |-> Matched(a, combined[n])]]
  OBVIOUS
<1>7. step \in [1..m -> [A -> A]] /\ \A n \in 1..m, a \in A : step[n][a] = Matched(a, combined[n])
  BY <1>5, <1>6
<1>8. PICK f \in [0..m -> A] : Repeats(f, Matching(history, new), m, step)
  BY <1>4, <1>7, Iterates
<1>9. \A n \in 0..m : f[n] = Nth(f, n)
  <2>1. ASSUME NEW n \in 1..m PROVE f[n] = Matched(f[n - 1], combined[n])
    <3>1. f[n - 1] \in A
      OBVIOUS
    <3>2. QED
      BY <3>1, <1>7, <1>8 DEF Repeats
  <2>2. QED
    BY <2>1, <1>8 DEF Repeats
<1> HIDE DEF Nth
<1>10. f = [n \in 0..m |-> Nth(f, n)]
  <2>1. f = [n \in 0..m |-> f[n]]
    OBVIOUS
  <2>2. QED
    BY <2>1, <1>9
<1>11. PICK g : g = [n \in 0..m |-> Nth(g, n)]
               /\ PrepareWithCallback(history, new, combined).saved = g[m].saved
  BY <1>3, <1>10
<1>12. \A n \in 0..m : g[n] = Nth(g, n)
  BY <1>11
<1>13. g[0] = Matching(history, new) /\ \A n \in 1..m : g[n] = Matched(g[n - 1], combined[n])
  BY <1>12 DEF Nth
<1> DEFINE T == {n \in 0..m : g[n] \in A}
<1>14. 0 \in T
  BY <1>4, <1>13
<1>15. ASSUME NEW n \in 0..m - 1, n \in T PROVE n + 1 \in T
  <2>1. n + 1 \in 1..m /\ (n + 1) - 1 = n /\ n + 1 \in 0..m /\ g[n] \in A
    BY <1>15
  <2>2. QED
    BY <1>5, <1>13, <2>1
<1>16. 0..m \subseteq T
  <2> HIDE DEF T
  <2>1. QED
    BY <1>14, <1>15, CountingUp
<1>17. g \in [0..m -> A]
  <2>1. DOMAIN g = 0..m /\ g = [n \in 0..m |-> g[n]]
    BY <1>11
  <2>2. QED
    BY <2>1, <1>16
<1>18. QED
  BY <1>1, <1>2, <1>4, <1>11, <1>13, <1>17 DEF Loops

(* Sets of places of one size.                                             *)
LEMMA NotMore ==
    ASSUME NEW A, NEW B, NEW p, IsFiniteSet(B), \A x \in A : p[x] \in B,
           \A x, y \in A : p[x] = p[y] => x = y
    PROVE  Cardinality(A) <= Cardinality(B)
<1>1. PICK f : f = [x \in A |-> p[x]]
  OBVIOUS
<1>2. f \in Injection(A, B)
  BY <1>1 DEF Injection, IsInjective
<1>3. QED
  BY <1>2, FS_Injection

LEMMA AsMany ==
    ASSUME NEW A, NEW B, NEW p, IsFiniteSet(A), \A x \in A : p[x] \in B,
           \A x, y \in A : p[x] = p[y] => x = y, \A y \in B : \E x \in A : p[x] = y
    PROVE  Cardinality(A) = Cardinality(B)
<1>1. PICK f : f = [x \in A |-> p[x]]
  OBVIOUS
<1>2. f \in Injection(A, B) /\ f \in Surjection(A, B)
  BY <1>1 DEF Injection, Surjection, IsInjective
<1>3. ExistsBijection(A, B)
  BY <1>2 DEF Bijection, ExistsBijection
<1>4. QED
  BY <1>3, FS_Bijection

LEMMA OccursPicked ==
    ASSUME NEW S, NEW s \in Seq(S), NEW I \in SUBSET DOMAIN s, NEW k
    PROVE  Occurs(Picked(s, I), k) = Cardinality({i \in I : Key(s[i]) = k})
<1>1. PICK p, m : Enumerates(p, m, I) /\ m = Len(Picked(s, I))
                  /\ Picked(s, I) = [j \in 1..m |-> s[p[j]]]
  BY PickedBy
<1>2. PICK t : t = Picked(s, I)
  OBVIOUS
<1>3. m \in Nat /\ p \in [1..m -> I] /\ \A i \in I : \E j \in 1..m : p[j] = i
  BY <1>1 DEF Enumerates
<1>4. DOMAIN t = 1..m /\ \A j \in 1..m : t[j] = s[p[j]]
  BY <1>1, <1>2
<1>5. PICK A, B : A = {j \in 1..m : Key(t[j]) = k} /\ B = {i \in I : Key(s[i]) = k}
  OBVIOUS
<1>6. IsFiniteSet(A)
  BY <1>3, <1>5, PlacesAreCounted
<1>7. \A x, y \in A : p[x] = p[y] => x = y
  <2>1. I \subseteq Nat
    OBVIOUS
  <2>2. IsFiniteSet(I) /\ Cardinality(I) = m /\ \A x, y \in 1..m : p[x] = p[y] => x = y
    <3>1. Enumerates(p, m, I)
      BY <1>1
    <3>2. QED
      BY <2>1, <3>1, EnumerationCounts, Zenon
  <2>3. QED
    BY <1>5, <2>2
<1>8. \A x \in A : p[x] \in B
  BY <1>3, <1>4, <1>5
<1>9. \A y \in B : \E x \in A : p[x] = y
  BY <1>3, <1>4, <1>5
<1>10. Cardinality(A) = Cardinality(B)
  BY <1>6, <1>7, <1>8, <1>9, AsMany
<1>11. QED
  BY <1>2, <1>4, <1>5, <1>10 DEF Occurs

(* What is saved are the prepared items at some places.                    *)
Runs(f, D, E, combined) ==
    /\ f \in [0..Len(combined) -> Matches(D, E)]
    /\ f[0].saved = <<>>
    /\ \A n \in 1..Len(combined) : f[n] = Matched(f[n - 1], combined[n])
SavesAt(f, combined) == {n \in 1..Len(combined) : Saves(f[n - 1], combined[n], f[n])}
Prepared(combined) == [i \in DOMAIN combined |-> Stripped(combined[i])]

LEMMA StepIs ==
    ASSUME NEW D, NEW E, NEW combined \in Seq(SessionItems), NEW f, Runs(f, D, E, combined),
           NEW n \in 1..Len(combined)
    PROVE  /\ combined[n] \in SessionItems
           /\ f[n - 1] \in Matches(D, E) /\ f[n] \in Matches(D, E)
           /\ IsMatched(f[n - 1], combined[n], f[n]) /\ OthersStay(f[n - 1], combined[n], f[n])
           /\ n \in SavesAt(f, combined) <=> Saves(f[n - 1], combined[n], f[n])
           /\ n \notin SavesAt(f, combined) <=> Drops(f[n - 1], f[n])
<1>1. n - 1 \in 0..Len(combined) /\ n \in 0..Len(combined) /\ combined[n] \in SessionItems
  OBVIOUS
<1>2. f[n - 1] \in Matches(D, E) /\ f[n] \in Matches(D, E) /\ f[n] = Matched(f[n - 1], combined[n])
  BY <1>1 DEF Runs
<1>3. IsMatched(f[n - 1], combined[n], f[n]) /\ OthersStay(f[n - 1], combined[n], f[n])
  BY <1>1, <1>2, MatchedIs
<1>4. Saves(f[n - 1], combined[n], f[n]) \/ Drops(f[n - 1], f[n])
  BY <1>3 DEF IsMatched
<1>5. ~(Saves(f[n - 1], combined[n], f[n]) /\ Drops(f[n - 1], f[n]))
  <2>1. PICK s : s = f[n - 1].saved
    OBVIOUS
  <2>2. s \in Seq(SessionItems)
    BY <1>2, <2>1 DEF Matches
  <2>3. \A x : Append(s, x) # s
    <3>1. \A x : Len(Append(s, x)) = Len(s) + 1 /\ Len(s) \in Nat
      BY <2>2
    <3>2. QED
      BY <3>1
  <2>4. QED
    BY <2>1, <2>3 DEF Saves, Drops
<1>6. QED
  BY <1>1, <1>2, <1>3, <1>4, <1>5 DEF SavesAt

LEMMA SavedIs ==
    ASSUME NEW D, NEW E, NEW combined \in Seq(SessionItems), NEW f, Runs(f, D, E, combined)
    PROVE  /\ f[Len(combined)].saved = Picked(Prepared(combined), SavesAt(f, combined))
           /\ Prepared(combined) \in Seq(SessionItems)
           /\ Len(Prepared(combined)) = Len(combined)
           /\ \A i \in DOMAIN combined : Prepared(combined)[i] = Stripped(combined[i])
<1>1. PICK m \in Nat : m = Len(combined) /\ DOMAIN combined = 1..m
  OBVIOUS
<1>2. PICK s : s = Prepared(combined)
  OBVIOUS
<1>3. \A i \in 1..m : combined[i] \in SessionItems /\ Stripped(combined[i]) \in SessionItems
  <2>1. \A x \in SessionItems : Stripped(x) \in SessionItems
    BY DEF Stripped, SessionItems
  <2>2. \A i \in 1..m : combined[i] \in SessionItems
    BY <1>1
  <2>3. QED
    BY <2>1, <2>2
<1>4. s \in Seq(SessionItems) /\ Len(s) = m /\ \A i \in 1..m : s[i] = Stripped(combined[i])
  BY <1>1, <1>2, <1>3 DEF Prepared
<1>5. PICK W : W = SavesAt(f, combined)
  OBVIOUS
<1>6. PICK g \in [0..m -> Seq(SessionItems)] : Counts(g, s, W) /\ Picked(s, W) = g[m]
  BY <1>4, PickedCount, ZenonT(60)
<1> DEFINE T == {n \in 0..m : g[n] = f[n].saved}
<1>7. 0 \in T
  BY <1>6 DEF Counts, Runs
<1>8. ASSUME NEW n \in 0..m - 1, n \in T PROVE n + 1 \in T
  <2>1. n + 1 \in 1..m /\ (n + 1) - 1 = n /\ n + 1 \in 0..m /\ g[n] = f[n].saved
    BY <1>8
  <2>2. g[n + 1] = IF n + 1 \in W THEN Append(g[n], s[n + 1]) ELSE g[n]
    BY <1>4, <1>6, <2>1 DEF Counts
  <2>3. /\ n + 1 \in W => Saves(f[n], combined[n + 1], f[n + 1])
        /\ n + 1 \notin W => Drops(f[n], f[n + 1])
    BY <1>1, <1>5, <2>1, StepIs
  <2>4. g[n + 1] = f[n + 1].saved
    BY <1>4, <2>1, <2>2, <2>3 DEF Saves, Drops
  <2>5. QED
    BY <2>1, <2>4
<1>9. 0..m \subseteq T
  <2> HIDE DEF T
  <2>1. QED
    BY <1>7, <1>8, CountingUp
<1>10. m \in T
  BY <1>9
<1>11. QED
  BY <1>1, <1>2, <1>4, <1>5, <1>6, <1>10

(* How many of the first places.                                           *)
UpTo(T, n) == Cardinality(T \cap (1..n))
LEMMA OneMore ==
    ASSUME NEW n \in Nat, NEW T
    PROVE  /\ UpTo(T, 0) = 0 /\ UpTo(T, n) \in Nat
           /\ UpTo(T, n + 1) = IF n + 1 \in T THEN UpTo(T, n) + 1 ELSE UpTo(T, n)
<1>1. UpTo(T, 0) = 0
  <2>1. T \cap (1..0) = {}
    OBVIOUS
  <2>2. QED
    BY <2>1, FS_EmptySet DEF UpTo
<1>2. PICK A : A = T \cap (1..n)
  OBVIOUS
<1>3. IsFiniteSet(A) /\ Cardinality(A) \in Nat /\ n + 1 \notin A
  <2>1. A \subseteq 1..n
    BY <1>2
  <2>2. IsFiniteSet(A) /\ Cardinality(A) \in Nat
    BY <2>1, PlacesAreCounted
  <2>3. n + 1 \notin A
    BY <2>1
  <2>4. QED
    BY <2>2, <2>3
<1>4. CASE n + 1 \in T
  <2>1. T \cap (1..(n + 1)) = A \cup {n + 1}
    BY <1>2, <1>4
  <2>2. Cardinality(A \cup {n + 1}) = Cardinality(A) + 1
    BY <1>3, FS_AddElement
  <2>3. QED
    BY <1>1, <1>2, <1>3, <1>4, <2>1, <2>2 DEF UpTo
<1>5. CASE n + 1 \notin T
  <2>1. T \cap (1..(n + 1)) = A
    BY <1>2, <1>5
  <2>2. QED
    BY <1>1, <1>2, <1>3, <1>5, <2>1 DEF UpTo
<1>6. QED
  BY <1>4, <1>5

(* Items that only their key tells apart: of "total" with one key as many  *)
(* are saved as are new to a session that holds "old" of them.             *)
SavedOf(new, old, total) ==
    IF total <= new THEN total ELSE IF total <= new + old THEN new ELSE total - old
LeftOf(new, old, total) ==
    <<IF total <= new THEN new - total ELSE 0,
      IF total <= new THEN old ELSE IF total <= new + old THEN new + old - total ELSE 0>>

PlacesWith(items, k) == {i \in DOMAIN items : Key(items[i]) = k}
OnlyOne(items, k, x) == \A y \in ToSet(items) : Key(y) = k => y = x
SavesAsMany(f, history, new, combined, k) ==
    Cardinality(SavesAt(f, combined) \cap PlacesWith(combined, k))
        = SavedOf(Occurs(new, k), Occurs(history, k), Cardinality(PlacesWith(combined, k)))
LEMMA KeyedAlike ==
    ASSUME NEW k \in {"a", "b", "number"}, NEW x, x = [content |-> k, tag |-> 0],
           NEW history \in Seq(SessionItems), NEW new \in Seq(SessionItems),
           NEW combined \in Seq(SessionItems),
           OnlyOne(history, k, x), OnlyOne(new, k, x), OnlyOne(combined, k, x), NEW f, Loops(f, history, new, combined),
           Runs(f, WithIdentity(history), WithIdentity(new), combined)
    PROVE  SavesAsMany(f, history, new, combined, k)
<1> DEFINE K == {i \in DOMAIN combined : Key(combined[i]) = k}
<1>0. \A y \in ToSet(history) \cup ToSet(new) \cup ToSet(combined) : Key(y) = k => y = x
  BY DEF OnlyOne
<1>1. PICK m \in Nat : m = Len(combined) /\ DOMAIN combined = 1..m
  OBVIOUS
<1>2. PICK N \in Nat, O \in Nat : N = Occurs(new, k) /\ O = Occurs(history, k)
  <2>1. Occurs(new, k) \in Nat /\ Occurs(history, k) \in Nat
    <3>1. \A s \in {history, new} : Occurs(s, k) \in Nat
      <4>1. SUFFICES ASSUME NEW s \in {history, new} PROVE Occurs(s, k) \in Nat
        OBVIOUS
      <4>2. PICK n \in Nat : DOMAIN s = 1..n
        OBVIOUS
      <4>3. {i \in DOMAIN s : Key(s[i]) = k} \subseteq 1..n
        BY <4>2
      <4>4. QED
        BY <4>3, PlacesAreCounted DEF Occurs
    <3>2. QED
      BY <3>1
  <2>2. QED
    BY <2>1
<1>3. PICK W : W = SavesAt(f, combined)
  OBVIOUS
<1>4. x \in SessionItems /\ Key(x) = k /\ k \in Contents
  BY DEF SessionItems, Key, Contents
<1> DEFINE Left(n) == LeftOf(N, O, UpTo(K, n))
           Held(n) == /\ CountOf(f[n], "new", x) = Left(n)[1]
                      /\ CountOf(f[n], "old", x) = Left(n)[2]
                      /\ RefOf(f[n], "new", x) = IF k = "number" THEN 0 ELSE Left(n)[1]
                      /\ RefOf(f[n], "old", x) = IF k = "number" THEN 0 ELSE Left(n)[2]
                      /\ UpTo(W \cap K, n) = SavedOf(N, O, UpTo(K, n))
           T == {n \in 0..m : Held(n)}
<1>5. Left(0)[1] = N /\ Left(0)[2] = O /\ SavedOf(N, O, UpTo(K, 0)) = 0 /\ UpTo(W \cap K, 0) = 0
  BY OneMore DEF LeftOf, SavedOf
<1>6. Held(0)
  <2>1. IsStart(f[0], history, new)
    BY DEF Loops
  <2>2. CountOf(f[0], "new", x) = N /\ CountOf(f[0], "old", x) = O
    BY <1>2, <1>4, <2>1 DEF IsStart
  <2>3. HasIdentity(x) <=> k # "number"
    BY DEF HasIdentity
  <2>4. ASSUME NEW s \in {history, new}
        PROVE  (IF x \in WithIdentity(s) THEN Cardinality({n \in DOMAIN s : s[n] = x}) ELSE 0)
                   = IF k = "number" THEN 0 ELSE Occurs(s, k)
    <3>1. \A n \in DOMAIN s : s[n] = x <=> Key(s[n]) = k
      <4>1. \A n \in DOMAIN s : s[n] \in ToSet(history) \cup ToSet(new)
        BY <2>4 DEF ToSet
      <4>2. QED
        BY <1>0, <1>4, <4>1
    <3>2. {n \in DOMAIN s : s[n] = x} = {n \in DOMAIN s : Key(s[n]) = k}
      BY <3>1
    <3>3. x \in WithIdentity(s) <=> k # "number" /\ \E n \in DOMAIN s : s[n] = x
      BY <2>3 DEF WithIdentity, ToSet
    <3>4. ~(\E n \in DOMAIN s : s[n] = x) => {n \in DOMAIN s : s[n] = x} = {}
      OBVIOUS
    <3>5. QED
      BY <3>2, <3>3, <3>4, FS_EmptySet DEF Occurs
  <2>5. /\ RefOf(f[0], "new", x) = (IF k = "number" THEN 0 ELSE N)
        /\ RefOf(f[0], "old", x) = (IF k = "number" THEN 0 ELSE O)
    BY <1>2, <1>4, <2>1, <2>4 DEF IsStart
  <2> HIDE DEF Left
  <2>6. QED
    BY <1>5, <2>2, <2>5
<1>7. ASSUME NEW n \in 0..m - 1, Held(n) PROVE Held(n + 1)
  <2>1. n + 1 \in 1..m /\ (n + 1) - 1 = n /\ n \in Nat
    OBVIOUS
  <2>2. /\ combined[n + 1] \in SessionItems
        /\ IsMatched(f[n], combined[n + 1], f[n + 1])
        /\ OthersStay(f[n], combined[n + 1], f[n + 1])
        /\ n + 1 \in W <=> Saves(f[n], combined[n + 1], f[n + 1])
        /\ n + 1 \notin W <=> Drops(f[n], f[n + 1])
    BY <1>1, <1>3, <2>1, StepIs
  <2>3. PICK p \in Nat : p = UpTo(K, n)
    BY <2>1, OneMore
  <2>4. /\ UpTo(K, n + 1) = IF n + 1 \in K THEN p + 1 ELSE p
        /\ UpTo(W \cap K, n + 1) = IF n + 1 \in W \cap K THEN UpTo(W \cap K, n) + 1
                                   ELSE UpTo(W \cap K, n)
    BY <2>1, <2>3, OneMore
  <2>5. CASE n + 1 \notin K
    <3>1. Key(combined[n + 1]) # k
      BY <1>1, <2>1, <2>5
    <3>2. /\ CountOf(f[n + 1], "new", x) = CountOf(f[n], "new", x)
          /\ CountOf(f[n + 1], "old", x) = CountOf(f[n], "old", x)
          /\ RefOf(f[n + 1], "new", x) = RefOf(f[n], "new", x)
          /\ RefOf(f[n + 1], "old", x) = RefOf(f[n], "old", x)
      BY <1>4, <2>2, <3>1 DEF OthersStay
    <3>3. Left(n + 1) = Left(n)
      BY <2>3, <2>4, <2>5
    <3> HIDE DEF Left
    <3>4. QED
      BY <1>7, <2>3, <2>4, <2>5, <3>2, <3>3
  <2>6. CASE n + 1 \in K
    <3>1. combined[n + 1] = x
      <4>1. Key(combined[n + 1]) = k /\ combined[n + 1] \in ToSet(combined)
        BY <1>1, <2>1, <2>6 DEF ToSet
      <4>2. QED
        BY <1>0, <4>1
    <3>2. PICK c, d, r, t : /\ c = Left(n)[1] /\ d = Left(n)[2]
                            /\ r = (IF k = "number" THEN 0 ELSE c)
                            /\ t = (IF k = "number" THEN 0 ELSE d)
      OBVIOUS
    <3>3. /\ c \in Nat /\ d \in Nat /\ r \in Nat /\ t \in Nat
          /\ c = (IF p <= N THEN N - p ELSE 0)
          /\ d = IF p <= N THEN O ELSE IF p <= N + O THEN N + O - p ELSE 0
      BY <2>3, <3>2 DEF LeftOf
    <3>4. /\ Left(n + 1)[1] = (IF p + 1 <= N THEN N - (p + 1) ELSE 0)
          /\ Left(n + 1)[2] = IF p + 1 <= N THEN O
                              ELSE IF p + 1 <= N + O THEN N + O - (p + 1) ELSE 0
      BY <2>4, <2>6 DEF LeftOf
    <3>5. PICK c1, d1, r1, t1 : /\ c1 = CountOf(f[n + 1], "new", x)
                                /\ d1 = CountOf(f[n + 1], "old", x)
                                /\ r1 = RefOf(f[n + 1], "new", x)
                                /\ t1 = RefOf(f[n + 1], "old", x)
      OBVIOUS
    <3> HIDE DEF Left
    <3>6. /\ CountOf(f[n], "new", x) = c /\ CountOf(f[n], "old", x) = d
          /\ RefOf(f[n], "new", x) = r /\ RefOf(f[n], "old", x) = t
          /\ UpTo(W \cap K, n) = SavedOf(N, O, p)
      BY <1>7, <2>3, <3>2
    <3>7. PrefersNew(x) <=> k = "number"
      BY DEF PrefersNew
    <3>8. \A z \in Nat : Less(z) = IF z = 0 THEN 0 ELSE z - 1
      BY DEF Less
    <3>9. \/ /\ c > 0 /\ c1 = c - 1 /\ d1 = d /\ t1 = t
             /\ r1 = (IF k = "number" THEN 0 ELSE c - 1) /\ n + 1 \in W
          \/ /\ c = 0 /\ d > 0 /\ c1 = 0 /\ d1 = d - 1 /\ r1 = r
             /\ t1 = (IF k = "number" THEN 0 ELSE d - 1) /\ n + 1 \notin W
          \/ /\ c = 0 /\ d = 0 /\ c1 = 0 /\ d1 = 0 /\ r1 = r /\ t1 = t /\ n + 1 \in W
      <4>1. IsMatched(f[n], x, f[n + 1])
        BY <2>2, <3>1
      <4>2. \/ r > 0 /\ c1 = Less(c) /\ d1 = d /\ r1 = r - 1 /\ t1 = t /\ n + 1 \in W
            \/ r = 0 /\ t > 0 /\ d1 = Less(d) /\ c1 = c /\ t1 = t - 1 /\ r1 = r /\ n + 1 \notin W
            \/ /\ r = 0 /\ t = 0 /\ r1 = r /\ t1 = t
               /\ \/ /\ c > 0 /\ (k = "number" \/ d = 0) /\ c1 = Less(c) /\ d1 = d
                     /\ n + 1 \in W
                  \/ /\ d > 0 /\ (k # "number" \/ c = 0) /\ d1 = Less(d) /\ c1 = c
                     /\ n + 1 \notin W
                  \/ d = 0 /\ c = 0 /\ c1 = c /\ d1 = d /\ n + 1 \in W
        BY <2>2, <3>1, <3>5, <3>6, <3>7, <4>1
           DEF IsMatched, UsesUp, CountsDown, Refers, CountsAs, OtherSide
      <4>3. QED
        BY <3>2, <3>3, <3>8, <4>2
    <3>10. UpTo(W \cap K, n + 1) = SavedOf(N, O, UpTo(K, n + 1))
      <4>1. UpTo(W \cap K, n + 1) = IF n + 1 \in W THEN SavedOf(N, O, p) + 1 ELSE SavedOf(N, O, p)
        BY <2>4, <2>6, <3>6
      <4>2. UpTo(K, n + 1) = p + 1
        BY <2>4, <2>6
      <4>3. QED
        <5>1. SavedOf(N, O, p + 1) = IF c = 0 /\ d > 0 THEN SavedOf(N, O, p)
                                      ELSE SavedOf(N, O, p) + 1
          <6>1. N \in Nat /\ O \in Nat /\ p \in Nat
            BY <1>2, <2>3
          <6>2. CASE p < N
            BY <3>3, <6>1, <6>2 DEF SavedOf
          <6>3. CASE p >= N /\ p < N + O
            BY <3>3, <6>1, <6>3 DEF SavedOf
          <6>4. CASE p >= N + O
            BY <3>3, <6>1, <6>4 DEF SavedOf
          <6>5. QED
            BY <6>1, <6>2, <6>3, <6>4
        <5>2. n + 1 \in W <=> ~(c = 0 /\ d > 0)
          BY <3>3, <3>9
        <5>3. QED
          BY <4>1, <4>2, <5>1, <5>2
    <3>11. /\ c1 = Left(n + 1)[1] /\ d1 = Left(n + 1)[2]
           /\ r1 = (IF k = "number" THEN 0 ELSE Left(n + 1)[1])
           /\ t1 = IF k = "number" THEN 0 ELSE Left(n + 1)[2]
      BY <3>2, <3>3, <3>4, <3>9
    <3>12. QED
      BY <3>5, <3>10, <3>11
  <2>7. QED
    BY <2>5, <2>6
<1>8. m \in T
  <2>1. 0 \in T
    BY <1>6
  <2>2. \A n \in 0..m - 1 : n \in T => n + 1 \in T
    <3>1. \A n \in 0..m - 1 : n + 1 \in 0..m
      OBVIOUS
    <3> HIDE DEF Held
    <3>2. QED
      BY <1>7, <3>1
  <2>3. 0..m \subseteq T
    <3> HIDE DEF T
    <3>1. QED
      BY <2>1, <2>2, CountingUp
  <2>4. QED
    <3> HIDE DEF T
    <3>1. QED
      BY <2>3
<1>9. UpTo(W \cap K, m) = SavedOf(N, O, UpTo(K, m))
  BY <1>8
<1>10. (W \cap K) \cap (1..m) = W \cap K /\ K \cap (1..m) = K
  BY <1>1
<1>11. QED
  BY <1>2, <1>3, <1>9, <1>10 DEF UpTo, SavesAsMany, PlacesWith

(* An empty object is recognised by its tag.                               *)
NotBefore(x, items, i) == \A j \in 1..i - 1 : items[j] # x
LEMMA RefStays ==
    ASSUME NEW D, NEW E, NEW combined \in Seq(SessionItems), NEW f, Runs(f, D, E, combined),
           NEW x \in SessionItems, NEW i \in 1..Len(combined),
           NotBefore(x, combined, i)
    PROVE  Refers(f[0], x, f[i - 1])
<1>1. PICK m \in Nat : m = i - 1 /\ m < Len(combined)
  OBVIOUS
<1> DEFINE T == {n \in 0..m : Refers(f[0], x, f[n])}
<1>2. 0 \in T
  BY <1>1 DEF Refers
<1>3. ASSUME NEW n \in 0..m - 1, n \in T PROVE n + 1 \in T
  <2>1. n + 1 \in 1..Len(combined) /\ n + 1 \in 1..i - 1 /\ (n + 1) - 1 = n /\ n + 1 \in 0..m
    BY <1>1, <1>3
  <2>2. OthersStay(f[n], combined[n + 1], f[n + 1]) /\ combined[n + 1] # x
    <3>1. combined[n + 1] # x
      BY <2>1 DEF NotBefore
    <3>2. QED
      BY <2>1, <3>1, StepIs
  <2>3. Refers(f[n], x, f[n + 1])
    BY <2>2 DEF OthersStay, Refers
  <2>4. QED
    BY <1>3, <2>1, <2>3 DEF Refers
<1>4. 0..m \subseteq T
  <2> HIDE DEF T
  <2>1. QED
    BY <1>1, <1>2, <1>3, CountingUp
<1>5. QED
  BY <1>1, <1>4

LEMMA NoneStays ==
    ASSUME NEW D, NEW E, NEW combined \in Seq(SessionItems), NEW f, Runs(f, D, E, combined),
           NEW x \in SessionItems, NEW i \in 1..Len(combined),
           CountOf(f[0], "old", x) = 0, RefOf(f[0], "old", x) = 0, RefOf(f[0], "new", x) = 0
    PROVE  /\ CountOf(f[i - 1], "old", x) = 0
           /\ RefOf(f[i - 1], "old", x) = 0 /\ RefOf(f[i - 1], "new", x) = 0
<1>1. PICK m \in Nat : m = i - 1 /\ m < Len(combined)
  OBVIOUS
<1> DEFINE NoOld(n) == /\ CountOf(f[n], "old", x) = 0
                       /\ RefOf(f[n], "old", x) = 0 /\ RefOf(f[n], "new", x) = 0
           T == {n \in 0..m : NoOld(n)}
<1>2. 0 \in T
  BY <1>1
<1>3. ASSUME NEW n \in 0..m - 1, NoOld(n) PROVE NoOld(n + 1)
  <2>1. n + 1 \in 1..Len(combined) /\ (n + 1) - 1 = n
    BY <1>1
  <2>2. PICK y, a, b : y = combined[n + 1] /\ a = f[n] /\ b = f[n + 1]
    OBVIOUS
  <2>3. IsMatched(a, y, b) /\ OthersStay(a, y, b) /\ y \in SessionItems
    BY <2>1, <2>2, StepIs
  <2>4. RefOf(b, "old", x) = 0 /\ RefOf(b, "new", x) = 0
    <3>1. CASE y = x
      BY <1>3, <2>2, <2>3, <3>1 DEF IsMatched, Refers
    <3>2. CASE y # x
      BY <1>3, <2>2, <2>3, <3>2 DEF OthersStay
    <3>3. QED
      BY <3>1, <3>2
  <2>5. CountOf(b, "old", x) = 0
    <3>1. CASE Key(y) = Key(x)
      <4>1. \A c : CountOf(c, "old", y) = CountOf(c, "old", x)
        BY <3>1 DEF CountOf
      <4>2. CountOf(a, "old", y) = 0 /\ Less(0) = 0
        BY <1>3, <2>2, <4>1 DEF Less
      <4>3. CountOf(b, "old", y) = 0
        BY <2>3, <4>2 DEF IsMatched, UsesUp, CountsDown, CountsAs, OtherSide
      <4>4. QED
        BY <4>1, <4>3
    <3>2. CASE Key(y) # Key(x)
      BY <1>3, <2>2, <2>3, <3>2 DEF OthersStay
    <3>3. QED
      BY <3>1, <3>2
  <2>6. QED
    BY <2>2, <2>4, <2>5
<1>4. 0..m \subseteq T
  <2>1. \A n \in 0..m - 1 : n \in T => n + 1 \in T
    <3>1. \A n \in 0..m - 1 : n + 1 \in 0..m
      OBVIOUS
    <3> HIDE DEF NoOld
    <3>2. QED
      BY <1>3, <3>1
  <2> HIDE DEF T
  <2>2. QED
    BY <1>1, <1>2, <2>1, CountingUp
<1>5. QED
  BY <1>1, <1>4

(* The content of an empty object; "{}" itself is beyond the prover.       *)
Hollow == "{}"

IsCombination(history, new, places) ==
    /\ places \in Seq(({"old"} \X (1..Len(history))) \cup ({"new"} \X (1..Len(new)))
                      \cup ({"made"} \X Contents))
    /\ \A i, j \in DOMAIN places : places[i] = places[j] /\ places[i][1] # "made" => i = j

IsCombined(history, new, places, combined) ==
    combined = [i \in DOMAIN places |-> ItemAt(history, new, places[i])]

(* The seeded items, and what a callback returns.                          *)
IsSeeded(items, first, s) ==
    /\ s \in Seq(SessionItems) /\ Len(s) = Len(items)
    /\ \A q \in 1..Len(s) : s[q].content = items[q]
                            /\ s[q].tag = IF items[q] = Hollow THEN first + q ELSE 0
LEMMA SeededIs ==
    ASSUME NEW items \in Seq(Contents), NEW first \in Nat
    PROVE  IsSeeded(items, first, Seeded(items, first))
<1>1. PICK n \in Nat : n = Len(items) /\ DOMAIN items = 1..n
  OBVIOUS
<1>2. PICK s : s = Seeded(items, first)
  OBVIOUS
<1>3. \A q \in 1..n : items[q] \in Contents
  BY <1>1
<1>4. DOMAIN s = 1..n /\ \A q \in 1..n :
          s[q] = [content |-> items[q], tag |-> IF items[q] = Hollow THEN first + q ELSE 0]
  BY <1>1, <1>2 DEF Seeded, Hollow
<1>5. \A q \in 1..n : s[q] \in SessionItems
  BY <1>3, <1>4 DEF SessionItems
<1>6. s \in [1..n -> SessionItems]
  <2>1. s = [q \in 1..n |-> [content |-> items[q],
                             tag |-> IF items[q] = Hollow THEN first + q ELSE 0]]
    BY <1>1, <1>2 DEF Seeded, Hollow
  <2>2. QED
    BY <1>4, <1>5, <2>1
<1>7. s \in Seq(SessionItems) /\ Len(s) = n
  BY <1>6
<1>8. QED
  BY <1>1, <1>2, <1>4, <1>7 DEF IsSeeded

PlaceIs(history, new, place, x) ==
    \/ /\ place[1] = "old" /\ place[2] \in 1..Len(history) /\ x = history[place[2]]
       /\ place = <<"old", place[2]>>
    \/ /\ place[1] = "new" /\ place[2] \in 1..Len(new) /\ x = new[place[2]]
       /\ place = <<"new", place[2]>>
    \/ place[1] = "made" /\ place[2] \in Contents /\ x = [content |-> place[2], tag |-> 0]
LEMMA CombinedIs ==
    ASSUME NEW history \in Seq(SessionItems), NEW new \in Seq(SessionItems),
           NEW places, IsCombination(history, new, places),
           NEW combined, IsCombined(history, new, places, combined)
    PROVE  /\ combined \in Seq(SessionItems) /\ DOMAIN places = 1..Len(combined)
           /\ DOMAIN combined = 1..Len(combined)
           /\ \A i \in 1..Len(combined) : PlaceIs(history, new, places[i], combined[i])
<1>1. PICK n \in Nat : n = Len(places) /\ DOMAIN places = 1..n
  BY DEF IsCombination
<1>2. \A i \in 1..n : places[i] \in ({"old"} \X (1..Len(history))) \cup ({"new"} \X (1..Len(new)))
                                    \cup ({"made"} \X Contents)
  BY <1>1 DEF IsCombination
<1>3. ASSUME NEW i \in 1..n
      PROVE  PlaceIs(history, new, places[i], combined[i]) /\ combined[i] \in SessionItems
  <2>1. combined[i] = ItemAt(history, new, places[i])
    BY <1>1 DEF IsCombined
  <2>2. CASE places[i] \in {"old"} \X (1..Len(history))
    <3>1. /\ places[i][1] = "old" /\ places[i][2] \in 1..Len(history)
          /\ places[i] = <<"old", places[i][2]>>
      BY <2>2
    <3>2. combined[i] = history[places[i][2]]
      BY <2>1, <3>1 DEF ItemAt
    <3>3. QED
      BY <3>1, <3>2 DEF PlaceIs
  <2>3. CASE places[i] \in {"new"} \X (1..Len(new))
    <3>1. /\ places[i][1] = "new" /\ places[i][2] \in 1..Len(new)
          /\ places[i] = <<"new", places[i][2]>>
      BY <2>3
    <3>2. combined[i] = new[places[i][2]]
      BY <2>1, <3>1 DEF ItemAt
    <3>3. QED
      BY <3>1, <3>2 DEF PlaceIs
  <2>4. CASE places[i] \in {"made"} \X Contents
    <3>1. places[i][1] = "made" /\ places[i][2] \in Contents
      BY <2>4
    <3>2. combined[i] = [content |-> places[i][2], tag |-> 0]
      BY <2>1, <3>1 DEF ItemAt
    <3>3. QED
      BY <3>1, <3>2 DEF PlaceIs, SessionItems
  <2>5. QED
    BY <1>2, <2>2, <2>3, <2>4
<1>4. combined \in [1..n -> SessionItems]
  BY <1>1, <1>3 DEF IsCombined
<1>5. combined \in Seq(SessionItems) /\ Len(combined) = n
  BY <1>4
<1>6. QED
  BY <1>1, <1>3, <1>5

(* Recognised by itself: an item of one side that is there.                *)
LEMMA OnceIsReferred ==
    ASSUME NEW s \in Seq(SessionItems), NEW q \in 1..Len(s), HasIdentity(s[q])
    PROVE  s[q] \in WithIdentity(s) /\ Cardinality({n \in DOMAIN s : s[n] = s[q]}) > 0
<1>1. PICK A : A = {n \in DOMAIN s : s[n] = s[q]}
  OBVIOUS
<1>2. A \subseteq 1..Len(s) /\ q \in A /\ Len(s) \in Nat
  BY <1>1
<1>3. IsFiniteSet(A) /\ Cardinality(A) \in Nat
  BY <1>2, PlacesAreCounted
<1>4. Cardinality(A) # 0
  BY <1>2, <1>3, FS_EmptySet
<1>5. QED
  BY <1>1, <1>2, <1>3, <1>4 DEF WithIdentity, ToSet

LEMMA EmptiesApart ==
    ASSUME NEW old \in Seq(Contents), NEW added \in Seq(Contents),
           NEW history, IsSeeded(old, 0, history), NEW new, IsSeeded(added, Len(old), new),
           NEW places, IsCombination(history, new, places),
           NEW combined, IsCombined(history, new, places, combined),
           NEW f, Loops(f, history, new, combined),
           Runs(f, WithIdentity(history), WithIdentity(new), combined),
           NEW i \in 1..Len(combined), Key(combined[i]) = Hollow
    PROVE  /\ places[i][1] = "new" => i \in SavesAt(f, combined)
           /\ places[i][1] = "old" => i \notin SavesAt(f, combined)
           /\ places[i][1] = "made" /\ Occurs(history, Hollow) = 0 => i \in SavesAt(f, combined)
<1>1. /\ history \in Seq(SessionItems) /\ new \in Seq(SessionItems)
      /\ Len(history) = Len(old) /\ Len(new) = Len(added)
      /\ \A q \in 1..Len(history) : history[q].tag = IF history[q].content = Hollow THEN q ELSE 0
      /\ \A q \in 1..Len(new) : new[q].tag = IF new[q].content = Hollow THEN Len(old) + q ELSE 0
  BY DEF IsSeeded
<1>2. /\ combined \in Seq(SessionItems) /\ DOMAIN places = 1..Len(combined)
      /\ DOMAIN combined = 1..Len(combined)
      /\ \A j \in 1..Len(combined) : PlaceIs(history, new, places[j], combined[j])
  BY <1>1, CombinedIs
<1>3. PICK x : x = combined[i] /\ x \in SessionItems /\ x.content = Hollow
  <2>1. PICK x : x = combined[i]
    OBVIOUS
  <2>2. x \in SessionItems
    BY <1>2, <2>1
  <2>3. x.content = Hollow
    BY <2>1, Zenon DEF Key
  <2>4. QED
    BY <2>1, <2>2, <2>3
<1>4. IsStart(f[0], history, new)
  BY DEF Loops
<1>5. /\ RefOf(f[0], "old", x) = IF x \in WithIdentity(history)
                                 THEN Cardinality({n \in DOMAIN history : history[n] = x}) ELSE 0
      /\ RefOf(f[0], "new", x) = IF x \in WithIdentity(new)
                                 THEN Cardinality({n \in DOMAIN new : new[n] = x}) ELSE 0
      /\ CountOf(f[0], "old", x) = Occurs(history, Hollow)
  BY <1>3, <1>4 DEF IsStart, Key
<1>6. /\ IsMatched(f[i - 1], x, f[i])
      /\ i \in SavesAt(f, combined) <=> Saves(f[i - 1], x, f[i])
      /\ i \notin SavesAt(f, combined) <=> Drops(f[i - 1], f[i])
  BY <1>2, <1>3, StepIs
<1>7. HasIdentity(x) <=> x.tag # 0
  BY <1>3 DEF HasIdentity, Hollow
<1>8. \A j \in 1..Len(combined) : combined[j] = x /\ x.tag # 0 => j = i
  <2>1. SUFFICES ASSUME NEW j \in 1..Len(combined), combined[j] = x, x.tag # 0 PROVE j = i
    OBVIOUS
  <2>2. PlaceIs(history, new, places[j], x) /\ PlaceIs(history, new, places[i], x)
    BY <1>2, <1>3, <2>1
  <2>3. \A q : q \in 1..Len(history) /\ x = history[q] => x.tag = q
    BY <1>1, <1>3
  <2>4. \A q : q \in 1..Len(new) /\ x = new[q] => x.tag = Len(old) + q
    BY <1>1, <1>3
  <2>5. \A p : PlaceIs(history, new, p, x)
                   => \/ p = <<"old", x.tag>> /\ x.tag <= Len(old)
                      \/ p = <<"new", x.tag - Len(old)>> /\ x.tag > Len(old)
    <3>1. Len(old) \in Nat
      OBVIOUS
    <3>2. SUFFICES ASSUME NEW p, PlaceIs(history, new, p, x)
                   PROVE  \/ p = <<"old", x.tag>> /\ x.tag <= Len(old)
                          \/ p = <<"new", x.tag - Len(old)>> /\ x.tag > Len(old)
      OBVIOUS
    <3>3. CASE p[2] \in 1..Len(history) /\ x = history[p[2]] /\ p = <<"old", p[2]>>
      <4>1. x.tag = p[2] /\ x.tag <= Len(old)
        BY <1>1, <2>3, <3>1, <3>3
      <4>2. QED
        BY <3>3, <4>1
    <3>4. CASE p[2] \in 1..Len(new) /\ x = new[p[2]] /\ p = <<"new", p[2]>>
      <4>1. x.tag = Len(old) + p[2] /\ p[2] \in Nat \ {0}
        BY <1>1, <2>4, <3>1, <3>4
      <4>2. p[2] = x.tag - Len(old) /\ x.tag > Len(old)
        BY <3>1, <4>1
      <4>3. QED
        BY <3>4, <4>2
    <3>5. CASE x = [content |-> p[2], tag |-> 0]
      BY <2>1, <3>5
    <3>6. QED
      BY <3>2, <3>3, <3>4, <3>5 DEF PlaceIs
  <2>6. places[i] = places[j] /\ places[i][1] # "made"
    <3>1. \/ places[i] = <<"old", x.tag>> /\ places[j] = <<"old", x.tag>>
          \/ places[i] = <<"new", x.tag - Len(old)>> /\ places[j] = <<"new", x.tag - Len(old)>>
      <4>1. Len(old) \in Nat /\ x.tag \in Nat
        BY <1>3 DEF SessionItems
      <4>2. QED
        BY <2>2, <2>5, <4>1
    <3>2. \A q : <<"old", q>>[1] # "made" /\ <<"new", q>>[1] # "made"
      OBVIOUS
    <3>3. QED
      BY <3>1, <3>2
  <2>7. i \in DOMAIN places /\ j \in DOMAIN places
    BY <1>2
  <2>8. QED
    BY <2>6, <2>7 DEF IsCombination
<1>9. x.tag # 0 => /\ RefOf(f[i - 1], "old", x) = RefOf(f[0], "old", x)
                     /\ RefOf(f[i - 1], "new", x) = RefOf(f[0], "new", x)
  <2>1. SUFFICES ASSUME x.tag # 0
                 PROVE  Refers(f[0], x, f[i - 1])
    BY DEF Refers
  <2>2. NotBefore(x, combined, i)
    <3>1. \A j \in 1..i - 1 : j \in 1..Len(combined) /\ j # i
      BY <1>2
    <3>2. QED
      BY <1>8, <2>1, <3>1 DEF NotBefore
  <2>3. QED
    <3>1. PICK D, E : Runs(f, D, E, combined)
      OBVIOUS
    <3>2. combined \in Seq(SessionItems) /\ x \in SessionItems
      BY <1>2, <1>3
    <3>3. QED
      BY <2>2, <3>1, <3>2, RefStays, Zenon
<1>10. ASSUME places[i][1] = "new" PROVE i \in SavesAt(f, combined)
  <2>1. PICK q \in 1..Len(new) : x = new[q]
    BY <1>2, <1>3, <1>10 DEF PlaceIs
  <2>2. x.tag = Len(old) + q /\ x.tag # 0 /\ HasIdentity(x)
    <3>1. Len(old) \in Nat /\ x.tag = Len(old) + q
      BY <1>1, <1>3, <2>1
    <3>2. QED
      BY <1>7, <2>1, <3>1
  <2>3. RefOf(f[i - 1], "new", x) > 0
    BY <1>1, <1>5, <1>9, <2>1, <2>2, OnceIsReferred
  <2>4. Saves(f[i - 1], x, f[i])
    BY <1>6, <2>3 DEF IsMatched
  <2>5. QED
    BY <1>6, <2>4
<1>11. ASSUME places[i][1] = "old" PROVE i \notin SavesAt(f, combined)
  <2>1. PICK q \in 1..Len(history) : x = history[q]
    BY <1>2, <1>3, <1>11 DEF PlaceIs
  <2>2. x.tag = q /\ x.tag # 0 /\ x.tag <= Len(old) /\ HasIdentity(x)
    <3>1. x.tag = q
      BY <1>1, <1>3, <2>1
    <3>2. QED
      BY <1>1, <1>7, <2>1, <3>1
  <2>3. RefOf(f[i - 1], "old", x) > 0
    BY <1>1, <1>5, <1>9, <2>1, <2>2, OnceIsReferred
  <2>4. RefOf(f[i - 1], "new", x) = 0
    <3>1. \A n \in 1..Len(new) : new[n] # x
      <4>1. SUFFICES ASSUME NEW n \in 1..Len(new), new[n] = x PROVE FALSE
        OBVIOUS
      <4>2. x.tag = Len(old) + n /\ Len(old) \in Nat /\ n \in Nat \ {0}
        BY <1>1, <1>3, <4>1
      <4>3. QED
        BY <2>2, <4>2
    <3>2. x \notin WithIdentity(new)
      <4>1. DOMAIN new = 1..Len(new)
        BY <1>1
      <4>2. QED
        BY <3>1, <4>1 DEF WithIdentity, ToSet
    <3>3. QED
      BY <1>5, <1>9, <2>2, <3>2
  <2>5. Drops(f[i - 1], f[i])
    BY <1>6, <2>3, <2>4 DEF IsMatched
  <2>6. QED
    BY <1>6, <2>5
<1>12. ASSUME places[i][1] = "made", Occurs(history, Hollow) = 0 PROVE i \in SavesAt(f, combined)
  <2>1. x.tag = 0
    <3>1. PlaceIs(history, new, places[i], x)
      BY <1>2, <1>3
    <3>2. x = [content |-> places[i][2], tag |-> 0]
      BY <1>12, <3>1 DEF PlaceIs
    <3>3. QED
      BY <3>2
  <2>2. x \notin WithIdentity(history) /\ x \notin WithIdentity(new)
    BY <1>7, <2>1 DEF WithIdentity
  <2>3. /\ RefOf(f[0], "old", x) = 0 /\ RefOf(f[0], "new", x) = 0 /\ CountOf(f[0], "old", x) = 0
    BY <1>5, <1>12, <2>2
  <2>4. /\ CountOf(f[i - 1], "old", x) = 0
        /\ RefOf(f[i - 1], "old", x) = 0 /\ RefOf(f[i - 1], "new", x) = 0
    <3>1. PICK D, E : Runs(f, D, E, combined)
      OBVIOUS
    <3>2. combined \in Seq(SessionItems) /\ x \in SessionItems
      BY <1>2, <1>3
    <3>3. QED
      BY <2>3, <3>1, <3>2, NoneStays, Zenon
  <2>5. Saves(f[i - 1], x, f[i])
    BY <1>6, <2>4 DEF IsMatched
  <2>6. QED
    BY <1>6, <2>5
<1>13. QED
  BY <1>10, <1>11, <1>12

(* How many of the items with one key are of which origin.                 *)
PlacesFrom(places, items, side, k) == {i \in DOMAIN places : places[i][1] = side /\ Key(items[i]) = k}

LEMMA FromOneSide ==
    ASSUME NEW s \in Seq(SessionItems), NEW places, NEW combined, NEW side, NEW k,
           NEW m \in Nat, DOMAIN places = 1..m,
           \A i, j \in 1..m : places[i] = places[j] /\ places[i][1] = side => i = j,
           \A i \in 1..m : places[i][1] = side =>
               /\ places[i] = <<side, places[i][2]>>
               /\ places[i][2] \in 1..Len(s) /\ combined[i] = s[places[i][2]]
    PROVE  /\ From(places, combined, side, k) \in Nat /\ Occurs(s, k) \in Nat
           /\ From(places, combined, side, k) <= Occurs(s, k)
<1>1. PICK A, B : A = PlacesFrom(places, combined, side, k) /\ B = PlacesWith(s, k)
  OBVIOUS
<1>2. DOMAIN s = 1..Len(s) /\ Len(s) \in Nat
  OBVIOUS
<1>3. A \subseteq 1..m /\ B \subseteq 1..Len(s)
  BY <1>1, <1>2 DEF PlacesFrom, PlacesWith
<1>4. /\ IsFiniteSet(A) /\ Cardinality(A) \in Nat /\ IsFiniteSet(B) /\ Cardinality(B) \in Nat
  BY <1>2, <1>3, PlacesAreCounted
<1>5. PICK p : p = [i \in A |-> places[i][2]]
  OBVIOUS
<1>6. \A x \in A : p[x] \in B
  BY <1>1, <1>2, <1>3, <1>5 DEF PlacesFrom, PlacesWith
<1>7. \A x, y \in A : p[x] = p[y] => x = y
  <2>1. SUFFICES ASSUME NEW x \in A, NEW y \in A, p[x] = p[y] PROVE x = y
    OBVIOUS
  <2>2. /\ x \in 1..m /\ y \in 1..m /\ places[x][1] = side /\ places[y][1] = side
        /\ places[x][2] = places[y][2]
    BY <1>1, <1>3, <1>5, <2>1 DEF PlacesFrom
  <2>3. places[x] = <<side, places[x][2]>> /\ places[y] = <<side, places[x][2]>>
    BY <2>2
  <2>4. places[x] = places[y]
    BY <2>3
  <2>5. QED
    BY <2>2, <2>4, Zenon
<1>8. Cardinality(A) <= Cardinality(B)
  BY <1>4, <1>6, <1>7, NotMore
<1>9. From(places, combined, side, k) = Cardinality(A) /\ Occurs(s, k) = Cardinality(B)
  BY <1>1 DEF From, Occurs, PlacesFrom, PlacesWith
<1>10. QED
  BY <1>4, <1>8, <1>9

ArePartsOf(n, A, B, C) ==
    /\ A \subseteq 1..n /\ B \subseteq 1..n /\ C \subseteq 1..n
    /\ A \cap B = {} /\ A \cap C = {} /\ B \cap C = {}
AddUp(A, B, C) ==
    /\ Cardinality(A \cup B) = Cardinality(A) + Cardinality(B)
    /\ Cardinality(A \cup B \cup C) = Cardinality(A) + Cardinality(B) + Cardinality(C)
    /\ Cardinality(A) \in Nat /\ Cardinality(B) \in Nat /\ Cardinality(C) \in Nat
LEMMA ThreeParts ==
    ASSUME NEW n \in Nat, NEW A, NEW B, NEW C, ArePartsOf(n, A, B, C)
    PROVE  AddUp(A, B, C)
<1>1. /\ IsFiniteSet(A) /\ Cardinality(A) \in Nat /\ IsFiniteSet(B) /\ Cardinality(B) \in Nat
      /\ IsFiniteSet(C) /\ Cardinality(C) \in Nat
  BY PlacesAreCounted DEF ArePartsOf
<1>2. IsFiniteSet(A \cup B) /\ Cardinality(A \cup B) = Cardinality(A) + Cardinality(B)
  <2>1. /\ IsFiniteSet(A \cup B)
        /\ Cardinality(A \cup B) = Cardinality(A) + Cardinality(B) - Cardinality(A \cap B)
    BY <1>1, FS_Union
  <2>2. Cardinality(A \cap B) = 0
    BY FS_EmptySet DEF ArePartsOf
  <2>3. QED
    BY <1>1, <2>1, <2>2
<1>3. Cardinality((A \cup B) \cup C) = Cardinality(A \cup B) + Cardinality(C)
  <2>1. /\ Cardinality((A \cup B) \cup C)
             = Cardinality(A \cup B) + Cardinality(C) - Cardinality((A \cup B) \cap C)
    BY <1>1, <1>2, FS_Union
  <2>2. (A \cup B) \cap C = {}
    BY DEF ArePartsOf
  <2>3. Cardinality((A \cup B) \cap C) = 0
    BY <2>2, FS_EmptySet
  <2>4. QED
    BY <1>1, <1>2, <2>1, <2>3
<1>4. QED
  BY <1>1, <1>2, <1>3 DEF AddUp

IsParted(history, new, places, combined, k) ==
    /\ From(places, combined, "new", k) \in Nat /\ From(places, combined, "made", k) \in Nat
    /\ From(places, combined, "old", k) \in Nat
    /\ Occurs(new, k) \in Nat /\ Occurs(history, k) \in Nat
    /\ From(places, combined, "new", k) <= Occurs(new, k)
    /\ From(places, combined, "old", k) <= Occurs(history, k)
    /\ Cardinality(PlacesWith(combined, k)) = From(places, combined, "new", k)
           + From(places, combined, "made", k) + From(places, combined, "old", k)
LEMMA PartedIs ==
    ASSUME NEW history \in Seq(SessionItems), NEW new \in Seq(SessionItems),
           NEW places, IsCombination(history, new, places),
           NEW combined, IsCombined(history, new, places, combined), NEW k
    PROVE  /\ IsParted(history, new, places, combined, k)
           /\ PlacesWith(combined, k) = PlacesFrom(places, combined, "new", k)
                  \cup PlacesFrom(places, combined, "made", k)
                  \cup PlacesFrom(places, combined, "old", k)
<1>1. PICK m \in Nat : DOMAIN places = 1..m /\ DOMAIN combined = 1..m
  BY CombinedIs
<1>2. \A i \in 1..m : PlaceIs(history, new, places[i], combined[i])
  <2>1. /\ DOMAIN combined = 1..Len(combined)
        /\ \A i \in 1..Len(combined) : PlaceIs(history, new, places[i], combined[i])
    BY CombinedIs
  <2>2. QED
    BY <1>1, <2>1
<1>3. \A i, j \in 1..m : places[i] = places[j] /\ places[i][1] # "made" => i = j
  BY <1>1 DEF IsCombination
<1>4. PICK A, B, C : /\ A = PlacesFrom(places, combined, "new", k)
                     /\ B = PlacesFrom(places, combined, "made", k)
                     /\ C = PlacesFrom(places, combined, "old", k)
  OBVIOUS
<1>5. A \subseteq 1..m /\ B \subseteq 1..m /\ C \subseteq 1..m
  BY <1>1, <1>4 DEF PlacesFrom
<1>6. A \cap B = {} /\ A \cap C = {} /\ B \cap C = {}
  BY <1>4 DEF PlacesFrom
<1>7. PlacesWith(combined, k) = A \cup B \cup C
  <2>1. \A i \in 1..m : places[i][1] \in {"new", "made", "old"}
    BY <1>2 DEF PlaceIs
  <2>2. QED
    BY <1>1, <1>4, <2>1 DEF PlacesWith, PlacesFrom
<1>8. /\ Cardinality(A) = From(places, combined, "new", k)
      /\ Cardinality(B) = From(places, combined, "made", k)
      /\ Cardinality(C) = From(places, combined, "old", k)
  BY <1>4 DEF PlacesFrom, From
<1>9. /\ From(places, combined, "new", k) \in Nat /\ Occurs(new, k) \in Nat
      /\ From(places, combined, "new", k) <= Occurs(new, k)
  <2>1. \A i, j \in 1..m : places[i] = places[j] /\ places[i][1] = "new" => i = j
    BY <1>3
  <2>2. \A i \in 1..m : places[i][1] = "new" =>
               /\ places[i] = <<"new", places[i][2]>>
               /\ places[i][2] \in 1..Len(new) /\ combined[i] = new[places[i][2]]
    BY <1>2 DEF PlaceIs
  <2>3. QED
    BY <1>1, <2>1, <2>2, FromOneSide
<1>10. /\ From(places, combined, "old", k) \in Nat /\ Occurs(history, k) \in Nat
       /\ From(places, combined, "old", k) <= Occurs(history, k)
  <2>1. \A i, j \in 1..m : places[i] = places[j] /\ places[i][1] = "old" => i = j
    BY <1>3
  <2>2. \A i \in 1..m : places[i][1] = "old" =>
               /\ places[i] = <<"old", places[i][2]>>
               /\ places[i][2] \in 1..Len(history) /\ combined[i] = history[places[i][2]]
    BY <1>2 DEF PlaceIs
  <2>3. QED
    BY <1>1, <2>1, <2>2, FromOneSide
<1>11. /\ Cardinality(A \cup B \cup C) = Cardinality(A) + Cardinality(B) + Cardinality(C)
       /\ Cardinality(B) \in Nat
  <2>1. ArePartsOf(m, A, B, C)
    BY <1>5, <1>6 DEF ArePartsOf
  <2>2. AddUp(A, B, C)
    BY <1>1, <2>1, ThreeParts, Zenon
  <2>3. QED
    BY <2>2 DEF AddUp
<1>12. IsParted(history, new, places, combined, k)
  BY <1>7, <1>8, <1>9, <1>10, <1>11 DEF IsParted
<1>13. QED
  BY <1>4, <1>7, <1>12

(* What is promised of the items with one key.                             *)
NewOf(kept, own, again, held, brought, saved) ==
    /\ saved >= kept
    /\ held = 0 => saved = kept + own
    /\ brought = 0 /\ own = 0 => saved = 0
    /\ saved <= kept + own + again /\ saved <= brought + own
LEMMA SavedOfIsNew ==
    ASSUME NEW kept \in Nat, NEW own \in Nat, NEW again \in Nat, NEW held \in Nat,
           NEW brought \in Nat, kept <= brought, again <= held, NEW saved,
           saved = SavedOf(brought, held, kept + own + again)
    PROVE  NewOf(kept, own, again, held, brought, saved)
<1>1. CASE kept + own + again <= brought
  BY <1>1 DEF SavedOf, NewOf
<1>2. CASE kept + own + again > brought /\ kept + own + again <= brought + held
  BY <1>2 DEF SavedOf, NewOf
<1>3. CASE kept + own + again > brought + held
  BY <1>3 DEF SavedOf, NewOf
<1>4. kept + own + again \in Nat /\ brought + held \in Nat
  OBVIOUS
<1>5. QED
  BY <1>1, <1>2, <1>3, <1>4

LEMMA ContentsAre == Contents = {"a", "b", "number", Hollow} /\ Hollow \notin {"a", "b", "number"}
<1>1. "a" # "{}" /\ "b" # "{}" /\ "number" # "{}"
  BY Zenon
<1>2. QED
  BY <1>1, Zenon DEF Contents, Hollow

(* Without a tag the key is all there is to an item.                       *)
LEMMA OneOfAKey ==
    ASSUME NEW old \in Seq(Contents), NEW added \in Seq(Contents),
           NEW history, IsSeeded(old, 0, history), NEW new, IsSeeded(added, Len(old), new),
           NEW places, IsCombination(history, new, places),
           NEW combined, IsCombined(history, new, places, combined),
           NEW k \in {"a", "b", "number"}, NEW x, x = [content |-> k, tag |-> 0]
    PROVE  OnlyOne(history, k, x) /\ OnlyOne(new, k, x) /\ OnlyOne(combined, k, x)
<1>1. k # Hollow
  BY ContentsAre
<1>2. \A y \in SessionItems : Key(y) = k /\ y.tag = 0 => y = x
  BY DEF Key, SessionItems
<1>3. ASSUME NEW s, NEW items, NEW first, IsSeeded(items, first, s), NEW q \in 1..Len(s),
             Key(s[q]) = k
      PROVE  s[q] = x
  <2>1. s \in Seq(SessionItems) /\ s[q].tag = IF s[q].content = Hollow THEN first + q ELSE 0
    BY <1>3 DEF IsSeeded
  <2>2. s[q] \in SessionItems /\ s[q].tag = 0
    BY <1>1, <1>3, <2>1 DEF Key
  <2>3. QED
    BY <1>2, <1>3, <2>2
<1>4. /\ \A q \in 1..Len(history) : Key(history[q]) = k => history[q] = x
      /\ \A q \in 1..Len(new) : Key(new[q]) = k => new[q] = x
  BY <1>3
<1>5. history \in Seq(SessionItems) /\ new \in Seq(SessionItems)
  BY DEF IsSeeded
<1>6. OnlyOne(history, k, x) /\ OnlyOne(new, k, x)
  <2>1. DOMAIN history = 1..Len(history) /\ DOMAIN new = 1..Len(new)
    BY <1>5
  <2>2. \A y \in ToSet(history) : \E q \in 1..Len(history) : y = history[q]
    BY <2>1 DEF ToSet
  <2>3. \A y \in ToSet(new) : \E q \in 1..Len(new) : y = new[q]
    BY <2>1 DEF ToSet
  <2>4. QED
    BY <1>4, <2>2, <2>3 DEF OnlyOne
<1>7. OnlyOne(combined, k, x)
  <2>1. SUFFICES ASSUME NEW y \in ToSet(combined), Key(y) = k PROVE y = x
    BY DEF OnlyOne
  <2>2. /\ DOMAIN combined = 1..Len(combined) /\ combined \in Seq(SessionItems)
        /\ \A i \in 1..Len(combined) : PlaceIs(history, new, places[i], combined[i])
    BY <1>5, CombinedIs
  <2>3. PICK i \in 1..Len(combined) : y = combined[i]
    BY <2>1, <2>2 DEF ToSet
  <2>4. PlaceIs(history, new, places[i], y)
    BY <2>2, <2>3
  <2>5. \/ \E q \in 1..Len(history) : y = history[q]
        \/ \E q \in 1..Len(new) : y = new[q]
        \/ y.tag = 0
    BY <2>4 DEF PlaceIs
  <2>6. y \in SessionItems
    BY <2>2, <2>3
  <2>7. QED
    BY <1>2, <1>4, <2>1, <2>5, <2>6
<1>8. QED
  BY <1>6, <1>7

KeptOf(places, combined, k) == From(places, combined, "new", k)
OwnOf(places, combined, k) == From(places, combined, "made", k)
AgainOf(places, combined, k) == From(places, combined, "old", k)
IsNewFor(history, new, places, combined, saved, k) ==
    /\ NewOf(KeptOf(places, combined, k), OwnOf(places, combined, k),
             AgainOf(places, combined, k), Occurs(history, k), Occurs(new, k), saved)
    /\ OwnOf(places, combined, k) = 0 /\ k = Hollow => saved = KeptOf(places, combined, k)

LEMMA AlikeIsNew ==
    ASSUME NEW old \in Seq(Contents), NEW added \in Seq(Contents),
           NEW history, IsSeeded(old, 0, history), NEW new, IsSeeded(added, Len(old), new),
           NEW places, IsCombination(history, new, places),
           NEW combined, IsCombined(history, new, places, combined),
           NEW f, Loops(f, history, new, combined),
           Runs(f, WithIdentity(history), WithIdentity(new), combined),
           NEW k \in Contents, k # Hollow
    PROVE  IsNewFor(history, new, places, combined,
                    Cardinality(SavesAt(f, combined) \cap PlacesWith(combined, k)), k)
<1>1. /\ history \in Seq(SessionItems) /\ new \in Seq(SessionItems)
      /\ combined \in Seq(SessionItems)
  <2>1. history \in Seq(SessionItems) /\ new \in Seq(SessionItems)
    BY DEF IsSeeded
  <2>2. QED
    BY <2>1, CombinedIs
<1>2. PICK x : x = [content |-> k, tag |-> 0]
  OBVIOUS
<1>3. k \in {"a", "b", "number"}
  BY ContentsAre
<1>4. OnlyOne(history, k, x) /\ OnlyOne(new, k, x) /\ OnlyOne(combined, k, x)
  BY <1>2, <1>3, OneOfAKey, Zenon
<1>5. SavesAsMany(f, history, new, combined, k)
  BY <1>1, <1>2, <1>4, <1>3, KeyedAlike, Zenon
<1>6. PICK K : K = PlacesWith(combined, k)
  OBVIOUS
<1>7. Cardinality(SavesAt(f, combined) \cap K)
          = SavedOf(Occurs(new, k), Occurs(history, k), Cardinality(K))
  BY <1>5, <1>6 DEF SavesAsMany
<1>8. PlacesWith(combined, k) = K
  BY <1>6
<1>9. IsParted(history, new, places, combined, k)
  BY <1>1, PartedIs
<1>10. PICK n, o, a, h, b, t :
          /\ n = KeptOf(places, combined, k) /\ o = OwnOf(places, combined, k)
          /\ a = AgainOf(places, combined, k) /\ h = Occurs(history, k)
          /\ b = Occurs(new, k) /\ t = Cardinality(SavesAt(f, combined) \cap K)
  OBVIOUS
<1>11. /\ n \in Nat /\ o \in Nat /\ a \in Nat /\ h \in Nat /\ b \in Nat /\ n <= b /\ a <= h
       /\ Cardinality(K) = n + o + a
  BY <1>8, <1>9, <1>10 DEF IsParted, KeptOf, OwnOf, AgainOf
<1>12. t = SavedOf(b, h, n + o + a)
  BY <1>7, <1>10, <1>11
<1>13. NewOf(n, o, a, h, b, t)
  BY <1>11, <1>12, SavedOfIsNew
<1>14. QED
  BY <1>8, <1>10, <1>13 DEF IsNewFor

LEMMA HollowIsNew ==
    ASSUME NEW old \in Seq(Contents), NEW added \in Seq(Contents),
           NEW history, IsSeeded(old, 0, history), NEW new, IsSeeded(added, Len(old), new),
           NEW places, IsCombination(history, new, places),
           NEW combined, IsCombined(history, new, places, combined),
           NEW f, Loops(f, history, new, combined),
           Runs(f, WithIdentity(history), WithIdentity(new), combined)
    PROVE  IsNewFor(history, new, places, combined,
                    Cardinality(SavesAt(f, combined) \cap PlacesWith(combined, Hollow)), Hollow)
<1>1. /\ history \in Seq(SessionItems) /\ new \in Seq(SessionItems)
      /\ combined \in Seq(SessionItems)
  <2>1. history \in Seq(SessionItems) /\ new \in Seq(SessionItems)
    BY DEF IsSeeded
  <2>2. QED
    BY <2>1, CombinedIs
<1>2. PICK A, B, C : /\ A = PlacesFrom(places, combined, "new", Hollow)
                     /\ B = PlacesFrom(places, combined, "made", Hollow)
                     /\ C = PlacesFrom(places, combined, "old", Hollow)
  OBVIOUS
<1>3. PICK W, K : W = SavesAt(f, combined) /\ K = PlacesWith(combined, Hollow)
  OBVIOUS
<1>4. IsParted(history, new, places, combined, Hollow) /\ K = A \cup B \cup C
  BY <1>1, <1>2, <1>3, PartedIs
<1>5. PICK m \in Nat : m = Len(combined) /\ DOMAIN combined = 1..m /\ DOMAIN places = 1..m
  BY <1>1, CombinedIs
<1>6. /\ A \subseteq 1..m /\ B \subseteq 1..m /\ C \subseteq 1..m
      /\ A \cap B = {} /\ A \cap C = {} /\ B \cap C = {}
  BY <1>2, <1>5 DEF PlacesFrom
<1>7. \A i \in 1..m : Key(combined[i]) = Hollow =>
           /\ places[i][1] = "new" => i \in W
           /\ places[i][1] = "old" => i \notin W
           /\ places[i][1] = "made" /\ Occurs(history, Hollow) = 0 => i \in W
  BY <1>3, <1>5, EmptiesApart
<1>8. A \subseteq W /\ W \cap C = {} /\ (Occurs(history, Hollow) = 0 => B \subseteq W)
  BY <1>2, <1>5, <1>7 DEF PlacesFrom
<1>9. PICK n, o, a, h, b, t :
          /\ n = KeptOf(places, combined, Hollow) /\ o = OwnOf(places, combined, Hollow)
          /\ a = AgainOf(places, combined, Hollow) /\ h = Occurs(history, Hollow)
          /\ b = Occurs(new, Hollow) /\ t = Cardinality(W \cap K)
  OBVIOUS
<1>10. Cardinality(A) = n /\ Cardinality(B) = o /\ Cardinality(C) = a
  BY <1>2, <1>9 DEF PlacesFrom, From, KeptOf, OwnOf, AgainOf
<1>11. n \in Nat /\ o \in Nat /\ a \in Nat /\ h \in Nat /\ b \in Nat /\ n <= b /\ a <= h
  BY <1>4, <1>9 DEF IsParted, KeptOf, OwnOf, AgainOf
<1>12. PICK D : D = W \cap B
  OBVIOUS
<1>13. W \cap K = A \cup D /\ D \subseteq B
  BY <1>4, <1>8, <1>12
<1>14. t = n + Cardinality(D) /\ Cardinality(D) \in Nat
  <2>1. ArePartsOf(m, A, D, {})
    BY <1>6, <1>13 DEF ArePartsOf
  <2>2. AddUp(A, D, {})
    BY <1>5, <2>1, ThreeParts, Zenon
  <2>3. QED
    BY <1>9, <1>10, <1>13, <2>2 DEF AddUp
<1>15. Cardinality(D) <= o /\ (h = 0 => Cardinality(D) = o)
  <2>1. IsFiniteSet(B)
    BY <1>5, <1>6, PlacesAreCounted
  <2>2. Cardinality(D) <= Cardinality(B)
    BY <1>13, <2>1, FS_Subset
  <2>3. h = 0 => D = B
    BY <1>8, <1>9, <1>12
  <2>4. QED
    BY <1>10, <2>2, <2>3
<1>16. NewOf(n, o, a, h, b, t) /\ (o = 0 => t = n)
  BY <1>11, <1>14, <1>15 DEF NewOf
<1>17. QED
  BY <1>3, <1>9, <1>16 DEF IsNewFor

(* A session is given what is new to it, for histories and inputs of any   *)
(* length, whatever the callback keeps, drops, repeats, reorders or makes. *)
THEOREM EverySessionInputIsNew ==
    ASSUME NEW old \in Seq(Contents), NEW added \in Seq(Contents),
           NEW history, IsSeeded(old, 0, history), NEW new, IsSeeded(added, Len(old), new),
           NEW places, IsCombination(history, new, places),
           NEW combined, IsCombined(history, new, places, combined)
    PROVE  SessionInputIsNew(history, new, places, combined,
                             PrepareWithCallback(history, new, combined))
<1>1. history \in Seq(SessionItems) /\ new \in Seq(SessionItems)
  BY DEF IsSeeded
<1>2. combined \in Seq(SessionItems)
  BY <1>1, CombinedIs
<1>3. PICK f \in [0..Len(combined) -> Matches(WithIdentity(history), WithIdentity(new))] :
          /\ Loops(f, history, new, combined)
          /\ PrepareWithCallback(history, new, combined).saved = f[Len(combined)].saved
  BY <1>1, <1>2, LoopIs
<1>4. Runs(f, WithIdentity(history), WithIdentity(new), combined)
  BY <1>3 DEF Runs, Loops, IsStart
<1>5. PICK out : out = PrepareWithCallback(history, new, combined)
  OBVIOUS
<1>6. out.prepared = Prepared(combined)
  BY <1>5 DEF PrepareWithCallback, Prepared
<1>7. PICK W : W = SavesAt(f, combined)
  OBVIOUS
<1>8. W \subseteq DOMAIN combined
  BY <1>2, <1>7 DEF SavesAt
<1>9. /\ out.saved = Picked(out.prepared, W)
      /\ out.prepared \in Seq(SessionItems) /\ DOMAIN out.prepared = DOMAIN combined
      /\ \A i \in DOMAIN combined : out.prepared[i] = Stripped(combined[i])
  <2>1. /\ f[Len(combined)].saved = Picked(Prepared(combined), W)
        /\ Prepared(combined) \in Seq(SessionItems)
        /\ Len(Prepared(combined)) = Len(combined)
        /\ \A i \in DOMAIN combined : Prepared(combined)[i] = Stripped(combined[i])
    BY <1>2, <1>4, <1>7, SavedIs
  <2>2. DOMAIN Prepared(combined) = DOMAIN combined
    BY DEF Prepared
  <2>3. QED
    BY <1>3, <1>5, <1>6, <2>1, <2>2
<1>10. \A i \in DOMAIN out.prepared : out.prepared[i] = [content |-> combined[i].content,
                                                         tag |-> 0]
  <2>1. \A x \in SessionItems : Stripped(x) = [content |-> x.content, tag |-> 0]
    BY DEF SessionItems, Stripped
  <2>2. \A i \in DOMAIN combined : combined[i] \in SessionItems
    BY <1>2
  <2>3. QED
    BY <1>9, <2>1, <2>2
<1>11. \A k : Occurs(out.saved, k) = Cardinality(W \cap PlacesWith(combined, k))
  <2>1. SUFFICES ASSUME NEW k
                 PROVE  Occurs(out.saved, k) = Cardinality(W \cap PlacesWith(combined, k))
    OBVIOUS
  <2>2. PICK s : s = out.prepared
    OBVIOUS
  <2>3. s \in Seq(SessionItems) /\ W \in SUBSET DOMAIN s
    BY <1>8, <1>9, <2>2
  <2>4. Occurs(Picked(s, W), k) = Cardinality({i \in W : Key(s[i]) = k})
    BY <2>3, OccursPicked
  <2>5. \A i \in DOMAIN combined : Key(s[i]) = Key(combined[i])
    <3>1. \A x : [content |-> x, tag |-> 0].content = x
      OBVIOUS
    <3>2. QED
      BY <1>9, <1>10, <2>2, <3>1 DEF Key
  <2>6. {i \in W : Key(s[i]) = k} = W \cap PlacesWith(combined, k)
    BY <1>8, <2>5 DEF PlacesWith
  <2>7. QED
    BY <1>9, <2>2, <2>4, <2>6
<1>12. \A k \in Contents : IsNewFor(history, new, places, combined, Occurs(out.saved, k), k)
  <2>1. ASSUME NEW k \in Contents, k # Hollow
        PROVE  IsNewFor(history, new, places, combined,
                        Cardinality(SavesAt(f, combined) \cap PlacesWith(combined, k)), k)
    BY <1>3, <1>4, <2>1, AlikeIsNew, Zenon
  <2>2. IsNewFor(history, new, places, combined,
                 Cardinality(SavesAt(f, combined) \cap PlacesWith(combined, Hollow)), Hollow)
    BY <1>3, <1>4, HollowIsNew, Zenon
  <2>3. QED
    BY <1>7, <1>11, <2>1, <2>2
<1>13. \E some \in SUBSET DOMAIN combined : out.saved = Picked(out.prepared, some)
  BY <1>8, <1>9
<1>14. QED
  BY <1>5, <1>10, <1>12, <1>13, Zenon
     DEF SessionInputIsNew, IsNewFor, NewOf, KeptOf, OwnOf, AgainOf, Hollow

LEMMA CombineStep ==
    CombineInput => SessionInputIsNew(given'[1], given'[2], given'[3], given'[4], made')
<1>1. SUFFICES ASSUME CombineInput
               PROVE  SessionInputIsNew(given'[1], given'[2], given'[3], given'[4], made')
  OBVIOUS
<1>2. PICK old, added, history, new, places, combined :
          /\ old \in SeqOf(Contents, 2) /\ added \in SeqOf(Contents, 2)
          /\ history = Seeded(old, 0) /\ new = Seeded(added, Len(old))
          /\ places \in Combinations(history, new)
          /\ combined = [i \in DOMAIN places |-> ItemAt(history, new, places[i])]
          /\ given' = <<history, new, places, combined>>
          /\ made' = PrepareWithCallback(history, new, combined)
  BY <1>1 DEF CombineInput
<1>3. old \in Seq(Contents) /\ added \in Seq(Contents)
  BY <1>2, SeqOfIs
<1>4. IsSeeded(old, 0, history) /\ IsSeeded(added, Len(old), new)
  BY <1>2, <1>3, SeededIs
<1>5. history \in Seq(SessionItems) /\ new \in Seq(SessionItems)
  BY <1>4 DEF IsSeeded
<1>6. IsCombination(history, new, places)
  <2>1. PICK A, B, C : /\ A = {"old"} \X (1..Len(history)) /\ B = {"new"} \X (1..Len(new))
                       /\ C = {"made"} \X Contents
    OBVIOUS
  <2>2. PICK u, v : /\ u = [n \in 1..Len(history) |-> <<"old", n>>]
                    /\ v = [n \in 1..Len(new) |-> <<"new", n>>]
    OBVIOUS
  <2>3. Len(history) \in Nat /\ Len(new) \in Nat
    BY <1>5
  <2>4. u \in Seq(A \cup B) /\ v \in Seq(A \cup B)
    BY <2>1, <2>2, <2>3
  <2>5. ToSet(u \o v) \subseteq A \cup B
    <3>1. u \o v \in Seq(A \cup B)
      BY <2>4
    <3>2. QED
      BY <3>1 DEF ToSet
  <2>6. {<<"made", c>> : c \in {"a", Hollow}} \subseteq C
    BY <2>1, ContentsAre
  <2>7. /\ places \in SeqOf(ToSet(u \o v) \cup {<<"made", c>> : c \in {"a", Hollow}}, 3)
        /\ \A i, j \in DOMAIN places : places[i] = places[j] /\ places[i][1] # "made" => i = j
    BY <1>2, <2>2, Zenon DEF Combinations, Hollow
  <2>8. PICK Z : Z = ToSet(u \o v) \cup {<<"made", c>> : c \in {"a", Hollow}}
    OBVIOUS
  <2>9. places \in Seq(Z)
    BY <2>7, <2>8, SeqOfIs
  <2>10. Z \subseteq A \cup B \cup C
    BY <2>5, <2>6, <2>8
  <2>11. places \in Seq(A \cup B \cup C)
    BY <2>9, <2>10
  <2>12. QED
    BY <2>1, <2>7, <2>11 DEF IsCombination
<1>7. IsCombined(history, new, places, combined)
  BY <1>2 DEF IsCombined
<1>8. SessionInputIsNew(history, new, places, combined,
                        PrepareWithCallback(history, new, combined))
  BY <1>3, <1>4, <1>6, <1>7, EverySessionInputIsNew, Zenon
<1>9. /\ given'[1] = history /\ given'[2] = new /\ given'[3] = places
      /\ given'[4] = combined /\ made' = PrepareWithCallback(history, new, combined)
  BY <1>2
<1>10. QED
  BY <1>8, <1>9

-----------------------------------------------------------------------------
(* What is carried over a handoff.                                         *)

(* Items that are no summaries; those of "quoted" role stand for a line    *)
(* below the first one of another item.                                    *)
TalkKinds == {"text", "message", "typed"}
TalkRoles == {"", "user", "system", "quoted"} \cup RunKinds
TalkLines == {"plain", "colon"}
Talk == [kind : TalkKinds, role : TalkRoles, lines : Seq(TalkLines), sums : {<<>>}]
OwnTalk == {x \in Talk : RoleShown(x) # "quoted"}

LEMMA TalkIs ==
    ASSUME NEW x \in Talk
    PROVE  /\ x.kind # "summary" /\ RoleShown(x) \in TalkRoles
           /\ LinesShown(x) \in Seq(TalkLines)
           /\ x.kind = "message" => RoleShown(x) = x.role /\ LinesShown(x) = x.lines
<1>1. x.kind \in TalkKinds /\ x.role \in TalkRoles /\ x.lines \in Seq(TalkLines)
  BY DEF Talk
<1>2. "user" \in TalkRoles
  BY DEF TalkRoles
<1>3. <<"colon">> \in Seq(TalkLines)
  BY DEF TalkLines
<1>4. QED
  BY <1>1, <1>2, <1>3 DEF TalkKinds, RoleShown, LinesShown

(* What is said of one item.                                               *)
First(x) == Said("message", RoleShown(x), <<Head(LinesShown(x))>>)
Speaks(x) == LinesShown(x) # <<>>
LEMMA FirstIs ==
    ASSUME NEW x \in Talk, Speaks(x)
    PROVE  /\ First(x) \in Talk /\ First(x).kind = "message" /\ First(x).role = RoleShown(x)
           /\ First(x).lines = <<Head(LinesShown(x))>> /\ Speaks(First(x))
           /\ RoleShown(First(x)) = RoleShown(x) /\ First(First(x)) = First(x)
<1>1. PICK l, r : l = LinesShown(x) /\ r = RoleShown(x)
  OBVIOUS
<1>2. l \in Seq(TalkLines) /\ l # <<>> /\ r \in TalkRoles
  BY <1>1, TalkIs DEF Speaks
<1>3. PICK h : h = Head(l)
  OBVIOUS
<1>4. h \in TalkLines
  BY <1>2, <1>3
<1>5. PICK y : y = Said("message", r, <<h>>)
  OBVIOUS
<1>6. y \in Talk /\ y.kind = "message" /\ y.role = r /\ y.lines = <<h>>
  <2>1. "message" \in TalkKinds /\ <<h>> \in Seq(TalkLines)
    BY <1>4 DEF TalkKinds
  <2>2. QED
    BY <1>2, <1>5, <2>1 DEF Said, Talk
<1>7. RoleShown(y) = r /\ LinesShown(y) = <<h>>
  BY <1>6, TalkIs
<1>8. Head(<<h>>) = h /\ <<h>> # <<>>
  OBVIOUS
<1>9. First(y) = y
  BY <1>5, <1>7, <1>8 DEF First
<1>10. First(x) = y
  BY <1>1, <1>3, <1>5 DEF First
<1>11. QED
  BY <1>1, <1>3, <1>6, <1>7, <1>8, <1>9, <1>10 DEF Speaks

Speaking == {x \in Talk : Speaks(x)}
Unquotable == {x \in Talk : x.role # "quoted"}
LEMMA SpokenAre ==
    /\ \A s \in Seq(Talk) : Spoken(s) \in Seq(Talk)
    /\ \A s, t \in Seq(Talk) : Spoken(s \o t) = Spoken(s) \o Spoken(t)
    /\ Spoken(<<>>) = <<>>
    /\ \A x \in Talk : Spoken(<<x>>) = IF Speaks(x) THEN <<First(x)>> ELSE <<>>
<1>1. PICK f : f = [x \in Talk |-> IF Speaks(x) THEN First(x) ELSE x]
  OBVIOUS
<1>2. IsMap(f, Talk, Talk)
  <2>1. \A x \in Talk : Speaks(x) => First(x) \in Talk
    BY FirstIs
  <2>2. QED
    BY <1>1, <2>1 DEF IsMap
<1>3. /\ \A s \in Seq(Talk) : Those(s, Speaking) \in Seq(Talk)
      /\ \A s, t \in Seq(Talk) : Those(s \o t, Speaking) = Those(s, Speaking) \o Those(t, Speaking)
      /\ Those(<<>>, Speaking) = <<>>
      /\ \A x \in Talk : Those(<<x>>, Speaking) = IF x \in Speaking THEN <<x>> ELSE <<>>
  BY ThoseAre
<1>4. /\ \A s \in Seq(Talk) : Mapped(f, s) \in Seq(Talk)
      /\ \A s, t \in Seq(Talk) : Mapped(f, s \o t) = Mapped(f, s) \o Mapped(f, t)
      /\ Mapped(f, <<>>) = <<>>
      /\ \A x \in Talk : Mapped(f, <<x>>) = <<f[x]>>
  <2>1. MapsEach(f, Talk, Talk)
    BY <1>2, MappedAre, Zenon
  <2>2. QED
    BY <2>1, Zenon DEF MapsEach
<1>5. ASSUME NEW s \in Seq(Talk) PROVE Spoken(s) = Mapped(f, Those(s, Speaking))
  <2>1. PICK u : u = Those(s, Speaking)
    OBVIOUS
  <2>2. u = Picked(s, {i \in DOMAIN s : LinesShown(s[i]) # <<>>})
    <3>1. \A i \in DOMAIN s : s[i] \in Talk
      BY <1>5
    <3>2. {i \in DOMAIN s : s[i] \in Speaking} = {i \in DOMAIN s : LinesShown(s[i]) # <<>>}
      BY <3>1 DEF Speaking, Speaks
    <3>3. QED
      BY <2>1, <3>2 DEF Those
  <2>3. u \in Seq(Talk) /\ ToSet(u) \subseteq Speaking
    BY <1>5, <2>1, ThoseHold
  <2>4. \A k \in DOMAIN u : u[k] \in Talk /\ Speaks(u[k])
    BY <2>3 DEF ToSet, Speaking
  <2>5. \A k \in DOMAIN u : f[u[k]] = First(u[k])
    BY <1>1, <2>4
  <2>6. Spoken(s) = [k \in DOMAIN u |-> First(u[k])]
    BY <2>2, Zenon DEF Spoken, First
  <2>7. QED
    BY <2>1, <2>5, <2>6 DEF Mapped
<1>6. \A s, t \in Seq(Talk) : s \o t \in Seq(Talk)
  OBVIOUS
<1>7. \A s, t \in Seq(Talk) : Spoken(s \o t) = Spoken(s) \o Spoken(t)
  <2>1. SUFFICES ASSUME NEW s \in Seq(Talk), NEW t \in Seq(Talk)
                 PROVE  Spoken(s \o t) = Spoken(s) \o Spoken(t)
    OBVIOUS
  <2>2. PICK a, b : a = Those(s, Speaking) /\ b = Those(t, Speaking)
    OBVIOUS
  <2>3. a \in Seq(Talk) /\ b \in Seq(Talk) /\ Those(s \o t, Speaking) = a \o b
    BY <1>3, <2>1, <2>2
  <2>4. Spoken(s \o t) = Mapped(f, a \o b)
    BY <1>5, <1>6, <2>1, <2>3
  <2>5. Spoken(s) = Mapped(f, a) /\ Spoken(t) = Mapped(f, b)
    BY <1>5, <2>1, <2>2
  <2>6. Mapped(f, a \o b) = Mapped(f, a) \o Mapped(f, b)
    BY <1>4, <2>3
  <2>7. QED
    BY <2>4, <2>5, <2>6, Zenon
<1>8. \A x \in Talk : Spoken(<<x>>) = IF Speaks(x) THEN <<First(x)>> ELSE <<>>
  <2>1. SUFFICES ASSUME NEW x \in Talk
                 PROVE  Spoken(<<x>>) = IF Speaks(x) THEN <<First(x)>> ELSE <<>>
    OBVIOUS
  <2>2. <<x>> \in Seq(Talk)
    BY <2>1
  <2>3. Spoken(<<x>>) = Mapped(f, IF Speaks(x) THEN <<x>> ELSE <<>>)
    BY <1>3, <1>5, <2>1, <2>2 DEF Speaking
  <2>4. QED
    BY <1>1, <1>4, <2>1, <2>3
<1>9. <<>> \in Seq(Talk)
  OBVIOUS
<1>10. Spoken(<<>>) = <<>> /\ \A s \in Seq(Talk) : Spoken(s) \in Seq(Talk)
  BY <1>3, <1>4, <1>5, <1>9
<1>11. QED
  BY <1>7, <1>8, <1>10

LEMMA UnquotedAre ==
    /\ \A s \in Seq(Talk) : Unquoted(s) \in Seq(Talk)
    /\ \A s, t \in Seq(Talk) : Unquoted(s \o t) = Unquoted(s) \o Unquoted(t)
    /\ Unquoted(<<>>) = <<>>
    /\ \A x \in Talk : Unquoted(<<x>>) = IF x.role # "quoted" THEN <<x>> ELSE <<>>
<1>1. \A s \in Seq(Talk) : Unquoted(s) = Those(s, Unquotable)
  <2>1. SUFFICES ASSUME NEW s \in Seq(Talk) PROVE Unquoted(s) = Those(s, Unquotable)
    OBVIOUS
  <2>2. \A i \in DOMAIN s : s[i] \in Talk
    BY <2>1
  <2>3. {i \in DOMAIN s : s[i] \in Unquotable} = {i \in DOMAIN s : s[i].role # "quoted"}
    BY <2>2 DEF Unquotable
  <2>4. QED
    BY <2>3 DEF Unquoted, Those
<1>2. /\ \A s \in Seq(Talk) : Those(s, Unquotable) \in Seq(Talk)
      /\ \A s, t \in Seq(Talk) :
             Those(s \o t, Unquotable) = Those(s, Unquotable) \o Those(t, Unquotable)
      /\ Those(<<>>, Unquotable) = <<>>
      /\ \A x \in Talk : Those(<<x>>, Unquotable) = IF x \in Unquotable THEN <<x>> ELSE <<>>
  BY ThoseAre
<1>3. <<>> \in Seq(Talk) /\ (\A x \in Talk : <<x>> \in Seq(Talk))
      /\ \A s, t \in Seq(Talk) : s \o t \in Seq(Talk)
  OBVIOUS
<1>4. QED
  BY <1>1, <1>2, <1>3, ZenonT(60) DEF Unquotable

(* A summary, read again.                                                  *)
ParsedAll(items) == FlattenSeq([i \in DOMAIN items |-> ParsedItem(items[i])])
QuotedLine == Said("message", "quoted", <<"plain">>)

LEMMA ParsedItemIs ==
    ASSUME NEW x \in Talk
    PROVE  /\ ~Speaks(x) => ParsedItem(x) = <<>>
           /\ Speaks(x) => \E below \in Seq({QuotedLine}) :
                               ParsedItem(x) = <<First(x)>> \o below
           /\ Speaks(x) /\ x.kind = "message" /\ Tail(x.lines) = <<>>
                  => ParsedItem(x) = <<First(x)>>
<1>1. PICK l, r : l = LinesShown(x) /\ r = RoleShown(x)
  OBVIOUS
<1>2. l \in Seq(TalkLines)
  BY <1>1, TalkIs
<1>3. PICK below : below = Those(Tail(l), {"colon"})
  OBVIOUS
<1>4. PICK q : q = [i \in DOMAIN below |-> QuotedLine]
  OBVIOUS
<1>5. ParsedItem(x) = IF l = <<>> THEN <<>> ELSE <<First(x)>> \o q
  BY <1>1, <1>3, <1>4, Zenon DEF ParsedItem, First, QuotedLine
<1>6. l # <<>> => Tail(l) \in Seq(TalkLines)
  BY <1>2
<1>7. l # <<>> => below \in Seq(TalkLines)
  BY <1>3, <1>6, ThoseHold
<1>8. l # <<>> => q \in Seq({QuotedLine})
  <2>1. SUFFICES ASSUME l # <<>> PROVE q \in Seq({QuotedLine})
    OBVIOUS
  <2>2. PICK n \in Nat : DOMAIN below = 1..n
    BY <1>7, <2>1
  <2>3. q \in [1..n -> {QuotedLine}]
    BY <1>4, <2>2
  <2>4. QED
    BY <2>3
<1>9. First(x) \in Talk => <<First(x)>> \o <<>> = <<First(x)>>
  <2>1. \A y : <<y>> \o <<>> = <<y>>
    OBVIOUS
  <2>2. QED
    BY <2>1
<1>10. ASSUME l # <<>>, x.kind = "message", Tail(x.lines) = <<>> PROVE ParsedItem(x) = <<First(x)>>
  <2>1. l = x.lines
    BY <1>1, <1>10, TalkIs
  <2>2. below = <<>>
    BY <1>3, <1>10, <2>1, ThoseAre
  <2>3. q = <<>>
    BY <1>4, <2>2
  <2>4. First(x) \in Talk
    BY <1>1, <1>10, FirstIs DEF Speaks
  <2>5. QED
    BY <1>5, <1>9, <1>10, <2>3, <2>4
<1>11. QED
  BY <1>1, <1>5, <1>8, <1>10 DEF Speaks

LEMMA QuotedLineIs == QuotedLine \in Talk /\ QuotedLine.role = "quoted" /\ QuotedLine.kind = "message"
                      /\ QuotedLine.lines = <<"plain">>
<1>1. "message" \in TalkKinds /\ "quoted" \in TalkRoles /\ "plain" \in TalkLines
  BY DEF TalkKinds, TalkRoles, TalkLines
<1>2. <<"plain">> \in Seq(TalkLines)
  BY <1>1
<1>3. QED
  BY <1>1, <1>2 DEF QuotedLine, Said, Talk

(* Every item that is read is one line of a message.                       *)
OneLine == {x \in Talk : x.kind = "message" /\ \E l \in TalkLines : x.lines = <<l>>}
LEMMA ReadIs ==
    ASSUME NEW x \in Talk
    PROVE  /\ ParsedItem(x) \in Seq(OneLine)
           /\ x \in OneLine => ParsedItem(x) = <<x>>
<1>1. QuotedLine \in OneLine
  BY QuotedLineIs DEF OneLine, TalkLines
<1>2. Speaks(x) => First(x) \in OneLine
  <2>1. SUFFICES ASSUME Speaks(x) PROVE First(x) \in OneLine
    OBVIOUS
  <2>2. Head(LinesShown(x)) \in TalkLines
    <3>1. LinesShown(x) \in Seq(TalkLines) /\ LinesShown(x) # <<>>
      BY <2>1, TalkIs DEF Speaks
    <3>2. QED
      BY <3>1
  <2>3. QED
    BY <2>1, <2>2, FirstIs DEF OneLine
<1>3. ParsedItem(x) \in Seq(OneLine)
  <2>1. CASE ~Speaks(x)
    <3>1. ParsedItem(x) = <<>>
      BY <2>1, ParsedItemIs, Zenon
    <3>2. <<>> \in Seq(OneLine)
      OBVIOUS
    <3>3. QED
      BY <3>1, <3>2
  <2>2. CASE Speaks(x)
    <3>1. PICK below \in Seq({QuotedLine}) : ParsedItem(x) = <<First(x)>> \o below
      BY <2>2, ParsedItemIs
    <3>2. below \in Seq(OneLine) /\ <<First(x)>> \in Seq(OneLine)
      BY <1>1, <1>2, <2>2, <3>1
    <3>3. QED
      BY <3>1, <3>2
  <2>3. QED
    BY <2>1, <2>2
<1>4. ASSUME x \in OneLine PROVE ParsedItem(x) = <<x>>
  <2>1. PICK l \in TalkLines : x.lines = <<l>>
    BY <1>4 DEF OneLine
  <2>2. x.kind = "message" /\ RoleShown(x) = x.role /\ LinesShown(x) = <<l>>
    BY <1>4, <2>1, TalkIs DEF OneLine
  <2>3. Tail(<<l>>) = <<>> /\ Head(<<l>>) = l /\ <<l>> # <<>>
    OBVIOUS
  <2>4. ParsedItem(x) = <<First(x)>>
    BY <2>1, <2>2, <2>3, ParsedItemIs DEF Speaks
  <2>5. First(x) = x
    <3>1. First(x) = Said("message", x.role, <<l>>)
      BY <2>2, <2>3 DEF First
    <3>2. x = [kind |-> x.kind, role |-> x.role, lines |-> x.lines, sums |-> <<>>]
      BY DEF Talk
    <3>3. QED
      BY <2>1, <2>2, <3>1, <3>2 DEF Said
  <2>6. QED
    BY <2>4, <2>5
<1>5. QED
  BY <1>3, <1>4

LEMMA ParsedAre ==
    /\ \A s \in Seq(Talk) : ParsedAll(s) \in Seq(OneLine)
    /\ \A s, t \in Seq(Talk) : ParsedAll(s \o t) = ParsedAll(s) \o ParsedAll(t)
    /\ ParsedAll(<<>>) = <<>>
    /\ \A x \in Talk : ParsedAll(<<x>>) = ParsedItem(x)
<1>1. PICK f : f = [x \in Talk |-> ParsedItem(x)]
  OBVIOUS
<1>2. IsMap(f, Talk, Seq(OneLine))
  BY <1>1, ReadIs DEF IsMap
<1>3. JoinsEach(f, Talk, OneLine)
  BY <1>2, JoinedAre, Zenon
<1>4. \A s \in Seq(Talk) : ParsedAll(s) = FlattenSeq(Mapped(f, s))
  <2>1. SUFFICES ASSUME NEW s \in Seq(Talk)
                 PROVE  [i \in DOMAIN s |-> ParsedItem(s[i])] = Mapped(f, s)
    BY Zenon DEF ParsedAll
  <2>2. \A i \in DOMAIN s : s[i] \in Talk
    BY <2>1
  <2>3. QED
    BY <1>1, <2>2 DEF Mapped
<1>5. <<>> \in Seq(Talk) /\ (\A x \in Talk : <<x>> \in Seq(Talk))
      /\ \A s, t \in Seq(Talk) : s \o t \in Seq(Talk)
  OBVIOUS
<1>6. /\ \A s \in Seq(Talk) : FlattenSeq(Mapped(f, s)) \in Seq(OneLine)
      /\ \A s, t \in Seq(Talk) : FlattenSeq(Mapped(f, s \o t))
                                    = FlattenSeq(Mapped(f, s)) \o FlattenSeq(Mapped(f, t))
      /\ FlattenSeq(Mapped(f, <<>>)) = <<>>
      /\ \A x \in Talk : FlattenSeq(Mapped(f, <<x>>)) = f[x]
  BY <1>3, Zenon DEF JoinsEach
<1>7. \A s, t \in Seq(Talk) : ParsedAll(s \o t) = ParsedAll(s) \o ParsedAll(t)
  <2>1. SUFFICES ASSUME NEW s \in Seq(Talk), NEW t \in Seq(Talk)
                 PROVE  ParsedAll(s \o t) = ParsedAll(s) \o ParsedAll(t)
    OBVIOUS
  <2>2. /\ ParsedAll(s \o t) = FlattenSeq(Mapped(f, s \o t))
        /\ ParsedAll(s) = FlattenSeq(Mapped(f, s)) /\ ParsedAll(t) = FlattenSeq(Mapped(f, t))
    BY <1>4, <1>5, <2>1
  <2>3. FlattenSeq(Mapped(f, s \o t)) = FlattenSeq(Mapped(f, s)) \o FlattenSeq(Mapped(f, t))
    BY <1>6, <2>1
  <2>4. QED
    BY <2>2, <2>3, Zenon
<1>8. \A x \in Talk : f[x] = ParsedItem(x)
  BY <1>1
<1>9. QED
  BY <1>4, <1>5, <1>6, <1>7, <1>8

LEMMA ReadOnce == ASSUME NEW s \in Seq(OneLine) PROVE ParsedAll(s) = s
<1>1. PICK f, g : /\ f = [u \in Seq(OneLine) |-> ParsedAll(u)]
                  /\ g = [u \in Seq(OneLine) |-> u]
  OBVIOUS
<1>2. Seq(OneLine) \subseteq Seq(Talk) /\ <<>> \in Seq(OneLine)
      /\ (\A x \in OneLine : x \in Talk /\ <<x>> \in Seq(OneLine))
      /\ \A u, v \in Seq(OneLine) : u \o v \in Seq(OneLine)
  BY DEF OneLine
<1>3. Morphism(f, OneLine, OneLine)
  <2>1. f \in [Seq(OneLine) -> Seq(OneLine)]
    <3>1. \A u \in Seq(OneLine) : ParsedAll(u) \in Seq(OneLine)
      BY <1>2, ParsedAre
    <3>2. QED
      BY <1>1, <3>1
  <2>2. f[<<>>] = <<>>
    BY <1>1, <1>2, ParsedAre
  <2>3. ASSUME NEW u \in Seq(OneLine), NEW v \in Seq(OneLine) PROVE f[u \o v] = f[u] \o f[v]
    <3>1. f[u \o v] = ParsedAll(u \o v) /\ f[u] = ParsedAll(u) /\ f[v] = ParsedAll(v)
      BY <1>1, <1>2, <2>3
    <3>2. ParsedAll(u \o v) = ParsedAll(u) \o ParsedAll(v)
      BY <1>2, <2>3, ParsedAre
    <3>3. QED
      BY <3>1, <3>2, Zenon
  <2>4. QED
    BY <2>1, <2>2, <2>3 DEF Morphism
<1>4. Morphism(g, OneLine, OneLine)
  BY <1>1, <1>2 DEF Morphism
<1>5. AgreeOnItems(f, g, OneLine)
  <2>1. SUFFICES ASSUME NEW x \in OneLine PROVE f[<<x>>] = g[<<x>>]
    BY DEF AgreeOnItems
  <2>2. ParsedAll(<<x>>) = ParsedItem(x) /\ ParsedItem(x) = <<x>>
    BY <1>2, <2>1, ParsedAre, ReadIs
  <2>3. QED
    BY <1>1, <1>2, <2>1, <2>2
<1>6. AgreeOn(f, g, s)
  BY <1>3, <1>4, <1>5, MorphismsAgree, Zenon
<1>7. QED
  BY <1>1, <1>6 DEF AgreeOn

LEMMA UnquotedInTurn ==
    ASSUME NEW u \in Seq(Talk), NEW v \in Seq(Talk)
    PROVE  Unquoted(Spoken(u \o v)) = Unquoted(Spoken(u)) \o Unquoted(Spoken(v))
<1>1. PICK a, b : a = Spoken(u) /\ b = Spoken(v)
  OBVIOUS
<1>2. a \in Seq(Talk) /\ b \in Seq(Talk) /\ Spoken(u \o v) = a \o b
  BY <1>1, SpokenAre
<1>3. Unquoted(a \o b) = Unquoted(a) \o Unquoted(b)
  BY <1>2, UnquotedAre
<1>4. QED
  BY <1>1, <1>2, <1>3, Zenon

LEMMA NothingQuoted ==
    ASSUME NEW s \in Seq({QuotedLine}) PROVE Unquoted(Spoken(s)) = <<>>
<1> DEFINE Q == {QuotedLine}
<1>1. PICK f, g : /\ f = [u \in Seq(Q) |-> Unquoted(Spoken(u))]
                  /\ g = [u \in Seq(Q) |-> <<>>]
  OBVIOUS
<1>2. Seq(Q) \subseteq Seq(Talk) /\ <<>> \in Seq(Q)
      /\ (\A x \in Q : x \in Talk /\ <<x>> \in Seq(Q))
      /\ \A u, v \in Seq(Q) : u \o v \in Seq(Q)
  BY QuotedLineIs
<1>3. \A x \in Q : Unquoted(Spoken(<<x>>)) = <<>>
  <2>1. PICK x : x = QuotedLine
    OBVIOUS
  <2>2. x \in Talk /\ x.role = "quoted" /\ x.kind = "message" /\ x.lines = <<"plain">>
    BY <2>1, QuotedLineIs
  <2>3. <<"plain">> # <<>>
    OBVIOUS
  <2>4. Speaks(x) /\ RoleShown(x) = "quoted"
    BY <2>2, <2>3, TalkIs DEF Speaks
  <2>5. First(x) \in Talk /\ First(x).role = "quoted"
    BY <2>2, <2>4, FirstIs
  <2>6. Spoken(<<x>>) = <<First(x)>>
    BY <2>2, <2>4, SpokenAre
  <2>7. Unquoted(<<First(x)>>) = <<>>
    BY <2>5, UnquotedAre
  <2>8. QED
    BY <2>1, <2>6, <2>7
<1> HIDE DEF Q
<1>4. Morphism(f, Q, Talk)
  <2>1. f \in [Seq(Q) -> Seq(Talk)]
    <3>1. \A u \in Seq(Q) : Unquoted(Spoken(u)) \in Seq(Talk)
      BY <1>2, SpokenAre, UnquotedAre
    <3>2. QED
      BY <1>1, <3>1
  <2>2. f[<<>>] = <<>>
    BY <1>1, <1>2, SpokenAre, UnquotedAre
  <2>3. ASSUME NEW u \in Seq(Q), NEW v \in Seq(Q) PROVE f[u \o v] = f[u] \o f[v]
    <3>1. /\ f[u \o v] = Unquoted(Spoken(u \o v))
          /\ f[u] = Unquoted(Spoken(u)) /\ f[v] = Unquoted(Spoken(v))
      BY <1>1, <1>2, <2>3
    <3>2. u \in Seq(Talk) /\ v \in Seq(Talk)
      BY <1>2, <2>3
    <3>3. Unquoted(Spoken(u \o v)) = Unquoted(Spoken(u)) \o Unquoted(Spoken(v))
      BY <3>2, UnquotedInTurn
    <3>4. QED
      BY <3>1, <3>3, Zenon
  <2>4. QED
    BY <2>1, <2>2, <2>3 DEF Morphism
<1>5. Morphism(g, Q, Talk)
  <2>1. <<>> \o <<>> = <<>> /\ <<>> \in Seq(Talk)
    OBVIOUS
  <2>2. QED
    BY <1>1, <1>2, <2>1 DEF Morphism
<1>6. AgreeOnItems(f, g, Q)
  BY <1>1, <1>2, <1>3 DEF AgreeOnItems
<1>7. s \in Seq(Q)
  BY DEF Q
<1>8. AgreeOn(f, g, s)
  BY <1>4, <1>5, <1>6, <1>7, MorphismsAgree, Zenon
<1>9. QED
  BY <1>1, <1>7, <1>8 DEF AgreeOn

(* Unquoted(Spoken(_)) goes item by item.                                  *)
LEMMA UnquotedSpoken ==
    /\ \A u \in Seq(Talk) : Unquoted(Spoken(u)) \in Seq(Talk)
    /\ \A u, v \in Seq(Talk) :
           Unquoted(Spoken(u \o v)) = Unquoted(Spoken(u)) \o Unquoted(Spoken(v))
    /\ Unquoted(Spoken(<<>>)) = <<>>
    /\ \A x \in OwnTalk : /\ Unquoted(Spoken(<<x>>)) = Spoken(<<x>>)
                          /\ Unquoted(Spoken(ParsedItem(x))) = Spoken(<<x>>)
<1>1. ASSUME NEW u \in Seq(Talk), NEW v \in Seq(Talk)
      PROVE  Unquoted(Spoken(u \o v)) = Unquoted(Spoken(u)) \o Unquoted(Spoken(v))
  BY <1>1, UnquotedInTurn
<1>2. /\ \A u \in Seq(Talk) : Unquoted(Spoken(u)) \in Seq(Talk)
      /\ Unquoted(Spoken(<<>>)) = <<>>
  BY SpokenAre, UnquotedAre
<1>3. ASSUME NEW x \in OwnTalk
      PROVE  /\ Unquoted(Spoken(<<x>>)) = Spoken(<<x>>)
             /\ Unquoted(Spoken(ParsedItem(x))) = Spoken(<<x>>)
  <2>1. x \in Talk /\ RoleShown(x) # "quoted" /\ <<x>> \in Seq(Talk)
    BY <1>3 DEF OwnTalk
  <2>2. CASE ~Speaks(x)
    <3>1. Spoken(<<x>>) = <<>>
      BY <2>1, <2>2, SpokenAre, Zenon
    <3>2. ParsedItem(x) = <<>>
      BY <2>1, <2>2, ParsedItemIs, Zenon
    <3>3. QED
      BY <3>1, <3>2, SpokenAre, UnquotedAre
  <2>3. CASE Speaks(x)
    <3>1. PICK y : y = First(x)
      OBVIOUS
    <3>2. y \in Talk /\ y.role # "quoted" /\ Speaks(y) /\ First(y) = y
      BY <2>1, <2>3, <3>1, FirstIs
    <3>3. Spoken(<<x>>) = <<y>>
      BY <2>1, <2>3, <3>1, SpokenAre, Zenon
    <3>4. Spoken(<<y>>) = <<y>> /\ Unquoted(<<y>>) = <<y>>
      BY <3>2, SpokenAre, UnquotedAre
    <3>5. PICK below \in Seq({QuotedLine}) : ParsedItem(x) = <<y>> \o below
      BY <2>1, <2>3, <3>1, ParsedItemIs
    <3>6. below \in Seq(Talk) /\ <<y>> \in Seq(Talk)
      BY <3>2, <3>5, QuotedLineIs
    <3>7. Unquoted(Spoken(<<y>> \o below)) = Unquoted(Spoken(<<y>>)) \o Unquoted(Spoken(below))
      BY <1>1, <3>6
    <3>8. Unquoted(Spoken(below)) = <<>>
      BY <3>5, NothingQuoted
    <3>9. <<y>> \o <<>> = <<y>>
      OBVIOUS
    <3>10. QED
      BY <3>3, <3>4, <3>5, <3>7, <3>8, <3>9, Zenon
  <2>4. QED
    BY <2>2, <2>3
<1>4. QED
  BY <1>1, <1>2, <1>3

LEMMA OwnSpoken ==
    ASSUME NEW s \in Seq(OwnTalk)
    PROVE  /\ Unquoted(Spoken(s)) = Spoken(s)
           /\ Unquoted(Spoken(ParsedAll(s))) = Spoken(s)
<1> DEFINE Own == Seq(OwnTalk)
<1>1. PICK f, g, h : /\ f = [u \in Own |-> Spoken(u)]
                     /\ g = [u \in Own |-> Unquoted(Spoken(u))]
                     /\ h = [u \in Own |-> Unquoted(Spoken(ParsedAll(u)))]
  OBVIOUS
<1>2. Own \subseteq Seq(Talk) /\ <<>> \in Own /\ (\A x \in OwnTalk : x \in Talk /\ <<x>> \in Own)
      /\ \A u, v \in Own : u \o v \in Own
  BY DEF OwnTalk
<1>3. Seq(OneLine) \subseteq Seq(Talk)
  BY DEF OneLine
<1> HIDE DEF Own
<1>4. Morphism(f, OwnTalk, Talk)
  <2>1. /\ \A u \in Own : Spoken(u) \in Seq(Talk) /\ Spoken(<<>>) = <<>>
        /\ \A u, v \in Own : Spoken(u \o v) = Spoken(u) \o Spoken(v)
    BY <1>2, SpokenAre
  <2>2. f \in [Own -> Seq(Talk)] /\ f[<<>>] = <<>>
    BY <1>1, <1>2, <2>1
  <2>3. ASSUME NEW u \in Own, NEW v \in Own PROVE f[u \o v] = f[u] \o f[v]
    <3>1. f[u \o v] = Spoken(u \o v) /\ f[u] = Spoken(u) /\ f[v] = Spoken(v)
      BY <1>1, <1>2, <2>3
    <3>2. Spoken(u \o v) = Spoken(u) \o Spoken(v)
      BY <2>1, <2>3
    <3>3. QED
      BY <3>1, <3>2, Zenon
  <2>4. QED
    BY <2>2, <2>3 DEF Morphism, Own
<1>5. Morphism(g, OwnTalk, Talk)
  <2>1. \A u \in Own : Unquoted(Spoken(u)) \in Seq(Talk) /\ Unquoted(Spoken(<<>>)) = <<>>
    BY <1>2, UnquotedSpoken
  <2>2. g \in [Own -> Seq(Talk)] /\ g[<<>>] = <<>>
    BY <1>1, <1>2, <2>1
  <2>3. ASSUME NEW u \in Own, NEW v \in Own PROVE g[u \o v] = g[u] \o g[v]
    <3>1. /\ g[u \o v] = Unquoted(Spoken(u \o v))
          /\ g[u] = Unquoted(Spoken(u)) /\ g[v] = Unquoted(Spoken(v))
      BY <1>1, <1>2, <2>3
    <3>2. u \in Seq(Talk) /\ v \in Seq(Talk)
      BY <1>2, <2>3
    <3>3. Unquoted(Spoken(u \o v)) = Unquoted(Spoken(u)) \o Unquoted(Spoken(v))
      BY <3>2, UnquotedInTurn
    <3>4. QED
      BY <3>1, <3>3, Zenon
  <2>4. QED
    BY <2>2, <2>3 DEF Morphism, Own
<1>6. Morphism(h, OwnTalk, Talk)
  <2>1. /\ \A u \in Own : ParsedAll(u) \in Seq(Talk) /\ ParsedAll(<<>>) = <<>>
        /\ \A u, v \in Own : ParsedAll(u \o v) = ParsedAll(u) \o ParsedAll(v)
    BY <1>2, <1>3, ParsedAre
  <2>2. \A u \in Own : Unquoted(Spoken(ParsedAll(u))) \in Seq(Talk)
    BY <2>1, UnquotedSpoken
  <2>3. h \in [Own -> Seq(Talk)]
    BY <1>1, <2>2
  <2>4. h[<<>>] = <<>>
    BY <1>1, <1>2, <2>1, UnquotedSpoken
  <2>5. ASSUME NEW u \in Own, NEW v \in Own PROVE h[u \o v] = h[u] \o h[v]
    <3>1. PICK a, b : a = ParsedAll(u) /\ b = ParsedAll(v)
      OBVIOUS
    <3>2. ParsedAll(u \o v) = a \o b /\ a \in Seq(Talk) /\ b \in Seq(Talk)
      BY <2>1, <2>5, <3>1
    <3>3. /\ h[u \o v] = Unquoted(Spoken(ParsedAll(u \o v)))
          /\ h[u] = Unquoted(Spoken(a)) /\ h[v] = Unquoted(Spoken(b))
      BY <1>1, <1>2, <2>5, <3>1
    <3>4. Unquoted(Spoken(a \o b)) = Unquoted(Spoken(a)) \o Unquoted(Spoken(b))
      BY <3>2, UnquotedInTurn
    <3>5. QED
      BY <3>2, <3>3, <3>4, Zenon
  <2>6. QED
    BY <2>3, <2>4, <2>5 DEF Morphism, Own
<1>7. \A x \in OwnTalk : /\ f[<<x>>] = Spoken(<<x>>) /\ g[<<x>>] = Spoken(<<x>>)
                         /\ h[<<x>>] = Spoken(<<x>>)
  <2>1. \A x \in OwnTalk : ParsedAll(<<x>>) = ParsedItem(x)
    BY <1>2, ParsedAre
  <2>2. QED
    BY <1>1, <1>2, <2>1, UnquotedSpoken
<1>8. AgreeOnItems(g, f, OwnTalk) /\ AgreeOnItems(h, f, OwnTalk)
  BY <1>7 DEF AgreeOnItems
<1>9. AgreeOn(g, f, s) /\ AgreeOn(h, f, s)
  BY <1>4, <1>5, <1>6, <1>8, MorphismsAgree, Zenon
<1>10. s \in Own
  BY DEF Own
<1>11. QED
  BY <1>1, <1>9, <1>10 DEF AgreeOn

LEMMA FlattenedIs ==
    ASSUME NEW s \in Seq(Talk)
    PROVE  Flattened(s) = s /\ Flattened(<<Summary(s)>>) = ParsedAll(s)
<1>1. PICK f : f = [x \in Talk |-> <<x>>]
  OBVIOUS
<1>2. IsMap(f, Talk, Seq(Talk)) /\ \A x \in Talk : f[x] = <<x>>
  BY <1>1 DEF IsMap
<1>3. JoinsEach(f, Talk, Talk)
  BY <1>2, JoinedAre, Zenon
<1>4. Flattened(s) = FlattenSeq(Mapped(f, s))
  <2>1. \A i \in DOMAIN s : s[i].kind # "summary" /\ s[i] \in Talk
    BY TalkIs
  <2>2. [i \in DOMAIN s |-> IF s[i].kind # "summary" THEN <<s[i]>> ELSE ParsedAll(s[i].sums)]
            = Mapped(f, s)
    BY <1>2, <2>1 DEF Mapped
  <2>3. QED
    BY <2>2, Zenon DEF Flattened, ParsedAll
<1>5. PICK g, h : /\ g = [u \in Seq(Talk) |-> FlattenSeq(Mapped(f, u))]
                  /\ h = [u \in Seq(Talk) |-> u]
  OBVIOUS
<1>6. <<>> \in Seq(Talk) /\ (\A x \in Talk : <<x>> \in Seq(Talk))
      /\ \A u, v \in Seq(Talk) : u \o v \in Seq(Talk)
  OBVIOUS
<1>7. Morphism(g, Talk, Talk)
  <2>1. g \in [Seq(Talk) -> Seq(Talk)] /\ g[<<>>] = <<>>
    BY <1>3, <1>5, <1>6 DEF JoinsEach
  <2>2. ASSUME NEW u \in Seq(Talk), NEW v \in Seq(Talk) PROVE g[u \o v] = g[u] \o g[v]
    <3>1. /\ g[u \o v] = FlattenSeq(Mapped(f, u \o v))
          /\ g[u] = FlattenSeq(Mapped(f, u)) /\ g[v] = FlattenSeq(Mapped(f, v))
      BY <1>5, <1>6, <2>2
    <3>2. QED
      BY <1>3, <2>2, <3>1, Zenon DEF JoinsEach
  <2>3. QED
    BY <2>1, <2>2 DEF Morphism
<1>8. Morphism(h, Talk, Talk)
  BY <1>5, <1>6 DEF Morphism
<1>9. AgreeOnItems(g, h, Talk)
  <2>1. \A x \in Talk : FlattenSeq(Mapped(f, <<x>>)) = <<x>>
    BY <1>2, <1>3 DEF JoinsEach
  <2>2. QED
    BY <1>5, <1>6, <2>1 DEF AgreeOnItems
<1>10. AgreeOn(g, h, s)
  BY <1>7, <1>8, <1>9, MorphismsAgree, Zenon
<1>11. Flattened(s) = s
  BY <1>4, <1>5, <1>10 DEF AgreeOn
<1>12. Flattened(<<Summary(s)>>) = ParsedAll(s)
  <2>1. PICK t : t = <<Summary(s)>>
    OBVIOUS
  <2>2. DOMAIN t = {1} /\ t[1].kind = "summary" /\ t[1].sums = s
    BY <2>1 DEF Summary
  <2>3. [i \in DOMAIN t |-> IF t[i].kind # "summary" THEN <<t[i]>> ELSE ParsedAll(t[i].sums)]
            = <<ParsedAll(s)>>
    <3>1. [i \in {1} |-> ParsedAll(s)] = <<ParsedAll(s)>>
      <4>1. PICK x : x = ParsedAll(s)
        OBVIOUS
      <4>2. [i \in {1} |-> x] = <<x>>
        OBVIOUS
      <4>3. QED
        BY <4>1, <4>2
    <3>2. [i \in DOMAIN t |-> IF t[i].kind # "summary" THEN <<t[i]>> ELSE ParsedAll(t[i].sums)]
              = [i \in {1} |-> ParsedAll(s)]
      BY <2>2
    <3>3. QED
      BY <3>1, <3>2
  <2>4. Flattened(t) = FlattenSeq(<<ParsedAll(s)>>)
    BY <2>3, Zenon DEF Flattened, ParsedAll
  <2>5. ParsedAll(s) \in Seq(OneLine)
    BY ParsedAre
  <2>6. QED
    BY <2>1, <2>4, <2>5, FlattenOfOne
<1>13. QED
  BY <1>11, <1>12

(* What the runs hand on.                                                  *)
RunTalk == [kind : RunKinds, lines : Seq(TalkLines)]
LEMMA InputsAre ==
    /\ \A s \in Seq(RunTalk) : AsInputs(s) \in Seq(OwnTalk)
    /\ \A s, t \in Seq(RunTalk) : AsInputs(s \o t) = AsInputs(s) \o AsInputs(t)
<1>1. PICK f : f = [r \in RunTalk |-> AsInput(r)]
  OBVIOUS
<1>2. \A r \in RunTalk : AsInput(r) \in OwnTalk
  <2>1. SUFFICES ASSUME NEW r \in RunTalk PROVE AsInput(r) \in OwnTalk
    OBVIOUS
  <2>2. r.lines \in Seq(TalkLines) /\ r.kind \in RunKinds /\ r.kind # "quoted"
    <3>1. r.lines \in Seq(TalkLines) /\ r.kind \in RunKinds
      BY <2>1 DEF RunTalk
    <3>2. "quoted" \notin RunKinds
      BY DEF RunKinds
    <3>3. QED
      BY <3>1, <3>2
  <2>3. "text" \in TalkKinds /\ "typed" \in TalkKinds /\ "" \in TalkRoles /\ r.kind \in TalkRoles
    BY <2>2 DEF TalkKinds, TalkRoles
  <2>4. \A k, o, l : k \in TalkKinds /\ o \in TalkRoles /\ l \in Seq(TalkLines)
                         => Said(k, o, l) \in Talk
    BY DEF Said, Talk
  <2>5. \A o, l : RoleShown(Said("text", o, l)) = "user" /\ RoleShown(Said("typed", o, l)) = o
    BY DEF Said, RoleShown
  <2>6. QED
    BY <2>2, <2>3, <2>4, <2>5 DEF AsInput, OwnTalk
<1>3. MapsEach(f, RunTalk, OwnTalk)
  <2>1. IsMap(f, RunTalk, OwnTalk)
    BY <1>1, <1>2 DEF IsMap
  <2>2. QED
    BY <2>1, MappedAre, Zenon
<1>4. \A s \in Seq(RunTalk) : AsInputs(s) = Mapped(f, s)
  <2>1. SUFFICES ASSUME NEW s \in Seq(RunTalk) PROVE AsInputs(s) = Mapped(f, s)
    OBVIOUS
  <2>2. \A i \in DOMAIN s : s[i] \in RunTalk
    BY <2>1
  <2>3. \A i \in DOMAIN s : AsInput(s[i]) = f[s[i]]
    BY <1>1, <2>2
  <2>4. QED
    BY <2>3 DEF AsInputs, Mapped
<1>5. ASSUME NEW s \in Seq(RunTalk), NEW t \in Seq(RunTalk)
      PROVE  AsInputs(s \o t) = AsInputs(s) \o AsInputs(t)
  <2>1. s \o t \in Seq(RunTalk)
    BY <1>5
  <2>2. AsInputs(s \o t) = Mapped(f, s \o t) /\ AsInputs(s) = Mapped(f, s)
        /\ AsInputs(t) = Mapped(f, t)
    BY <1>4, <1>5, <2>1
  <2>3. Mapped(f, s \o t) = Mapped(f, s) \o Mapped(f, t)
    BY <1>3, <1>5, Zenon DEF MapsEach
  <2>4. QED
    BY <2>2, <2>3, Zenon
<1>6. QED
  BY <1>3, <1>4, <1>5 DEF MapsEach

LEMMA ForwardedAre ==
    ASSUME NEW s \in Seq(RunTalk)
    PROVE  /\ Forwarded(s) \in Seq(RunTalk)
           /\ \A r \in ToSet(Forwarded(s)) : r.kind \notin {"tool_call", "tool_call_output"}
<1>1. PICK I \in SUBSET DOMAIN s :
          I = {i \in DOMAIN s : s[i].kind \notin {"tool_call", "tool_call_output", "reasoning"}}
  OBVIOUS
<1>2. Forwarded(s) = Picked(s, I)
  BY <1>1, Zenon DEF Forwarded
<1>3. Picked(s, I) \in Seq(RunTalk) /\ ToSet(Picked(s, I)) = {s[i] : i \in I}
  BY PickedAre, PickedCounts
<1>4. QED
  BY <1>1, <1>2, <1>3

IsHandedOn(data) ==
    /\ data.history \in Seq(OwnTalk) /\ data.pre \in Seq(RunTalk) /\ data.new \in Seq(RunTalk)
IsNesting(settings) ==
    /\ settings.filter = "unset" /\ settings.nest = "yes"
    /\ settings.mapper \in {"default", "keep"}

LEMMA TranscriptIs ==
    ASSUME NEW history, Flattened(history) \in Seq(Talk), NEW data, data.history = history,
           data.pre \in Seq(RunTalk), data.new \in Seq(RunTalk)
    PROVE  /\ Transcript(data) = Flattened(history) \o AsInputs(data.pre) \o AsInputs(data.new)
           /\ Transcript(data) \in Seq(Talk)
           /\ Flattened(history) \in Seq(OwnTalk) => Transcript(data) \in Seq(OwnTalk)
<1>1. PICK a, b, c : a = Flattened(history) /\ b = AsInputs(data.pre) /\ c = AsInputs(data.new)
  OBVIOUS
<1>2. Transcript(data) = a \o b \o c
  BY <1>1, Zenon DEF Transcript
<1>3. b \in Seq(OwnTalk) /\ c \in Seq(OwnTalk) /\ a \in Seq(Talk)
  BY <1>1, InputsAre
<1>4. Seq(OwnTalk) \subseteq Seq(Talk)
  BY DEF OwnTalk
<1>5. b \in Seq(Talk) /\ c \in Seq(Talk)
  BY <1>3, <1>4
<1>6. a \o b \o c \in Seq(Talk)
  BY <1>3, <1>5
<1>7. a \in Seq(OwnTalk) => a \o b \o c \in Seq(OwnTalk)
  BY <1>3
<1>8. QED
  BY <1>1, <1>2, <1>6, <1>7

LEMMA NestedIs ==
    ASSUME NEW data, data.pre \in Seq(RunTalk), data.new \in Seq(RunTalk),
           Transcript(data) \in Seq(Talk), NEW mapper \in {"default", "keep"},
           NEW t, t = Nested(data, mapper)
    PROVE  /\ t.pre \in Seq(RunTalk) /\ t.inputs \in Seq(RunTalk) /\ t.new = data.new
           /\ \A r \in ToSet(t.pre \o t.inputs) : r.kind \notin {"tool_call", "tool_call_output"}
           /\ mapper = "keep" => /\ t.history = Transcript(data)
                                 /\ Flattened(t.history) = Transcript(data)
           /\ mapper = "default" => /\ t.history = <<Summary(Transcript(data))>>
                                    /\ Flattened(t.history) = ParsedAll(Transcript(data))
<1>1. /\ t.history = IF mapper = "keep" THEN Transcript(data) ELSE <<Summary(Transcript(data))>>
      /\ t.pre = Forwarded(data.pre) /\ t.inputs = Forwarded(data.new) /\ t.new = data.new
  BY DEF Nested
<1>2. PICK a, b : a = t.pre /\ b = t.inputs
  OBVIOUS
<1>3. /\ a \in Seq(RunTalk) /\ b \in Seq(RunTalk)
      /\ \A r \in ToSet(a) \cup ToSet(b) : r.kind \notin {"tool_call", "tool_call_output"}
  BY <1>1, <1>2, ForwardedAre
<1>4. ToSet(a \o b) \subseteq ToSet(a) \cup ToSet(b)
  BY <1>3, ConcatHolds
<1>5. /\ Flattened(Transcript(data)) = Transcript(data)
      /\ Flattened(<<Summary(Transcript(data))>>) = ParsedAll(Transcript(data))
  BY FlattenedIs
<1>6. QED
  BY <1>1, <1>2, <1>3, <1>4, <1>5

LEMMA NestedIsCarried ==
    ASSUME NEW data, IsHandedOn(data), NEW settings, IsNesting(settings),
           NEW more \in Seq(RunTalk), NEW first, first = Nested(data, settings.mapper)
    PROVE  HistoryIsCarried(data, settings, more, first)
<1>1. PICK m \in {"default", "keep"} : m = settings.mapper
  BY DEF IsNesting
<1>2. PICK T : T = Transcript(data)
  OBVIOUS
<1>3. Seq(OwnTalk) \subseteq Seq(Talk) /\ Seq(OneLine) \subseteq Seq(Talk)
  BY DEF OwnTalk, OneLine
<1>4. T \in Seq(OwnTalk) /\ T \in Seq(Talk)
  <2>1. /\ data.history \in Seq(Talk) /\ data.history \in Seq(OwnTalk)
        /\ data.pre \in Seq(RunTalk) /\ data.new \in Seq(RunTalk)
    BY <1>3 DEF IsHandedOn
  <2>2. Flattened(data.history) = data.history
    BY <2>1, FlattenedIs
  <2>3. QED
    BY <1>2, <2>1, <2>2, TranscriptIs
<1>5. /\ first.pre \in Seq(RunTalk) /\ first.inputs \in Seq(RunTalk) /\ first.new = data.new
      /\ m = "keep" => Flattened(first.history) = T
      /\ m = "default" => Flattened(first.history) = ParsedAll(T)
  BY <1>1, <1>2, <1>4, NestedIs DEF IsHandedOn
<1>6. PICK carried : carried = Flattened(first.history)
  OBVIOUS
<1>7. carried \in Seq(Talk) /\ Unquoted(Spoken(carried)) = Spoken(T)
  <2>1. Unquoted(Spoken(T)) = Spoken(T) /\ Unquoted(Spoken(ParsedAll(T))) = Spoken(T)
    BY <1>4, OwnSpoken
  <2>2. ParsedAll(T) \in Seq(Talk)
    BY <1>3, <1>4, ParsedAre
  <2>3. QED
    BY <1>4, <1>5, <1>6, <2>1, <2>2
<1>8. PICK next : next = AfterHandoff(first, more)
  OBVIOUS
<1>9. PICK p, q : p = first.pre /\ q = first.inputs
  OBVIOUS
<1>10. /\ next.history = first.history /\ next.pre = p \o q /\ next.new = more
       /\ p \in Seq(RunTalk) /\ q \in Seq(RunTalk) /\ p \o q \in Seq(RunTalk)
  <2>1. p \in Seq(RunTalk) /\ q \in Seq(RunTalk)
    BY <1>5, <1>9
  <2>2. p \o q \in Seq(RunTalk)
    BY <2>1
  <2>3. next.history = first.history /\ next.pre = p \o q /\ next.new = more
    BY <1>8, <1>9 DEF AfterHandoff
  <2>4. QED
    BY <2>1, <2>2, <2>3
<1>11. PICK U : U = Transcript(next)
  OBVIOUS
<1>12. PICK a, b : a = AsInputs(p \o q) /\ b = AsInputs(more)
  OBVIOUS
<1>13. U = carried \o a \o b /\ U \in Seq(Talk)
  BY <1>6, <1>7, <1>10, <1>11, <1>12, TranscriptIs
<1>14. PICK second : second = HandoffTransition(next, settings.filter, settings.nest,
                                                settings.mapper)
  OBVIOUS
<1>15. second = Nested(next, m)
  BY <1>1, <1>14 DEF HandoffTransition, IsNesting
<1>16. /\ second.new = more
       /\ \A r \in ToSet(second.pre \o second.inputs) :
              r.kind \notin {"tool_call", "tool_call_output"}
       /\ m = "keep" => second.history = U /\ Flattened(second.history) = U
       /\ m = "default" => /\ second.history = <<Summary(U)>>
                           /\ Flattened(second.history) = ParsedAll(U)
  BY <1>10, <1>11, <1>13, <1>15, NestedIs, ZenonT(60)
<1>17. Unquoted(Spoken(U)) = Spoken(T) \o Spoken(AsInputs(p \o q \o more))
  <2>1. a \in Seq(OwnTalk) /\ b \in Seq(OwnTalk) /\ a \in Seq(Talk) /\ b \in Seq(Talk)
    BY <1>3, <1>10, <1>12, InputsAre
  <2>2. AsInputs(p \o q \o more) = a \o b
    BY <1>10, <1>12, InputsAre
  <2>3. PICK ca : ca = carried \o a
    OBVIOUS
  <2>4. ca \in Seq(Talk)
    BY <1>7, <2>1, <2>3
  <2>5. PICK x, y, z : x = Spoken(T) /\ y = Spoken(a) /\ z = Spoken(b)
    OBVIOUS
  <2>6. x \in Seq(Talk) /\ y \in Seq(Talk) /\ z \in Seq(Talk)
    BY <1>4, <2>1, <2>5, SpokenAre
  <2>7. Unquoted(Spoken(ca)) = Unquoted(Spoken(carried)) \o Unquoted(Spoken(a))
    BY <1>7, <2>1, <2>3, UnquotedInTurn
  <2>8. Unquoted(Spoken(ca \o b)) = Unquoted(Spoken(ca)) \o Unquoted(Spoken(b))
    BY <2>1, <2>4, UnquotedInTurn
  <2>9. Unquoted(Spoken(a)) = y /\ Unquoted(Spoken(b)) = z
    BY <2>1, <2>5, OwnSpoken
  <2>10. Spoken(a \o b) = y \o z
    BY <2>1, <2>5, SpokenAre
  <2>11. (x \o y) \o z = x \o (y \o z)
    BY <2>6, BehindAndBehind DEF AreBehind
  <2>12. Unquoted(Spoken(U)) = (x \o y) \o z
    BY <1>7, <1>13, <2>3, <2>5, <2>7, <2>8, <2>9, Zenon
  <2>13. QED
    BY <2>2, <2>5, <2>10, <2>11, <2>12, Zenon
<1>18. Flattened(<<Summary(Flattened(second.history))>>)
           = IF m = "default" THEN Flattened(second.history)
             ELSE Flattened(<<Summary(second.history)>>)
  <2>1. CASE m = "keep"
    BY <1>16, <2>1
  <2>2. CASE m = "default"
    <3>1. PICK R : R = ParsedAll(U)
      OBVIOUS
    <3>2. R \in Seq(OneLine) /\ R \in Seq(Talk)
      BY <1>3, <1>13, <3>1, ParsedAre
    <3>3. ParsedAll(R) = R
      BY <3>2, ReadOnce
    <3>4. Flattened(<<Summary(R)>>) = R
      BY <3>2, <3>3, FlattenedIs
    <3>5. QED
      BY <1>16, <2>2, <3>1, <3>4
  <2>3. QED
    BY <1>1, <2>1, <2>2
<1>19. m = "default" => /\ Len(second.history) = 1
                        /\ \A i \in DOMAIN second.history[1].sums :
                               second.history[1].sums[i].kind # "summary"
  <2>1. SUFFICES ASSUME m = "default"
                 PROVE  /\ Len(second.history) = 1
                        /\ \A i \in DOMAIN second.history[1].sums :
                               second.history[1].sums[i].kind # "summary"
    OBVIOUS
  <2>2. PICK y : y = Summary(U)
    OBVIOUS
  <2>3. second.history = <<y>> /\ y.sums = U
    BY <1>16, <2>1, <2>2 DEF Summary
  <2>4. \A i \in DOMAIN U : U[i].kind # "summary"
    BY <1>13, TalkIs
  <2>5. Len(<<y>>) = 1 /\ <<y>>[1] = y
    OBVIOUS
  <2>6. QED
    BY <2>3, <2>4, <2>5
<1>20. QED
  BY <1>1, <1>2, <1>5, <1>8, <1>9, <1>11, <1>14, <1>16, <1>17, <1>18, <1>19, Zenon
     DEF HistoryIsCarried

LEMMA HistoryItemsAre ==
    /\ Histories \subseteq Seq(OwnTalk)
    /\ Steps \subseteq Seq(RunTalk)
<1>1. /\ <<>> \in Seq(TalkLines) /\ <<"plain">> \in Seq(TalkLines)
      /\ <<"colon">> \in Seq(TalkLines) /\ <<"plain", "colon">> \in Seq(TalkLines)
      /\ <<"plain", "plain">> \in Seq(TalkLines)
  BY DEF TalkLines
<1>2. \A k, o, l : k \in TalkKinds /\ o \in TalkRoles /\ l \in Seq(TalkLines)
                       => Said(k, o, l) \in Talk
  BY DEF Said, Talk
<1>3. \A k, o, l : RoleShown(Said(k, o, l)) = IF k = "text" THEN "user" ELSE o
  BY DEF Said, RoleShown
<1>4. /\ {"text", "message", "typed"} \subseteq TalkKinds
      /\ {"", "system", "tool_call_output"} \subseteq TalkRoles
  BY DEF TalkKinds, TalkRoles, RunKinds
<1>5. PICK A : A = {Said("text", "", <<"colon">>), Said("text", "", <<"plain", "colon">>),
                    Said("message", "system", <<>>),
                    Said("typed", "tool_call_output", <<"plain">>)}
  OBVIOUS
<1>6. A \subseteq OwnTalk
  <2>1. ASSUME NEW k, NEW o, NEW l, k \in TalkKinds, o \in TalkRoles, l \in Seq(TalkLines),
               o # "quoted"
        PROVE  Said(k, o, l) \in OwnTalk
    BY <1>2, <1>3, <2>1 DEF OwnTalk
  <2>2. /\ Said("text", "", <<"colon">>) \in OwnTalk
        /\ Said("text", "", <<"plain", "colon">>) \in OwnTalk
    BY <1>1, <1>4, <2>1
  <2>3. /\ Said("message", "system", <<>>) \in OwnTalk
        /\ Said("typed", "tool_call_output", <<"plain">>) \in OwnTalk
    BY <1>1, <1>4, <2>1
  <2>4. QED
    BY <1>5, <2>2, <2>3
<1>7. Histories \subseteq Seq(OwnTalk)
  <2>1. SUFFICES ASSUME NEW h \in Histories PROVE h \in Seq(OwnTalk)
    OBVIOUS
  <2>2. h \in SeqOf(A, 2)
    BY <1>5, <2>1, Zenon DEF Histories
  <2>3. h \in Seq(A)
    BY <2>2, SeqOfIs
  <2>4. QED
    BY <1>6, <2>3
<1>8. PICK B : B = {RunItemOf("message_output", <<"plain">>),
                    RunItemOf("message_output", <<"plain", "plain">>),
                    RunItemOf("tool_call", <<"plain">>),
                    RunItemOf("handoff_output", <<"plain">>)}
  OBVIOUS
<1>9. B \subseteq RunTalk
  <2>1. \A k, l : k \in RunKinds /\ l \in Seq(TalkLines) => RunItemOf(k, l) \in RunTalk
    BY DEF RunItemOf, RunTalk
  <2>2. {"message_output", "tool_call", "handoff_output"} \subseteq RunKinds
    BY DEF RunKinds
  <2>3. QED
    BY <1>1, <1>8, <2>1, <2>2
<1>10. Steps \subseteq Seq(RunTalk)
  <2>1. SUFFICES ASSUME NEW h \in Steps PROVE h \in Seq(RunTalk)
    OBVIOUS
  <2>2. h \in SeqOf(B, 2)
    BY <1>8, <2>1, Zenon DEF Steps
  <2>3. h \in Seq(B)
    BY <2>2, SeqOfIs
  <2>4. QED
    BY <1>9, <2>3
<1>11. QED
  BY <1>7, <1>10

(* Everything said is carried in order over two handoffs, for histories    *)
(* and runs of any length: what the second one sums up is what the first   *)
(* one did, then what the first one forwarded, which is told twice, then   *)
(* what is new.  The first handoff finds no summary yet, the second one    *)
(* that of the first (HistoryIsCarried).                                   *)
THEOREM EveryHistoryIsCarried ==
    ASSUME NEW data, IsHandedOn(data), NEW settings, NEW more \in Seq(RunTalk),
           settings.mapper \in {"default", "keep"}, settings.nest \in {"yes", "no"}
    PROVE  HistoryIsCarried(data, settings, more,
                            HandoffTransition(data, settings.filter, settings.nest,
                                              settings.mapper))
<1>1. PICK first : first = HandoffTransition(data, settings.filter, settings.nest,
                                             settings.mapper)
  OBVIOUS
<1>2. CASE settings.filter = "unset" /\ settings.nest = "yes"
  <2>1. IsNesting(settings)
    BY <1>2 DEF IsNesting
  <2>2. first = Nested(data, settings.mapper)
    BY <1>1, <1>2 DEF HandoffTransition
  <2>3. HistoryIsCarried(data, settings, more, first)
    BY <2>1, <2>2, NestedIsCarried, Zenon
  <2>4. QED
    BY <1>1, <2>3
<1>3. CASE ~(settings.filter = "unset" /\ settings.nest = "yes")
  <2>1. \A d : LET t == HandoffTransition(d, settings.filter, settings.nest, settings.mapper)
               IN  t.new = d.new
    BY DEF HandoffTransition, Filtered, Nested
  <2>2. AfterHandoff(first, more).new = more
    BY DEF AfterHandoff
  <2>3. QED
    BY <1>1, <1>3, <2>1, <2>2, Zenon DEF HistoryIsCarried
<1>4. QED
  BY <1>2, <1>3

LEMMA HandoffStep == HandOff => HistoryIsCarried(given'[1], given'[2], given'[3], made')
<1>1. SUFFICES ASSUME HandOff PROVE HistoryIsCarried(given'[1], given'[2], given'[3], made')
  OBVIOUS
<1>2. PICK history \in Histories, pre \in Steps, new \in Steps, more \in Steps,
           filter \in {"unset", "remove"}, nest \in {"yes", "no"},
           mapper \in {"default", "keep"} :
          LET data == [history |-> history, pre |-> pre, new |-> new]
          IN  /\ given' = <<data, [filter |-> filter, nest |-> nest, mapper |-> mapper], more>>
              /\ made' = HandoffTransition(data, filter, nest, mapper)
  BY <1>1 DEF HandOff
<1>3. PICK data : data = [history |-> history, pre |-> pre, new |-> new]
  OBVIOUS
<1>4. PICK settings : settings = [filter |-> filter, nest |-> nest, mapper |-> mapper]
  OBVIOUS
<1>5. given' = <<data, settings, more>> /\ made' = HandoffTransition(data, filter, nest, mapper)
  BY <1>2, <1>3, <1>4
<1>6. IsHandedOn(data) /\ more \in Seq(RunTalk)
  BY <1>2, <1>3, HistoryItemsAre DEF IsHandedOn
<1>7. /\ settings.filter = filter /\ settings.nest = nest /\ settings.mapper = mapper
      /\ settings.mapper \in {"default", "keep"} /\ settings.nest \in {"yes", "no"}
  BY <1>2, <1>4
<1>8. HistoryIsCarried(data, settings, more,
                       HandoffTransition(data, settings.filter, settings.nest, settings.mapper))
  BY <1>6, <1>7, EveryHistoryIsCarried, Zenon
<1>9. HistoryIsCarried(data, settings, more, made')
  BY <1>5, <1>7, <1>8, Zenon
<1>10. given'[1] = data /\ given'[2] = settings /\ given'[3] = more
  BY <1>5
<1>11. QED
  BY <1>9, <1>10

-----------------------------------------------------------------------------
LEMMA TranscriptsStep == Transcripts /\ [ConversionNext]_conversionVars => Transcripts'
<1> SUFFICES ASSUME Transcripts, [ConversionNext]_conversionVars PROVE Transcripts'
  OBVIOUS
<1>1. CASE UNCHANGED dataVars
  BY <1>1 DEF Transcripts, dataVars
<1>2. CASE ~done /\ done' = TRUE /\ subject' = subject /\ Convert
  BY <1>2, SubjectsAct, ReplayStep, TrimStep, HandoffStep, CombineStep DEF Transcripts
<1>3. QED
  BY <1>1, <1>2 DEF ConversionNext, conversionVars

(* What is written down of a conversation for later is whole and in order: *)
(* the replayed input, the trimmed one, the nested history of handoffs,    *)
(* and what a session is given to keep, each as its property says, with    *)
(* the repeats that it names (Transcripts).                                *)
THEOREM TranscriptsAreWhole == ConversionSpec => []Transcripts
<1>1. ConversionInit => Transcripts
  BY DEF ConversionInit, Transcripts
<1>2. QED
  BY <1>1, TranscriptsStep, PTL DEF ConversionSpec
=============================================================================
