------------------------ MODULE ConversationTracker ------------------------
(***************************************************************************)
(* OpenAIServerConversationTracker (internal/oai_conversation.rs) over the *)
(* turns of one run whose conversation the server keeps: each request      *)
(* carries only what the server has not seen, whatever an input filter of  *)
(* the caller dropped, reordered or edited in the requests before.         *)
(*                                                                         *)
(* The tracker knows an item by its fingerprint (its serialised text) and  *)
(* for the length of one request by its address; ids of server items and   *)
(* of their calls act like further fingerprints and are left out.          *)
(***************************************************************************)
EXTENDS Naturals, Sequences, SequencesExt, FiniteSetsExt, ItemSelection

CONSTANTS Fingerprints,  \* the texts an item may have
          MaxInitial,    \* bound: items of the original input
          MaxTurns       \* bound: requests

ASSUME TrackerBoundsAssumption == MaxInitial \in Nat /\ MaxTurns \in Nat

VARIABLES
    initial,    \* the original input
    sentInitial, remaining,   \* sent_initial_input, remaining_initial_input
    sentPrints, \* sent_item_fingerprints
    generated,  \* the generated items of the run
    prepared,   \* the input prepared for the next request
    turn, place,
    seen,       \* history: occurrences the server has seen,
    edited      \*          a filter put in items of its own

trackerVars ==
    <<initial, sentInitial, remaining, sentPrints, generated, prepared, turn,
      place, seen, edited>>

MaxOccurrences == MaxInitial + 2 * MaxTurns
(* An occurrence of an item; "no" tells occurrences apart, which the code  *)
(* can only do by address.                                                 *)
Occurrences == [print : Fingerprints, no : 1..MaxOccurrences]

TrackerTypeOK ==
    /\ initial \in Seq(Occurrences) /\ remaining \in Seq(Occurrences)
    /\ generated \in Seq(Occurrences) /\ prepared \in Seq(Occurrences)
    /\ sentInitial \in BOOLEAN /\ edited \in BOOLEAN
    /\ sentPrints \subseteq Fingerprints
    /\ turn \in 0..MaxTurns
    /\ place \in {"start", "turn", "prepared", "delivered", "end"}
    /\ seen \subseteq 1..MaxOccurrences

TrackerInit ==
    /\ initial = <<>> /\ remaining = <<>> /\ generated = <<>> /\ prepared = <<>>
    /\ sentInitial = FALSE /\ edited = FALSE
    /\ sentPrints = {} /\ seen = {}
    /\ turn = 0 /\ place = "start"

StartTracking ==
    /\ place = "start"
    /\ \E prints \in SeqOf(Fingerprints, MaxInitial) :
        initial' = [k \in 1..Len(prints) |-> [print |-> prints[k], no |-> k]]
    /\ place' = "turn"
    /\ UNCHANGED <<sentInitial, remaining, sentPrints, generated, prepared,
                   turn, seen, edited>>

-----------------------------------------------------------------------------
(* prepare_input: the original input the first time and what is left of it *)
(* later, and the generated items that were neither sent nor received.     *)

NotSent(items) ==
    Those(items, {o \in ToSet(items) : o.print \notin sentPrints})

(* Mutant: what is left of the original input is not tried again.          *)
PrepareOnlyGenerated ==
    /\ place = "turn"
    /\ turn < MaxTurns
    /\ turn' = turn + 1
    /\ remaining' = IF sentInitial THEN <<>> ELSE initial
    /\ prepared' = remaining' \o NotSent(generated)
    /\ sentInitial' = TRUE
    /\ place' = "prepared"
    /\ UNCHANGED <<initial, sentPrints, generated, seen, edited>>

PrepareInput ==
    /\ place = "turn"
    /\ turn < MaxTurns
    /\ turn' = turn + 1
    /\ remaining' = IF sentInitial THEN remaining ELSE initial
    /\ prepared' = remaining' \o NotSent(generated)
    /\ sentInitial' = TRUE
    /\ place' = "prepared"
    /\ UNCHANGED <<initial, sentPrints, generated, seen, edited>>

-----------------------------------------------------------------------------
(* derive_filtered_input_source_indices: which prepared item each item     *)
(* that the filter returned stands for.  A filtered item has a text, and   *)
(* the address of the prepared item "from" it was made of, or 0 for an     *)
(* object of its own.  0 is no match in the result too.                    *)

Unmatched(m) == DOMAIN prepared \ {m[i] : i \in DOMAIN m}

ByAddress(filtered) == [i \in DOMAIN filtered |-> filtered[i].from]

(* The only unmatched one with the same text.                              *)
ByText(text, m) ==
    LET same == {j \in Unmatched(m) : prepared[j].print = text}
    IN  IF Cardinality(same) = 1 THEN same ELSE {}

(* The unmatched ones between the matches of the neighbours, or on the one *)
(* side of the only neighbour, or all when there are none.                 *)
Between(m, i) ==
    LET before == {k \in 1..i - 1 : m[k] # 0}
        after == {k \in i + 1..Len(m) : m[k] # 0}
        p == IF before = {} THEN 0 ELSE m[Max(before)]
        n == IF after = {} THEN 0 ELSE m[Min(after)]
        inside == CASE p # 0 /\ n # 0 -> {j \in Unmatched(m) :
                                             Min({p, n}) < j /\ j < Max({p, n})}
                    [] p # 0 /\ n = 0 -> {j \in Unmatched(m) : j > p}
                    [] p = 0 /\ n # 0 -> {j \in Unmatched(m) : j < n}
                    [] OTHER -> Unmatched(m)
    IN  IF inside = {} THEN Unmatched(m) ELSE inside

ByPlace(m, i) ==
    IF Cardinality(Between(m, i)) = 1 THEN Between(m, i) ELSE {}

TheNextInOrder(m) == IF Unmatched(m) = {} THEN {} ELSE {Min(Unmatched(m))}

Choice(way, filtered, m, i) ==
    CASE way = "text"  -> ByText(filtered[i].print, m)
      [] way = "place" -> ByPlace(m, i)
      [] way = "order" -> TheNextInOrder(m)

Match(way, filtered, m, i) ==
    LET choice == Choice(way, filtered, m, i)
    IN  IF m[i] = 0 /\ choice # {}
        THEN [m EXCEPT ![i] = CHOOSE j \in choice : TRUE] ELSE m

(* One pass over the filtered items: each that has no match yet gets the   *)
(* one this way chooses, if there is one.                                  *)
Pass(way, filtered, m) ==
    LET matched[n \in 0..Len(m)] ==
            IF n = 0 THEN m ELSE Match(way, filtered, matched[n - 1], n)
    IN  matched[Len(m)]

(* Mutant: copies are matched by their place only.                         *)
SourcesByPlace(filtered) ==
    Pass("order", filtered, Pass("place", filtered, ByAddress(filtered)))

SourcesOf(filtered) ==
    Pass("order", filtered,
         Pass("place", filtered,
              Pass("text", filtered, ByAddress(filtered))))

-----------------------------------------------------------------------------
(* mark_input_as_sent_with_sources, after the model has answered: the      *)
(* source of each delivered item counts as sent, or the item itself when   *)
(* it has no source.                                                       *)

Removed(items, print) ==
    LET hits == {k \in DOMAIN items : items[k].print = print}
    IN  IF hits = {} THEN items ELSE RemoveAt(items, Min(hits))

(* Each print takes one item with it.                                      *)
Spent(items, prints) ==
    LET left[n \in 0..Len(prints)] ==
            IF n = 0 THEN items ELSE Removed(left[n - 1], prints[n])
    IN  left[Len(prints)]

(* Mutant: sent items stay in what remains of the original input.          *)
MarkPrints(prints) ==
    /\ sentPrints' = sentPrints \cup ToSet(prints)
    /\ UNCHANGED remaining

Mark(prints) ==
    /\ sentPrints' = sentPrints \cup ToSet(prints)
    /\ remaining' = Spent(remaining, prints)

(* No filter: what was prepared is delivered.                              *)
Deliver ==
    /\ place = "prepared"
    /\ Mark([k \in DOMAIN prepared |-> prepared[k].print])
    /\ seen' = seen \cup {o.no : o \in ToSet(prepared)}
    /\ place' = "delivered"
    /\ UNCHANGED <<initial, sentInitial, generated, prepared, turn, edited>>

(* call_model_input_filter keeps, drops, reorders and edits items, and may *)
(* put in an object of its own: a copy of an item, or another text.        *)
Kept(j) == [from |-> j, print |-> prepared[j].print]
Own(print) == [from |-> 0, print |-> print]
Filters ==
    LET keeps == {[k \in DOMAIN s |-> Kept(s[k])] :
                      s \in {t \in SeqOf(DOMAIN prepared, Len(prepared)) :
                                 IsInjective(t)}}
    IN  keeps \cup UNION {{InsertAt(f, k, Own(print)) :
                               k \in 1..Len(f) + 1, print \in Fingerprints} :
                          f \in keeps}

(* The prepared items that a filtered one without address is the only copy *)
(* of.                                                                     *)
CopiedBy(f) ==
    {j \in DOMAIN prepared :
        /\ \A k \in DOMAIN f : f[k].from # j
        /\ \E k \in DOMAIN f :
               f[k].from = 0 /\ f[k].print = prepared[j].print
        /\ \A i \in DOMAIN prepared \ {j} : prepared[i].print # prepared[j].print}

DeliverFiltered ==
    /\ place = "prepared"
    /\ \E f \in Filters :
        LET m == SourcesOf(f)
            froms == {f[k].from : k \in DOMAIN f} \ {0}
        IN  /\ Mark([k \in DOMAIN f |->
                        IF m[k] # 0 THEN prepared[m[k]].print ELSE f[k].print])
            /\ seen' = seen \cup {prepared[j].no : j \in froms \cup CopiedBy(f)}
            /\ edited' = (edited \/ Len(f) # Cardinality(froms \cup CopiedBy(f)))
    /\ place' = "delivered"
    /\ UNCHANGED <<initial, sentInitial, generated, prepared, turn>>

(* The model call fails, and the run with it.                              *)
ModelFails ==
    /\ place = "prepared"
    /\ place' = "end"
    /\ UNCHANGED <<initial, sentInitial, remaining, sentPrints, generated,
                   prepared, turn, seen, edited>>

(* apply_response: track_server_items; then the run adds the items of the  *)
(* response and the output it made for them (of a tool, or of a handoff,   *)
(* whose text repeats when the same agent hands off again), or ends.       *)
Respond ==
    /\ place = "delivered"
    /\ \E theirs, ours \in Fingerprints :
        LET no == MaxInitial + 2 * turn
        IN  /\ sentPrints' = sentPrints \cup {theirs}
            /\ remaining' = Those(remaining,
                    {o \in ToSet(remaining) : o.print # theirs})
            /\ seen' = seen \cup {no - 1}
            /\ \/ /\ generated' = generated \o <<[print |-> theirs, no |-> no - 1],
                                                 [print |-> ours, no |-> no]>>
                  /\ place' = "turn"
               \/ /\ generated' = Append(generated,
                                         [print |-> theirs, no |-> no - 1])
                  /\ place' = "end"
    /\ prepared' = <<>>
    /\ UNCHANGED <<initial, sentInitial, turn, edited>>

TrackerNext ==
    \/ StartTracking \/ PrepareInput
    \/ Deliver \/ DeliverFiltered \/ ModelFails
    \/ Respond

TrackerSpec == TrackerInit /\ [][TrackerNext]_trackerVars

-----------------------------------------------------------------------------
(* Properties.                                                             *)

Known == ToSet(initial) \cup ToSet(generated)
Twins(o) == {t \in Known : t.print = o.print /\ t.no # o.no}
InRequest(o) == o \in ToSet(prepared)

(* Nothing is forgotten: an item that the server has not seen, because a   *)
(* filter dropped it or because it is new, is in the next request.  Only   *)
(* an item whose text the server has seen in another one is left out.  A   *)
(* text of its own that a filter puts in is attributed by its place, and   *)
(* then nothing is promised.                                               *)
UnseenIsPrepared ==
    place = "prepared" /\ ~edited =>
        \A o \in Known :
            \/ o.no \in seen \/ InRequest(o)
            \/ \E t \in Twins(o) : t.no \in seen

(* Nothing is sent twice: a request holds no item that the server has      *)
(* seen, unless it stands for another one with the same text that it has   *)
(* not, whatever the filters put in.                                       *)
SeenIsNotRepeated ==
    place = "prepared" =>
        \A o \in ToSet(prepared) :
            o.no \in seen =>
                \E t \in Twins(o) : t.no \notin seen /\ ~InRequest(t)

(* Each filtered item gets a source of its own, and an item kept by its    *)
(* address or copied whole gets itself.                                    *)
SourcesAreRight ==
    place = "prepared" =>
        \A f \in Filters :
            LET m == SourcesOf(f)
            IN  \A k \in DOMAIN f :
                    /\ f[k].from # 0 => m[k] = f[k].from
                    /\ \A i \in DOMAIN f : m[i] = m[k] /\ i # k => m[k] = 0
                    /\ \A j \in CopiedBy(f) :
                           f[k].print = prepared[j].print => m[k] = j
=============================================================================
