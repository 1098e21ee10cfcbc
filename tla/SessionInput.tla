---------------------------- MODULE SessionInput ----------------------------
(***************************************************************************)
(* What of a run's input is new to its session when a callback puts the    *)
(* input together from the session's history and the new items             *)
(* (internal/session_persistence.rs).                                      *)
(*                                                                         *)
(* An item is its content and its tag: the tag is the sentinel that is put *)
(* into empty objects before the callback is called, and 0 in every other  *)
(* item.  Hashes are taken to be as good as the contents.                  *)
(***************************************************************************)
EXTENDS Naturals, Sequences, FiniteSets, SequencesExt, ItemSelection

Contents == {"a", "b", "number", "{}"}

(* seed_empty_json_object_identity: the new items after the history.       *)
Seeded(items, first) ==
    [i \in DOMAIN items |->
        [content |-> items[i], tag |-> IF items[i] = "{}" THEN first + i ELSE 0]]

(* strip_empty_json_object_identity; session_item_key is what is left.     *)
Key(item) == item.content
Stripped(item) == [item EXCEPT !.tag = 0]

(* input_item_identity: none for scalars, nor for an empty object that the *)
(* callback made.                                                          *)
HasIdentity(item) ==
    CASE item.content = "number" -> FALSE
      [] item.content = "{}" -> item.tag # 0
      [] OTHER -> TRUE

(* prefers_new_frequency_match.                                            *)
PrefersNew(item) == item.content \in {"number", "{}"}

(* build_reference_map and build_frequency_map: how often an item can be   *)
(* recognised, by itself and by its key.                                   *)
References(items) ==
    [item \in {i \in ToSet(items) : HasIdentity(i)} |->
        Cardinality({n \in DOMAIN items : items[n] = item})]
Frequencies(items) ==
    [k \in Contents |-> Cardinality({n \in DOMAIN items : Key(items[n]) = k})]

Matching(history, new) ==
    [refs |-> [old |-> References(history), new |-> References(new)],
     counts |-> [old |-> Frequencies(history), new |-> Frequencies(new)],
     saved |-> <<>>]

(* consume_reference, and decrement_count, which stops at zero.            *)
IsReferred(m, side, item) == item \in DOMAIN m.refs[side] /\ m.refs[side][item] > 0
Less(n) == IF n = 0 THEN 0 ELSE n - 1
Consumed(m, side, item) ==
    [m EXCEPT !.refs[side][item] = @ - 1, !.counts[side][Key(item)] = Less(@)]
Counted(m, side, item) == [m EXCEPT !.counts[side][Key(item)] = Less(@)]
Saving(m, item) == [m EXCEPT !.saved = Append(@, Stripped(item))]

(* The loop over the items that the callback returned.                     *)
Matched(m, item) ==
    LET order == IF PrefersNew(item) THEN <<"new", "old">> ELSE <<"old", "new">>
        side == IF m.counts[order[1]][Key(item)] > 0 THEN order[1]
                ELSE IF m.counts[order[2]][Key(item)] > 0 THEN order[2]
                ELSE "none"
    IN IF IsReferred(m, "new", item) THEN Saving(Consumed(m, "new", item), item)
       ELSE IF IsReferred(m, "old", item) THEN Consumed(m, "old", item)
       ELSE CASE side = "new" -> Saving(Counted(m, "new", item), item)
              [] side = "old" -> Counted(m, "old", item)
              [] side = "none" -> Saving(m, item)

(* prepare_input_with_session, with a callback.                            *)
PrepareWithCallback(history, new, combined) ==
    LET matched[n \in 0..Len(combined)] ==
            IF n = 0 THEN Matching(history, new) ELSE Matched(matched[n - 1], combined[n])
    IN [prepared |-> [i \in DOMAIN combined |-> Stripped(combined[i])],
        saved |-> matched[Len(combined)].saved]

-----------------------------------------------------------------------------
(* Inputs: what a callback may return is some of the items, in any order,  *)
(* and items of its own.                                                   *)

Combinations(history, new) ==
    LET parts == [n \in 1..Len(history) |-> <<"old", n>>]
                 \o [n \in 1..Len(new) |-> <<"new", n>>]
    IN {c \in SeqOf(ToSet(parts) \cup {<<"made", c>> : c \in {"a", "{}"}}, 3) :
           \A i, j \in DOMAIN c : c[i] = c[j] /\ c[i][1] # "made" => i = j}
ItemAt(history, new, place) ==
    CASE place[1] = "old" -> history[place[2]]
      [] place[1] = "new" -> new[place[2]]
      [] place[1] = "made" -> [content |-> place[2], tag |-> 0]

(* Whatever a callback keeps, drops, repeats or adds: the tags stay        *)
(* between the run and the callback; the session is given everything new   *)
(* that was kept and everything the callback made that its history does    *)
(* not hold, in the order of the input, and nothing of its own history     *)
(* again.  Where an item of the history and a new one cannot be told       *)
(* apart, the new one is saved.  An empty object can always be told apart, *)
(* but for those that the callback made.                                   *)
Occurs(items, k) == Cardinality({i \in DOMAIN items : Key(items[i]) = k})
From(places, items, side, k) ==
    Cardinality({i \in DOMAIN places : places[i][1] = side /\ Key(items[i]) = k})
SessionInputIsNew(history, new, places, combined, out) ==
    /\ \A i \in DOMAIN out.prepared : out.prepared[i] = [content |-> combined[i].content,
                                                        tag |-> 0]
    /\ \E some \in SUBSET DOMAIN combined :
           out.saved = Picked(out.prepared, some)
    /\ \A k \in Contents :
        LET saved == Occurs(out.saved, k)
            kept == From(places, combined, "new", k)
            own == From(places, combined, "made", k)
            again == From(places, combined, "old", k)
        IN /\ saved >= kept
           /\ Occurs(history, k) = 0 => saved = kept + own
           /\ Occurs(new, k) = 0 /\ own = 0 => saved = 0
           /\ own = 0 /\ k = "{}" => saved = kept
           /\ saved <= kept + own + again /\ saved <= Occurs(new, k) + own
=============================================================================
