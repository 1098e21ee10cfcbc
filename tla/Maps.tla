------------------------------- MODULE Maps -------------------------------
(***************************************************************************)
(* Maps with finitely many keys, and how one is laid over another: what    *)
(* the TLC module has as :> and @@, defined where proofs can see it.       *)
(***************************************************************************)

Empty == [x \in {} |-> x]
One(key, value) == [k \in {key} |-> value]

(* What f says counts before what g says.                                  *)
f ++ g == [x \in DOMAIN f \cup DOMAIN g |-> IF x \in DOMAIN f THEN f[x] ELSE g[x]]
=============================================================================
