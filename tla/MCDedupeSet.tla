---------------------------- MODULE MCDedupeSet -----------------------------
(* Model-checking instance of MintedIds: two instants on both sides of a   *)
(* carry, with the smallest and the largest randomness.                    *)
EXTENDS MintedIds

Carry   == {<<0, 255, 255, 255, 255, 255>>, <<1, 0, 0, 0, 0, 0>>}
Extreme == {[i \in 1..10 |-> 0], [i \in 1..10 |-> 255]}

ASSUME IdsAreMinted
=============================================================================
