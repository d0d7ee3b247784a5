------------------------- MODULE MCBusSubscription --------------------------
(* Model-checking instance of BusSubscription.                             *)
EXTENDS BusSubscription

WantsAll == [c \in Connections |-> Events]
=============================================================================
