------------------------------ MODULE MCBroker ------------------------------
(* Model-checking instance of Broker: the subscriber asked for a type the  *)
(* second event does not have.                                             *)
EXTENDS Broker

WantsFiltered == [c \in Connections |-> Events \ {2}]
=============================================================================
