------------------------- MODULE MCPolicyDecisions --------------------------
(* Model-checking instance of PolicyDecisions: endpoints on and around the *)
(* boundaries parseHM knows, and request times around those endpoints.     *)
EXTENDS PolicyDecisions

Endpoints == {Unreadable, <<0, 0>>, <<7, 0>>, <<19, 0>>, <<23, 59>>, <<24, 0>>,
              <<24, 1>>, <<25, 0>>, <<7, 60>>, <<0 - 1, 30>>}

SomeWindows == [{"room-lab"} -> [start : Endpoints, end : Endpoints]]
               \cup {[room \in {} |-> AllDay], [room \in {"cellar"} |-> AllDay]}

SomeConfigs ==
  [permissions : {[card \in {"CARD-001"} |-> {"room-office", "room-lab"}]},
   windows     : SomeWindows,
   restricted  : {[room \in {} |-> TRUE], [room \in {"room-lab"} |-> TRUE], [room \in {"room-lab"} |-> FALSE]}]
  \cup {MinimalLoopPolicy}

SomeRequests ==
  [card : {"CARD-001", "visitor", ""}, door : {"door-1"}, room : {"room-office", "room-lab", "attic"},
   at : {Zero, 0, 419, 420, 1139, 1140, 1438, 1439}]
=============================================================================
