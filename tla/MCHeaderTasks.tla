--------------------------- MODULE MCHeaderTasks ---------------------------
(* A small tree over the bulk tip "g": two branches that overtake each     *)
(* other, and a header "x" that comes with a wrong height.                 *)
EXTENDS HeaderTasks

MCHeaders == {"h1", "a2", "a3", "b2", "b3", "b4", "x"}

MCPrev == [h1 |-> "g", a2 |-> "h1", b2 |-> "h1", a3 |-> "a2", b3 |-> "b2",
           x |-> "b2", b4 |-> "b3"]

MCHeight == [h1 |-> 1, a2 |-> 2, b2 |-> 2, a3 |-> 3, b3 |-> 3, b4 |-> 4, x |-> 9]

MCWork == [h1 |-> 1, a2 |-> 1, b2 |-> 1, a3 |-> 2, b3 |-> 1, b4 |-> 2, x |-> 1]

MCAncestors ==
  LET under[h \in MCHeaders] ==
        IF MCPrev[h] \in MCHeaders THEN {MCPrev[h]} \cup under[MCPrev[h]] ELSE {}
  IN under

MCMinedIn == [t \in Txs |-> {"a2", "b2"}]
=============================================================================
