----------------------------- MODULE MCClaimLeases -----------------------------
(* Two agents; a cell that owns both files, and one path claim for each.    *)
EXTENDS ClaimLeases, TLC
CONSTANTS p1, p2, p3, a, b, cell, pathF, pathG, f, g

TwoAgents == [p \in Process |-> IF p = p2 THEN b ELSE a]
Covered == (cell :> {f, g}) @@ (pathF :> {f}) @@ (pathG :> {g})
Owned == [s \in Surface |-> Covered[s] \cap File]
Clash == {<<s, t>> \in Surface \X Surface : Owned[s] \cap Owned[t] # {}}
Lives == {-1, 1}
=============================================================================
