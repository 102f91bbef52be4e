--------------------------- MODULE MCFindProviders ---------------------------
(* Constants of FindProviders for TLC. *)
EXTENDS FindProviders

CONSTANTS n1, n2, x, y, z

MCNodes == {n1, n2}
MCProviders == {x, y, z}

(* No count, a negative one, one that a single list reaches, one that only *)
(* several lists reach.                                                    *)
MCCounts == {-1, 0, 1, 2, 3}

MCResponses == UNION {[1 .. k -> MCProviders] : k \in 0 .. 2}
MCStored == {<<x>>, <<x, y>>, <<z, x>>}
=============================================================================
