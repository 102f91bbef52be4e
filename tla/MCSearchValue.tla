--------------------------- MODULE MCSearchValue ---------------------------
(* Constants of SearchValue for TLC. *)
EXTENDS SearchValue, TLC

CONSTANTS p1, p2, p3, a, b, c

TwoPeers == {p1, p2}
ThreePeers == {p1, p2, p3}

(* Two equally good values and a better one. *)
ThreeValues == {a, b, c}
ThreeRanks == (a :> 1) @@ (b :> 1) @@ (c :> 2)

NoQuorum == {0}
NoneOrTwo == {0, 2}

TwoValues == {a, c}
TwoRanks == (a :> 1) @@ (c :> 2)

Symmetry == Permutations(Peers)
=============================================================================
