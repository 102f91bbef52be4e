---------------------------- MODULE MCRoutingTable ----------------------------
(* Constants of RoutingTable for TLC: q and r share a bucket, all share an *)
(* IP group, and q may be connected twice.                                 *)
EXTENDS RoutingTable

CONSTANTS self, q, r, s, x, q1, q2, r1, s1, s2, g

Bits(a, b, c) == [i \in 0 .. 2 |-> CASE i = 0 -> a [] i = 1 -> b [] i = 2 -> c]

ThreePeers == {q, r, s}
OneContent == {x}
FiveConns == {q1, q2, r1, s1, s2}
Owners == [c \in FiveConns |-> IF c \in {q1, q2} THEN q ELSE IF c = r1 THEN r ELSE s]
GroupOf == [c \in FiveConns |-> IF c = s2 THEN NoGroup ELSE g]
OneGroup == {g}
ThreeAddrs == {"tcp", "quic", "dns"}
TwoOfQ == [a \in ThreeAddrs |-> IF a = "dns" THEN r ELSE q]

Keys == [n \in {self, q, r, s, x} |->
          CASE n = self -> Bits(0, 0, 0) [] n = q -> Bits(1, 0, 1) [] n = r -> Bits(1, 1, 0)
            [] n = s -> Bits(0, 1, 0) [] n = x -> Bits(0, 1, 1)]

(* Words of two bits: a preimage for each, and a second one for the first. *)
Preimages5 == 0 .. 4
HashOf == [m \in Preimages5 |-> Bits((m \div 2) % 2, m % 2, (m \div 3) % 2)]
=============================================================================
