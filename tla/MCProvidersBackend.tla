------------------------- MODULE MCProvidersBackend -------------------------
(* Constants of ProvidersBackend for TLC. *)
EXTENDS ProvidersBackend

CONSTANTS k1, p1, p2, s1, s2, f1

OneKey == {k1}
OneProv == {p1}
TwoProvs == {p1, p2}
OneStore == {s1}
TwoStores == {s1, s2}
OneFetcher == {f1}
=============================================================================
