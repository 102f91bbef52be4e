----------------------------- MODULE MCLifecycle -----------------------------
(* Constants of Lifecycle for TLC. *)
EXTENDS Lifecycle

CONSTANTS in1, in2, out, c1, c2

Config(m, p, b, z, t, d, s) ==
  [mode |-> m, protocol |-> p, backends |-> b, zikade |-> z, traced |-> t,
   datastore |-> d, sound |-> s]

(* The default configuration in each mode. *)
Defaults == {[DefaultConfig EXCEPT !.mode = m] : m \in Modes \cup AutoOptions}

(* Configurations of the other kinds, in client mode, which has the fewest streams. *)
Others ==
  {Config("client", "ipfs", {}, FALSE, FALSE, TRUE, TRUE),
   Config("client", "ipfs", Namespaces, TRUE, FALSE, FALSE, TRUE),
   Config("client", "ipfs", Namespaces, TRUE, TRUE, FALSE, TRUE),
   Config("client", "ipfs", Namespaces, FALSE, FALSE, FALSE, TRUE),
   Config("client", "ipfs", {"ipns", "pk", "x"}, FALSE, FALSE, FALSE, TRUE),
   Config("client", "other", {"x"}, FALSE, FALSE, TRUE, TRUE),
   Config("client", "other", {}, FALSE, FALSE, FALSE, TRUE),
   Config("invalid", "ipfs", {}, FALSE, FALSE, FALSE, TRUE),
   Config("client", "ipfs", {}, FALSE, FALSE, FALSE, FALSE)}

AllConfigs == Defaults \cup Others
OneInbound == {in1}
TwoInbound == {in1, in2}
OneOutbound == {out}
NoStream == {}
OneCloser == {c1}
TwoClosers == {c1, c2}
=============================================================================
