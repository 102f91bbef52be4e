----------------------------- MODULE KeyPrefixes -----------------------------
(***************************************************************************)
(* Kademlia keys and how the DHT makes a key that lies where it wants one  *)
(* (kadt/kadt.go, internal/cplutil).  A key is the hash of a preimage, so  *)
(* one cannot choose its bits: a table that gen.go has searched for maps   *)
(* every word of leading bits to a preimage whose hash begins with it.     *)
(***************************************************************************)
EXTENDS Integers, FiniteSets

CONSTANTS
  BitLen,    \* the length of a key
  WordLen,   \* the length of the table's words, 16 in the code
  Preimages, \* what the preimages of the table are made of
  Hash       \* the key of each of them

Bit == {0, 1}
Key == [0 .. BitLen - 1 -> Bit]
Word == [0 .. WordLen - 1 -> Bit]

(* GenRandKeyForPrefix takes prefixes of any length.                       *)
Prefix == UNION {[0 .. n - 1 -> Bit] : n \in 0 .. BitLen}
IsPrefixOf(p, n, k) == \A i \in 0 .. n - 1 : p[i] = k[i]

(* The generator goes on until it has seen every word.                     *)
ASSUME KeyAssumption ==
  /\ BitLen \in Nat /\ WordLen \in 1 .. BitLen
  /\ Hash \in [Preimages -> Key]
  /\ \A w \in Word : \E m \in Preimages : IsPrefixOf(w, WordLen, Hash[m])

(* How many leading bits two keys share.                                   *)
CommonPrefixLength(k, l) == Cardinality({n \in 1 .. BitLen : IsPrefixOf(k, n, l)})

(* Xor and Compare: is k closer to target than l?                          *)
Closer(k, l, target) ==
  \E n \in 0 .. BitLen - 1 :
    IsPrefixOf(k, n, l) /\ k[n] # l[n] /\ k[n] = target[n]

(* The generator keeps the first preimage it finds for a word; which one   *)
(* it is makes no difference.                                              *)
keyPrefixMap == [w \in Word |-> CHOOSE m \in Preimages : IsPrefixOf(w, WordLen, Hash[m])]

PrefixPaddedTooEarly(k, cpl) ==  \* mutant: the mask leaves out the flipped bit
  {[i \in 0 .. WordLen - 1 |-> IF i < cpl THEN k[i] ELSE r[i]] : r \in Word}

(* Words that share exactly cpl bits with k: the next bit is flipped and   *)
(* the others are random.                                                  *)
prefix(k, cpl) ==
  {[i \in 0 .. WordLen - 1 |->
      IF i < cpl THEN k[i] ELSE IF i = cpl THEN 1 - k[i] ELSE r[i]] : r \in Word}

(* The preimages that may be returned: none is an error.                   *)
GenRandPeerID(k, cpl) ==
  IF cpl > WordLen - 1 THEN {} ELSE {keyPrefixMap[w] : w \in prefix(k, cpl)}

GenRandKeyForPrefix(p, n) ==
  IF n > WordLen THEN {}
  ELSE {keyPrefixMap[[i \in 0 .. WordLen - 1 |-> IF i < n THEN p[i] ELSE r[i]]] : r \in Word}
=============================================================================
