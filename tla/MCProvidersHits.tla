--------------------------- MODULE MCProvidersHits ---------------------------
(***************************************************************************)
(* ProvidersBackend with two history variables, for what Store owes to an  *)
(* answer that is in the cache when it begins.                             *)
(***************************************************************************)
EXTENDS MCProvidersBackend

VARIABLES
  told,  \* the providers that Stores have found each cached answer for
  due    \* what the cached answer that a Fetch returns had been told of

Begun(p, k) ==
  \E s \in Stores :
    store[s].pc = "idle" /\ store'[s].pc = "mark" /\ store'[s].rec = <<k, p>>
Filled(k) ==
  \E f \in Fetchers :
    fetch[f].key = k /\ fetch[f].pc = "scan" /\ fetch'[f].kind = "pointer"
Hit(f) == fetch[f].pc = "idle" /\ fetch'[f].kind = "value"

HitsInit ==
  /\ Init
  /\ told = [k \in Keys |-> {}]
  /\ due = [f \in Fetchers |-> {}]

HitsNext ==
  /\ Next
  /\ told' = [k \in Keys |->
                IF k \notin Cached \/ cache'[k] = NoAnswer \/ Filled(k) THEN {}
                ELSE told[k] \cup {p \in Provs : Begun(p, k)}]
  /\ due' = [f \in Fetchers |-> IF Hit(f) THEN told[fetch'[f].key] ELSE due[f]]

HitsSpec == HitsInit /\ [][HitsNext]_<<vars, told, due>>

(* Fetch returns "all peer IDs [...] for the given key": a Store that      *)
(* finds the answer in the cache adds its provider to it, so a Fetch that  *)
(* gets this answer afterwards returns the provider, if it has a valid     *)
(* record.                                                                 *)
FetchReturnsAllProviders ==
  \A f \in Fetchers :
    fetch[f].pc = "return" /\ fetch[f].kind = "value" =>
      \A p \in due[f] : Live(<<fetch[f].key, p>>) => p \in fetch[f].out
=============================================================================
