---------------------------- MODULE FindProviders ----------------------------
(***************************************************************************)
(* One search for the providers of a CID (routing.go), by either of the    *)
(* two interfaces: FindProvidersAsync, which sends what it finds over an   *)
(* unbuffered channel to a reader who may stop reading or cancel, and      *)
(* FindProvidersProgress (FindProviders without the callback), which       *)
(* returns a slice.                                                        *)
(*                                                                         *)
(* External: the query, which asks some of the nodes, hands each response  *)
(* to the search, one at a time, and may end or fail whenever it likes;    *)
(* the backend's Fetch (ProvidersBackend); the caller.                     *)
(***************************************************************************)
EXTENDS Integers, Sequences, FiniteSets, Functions

CONSTANTS
  Nodes,        \* the nodes that a query may ask
  Providers,    \* the providers they may name
  Counts,       \* the counts that a caller may ask for
  Responses,    \* the lists of providers in a response, repetitions included
  Stored,       \* the lists of providers that Fetch may return
  None          \* no list of providers

(* The list that Fetch returns is that of a providerSet: no repetitions.   *)
ASSUME ConstantsAssumption ==
  /\ Counts \subseteq Int
  /\ Responses \subseteq Seq(Providers)
  /\ Stored \subseteq {s \in Seq(Providers) : IsInjective(s)}
  /\ None \notin Seq(Providers)

VARIABLES
  api,          \* "async" or "progress"
  count,        \* how many providers are wanted, all of them if not positive
  local,        \* the outcome of the checks and of backend.Fetch
  pc,           \* where the search is
  from,         \* the origin of list: the "store" or a "node"
  list,         \* the providers not yet looked at
  seen,         \* the map of the providers seen
  out,          \* those sent on the channel, or added to the slice
  asked,        \* the nodes that were asked
  reply,        \* the response of each that waits to be handled
  visited,      \* the nodes whose response was handled, as onVisit is told
  told,         \* history: the providers in the lists handled so far
  reading,      \* the caller reads from the channel
  cancelled     \* the caller's context is done

vars == <<api, count, local, pc, from, list, seen, out, asked, reply, visited,
          told, reading, cancelled>>

options == <<api, count, local>>
network == <<asked, reply>>
caller == <<reading, cancelled>>

(* Nothing found is the empty list; None stands for no providers backend,  *)
(* an undefined CID, a failed Fetch, or one whose answer is no provider    *)
(* set.                                                                    *)
LocalOutcomes == Stored \cup {<<>>, None}

Init ==
  /\ api \in {"async", "progress"}
  /\ count \in Counts
  /\ local \in LocalOutcomes
  /\ pc = "start"
  /\ from = "store"
  /\ list = <<>>
  /\ seen = {}
  /\ out = <<>>
  /\ asked = {}
  /\ reply = [n \in Nodes |-> None]
  /\ visited = {}
  /\ told = {}
  /\ reading = TRUE
  /\ cancelled = FALSE

-----------------------------------------------------------------------------
(* The start: the local store.                                             *)

SearchFails ==
  /\ pc = "start"
  /\ local = None
  /\ pc' = "failed"
  /\ UNCHANGED <<options, from, list, seen, out, network, visited, told, caller>>

FetchLocal ==
  /\ pc = "start"
  /\ local # None
  /\ pc' = "next"
  /\ list' = local
  /\ told' = Range(local)
  /\ UNCHANGED <<options, from, seen, out, network, visited, caller>>

-----------------------------------------------------------------------------
(* The loop over a list of providers.                                      *)

AddedTooMany(providers) == count > 0 /\ Len(providers) > count  \* mutant: > for >=
AddedAnything(providers) == Len(providers) >= count  \* mutant: no check for 0
EnoughSent(providers) == count # 0 /\ Cardinality(providers) = count
EnoughAdded(providers) == count > 0 /\ Len(providers) >= count

SkipsInSlice(p) == p \in seen /\ api = "progress"  \* mutant: no lookup in fn

(* Only the loop over a response skips those seen; add always does.        *)
Skips(p) == p \in seen /\ (api = "async" => from = "node")

Skip ==
  /\ pc = "next" /\ list # <<>>
  /\ Skips(Head(list))
  /\ list' = Tail(list)
  /\ UNCHANGED <<options, pc, from, seen, out, network, visited, told, caller>>

MarkNothing ==  \* mutant: the provider is sent but not marked
  /\ api = "async"
  /\ pc = "next" /\ list # <<>>
  /\ ~Skips(Head(list))
  /\ pc' = "send"
  /\ UNCHANGED <<options, from, list, seen, out, network, visited, told, caller>>

(* FindProvidersAsync: the provider is marked before it is sent.           *)
Mark ==
  /\ api = "async"
  /\ pc = "next" /\ list # <<>>
  /\ ~Skips(Head(list))
  /\ seen' = seen \cup {Head(list)}
  /\ pc' = "send"
  /\ UNCHANGED <<options, from, list, out, network, visited, told, caller>>

(* The select: the caller receives it, or the context is done.  When both  *)
(* can happen, either may.                                                 *)
Send ==
  /\ pc = "send" /\ reading
  /\ out' = Append(out, Head(list))
  /\ list' = Tail(list)
  /\ pc' = IF EnoughSent(seen) THEN "enough" ELSE "next"
  /\ UNCHANGED <<options, from, seen, network, visited, told, caller>>

SendCancelledInStore ==  \* mutant: fn does not watch the context
  /\ pc = "send" /\ cancelled /\ from = "store"
  /\ pc' = "cancelled"
  /\ UNCHANGED <<options, from, list, seen, out, network, visited, told, caller>>

SendCancelled ==
  /\ pc = "send" /\ cancelled
  /\ pc' = "cancelled"
  /\ UNCHANGED <<options, from, list, seen, out, network, visited, told, caller>>

(* FindProvidersProgress.                                                  *)
Add ==
  /\ api = "progress"
  /\ pc = "next" /\ list # <<>>
  /\ ~Skips(Head(list))
  /\ seen' = seen \cup {Head(list)}
  /\ out' = Append(out, Head(list))
  /\ list' = Tail(list)
  /\ pc' = IF EnoughAdded(out') THEN "enough" ELSE "next"
  /\ UNCHANGED <<options, from, network, visited, told, caller>>

ListEnds ==
  /\ pc = "next" /\ list = <<>>
  /\ pc' = "query"
  /\ UNCHANGED <<options, from, list, seen, out, network, visited, told, caller>>

-----------------------------------------------------------------------------
(* The query.                                                              *)

(* fn is called with the response of n.                                    *)
Visit(n) ==
  /\ pc = "query"
  /\ reply[n] # None
  /\ pc' = "next"
  /\ from' = "node"
  /\ list' = reply[n]
  /\ told' = told \cup Range(reply[n])
  /\ visited' = visited \cup {n}
  /\ reply' = [reply EXCEPT ![n] = None]
  /\ UNCHANGED <<options, seen, out, asked, caller>>

QueryEnds ==
  /\ pc = "query"
  /\ pc' = "exhausted"
  /\ UNCHANGED <<options, from, list, seen, out, network, visited, told, caller>>

(* FindProvidersProgress returns the error and none of the providers.      *)
QueryFails ==
  /\ pc = "query"
  /\ pc' = "failed"
  /\ out' = IF api = "progress" THEN <<>> ELSE out
  /\ UNCHANGED <<options, from, list, seen, network, visited, told, caller>>

-----------------------------------------------------------------------------
(* The nodes and the caller.                                               *)

NodeResponds(n, r) ==
  /\ n \notin asked
  /\ asked' = asked \cup {n}
  /\ reply' = [reply EXCEPT ![n] = r]
  /\ UNCHANGED <<options, pc, from, list, seen, out, visited, told, caller>>

StopReading ==
  /\ reading
  /\ reading' = FALSE
  /\ UNCHANGED <<options, pc, from, list, seen, out, network, visited, told,
                 cancelled>>

Cancel ==
  /\ ~cancelled
  /\ cancelled' = TRUE
  /\ UNCHANGED <<options, pc, from, list, seen, out, network, visited, told, reading>>

-----------------------------------------------------------------------------
SearchStep ==
  \/ SearchFails \/ FetchLocal
  \/ Skip \/ Mark \/ Send \/ SendCancelled \/ Add \/ ListEnds
  \/ \E n \in Nodes : Visit(n)
  \/ QueryEnds \/ QueryFails

Next ==
  \/ SearchStep
  \/ \E n \in Nodes, r \in Responses : NodeResponds(n, r)
  \/ StopReading \/ Cancel

(* The search runs on its own; nothing is asked of the caller or the nodes.*)
Fairness == WF_vars(SearchStep)

Spec == Init /\ [][Next]_vars
FairSpec == Spec /\ Fairness

-----------------------------------------------------------------------------
(* Properties.                                                             *)

Over == {"failed", "enough", "cancelled", "exhausted"}

(* Every variable stays in its type.                                       *)
TypeOK ==
  /\ api \in {"async", "progress"}
  /\ count \in Counts
  /\ local \in LocalOutcomes
  /\ pc \in {"start", "next", "send", "query"} \cup Over
  /\ from \in {"store", "node"}
  /\ list \in Seq(Providers)
  /\ seen \subseteq Providers
  /\ out \in Seq(Providers)
  /\ asked \subseteq Nodes
  /\ reply \in [Nodes -> Responses \cup {None}]
  /\ visited \subseteq asked
  /\ \A n \in Nodes : reply[n] # None => n \in asked
  /\ told \subseteq Providers
  /\ reading \in BOOLEAN
  /\ cancelled \in BOOLEAN

(* The caller gets no provider twice, though the store and several nodes   *)
(* name it and a response may repeat it.                                   *)
NoProviderTwice == IsInjective(out)

(* "returning up to count of them": with a positive count the caller never *)
(* gets more, and the walk goes on only as long as it has fewer.           *)
StopsAtCount ==
  count > 0 => /\ Len(out) <= count
               /\ pc \in {"next", "send", "query", "exhausted"} => Len(out) < count

(* "or all it finds": a search that ends because the walk is over has      *)
(* given the caller exactly the providers it was told of, by the store or  *)
(* by any node visited, and one that ends with enough gave it the count.   *)
GivesAllItFinds ==
  /\ Range(out) \subseteq told
  /\ pc = "exhausted" => Range(out) = told
  /\ pc = "enough" => Len(out) = count /\ count > 0

(* The search ends, unless FindProvidersAsync is left with a provider that *)
(* the caller neither receives nor cancels.                                *)
SearchEnds ==
  <>(pc \in Over) \/ <>[](api = "async" /\ pc = "send" /\ ~reading /\ ~cancelled)

(* The strengthening that makes the invariants inductive: what is seen is  *)
(* out, except a provider about to be sent; what is told is seen or still  *)
(* in the list; the list of the store holds nothing seen.                  *)
Marked == IF pc \in {"send", "cancelled"} THEN {Head(list)} ELSE {}

SeenIsOut ==
  /\ pc = "start" => seen = {} /\ out = <<>>
  /\ pc \in {"send", "cancelled"} => list # <<>> /\ Head(list) \notin Range(out)
  /\ pc # "failed" => seen = Range(out) \cup Marked
  /\ IsFiniteSet(seen)
  /\ pc # "failed" => Cardinality(seen) = Len(out) + Cardinality(Marked)

ToldIsSeenOrListed ==
  /\ pc = "start" => told = {} /\ list = <<>> /\ from = "store"
  /\ pc \in {"next", "send", "query", "exhausted"} => told = seen \cup Range(list)
  /\ seen \subseteq told
  /\ pc \in {"query", "exhausted"} => list = <<>>
  /\ from = "store" /\ pc = "next" => IsInjective(list) /\ Range(list) \cap seen = {}
  /\ from = "store" /\ pc = "send" =>
       IsInjective(list) /\ Range(Tail(list)) \cap seen = {}

IInv ==
  /\ TypeOK /\ NoProviderTwice /\ StopsAtCount /\ GivesAllItFinds
  /\ SeenIsOut /\ ToldIsSeenOrListed
=============================================================================
