----------------------------- MODULE SearchValue -----------------------------
(***************************************************************************)
(* One search for the value of a key (routing.go): GetValue, SearchValue,  *)
(* searchValueRoutine with the function it hands to the query, and the     *)
(* update of peers found to hold an old record.                            *)
(*                                                                         *)
(* External: the query, which asks some of the peers, hands each answer to *)
(* the function, one at a time, and may end whenever it likes; the peers,  *)
(* who go on to accept records from others (their handlers are those of    *)
(* handlers.go, their store is RecordBackend).                             *)
(*                                                                         *)
(* A value is a model value with a rank in the validator's order; the      *)
(* validator may stop accepting it at any time (IPNS records expire).      *)
(***************************************************************************)
EXTENDS Integers, FiniteSets

CONSTANTS
  Peers,        \* the nodes that a query may ask
  Values,       \* the values of records
  Rank,         \* the validator's order on Values
  Quorums,      \* the quorums that a search may be given
  MaxExpiries,  \* bound on the number of values that expire meanwhile
  NoValue       \* no value, Go's nil

ASSUME ConstantsAssumption ==
  /\ Rank \in [Values -> Nat]
  /\ Quorums \subseteq Nat
  /\ MaxExpiries \in Nat
  /\ NoValue \notin Values

VARIABLES
  valid,        \* the values the validator accepts
  expiries,     \* how many have expired since the start
  holds,        \* the value that each peer has stored
  reply,        \* the value in the response of each peer that was asked
  asked,        \* the peers that were asked
  local,        \* the outcome of backend.Fetch
  offline,      \* the routing option
  quorum,       \* the required number of identical answers, 0 for no quorum
  pc,           \* where SearchValue and its goroutine are
  best,         \* the best value of the network so far
  quorumPeers,  \* the peers that returned it
  fixupPeers,   \* the peers found to hold an older one
  got,          \* GetValue: the last value received from the channel
  answered,     \* history: the value each peer was seen to answer
  fixed         \* history: the peers that an update has reached

vars == <<valid, expiries, holds, reply, asked, local, offline, quorum, pc, best,
          quorumPeers, fixupPeers, got, answered, fixed>>

network == <<valid, expiries, holds, reply, asked, fixed>>
options == <<local, offline, quorum>>
search == <<best, quorumPeers, fixupPeers, answered>>

OptValues == Values \cup {NoValue}

(* "unusable" is a record that is corrupt or too old: Fetch deletes it and *)
(* returns no error and no record.                                         *)
LocalOutcomes == Values \cup {"notfound", "unusable", "error"}

(* Any peer may hold any value, an expired one too, or none.               *)
Init ==
  /\ valid \in SUBSET Values
  /\ expiries = 0
  /\ holds \in [Peers -> OptValues]
  /\ reply = [p \in Peers |-> NoValue]
  /\ asked = {}
  /\ local \in LocalOutcomes
  /\ offline \in BOOLEAN
  /\ quorum \in Quorums
  /\ pc = "start"
  /\ best = NoValue
  /\ quorumPeers = {}
  /\ fixupPeers = {}
  /\ got = NoValue
  /\ answered = [p \in Peers |-> NoValue]
  /\ fixed = {}

-----------------------------------------------------------------------------
(* SearchValue                                                             *)

(* Returns an error: the local record cannot be read, or there is none and *)
(* the network is not to be asked.  A nil record is not a *recpb.Record.   *)
SearchFails ==
  /\ pc = "start"
  /\ local \in {"error", "unusable"} \/ (local = "notfound" /\ offline)
  /\ pc' = "failed"
  /\ UNCHANGED <<network, options, search, got>>

(* The channel holds the local record and is closed.                       *)
SearchOffline ==
  /\ pc = "start"
  /\ local \in Values /\ offline
  /\ got' = local
  /\ pc' = "closed"
  /\ UNCHANGED <<network, options, search>>

SearchNoLocal ==
  /\ pc = "start"
  /\ local = "notfound" /\ ~offline
  /\ pc' = "query"
  /\ UNCHANGED <<network, options, search, got>>

SearchLocal ==
  /\ pc = "start"
  /\ local \in Values /\ ~offline
  /\ pc' = "sendLocal"
  /\ UNCHANGED <<network, options, search, got>>

(* The caller takes the local record from the channel.                     *)
SendLocal ==
  /\ pc = "sendLocal"
  /\ got' = local
  /\ pc' = "query"
  /\ UNCHANGED <<network, options, search>>

-----------------------------------------------------------------------------
(* searchValueRoutine                                                      *)

WorseFirst(values, i, j) ==  \* mutant: the comparison is the wrong way round
  \/ Rank[values[i]] < Rank[values[j]]
  \/ Rank[values[i]] = Rank[values[j]] /\ i <= j

(* RecordBackend.Validate: the index of the best of the valid values, the  *)
(* first of equally good ones, or -1.                                      *)
Better(values, i, j) ==
  \/ Rank[values[i]] > Rank[values[j]]
  \/ Rank[values[i]] = Rank[values[j]] /\ i <= j
Validate(values) ==
  LET good == {i \in DOMAIN values : values[i] \in valid} IN
  IF good = {} THEN -1
  ELSE (CHOOSE i \in good : \A j \in good : Better(values, i, j)) - 1

QuorumAtLeast(peers) == Cardinality(peers) >= quorum  \* mutant: >= in place of ==
QuorumPassed(peers) == Cardinality(peers) = quorum + 1  \* mutant: one too many
QuorumReached(peers) == Cardinality(peers) = quorum

(* An answer is taken from the query.  One without a record, or with one   *)
(* under another key, changes nothing.                                     *)
Take(p) ==
  /\ pc = "query"
  /\ reply[p] # NoValue
  /\ reply' = [reply EXCEPT ![p] = NoValue]
  /\ answered' = [answered EXCEPT ![p] = reply[p]]
  /\ UNCHANGED <<valid, expiries, holds, asked, fixed, options, got>>

(* best is still the best value.                                           *)
ReplyNotBetter(p) ==
  LET agree == IF reply[p] = best THEN quorumPeers \cup {p} ELSE quorumPeers IN
  /\ Take(p)
  /\ Validate(<<best, reply[p]>>) = 0
  /\ quorumPeers' = agree
  /\ pc' = IF QuorumReached(agree) THEN "quorum" ELSE "query"
  /\ UNCHANGED <<best, fixupPeers>>

ReplyKeepsQuorum(p) ==  \* mutant: the quorum is not started anew
  /\ Take(p)
  /\ Validate(<<best, reply[p]>>) = 1
  /\ best' = reply[p]
  /\ fixupPeers' = fixupPeers \cup quorumPeers
  /\ quorumPeers' = quorumPeers \cup {p}
  /\ pc' = "send"

ReplyUpdatesItself(p) ==  \* mutant: p joins the quorum before the others leave it
  /\ Take(p)
  /\ Validate(<<best, reply[p]>>) = 1
  /\ best' = reply[p]
  /\ fixupPeers' = fixupPeers \cup quorumPeers \cup {p}
  /\ quorumPeers' = {p}
  /\ pc' = "send"

(* The answer is better: the peers of the quorum are to be updated, and    *)
(* the value is submitted to the caller.                                   *)
ReplyBetter(p) ==
  /\ Take(p)
  /\ Validate(<<best, reply[p]>>) = 1
  /\ best' = reply[p]
  /\ fixupPeers' = fixupPeers \cup quorumPeers
  /\ quorumPeers' = {p}
  /\ pc' = "send"

ReplyInvalid(p) ==
  /\ Take(p)
  /\ Validate(<<best, reply[p]>>) = -1
  /\ UNCHANGED <<pc, best, quorumPeers, fixupPeers>>

(* The caller takes it from the channel; then the quorum is checked.       *)
SendBest ==
  /\ pc = "send"
  /\ got' = best
  /\ pc' = IF QuorumReached(quorumPeers) THEN "quorum" ELSE "query"
  /\ UNCHANGED <<network, options, search>>

(* The query is exhausted.                                                 *)
QueryEnds ==
  /\ pc = "query"
  /\ pc' = "exhausted"
  /\ UNCHANGED <<network, options, search, got>>

(* The query fails, as it does when the context is cancelled: no updates.  *)
QueryFails ==
  /\ pc = "query"
  /\ pc' = "closed"
  /\ UNCHANGED <<network, options, search, got>>

(* The channel is closed, while another goroutine updates the fixupPeers.  *)
Finish ==
  /\ pc \in {"quorum", "exhausted"}
  /\ pc' = "fixup"
  /\ UNCHANGED <<network, options, search, got>>

-----------------------------------------------------------------------------
(* The peers.                                                              *)

AcceptsAny(p, v) == v \in valid  \* mutant: stores without comparing

(* handlePutValue and RecordBackend.Store.                                 *)
Accepts(p, v) ==
  v \in valid /\ (holds[p] \in valid => Rank[v] >= Rank[holds[p]])

(* PublishStatic reaches the peer, or it does not.                         *)
FixupPut(p) ==
  /\ pc = "fixup" /\ p \in fixupPeers
  /\ fixupPeers' = fixupPeers \ {p}
  /\ holds' = [holds EXCEPT ![p] = IF Accepts(p, best) THEN best ELSE @]
  /\ fixed' = fixed \cup {p}
  /\ UNCHANGED <<valid, expiries, reply, asked, options, pc, best,
                 quorumPeers, got, answered>>

FixupLost(p) ==
  /\ pc = "fixup" /\ p \in fixupPeers
  /\ fixupPeers' = fixupPeers \ {p}
  /\ UNCHANGED <<network, options, pc, best, quorumPeers, got, answered>>

PeerAnswers(p) ==
  /\ pc \in {"query", "send"} /\ p \notin asked
  /\ asked' = asked \cup {p}
  /\ reply' = [reply EXCEPT ![p] = holds[p]]
  /\ UNCHANGED <<valid, expiries, holds, fixed, options, pc, search, got>>

(* Somebody else puts a record.                                            *)
PeerStores(p, v) ==
  /\ Accepts(p, v)
  /\ holds' = [holds EXCEPT ![p] = v]
  /\ UNCHANGED <<valid, expiries, reply, asked, fixed, options, pc, search,
                 got>>

Expire(v) ==
  /\ expiries < MaxExpiries
  /\ v \in valid
  /\ expiries' = expiries + 1
  /\ valid' = valid \ {v}
  /\ UNCHANGED <<holds, reply, asked, fixed, options, pc, search, got>>

-----------------------------------------------------------------------------
SearchStep ==
  \/ SearchFails \/ SearchOffline \/ SearchNoLocal \/ SearchLocal \/ SendLocal
  \/ \E p \in Peers : ReplyNotBetter(p) \/ ReplyBetter(p) \/ ReplyInvalid(p)
  \/ SendBest \/ QueryEnds \/ QueryFails \/ Finish

NetworkStep ==
  \/ \E p \in Peers : FixupPut(p) \/ FixupLost(p) \/ PeerAnswers(p)
  \/ \E p \in Peers, v \in Values : PeerStores(p, v)
  \/ \E v \in Values : Expire(v)

Next == SearchStep \/ NetworkStep

Spec == Init /\ [][Next]_vars

-----------------------------------------------------------------------------
(* Properties.                                                             *)

PCs == {"start", "failed", "sendLocal", "query", "send", "quorum", "exhausted", "fixup",
        "closed"}

(* Every variable stays in its type.                                       *)
TypeOK ==
  /\ valid \subseteq Values
  /\ expiries \in 0 .. MaxExpiries
  /\ holds \in [Peers -> OptValues]
  /\ reply \in [Peers -> OptValues]
  /\ asked \subseteq Peers
  /\ local \in LocalOutcomes
  /\ offline \in BOOLEAN
  /\ quorum \in Quorums
  /\ pc \in PCs
  /\ best \in OptValues
  /\ quorumPeers \subseteq Peers
  /\ fixupPeers \subseteq Peers
  /\ got \in OptValues
  /\ answered \in [Peers -> OptValues]
  /\ fixed \subseteq Peers

Returned == pc \in {"closed", "fixup"}

(* config.go: a search ends before the query does only on "identical       *)
(* responses" as many as the quorum demands, and they are "the best        *)
(* records we have observed"; never if the quorum is 0.                    *)
EndsByQuorum ==
  pc = "quorum" =>
    /\ quorum > 0
    /\ \E Q \in SUBSET {p \in Peers : answered[p] = best} : Cardinality(Q) = quorum

(* While no value expires, it goes on only as long as there are fewer.     *)
GoesOnWithoutQuorum ==
  expiries = 0 /\ pc = "query" /\ quorum > 0 =>
    Cardinality({p \in Peers : answered[p] = best /\ best # NoValue}) < quorum

(* While no value expires, GetValue returns a value at least as good as    *)
(* any answer the query has got, in whatever order the answers came.       *)
ReturnsBestAnswer ==
  expiries = 0 /\ Returned =>
    \A p \in Peers :
      answered[p] \in valid => got # NoValue /\ Rank[got] >= Rank[answered[p]]

(* While no value expires, only peers that answered a worse value are sent *)
(* the best one.                                                           *)
UpdatesOnlyStalePeers ==
  expiries = 0 => \A p \in fixupPeers : Rank[answered[p]] < Rank[best]

(* A peer that an update has reached holds nothing worse, whatever it has  *)
(* stored since it answered.                                               *)
UpdatedPeersCatchUp ==
  expiries = 0 => \A p \in fixed : holds[p] # NoValue /\ Rank[holds[p]] >= Rank[best]

(* The strengthening that makes them inductive.                            *)
Answer(p) == answered[p] # NoValue

AnswersTakenOnce ==
  \A p \in Peers : /\ p \notin asked => reply[p] = NoValue
                   /\ Answer(p) => p \in asked /\ reply[p] = NoValue

(* Until the network has given a value, the caller has at most the local   *)
(* one; a second value of the network finds peers to update.               *)
FirstIsLocal ==
  /\ pc \in {"start", "sendLocal"} => got = NoValue
  /\ pc = "query" /\ best = NoValue => got \in {NoValue, local}
  /\ pc = "send" /\ fixupPeers = {} => got \in {NoValue, local}

SearchInProgress ==
  /\ \A p \in quorumPeers : answered[p] = best
  /\ IsFiniteSet(quorumPeers)
  /\ best # NoValue <=> quorumPeers # {}
  /\ fixupPeers # {} => best # NoValue
  /\ pc = "quorum" => best # NoValue /\ Cardinality(quorumPeers) = quorum
  /\ pc = "query" /\ quorumPeers # {} /\ quorum > 0 => Cardinality(quorumPeers) < quorum
  /\ pc = "send" => best # NoValue /\ Cardinality(quorumPeers) = 1
  /\ pc = "sendLocal" => local \in Values
  /\ pc \in {"start", "sendLocal", "failed"} => \A p \in Peers : ~Answer(p)
  /\ pc # "send" /\ best # NoValue => got = best
  /\ AnswersTakenOnce
  /\ FirstIsLocal

NothingExpired ==
  /\ best \in valid \cup {NoValue}
  /\ \A p \in Peers : answered[p] \in valid =>
       best # NoValue /\ Rank[best] >= Rank[answered[p]]
  /\ \A p \in Peers : Answer(p) /\ answered[p] = best => p \in quorumPeers
  /\ \A p \in fixupPeers : Answer(p) /\ Rank[answered[p]] < Rank[best]
  /\ \A p \in fixed : holds[p] \in valid /\ Rank[holds[p]] >= Rank[best]
  /\ fixed # {} => pc = "fixup" /\ best # NoValue
  /\ pc = "send" /\ fixupPeers # {} => got # NoValue /\ Rank[got] < Rank[best]

IInv == TypeOK /\ SearchInProgress /\ (expiries = 0 => NothingExpired)

-----------------------------------------------------------------------------
(* What a comment says and the code does not do.                           *)

(* best is "the currently known best value", and what GetValue returns:    *)
(* no worse than the valid record of the local store.                      *)
ReturnsBestKnown ==
  expiries = 0 /\ Returned /\ local \in valid => Rank[got] >= Rank[local]
=============================================================================
