---------------------------- MODULE RoutingTable -----------------------------
(***************************************************************************)
(* What the DHT knows of other nodes and what it makes of it: the routing  *)
(* table with its diversity filter (diversity_filter.go), the addresses in *)
(* the peerstore (router.go, dht.go), the closer peers that its answers    *)
(* name (handlers.go), FindPeer (routing.go) and the targets it explores   *)
(* and surveys the network with (internal/cplutil).                        *)
(*                                                                         *)
(* The table is a trie of go-libdht and the filter is wrapped in that of   *)
(* go-libp2p-kbucket, which holds a lock for each addition and removal;    *)
(* connections and identification are the libp2p host's, and the           *)
(* coordinator decides whom to include, drop, query, and when to explore.  *)
(***************************************************************************)
EXTENDS KeyPrefixes

CONSTANTS
  Self, Peers, Contents, \* nodes, and content that is asked for
  KeyOf,                 \* their keys
  Conns, Owner,          \* connections and the peer at the other end
  Groups, NoGroup, Group, \* the IP group of each connection, if it has one
  BootstrapAddrs, PeerAt, \* the configured addresses and the peer at each
  maxPerCpl, maxForTable, \* the filter's limits
  BucketSize

(* Keys are SHA-256 hashes: those of different peers differ.               *)
ASSUME ConstantsAssumption ==
  /\ Self \notin Peers /\ KeyOf \in [{Self} \cup Peers \cup Contents -> Key]
  /\ \A p, q \in Peers : KeyOf[p] = KeyOf[q] => p = q
  /\ IsFiniteSet(Conns) /\ Owner \in [Conns -> Peers]
  /\ Group \in [Conns -> Groups \cup {NoGroup}] /\ NoGroup \notin Groups
  /\ PeerAt \in [BootstrapAddrs -> Peers]
  /\ maxPerCpl \in Nat /\ maxForTable \in Nat /\ BucketSize \in Nat

VARIABLES
  table,             \* the nodes of the routing table
  counted,           \* the connections that the filter has counted
  cplIpGroupCount,   \* how many of each group by bucket (0: no entry)
  tableIpGroupCount, \* and in the whole table
  open,              \* the host's connections
  known,             \* the peers with an address in the peerstore
  candidates,        \* the nodes that the coordinator may include
  task               \* what the DHT is doing

filterVars == <<counted, cplIpGroupCount, tableIpGroupCount>>
rtVars == <<table, filterVars>>
hostVars == <<open, known>>
vars == <<rtVars, hostVars, candidates, task>>

Cpls == 0 .. BitLen
BucketOf == [p \in Peers |-> CommonPrefixLength(KeyOf[Self], KeyOf[p])]
Bucket(p) == BucketOf[p]
ConnsToPeer(p) == {c \in open : Owner[c] = p}
Connected(p) == ConnsToPeer(p) # {}

NoTask == [op |-> "none"]

(* A peer listed under several addresses is one bootstrap peer.            *)
BootstrapPeers == {PeerAt[a] : a \in BootstrapAddrs}

(* addBootstrapPeers has put the bootstrap peers into the peerstore.       *)
Init ==
  /\ table = {} /\ counted = {}
  /\ cplIpGroupCount = [b \in Cpls |-> [g \in Groups |-> 0]]
  /\ tableIpGroupCount = [g \in Groups |-> 0]
  /\ open = {} /\ known = BootstrapPeers
  /\ candidates = BootstrapPeers
  /\ task = NoTask

-----------------------------------------------------------------------------
(* The diversity filter.                                                   *)

AllowOneMore(g, b) ==  \* mutant: compares with > instead of >=
  tableIpGroupCount[g] <= maxForTable /\ cplIpGroupCount[b][g] <= maxPerCpl

Allow(g, b) == tableIpGroupCount[g] < maxForTable /\ cplIpGroupCount[b][g] < maxPerCpl

(* How many of the connections are in a group.                             *)
InGroup(C, g) == {c \in C : Group[c] = g}

Increment(b, C) ==
  /\ tableIpGroupCount' =
       [g \in Groups |-> tableIpGroupCount[g] + Cardinality(InGroup(C, g))]
  /\ cplIpGroupCount' = [cplIpGroupCount EXCEPT ![b] =
       [g \in Groups |-> cplIpGroupCount[b][g] + Cardinality(InGroup(C, g))]]

Decrement(b, C) ==
  /\ tableIpGroupCount' =
       [g \in Groups |-> tableIpGroupCount[g] - Cardinality(InGroup(C, g))]
  /\ cplIpGroupCount' = [cplIpGroupCount EXCEPT ![b] =
       [g \in Groups |-> cplIpGroupCount[b][g] - Cardinality(InGroup(C, g))]]

(* Every address is looked at before one is counted.                       *)
Admits(p) ==
  /\ Connected(p)
  /\ \A c \in ConnsToPeer(p) : Group[c] # NoGroup /\ Allow(Group[c], Bucket(p))

(* The coordinator adds a candidate that has answered, if TryAdd lets it.  *)
AddNode(p) ==
  /\ p \in candidates \ table
  /\ candidates' = candidates \ {p}
  /\ IF Admits(p)
     THEN /\ table' = table \cup {p}
          /\ counted' = counted \cup ConnsToPeer(p)
          /\ Increment(Bucket(p), ConnsToPeer(p))
     ELSE UNCHANGED rtVars
  /\ UNCHANGED <<hostVars, task>>

(* Remove takes back what was counted then, whatever connections there are *)
(* now.                                                                    *)
RemoveNode(p) ==
  /\ p \in table
  /\ table' = table \ {p}
  /\ LET C == {c \in counted : Owner[c] = p} IN
     counted' = counted \ C /\ Decrement(Bucket(p), C)
  /\ UNCHANGED <<hostVars, candidates, task>>

(* A candidate that does not answer, or is there already, is dropped.      *)
Forget(p) ==
  /\ p \in candidates
  /\ candidates' = candidates \ {p}
  /\ UNCHANGED <<rtVars, hostVars, task>>

-----------------------------------------------------------------------------
(* The host: connections come and go, addresses are learned and expire.    *)

Connect(c) ==
  /\ c \notin open /\ open' = open \cup {c}
  /\ UNCHANGED <<rtVars, known, candidates, task>>

Disconnect(c) ==
  /\ c \in open /\ open' = open \ {c}
  /\ UNCHANGED <<rtVars, known, candidates, task>>

onEvtPeerIdentificationCompleted(p) ==
  /\ Connected(p)
  /\ known' = known \cup {p} /\ candidates' = candidates \cup {p}
  /\ UNCHANGED <<rtVars, open, task>>

(* The addresses of bootstrap peers are permanent, those of a connected    *)
(* peer are kept by the host.                                              *)
Expire(p) ==
  /\ p \in known \ BootstrapPeers /\ ~Connected(p)
  /\ known' = known \ {p}
  /\ UNCHANGED <<rtVars, open, candidates, task>>

AddAddresses(p) ==
  /\ known' = known \cup {p} /\ candidates' = candidates \cup {p}
  /\ UNCHANGED <<rtVars, open, task>>

-----------------------------------------------------------------------------
(* Requests of other nodes.  The peers are read from the table at once and *)
(* their addresses one by one, while the host goes on.                     *)

NearestNodes(k) ==
  {p \in table : Cardinality({q \in table : Closer(KeyOf[q], KeyOf[p], k)}) < BucketSize}

closerPeers(op, remote, target) ==
  [op |-> op, remote |-> remote, target |-> target, answered |-> FALSE,
   todo |-> NearestNodes(KeyOf[target]), closer |-> {}, also |-> {}]

HasAddress(p) == <<p, p \in known>>

handleFindPeer(remote, target) ==
  /\ task = NoTask
  /\ candidates' = candidates \cup {remote}
  /\ IF target = Self
     THEN \E addr \in BOOLEAN :
            task' = [closerPeers("FIND_NODE", remote, Self) EXCEPT
                       !.answered = TRUE, !.todo = {}, !.also = {<<Self, addr>>}]
     ELSE task' = closerPeers("FIND_NODE", remote, target)
  /\ UNCHANGED <<rtVars, hostVars>>

(* handleGetValue and handleGetProviders.                                  *)
handleGet(remote, k) ==
  /\ task = NoTask
  /\ task' = closerPeers("GET", remote, k)
  /\ UNCHANGED <<rtVars, hostVars, candidates>>

IsAnswer == task.op \in {"FIND_NODE", "GET"}

ReadAnyAddress(p) ==  \* mutant: sends peers without an address
  /\ IsAnswer /\ ~task.answered /\ p \in task.todo
  /\ task' = [task EXCEPT !.todo = @ \ {p},
                !.closer = IF p # task.remote THEN @ \cup {HasAddress(p)} ELSE @]
  /\ UNCHANGED <<rtVars, hostVars, candidates>>

ReadAddresses(p) ==
  /\ IsAnswer /\ ~task.answered /\ p \in task.todo
  /\ task' = [task EXCEPT !.todo = @ \ {p},
                !.closer = IF p # task.remote /\ p \in known
                           THEN @ \cup {HasAddress(p)} ELSE @]
  /\ UNCHANGED <<rtVars, hostVars, candidates>>

(* The target itself, if it is known and not yet named.                    *)
ContainsCloserPeer(p) == \E e \in task.closer : e[1] = p
AnswerFindPeer ==
  /\ task.op = "FIND_NODE" /\ ~task.answered /\ task.todo = {}
  /\ task' = [task EXCEPT !.answered = TRUE,
                !.also = IF /\ task.target \in known
                            /\ ~ContainsCloserPeer(task.target)
                            /\ task.target # task.remote
                         THEN {HasAddress(task.target)} ELSE {}]
  /\ UNCHANGED <<rtVars, hostVars, candidates>>

(* The backend fails, or the record goes with the closer peers.            *)
AnswerGet ==
  /\ task.op = "GET" /\ ~task.answered /\ task.todo = {}
  /\ task' \in {NoTask, [task EXCEPT !.answered = TRUE]}
  /\ UNCHANGED <<rtVars, hostVars, candidates>>

-----------------------------------------------------------------------------
(* FindPeer.  local: it was connected and known; heard: who has answered.  *)

FindPeer(id) ==
  /\ task = NoTask
  /\ LET here == Connected(id) /\ id \in known IN
     task' = [op |-> "FindPeer", id |-> id, local |-> here, heard |-> {},
              result |-> IF here THEN "found" ELSE "pending"]
  /\ UNCHANGED <<rtVars, hostVars, candidates>>

(* addToPeerStore: no addresses for the DHT itself or connected peers.     *)
Learned(P) == {p \in P \cap Peers : ~Connected(p)}

(* The coordinator asks a node with an address, whose answer names peers.  *)
Visit(n, P) ==
  /\ task.op = "FindPeer" /\ task.result = "pending" /\ n \in known
  /\ known' = known \cup Learned(P)
  /\ candidates' = candidates \cup (P \cap Peers)
  /\ task' = [task EXCEPT !.heard = @ \cup {n},
                !.result = IF n = task.id THEN "found" ELSE @]
  /\ UNCHANGED <<rtVars, open>>

FindFails ==
  /\ task.op = "FindPeer" /\ task.result = "pending"
  /\ task' = [task EXCEPT !.result = "failed"]
  /\ UNCHANGED <<rtVars, hostVars, candidates>>

-----------------------------------------------------------------------------
(* Targets for lookups that fill a bucket, or visit a region of the        *)
(* network: ExploreCplFunc and SurveyTargetFunc.                           *)

Explore(cpl) ==
  /\ task = NoTask
  /\ \E m \in GenRandPeerID(KeyOf[Self], cpl) :
       task' = [op |-> "explore", cpl |-> cpl, target |-> m]
  /\ UNCHANGED <<rtVars, hostVars, candidates>>

Survey(p, n) ==
  /\ task = NoTask
  /\ \E m \in GenRandKeyForPrefix(p, n) :
       task' = [op |-> "survey", prefix |-> p, len |-> n, target |-> m]
  /\ UNCHANGED <<rtVars, hostVars, candidates>>

(* An answer is sent, a call has returned, a lookup has ended.             *)
TaskEnds ==
  /\ \/ IsAnswer /\ task.answered
     \/ task.op = "FindPeer" /\ task.result # "pending"
     \/ task.op \in {"explore", "survey"}
  /\ task' = NoTask
  /\ UNCHANGED <<rtVars, hostVars, candidates>>

-----------------------------------------------------------------------------
Next ==
  \/ \E p \in Peers :
       \/ AddNode(p) \/ RemoveNode(p) \/ Forget(p)
       \/ onEvtPeerIdentificationCompleted(p) \/ Expire(p) \/ AddAddresses(p)
       \/ ReadAddresses(p) \/ FindPeer(p)
       \/ \E target \in Peers \cup {Self} : handleFindPeer(p, target)
       \/ \E k \in Contents : handleGet(p, k)
       \/ \E P \in SUBSET (Peers \cup {Self}) : Visit(p, P)
  \/ \E c \in Conns : Connect(c) \/ Disconnect(c)
  \/ AnswerFindPeer \/ AnswerGet \/ FindFails \/ TaskEnds
  \/ \E cpl \in Cpls : Explore(cpl)
  \/ \E n \in Cpls : \E p \in [0 .. n - 1 -> Bit] : Survey(p, n)

Spec == Init /\ [][Next]_vars

-----------------------------------------------------------------------------
(* Properties.                                                             *)

Entry == (Peers \cup {Self}) \X BOOLEAN

TaskType ==
  {NoTask}
  \cup [op : {"FIND_NODE", "GET"}, remote : Peers, target : Peers \cup {Self} \cup Contents,
        answered : BOOLEAN, todo : SUBSET Peers, closer : SUBSET Entry, also : SUBSET Entry]
  \cup [op : {"FindPeer"}, id : Peers, local : BOOLEAN, heard : SUBSET Peers,
        result : {"pending", "found", "failed"}]
  \cup [op : {"explore"}, cpl : Cpls, target : Preimages]
  \cup [op : {"survey"}, prefix : Prefix, len : Cpls, target : Preimages]

(* Every variable stays in its type: in particular no count falls below    *)
(* zero, where the maps of the code would lose their entries.              *)
TypeOK ==
  /\ table \subseteq Peers /\ counted \subseteq Conns
  /\ cplIpGroupCount \in [Cpls -> [Groups -> Nat]]
  /\ tableIpGroupCount \in [Groups -> Nat]
  /\ open \subseteq Conns /\ known \subseteq Peers /\ candidates \subseteq Peers
  /\ task \in TaskType

Members(g) == {p \in table : \E c \in counted : Owner[c] = p /\ Group[c] = g}

(* No IP group has more peers in the table, or in one of its buckets, than *)
(* the filter was made for, however connections change while peers come    *)
(* and go: what is taken back is what was counted.                         *)
GroupsWithinLimits ==
  \A g \in Groups :
    /\ Cardinality(Members(g)) <= maxForTable
    /\ \A b \in Cpls : Cardinality({p \in Members(g) : Bucket(p) = b}) <= maxPerCpl

(* What the DHT tells of peers is worth telling.  An answer names nobody   *)
(* twice, nobody without an address, neither the DHT, unless it was asked  *)
(* for it, nor the one who asks, and at most BucketSize peers besides the  *)
(* target, even while addresses expire and nodes leave the table.  And     *)
(* FindPeer finds only who has answered itself or was connected.           *)
AnswersAreGrounded ==
  /\ IsAnswer /\ task.answered =>
       /\ \A e \in task.closer \cup task.also : e[1] # task.remote
       /\ \A e \in task.closer : e[1] # Self
       /\ task.target # Self => \A e \in task.closer \cup task.also : e[2]
       /\ \A e \in task.closer, f \in task.also : e[1] # f[1]
       /\ Cardinality(task.closer) <= BucketSize /\ Cardinality(task.also) <= 1
  /\ task.op = "FindPeer" /\ task.result = "found" => task.local \/ task.id \in task.heard

(* A lookup that is to fill a bucket makes for a target in that bucket:    *)
(* the keys that share with it one bit more than the bucket shares are     *)
(* all in the bucket.  One that is to visit a region makes for a target in *)
(* that region.                                                            *)
TargetsFit ==
  /\ task.op = "explore" =>
       \A k \in Key : IsPrefixOf(k, task.cpl + 1, Hash[task.target]) =>
         CommonPrefixLength(KeyOf[Self], k) = task.cpl
  /\ task.op = "survey" => IsPrefixOf(task.prefix, task.len, Hash[task.target])

(* The strengthening: the counters count the connections that were counted *)
(* for the peers of the table, of which each has one at least.             *)
CountsInv ==
  /\ \A c \in counted : Owner[c] \in table /\ Group[c] # NoGroup
  /\ \A p \in table : \E c \in counted : Owner[c] = p
  /\ \A g \in Groups :
       /\ tableIpGroupCount[g] = Cardinality(InGroup(counted, g))
       /\ \A b \in Cpls : cplIpGroupCount[b][g] =
            Cardinality({c \in InGroup(counted, g) : Bucket(Owner[c]) = b})

(* While an answer is put together: there were at most BucketSize nodes to *)
(* look at, those that are named so far had addresses when they were looked *)
(* at, and the target comes last.                                          *)
TaskInv ==
  IsAnswer =>
    /\ IsFiniteSet(task.todo) /\ IsFiniteSet(task.closer)
    /\ Cardinality(task.todo) + Cardinality(task.closer) <= BucketSize
    /\ \A e \in task.closer : e[1] \in Peers \ {task.remote} /\ e[2]
    /\ ~task.answered => task.also = {}

IInv ==
  /\ TypeOK /\ CountsInv /\ GroupsWithinLimits /\ TargetsFit
  /\ TaskInv /\ AnswersAreGrounded
=============================================================================
