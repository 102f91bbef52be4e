# Zikade in TLA+

Zikade is a Kademlia DHT for libp2p written in Go: the DHT object with its
routing operations (`dht.go`, `routing.go`), the handlers of the requests other
nodes send (`handlers.go`, `stream.go`), the backends that store records
(`backend*.go`), and glue to libp2p. The Kademlia state machines (routing table
maintenance, queries, publishing) are not in this repository: they come from the
`xorbie` coordinator, which Zikade drives through `router.go` and callbacks.
What is this repository's own is therefore the *concurrent use of shared
records*: goroutines that store, fetch and collect the same records over a
datastore without locks of their own, searches whose result depends on the order
of answers, calls that succeed or fail half way, and the starting, switching and
stopping of all this. That is what is modelled.

## 1. Inventory

| component | state | operations | hard about it | what makes it correct |
|---|---|---|---|---|
| Provider record backend (`backend_provider.go`) | datastore entries `/providers/key/peer`, LRU cache of answers, `gcSkip` marks | `Store`, `Fetch`, `collectGarbage`, `Validate` | three kinds of goroutines, no lock; a decision on data read earlier; cache filled late; failing entries | a cached answer is wrong about nothing but later writes; no valid record is removed but one rewritten meanwhile; garbage goes in the end |
| Garbage collection loop (`backend_provider.go`) | mutex, `gcCancel`, `gcDone`, goroutine, ticker | `StartGarbageCollection`, `StopGarbageCollection`, `Close` | Stop waits with the mutex held; `gcDone` read without it | one loop; none after Stop; no panic on close; calls return |
| Record backend (`backend_record.go`) | one record per key, transaction | `Store`, `Fetch`, `Validate` | compare and replace; expiry at any moment; delete outside the transaction | a register that only gets better while its value is valid |
| Value search (`routing.go`) | best value, quorum, peers to update | `GetValue`, `SearchValue`, `searchValueRoutine` | order of answers; values that expire; other writers | best answer returned; ends exactly on the quorum; updates only improve |
| Provider search (`routing.go`) | providers seen, channel | `FindProvidersAsync`, `FindProviders(Progress)` | duplicates, the count, a reader that leaves | no duplicate, never more than asked, channel closed |
| Publishing (`routing.go`) | none of its own | `PutValue`, `Provide`, `ProvideOnce`, `verifyStoredRecord`, the reprovide survey | local success and remote failure; late effects of requests given up | what success says is stored is stored, and is lost again only where values expire or records are too old or unreadable |
| Request handlers (`handlers.go`) | none of their own | one per message type | several providers in a message, partial failure; addresses that expire while an answer is made | only the provider's own word is stored; answers name nobody twice, unreachable or unwanted |
| Streams (`stream.go`) | one stream each | request loop, deadlines, resets | reset in the middle of a request | a stream that was reset ends |
| DHT lifecycle and mode (`dht.go`, `notifee.go`) | mode, stream handler, `stopped`, subscription | `New`, `Close`, `setServerMode`, `setClientMode`, event loop | Close and switches against events, streams and each other; errors of `New` | no stream that was found is left; the mode follows reachability; what Close stops ends; it closes what `New` opened and nothing of the user's too early |
| Router (`router.go`) | none | `SendMessage`, `GetClosestNodes` | silent peers, timeouts that race late effects | calls return; an error or an answer, never both |
| Diversity filter (`diversity_filter.go`) | counters per bucket and IP group | `Allow`, `Increment`, `Decrement` | connections change between the counting and the taking back | the limits hold; no count goes astray |
| Provider keystore (`providerkeystore.go`) | datastore entries, index | `Add`, `Remove`, load at start | error or crash between the two writes | a registered key is reprovided until it is removed |
| Tracing wrapper (`backend_trace.go`) | none | passes calls on | hides `io.Closer`; a second wrap hides the backend | is transparent, which it is not to `Close` |
| Configuration (`config.go`, `bootstrap.go`) | none | `Validate`, defaults | which combination makes whose datastore | `New` builds what `Close` takes down |
| Keys and prefixes (`kadt`, `internal/cplutil`) | a generated table | `prefix`, `GenRandPeerID`, `GenRandKeyForPrefix` | masks and limits at the last bit | a target lies in its bucket or region |
| Wire messages (`pb`) | none | accessors, generated code | - | - |
| Telemetry, Scout | none that matters | metrics and traces, a terminal program | - | - |

How they interact: `handlers.go` and `routing.go` call `Backend.Store`, `Fetch`
and `Validate` through the tracing wrapper, one goroutine per inbound stream or
API call; `routing.go` hands the coordinator functions that it calls once per
answer, one at a time, and reads the result from channels; the coordinator calls
`router.SendMessage` and `verifyStoredRecord`; libp2p's event bus drives the mode.
The hazards, each at its line and with the properties that watch it, are in
`PROJECT.json`.

## 2. Modules

| module | models | theorems in | checked by |
|---|---|---|---|
| `ProvidersBackend` | `Store`, `Fetch`, `collectGarbage`, crash | `ProvidersBackendProofs` | `MCProvidersBackend`, `MCProvidersHits` |
| `GarbageCollectionLoop` | Start/Stop/Close, the goroutine, the ticker | `GarbageCollectionLoopProofs` | `MCGarbageCollectionLoop` |
| `Records` | the records of IPNS and public key backends: valid, replaceable, unusable | | through the modules that extend it |
| `RecordRegister` | *abstract*: a register that only gets better | refined in `RecordBackendProofs` and `PublishProofs` | as a property of `RecordBackend` |
| `RecordBackend` | `Store`, `Fetch` of IPNS and public key records, crash | `RecordBackendProofs` | `MCRecordBackend` |
| `SearchValue` | `GetValue`, `SearchValue`, `searchValueRoutine`, the answering peers | `SearchValueProofs` | `MCSearchValue` |
| `FindProviders` | `FindProvidersAsync`, `FindProviders(Progress)`, the caller | `FindProvidersProofs` | `MCFindProviders` |
| `Lifecycle` | `New`, the event loop, mode switches, streams, `Close` | `LifecycleProofs` | `MCLifecycle` |
| `Publish` | `PutValue`, `Provide`, the survey, the key store, `SendMessage`, the storing handlers, `Fetch` of records, expiry, crash | `PublishProofs` | `MCPublish` |
| `KeyPrefixes` | keys, the prefix table and the targets made with it | | through `RoutingTable`, which extends it |
| `RoutingTable` | the diversity filter, the closer peers in answers, `FindPeer`, `AddAddresses`, lookup targets | `RoutingTableProofs` | `MCRoutingTable` |

An operator marked `\* mutant` next to a definition is a form of it that a
plausible bug would give; `PROJECT.json` says which property refutes it. No
specification uses one.

### ProvidersBackend

Every call on shared state is one action, because nothing holds a lock across two
of them. `Store` is `StoreBegin` (clock, cache hit) - `StoreMark`
(`LoadOrStore`) - `StorePut`, or on an error `StorePutError` - `StoreUncache` -
`StoreUnmark`. `Fetch` is `FetchHit`, or `FetchMiss` - `FetchQuery` - `FetchTime` -
one `FetchKeep`, `FetchDelete` or `FetchEntryError` for each result - `FetchFill` or
`FetchNotFound`. A garbage collection pass is `GCPurge` - `GCErase` for each mark -
`GCQuery` - for each result `GCKeep`, or `GCCondemn` and `GCDelete` (twice for an
unreadable record, as in the code). A query returns a snapshot: that is what
leveldb and the map datastore do. A record is the time at which it was stored,
`NoRec` or `Corrupt`. The LRU order is kept in `older`.

`Crash` ends the process at any point; only the datastore survives. It also
stands for what the Go runtime does when two `Store` calls write to the map that
all copies of one cached `providerSet` share (`backend_provider.go:139`,
concurrent map writes).

Two history variables say what an answer can be expected to know: `fclean[f]` and
`cclean[k]` hold the providers whose record nobody wrote since the query the
answer comes from. No action reads them. `MCProvidersHits` adds two more, for the one property that
needs them: what Stores have told an answer that was in the cache when they began (`told`), and what
that was when a `Fetch` took the answer (`due`).

### GarbageCollectionLoop

The mutex, both fields, the contexts, channels and tickers of all loops ever
started (numbered), and the goroutines. `LoopEnter` is where `defer
close(p.gcDone)` reads the field, outside the mutex. `select` is two actions that
may both be enabled.

### RecordBackend and RecordRegister

One key: `Store` never touches two. `StoreValidate` - `StoreBegin` (transaction) -
`StoreCompare` - `StoreCommit`, or `StoreWorse`, or `StoreError` from any of them.
`Fetch` is `FetchGet` - `FetchReturn`, or `FetchUnusable` - `FetchDelete`. The
datastore is leveldb, which `InMemoryDatastore` makes: one open transaction shuts
out all other writers, readers see what is committed. A value is its rank in the
validator's order and the time it expires.

`Records` says what a stored record is and when it may be replaced or is not served any more; both
`RecordRegister` and `Publish` extend it. `RecordRegister` promises, for one key: the value changes in one step, to one at
least as good unless the old one has expired or is unreadable; a value is removed
only by a reader that finds what it *has read* unusable. The refinement maps `reg`
to `db` and `seen` to the record each `Fetch` has read.

### SearchValue

One search, with its local lookup, the answers of the query one by one, the
values sent to the caller, the quorum and the update of peers that held an older
value. `quorum` is chosen for each search as the routing option or the default
does. External: which peers the query asks, when it ends or fails. The peers are
those of `handlers.go` over a `RecordBackend` (`Accepts`), store records of others
at any time, and values may expire at any time. The caller reads the channel to
its end, as `GetValue` does.

### FindProviders

One search by either interface (`api`). `SearchFails` and `FetchLocal` are the checks and the
local lookup; then one loop over `list`, the providers of the store or of one
response, an element at a time: `Skip`, or `Add` in `FindProvidersProgress`, or `Mark` and then
the select as two actions that may both be enabled (`Send`, `SendCancelled`) in
`FindProvidersAsync`. `ListEnds` starts or resumes the query, which hands over responses
one by one (`Visit`), ends (`QueryEnds`) or fails (`QueryFails`, which makes
`FindProvidersProgress` return nothing at all, the local providers included). The ends are different
values of `pc`: on each of them the channel is closed or the slice returned. `told` is a
history variable. The local list has no repetitions because a `providerSet` has none; the loop over it
does not look for them. `local = None` also covers what the run `ProvidersPointers` shows:
an answer from the cache is no `*providerSet`, and the search gives up.

### Lifecycle

The goroutines of one DHT: `New` as one action for each thing it acquires (`NewValidate`,
`NewBackends`, `NewKeystore`, `NewCoordinator`, `NewMode`, `NewSubscribe`, `NewGo`), each of which
may return its error and leaves behind what was acquired before; the event loop; every stream; and
any number of callers of `Close`, which is again one action for each thing it closes. `setServerMode`
and `setClientMode` first set `mode` (`SwitchTo`) and then tell the host (`SetStreamHandler`,
`RemoveStreamHandler`); `modeMu` is no variable since only `New` and then the event loop switch. The
loops over connections and their streams (`ResetInbound` and `CloseStream`, one step per stream)
interleave with the host, which negotiates a protocol and calls the handler in separate steps, so a
stream may be accepted after the handler is gone. `served` is a history variable: the streams in use
when such a loop began. A configuration is a record of what `New`, the loop and `Close` branch on;
`sound` stands for the fields that are only validated, `wraps` counts the tracing wrappers around the
backends, since `typedBackend` looks through one and a wrapped backend is no `io.Closer`.

External: the host's connections, its event bus (a queue, whose `Close` drains it) and the
coordinator, which is only running or closed.

### Publish

Calls of one DHT, concurrent or one after the other, and the nodes they reach: `Peers` run this
code (`handle` is `handlers.go`, the set of what may come of a request, errors of the backend
included), `Foreign` nodes run any other. `SendMessage`, `SendFails`, `Answered`,
`ReadFails` are the ways through `router.SendMessage`; a request that was given up may still arrive
(`PeerHandles` needs `wire` only), or be `Lost`. `ADD_PROVIDER` draws no answer, so it counts as stored once
written. `AddToDisk` and `AddToIndex` are the two halves of `providerKeystore.Add`; `Crash` loses the
index and every call, the datastore and messages on their way survive; `Restart` loads the index.
Which nodes are targets, and that a call's context may end (`PublishFails`), is the
coordinator's and the caller's part.

A node's records are those of `Records`, with the time at which they were received, and all nodes have
one clock (`Tick`). What a handler or a call stores, it stores in one step: a stored value that is no longer valid gives way to
anything, a valid one to nothing worse (`Replaceable`). That the steps of `RecordBackend.Store` look
like one, with values that expire between them, is what `RecordBackend` shows. `Fetch`, which
`GetValue` calls at the DHT and `GET_VALUE` at any node, is two steps: `FetchReads`, then `FetchEnds` or
`FetchRemoves`, which deletes what is there *now* because what was *read* is too old or unreadable. So a
record may be lost that was stored in between.

A workload is the calls, the records that are unreadable from earlier runs, what foreign nodes may send, which
records are fetched and how long time goes on; it changes nothing but these. `registered`, `vouched`, `echoed`
and `since` are history variables. `since[c][n]` holds what node `n` has had under the key since it stored
the value of call `c`, and what was being fetched from it at that moment. `PutValueIsStored` needs it to tell the two ways to lose a value
that the code has from any other one.

### KeyPrefixes and RoutingTable

`KeyPrefixes` has keys as bit functions of any length and a table of preimages of which nothing is
known but what its generator (`gen.go`) guarantees: the hash of the preimage of a word begins
with that word. `prefix` and the two `GenRand` functions are sets, one element for each outcome of the
random bits; the empty set is their error.

`RoutingTable` has the table, the counters of the filter, the host's connections and the peers
with addresses, all changing under an answer that reads the nearest nodes at once and their
addresses one by one (`ReadAddresses`). `AddNode` and `RemoveNode` are `TryAdd` and `Remove` of the filter:
go-libp2p-kbucket looks at every address of a peer before it counts any, and takes back what it
counted. `Visit` is one answer to a running `FindPeer`. The counters are total functions: a missing
map entry is 0. External: the trie (`NearestNodes`), the coordinator's choice of candidates, the peerstore.

## 3. Runs

| run | instance | shows |
|---|---|---|
| `Providers` | 1 key, 2 providers, 1 Store, 1 Fetch, GC, 2 times, 1 fault; 2.4 M states | inductive invariant; the cache and the answers agree with the datastore; no valid record is lost without a rewrite |
| `ProvidersLive` | 1 record, 2 Stores, 1 Fetch, GC, 1 fault, fairness; 270 k | garbage and stale answers go |
| `ProvidersPointers` | 1 record | *violated*: a hit returns a `providerSet`, not a `*providerSet` |
| `ProvidersLosesProvider` | 2 providers | *violated*: a provider stored while the key is cached is missing from later hits |
| `GarbageCollectionLoop` | 3 callers, 3 loops, fairness; 2.1 k | one loop, none after Stop, no bad close, calls return |
| `RecordBackend` | 2 Stores, 1 Fetch, 3 values, 4 times, 2 faults, fairness; 73 k | implements `RecordRegister`; what may be lost; calls return |
| `SearchValue` | 3 peers, 3 values with a tie, quorum 0 or 2, 1 expiry; 1.2 M | result, quorum, updates |
| `FindProviders` | 2 nodes, 3 providers, responses of up to 2, counts -1 to 3, both interfaces, fairness; 362 k | no provider twice, the count, everything found, the search ends |
| `Lifecycle` | 13 configurations, 1 inbound and 1 outbound stream, 2 callers of Close, 2 events, fairness; 305 k | streams found are dealt with, own requests kept, `New`'s datastore closed by `Close` and no other, the mode follows reachability, all ends |
| `Publish` | 7 workloads of 2 calls, 1 peer, 1 foreign node, 4 values, 1 Fetch, 4 times, 1 foreign request, 1 crash, fairness; 623 k | what success means and how a stored value may be lost, whose records are kept, what is reprovided, calls return |
| `RoutingTable` | 3 peers, 5 connections, 1 IP group, limits 1 and 2, buckets of 2, keys of 3 bits, words of 2; 1.25 M | the filter's limits, what answers name, where targets lie |
| `SearchIgnoresLocal` | 2 peers, 2 values | *violated*: a worse value of the network replaces the local one |

Bounds. `MaxTime` lets a record be stored, expire and be stored again
(`ProvideValidity` 0, times 0 and 1, suffice since only the difference to
`ProvideValidity` is tested; the times in `RecordBackend` are long enough for values to
expire in either order and for records to grow too old). `MaxFaults` 1 gives every
single error or crash at every point, 2 in `RecordBackend` a crash after an error.
Two results of one query are what it takes for an answer to be partial. (Its runs have
one key each and so never evict; what is evicted, and that the limit holds, is proved for any keys and any size.) Three peers are what it takes to have a quorum of two,
to lose it to a better value and to have a third opinion. Two responses of two providers
after a local list repeat a provider within a list, between nodes and from the store, and
reach a count of 3 only together. `MaxLoops` bounds how often a loop is started; with
three the second Start and Stop overlap the end of the first loop and the third
follows. `MaxExpiries` bounds how many values the validator stops accepting.
In `Lifecycle` two events (`MaxEvents`) let one overtake the switch that the other one caused; one
inbound stream meets each reset loop at each of its stages, and streams do not interact; two callers
of `Close` overlap. The configurations are every mode with the defaults and, in client mode, each way
to have backends and a datastore, and each way for `Validate` to fail. The workloads of `Publish`
(`AllWorkloads`) are two values under one key, of which the better one expires, one value against a worse and a better
one of a foreign node and a Fetch at the peer, a key that is provided and surveyed, one that is provided and
removed, offline puts with time, a Fetch, an unreadable record and every value from outside at the DHT, an offline put and provide
against well-formed and malformed requests (`MaxForeign` 1), and calls for
no key. With `MaxAge` 1 a record grows too old at time 2 and is replaced, or its successor deleted, by time 3; a workload
whose question needs less time stops earlier (`until`). Every excuse in `Kept` is needed in these
workloads: without it the run fails. One crash (`MaxCrashes`) falls between any two steps. In `RoutingTable` two of the three peers share a
bucket, which has room for one of the group, while the table has room for two of the three; a
peer may be connected twice, and one connection has no group, so that a peer may be admitted,
change its connections and leave; the addresses of one peer expire, those of the two bootstrap peers do
not; three bits with words of two have a bucket the
table can make a target for at either end, and one it cannot. The proofs need none of these bounds to be small.

Deadlock is checked but in `SearchValue`, `FindProviders`, `Lifecycle` and `Publish`: a search
ends, a closed DHT with no stream left rests, and calls that have returned are not made again.

Fairness. `ProvidersLive` assumes weak fairness of the garbage collection pass
alone: the ticker keeps ticking and its goroutine is scheduled; nothing is assumed
of Stores and Fetches. `GarbageCollectionLoop` assumes that goroutines run, that a
waiter gets the mutex in the end (Go's mutex hands over to a starving waiter: strong fairness) and
that `select`, which chooses uniformly, does not prefer the tick for ever (strong fairness
of `LoopCancelled`). `RecordBackend` assumes that goroutines run and that leveldb's write
lock is granted in turn. `FindProviders` assumes that its goroutine runs and that the
query ends or fails once nothing is left to visit, which is the coordinator's part; the
caller may leave without a word, and `SearchEnds` names the one place where the search then
stays. `Lifecycle` assumes that its goroutines run, that handlers return (each has deadlines or
only local work) and that reading a stream that was reset fails. `Publish` assumes for each call that it goes on, or
that some request of it is sent, fails or reaches its deadline, which `SetDeadline` guarantees: one weak fairness condition per
call; nothing of the network, of remote nodes or of restarts. `RoutingTable` has no liveness. No fairness is assumed of callers or errors.

## 4. Findings

Checked as runs (`findings` in `PROJECT.json`):

- A cache hit returns another type than a miss, and every caller asserts the type
  of the miss (`backend_provider.go:171`).
- `Store` adds the provider to a copy of the cached set: later answers from the
  cache lack it (`backend_provider.go:138`).
- A search starts with no best value although it has just sent the local one, so
  `GetValue` may return a worse value than the one stored locally (`routing.go:500`).

Built into the models and visible in how the properties are stated, without a run
of their own:

- An answer from the cache may name providers whose records have expired
  (`backend_provider.go:169`): `CacheMatchesDatastore` asks of a named provider only that a
  readable record is there, and `StaleAnswersLeaveTheCache` that it leaves in the end.
- A mark does not protect a record that is stored between the check of the mark and
  the delete (`backend_provider.go:368-382`), and a `Fetch` that has found a record expired or
  unusable deletes the one stored since (`backend_provider.go:205`, `backend_record.go:119`):
  `OnlyRewrittenRecordsAreLost` and `OnlyReplacedRecordsAreLost` say that nothing else is lost.
- So `PutValue` may return nil and its value be gone at once: a `Fetch` that had read a predecessor too old to be
  served deletes it (`backend_record.go:119`). And a better value that replaces it may expire sooner, after which
  anything takes its place (`backend_record.go:205`).
  `PutValueIsStored` says that a value is lost in no other way.
- A peer that answers with an old value after a better one is known is not updated
  (`routing.go:525`): `UpdatesOnlyStalePeers` has no converse.
- A corrupt or outdated local record makes `SearchValue` fail rather than ask the
  network (`routing.go:466`; `backend_record.go:101` says "pretend that we don't know
  about it"): `SearchFails`.
- The tracing wrapper is no `io.Closer`, so `Close` closes no backend (`dht.go:286`;
  `config.go:146-147` says that closers "will get closed"): `closed` stays empty. With backends but no
  datastore of the user's, `Close` closes the datastore of the user's own
  `ProvidersBackend` (`dht.go:304`), unless the map had been wrapped before.
- `Close` closes the datastore (`dht.go:304-310`) before it resets the streams (`dht.go:312-324`): a handler may still be
  using it. `StoresAreReturned` says nothing of that.
- A stream negotiated before the handler was removed and accepted later is served in client
  mode; after `Close` the handler stays registered, and new streams are still served:
  `ServedStreamsAreReset` speaks of the streams that were found.
- `setClientMode` in client mode is no no-op (`dht.go:346-347` says so): it resets inbound streams again.
- A `New` that fails after the coordinator was started returns no DHT to close it with (`dht.go:190`).
- `Provide` counts requests that were written, since `ADD_PROVIDER` draws no answer
  (`router.go:77-85`): `PutValueIsStored` has no counterpart for providers.
- Nothing but tests calls `StartGarbageCollection` and `providerKeystore.Remove`.
- `closerPeers` drops the requester and peers without addresses after it has taken the
  nearest `BucketSize` (`handlers.go:262-288`): an answer may name fewer peers than it could.
- A peer that stops supporting the protocol stays in the routing table: `notifee.go:21-23` says that
  it should be removed, the event is ignored (`notifee.go:52`).
- Not in any model: `AddrFilterPublic` keeps public addresses, its comment says it
  filters them out (`config.go:383`).

## 5. Proofs

All hold for every value of the constants, under the assumptions named
`ConstantsAssumption` (which say no more than: sets are what they should be,
bounds are naturals, the "none" values are no members, for the provider
backend that there is a key and a provider and the cache has room for an answer, and for the routing
table that distinct peers have distinct keys, which are SHA-256 hashes) and, for keys,
`KeyAssumption` (the prefix table has an entry for every word). Each module of proofs also shows its
inductive invariant, `Spec => []IInv`, as a theorem of its own, which the others use.

- `ProvidersBackendProofs`: `TypeCorrect`, `CachedAnswersAreCoherent`,
  `MissesAreCoherent`, `NoLossWithoutRewrite`. The invariant `IInv` adds to the properties what a
  Fetch under way knows: before the scan its snapshot equals the datastore for the
  clean providers; during the scan a result not yet looked at equals the datastore, and one
  looked at is in the answer if and only if its record was valid at the time the
  Fetch read. It also says that the record garbage collection is about to delete was garbage in
  its snapshot, which time cannot change. Each step either leaves the records
  of clean providers alone or takes the provider out of the clean set (lemmas `WroteLeavesCleanUntouched`,
  `FetchFrame`, `CacheFrame`). `CacheLimit` and `EvictionIsLRU`: the recency of cached answers is a
  strict total order (`RecencyIsAnOrder`), which hits, removals and fills keep (`HitKeepsCacheInv`,
  `RemoveKeepsCacheInv`, `AddKeepsCacheInv`); so a full cache, being finite, has exactly one answer that was
  used least recently (`LeastRecentlyUsed`), and a fill evicts it and nothing else.
- `GarbageCollectionLoopProofs`: `OneLoop`, `StopIsFinal`, `NoPanicOnClose`. `IInv` ties `gcDone` to
  `gcCancel`, both to the last loop started, and says that every earlier loop has ended. That is why
  the unprotected read of `gcDone` is harmless: the field can only be reset after the
  goroutine that reads it has closed its channel. `WaitsAreServed` is the part of `CallsReturn` that needs no
  fairness: who waits for the mutex waits for a caller inside Start or Stop, and what that caller may
  wait for, a cancelled loop, runs on without the mutex until it closes the channel waited for.
- `RecordBackendProofs`: `TypeCorrect`, `NoLossWithoutReplacement`, `Refinement`, and from the refinement
  `ValidRecordsOnlyImprove` (a valid record gives way only to one that is not worse). The key
  invariant is `ComparisonStillHolds`: what `StoreCompare` found still holds at the
  commit, because the transaction keeps other writers out and time only makes the
  stored value easier to replace.
- `SearchValueProofs`: `QuorumEnds`, `NoSearchBeyondQuorum`, `BestAnswerReturned`,
  `UpdatesAreSound`, `UpdatesImprove`, `DeliveriesImprove` (what the channel delivers only improves,
  but for the first value of the network after a local one). `IInv` says that the quorum peers are exactly those that
  answered `best`, that fewer than the quorum are known while the query goes on,
  and, as long as nothing expired, that `best` is at least as good as every answer and
  strictly better than those of the peers to update.
- `FindProvidersProofs`: `TypeCorrect`, `NoDuplicates`, `CountRespected`, `AllFound`. `IInv` says that
  the map of seen providers holds those the caller has, and one more between `Mark` and the
  select, so the two ways of counting agree; that everything told is seen or still in the
  list; and that the local list holds nothing seen. The counts range over all integers.
- `LifecycleProofs`: `IInvHolds`, `StreamsAreReset`, `OwnStoreIsClosed`, `OutboundIsKept`, `ModeSettles`. `IInv` says
  in which order `New` acquires and `Close` releases (`NewInv`, `CloseInv`, `StoreInv`), that one `Close` does the work
  (all others find `stopped`), that mode and handler agree between switches (`ModeInv`), and what the reset loops rely on:
  a stream that was in use when a loop began is still in use or has ended, so the loop meets it
  under the protocol or need not meet it (`StreamInv`). `ModeSettles` is the part of `FollowsReachability` that
  needs no fairness: until `Close`, the last report in the channel is the latest one, and when none is left the mode
  is what the latest called for (`EventInv`), however many reports came while a switch went over the streams.
- `PublishProofs`: `IInvHolds`, `PutValueStores`, `OnlyVouchedRecords`, `RegisteredKeysSurvive`, `RecordsAreRegisters`. No
  node forgets that it has stored a value (lemmas about `handle` and `Note`), so an echo on its way, and a success counted, stay true
  (`NetInv`); a request on its way to store a provider has been sent by that provider; an indexed key is in
  the datastore, and a key whose `Add` has reached the index is in the datastore (`KeyInv`). That a stored value is still there
  needs `SinceInv`: what a node has now, and what a Fetch has read from it, it has had since it stored the value, so whatever
  replaces the value is at least as good or comes after one that was and has expired (`ChangeKeeps`), and a Fetch that deletes it
  has read one of those (`FetchStepIInv`); both stay so as time passes (`TickIInv`). `RecordsAreRegisters` shows
  that each record of each node is a `RecordRegister` whose readers are the Fetches: the
  specification that `RecordBackend` implements is the one that `Publish` is built on.
- `RoutingTableProofs`: `IInvHolds`, `FilterKeepsLimits`, `TargetsHit`, `AnswersGrounded`, `NearestNodesSelected`. `CountsInv` says that each counter is
  the number of connections counted for the peers of the table, so counting and taking back cancel whatever
  connections there are. The limits follow because `Allow` is asked for every connection of a peer before
  one is counted: a peer may count several times, but it is one peer. `TargetsHit` needs the generator's guarantee and that the
  flipped bit is kept.
  `NearestNodesSelected` and `AnswersGrounded` rest on what `Compare` is on keys of one length: a strict total
  order, decided at the first bit that differs (`CloserIsTotal`, `CloserIsTransitive`, `CloserIsIrreflexive`). The table is
  finite, each peer in it having a counted connection, so the ranks of its peers are distinct and at most
  `BucketSize` of them are low enough for an answer (`NearestBounded`, `NearestAreNearest`). `TaskInv` says what
  an answer under way holds: the peers it has named, with addresses and without the requester, and those it has
  still to look at are together no more than `BucketSize`.

Only model-checked: the liveness properties (`GarbageIsCollected`, `StaleAnswersLeaveTheCache`, the three
`CallsReturn`, `SearchEnds`, `FollowsReachability`, `GoroutinesEnd`), since fairness and ENABLED are out of the
prover's reach. Neither checked nor proved: what neighbours outside this repository compute is taken from how the
code uses them (the trie's nearest nodes, the LRU list), and the proofs are about that.

## 6. Not modelled, and why

- Telemetry (`telemetry.go`, `tele`): metrics and traces change no behaviour. Scout
  (`cmd/scout`): a terminal program that shows the library at work.
- Of modelled components: the address book and `Validate` of the provider backend (no branch of `Store` and
  `Fetch` depends on them); `handlePing`, an echo; `KeysUnder`, a read of an index by prefix, and `Size`; the
  validation of single configuration fields beyond "sound"; query limits and timeouts handed to the
  coordinator; hex formatting; generated protobuf code; logging.
- A caller of `SearchValue` that stops reading leaves a goroutine behind (`routing.go:544`): the
  module assumes one that reads on. `FindProviders` models one that leaves.
- Everything of `xorbie`, libp2p and the datastores but what the code sees of them, among it the order of
  entries within a query beyond "any order".

## 7. What could follow

The modules were written in the order of section 2: first the backends, where goroutines share
records without a lock, then the searches, then the object that starts and stops it all, publishing,
and the routing table. What is left needs more of the neighbours than this repository holds: the queries
themselves, with `xorbie`'s state machines in place of "any node answers"; `RoutingTable` composed with
`Publish`, so that the nodes a record goes to are those the table names; and a liveness run of the provider
backend with two keys and a cache of one.
