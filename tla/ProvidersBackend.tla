-------------------------- MODULE ProvidersBackend --------------------------
(***************************************************************************)
(* The provider record store of one DHT server (backend_provider.go).      *)
(*                                                                         *)
(* Store, Fetch and one garbage collection pass run concurrently over a    *)
(* thread-safe datastore, an LRU cache of complete answers and the         *)
(* gcSkip marks.  Nothing holds a lock across two of those calls, so each  *)
(* call on shared state is a step of its own.                              *)
(*                                                                         *)
(* Abstracted: the address book (AddAddrs, Addrs), on which no branch of   *)
(* this code depends; the map inside a cached providerSet, which nothing   *)
(* but addProvider itself reads; logging and metrics.                      *)
(***************************************************************************)
EXTENDS Integers, FiniteSets

CONSTANTS
  Keys,             \* content keys, the path part of /providers/$multihash
  Provs,            \* provider peer IDs
  Stores,           \* goroutines that call Store
  Fetchers,         \* goroutines that call Fetch
  ProvideValidity,  \* record lifetime, in clock ticks
  CacheSize,        \* capacity of the LRU cache
  MaxTime,          \* bound on the clock
  MaxFaults         \* bound on datastore errors and process crashes

ASSUME ConstantsAssumption ==
  /\ Keys # {} /\ Provs # {}
  /\ ProvideValidity \in Nat
  /\ CacheSize \in Nat \ {0}
  /\ MaxTime \in Nat
  /\ MaxFaults \in Nat

VARIABLES
  now,      \* the wall clock
  db,       \* the datastore: the expiryRecord under /providers/key/prov
  cache,    \* the cached providerSet of each key
  older,    \* recency of the cached keys: <<a, b>> if a was used before b
  gcSkip,   \* records marked as to be skipped by garbage collection
  store,    \* the local state of each Store call
  fetch,    \* the local state of each Fetch call
  gc,       \* the local state of the collectGarbage goroutine
  faults,   \* number of errors and crashes so far
  fclean,   \* history: the providers whose record was readable and was not
            \*   written since the query of a Fetch
  cclean    \* history: the same since the query a cached answer comes from

progVars == <<now, db, cache, older, gcSkip, store, fetch, gc, faults>>
vars == <<now, db, cache, older, gcSkip, store, fetch, gc, faults, fclean, cclean>>

Recs == Keys \X Provs

(* A record is the time it was stored.  Two other values stand for no      *)
(* record under this key and for bytes UnmarshalBinary rejects.            *)
NoRec == -1
Corrupt == -2
Times == 0 .. MaxTime
Values == Times \cup {NoRec, Corrupt}

ValidAt(v, t) == v \in Times /\ t - v <= ProvideValidity
Live(r) == ValidAt(db[r], now)
Garbage(r) == db[r] # NoRec /\ ~Live(r)

(* A cached answer is never empty.                                         *)
NoAnswer == {}
Cached == {k \in Keys : cache[k] # NoAnswer}

AnyKey == CHOOSE k \in Keys : TRUE
AnyRec == CHOOSE r \in Recs : TRUE
IdleStore == [pc |-> "idle", rec |-> AnyRec, expiry |-> 0, found |-> FALSE]
IdleFetch == [pc |-> "idle", key |-> AnyKey, snap |-> [p \in Provs |-> NoRec],
              at |-> 0, out |-> {}, kind |-> "none"]
IdleGC == [pc |-> "idle", erase |-> {}, snap |-> [r \in Recs |-> NoRec],
           rec |-> AnyRec]

StoreStates ==
  [pc : {"idle", "mark", "put", "uncache", "unmark"}, rec : Recs,
   expiry : Times, found : BOOLEAN]
FetchStates ==
  [pc : {"idle", "query", "time", "scan", "return"}, key : Keys,
   snap : [Provs -> Values], at : Times,
   out : SUBSET Provs, kind : {"none", "pointer", "value", "notfound", "error"}]
GCStates ==
  [pc : {"idle", "erase", "scan", "delete", "again"}, erase : SUBSET Recs,
   snap : [Recs -> Values], rec : Recs]

(* The datastore outlives the process: it may hold records of an earlier   *)
(* run.                                                                    *)
Init ==
  /\ now = 0
  /\ db \in [Recs -> {NoRec, Corrupt, 0}]
  /\ cache = [k \in Keys |-> NoAnswer]
  /\ older = {}
  /\ gcSkip = {}
  /\ store = [s \in Stores |-> IdleStore]
  /\ fetch = [f \in Fetchers |-> IdleFetch]
  /\ gc = IdleGC
  /\ faults = 0
  /\ fclean = [f \in Fetchers |-> {}]
  /\ cclean = [k \in Keys |-> {}]

Fault ==
  /\ faults < MaxFaults
  /\ faults' = faults + 1

(* Bookkeeping of the history variables: record r is written or deleted.   *)
Wrote(r) ==
  /\ fclean' = [f \in Fetchers |->
                  IF fetch[f].key = r[1] THEN fclean[f] \ {r[2]} ELSE fclean[f]]
  /\ cclean' = [cclean EXCEPT ![r[1]] = @ \ {r[2]}]

UnchangedHistory == UNCHANGED <<fclean, cclean>>

-----------------------------------------------------------------------------
(* The LRU cache (external: hashicorp/golang-lru).                         *)

Forget(rel, k) == {e \in rel : e[1] # k /\ e[2] # k}

(* cache.Get or a re-Add of k: k becomes the most recently used.           *)
Touch(k) == Forget(older, k) \cup {<<x, k>> : x \in Cached \ {k}}

(* The keys Add must evict: the least recently used one when k is new and  *)
(* the cache is full, none otherwise.                                      *)
Victims(k) ==
  IF k \in Cached \/ Cardinality(Cached) < CacheSize
    THEN {}
    ELSE {v \in Cached : \A x \in Cached : <<x, v>> \notin older}

CacheAdd(k, answer) ==
  LET out == Victims(k) IN
  /\ cache' = [x \in Keys |-> IF x = k THEN answer
                              ELSE IF x \in out THEN NoAnswer ELSE cache[x]]
  /\ older' = {e \in Touch(k) : e[1] \notin out /\ e[2] \notin out}

CacheRemove(k) ==
  /\ cache' = [cache EXCEPT ![k] = NoAnswer]
  /\ older' = Forget(older, k)

-----------------------------------------------------------------------------
(* Store.                                                                  *)

(* The time is read, then the cache.  On a hit addProvider runs on a copy  *)
(* of the cached providerSet: the cached list of providers does not        *)
(* change, the key only becomes the most recently used one.                *)
StoreBegin(s, r) ==
  /\ store[s].pc = "idle"
  /\ store' = [store EXCEPT ![s] =
                 [pc |-> "mark", rec |-> r, expiry |-> now, found |-> FALSE]]
  /\ older' = IF r[1] \in Cached THEN Touch(r[1]) ELSE older
  /\ UNCHANGED <<now, db, cache, gcSkip, fetch, gc, faults>>
  /\ UnchangedHistory

(* gcSkip.LoadOrStore                                                      *)
StoreMark(s) ==
  /\ store[s].pc = "mark"
  /\ store' = [store EXCEPT ![s].pc = "put",
                            ![s].found = store[s].rec \in gcSkip]
  /\ gcSkip' = gcSkip \cup {store[s].rec}
  /\ UNCHANGED <<now, db, cache, older, fetch, gc, faults>>
  /\ UnchangedHistory

(* datastore.Put succeeds and Store returns.                               *)
StorePut(s) ==
  /\ store[s].pc = "put"
  /\ db' = [db EXCEPT ![store[s].rec] = store[s].expiry]
  /\ Wrote(store[s].rec)
  /\ store' = [store EXCEPT ![s] = IdleStore]
  /\ UNCHANGED <<now, cache, older, gcSkip, fetch, gc, faults>>

StorePutError(s) ==
  /\ store[s].pc = "put"
  /\ Fault
  /\ store' = [store EXCEPT ![s].pc = "uncache"]
  /\ UNCHANGED <<now, db, cache, older, gcSkip, fetch, gc>>
  /\ UnchangedHistory

StoreUncache(s) ==
  /\ store[s].pc = "uncache"
  /\ CacheRemove(store[s].rec[1])
  /\ cclean' = [cclean EXCEPT ![store[s].rec[1]] = {}]
  /\ store' = [store EXCEPT ![s] =
                 IF @.found THEN IdleStore ELSE [@ EXCEPT !.pc = "unmark"]]
  /\ UNCHANGED <<now, db, gcSkip, fetch, gc, faults, fclean>>

(* Only the mark this very call has set is taken back.                     *)
StoreUnmark(s) ==
  /\ store[s].pc = "unmark"
  /\ gcSkip' = gcSkip \ {store[s].rec}
  /\ store' = [store EXCEPT ![s] = IdleStore]
  /\ UNCHANGED <<now, db, cache, older, fetch, gc, faults>>
  /\ UnchangedHistory

-----------------------------------------------------------------------------
(* Fetch.                                                                  *)

(* A hit returns the cached providerSet as it is, by value.                *)
FetchHit(f, k) ==
  /\ fetch[f].pc = "idle"
  /\ k \in Cached
  /\ fetch' = [fetch EXCEPT ![f] =
                 [IdleFetch EXCEPT !.pc = "return", !.key = k, !.kind = "value",
                                   !.out = cache[k]]]
  /\ older' = Touch(k)
  /\ fclean' = [fclean EXCEPT ![f] = Provs]
  /\ UNCHANGED <<now, db, cache, gcSkip, store, gc, faults, cclean>>

FetchMiss(f, k) ==
  /\ fetch[f].pc = "idle"
  /\ k \notin Cached
  /\ fetch' = [fetch EXCEPT ![f] = [IdleFetch EXCEPT !.pc = "query", !.key = k]]
  /\ UNCHANGED <<now, db, cache, older, gcSkip, store, gc, faults>>
  /\ UnchangedHistory

(* datastore.Query: its results are those of one snapshot.  snap holds the *)
(* results that the loop has yet to look at.                               *)
FetchQuery(f) ==
  /\ fetch[f].pc = "query"
  /\ fetch' = [fetch EXCEPT
                 ![f].pc = "time",
                 ![f].snap = [p \in Provs |-> db[<<fetch[f].key, p>>]]]
  /\ fclean' = [fclean EXCEPT ![f] = Provs]
  /\ UNCHANGED <<now, db, cache, older, gcSkip, store, gc, faults, cclean>>

FetchQueryError(f) ==
  /\ fetch[f].pc = "query"
  /\ Fault
  /\ fetch' = [fetch EXCEPT ![f].pc = "return", ![f].kind = "error"]
  /\ UNCHANGED <<now, db, cache, older, gcSkip, store, gc>>
  /\ UnchangedHistory

FetchTime(f) ==
  /\ fetch[f].pc = "time"
  /\ fetch' = [fetch EXCEPT ![f].pc = "scan", ![f].at = now]
  /\ UNCHANGED <<now, db, cache, older, gcSkip, store, gc, faults>>
  /\ UnchangedHistory

KeepsExpired(f, p) == fetch[f].snap[p] \in Times  \* mutant: no expiry check
KeepsCorrupt(f, p) ==  \* mutant: the error of UnmarshalBinary is ignored
  fetch[f].snap[p] \in Times => ValidAt(fetch[f].snap[p], fetch[f].at)

Usable(f, p) == ValidAt(fetch[f].snap[p], fetch[f].at)

(* One result of the query: a valid record is added to the answer ...      *)
FetchKeep(f, p) ==
  /\ fetch[f].pc = "scan" /\ fetch[f].snap[p] # NoRec
  /\ Usable(f, p)
  /\ fetch' = [fetch EXCEPT ![f].snap[p] = NoRec, ![f].out = @ \cup {p}]
  /\ UNCHANGED <<now, db, cache, older, gcSkip, store, gc, faults>>
  /\ UnchangedHistory

(* ... one that does not parse or has expired is deleted, whatever the     *)
(* datastore holds under its key by now; an error of Delete is only        *)
(* logged ...                                                              *)
FetchDelete(f, p) ==
  LET r == <<fetch[f].key, p>> IN
  /\ fetch[f].pc = "scan" /\ fetch[f].snap[p] # NoRec
  /\ ~Usable(f, p)
  /\ fetch' = [fetch EXCEPT ![f].snap[p] = NoRec]
  /\ \/ /\ db' = [db EXCEPT ![r] = NoRec]
        /\ Wrote(r)
        /\ UNCHANGED faults
     \/ Fault /\ UNCHANGED db /\ UnchangedHistory
  /\ UNCHANGED <<now, cache, older, gcSkip, store, gc>>

(* ... and one the datastore reports an error for is skipped.              *)
FetchEntryError(f, p) ==
  /\ fetch[f].pc = "scan" /\ fetch[f].snap[p] # NoRec
  /\ Fault
  /\ fetch' = [fetch EXCEPT ![f].snap[p] = NoRec]
  /\ fclean' = [fclean EXCEPT ![f] = @ \ {p}]
  /\ UNCHANGED <<now, db, cache, older, gcSkip, store, gc, cclean>>

FetchScannedOne(f) ==  \* mutant: leaves the loop after one result
  \E p \in Provs : fetch[f].snap[p] = NoRec
FetchScanned(f) == \A p \in Provs : fetch[f].snap[p] = NoRec

(* An empty answer is ErrNotFound and is not cached.                       *)
FetchNotFound(f) ==
  /\ fetch[f].pc = "scan" /\ FetchScanned(f) /\ fetch[f].out = {}
  /\ fetch' = [fetch EXCEPT ![f].pc = "return", ![f].kind = "notfound"]
  /\ UNCHANGED <<now, db, cache, older, gcSkip, store, gc, faults>>
  /\ UnchangedHistory

FetchFill(f) ==
  LET k == fetch[f].key IN
  /\ fetch[f].pc = "scan" /\ FetchScanned(f) /\ fetch[f].out # {}
  /\ CacheAdd(k, fetch[f].out)
  /\ cclean' = [x \in Keys |-> IF x = k THEN fclean[f]
                               ELSE IF x \in Victims(k) THEN {} ELSE cclean[x]]
  /\ fetch' = [fetch EXCEPT ![f].pc = "return", ![f].kind = "pointer"]
  /\ UNCHANGED <<now, db, gcSkip, store, gc, faults, fclean>>

FetchReturn(f) ==
  /\ fetch[f].pc = "return"
  /\ fetch' = [fetch EXCEPT ![f] = IdleFetch]
  /\ fclean' = [fclean EXCEPT ![f] = {}]
  /\ UNCHANGED <<now, db, cache, older, gcSkip, store, gc, faults, cclean>>

-----------------------------------------------------------------------------
(* collectGarbage, run by the garbage collection loop at every tick.       *)

GCNoPurge ==  \* mutant: the cache is not purged
  /\ gc.pc = "idle"
  /\ gc' = [IdleGC EXCEPT !.pc = "erase", !.erase = Recs]
  /\ UNCHANGED <<now, db, cache, older, gcSkip, store, fetch, faults>>
  /\ UnchangedHistory

GCPurge ==
  /\ gc.pc = "idle"
  /\ gc' = [IdleGC EXCEPT !.pc = "erase", !.erase = Recs]
  /\ cache' = [k \in Keys |-> NoAnswer]
  /\ older' = {}
  /\ cclean' = [k \in Keys |-> {}]
  /\ UNCHANGED <<now, db, gcSkip, store, fetch, faults, fclean>>

GCNoErase(r) ==  \* mutant: marks are never deleted
  /\ gc.pc = "erase" /\ r \in gc.erase
  /\ gc' = [gc EXCEPT !.erase = @ \ {r}]
  /\ UNCHANGED <<now, db, cache, older, gcSkip, store, fetch, faults>>
  /\ UnchangedHistory

(* gcSkip.Range deletes the marks one by one, in any order, while Stores   *)
(* set new ones: a mark set before its turn is deleted too.                *)
GCErase(r) ==
  /\ gc.pc = "erase" /\ r \in gc.erase
  /\ gcSkip' = gcSkip \ {r}
  /\ gc' = [gc EXCEPT !.erase = @ \ {r}]
  /\ UNCHANGED <<now, db, cache, older, store, fetch, faults>>
  /\ UnchangedHistory

GCQuery ==
  /\ gc.pc = "erase" /\ gc.erase = {}
  /\ \/ /\ gc' = [gc EXCEPT !.pc = "scan", !.snap = db]
        /\ UNCHANGED faults
     \/ Fault /\ gc' = IdleGC
  /\ UNCHANGED <<now, db, cache, older, gcSkip, store, fetch>>
  /\ UnchangedHistory

CollectableTooEarly(r) ==  \* mutant: >= in place of > in the expiry check
  r \notin gcSkip /\ ~(gc.snap[r] \in Times /\ now - gc.snap[r] < ProvideValidity)
Collectable(r) == r \notin gcSkip /\ ~ValidAt(gc.snap[r], now)

(* A query result that is marked, or still valid, or that the datastore    *)
(* reports an error for stays.                                             *)
GCKeep(r) ==
  /\ gc.pc = "scan" /\ gc.snap[r] # NoRec
  /\ \/ ~Collectable(r) /\ UNCHANGED faults
     \/ Fault
  /\ gc' = [gc EXCEPT !.snap[r] = NoRec]
  /\ UNCHANGED <<now, db, cache, older, gcSkip, store, fetch>>
  /\ UnchangedHistory

(* An unmarked one that does not parse or has expired is to be deleted.    *)
GCCondemn(r) ==
  /\ gc.pc = "scan" /\ gc.snap[r] # NoRec
  /\ Collectable(r)
  /\ gc' = [gc EXCEPT !.pc = "delete", !.rec = r]
  /\ UNCHANGED <<now, db, cache, older, gcSkip, store, fetch, faults>>
  /\ UnchangedHistory

Deleting == gc.pc \in {"delete", "again"}

(* One that does not parse is deleted twice; errors are only logged.       *)
GCDelete ==
  /\ Deleting
  /\ gc' = IF gc.pc = "delete" /\ gc.snap[gc.rec] = Corrupt
             THEN [gc EXCEPT !.pc = "again"]
             ELSE [gc EXCEPT !.pc = "scan", !.rec = AnyRec, !.snap[gc.rec] = NoRec]
  /\ \/ /\ db' = [db EXCEPT ![gc.rec] = NoRec]
        /\ Wrote(gc.rec)
        /\ UNCHANGED faults
     \/ Fault /\ UNCHANGED db /\ UnchangedHistory
  /\ UNCHANGED <<now, cache, older, gcSkip, store, fetch>>

GCDone ==
  /\ gc.pc = "scan" /\ \A r \in Recs : gc.snap[r] = NoRec
  /\ gc' = IdleGC
  /\ UNCHANGED <<now, db, cache, older, gcSkip, store, fetch, faults>>
  /\ UnchangedHistory

-----------------------------------------------------------------------------
Tick ==
  /\ now < MaxTime
  /\ now' = now + 1
  /\ UNCHANGED <<db, cache, older, gcSkip, store, fetch, gc, faults>>
  /\ UnchangedHistory

(* The process dies and starts again: only the datastore survives.  This   *)
(* is also what the Go runtime does when two Stores run addProvider on the *)
(* map of one cached providerSet at the same time.                         *)
Crash ==
  /\ Fault
  /\ cache' = [k \in Keys |-> NoAnswer]
  /\ older' = {}
  /\ gcSkip' = {}
  /\ store' = [s \in Stores |-> IdleStore]
  /\ fetch' = [f \in Fetchers |-> IdleFetch]
  /\ gc' = IdleGC
  /\ fclean' = [f \in Fetchers |-> {}]
  /\ cclean' = [k \in Keys |-> {}]
  /\ UNCHANGED <<now, db>>

StoreStep(s) ==
  \/ \E r \in Recs : StoreBegin(s, r)
  \/ StoreMark(s) \/ StorePut(s) \/ StorePutError(s)
  \/ StoreUncache(s) \/ StoreUnmark(s)

FetchStep(f) ==
  \/ \E k \in Keys : FetchHit(f, k) \/ FetchMiss(f, k)
  \/ FetchQuery(f) \/ FetchQueryError(f) \/ FetchTime(f)
  \/ \E p \in Provs : FetchKeep(f, p) \/ FetchDelete(f, p) \/ FetchEntryError(f, p)
  \/ FetchNotFound(f) \/ FetchFill(f) \/ FetchReturn(f)

GCStep ==
  \/ GCPurge \/ GCQuery \/ GCDelete \/ GCDone
  \/ \E r \in Recs : GCErase(r) \/ GCKeep(r) \/ GCCondemn(r)

Next ==
  \/ \E s \in Stores : StoreStep(s)
  \/ \E f \in Fetchers : FetchStep(f)
  \/ GCStep
  \/ Tick
  \/ Crash

Spec == Init /\ [][Next]_vars

(* The garbage collection loop keeps ticking and its goroutine is          *)
(* scheduled.  Nothing is assumed of Store and Fetch.                      *)
Fairness == WF_vars(GCStep)

FairSpec == Spec /\ Fairness
-----------------------------------------------------------------------------
(* Properties.                                                             *)

(* Every variable stays in its type.                                       *)
TypeOK ==
  /\ now \in Times
  /\ db \in [Recs -> Values]
  /\ cache \in [Keys -> SUBSET Provs]
  /\ older \subseteq Keys \X Keys
  /\ gcSkip \subseteq Recs
  /\ store \in [Stores -> StoreStates]
  /\ fetch \in [Fetchers -> FetchStates]
  /\ gc \in GCStates
  /\ faults \in 0 .. MaxFaults
  /\ fclean \in [Fetchers -> SUBSET Provs]
  /\ cclean \in [Keys -> SUBSET Provs]

(* A fill may race any number of Stores, deletions, failed Stores and      *)
(* purges.  Still a cached answer is only ever wrong about records written *)
(* after the query it was computed from: no provider is missing from it or *)
(* left over in it for another reason.  (Fetch, Store, collectGarbage)     *)
CacheMatchesDatastore ==
  \A k \in Cached : \A p \in cclean[k] :
    /\ p \in cache[k] => db[<<k, p>>] \in Times
    /\ p \notin cache[k] => ~Live(<<k, p>>)

(* The same for what Fetch returns after a cache miss, the deletions it    *)
(* makes on its way included.                                              *)
MissMatchesDatastore ==
  \A f \in Fetchers :
    fetch[f].pc = "return" /\ fetch[f].kind \in {"pointer", "notfound"} =>
      \A p \in fclean[f] :
        p \in fetch[f].out <=> ValidAt(db[<<fetch[f].key, p>>], fetch[f].at)

(* This step removes a valid record only if the goroutine that removes it  *)
(* works from a query that saw another version of the record.              *)
RemovesOnlyRewritten ==
  \A k \in Keys, p \in Provs :
    Live(<<k, p>>) /\ db'[<<k, p>>] = NoRec =>
      \/ \E f \in Fetchers :
           /\ fetch[f].key = k
           /\ fetch[f].snap[p] \notin {NoRec, db[<<k, p>>]}
           /\ fetch'[f].snap[p] = NoRec
      \/ /\ Deleting /\ gc'.pc # gc.pc /\ gc.rec = <<k, p>>
         /\ gc.snap[<<k, p>>] # db[<<k, p>>]

(* Neither Fetch nor garbage collection removes a valid record, except one *)
(* that was put after the query the removing goroutine works from.         *)
OnlyRewrittenRecordsAreLost == [][RemovesOnlyRewritten]_vars

(* As long as the loop ticks, a record that expired or does not parse is   *)
(* removed (or stored anew), whatever Stores mark and whenever the process *)
(* dies.                                                                   *)
GarbageIsCollected == \A r \in Recs : Garbage(r) ~> ~Garbage(r)

(* An answer that names a provider without a valid record leaves the cache *)
(* at last, even if a slow Fetch adds it after a purge.                    *)
Stale(k) == \E p \in cache[k] : ~Live(<<k, p>>)
StaleAnswersLeaveTheCache == \A k \in Keys : Stale(k) ~> ~Stale(k)

(* The strengthening that makes the safety properties inductive: what a    *)
(* Fetch under way has read and concluded of a record nobody wrote since,  *)
(* and that the record garbage collection is about to delete was garbage   *)
(* in its snapshot.                                                        *)
FetchInProgress(f) ==
  LET F == fetch[f] IN
  /\ F.at <= now
  /\ F.pc \in {"query", "time"} => F.out = {}
  /\ F.pc = "time" =>
       \A p \in fclean[f] : F.snap[p] = db[<<F.key, p>>]
  /\ F.pc = "scan" =>
       \A p \in fclean[f] :
         IF F.snap[p] # NoRec
           THEN F.snap[p] = db[<<F.key, p>>] /\ p \notin F.out
           ELSE p \in F.out <=> ValidAt(db[<<F.key, p>>], F.at)

CondemnedIsGarbage ==
  Deleting => gc.snap[gc.rec] # NoRec /\ ~ValidAt(gc.snap[gc.rec], now)

RecordsInv ==
  /\ TypeOK
  /\ \A f \in Fetchers : FetchInProgress(f)
  /\ MissMatchesDatastore
  /\ CacheMatchesDatastore
  /\ CondemnedIsGarbage

(* The cache never holds more answers than newProvidersCache was asked for. *)
CacheWithinSize == IsFiniteSet(Cached) /\ Cardinality(Cached) <= CacheSize

(* This needs that there is always one least recently used answer: recency *)
(* is a strict total order of the cached keys.                             *)
RecencyIsAnOrder ==
  /\ older \subseteq Cached \X Cached
  /\ \A a \in Cached : <<a, a>> \notin older
  /\ \A a, b \in Cached : a # b => <<a, b>> \in older \/ <<b, a>> \in older
  /\ \A a, b, c \in Cached : <<a, b>> \in older /\ <<b, c>> \in older => <<a, c>> \in older

IInv == RecordsInv /\ CacheWithinSize /\ RecencyIsAnOrder

-----------------------------------------------------------------------------
(* What the documentation says and the code does not do.                   *)

(* backend.go: "The values returned from [ProvidersBackend.Fetch] will be  *)
(* of type [*providerSet]", which every caller asserts.                    *)
FetchReturnsPointers ==
  \A f \in Fetchers : fetch[f].pc = "return" => fetch[f].kind # "value"
=============================================================================
