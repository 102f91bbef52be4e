----------------------- MODULE ProvidersBackendProofs -----------------------
(***************************************************************************)
(* Proofs about ProvidersBackend, for any number of keys, providers and    *)
(* goroutines, any cache size and validity, and any bounds.                *)
(***************************************************************************)
EXTENDS ProvidersBackend, FiniteSetTheorems, WellFoundedInduction, TLAPS

USE DEF Usable, Collectable

LEMMA AnyMembers == AnyKey \in Keys /\ AnyRec \in Recs
<1>1. PICK k \in Keys, p \in Provs : TRUE
  BY ConstantsAssumption
<1>2. AnyKey \in Keys
  BY <1>1 DEF AnyKey
<1>3. <<k, p>> \in Recs
  BY DEF Recs
<1>4. AnyRec \in Recs
  BY <1>3 DEF AnyRec
<1>5. QED  BY <1>2, <1>4

LEMMA IdleTypes ==
  /\ IdleStore \in StoreStates
  /\ IdleFetch \in FetchStates
  /\ IdleGC \in GCStates
<1>1. NoRec \in Values /\ 0 \in Times
  BY ConstantsAssumption DEF Values, Times, NoRec
<1>2. IdleStore \in StoreStates
  BY <1>1, AnyMembers DEF IdleStore, StoreStates
<1>3. IdleFetch \in FetchStates
  BY <1>1, AnyMembers DEF IdleFetch, FetchStates
<1>4. IdleGC \in GCStates
  BY <1>1, AnyMembers DEF IdleGC, GCStates
<1>5. QED  BY <1>2, <1>3, <1>4

LEMMA InitType == Init => TypeOK
<1>1. NoRec \in Values /\ Corrupt \in Values /\ 0 \in Values /\ 0 \in Times
  BY ConstantsAssumption DEF Values, Times, NoRec, Corrupt
<1>2. QED
  BY <1>1, IdleTypes, ConstantsAssumption DEF Init, TypeOK, NoAnswer

LEMMA WroteType ==
  ASSUME TypeOK, NEW r \in Recs, Wrote(r)
  PROVE  /\ fclean' \in [Fetchers -> SUBSET Provs]
         /\ cclean' \in [Keys -> SUBSET Provs]
  BY DEF TypeOK, Wrote, Recs

LEMMA FaultType ==
  ASSUME TypeOK, Fault
  PROVE  faults' \in 0 .. MaxFaults
  BY ConstantsAssumption DEF TypeOK, Fault

LEMMA OlderType ==
  ASSUME TypeOK, NEW k \in Keys
  PROVE  Touch(k) \subseteq Keys \X Keys /\ Forget(older, k) \subseteq Keys \X Keys
  BY DEF TypeOK, Touch, Forget, Cached

LEMMA StoreType ==
  ASSUME TypeOK, NEW s \in Stores, StoreStep(s)
  PROVE  TypeOK'
<1> USE DEF UnchangedHistory
<1>1. ASSUME NEW r \in Recs, StoreBegin(s, r)
      PROVE  TypeOK'
  <2>1. r[1] \in Keys
    BY DEF Recs
  <2>2. store' \in [Stores -> StoreStates]
    BY <1>1 DEF StoreBegin, TypeOK, StoreStates
  <2>3. older' \subseteq Keys \X Keys
    BY <1>1, <2>1, OlderType DEF StoreBegin, TypeOK
  <2>4. QED  BY <1>1, <2>2, <2>3 DEF StoreBegin, TypeOK
<1>2. CASE StoreMark(s)
  <2>1. store' \in [Stores -> StoreStates]
    <3>1. CASE store[s].rec \in gcSkip
      <4>1. store' = [store EXCEPT ![s].pc = "put", ![s].found = TRUE]
        BY <1>2, <3>1 DEF StoreMark
      <4>2. QED  BY <4>1 DEF TypeOK, StoreStates
    <3>2. CASE store[s].rec \notin gcSkip
      <4>1. store' = [store EXCEPT ![s].pc = "put", ![s].found = FALSE]
        <5>1. (store[s].rec \in gcSkip) = FALSE
          BY <3>2
        <5>2. QED  BY <1>2, <5>1, Zenon DEF StoreMark
      <4>2. QED  BY <4>1 DEF TypeOK, StoreStates
    <3>3. QED  BY <3>1, <3>2
  <2>2. gcSkip' \subseteq Recs
    BY <1>2 DEF StoreMark, TypeOK, StoreStates
  <2>3. QED  BY <1>2, <2>1, <2>2 DEF StoreMark, TypeOK
<1>3. CASE StorePut(s)
  <2>1. store[s].rec \in Recs /\ store[s].expiry \in Values
    BY DEF TypeOK, StoreStates, Values
  <2>2. db' \in [Recs -> Values]
    BY <1>3, <2>1 DEF StorePut, TypeOK
  <2>3. QED  BY <1>3, <2>1, <2>2, WroteType, IdleTypes DEF StorePut, TypeOK
<1>4. CASE StorePutError(s)
  BY <1>4, FaultType DEF StorePutError, TypeOK, StoreStates
<1>5. CASE StoreUncache(s)
  <2>1. store[s].rec[1] \in Keys
    BY DEF TypeOK, StoreStates, Recs
  <2>2. older' \subseteq Keys \X Keys
    BY <1>5, <2>1, OlderType DEF StoreUncache, CacheRemove
  <2>3. cache' \in [Keys -> SUBSET Provs] /\ cclean' \in [Keys -> SUBSET Provs]
    BY <1>5, <2>1 DEF StoreUncache, CacheRemove, NoAnswer, TypeOK
  <2>4. store' \in [Stores -> StoreStates]
    <3>1. [store[s] EXCEPT !.pc = "unmark"] \in StoreStates
      BY DEF TypeOK, StoreStates
    <3>2. QED  BY <1>5, <3>1, IdleTypes DEF StoreUncache, TypeOK
  <2>5. QED  BY <1>5, <2>2, <2>3, <2>4 DEF StoreUncache, TypeOK
<1>6. CASE StoreUnmark(s)
  BY <1>6, IdleTypes DEF StoreUnmark, TypeOK
<1>7. QED  BY <1>1, <1>2, <1>3, <1>4, <1>5, <1>6 DEF StoreStep

LEMMA FetchType ==
  ASSUME TypeOK, NEW f \in Fetchers, FetchStep(f)
  PROVE  TypeOK'
<1> USE DEF UnchangedHistory
<1>a. fetch[f] \in FetchStates /\ NoRec \in Values
  BY DEF TypeOK, Values
<1>1. ASSUME NEW k \in Keys, FetchHit(f, k)
      PROVE  TypeOK'
  <2>1. [IdleFetch EXCEPT !.pc = "return", !.key = k, !.kind = "value",
                          !.out = cache[k]] \in FetchStates
    BY IdleTypes DEF TypeOK, FetchStates
  <2>2. older' \subseteq Keys \X Keys
    BY <1>1, OlderType DEF FetchHit
  <2>3. QED  BY <1>1, <2>1, <2>2 DEF FetchHit, TypeOK
<1>2. ASSUME NEW k \in Keys, FetchMiss(f, k)
      PROVE  TypeOK'
  <2>1. [IdleFetch EXCEPT !.pc = "query", !.key = k] \in FetchStates
    BY IdleTypes DEF FetchStates
  <2>2. QED  BY <1>2, <2>1 DEF FetchMiss, TypeOK
<1>3. CASE FetchQuery(f)
  <2>1. [p \in Provs |-> db[<<fetch[f].key, p>>]] \in [Provs -> Values]
    BY <1>a DEF TypeOK, FetchStates, Recs
  <2>2. fetch' \in [Fetchers -> FetchStates]
    BY <1>3, <1>a, <2>1 DEF FetchQuery, TypeOK, FetchStates
  <2>3. QED  BY <1>3, <2>2 DEF FetchQuery, TypeOK
<1>4. CASE FetchQueryError(f)
  BY <1>4, <1>a, FaultType DEF FetchQueryError, TypeOK, FetchStates
<1>5. CASE FetchTime(f)
  BY <1>5, <1>a DEF FetchTime, TypeOK, FetchStates
<1>6. ASSUME NEW p \in Provs, FetchKeep(f, p)
      PROVE  TypeOK'
  <2>1. [fetch[f].snap EXCEPT ![p] = NoRec] \in [Provs -> Values]
        /\ fetch[f].out \cup {p} \in SUBSET Provs
    BY <1>a DEF FetchStates, Values
  <2>2. fetch'[f] \in FetchStates /\ \A g \in Fetchers \ {f} : fetch'[g] = fetch[g]
    BY <1>6, <1>a, <2>1 DEF FetchKeep, TypeOK, FetchStates
  <2>3. fetch' \in [Fetchers -> FetchStates]
    BY <1>6, <2>2 DEF FetchKeep, TypeOK
  <2>4. QED  BY <1>6, <2>3 DEF FetchKeep, TypeOK
<1>7. ASSUME NEW p \in Provs, FetchDelete(f, p)
      PROVE  TypeOK'
  <2> DEFINE r == <<fetch[f].key, p>>
  <2>1. fetch' \in [Fetchers -> FetchStates]
    BY <1>7, <1>a DEF FetchDelete, TypeOK, FetchStates
  <2>2. r \in Recs
    BY <1>a DEF FetchStates, Recs
  <2>3. CASE db' = [db EXCEPT ![r] = NoRec] /\ Wrote(r) /\ UNCHANGED faults
    <3>1. db' \in [Recs -> Values]
      BY <2>3, <1>a DEF TypeOK
    <3>2. QED  BY <1>7, <2>1, <2>2, <2>3, <3>1, WroteType DEF FetchDelete, TypeOK
  <2>4. CASE Fault /\ UNCHANGED db /\ UnchangedHistory
    BY <1>7, <2>1, <2>4, FaultType DEF FetchDelete, TypeOK
  <2>5. QED  BY <1>7, <2>3, <2>4 DEF FetchDelete
<1>8. ASSUME NEW p \in Provs, FetchEntryError(f, p)
      PROVE  TypeOK'
  <2>1. fetch' \in [Fetchers -> FetchStates]
    BY <1>8, <1>a DEF FetchEntryError, TypeOK, FetchStates
  <2>2. QED  BY <1>8, <2>1, FaultType DEF FetchEntryError, TypeOK
<1>9. CASE FetchNotFound(f)
  BY <1>9, <1>a DEF FetchNotFound, TypeOK, FetchStates
<1>10. CASE FetchFill(f)
  <2>1. fetch[f].key \in Keys /\ fetch[f].out \subseteq Provs
    BY <1>a DEF FetchStates
  <2>2. cache' \in [Keys -> SUBSET Provs]
    BY <1>10, <2>1 DEF FetchFill, CacheAdd, TypeOK, NoAnswer
  <2>3. older' \subseteq Keys \X Keys
    BY <1>10, <2>1, OlderType DEF FetchFill, CacheAdd
  <2>4. cclean' \in [Keys -> SUBSET Provs]
    BY <1>10 DEF FetchFill, TypeOK
  <2>5. fetch' \in [Fetchers -> FetchStates]
    BY <1>10, <1>a DEF FetchFill, TypeOK, FetchStates
  <2>6. QED  BY <1>10, <2>2, <2>3, <2>4, <2>5 DEF FetchFill, TypeOK
<1>11. CASE FetchReturn(f)
  BY <1>11, IdleTypes DEF FetchReturn, TypeOK
<1>12. QED
  BY <1>1, <1>2, <1>3, <1>4, <1>5, <1>6, <1>7, <1>8, <1>9, <1>10, <1>11
  DEF FetchStep

LEMMA GCType ==
  ASSUME TypeOK, GCStep
  PROVE  TypeOK'
<1> USE DEF UnchangedHistory
<1>a. gc \in GCStates /\ NoRec \in Values
  BY DEF TypeOK, Values
<1>1. CASE GCPurge
  <2>1. gc' \in GCStates
    BY <1>1, IdleTypes DEF GCPurge, GCStates
  <2>2. QED  BY <1>1, <2>1 DEF GCPurge, TypeOK, NoAnswer
<1>2. CASE GCQuery
  <2>1. [gc EXCEPT !.pc = "scan", !.snap = db] \in GCStates
    BY <1>a DEF GCStates, TypeOK
  <2>2. gc' \in GCStates
    BY <1>2, <2>1, IdleTypes DEF GCQuery
  <2>3. QED  BY <1>2, <2>2, FaultType DEF GCQuery, TypeOK
<1>3. CASE GCDelete
  <2>1. gc' \in GCStates
    BY <1>3, <1>a, AnyMembers DEF GCDelete, Deleting, GCStates
  <2>2. gc.rec \in Recs
    BY <1>a DEF GCStates
  <2>3. CASE db' = [db EXCEPT ![gc.rec] = NoRec] /\ Wrote(gc.rec) /\ UNCHANGED faults
    <3>1. db' \in [Recs -> Values]
      BY <2>3, <1>a DEF TypeOK
    <3>2. QED  BY <1>3, <2>1, <2>2, <2>3, <3>1, WroteType DEF GCDelete, TypeOK
  <2>4. CASE Fault /\ UNCHANGED db /\ UnchangedHistory
    BY <1>3, <2>1, <2>4, FaultType DEF GCDelete, TypeOK
  <2>5. QED  BY <1>3, <2>3, <2>4 DEF GCDelete
<1>4. CASE GCDone
  BY <1>4, IdleTypes DEF GCDone, TypeOK
<1>5. ASSUME NEW r \in Recs, GCErase(r)
      PROVE  TypeOK'
  <2>1. gc' \in GCStates
    BY <1>5, <1>a DEF GCErase, GCStates
  <2>2. QED  BY <1>5, <2>1 DEF GCErase, TypeOK
<1>6. ASSUME NEW r \in Recs, GCKeep(r)
      PROVE  TypeOK'
  <2>1. gc' \in GCStates
    BY <1>6, <1>a DEF GCKeep, GCStates
  <2>2. QED  BY <1>6, <2>1, FaultType DEF GCKeep, TypeOK
<1>7. ASSUME NEW r \in Recs, GCCondemn(r)
      PROVE  TypeOK'
  <2>1. gc' \in GCStates
    BY <1>7, <1>a DEF GCCondemn, GCStates
  <2>2. QED  BY <1>7, <2>1 DEF GCCondemn, TypeOK
<1>8. QED  BY <1>1, <1>2, <1>3, <1>4, <1>5, <1>6, <1>7 DEF GCStep

LEMMA NextType == TypeOK /\ [Next]_vars => TypeOK'
<1> SUFFICES ASSUME TypeOK, [Next]_vars
             PROVE  TypeOK'
  OBVIOUS
<1>1. CASE Tick
  <2>1. now' \in Times
    BY <1>1, ConstantsAssumption DEF Tick, TypeOK, Times
  <2>2. QED  BY <1>1, <2>1 DEF Tick, TypeOK, UnchangedHistory
<1>2. CASE Crash
  BY <1>2, IdleTypes, FaultType DEF Crash, TypeOK, NoAnswer
<1>3. CASE UNCHANGED vars
  BY <1>3 DEF TypeOK, vars
<1>4. QED  BY <1>1, <1>2, <1>3, StoreType, FetchType, GCType DEF Next

(* Every variable keeps its type in every behaviour.                       *)
THEOREM TypeCorrect == Spec => []TypeOK
  BY InitType, NextType, PTL DEF Spec

-----------------------------------------------------------------------------
(* The invariant, one fetcher and one key at a time.                       *)
FetchOk(f) ==
  /\ FetchInProgress(f)
  /\ fetch[f].pc = "return" /\ fetch[f].kind \in {"pointer", "notfound"} =>
       \A p \in fclean[f] :
         p \in fetch[f].out <=> ValidAt(db[<<fetch[f].key, p>>], fetch[f].at)

CacheOk(k) ==
  k \in Cached => \A p \in cclean[k] :
    /\ p \in cache[k] => db[<<k, p>>] \in Times
    /\ p \notin cache[k] => ~Live(<<k, p>>)

LEMMA RecordsInvParts ==
  RecordsInv <=> /\ TypeOK
                 /\ \A f \in Fetchers : FetchOk(f)
                 /\ \A k \in Keys : CacheOk(k)
                 /\ CondemnedIsGarbage
<1>1. CacheMatchesDatastore <=> \A k \in Keys : CacheOk(k)
  BY DEF CacheMatchesDatastore, CacheOk, Cached
<1>2. (\A f \in Fetchers : FetchOk(f)) <=>
      (\A f \in Fetchers : FetchInProgress(f)) /\ MissMatchesDatastore
  BY DEF FetchOk, MissMatchesDatastore
<1>3. QED  BY <1>1, <1>2 DEF RecordsInv

LEMMA RecordsInvPartsNext ==
  RecordsInv' <=> (/\ TypeOK
                   /\ \A f \in Fetchers : FetchOk(f)
                   /\ \A k \in Keys : CacheOk(k)
                   /\ CondemnedIsGarbage)'
  BY RecordsInvParts, PTL

LEMMA InitRecordsInv == Init => RecordsInv
<1> SUFFICES ASSUME Init
             PROVE  RecordsInv
  OBVIOUS
<1>1. ASSUME NEW f \in Fetchers
      PROVE  FetchOk(f)
  BY <1>1 DEF Init, IdleFetch, FetchOk, FetchInProgress
<1>2. ASSUME NEW k \in Keys
      PROVE  CacheOk(k)
  BY <1>2 DEF Init, CacheOk, Cached, NoAnswer
<1>3. CondemnedIsGarbage
  BY DEF Init, IdleGC, CondemnedIsGarbage, Deleting
<1>4. QED  BY <1>1, <1>2, <1>3, RecordsInvParts, InitType

(* What any step does to the part of the datastore the history variables   *)
(* call clean: nothing.                                                    *)
CleanUntouched ==
  /\ \A f \in Fetchers :
       /\ fclean'[f] \subseteq fclean[f]
       /\ \A p \in fclean'[f] : db'[<<fetch[f].key, p>>] = db[<<fetch[f].key, p>>]
  /\ \A k \in Keys :
       /\ cclean'[k] \subseteq cclean[k]
       /\ \A p \in cclean'[k] : db'[<<k, p>>] = db[<<k, p>>]

LEMMA WroteLeavesCleanUntouched ==
  ASSUME TypeOK, NEW r \in Recs, NEW v, db' = [db EXCEPT ![r] = v], Wrote(r)
  PROVE  CleanUntouched
<1>1. PICK k \in Keys, p \in Provs : r = <<k, p>>
  BY DEF Recs
<1>2. \A x \in Keys, q \in Provs : <<x, q>> # r => db'[<<x, q>>] = db[<<x, q>>]
  BY DEF TypeOK, Recs
<1>3. ASSUME NEW f \in Fetchers
      PROVE  /\ fclean'[f] \subseteq fclean[f]
             /\ \A q \in fclean'[f] :
                  db'[<<fetch[f].key, q>>] = db[<<fetch[f].key, q>>]
  <2>1. fetch[f].key \in Keys /\ fclean[f] \subseteq Provs
    BY DEF TypeOK, FetchStates
  <2>2. fclean'[f] = IF fetch[f].key = k THEN fclean[f] \ {p} ELSE fclean[f]
    BY <1>1 DEF Wrote
  <2>3. QED  BY <1>1, <1>2, <2>1, <2>2
<1>4. ASSUME NEW x \in Keys
      PROVE  /\ cclean'[x] \subseteq cclean[x]
             /\ \A q \in cclean'[x] : db'[<<x, q>>] = db[<<x, q>>]
  <2>1. cclean[x] \subseteq Provs
    BY DEF TypeOK
  <2>2. cclean'[x] = IF x = k THEN cclean[x] \ {p} ELSE cclean[x]
    BY <1>1 DEF Wrote, TypeOK
  <2>3. QED  BY <1>1, <1>2, <2>1, <2>2
<1>5. QED  BY <1>3, <1>4 DEF CleanUntouched

LEMMA UnchangedLeavesCleanUntouched ==
  ASSUME UNCHANGED <<db, fclean, cclean>>
  PROVE  CleanUntouched
  BY DEF CleanUntouched

(* A fetcher that a step leaves alone stays as the invariant wants it.     *)
LEMMA FetchFrame ==
  ASSUME RecordsInv, TypeOK', NEW f \in Fetchers,
         fetch'[f] = fetch[f], now <= now',
         fclean'[f] \subseteq fclean[f],
         \A p \in fclean'[f] : db'[<<fetch[f].key, p>>] = db[<<fetch[f].key, p>>]
  PROVE  FetchOk(f)'
<1>1. FetchOk(f)
  BY RecordsInvParts
<1>2. fetch[f].at \in Int /\ now \in Int /\ now' \in Int
  BY DEF RecordsInv, TypeOK, FetchStates, Times
<1>3. FetchInProgress(f)'
  BY <1>1, <1>2 DEF FetchOk, FetchInProgress, ValidAt
<1>4. QED  BY <1>1, <1>3 DEF FetchOk, ValidAt

(* Time does not make a record valid.                                      *)
LEMMA InvalidStaysInvalid ==
  ASSUME NEW v, NEW t \in Int, NEW u \in Int, t <= u, ValidAt(v, u)
  PROVE  ValidAt(v, t)
<1>1. v \in Int
  BY DEF ValidAt, Times
<1>2. QED  BY <1>1, ConstantsAssumption DEF ValidAt

(* So does a cached answer, and also when it leaves the cache.             *)
LEMMA CacheFrame ==
  ASSUME RecordsInv, TypeOK', NEW k \in Keys,
         cache'[k] \in {cache[k], NoAnswer}, now <= now',
         cclean'[k] \subseteq cclean[k],
         \A p \in cclean'[k] : db'[<<k, p>>] = db[<<k, p>>]
  PROVE  CacheOk(k)'
<1>1. CacheOk(k)
  BY RecordsInvParts
<1>2. now \in Int /\ now' \in Int /\ ProvideValidity \in Int /\ Times \subseteq Int
  BY ConstantsAssumption DEF RecordsInv, TypeOK, Times
<1>3. SUFFICES ASSUME cache'[k] # NoAnswer, NEW p \in cclean'[k]
               PROVE  /\ p \in cache'[k] => db'[<<k, p>>] \in Times
                      /\ p \notin cache'[k] => ~Live(<<k, p>>)'
  BY DEF CacheOk, Cached
<1>4. cache'[k] = cache[k] /\ k \in Cached /\ p \in cclean[k]
  BY <1>3 DEF Cached
<1>5. db'[<<k, p>>] = db[<<k, p>>]
  BY <1>3
<1>6. /\ p \in cache[k] => db[<<k, p>>] \in Times
      /\ p \notin cache[k] => ~ValidAt(db[<<k, p>>], now)
  BY <1>1, <1>4 DEF CacheOk, Live
<1>7. ~ValidAt(db[<<k, p>>], now) => ~ValidAt(db[<<k, p>>], now')
  BY <1>2, InvalidStaysInvalid
<1>8. QED  BY <1>4, <1>5, <1>6, <1>7 DEF Live, ValidAt

(* A step that changes no fetcher, fills no cache entry and does not move  *)
(* garbage collection keeps the invariant.                                 *)
LEMMA StepFrame ==
  ASSUME RecordsInv, TypeOK', CleanUntouched, now <= now',
         UNCHANGED fetch,
         \A k \in Keys : cache'[k] \in {cache[k], NoAnswer},
         CondemnedIsGarbage'
  PROVE  RecordsInv'
<1>1. ASSUME NEW f \in Fetchers
      PROVE  FetchOk(f)'
  BY FetchFrame DEF CleanUntouched
<1>2. ASSUME NEW k \in Keys
      PROVE  CacheOk(k)'
  BY CacheFrame DEF CleanUntouched
<1>3. (/\ TypeOK
       /\ \A f \in Fetchers : FetchOk(f)
       /\ \A k \in Keys : CacheOk(k)
       /\ CondemnedIsGarbage)'
  BY <1>1, <1>2
<1>4. QED  BY <1>3, RecordsInvPartsNext

(* A step of one fetcher that fills no cache entry.                        *)
LEMMA FetchStepFrame ==
  ASSUME RecordsInv, TypeOK', UNCHANGED <<now, gc, cache>>,
         NEW f \in Fetchers, FetchOk(f)',
         \A g \in Fetchers \ {f} : fetch'[g] = fetch[g],
         \/ CleanUntouched
         \/ /\ UNCHANGED <<db, cclean>>
            /\ \A g \in Fetchers \ {f} : fclean'[g] = fclean[g]
  PROVE  RecordsInv'
<1>1. now <= now'
  BY DEF RecordsInv, TypeOK, Times
<1>2. ASSUME NEW g \in Fetchers
      PROVE  FetchOk(g)'
  BY <1>1, FetchFrame DEF CleanUntouched
<1>3. ASSUME NEW k \in Keys
      PROVE  CacheOk(k)'
  BY <1>1, CacheFrame DEF CleanUntouched
<1>4. CondemnedIsGarbage'
  BY DEF RecordsInv, CondemnedIsGarbage, Deleting, ValidAt
<1>5. QED  BY <1>2, <1>3, <1>4, RecordsInvPartsNext

LEMMA CondemnedFrame ==
  ASSUME RecordsInv, UNCHANGED <<now, gc>>
  PROVE  CondemnedIsGarbage'
  BY DEF RecordsInv, CondemnedIsGarbage, Deleting, ValidAt

LEMMA StoreKeepsRecordsInv ==
  ASSUME RecordsInv, TypeOK', NEW s \in Stores, StoreStep(s)
  PROVE  RecordsInv'
<1>a. UNCHANGED <<now, gc, fetch>>
  BY DEF StoreStep, StoreBegin, StoreMark, StorePut, StorePutError, StoreUncache,
         StoreUnmark
<1>b. now <= now' /\ CondemnedIsGarbage'
  BY <1>a, CondemnedFrame DEF RecordsInv, TypeOK, Times
<1>1. CASE StorePut(s)
  <2>1. store[s].rec \in Recs
    BY DEF RecordsInv, TypeOK, StoreStates
  <2>2. CleanUntouched
    BY <1>1, <2>1, WroteLeavesCleanUntouched DEF StorePut, RecordsInv
  <2>3. QED  BY <1>1, <1>a, <1>b, <2>2, StepFrame DEF StorePut
<1>2. CASE StoreUncache(s)
  <2>1. CleanUntouched
    BY <1>2 DEF StoreUncache, CleanUntouched, RecordsInv, TypeOK
  <2>2. \A k \in Keys : cache'[k] \in {cache[k], NoAnswer}
    BY <1>2 DEF StoreUncache, CacheRemove, RecordsInv, TypeOK
  <2>3. QED  BY <1>a, <1>b, <2>1, <2>2, StepFrame
<1>3. CASE ~StorePut(s) /\ ~StoreUncache(s)
  <2>1. UNCHANGED <<db, cache, fclean, cclean>>
    BY <1>3 DEF StoreStep, StoreBegin, StoreMark, StorePutError, StoreUnmark,
                UnchangedHistory
  <2>2. QED
    BY <1>a, <1>b, <2>1, UnchangedLeavesCleanUntouched, StepFrame
<1>4. QED  BY <1>1, <1>2, <1>3

LEMMA GCKeepsRecordsInv ==
  ASSUME RecordsInv, TypeOK', GCStep
  PROVE  RecordsInv'
<1>a. UNCHANGED <<now, fetch>>
  BY DEF GCStep, GCPurge, GCQuery, GCDelete, GCDone, GCErase, GCKeep, GCCondemn
<1>b. now <= now' /\ gc \in GCStates
  BY <1>a DEF RecordsInv, TypeOK, Times
<1>1. CASE GCPurge
  <2>1. CleanUntouched
    BY <1>1 DEF GCPurge, CleanUntouched, RecordsInv, TypeOK
  <2>2. CondemnedIsGarbage'
    BY <1>1 DEF GCPurge, IdleGC, CondemnedIsGarbage, Deleting
  <2>3. \A k \in Keys : cache'[k] \in {cache[k], NoAnswer}
    BY <1>1 DEF GCPurge
  <2>4. QED  BY <1>a, <1>b, <2>1, <2>2, <2>3, StepFrame
<1>2. CASE GCDelete
  <2>1. gc.rec \in Recs
    BY <1>b DEF GCStates
  <2>2. CleanUntouched
    BY <1>2, <2>1, WroteLeavesCleanUntouched, UnchangedLeavesCleanUntouched
    DEF GCDelete, UnchangedHistory, RecordsInv
  <2>3. CASE gc' = [gc EXCEPT !.pc = "again"]
    <3>1. Deleting /\ gc'.rec = gc.rec /\ gc'.snap = gc.snap
      BY <1>2, <2>3, <1>b DEF GCDelete, GCStates
    <3>2. CondemnedIsGarbage'
      BY <3>1, <1>a DEF RecordsInv, CondemnedIsGarbage, ValidAt
    <3>3. QED  BY <1>2, <1>a, <1>b, <2>2, <3>2, StepFrame DEF GCDelete
  <2>4. CASE gc'.pc = "scan"
    <3>1. CondemnedIsGarbage'
      BY <2>4 DEF CondemnedIsGarbage, Deleting
    <3>2. QED  BY <1>2, <1>a, <1>b, <2>2, <3>1, StepFrame DEF GCDelete
  <2>5. QED  BY <1>2, <1>b, <2>3, <2>4 DEF GCDelete, GCStates
<1>3. ASSUME NEW r \in Recs, GCCondemn(r)
      PROVE  RecordsInv'
  <2>1. CleanUntouched /\ UNCHANGED cache
    BY <1>3, UnchangedLeavesCleanUntouched DEF GCCondemn, UnchangedHistory
  <2>2. CondemnedIsGarbage'
    BY <1>3, <1>b DEF GCCondemn, CondemnedIsGarbage, Deleting, GCStates, ValidAt
  <2>3. QED  BY <1>a, <1>b, <2>1, <2>2, StepFrame
<1>4. CASE GCQuery \/ GCDone \/ \E r \in Recs : GCErase(r) \/ GCKeep(r)
  <2>1. UNCHANGED <<db, cache, fclean, cclean>>
    BY <1>4 DEF GCQuery, GCDone, GCErase, GCKeep, UnchangedHistory
  <2>2. gc'.pc \notin {"delete", "again"}
    <3>1. CASE GCQuery
      <4>1. [gc EXCEPT !.pc = "scan", !.snap = db].pc = "scan"
        BY <1>b DEF GCStates
      <4>2. IdleGC.pc = "idle"
        BY DEF IdleGC
      <4>3. QED  BY <3>1, <4>1, <4>2 DEF GCQuery
    <3>2. CASE GCDone
      BY <3>2 DEF GCDone, IdleGC
    <3>3. ASSUME NEW r \in Recs, GCErase(r) \/ GCKeep(r)
          PROVE  gc'.pc \notin {"delete", "again"}
      BY <3>3, <1>b DEF GCErase, GCKeep, GCStates
    <3>4. QED  BY <1>4, <3>1, <3>2, <3>3
  <2>3. CleanUntouched /\ CondemnedIsGarbage'
    BY <2>1, <2>2, UnchangedLeavesCleanUntouched DEF CondemnedIsGarbage, Deleting
  <2>4. QED  BY <1>a, <1>b, <2>1, <2>3, StepFrame
<1>5. QED  BY <1>1, <1>2, <1>3, <1>4 DEF GCStep

LEMMA ClockKeepsRecordsInv ==
  ASSUME RecordsInv, TypeOK', Tick
  PROVE  RecordsInv'
<1>1. now <= now' /\ UNCHANGED <<db, cache, fetch, gc, fclean, cclean>>
  BY DEF Tick, UnchangedHistory, RecordsInv, TypeOK, Times
<1>2. CondemnedIsGarbage'
  <2>1. ASSUME NEW v \in Values, ~ValidAt(v, now)
        PROVE  ~ValidAt(v, now')
    BY <1>1, <2>1, ConstantsAssumption DEF ValidAt, RecordsInv, TypeOK, Times
  <2>2. gc.snap[gc.rec] \in Values
    BY DEF RecordsInv, TypeOK, GCStates
  <2>3. QED  BY <1>1, <2>1, <2>2 DEF RecordsInv, CondemnedIsGarbage, Deleting, ValidAt
<1>3. QED  BY <1>1, <1>2, UnchangedLeavesCleanUntouched, StepFrame

LEMMA CrashKeepsRecordsInv ==
  ASSUME RecordsInv, TypeOK', Crash
  PROVE  RecordsInv'
<1>1. ASSUME NEW f \in Fetchers
      PROVE  FetchOk(f)'
  BY ConstantsAssumption
  DEF Crash, FetchOk, FetchInProgress, IdleFetch, RecordsInv, TypeOK, Times
<1>2. ASSUME NEW k \in Keys
      PROVE  CacheOk(k)'
  BY DEF Crash, CacheOk, Cached, NoAnswer
<1>3. CondemnedIsGarbage'
  BY DEF Crash, IdleGC, CondemnedIsGarbage, Deleting
<1>4. QED  BY <1>1, <1>2, <1>3, RecordsInvPartsNext

LEMMA FillKeepsRecordsInv ==
  ASSUME RecordsInv, TypeOK', NEW f \in Fetchers, FetchFill(f)
  PROVE  RecordsInv'
<1> DEFINE F == fetch[f]
           k == F.key
<1>1. F \in FetchStates /\ FetchOk(f) /\ now <= now'
  BY RecordsInvParts DEF RecordsInv, TypeOK, Times, FetchFill
<1>2. \A p \in fclean[f] : p \in F.out <=> ValidAt(db[<<k, p>>], F.at)
  BY <1>1 DEF FetchFill, FetchScanned, FetchOk, FetchInProgress, RecordsInv, TypeOK
<1>3. F.at <= now /\ F.at \in Times /\ k \in Keys
  BY <1>1 DEF FetchOk, FetchInProgress, FetchStates
<1>4. ASSUME NEW g \in Fetchers
      PROVE  FetchOk(g)'
  <2>1. CASE g = f
    <3>1. fetch'[f] = [F EXCEPT !.pc = "return", !.kind = "pointer"]
      BY DEF FetchFill, RecordsInv, TypeOK
    <3>2. UNCHANGED <<now, db, fclean>>
      BY DEF FetchFill
    <3>3. QED
      BY <1>1, <1>2, <1>3, <2>1, <3>1, <3>2
      DEF FetchOk, FetchInProgress, FetchStates, ValidAt
  <2>2. CASE g # f
    BY <1>1, <2>2, FetchFrame DEF FetchFill, RecordsInv, TypeOK
  <2>3. QED  BY <2>1, <2>2
<1>5. ASSUME NEW x \in Keys
      PROVE  CacheOk(x)'
  <2>1. CASE x = k
    <3>1. cache'[k] = F.out /\ cclean'[k] = fclean[f] /\ UNCHANGED <<now, db>>
      BY <1>3 DEF FetchFill, CacheAdd
    <3>2. ASSUME NEW v, ~ValidAt(v, F.at)
          PROVE  ~ValidAt(v, now)
      BY <1>3, <3>2, ConstantsAssumption DEF ValidAt, RecordsInv, TypeOK, Times
    <3>3. QED  BY <1>2, <2>1, <3>1, <3>2 DEF CacheOk, Live, ValidAt
  <2>2. CASE x # k
    <3>1. cache'[x] \in {cache[x], NoAnswer} /\ UNCHANGED db
      BY <2>2 DEF FetchFill, CacheAdd
    <3>2. cclean'[x] \subseteq cclean[x]
      BY <2>2 DEF FetchFill
    <3>3. QED  BY <1>1, <3>1, <3>2, CacheFrame
  <2>3. QED  BY <2>1, <2>2
<1>6. CondemnedIsGarbage'
  BY CondemnedFrame DEF FetchFill
<1>7. QED  BY <1>4, <1>5, <1>6, RecordsInvPartsNext

LEMMA FetchKeepsRecordsInv ==
  ASSUME RecordsInv, TypeOK', NEW f \in Fetchers, FetchStep(f)
  PROVE  RecordsInv'
<1> DEFINE F == fetch[f]
<1>a. F \in FetchStates /\ FetchOk(f) /\ fetch \in [Fetchers -> FetchStates]
  BY RecordsInvParts DEF RecordsInv, TypeOK
<1>b. F.at \in Int /\ now \in Int /\ 0 <= now
  BY <1>a DEF FetchStates, RecordsInv, TypeOK, Times
<1>c. fclean \in [Fetchers -> SUBSET Provs]
  BY DEF RecordsInv, TypeOK
<1>1. ASSUME NEW k \in Keys, FetchHit(f, k) \/ FetchMiss(f, k)
      PROVE  RecordsInv'
  <2>1. fetch'[f].at = 0 /\ fetch'[f].pc \in {"return", "query"}
        /\ fetch'[f].kind \in {"value", "none"}
        /\ (fetch'[f].pc = "query" => fetch'[f].out = {})
    <3>1. CASE FetchHit(f, k)
      BY <3>1, <1>a DEF FetchHit, IdleFetch
    <3>2. CASE FetchMiss(f, k)
      BY <3>2, <1>a DEF FetchMiss, IdleFetch
    <3>3. QED  BY <1>1, <3>1, <3>2
  <2>2. UNCHANGED <<now, db>>
    BY <1>1 DEF FetchHit, FetchMiss
  <2>3. FetchOk(f)'
    BY <1>b, <2>1, <2>2 DEF FetchOk, FetchInProgress
  <2>4. /\ UNCHANGED <<cache, gc, cclean>>
        /\ \A g \in Fetchers \ {f} : fetch'[g] = fetch[g] /\ fclean'[g] = fclean[g]
    BY <1>1, <1>a, <1>c DEF FetchHit, FetchMiss, UnchangedHistory
  <2>5. QED  BY <2>2, <2>3, <2>4, FetchStepFrame
<1>2. CASE FetchQuery(f)
  <2>1. /\ fetch'[f] = [F EXCEPT !.pc = "time",
                                 !.snap = [p \in Provs |-> db[<<F.key, p>>]]]
        /\ fclean'[f] = Provs
    BY <1>2, <1>a, <1>c DEF FetchQuery
  <2>2. UNCHANGED <<now, db>>
    BY <1>2 DEF FetchQuery
  <2>3. FetchOk(f)'
    BY <1>2, <1>a, <2>1, <2>2 DEF FetchQuery, FetchOk, FetchInProgress, FetchStates
  <2>4. /\ UNCHANGED <<cache, gc, cclean>>
        /\ \A g \in Fetchers \ {f} : fetch'[g] = fetch[g] /\ fclean'[g] = fclean[g]
    BY <1>2, <1>a, <1>c DEF FetchQuery
  <2>5. QED  BY <2>2, <2>3, <2>4, FetchStepFrame
<1>3. CASE FetchQueryError(f) \/ FetchTime(f) \/ FetchNotFound(f) \/ FetchReturn(f)
  <2>1. /\ UNCHANGED <<now, db, cache, gc, cclean>>
        /\ \A g \in Fetchers \ {f} : fetch'[g] = fetch[g] /\ fclean'[g] = fclean[g]
    BY <1>3, <1>a, <1>c
    DEF FetchQueryError, FetchTime, FetchNotFound, FetchReturn, UnchangedHistory
  <2>2. CASE FetchQueryError(f)
    <3>1. fetch'[f] = [F EXCEPT !.pc = "return", !.kind = "error"]
      BY <2>2, <1>a DEF FetchQueryError
    <3>2. FetchOk(f)'
      BY <1>a, <2>1, <3>1 DEF FetchOk, FetchInProgress, FetchStates
    <3>3. QED  BY <2>1, <3>2, FetchStepFrame
  <2>3. CASE FetchTime(f)
    <3>1. fetch'[f] = [F EXCEPT !.pc = "scan", !.at = now] /\ F.pc = "time"
          /\ UNCHANGED fclean
      BY <2>3, <1>a DEF FetchTime, UnchangedHistory
    <3>2. ~ValidAt(NoRec, now)
      BY DEF ValidAt, NoRec, Times
    <3>3. F.out = {} /\ \A p \in fclean[f] : F.snap[p] = db[<<F.key, p>>]
      BY <1>a, <3>1 DEF FetchOk, FetchInProgress
    <3>4. FetchOk(f)'
      BY <1>a, <1>b, <2>1, <3>1, <3>2, <3>3
      DEF FetchOk, FetchInProgress, FetchStates, ValidAt
    <3>5. QED  BY <2>1, <3>4, FetchStepFrame
  <2>4. CASE FetchNotFound(f)
    <3>1. fetch'[f] = [F EXCEPT !.pc = "return", !.kind = "notfound"]
          /\ F.pc = "scan" /\ UNCHANGED fclean
      BY <2>4, <1>a DEF FetchNotFound, UnchangedHistory
    <3>2. \A p \in fclean[f] : p \in F.out <=> ValidAt(db[<<F.key, p>>], F.at)
      BY <1>a, <1>c, <2>4, <3>1
      DEF FetchNotFound, FetchScanned, FetchOk, FetchInProgress
    <3>3. FetchOk(f)'
      BY <1>a, <2>1, <3>1, <3>2 DEF FetchOk, FetchInProgress, FetchStates, ValidAt
    <3>4. QED  BY <2>1, <3>3, FetchStepFrame
  <2>5. CASE FetchReturn(f)
    <3>1. fetch'[f] = IdleFetch
      BY <2>5, <1>a DEF FetchReturn
    <3>2. FetchOk(f)'
      BY <1>b, <2>1, <3>1 DEF FetchOk, FetchInProgress, IdleFetch
    <3>3. QED  BY <2>1, <3>2, FetchStepFrame
  <2>6. QED  BY <1>3, <2>2, <2>3, <2>4, <2>5
<1>4. ASSUME NEW p \in Provs, FetchKeep(f, p)
      PROVE  RecordsInv'
  <2>1. /\ fetch'[f] = [F EXCEPT !.snap[p] = NoRec, !.out = @ \cup {p}]
        /\ F.pc = "scan" /\ F.snap[p] # NoRec /\ ValidAt(F.snap[p], F.at)
    BY <1>4, <1>a DEF FetchKeep
  <2>2. /\ UNCHANGED <<now, db, cache, gc, fclean, cclean>>
        /\ \A g \in Fetchers \ {f} : fetch'[g] = fetch[g]
    BY <1>4, <1>a DEF FetchKeep, UnchangedHistory
  <2>3. FetchOk(f)'
    BY <1>a, <1>c, <2>1, <2>2 DEF FetchOk, FetchInProgress, FetchStates, ValidAt
  <2>4. QED  BY <2>2, <2>3, FetchStepFrame
<1>5. ASSUME NEW p \in Provs, FetchDelete(f, p)
      PROVE  RecordsInv'
  <2> DEFINE r == <<F.key, p>>
  <2>1. /\ fetch'[f] = [F EXCEPT !.snap[p] = NoRec]
        /\ F.pc = "scan" /\ F.snap[p] # NoRec /\ ~ValidAt(F.snap[p], F.at)
    BY <1>5, <1>a DEF FetchDelete
  <2>2. /\ UNCHANGED <<now, cache, gc>>
        /\ \A g \in Fetchers \ {f} : fetch'[g] = fetch[g]
    BY <1>5, <1>a DEF FetchDelete
  <2>3. r \in Recs
    BY <1>a DEF FetchStates, Recs
  <2>4. CleanUntouched
    BY <1>5, <2>3, WroteLeavesCleanUntouched, UnchangedLeavesCleanUntouched
    DEF FetchDelete, UnchangedHistory, RecordsInv
  <2>5. /\ fclean'[f] \subseteq fclean[f]
        /\ \A q \in fclean'[f] : db'[<<F.key, q>>] = db[<<F.key, q>>]
    BY <2>4 DEF CleanUntouched
  <2>6. FetchOk(f)'
    BY <1>a, <1>c, <2>1, <2>2, <2>5
    DEF FetchOk, FetchInProgress, FetchStates, ValidAt
  <2>7. QED  BY <2>2, <2>4, <2>6, FetchStepFrame
<1>6. ASSUME NEW p \in Provs, FetchEntryError(f, p)
      PROVE  RecordsInv'
  <2>1. /\ fetch'[f] = [F EXCEPT !.snap[p] = NoRec] /\ F.pc = "scan"
        /\ fclean'[f] = fclean[f] \ {p}
    BY <1>6, <1>a, <1>c DEF FetchEntryError
  <2>2. /\ UNCHANGED <<now, db, cache, gc, cclean>>
        /\ \A g \in Fetchers \ {f} : fetch'[g] = fetch[g] /\ fclean'[g] = fclean[g]
    BY <1>6, <1>a, <1>c DEF FetchEntryError
  <2>3. FetchOk(f)'
    BY <1>a, <1>c, <2>1, <2>2 DEF FetchOk, FetchInProgress, FetchStates, ValidAt
  <2>4. QED  BY <2>2, <2>3, FetchStepFrame
<1>7. QED
  BY <1>1, <1>2, <1>3, <1>4, <1>5, <1>6, FillKeepsRecordsInv DEF FetchStep

LEMMA NextRecordsInv == RecordsInv /\ [Next]_vars => RecordsInv'
<1> SUFFICES ASSUME RecordsInv, [Next]_vars
             PROVE  RecordsInv'
  OBVIOUS
<1>1. TypeOK'
  BY NextType DEF RecordsInv
<1>2. CASE UNCHANGED vars
  <2>1. UNCHANGED <<now, db, cache, fetch, gc, fclean, cclean>>
    BY <1>2 DEF vars
  <2>2. now <= now' /\ CondemnedIsGarbage'
    BY <2>1, CondemnedFrame DEF RecordsInv, TypeOK, Times
  <2>3. QED  BY <1>1, <2>1, <2>2, UnchangedLeavesCleanUntouched, StepFrame
<1>3. QED
  BY <1>1, <1>2, StoreKeepsRecordsInv, FetchKeepsRecordsInv, GCKeepsRecordsInv, ClockKeepsRecordsInv,
     CrashKeepsRecordsInv
  DEF Next

-----------------------------------------------------------------------------
(* The cache at its limit.                                                 *)

CacheInv == CacheWithinSize /\ RecencyIsAnOrder

(* The keys that were used before v.                                       *)
UsedBefore(v) == {x \in Cached : <<x, v>> \in older}

(* Unless the cache is empty there is a least recently used key.           *)
LEMMA LeastRecentlyUsed ==
  ASSUME CacheInv, Cached # {}
  PROVE  \E v \in Cached : \A x \in Cached : <<x, v>> \notin older
<1> DEFINE T == {UsedBefore(v) : v \in Cached}
<1>1. IsFiniteSet(Cached) /\ T \in SUBSET SUBSET Cached /\ T # {}
  BY DEF CacheInv, CacheWithinSize, UsedBefore
<1>2. SUBSET Cached = FiniteSubsetsOf(Cached)
      /\ IsWellFoundedOn(StrictSubsetOrdering(Cached), FiniteSubsetsOf(Cached))
  BY <1>1, FS_FiniteSubsetsOfFinite, FS_StrictSubsetOrderingWellFounded
<1>3. \E U \in T : \A V \in T : <<V, U>> \notin StrictSubsetOrdering(Cached)
  <2> HIDE DEF T
  <2>1. QED  BY <1>1, <1>2, WFMin
<1>4. PICK v \in Cached :
        \A x \in Cached :
          <<UsedBefore(x), UsedBefore(v)>> \notin StrictSubsetOrdering(Cached)
  BY <1>3
<1>5. ASSUME NEW x \in Cached, <<x, v>> \in older PROVE FALSE
  <2>1. UsedBefore(x) \subseteq UsedBefore(v) /\ x \in UsedBefore(v) /\ x \notin UsedBefore(x)
    BY <1>5 DEF CacheInv, RecencyIsAnOrder, UsedBefore
  <2>2. UsedBefore(x) \in SUBSET Cached /\ UsedBefore(v) \in SUBSET Cached
        /\ UsedBefore(x) # UsedBefore(v)
    BY <2>1 DEF UsedBefore
  <2>3. <<UsedBefore(x), UsedBefore(v)>> \in StrictSubsetOrdering(Cached)
    BY <2>1, <2>2 DEF StrictSubsetOrdering
  <2>4. QED  BY <1>4, <2>3
<1>6. QED  BY <1>5

(* Recency stays an order of what is left when keys leave the cache, and   *)
(* of what is there when a key becomes the most recently used one.         *)
OrderOf(rel, S) ==
  /\ rel \subseteq S \X S
  /\ \A a \in S : <<a, a>> \notin rel
  /\ \A a, b \in S : a # b => <<a, b>> \in rel \/ <<b, a>> \in rel
  /\ \A a, b, c \in S : <<a, b>> \in rel /\ <<b, c>> \in rel => <<a, c>> \in rel

LEMMA OrderOfCached == RecencyIsAnOrder <=> OrderOf(older, Cached)
  BY DEF RecencyIsAnOrder, OrderOf

LEMMA OrderOfCachedNext == RecencyIsAnOrder' <=> OrderOf(older', Cached')
  BY DEF RecencyIsAnOrder, OrderOf

LEMMA OrderOfRest ==
  ASSUME NEW S, NEW rel, OrderOf(rel, S), NEW T \in SUBSET S, NEW rel1,
         \A a, b \in S : <<a, b>> \in rel1 <=> <<a, b>> \in rel /\ a \in T /\ b \in T,
         rel1 \subseteq rel
  PROVE  OrderOf(rel1, T)
<1>1. rel1 \subseteq T \X T
  BY DEF OrderOf
<1>2. QED  BY <1>1 DEF OrderOf

LEMMA OrderOfTouched ==
  ASSUME RecencyIsAnOrder, NEW k
  PROVE  OrderOf(Touch(k), Cached \cup {k})
<1> DEFINE new == Touch(k)
<1>1. OrderOf(older, Cached)
  BY OrderOfCached
<1>2. \A a, b : <<a, b>> \in new <=>
        \/ <<a, b>> \in older /\ a # k /\ b # k
        \/ a \in Cached \ {k} /\ b = k
  BY DEF Touch, Forget
<1>3. new \subseteq (Cached \cup {k}) \X (Cached \cup {k})
  BY <1>1 DEF OrderOf, Touch, Forget
<1>4. \A a, b \in Cached \cup {k} : a # b => <<a, b>> \in new \/ <<b, a>> \in new
  BY <1>1, <1>2 DEF OrderOf
<1>5. \A a, b, c \in Cached \cup {k} :
        <<a, b>> \in new /\ <<b, c>> \in new => <<a, c>> \in new
  BY <1>1, <1>2 DEF OrderOf
<1>6. \A a \in Cached \cup {k} : <<a, a>> \notin new
  BY <1>1, <1>2 DEF OrderOf
<1>7. QED  BY <1>3, <1>4, <1>5, <1>6 DEF OrderOf

(* cache.Get                                                               *)
LEMMA HitKeepsCacheInv ==
  ASSUME CacheInv, NEW k \in Cached, cache' = cache, older' = Touch(k)
  PROVE  CacheInv'
<1>1. Cached' = Cached /\ Cached \cup {k} = Cached
  BY DEF Cached
<1>2. OrderOf(older', Cached')
  BY <1>1, OrderOfTouched DEF CacheInv
<1>3. QED  BY <1>1, <1>2, OrderOfCachedNext DEF CacheInv, CacheWithinSize

(* cache.Remove                                                            *)
LEMMA RemoveKeepsCacheInv ==
  ASSUME CacheInv, TypeOK, NEW k \in Keys, CacheRemove(k)
  PROVE  CacheInv'
<1>1. Cached' = Cached \ {k}
  BY DEF CacheRemove, Cached, TypeOK
<1>2. \A a, b : <<a, b>> \in older' <=> <<a, b>> \in older /\ a # k /\ b # k
  BY DEF CacheRemove, Forget
<1>3. older' \subseteq older
  BY DEF CacheRemove, Forget
<1>4. OrderOf(older', Cached')
  BY <1>1, <1>2, <1>3, OrderOfCached, OrderOfRest DEF CacheInv
<1>5. CacheWithinSize'
  BY <1>1, FS_Subset, FS_CardinalityType, ConstantsAssumption
  DEF CacheInv, CacheWithinSize
<1>6. QED  BY <1>4, <1>5, OrderOfCachedNext DEF CacheInv

(* cache.Add: whoever comes in over the limit, somebody leaves.            *)
LEMMA AddKeepsCacheInv ==
  ASSUME CacheInv, TypeOK, NEW k \in Keys, NEW answer, answer # NoAnswer, CacheAdd(k, answer)
  PROVE  CacheInv'
<1> DEFINE out == Victims(k)
           all == Cached \cup {k}
<1>1. k \notin out /\ out \subseteq Cached
  BY DEF Victims
<1>2. Cached' = all \ out
  BY <1>1 DEF CacheAdd, Cached, TypeOK
<1>3. OrderOf(older', Cached')
  <2>1. OrderOf(Touch(k), all)
    BY OrderOfTouched DEF CacheInv
  <2>2. \A a, b : <<a, b>> \in older' <=> <<a, b>> \in Touch(k) /\ a \notin out /\ b \notin out
    BY DEF CacheAdd
  <2>3. older' \subseteq Touch(k)
    BY DEF CacheAdd
  <2>4. \A a, b \in all :
          <<a, b>> \in older' <=> <<a, b>> \in Touch(k) /\ a \in Cached' /\ b \in Cached'
    BY <1>2, <2>2
  <2>5. QED  BY <1>2, <2>1, <2>3, <2>4, OrderOfRest
<1>4. IsFiniteSet(Cached) /\ Cardinality(Cached) \in Nat /\ Cardinality(Cached) <= CacheSize
      /\ CacheSize \in Nat \ {0}
  BY FS_CardinalityType, ConstantsAssumption DEF CacheInv, CacheWithinSize
<1>5. CacheWithinSize'
  <2>1. CASE k \in Cached
    <3>1. Cached' = Cached
      BY <1>2, <2>1 DEF Victims
    <3>2. QED  BY <1>4, <3>1 DEF CacheWithinSize
  <2>2. CASE k \notin Cached /\ Cardinality(Cached) < CacheSize
    <3>1. Cached' = Cached \cup {k}
      BY <1>2, <2>2 DEF Victims
    <3>2. IsFiniteSet(Cached') /\ Cardinality(Cached') = Cardinality(Cached) + 1
      BY <1>4, <2>2, <3>1, FS_AddElement
    <3>3. QED  BY <1>4, <2>2, <3>2 DEF CacheWithinSize
  <2>3. CASE k \notin Cached /\ ~(Cardinality(Cached) < CacheSize)
    <3>1. Cached # {}
      BY <1>4, <2>3, FS_EmptySet
    <3>2. PICK v \in Cached : \A x \in Cached : <<x, v>> \notin older
      BY <3>1, LeastRecentlyUsed
    <3>3. v \in out
      BY <2>3, <3>2 DEF Victims
    <3>4. Cached' \subseteq (Cached \ {v}) \cup {k} /\ k \notin Cached \ {v}
      BY <1>2, <2>3, <3>3
    <3>5. IsFiniteSet(Cached \ {v}) /\ Cardinality(Cached \ {v}) = Cardinality(Cached) - 1
      BY <1>4, FS_RemoveElement
    <3>6. /\ IsFiniteSet((Cached \ {v}) \cup {k})
          /\ Cardinality((Cached \ {v}) \cup {k}) = Cardinality(Cached \ {v}) + 1
      BY <3>4, <3>5, FS_AddElement
    <3>7. IsFiniteSet(Cached') /\ Cardinality(Cached') <= Cardinality(Cached)
          /\ Cardinality(Cached') \in Nat
      BY <1>4, <3>4, <3>5, <3>6, FS_Subset, FS_CardinalityType
    <3>8. QED  BY <1>4, <3>7 DEF CacheWithinSize
  <2>4. QED  BY <2>1, <2>2, <2>3
<1>6. QED  BY <1>3, <1>5, OrderOfCachedNext DEF CacheInv

LEMMA EmptyCacheInv ==
  ASSUME cache' = [k \in Keys |-> NoAnswer], older' = {}
  PROVE  CacheInv'
<1>1. Cached' = {}
  BY DEF Cached
<1>2. QED
  BY <1>1, FS_EmptySet, ConstantsAssumption DEF CacheInv, CacheWithinSize, RecencyIsAnOrder

LEMMA InitCacheInv == Init => CacheInv
<1> SUFFICES ASSUME Init PROVE CacheInv
  OBVIOUS
<1>1. Cached = {} /\ older = {}
  BY DEF Init, Cached
<1>2. QED
  BY <1>1, FS_EmptySet, ConstantsAssumption DEF CacheInv, CacheWithinSize, RecencyIsAnOrder

LEMMA NextCacheInv == TypeOK /\ CacheInv /\ [Next]_vars => CacheInv'
<1> SUFFICES ASSUME TypeOK, CacheInv, [Next]_vars PROVE CacheInv'
  OBVIOUS
<1>1. CASE UNCHANGED <<cache, older>>
  BY <1>1 DEF CacheInv, CacheWithinSize, RecencyIsAnOrder, Cached
<1>2. ASSUME NEW s \in Stores, StoreStep(s) PROVE CacheInv'
  <2>1. store[s].rec[1] \in Keys
    BY DEF TypeOK, StoreStates, Recs
  <2>2. ASSUME NEW r \in Recs, StoreBegin(s, r) PROVE CacheInv'
    BY <1>1, <2>2, HitKeepsCacheInv DEF StoreBegin
  <2>3. CASE StoreUncache(s)
    BY <2>1, <2>3, RemoveKeepsCacheInv DEF StoreUncache
  <2>4. CASE StoreMark(s) \/ StorePut(s) \/ StorePutError(s) \/ StoreUnmark(s)
    BY <1>1, <2>4 DEF StoreMark, StorePut, StorePutError, StoreUnmark
  <2>5. QED  BY <1>2, <2>2, <2>3, <2>4 DEF StoreStep
<1>3. ASSUME NEW f \in Fetchers, FetchStep(f) PROVE CacheInv'
  <2>1. ASSUME NEW k \in Keys, FetchHit(f, k) PROVE CacheInv'
    BY <2>1, HitKeepsCacheInv DEF FetchHit
  <2>2. CASE FetchFill(f)
    <3>1. fetch[f].key \in Keys /\ fetch[f].out # NoAnswer
      BY <2>2 DEF FetchFill, NoAnswer, TypeOK, FetchStates
    <3>2. QED  BY <2>2, <3>1, AddKeepsCacheInv DEF FetchFill
  <2>3. CASE /\ ~FetchFill(f)
             /\ ~\E k \in Keys : FetchHit(f, k)
    BY <1>1, <1>3, <2>3
    DEF FetchStep, FetchMiss, FetchQuery, FetchQueryError, FetchTime, FetchKeep,
        FetchDelete, FetchEntryError, FetchNotFound, FetchReturn
  <2>4. QED  BY <2>1, <2>2, <2>3
<1>4. CASE GCStep
  <2>1. CASE GCPurge
    BY <2>1, EmptyCacheInv DEF GCPurge
  <2>2. CASE ~GCPurge
    BY <1>1, <1>4, <2>2
    DEF GCStep, GCQuery, GCDelete, GCDone, GCErase, GCKeep, GCCondemn
  <2>3. QED  BY <2>1, <2>2
<1>5. CASE Crash
  BY <1>5, EmptyCacheInv DEF Crash
<1>6. CASE Tick \/ UNCHANGED vars
  BY <1>1, <1>6 DEF Tick, vars
<1>7. QED  BY <1>2, <1>3, <1>4, <1>5, <1>6 DEF Next

-----------------------------------------------------------------------------
(* Whatever the goroutines, errors and crashes do, what a Fetch or a       *)
(* garbage collection pass knows from its query stays right about records  *)
(* nobody has written since, and the cache has one least recently used     *)
(* answer to give up.                                                      *)
THEOREM IInvHolds == Spec => []IInv
<1>1. Init => IInv
  BY InitRecordsInv, InitCacheInv DEF IInv, CacheInv
<1>2. IInv /\ [Next]_vars => IInv'
  <2>1. IInv <=> RecordsInv /\ CacheInv
    BY DEF IInv, CacheInv
  <2>2. IInv' <=> RecordsInv' /\ CacheInv'
    BY DEF IInv, CacheInv
  <2>3. RecordsInv => TypeOK
    BY DEF RecordsInv
  <2>4. QED  BY <2>1, <2>2, <2>3, NextRecordsInv, NextCacheInv
<1>3. QED  BY <1>1, <1>2, PTL DEF Spec

(* The cache holds no more answers than the ProvidersBackendConfig allows, *)
(* whichever Fetch fills it and whichever Store touches it meanwhile.      *)
THEOREM CacheLimit == Spec => []CacheWithinSize
<1>1. IInv => CacheWithinSize
  BY DEF IInv
<1>2. QED  BY <1>1, IInvHolds, PTL

(* One Fetch drops one other answer from the cache at most, and only if    *)
(* the cache was full and no other answer had been unused for longer.      *)
FillEvictsTheOldest ==
  \A f \in Fetchers : FetchFill(f) =>
    \A v \in Cached \ Cached' :
      /\ Cardinality(Cached) = CacheSize
      /\ \A x \in Cached : x # v => <<v, x>> \in older /\ x \in Cached'

(* The answers that a cache.Add keeps are those that were used last.       *)
THEOREM EvictionIsLRU == Spec => [][FillEvictsTheOldest]_vars
<1>1. IInv /\ [Next]_vars => [FillEvictsTheOldest]_vars
  <2> SUFFICES ASSUME IInv, NEW f \in Fetchers, FetchFill(f), NEW v \in Cached \ Cached'
               PROVE  /\ Cardinality(Cached) = CacheSize
                      /\ \A x \in Cached : x # v => <<v, x>> \in older /\ x \in Cached'
    BY DEF FillEvictsTheOldest
  <2> DEFINE k == fetch[f].key
  <2>1. fetch[f].out # NoAnswer /\ CacheAdd(k, fetch[f].out) /\ v \in Keys
    BY DEF FetchFill, NoAnswer, Cached
  <2>2. /\ IsFiniteSet(Cached) /\ Cardinality(Cached) <= CacheSize
        /\ Cardinality(Cached) \in Nat /\ CacheSize \in Nat
        /\ RecencyIsAnOrder /\ cache \in [Keys -> SUBSET Provs]
    BY ConstantsAssumption, FS_CardinalityType DEF IInv, CacheWithinSize, RecordsInv, TypeOK
  <2>3. \A x \in Cached : x \in Cached' <=> x = k \/ x \notin Victims(k)
    BY <2>1 DEF CacheAdd, Cached, NoAnswer
  <2>4. v \in Victims(k)
    BY <2>3
  <2>5. Cardinality(Cached) = CacheSize /\ \A x \in Cached : <<x, v>> \notin older
    BY <2>2, <2>4 DEF Victims
  <2>6. ASSUME NEW x \in Cached, x # v PROVE <<v, x>> \in older /\ x \in Cached'
    <3>1. <<v, x>> \in older
      BY <2>2, <2>5, <2>6 DEF RecencyIsAnOrder
    <3>2. x \notin Victims(k)
      BY <3>1 DEF Victims
    <3>3. QED  BY <2>3, <3>1, <3>2
  <2>7. QED  BY <2>5, <2>6
<1>2. QED  BY <1>1, IInvHolds, PTL DEF Spec

(* However Stores, deletions and failures interleave with the fill of a    *)
(* cache entry, the cached answer is right about every record not written  *)
(* since the query it was computed from.                                   *)
THEOREM CachedAnswersAreCoherent == Spec => []CacheMatchesDatastore
<1>1. IInv => CacheMatchesDatastore
  BY DEF IInv, RecordsInv
<1>2. QED  BY <1>1, IInvHolds, PTL

(* So is the answer of a Fetch that missed the cache.                      *)
THEOREM MissesAreCoherent == Spec => []MissMatchesDatastore
<1>1. IInv => MissMatchesDatastore
  BY DEF IInv, RecordsInv
<1>2. QED  BY <1>1, IInvHolds, PTL

LEMMA StepRemovesOnlyRewritten ==
  ASSUME RecordsInv, TypeOK', [Next]_vars
  PROVE  RemovesOnlyRewritten
<1> SUFFICES ASSUME NEW k \in Keys, NEW p \in Provs,
                    Live(<<k, p>>), db'[<<k, p>>] = NoRec
             PROVE  \/ \E f \in Fetchers :
                         /\ fetch[f].key = k
                         /\ fetch[f].snap[p] \notin {NoRec, db[<<k, p>>]}
                         /\ fetch'[f].snap[p] = NoRec
                    \/ /\ Deleting /\ gc'.pc # gc.pc /\ gc.rec = <<k, p>>
                       /\ gc.snap[<<k, p>>] # db[<<k, p>>]
  BY DEF RemovesOnlyRewritten
<1>1. db \in [Recs -> Values] /\ <<k, p>> \in Recs /\ db[<<k, p>>] # NoRec
  BY DEF RecordsInv, TypeOK, Recs, Live, ValidAt, NoRec, Times
<1>2. ASSUME NEW s \in Stores, StoreStep(s)
      PROVE  FALSE
  <2>1. CASE StorePut(s)
    <3>1. store[s].expiry # NoRec
      BY DEF RecordsInv, TypeOK, StoreStates, Times, NoRec
    <3>2. QED  BY <1>1, <2>1, <3>1 DEF StorePut
  <2>2. CASE UNCHANGED db
    BY <1>1, <2>2
  <2>3. QED
    BY <1>2, <2>1, <2>2
    DEF StoreStep, StoreBegin, StoreMark, StorePutError, StoreUncache, StoreUnmark
<1>3. ASSUME NEW f \in Fetchers, FetchStep(f)
      PROVE  /\ fetch[f].key = k
             /\ fetch[f].snap[p] \notin {NoRec, db[<<k, p>>]}
             /\ fetch'[f].snap[p] = NoRec
  <2>1. PICK q \in Provs : FetchDelete(f, q) /\ db' = [db EXCEPT ![<<fetch[f].key, q>>] = NoRec]
    BY <1>1, <1>3
    DEF FetchStep, FetchHit, FetchMiss, FetchQuery, FetchQueryError, FetchTime,
        FetchKeep, FetchDelete, FetchEntryError, FetchNotFound, FetchFill, FetchReturn
  <2>2. q = p /\ fetch[f].key = k
    BY <1>1, <2>1
  <2>3. fetch[f] \in FetchStates /\ fetch[f].at <= now /\ now \in Int
    BY DEF RecordsInv, TypeOK, FetchInProgress, Times
  <2>4. fetch'[f].snap[p] = NoRec
    BY <2>1, <2>2, <2>3 DEF FetchDelete, FetchStates, RecordsInv, TypeOK
  <2>5. ValidAt(db[<<k, p>>], fetch[f].at)
    BY <2>3, ConstantsAssumption DEF Live, ValidAt, FetchStates, Times
  <2>6. fetch[f].snap[p] # NoRec /\ ~ValidAt(fetch[f].snap[p], fetch[f].at)
    BY <2>1, <2>2 DEF FetchDelete
  <2>7. QED  BY <2>2, <2>4, <2>5, <2>6
<1>4. ASSUME GCStep
      PROVE  /\ Deleting /\ gc'.pc # gc.pc /\ gc.rec = <<k, p>>
             /\ gc.snap[<<k, p>>] # db[<<k, p>>]
  <2>1. GCDelete /\ db' = [db EXCEPT ![gc.rec] = NoRec]
    BY <1>1, <1>4
    DEF GCStep, GCPurge, GCQuery, GCDelete, GCDone, GCErase, GCKeep, GCCondemn
  <2>2. gc.rec = <<k, p>>
    BY <1>1, <2>1
  <2>3. Deleting /\ gc'.pc # gc.pc
    BY <2>1 DEF GCDelete, Deleting, RecordsInv, TypeOK, GCStates
  <2>4. QED  BY <2>2, <2>3 DEF RecordsInv, CondemnedIsGarbage, Deleting, Live
<1>5. ~Tick /\ ~Crash /\ ~UNCHANGED vars
  BY <1>1 DEF Tick, Crash, vars
<1>6. QED  BY <1>2, <1>3, <1>4, <1>5 DEF Next

(* Removal of a valid record needs a rewrite between the query and the     *)
(* delete of the goroutine that removes it: expiry handling alone never    *)
(* loses one.                                                              *)
THEOREM NoLossWithoutRewrite == Spec => OnlyRewrittenRecordsAreLost
<1>1. IInv /\ IInv' /\ [Next]_vars => [RemovesOnlyRewritten]_vars
  BY StepRemovesOnlyRewritten DEF IInv, RecordsInv
<1>2. QED  BY <1>1, IInvHolds, PTL DEF Spec, OnlyRewrittenRecordsAreLost
=============================================================================
