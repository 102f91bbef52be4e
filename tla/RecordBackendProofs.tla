------------------------ MODULE RecordBackendProofs ------------------------
(***************************************************************************)
(* Proofs about RecordBackend, for any values, any number of goroutines    *)
(* and any bounds: it implements RecordRegister.                           *)
(***************************************************************************)
EXTENDS RecordBackend, TLAPS

USE DEF NoRec, Corrupt, Record, ValidVal, Reg!NoRec, Reg!Corrupt, Reg!Record,
        Reg!ValidVal, Unusable, NotLocked

LEMMA StoredFields ==
  ASSUME NEW r \in Stored
  PROVE  /\ r.kind \in {"none", "corrupt", "record"}
         /\ r.kind = "none" <=> r = NoRec
         /\ r.kind = "record" => /\ r.val \in Vals /\ r.received \in Times
                                 /\ r.val.rank \in Nat /\ r.val.eol \in Nat
  BY ConstantsAssumption DEF Stored

LEMMA RecordFields ==
  ASSUME NEW v \in Vals, NEW t \in Times
  PROVE  /\ Record(v, t) \in Stored
         /\ Record(v, t).kind = "record"
         /\ Record(v, t).val = v
         /\ Record(v, t).received = t
  BY DEF Stored

LEMMA IdleTypes ==
  /\ IdleStore \in StoreStates /\ IdleStore.pc = "idle" /\ IdleStore.received = 0
  /\ IdleFetch \in FetchStates /\ IdleFetch.pc = "idle" /\ IdleFetch.rec = NoRec
<1>1. AnyVal \in Vals
  BY ConstantsAssumption DEF AnyVal
<1>2. NoRec \in Stored /\ 0 \in Times
  BY ConstantsAssumption DEF Stored, Times
<1>3. QED  BY <1>1, <1>2 DEF IdleStore, StoreStates, IdleFetch, FetchStates

(* What is too old stays too old, and what may be replaced stays so.       *)
LEMMA Monotone ==
  ASSUME NEW r \in Stored, NEW v \in Vals, NEW t \in Times, NEW u \in Times, t <= u
  PROVE  /\ Reg!Unusable(r, t) => Reg!Unusable(r, u)
         /\ Reg!Replaceable(r, v, t) => Reg!Replaceable(r, v, u)
  BY StoredFields, ConstantsAssumption DEF Reg!Unusable, Reg!Replaceable, Times

LEMMA InitIInv == Init => IInv
<1> SUFFICES ASSUME Init
             PROVE  IInv
  OBVIOUS
<1>1. db \in Stored /\ 0 \in Times
  BY ConstantsAssumption DEF Init, Stored, Times
<1>2. QED
  BY <1>1, IdleTypes, ConstantsAssumption DEF Init, IInv, TypeOK, ComparisonStillHolds

-----------------------------------------------------------------------------
(* The steps.                                                              *)

LEMMA StoreKeepsIInv ==
  ASSUME IInv, NEW s \in Stores,
         StoreStep(s) \/ \E v \in Vals : StoreValidate(s, v)
  PROVE  IInv'
<1> USE DEF IInv, TypeOK
<1>1. /\ txn # None => txn \in Stores
      /\ store[s] \in StoreStates /\ None \notin Stores
  BY ConstantsAssumption
<1>2. UNCHANGED <<now, fetch>>
  BY DEF StoreStep, StoreValidate, StoreBegin, StoreCompare, StoreWorse, StoreCommit,
         StoreError
<1>3. ASSUME NEW v \in Vals, StoreValidate(s, v)
      PROVE  IInv'
  <2>1. 0 \in Times /\ 0 <= now
    BY ConstantsAssumption DEF Times
  <2>2. store' = [store EXCEPT ![s] = [pc |-> "begin", val |-> v, received |-> 0]]
    BY <1>3 DEF StoreValidate
  <2>3. store' \in [Stores -> StoreStates]
    BY <2>1, <2>2 DEF StoreStates
  <2>4. QED
    BY <1>1, <1>2, <1>3, <2>1, <2>2, <2>3 DEF StoreValidate, ComparisonStillHolds
<1>4. ASSUME StoreBegin(s)
      PROVE  IInv'
  <2>1. store' = [store EXCEPT ![s].pc = "compare"] /\ txn = None
    BY <1>4 DEF StoreBegin
  <2>2. store' \in [Stores -> StoreStates]
    BY <2>1 DEF StoreStates
  <2>3. QED
    BY <1>1, <1>2, <1>4, <2>1, <2>2 DEF StoreBegin, ComparisonStillHolds
<1>5. ASSUME StoreCompare(s)
      PROVE  IInv'
  <2>1. store' = [store EXCEPT ![s].pc = "commit", ![s].received = now]
    BY <1>5 DEF StoreCompare
  <2>2. store' \in [Stores -> StoreStates]
    BY <2>1 DEF StoreStates
  <2>3. Reg!Replaceable(db, store[s].val, now)
    BY <1>5 DEF StoreCompare, ShouldReplace, Reg!Replaceable
  <2>4. QED
    BY <1>1, <1>2, <1>5, <2>1, <2>2, <2>3
    DEF StoreCompare, ComparisonStillHolds, StoreStates, Times
<1>6. ASSUME StoreWorse(s)
      PROVE  IInv'
  BY <1>1, <1>2, <1>6, IdleTypes DEF StoreWorse, ComparisonStillHolds, Times
<1>7. ASSUME StoreCommit(s)
      PROVE  IInv'
  <2>1. store[s].val \in Vals /\ store[s].received \in Times
    BY <1>1 DEF StoreStates
  <2>2. db' \in Stored
    BY <1>7, <2>1, RecordFields DEF StoreCommit
  <2>3. \A t \in Stores : store'[t].pc # "commit"
    BY <1>1, <1>7, IdleTypes DEF StoreCommit
  <2>4. QED
    BY <1>1, <1>2, <1>7, <2>2, <2>3, IdleTypes
    DEF StoreCommit, ComparisonStillHolds, Times
<1>8. ASSUME StoreError(s)
      PROVE  IInv'
  BY <1>1, <1>2, <1>8, IdleTypes, ConstantsAssumption
  DEF StoreError, Fault, ComparisonStillHolds, Times
<1>9. QED
  BY <1>3, <1>4, <1>5, <1>6, <1>7, <1>8 DEF StoreStep

LEMMA FetchKeepsIInv ==
  ASSUME IInv, NEW f \in Fetchers, FetchGet(f) \/ FetchStep(f)
  PROVE  IInv'
<1> USE DEF IInv, TypeOK
<1>1. fetch[f] \in FetchStates /\ NoRec \in Stored
  BY DEF Stored
<1>2. UNCHANGED <<now, txn, store>>
  BY DEF FetchStep, FetchGet, FetchReturn, FetchUnusable, FetchDelete
<1>3. ASSUME FetchGet(f)
      PROVE  IInv'
  <2>1. fetch' = [fetch EXCEPT ![f] = [pc |-> "check", rec |-> db]]
    BY <1>3 DEF FetchGet
  <2>2. fetch' \in [Fetchers -> FetchStates]
    BY <2>1 DEF FetchStates
  <2>3. QED
    BY <1>2, <1>3, <2>1, <2>2 DEF FetchGet, ComparisonStillHolds
<1>4. ASSUME FetchReturn(f)
      PROVE  IInv'
  BY <1>2, <1>4, IdleTypes DEF FetchReturn, ComparisonStillHolds
<1>5. ASSUME FetchUnusable(f)
      PROVE  IInv'
  <2>1. fetch' = [fetch EXCEPT ![f].pc = "delete"]
    BY <1>5 DEF FetchUnusable
  <2>2. fetch' \in [Fetchers -> FetchStates]
    BY <1>1, <2>1 DEF FetchStates
  <2>3. QED
    BY <1>1, <1>2, <1>5, <2>1, <2>2
    DEF FetchUnusable, ComparisonStillHolds, FetchStates, Reg!Unusable
<1>6. ASSUME FetchDelete(f)
      PROVE  IInv'
  <2>1. /\ fetch' = [fetch EXCEPT ![f] = IdleFetch]
        /\ db' \in {db, NoRec}
        /\ faults' \in 0 .. MaxFaults
    BY <1>6, ConstantsAssumption DEF FetchDelete, Fault
  <2>2. \A s \in Stores : store[s].pc = "commit" => Reg!Replaceable(db', store[s].val, now)
    BY <2>1 DEF ComparisonStillHolds, Reg!Replaceable
  <2>3. QED
    BY <1>1, <1>2, <2>1, <2>2, IdleTypes DEF ComparisonStillHolds
<1>7. QED
  BY <1>3, <1>4, <1>5, <1>6 DEF FetchStep

LEMMA TickKeepsIInv ==
  ASSUME IInv, Tick
  PROVE  IInv'
<1>1. now \in Times /\ now' \in Times /\ now <= now' /\ now' = now + 1
  BY ConstantsAssumption DEF IInv, TypeOK, Tick, Times
<1>2. \A s \in Stores : store[s].val \in Vals /\ store[s].received \in Times
  BY DEF IInv, TypeOK, StoreStates
<1>3. \A f \in Fetchers : fetch[f].rec \in Stored
  BY DEF IInv, TypeOK, FetchStates
<1>4. ComparisonStillHolds'
  BY <1>1, <1>2, Monotone DEF IInv, TypeOK, ComparisonStillHolds, Tick
<1>5. \A f \in Fetchers : fetch[f].pc = "delete" => Reg!Unusable(fetch[f].rec, now')
  <2>1. AnyVal \in Vals
    BY ConstantsAssumption DEF AnyVal
  <2>2. QED
    BY <1>1, <1>3, <2>1, Monotone DEF IInv
<1>6. \A s \in Stores : store[s].received <= now'
  BY <1>1, <1>2 DEF IInv, Times
<1>7. QED
  BY <1>1, <1>4, <1>5, <1>6 DEF IInv, TypeOK, Tick

LEMMA CrashKeepsIInv ==
  ASSUME IInv, Crash
  PROVE  IInv'
BY IdleTypes, ConstantsAssumption
DEF IInv, TypeOK, Crash, Fault, ComparisonStillHolds, Times

LEMMA NextKeepsIInv == IInv /\ [Next]_vars => IInv'
<1> SUFFICES ASSUME IInv, [Next]_vars
             PROVE  IInv'
  OBVIOUS
<1>1. CASE UNCHANGED vars
  BY <1>1 DEF vars, IInv, TypeOK, ComparisonStillHolds
<1>2. CASE Next
  BY <1>2, StoreKeepsIInv, FetchKeepsIInv, TickKeepsIInv, CrashKeepsIInv DEF Next
<1>3. QED  BY <1>1, <1>2

(* What a Store has found out by comparing still holds when it commits.    *)
THEOREM Inductive == Spec => []IInv
BY InitIInv, NextKeepsIInv, PTL DEF Spec

(* The state, that of the goroutines included, stays in its type.          *)
THEOREM TypeCorrect == Spec => []TypeOK
<1>1. IInv => TypeOK
  BY DEF IInv
<1>2. QED  BY <1>1, Inductive, PTL

-----------------------------------------------------------------------------
(* A Fetch that deletes has read something else than a usable record.      *)
LEMMA StepRemovesOnlyReplaced == IInv /\ [Next]_vars => [RemovesOnlyReplaced]_vars
<1> SUFFICES ASSUME IInv, Next,
                    db.kind = "record", ~Reg!Unusable(db, now), db'.kind # "record"
             PROVE  \E f \in Fetchers :
                      fetch[f].pc = "delete" /\ fetch'[f].pc = "idle" /\ fetch[f].rec # db
  BY DEF RemovesOnlyReplaced
<1>1. ASSUME NEW s \in Stores
      PROVE  /\ ~(\E v \in Vals : StoreValidate(s, v))
             /\ ~StoreStep(s)
  BY DEF StoreValidate, StoreStep, StoreBegin, StoreCompare, StoreWorse, StoreCommit, StoreError
<1>2. ~Tick /\ ~Crash
  BY DEF Tick, Crash
<1>3. PICK f \in Fetchers : FetchDelete(f)
  BY <1>1, <1>2 DEF Next, FetchGet, FetchStep, FetchReturn, FetchUnusable
<1>4. fetch[f].pc = "delete" /\ fetch' = [fetch EXCEPT ![f] = IdleFetch]
  BY <1>3 DEF FetchDelete
<1>5. Reg!Unusable(fetch[f].rec, now) /\ fetch'[f] = IdleFetch
  BY <1>4 DEF IInv, TypeOK
<1>6. QED
  BY <1>4, <1>5, IdleTypes

(* No usable record disappears, except under a Fetch that has read a       *)
(* predecessor of it.                                                      *)
THEOREM NoLossWithoutReplacement == Spec => OnlyReplacedRecordsAreLost
BY Inductive, StepRemovesOnlyReplaced, PTL DEF Spec, OnlyReplacedRecordsAreLost

-----------------------------------------------------------------------------
(* The refinement: only StoreCommit, FetchGet, FetchDelete, the returns of *)
(* Fetch, Tick and Crash are steps of the register.                        *)

LEMMA InitRefines == Init => Reg!Init
BY IdleTypes DEF Init, Reg!Init

LEMMA StoreRefines ==
  ASSUME IInv, NEW s \in Stores,
         StoreStep(s) \/ \E v \in Vals : StoreValidate(s, v)
  PROVE  Reg!Next \/ UNCHANGED Reg!vars
<1>1. CASE StoreCommit(s)
  <2>1. /\ store[s].val \in Vals /\ store[s].received \in 0 .. now
        /\ Reg!Replaceable(db, store[s].val, now)
    BY <1>1, ConstantsAssumption
    DEF StoreCommit, IInv, TypeOK, ComparisonStillHolds, StoreStates, Times
  <2>2. Reg!Put(store[s].val, store[s].received)
    BY <1>1, <2>1 DEF StoreCommit, Reg!Put
  <2>3. QED
    BY <2>1, <2>2 DEF Reg!Next
<1>2. CASE ~StoreCommit(s)
  BY <1>2 DEF StoreStep, StoreValidate, StoreBegin, StoreCompare, StoreWorse,
              StoreError, Reg!vars
<1>3. QED  BY <1>1, <1>2

LEMMA FetchRefines ==
  ASSUME IInv, NEW f \in Fetchers, FetchGet(f) \/ FetchStep(f)
  PROVE  Reg!Next \/ UNCHANGED Reg!vars
<1> DEFINE seen == [g \in Fetchers |-> fetch[g].rec]
<1> USE DEF IInv, TypeOK
<1>1. CASE FetchGet(f)
  <2>1. fetch' = [fetch EXCEPT ![f] = [pc |-> "check", rec |-> db]]
    BY <1>1 DEF FetchGet
  <2>2. seen' = [seen EXCEPT ![f] = db]
    BY <2>1
  <2>3. QED
    BY <1>1, <2>2 DEF FetchGet, Reg!Read, Reg!Next
<1>2. CASE FetchReturn(f)
  <2>1. fetch' = [fetch EXCEPT ![f] = IdleFetch]
    BY <1>2 DEF FetchReturn
  <2>2. seen' = [seen EXCEPT ![f] = NoRec]
    BY <2>1, IdleTypes
  <2>3. QED
    BY <1>2, <2>2 DEF FetchReturn, Reg!Forget, Reg!Next
<1>3. CASE FetchUnusable(f)
  <2>1. fetch' = [fetch EXCEPT ![f].pc = "delete"]
    BY <1>3 DEF FetchUnusable
  <2>2. seen' = seen
    BY <2>1 DEF FetchStates
  <2>3. QED
    BY <1>3, <2>2 DEF FetchUnusable, Reg!vars
<1>4. CASE FetchDelete(f)
  <2>1. fetch' = [fetch EXCEPT ![f] = IdleFetch] /\ fetch[f].pc = "delete"
    BY <1>4 DEF FetchDelete
  <2>2. seen' = [seen EXCEPT ![f] = NoRec] /\ Reg!Unusable(seen[f], now)
    BY <2>1, IdleTypes
  <2>3. Reg!Remove(f) \/ Reg!Forget(f)
    BY <1>4, <2>2 DEF FetchDelete, Reg!Remove, Reg!Forget
  <2>4. QED
    BY <2>3 DEF Reg!Next
<1>5. QED
  BY <1>1, <1>2, <1>3, <1>4 DEF FetchStep

LEMMA StepRefines == IInv /\ [Next]_vars => [Reg!Next]_(Reg!vars)
<1> SUFFICES ASSUME IInv, [Next]_vars
             PROVE  Reg!Next \/ UNCHANGED Reg!vars
  OBVIOUS
<1>1. CASE UNCHANGED vars
  BY <1>1 DEF vars, Reg!vars
<1>2. CASE Tick
  BY <1>2 DEF Tick, Reg!Tick, Reg!Next
<1>3. CASE Crash
  <2>1. [f \in Fetchers |-> fetch[f].rec]' = [r \in Fetchers |-> NoRec]
    BY <1>3, IdleTypes DEF Crash
  <2>2. Reg!Restart
    BY <1>3, <2>1 DEF Crash, Reg!Restart
  <2>3. QED
    BY <2>2 DEF Reg!Next
<1>4. QED
  BY <1>1, <1>2, <1>3, StoreRefines, FetchRefines DEF Next

(* Concurrent Stores, Fetches, errors and crashes act on the record as one *)
(* register that is only ever replaced by something as good.               *)
THEOREM Refinement == Spec => ImplementsRegister
BY InitRefines, StepRefines, Inductive, PTL DEF Spec, Reg!Spec, ImplementsRegister

(* "Stored record must always be the newer one" (handlers_test.go), of any *)
(* number of Stores that overlap: a record that is still valid gives way   *)
(* only to one that the validator does not find worse.                     *)
GivesWayOnlyToBetter ==
  db.kind = "record" /\ ValidVal(db.val, now) /\ db'.kind = "record" =>
    db'.val.rank >= db.val.rank

(* The register that the backend implements replaces nothing by worse, so  *)
(* the backend does not: not between a comparison and its commit either.   *)
THEOREM ValidRecordsOnlyImprove == Spec => [][GivesWayOnlyToBetter]_vars
<1>1. ASSUME IInv, [Next]_vars
      PROVE  [GivesWayOnlyToBetter]_vars
  <2> SUFFICES ASSUME db.kind = "record", ValidVal(db.val, now), db'.kind = "record"
               PROVE  db'.val.rank >= db.val.rank
    BY DEF GivesWayOnlyToBetter
  <2>1. Reg!Next \/ UNCHANGED Reg!vars
    BY <1>1, StepRefines
  <2>2. ASSUME NEW v \in Vals, NEW t \in 0 .. now, Reg!Put(v, t)
        PROVE  db'.val.rank >= db.val.rank
    BY <2>2 DEF Reg!Put, Reg!Replaceable
  <2>3. CASE db' = db
    <3>1. db \in Stored
      BY <1>1 DEF IInv, TypeOK
    <3>2. QED  BY <2>3, <3>1, StoredFields
  <2>4. ASSUME NEW f \in Fetchers
        PROVE  ~Reg!Remove(f)
    <3>1. [kind |-> "none"].kind = "none"
      OBVIOUS
    <3>2. QED  BY <3>1 DEF Reg!Remove
  <2>5. QED
    BY <2>1, <2>2, <2>3, <2>4 DEF Reg!Next, Reg!Read, Reg!Forget, Reg!Restart, Reg!Tick,
       Reg!vars
<1>2. QED  BY <1>1, Inductive, PTL DEF Spec
=============================================================================
