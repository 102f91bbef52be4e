--------------------------- MODULE RecordBackend ---------------------------
(***************************************************************************)
(* The backend for IPNS and public key records (backend_record.go), seen   *)
(* at one key.                                                             *)
(*                                                                         *)
(* Store compares and replaces within a datastore transaction; Fetch reads *)
(* the record and deletes an unusable one outside of any.  The datastore   *)
(* is leveldb, the one InMemoryDatastore makes: an open transaction shuts  *)
(* out every other writer, not the readers, who see what is committed.     *)
(*                                                                         *)
(* A value is its rank in the validator's order (for IPNS the sequence     *)
(* number) and the time until which the validator accepts it.              *)
(***************************************************************************)
EXTENDS Integers

CONSTANTS
  Vals,          \* the values that are put: records [rank, eol]
  Stores,        \* goroutines that call Store
  Fetchers,      \* goroutines that call Fetch
  MaxRecordAge,  \* age at which a record is no longer served
  MaxTime,       \* bound on the clock
  MaxFaults,     \* bound on datastore errors and process crashes
  None           \* no open transaction

ASSUME ConstantsAssumption ==
  /\ Vals \subseteq [rank : Nat, eol : Nat] /\ Vals # {}
  /\ None \notin Stores
  /\ MaxRecordAge \in Nat
  /\ MaxTime \in Nat
  /\ MaxFaults \in Nat

VARIABLES
  now,     \* the wall clock
  db,      \* what the datastore holds under the key
  txn,     \* the Store call whose transaction is open
  store,   \* the local state of each Store call
  fetch,   \* the local state of each Fetch call
  faults   \* number of errors and crashes so far

vars == <<now, db, txn, store, fetch, faults>>

Times == 0 .. MaxTime

(* The register this backend implements.                                   *)
Reg == INSTANCE RecordRegister
         WITH Readers <- Fetchers, MaxAge <- MaxRecordAge, reg <- db,
              seen <- [f \in Fetchers |-> fetch[f].rec]

NoRec == Reg!NoRec
Corrupt == Reg!Corrupt
Record(v, t) == Reg!Record(v, t)
ValidVal(v, t) == Reg!ValidVal(v, t)
Stored == {NoRec, Corrupt} \cup {Record(v, t) : v \in Vals, t \in Times}

AnyVal == CHOOSE v \in Vals : TRUE
IdleStore == [pc |-> "idle", val |-> AnyVal, received |-> 0]
IdleFetch == [pc |-> "idle", rec |-> NoRec]

(* The record of an earlier run may have become unreadable.                *)
Init ==
  /\ now = 0
  /\ db \in {NoRec, Corrupt}
  /\ txn = None
  /\ store = [s \in Stores |-> IdleStore]
  /\ fetch = [f \in Fetchers |-> IdleFetch]
  /\ faults = 0

Fault == faults < MaxFaults /\ faults' = faults + 1

-----------------------------------------------------------------------------
(* Store                                                                   *)

(* The value is validated before the transaction.                          *)
StoreValidate(s, v) ==
  /\ store[s].pc = "idle"
  /\ ValidVal(v, now)
  /\ store' = [store EXCEPT ![s] = [pc |-> "begin", val |-> v, received |-> 0]]
  /\ UNCHANGED <<now, db, txn, fetch, faults>>

NeverLocked == TRUE  \* mutant: reads and writes without a transaction
NotLocked == txn = None

StoreBegin(s) ==
  /\ store[s].pc = "begin"
  /\ NotLocked
  /\ txn' = s
  /\ store' = [store EXCEPT ![s].pc = "compare"]
  /\ UNCHANGED <<now, db, fetch, faults>>

ReplacesBetter(v) ==  \* mutant: the result of Select is taken the wrong way
  db.kind = "record" /\ ValidVal(db.val, now) => v.rank <= db.val.rank

(* shouldReplaceExistingRecord: no record, one that does not parse and one *)
(* that is not valid any more are replaced, another one unless it is       *)
(* better.                                                                 *)
ShouldReplace(v) ==
  db.kind = "record" /\ ValidVal(db.val, now) => v.rank >= db.val.rank

StoreCompare(s) ==
  /\ store[s].pc = "compare"
  /\ ShouldReplace(store[s].val)
  /\ store' = [store EXCEPT ![s].pc = "commit", ![s].received = now]
  /\ UNCHANGED <<now, db, txn, fetch, faults>>

StoreWorseKeepsTxn(s) ==  \* mutant: no deferred Discard
  /\ store[s].pc = "compare"
  /\ ~ShouldReplace(store[s].val)
  /\ store' = [store EXCEPT ![s] = IdleStore]
  /\ UNCHANGED <<now, db, txn, fetch, faults>>

StoreWorse(s) ==
  /\ store[s].pc = "compare"
  /\ ~ShouldReplace(store[s].val)
  /\ store' = [store EXCEPT ![s] = IdleStore]
  /\ txn' = None
  /\ UNCHANGED <<now, db, fetch, faults>>

StoreCommit(s) ==
  /\ store[s].pc = "commit"
  /\ db' = Record(store[s].val, store[s].received)
  /\ store' = [store EXCEPT ![s] = IdleStore]
  /\ txn' = None
  /\ UNCHANGED <<now, fetch, faults>>

(* An error of NewTransaction, Get, Put or Commit: the transaction, if it  *)
(* is this one's, is discarded.                                            *)
StoreError(s) ==
  /\ store[s].pc \in {"begin", "compare", "commit"}
  /\ Fault
  /\ store' = [store EXCEPT ![s] = IdleStore]
  /\ txn' = IF txn = s THEN None ELSE txn
  /\ UNCHANGED <<now, db, fetch>>

-----------------------------------------------------------------------------
(* Fetch                                                                   *)

FetchGet(f) ==
  /\ fetch[f].pc = "idle"
  /\ fetch' = [fetch EXCEPT ![f] = [pc |-> "check", rec |-> db]]
  /\ UNCHANGED <<now, db, txn, store, faults>>

UnusableTooEarly(r) ==  \* mutant: >= in place of > in the age check
  \/ r.kind = "corrupt"
  \/ r.kind = "record" /\ now - r.received >= MaxRecordAge

Unusable(r) ==
  \/ r.kind = "corrupt"
  \/ r.kind = "record" /\ now - r.received > MaxRecordAge

(* A record that parses and is not too old is returned, one that is        *)
(* missing is ErrNotFound: nothing changes.                                *)
FetchReturn(f) ==
  /\ fetch[f].pc = "check"
  /\ ~Unusable(fetch[f].rec)
  /\ fetch' = [fetch EXCEPT ![f] = IdleFetch]
  /\ UNCHANGED <<now, db, txn, store, faults>>

FetchUnusable(f) ==
  /\ fetch[f].pc = "check"
  /\ Unusable(fetch[f].rec)
  /\ fetch' = [fetch EXCEPT ![f].pc = "delete"]
  /\ UNCHANGED <<now, db, txn, store, faults>>

(* Delete waits for an open transaction; its error is only logged.         *)
FetchDelete(f) ==
  /\ fetch[f].pc = "delete"
  /\ \/ NotLocked /\ db' = NoRec /\ UNCHANGED faults
     \/ Fault /\ UNCHANGED db
  /\ fetch' = [fetch EXCEPT ![f] = IdleFetch]
  /\ UNCHANGED <<now, txn, store>>

-----------------------------------------------------------------------------
Tick ==
  /\ now < MaxTime
  /\ now' = now + 1
  /\ UNCHANGED <<db, txn, store, fetch, faults>>

(* An uncommitted transaction dies with the process.                       *)
Crash ==
  /\ Fault
  /\ txn' = None
  /\ store' = [s \in Stores |-> IdleStore]
  /\ fetch' = [f \in Fetchers |-> IdleFetch]
  /\ UNCHANGED <<now, db>>

StoreStep(s) ==
  \/ StoreBegin(s) \/ StoreCompare(s) \/ StoreWorse(s) \/ StoreCommit(s)
  \/ StoreError(s)

FetchStep(f) == FetchReturn(f) \/ FetchUnusable(f) \/ FetchDelete(f)

Next ==
  \/ \E s \in Stores : StoreStep(s) \/ \E v \in Vals : StoreValidate(s, v)
  \/ \E f \in Fetchers : FetchGet(f) \/ FetchStep(f)
  \/ Tick
  \/ Crash

Spec == Init /\ [][Next]_vars

(* Goroutines are scheduled.  The datastore's write lock is granted to a   *)
(* writer that keeps waiting for it (a channel in leveldb, first come      *)
(* first served).  Nothing is assumed of who calls.                        *)
Fairness ==
  /\ \A s \in Stores :
       /\ SF_vars(StoreBegin(s))
       /\ WF_vars(StoreCompare(s) \/ StoreWorse(s) \/ StoreCommit(s))
  /\ \A f \in Fetchers :
       /\ WF_vars(FetchReturn(f) \/ FetchUnusable(f))
       /\ SF_vars(FetchDelete(f))

FairSpec == Spec /\ Fairness

-----------------------------------------------------------------------------
(* Properties.                                                             *)

StoreStates ==
  [pc : {"idle", "begin", "compare", "commit"}, val : Vals, received : Times]
FetchStates == [pc : {"idle", "check", "delete"}, rec : Stored]

(* Every variable stays in its type.                                       *)
TypeOK ==
  /\ now \in Times
  /\ db \in Stored
  /\ txn \in Stores \cup {None}
  /\ store \in [Stores -> StoreStates]
  /\ fetch \in [Fetchers -> FetchStates]
  /\ faults \in 0 .. MaxFaults

(* Store and Fetch of any number of goroutines, with errors and crashes,   *)
(* act on the record as if Store compared and replaced it in one step:     *)
(* "stored record must always be the newer one" (handlers_test.go).        *)
ImplementsRegister == Reg!Spec

(* What makes this so: the comparison of the open transaction still holds  *)
(* when it commits, and a Fetch deletes on what it has read.               *)
ComparisonStillHolds ==
  \A s \in Stores :
    store[s].pc = "commit" => Reg!Replaceable(db, store[s].val, now)

IInv ==
  /\ TypeOK
  /\ \A s \in Stores : store[s].pc \in {"compare", "commit"} <=> txn = s
  /\ \A s \in Stores : store[s].received <= now
  /\ ComparisonStillHolds
  /\ \A f \in Fetchers :
       /\ fetch[f].pc = "idle" => fetch[f].rec = NoRec
       /\ fetch[f].pc = "delete" => Reg!Unusable(fetch[f].rec, now)

(* A usable record only disappears under a Fetch that has read a           *)
(* predecessor of it.                                                      *)
RemovesOnlyReplaced ==
  db.kind = "record" /\ ~Reg!Unusable(db, now) /\ db'.kind # "record" =>
    \E f \in Fetchers :
      fetch[f].pc = "delete" /\ fetch'[f].pc = "idle" /\ fetch[f].rec # db
OnlyReplacedRecordsAreLost == [][RemovesOnlyReplaced]_vars

(* Every call returns, for all the waiting on the transactions of others.  *)
CallsReturn ==
  /\ \A s \in Stores : store[s].pc # "idle" ~> store[s].pc = "idle"
  /\ \A f \in Fetchers : fetch[f].pc # "idle" ~> fetch[f].pc = "idle"
=============================================================================
