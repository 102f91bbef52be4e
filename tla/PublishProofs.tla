---------------------------- MODULE PublishProofs ----------------------------
(***************************************************************************)
(* The inductive invariant of Publish, for every workload, every set of    *)
(* nodes and any number of crashes and of foreign requests.  A node that   *)
(* has stored a value has lost it since only as the backend loses records, *)
(* and messages only say what their sender has vouched for: the steps of   *)
(* the network, of the calls, of the foreign nodes and of the fetches are  *)
(* taken in turn.                                                          *)
(***************************************************************************)
EXTENDS Publish, TLAPS

(* Records and values, with the types of their fields.                     *)
LEMMA StoredFields ==
  ASSUME NEW r \in Stored
  PROVE  /\ r.kind \in {"none", "corrupt", "record"}
         /\ r.kind = "none" <=> r = NoRec
         /\ r.kind = "record" => r.val \in Vals /\ r.received \in Nat
         /\ \A v \in Vals : v.rank \in Nat /\ v.eol \in Int
BY ConstantsAssumption DEF Stored, NoRec, Corrupt, Record, Times

LEMMA RecordStored ==
  ASSUME NEW v \in Vals, now \in Times
  PROVE  /\ Record(v, now) \in Stored /\ Record(v, now).kind = "record"
         /\ Record(v, now).val = v
         /\ NoRec \in Stored /\ Corrupt \in Stored
BY DEF Stored, Record

LEMMA InitIInv == Init => IInv
<1> SUFFICES ASSUME Init PROVE IInv
  OBVIOUS
<1> USE ConstantsAssumption
<1>0. PICK w \in Workloads :
        /\ call = w.call /\ world = w.world
        /\ records = [n \in Nodes |-> [k \in Keys |->
                        IF <<n, k>> \in w.corrupt THEN Corrupt ELSE NoRec]]
  BY DEF Init
<1>1. TypeOK
  <2>1. /\ pc \in [Calls -> PCs]
        /\ targets \in [Calls -> SUBSET Targets] /\ carries \in [Calls -> BOOLEAN]
        /\ up \in BOOLEAN /\ crashes \in 0 .. MaxCrashes /\ foreign \in 0 .. MaxForeign
        /\ disk \subseteq Keys /\ index \subseteq Keys /\ registered \subseteq Keys
        /\ echoed \subseteq Everyone /\ vouched \subseteq (Keys \cup {NoKey}) \X Everyone
    <3>1. /\ pc \in [Calls -> PCs]
          /\ targets \in [Calls -> SUBSET Targets] /\ carries \in [Calls -> BOOLEAN]
      BY DEF Init, PCs
    <3>2. crashes \in 0 .. MaxCrashes /\ foreign \in 0 .. MaxForeign
      BY DEF Init
    <3>3. QED  BY <3>1, <3>2 DEF Init
  <2>2. /\ sent \in [Calls -> [Targets -> {"none", "waiting", "success", "failed"}]]
        /\ wire \in [Calls -> [Targets -> {"none", "request", "same", "other"}]]
    BY DEF Init
  <2>3. /\ records \in [Nodes -> [Keys -> Stored]]
        /\ providers \in [Nodes -> SUBSET (Keys \X Everyone)]
        /\ since \in [Calls -> [Nodes -> SUBSET Stored]]
    BY <1>0 DEF Init, Stored
  <2>4. \E v \in Workloads : call = v.call /\ world = v.world
    BY <1>0
  <2>5. fetch \in [Fetches -> [node : Nodes, key : Keys \cup {NoKey}, rec : Stored]]
    BY DEF Init, IdleFetch, Nodes, Stored
  <2>6. now \in 0 .. world.until
    <3>1. w \in WorkloadType
      OBVIOUS
    <3>2. world.until \in Nat
      BY <1>0, <3>1 DEF WorkloadType, WorldType, Times
    <3>3. QED  BY <3>2 DEF Init
  <2>7. QED  BY <2>1, <2>2, <2>3, <2>4, <2>5, <2>6 DEF TypeOK
<1>2. NetInv /\ CallInv /\ SinceInv /\ KeyInv
  BY DEF Init, NetInv, CallInv, SinceInv, StoredAt, KeyInv, Active
<1>3. NothingUnvouched /\ ProvidedKeysSurvive
  BY DEF Init, NothingUnvouched, ProvidedKeysSurvive
<1>4. QED  BY <1>1, <1>2, <1>3 DEF IInv

LEMMA Typed ==
  ASSUME TypeOK
  PROVE  /\ call \in [Calls -> CallType] /\ world \in WorldType
         /\ \A c \in Calls : call[c].key \in Keys \cup {NoKey} /\ call[c].value \in Vals
         /\ now \in Times /\ now \in Nat /\ world.until \in Times
<1>1. PICK w \in Workloads : call = w.call /\ world = w.world
  BY DEF TypeOK
<1>2. w \in WorkloadType
  BY ConstantsAssumption
<1>3. call \in [Calls -> CallType] /\ world \in WorldType
  BY <1>1, <1>2 DEF WorkloadType
<1>4. world.until \in 0 .. MaxTime /\ now \in 0 .. world.until
  BY <1>3 DEF WorldType, Times, TypeOK
<1>5. now \in Times /\ now \in Nat
  BY <1>4, ConstantsAssumption DEF Times
<1>6. QED  BY <1>3, <1>4, <1>5 DEF CallType, Times

-----------------------------------------------------------------------------
(* What a node has had since it stored a value.                            *)

(* The records change as the backend allows, one node at a time: what was  *)
(* replaced was no better or has expired.                                  *)
Changed(old, r) == r = old \/ \E v \in Vals : Replaceable(old, v, now) /\ r = Record(v, now)

(* No node forgets that it stored the value of a call.                     *)
StaysStored == \A c \in Calls, n \in Nodes : StoredAt(c, n) => StoredAt(c, n)'

LEMMA ChangeKeeps ==
  ASSUME TypeOK, NEW c \in Calls, NEW n \in Nodes, NEW k \in Keys, k = Key(c),
         NEW r \in Stored, Changed(records[n][k], r),
         NEW S, since[c][n] \subseteq S, records[n][k] \in S \cup {NoRec}, Kept(c, n)
  PROVE  \/ AtLeast(r, call[c].value)
         \/ \E q \in S : Unusable(q, now) \/ (AtLeast(q, call[c].value) /\ ~ValidVal(q.val, now))
<1>1. /\ records[n][k] \in Stored /\ call[c].value \in Vals /\ now \in Times
      /\ call[c].value.rank \in Nat
  BY Typed, StoredFields DEF TypeOK
<1>2. CASE ~AtLeast(records[n][k], call[c].value)
  BY <1>2 DEF Kept
<1>3. CASE AtLeast(records[n][k], call[c].value) /\ r # records[n][k]
  <2>1. PICK v \in Vals : Replaceable(records[n][k], v, now) /\ r = Record(v, now)
    BY <1>3 DEF Changed
  <2>2. CASE ValidVal(records[n][k].val, now)
    <3>1. v.rank >= records[n][k].val.rank /\ records[n][k].val.rank >= call[c].value.rank
      BY <1>3, <2>1, <2>2 DEF Replaceable, AtLeast
    <3>2. v.rank \in Nat /\ records[n][k].val.rank \in Nat
      BY <1>1, <1>3, StoredFields DEF AtLeast
    <3>3. v.rank >= call[c].value.rank
      BY <1>1, <3>1, <3>2
    <3>4. QED  BY <1>1, <2>1, <3>3, RecordStored DEF AtLeast
  <2>3. CASE ~ValidVal(records[n][k].val, now)
    <3>1. records[n][k] # NoRec
      BY <1>3 DEF AtLeast, NoRec
    <3>2. QED  BY <1>3, <2>3, <3>1
  <2>4. QED  BY <2>2, <2>3
<1>4. QED  BY <1>2, <1>3

(* A step that stores at one node.                                         *)
LEMMA NoteKeeps ==
  ASSUME TypeOK, SinceInv, NEW n \in Nodes, NEW recs \in [Keys -> Stored],
         NEW C \in SUBSET Calls,
         \A c \in C : Key(c) \in Keys /\ recs[Key(c)] = Record(call[c].value, now),
         \A k \in Keys : Changed(records[n][k], recs[k]),
         records' = [records EXCEPT ![n] = recs], Note(n, recs, C),
         UNCHANGED <<call, now, fetch>>
  PROVE  /\ records' \in [Nodes -> [Keys -> Stored]]
         /\ since' \in [Calls -> [Nodes -> SUBSET Stored]]
         /\ SinceInv' /\ StaysStored
         /\ \A c \in C : StoredAt(c, n)'
<1>1. /\ records \in [Nodes -> [Keys -> Stored]]
      /\ since \in [Calls -> [Nodes -> SUBSET Stored]]
      /\ fetch \in [Fetches -> [node : Nodes, key : Keys \cup {NoKey}, rec : Stored]]
  BY DEF TypeOK
<1>2. records' \in [Nodes -> [Keys -> Stored]] /\ records'[n] = recs
  BY <1>1
<1>3. \A m \in Nodes : m # n => records'[m] = records[m]
  BY <1>1
<1>4. ASSUME NEW c \in Calls
      PROVE  /\ c \in C => since'[c][n] = {recs[Key(c)]} \cup Range(Seen(n, Key(c)))
             /\ c \notin C => since'[c][n] = IF since[c][n] = {} THEN {}
                                              ELSE since[c][n] \cup {recs[Key(c)]}
             /\ \A m \in Nodes : m # n => since'[c][m] = since[c][m]
  BY <1>1 DEF Note
<1>5. ASSUME NEW m \in Nodes, NEW k
      PROVE  /\ Seen(m, k)' = Seen(m, k)
             /\ \A f \in Fetches : Seen(m, k)[f] \in Range(Seen(m, k))
             /\ Range(Seen(m, k)) \subseteq Stored
  BY <1>1 DEF Seen, Range, Stored
<1>6. \A c \in Calls : Key(c)' = Key(c) /\ Key(c) \in Keys \cup {NoKey}
  BY Typed DEF Key
<1>7. since' \in [Calls -> [Nodes -> SUBSET Stored]]
  <2>1. since' = [c \in Calls |-> [since[c] EXCEPT ![n] = since'[c][n]]]
    BY <1>1 DEF Note
  <2>2. ASSUME NEW c \in Calls PROVE since'[c][n] \in SUBSET Stored
    <3>0. /\ since[c][n] \subseteq Stored
          /\ Key(c) \in Keys => recs[Key(c)] \in Stored
      BY <1>1
    <3>1. CASE c \in C
      <4>1. since'[c][n] = {recs[Key(c)]} \cup Range(Seen(n, Key(c)))
        BY <1>4, <3>1
      <4>2. Key(c) \in Keys
        BY <3>1
      <4>3. Range(Seen(n, Key(c))) \subseteq Stored
        BY <1>5
      <4>4. QED  BY <3>0, <4>1, <4>2, <4>3
    <3>2. CASE c \notin C /\ since[c][n] # {}
      <4>1. Key(c) \in Keys
        BY <1>6, <3>2 DEF SinceInv, StoredAt
      <4>2. since'[c][n] = since[c][n] \cup {recs[Key(c)]}
        BY <1>4, <3>2
      <4>3. QED  BY <3>0, <4>1, <4>2
    <3>3. CASE c \notin C /\ since[c][n] = {}
      <4>1. since'[c][n] = {}
        BY <1>4, <3>3
      <4>2. QED  BY <4>1
    <3>4. QED  BY <3>1, <3>2, <3>3
  <2>3. QED  BY <1>1, <2>1, <2>2
<1>8. /\ StaysStored
      /\ \A c \in C : StoredAt(c, n)'
  BY <1>4 DEF StaysStored, StoredAt
<1>9. SinceInv'
  <2> SUFFICES ASSUME NEW c \in Calls, NEW m \in Nodes, since'[c][m] # {}
               PROVE  /\ Key(c) # NoKey
                      /\ records'[m][Key(c)] \in since'[c][m] \cup {NoRec}
                      /\ \A f \in Fetches : Seen(m, Key(c))[f] \in since'[c][m] \cup {NoRec}
                      /\ \/ AtLeast(records'[m][Key(c)], call[c].value)
                         \/ \E r \in since'[c][m] :
                              \/ Unusable(r, now)
                              \/ AtLeast(r, call[c].value) /\ ~ValidVal(r.val, now)
    BY <1>5, <1>6 DEF SinceInv, StoredAt, Kept
  <2>1. CASE m # n
    <3>1. records'[m] = records[m] /\ since'[c][m] = since[c][m]
      BY <1>3, <1>4, <2>1
    <3>2. /\ Key(c) # NoKey /\ records[m][Key(c)] \in since[c][m] \cup {NoRec}
          /\ \A f \in Fetches : Seen(m, Key(c))[f] \in since[c][m] \cup {NoRec}
          /\ Kept(c, m)
      BY <3>1 DEF SinceInv, StoredAt
    <3>3. QED  BY <3>1, <3>2 DEF Kept
  <2>2. CASE m = n /\ c \in C
    <3>1. /\ since'[c][n] = {recs[Key(c)]} \cup Range(Seen(n, Key(c)))
          /\ Key(c) \in Keys /\ recs[Key(c)] = Record(call[c].value, now)
      BY <1>4, <2>2
    <3>2. call[c].value \in Vals /\ now \in Times /\ call[c].value.rank \in Nat
      BY Typed, ConstantsAssumption
    <3>3. AtLeast(recs[Key(c)], call[c].value)
      BY <3>1, <3>2, RecordStored DEF AtLeast
    <3>4. QED  BY <1>2, <1>5, <2>2, <3>1, <3>3, ConstantsAssumption
  <2>3. CASE m = n /\ c \notin C
    <3>1. since[c][n] # {} /\ since'[c][n] = since[c][n] \cup {recs[Key(c)]}
      BY <1>4, <2>3
    <3>2. /\ Key(c) \in Keys /\ records[n][Key(c)] \in since[c][n] \cup {NoRec} /\ Kept(c, n)
          /\ \A f \in Fetches : Seen(n, Key(c))[f] \in since[c][n] \cup {NoRec}
          /\ Key(c) # NoKey
      BY <1>6, <3>1 DEF SinceInv, StoredAt
    <3>3. recs[Key(c)] \in Stored /\ Changed(records[n][Key(c)], recs[Key(c)])
      BY <3>2
    <3>4. \/ AtLeast(recs[Key(c)], call[c].value)
          \/ \E r \in since'[c][n] :
               Unusable(r, now) \/ (AtLeast(r, call[c].value) /\ ~ValidVal(r.val, now))
      BY <3>1, <3>2, <3>3, ChangeKeeps
    <3>5. QED  BY <1>2, <2>3, <3>1, <3>2, <3>4
  <2>4. QED  BY <2>1, <2>2, <2>3
<1>10. QED  BY <1>2, <1>7, <1>8, <1>9

(* Steps that neither store nor fetch.                                     *)
LEMMA SinceSame ==
  ASSUME SinceInv, UNCHANGED <<call, records, since, now, fetch>>
  PROVE  SinceInv' /\ StaysStored
<1>1. \A m, k : Seen(m, k)' = Seen(m, k)
  BY DEF Seen
<1>2. QED  BY <1>1 DEF SinceInv, StaysStored, StoredAt, Kept, Key

-----------------------------------------------------------------------------
(* What handlers do: a record changes as the backend allows, the only      *)
(* provider record that appears is the sender's own, and an echo says that *)
(* the value is stored.                                                    *)
Own(from, req) ==
  IF req.type = "ADD_PROVIDER" /\ \E p \in Range(req.providers) : p.id = from
  THEN {<<req.key, from>>} ELSE {}

LEMMA HandleOutcome ==
  ASSUME TypeOK, NEW n \in Nodes, NEW from \in Everyone, NEW req \in RequestType,
         NEW o \in handle(n, from, req)
  PROVE  /\ o.records \in [Keys -> Stored]
         /\ \A k \in Keys : Changed(records[n][k], o.records[k])
         /\ o.providers \in SUBSET (Keys \X Everyone)
         /\ o.providers \subseteq providers[n] \cup Own(from, req)
         /\ o.reply = "echo" =>
              /\ req.type = "PUT_VALUE" /\ req.key \in Keys
              /\ o.records[req.key] = Record(req.value, now)
<1> USE ConstantsAssumption
<1>1. /\ records[n] \in [Keys -> Stored]
      /\ providers[n] \in SUBSET (Keys \X Everyone)
      /\ req.key \in Keys \cup {NoKey} /\ req.value \in Vals
      /\ req.type \in {"PUT_VALUE", "ADD_PROVIDER"}
      /\ req.providers \in Seq([id : Everyone, addr : BOOLEAN])
      /\ now \in Times
  BY Typed DEF TypeOK, RequestType
<1>2. CASE o = Refused(n)
  <2>1. o.records = records[n] /\ o.providers = providers[n] /\ o.reply = "reset"
    BY <1>2 DEF Refused, Outcome
  <2>2. QED  BY <1>1, <2>1 DEF Changed
<1>3. CASE req.type = "PUT_VALUE" /\ o # Refused(n)
  <2>1. /\ req.key \in Keys /\ Replaceable(records[n][req.key], req.value, now)
        /\ o = Outcome([records[n] EXCEPT ![req.key] = Record(req.value, now)],
                       providers[n], "echo")
    BY <1>1, <1>3 DEF handle, handlePutValue
  <2>2. /\ o.records = [records[n] EXCEPT ![req.key] = Record(req.value, now)]
        /\ o.providers = providers[n]
    BY <2>1 DEF Outcome
  <2>3. Record(req.value, now) \in Stored
    BY <1>1, RecordStored
  <2>4. /\ o.records \in [Keys -> Stored] /\ o.records[req.key] = Record(req.value, now)
        /\ \A k \in Keys : k # req.key => o.records[k] = records[n][k]
    BY <1>1, <2>1, <2>2, <2>3
  <2>5. \A k \in Keys : Changed(records[n][k], o.records[k])
    BY <1>1, <2>1, <2>4 DEF Changed
  <2>6. QED  BY <1>1, <1>3, <2>1, <2>2, <2>4, <2>5
<1>4. CASE req.type = "ADD_PROVIDER" /\ o # Refused(n)
  <2>1. /\ req.key \in Keys /\ req.providers # <<>>
        /\ \A p \in Range(req.providers) : p.id = from
        /\ o.records = records[n] /\ o.providers = providers[n] \cup {<<req.key, from>>}
        /\ o.reply # "echo"
    BY <1>1, <1>4 DEF handle, handleAddProvider, WithProvider, Outcome
  <2>2. req.providers[1] \in Range(req.providers)
    BY <1>1, <2>1 DEF Range
  <2>3. Own(from, req) = {<<req.key, from>>}
    BY <1>4, <2>1, <2>2 DEF Own
  <2>4. QED  BY <1>1, <2>1, <2>3 DEF Changed
<1>5. QED  BY <1>1, <1>2, <1>3, <1>4

LEMMA StoreAtOutcome ==
  ASSUME TypeOK, SinceInv, NEW n \in Nodes, NEW from \in Everyone, NEW req \in RequestType,
         NEW o \in handle(n, from, req), NEW C \in SUBSET Calls, StoreAt(n, o, C),
         \A c \in C : o.reply = "echo" /\ Key(c) = req.key /\ call[c].value = req.value,
         UNCHANGED <<call, now, fetch>>
  PROVE  /\ records' \in [Nodes -> [Keys -> Stored]]
         /\ since' \in [Calls -> [Nodes -> SUBSET Stored]]
         /\ SinceInv' /\ StaysStored
         /\ \A c \in C : StoredAt(c, n)'
         /\ providers' \in [Nodes -> SUBSET (Keys \X Everyone)]
         /\ \A m \in Nodes : providers'[m] \subseteq providers[m] \cup Own(from, req)
<1>1. /\ o.records \in [Keys -> Stored]
      /\ \A k \in Keys : Changed(records[n][k], o.records[k])
      /\ o.providers \in SUBSET (Keys \X Everyone)
      /\ o.providers \subseteq providers[n] \cup Own(from, req)
      /\ \A c \in C : Key(c) \in Keys /\ o.records[Key(c)] = Record(call[c].value, now)
  BY HandleOutcome
<1>2. /\ records' = [records EXCEPT ![n] = o.records]
      /\ providers' = [providers EXCEPT ![n] = o.providers]
      /\ Note(n, o.records, C)
  BY DEF StoreAt
<1>3. /\ providers' \in [Nodes -> SUBSET (Keys \X Everyone)]
      /\ \A m \in Nodes : providers'[m] \subseteq providers[m] \cup Own(from, req)
  BY <1>1, <1>2 DEF TypeOK
<1>4. QED  BY <1>1, <1>2, <1>3, NoteKeeps

LEMMA MessageType ==
  ASSUME TypeOK, NEW c \in Calls
  PROVE  /\ Message(c) \in RequestType
         /\ Message(c).key = Key(c) /\ Message(c).value = call[c].value
         /\ Message(c).type = "PUT_VALUE" <=> Put(c)
<1>1. /\ call[c].key \in Keys \cup {NoKey} /\ call[c].value \in Vals
      /\ carries[c] \in BOOLEAN
  BY Typed DEF TypeOK
<1>2. /\ <<>> \in Seq([id : Everyone, addr : BOOLEAN])
      /\ <<[id |-> Self, addr |-> carries[c]]>> \in Seq([id : Everyone, addr : BOOLEAN])
  BY <1>1 DEF Everyone, Nodes
<1>3. QED  BY <1>1, <1>2 DEF Message, RequestType, Key, Put

-----------------------------------------------------------------------------
(* What the steps keep that have nothing to do with it.  First, a step     *)
(* that adds to the stores and to what is vouched for, but sends and       *)
(* receives nothing.                                                       *)
LEMMA NetKept ==
  ASSUME IInv, UNCHANGED <<call, sent, wire>>, StaysStored, vouched \subseteq vouched'
  PROVE  NetInv'
<1> SUFFICES ASSUME NEW c \in Calls, NEW t \in Targets
             PROVE  /\ wire[c][t] # "none" \/ sent[c][t] # "none" => Key(c) # NoKey
                    /\ wire[c][t] # "none" /\ ~Put(c) => <<Key(c), Self>> \in vouched'
                    /\ sent[c][t] = "waiting" => Put(c)
                    /\ Put(c) /\ t \in Peers
                         /\ (wire[c][t] = "same" \/ sent[c][t] = "success") =>
                         StoredAt(c, t)'
                    /\ wire[c][t] = "other" => t \in Foreign
  BY DEF NetInv, Key, Put
<1>1. /\ wire[c][t] # "none" \/ sent[c][t] # "none" => Key(c) # NoKey
      /\ wire[c][t] # "none" /\ ~Put(c) => <<Key(c), Self>> \in vouched
      /\ sent[c][t] = "waiting" => Put(c)
      /\ Put(c) /\ t \in Peers /\ (wire[c][t] = "same" \/ sent[c][t] = "success") =>
           StoredAt(c, t)
      /\ wire[c][t] = "other" => t \in Foreign
  BY DEF IInv, NetInv
<1>2. Peers \subseteq Nodes
  BY DEF Nodes
<1>3. QED  BY <1>1, <1>2 DEF StaysStored

(* The provide set and its index are safe from the steps that touch        *)
(* neither and start no registration.                                      *)
LEMMA KeysKept ==
  ASSUME IInv, UNCHANGED <<call, disk, index, registered, up>>,
         \A d \in Calls : pc[d] # "idle" => pc'[d] # "idle",
         \A d \in Calls : pc'[d] = "index" => pc[d] = "index"
  PROVE  KeyInv' /\ ProvidedKeysSurvive'
<1>1. \A k : Removed(k) => Removed(k)'
  BY DEF Removed, Key
<1>2. KeyInv /\ ProvidedKeysSurvive
  BY DEF IInv
<1>3. QED  BY <1>1, <1>2 DEF KeyInv, ProvidedKeysSurvive, Key

(* Calls that stay where they are, while no node and no success is         *)
(* forgotten.                                                              *)
LEMMA CallsKept ==
  ASSUME IInv, UNCHANGED <<call, pc, targets, up>>, StaysStored,
         \A c \in Calls, t \in Targets :
           sent[c][t] = "success" => sent'[c][t] = "success"
  PROVE  CallInv'
<1>1. CallInv /\ targets \in [Calls -> SUBSET Targets] /\ Self \in Nodes
  BY DEF IInv, TypeOK, Nodes
<1>2. \A c \in Calls : /\ Key(c)' = Key(c) /\ (Put(c)' <=> Put(c))
                       /\ StoreSuccess(c) \subseteq StoreSuccess(c)'
                       /\ StoredAt(c, Self) => StoredAt(c, Self)'
  BY <1>1 DEF Key, Put, StoreSuccess, StaysStored
<1>3. QED  BY <1>1, <1>2 DEF CallInv

(* Steps that store nothing and change no record.                          *)
LEMMA StoresKept ==
  ASSUME IInv, UNCHANGED <<call, pc, targets, sent, wire, records, since, now, fetch, up>>,
         UNCHANGED <<disk, index, registered, vouched>>
  PROVE  NetInv' /\ CallInv' /\ SinceInv' /\ KeyInv' /\ ProvidedKeysSurvive'
<1>1. SinceInv' /\ StaysStored
  BY SinceSame DEF IInv
<1>2. QED  BY <1>1, NetKept, CallsKept, KeysKept

(* The steps of the network leave calls and keys alone, so that what they  *)
(* must show is about one request and about the stores.                    *)
LEMMA NetStepIInv ==
  ASSUME IInv, NEW c \in Calls, NEW t \in Targets, NetStep(c, t)
  PROVE  IInv'
<1> USE ConstantsAssumption
<1> USE DEF callVars, loadVars, planVars, netVars, storeVars, keyVars, lifeVars, foreignVars,
            outside
<1>1. TypeOK /\ NetInv /\ CallInv /\ SinceInv
  BY DEF IInv
<1>2. UNCHANGED <<call, world, pc, targets, carries, disk, index, registered, up, crashes,
                  now, fetch, foreign, echoed>>
  BY DEF NetStep, SendMessage, SendFails, Lost, PeerHandles, ForeignAnswers, Answered, ReadFails
<1>3. /\ Self \in Nodes /\ Peers \subseteq Nodes /\ Self \in Everyone
  BY DEF Nodes, Everyone
<1>4. /\ records' \in [Nodes -> [Keys -> Stored]]
      /\ since' \in [Calls -> [Nodes -> SUBSET Stored]]
      /\ SinceInv' /\ StaysStored
      /\ providers' \in [Nodes -> SUBSET (Keys \X Everyone)]
      /\ \A m \in Nodes : providers'[m] \subseteq vouched'
      /\ vouched \subseteq vouched' /\ vouched' \subseteq (Keys \cup {NoKey}) \X Everyone
  <2>1. /\ \A m \in Nodes : providers[m] \subseteq vouched
        /\ records \in [Nodes -> [Keys -> Stored]]
        /\ since \in [Calls -> [Nodes -> SUBSET Stored]]
        /\ providers \in [Nodes -> SUBSET (Keys \X Everyone)]
        /\ vouched \subseteq (Keys \cup {NoKey}) \X Everyone
    BY DEF IInv, TypeOK, NothingUnvouched
  <2>2. CASE SendMessage(c, t)
    <3>1. /\ vouched \subseteq vouched' /\ vouched' \subseteq vouched \cup {<<Key(c), Self>>}
          /\ UNCHANGED <<call, records, providers, since, now, fetch>>
      BY <2>2 DEF SendMessage
    <3>2. <<Key(c), Self>> \in (Keys \cup {NoKey}) \X Everyone
      BY <1>1, <1>3, Typed DEF Key
    <3>3. SinceInv' /\ StaysStored
      BY <1>1, <3>1, SinceSame
    <3>4. QED  BY <2>1, <3>1, <3>2, <3>3
  <2>3. CASE PeerHandles(c, t)
    <3>1. PICK o \in handle(t, Self, Message(c)) :
            StoreAt(t, o, IF o.reply = "echo" THEN {c} ELSE {})
      BY <2>3 DEF PeerHandles
    <3>2. t \in Nodes /\ wire[c][t] = "request" /\ vouched' = vouched
      BY <1>3, <2>3 DEF PeerHandles
    <3>3. Own(Self, Message(c)) \subseteq vouched
      <4>1. ~Put(c) => <<Key(c), Self>> \in vouched
        BY <1>1, <3>2 DEF NetInv
      <4>2. QED  BY <1>1, <4>1, MessageType DEF Own
    <3>4. /\ Message(c) \in RequestType /\ Message(c).key = Key(c)
          /\ Message(c).value = call[c].value
      BY <1>1, MessageType
    <3>5. /\ records' \in [Nodes -> [Keys -> Stored]]
          /\ since' \in [Calls -> [Nodes -> SUBSET Stored]]
          /\ SinceInv' /\ StaysStored
          /\ providers' \in [Nodes -> SUBSET (Keys \X Everyone)]
          /\ \A m \in Nodes : providers'[m] \subseteq providers[m] \cup Own(Self, Message(c))
      BY <1>1, <1>2, <1>3, <3>1, <3>2, <3>4, StoreAtOutcome
    <3>6. QED  BY <2>1, <3>2, <3>3, <3>5
  <2>4. CASE ~SendMessage(c, t) /\ ~PeerHandles(c, t)
    <3>1. UNCHANGED <<records, providers, since, vouched>>
      BY <2>4 DEF NetStep, SendFails, Lost, ForeignAnswers, Answered, ReadFails
    <3>2. SinceInv' /\ StaysStored
      BY <1>1, <1>2, <3>1, SinceSame
    <3>3. QED  BY <2>1, <3>1, <3>2
  <2>5. QED  BY <2>2, <2>3, <2>4
<1>5. /\ sent' \in [Calls -> [Targets -> {"none", "waiting", "success", "failed"}]]
      /\ wire' \in [Calls -> [Targets -> {"none", "request", "same", "other"}]]
      /\ \A d \in Calls, u \in Targets : d # c \/ u # t =>
           sent'[d][u] = sent[d][u] /\ wire'[d][u] = wire[d][u]
  <2>1. /\ sent \in [Calls -> [Targets -> {"none", "waiting", "success", "failed"}]]
        /\ wire \in [Calls -> [Targets -> {"none", "request", "same", "other"}]]
    BY <1>1 DEF TypeOK
  <2>2. /\ \E x \in {"none", "waiting", "success", "failed"} : sent' = [sent EXCEPT ![c][t] = x]
        /\ \E x \in {"none", "request", "same", "other"} : wire' = [wire EXCEPT ![c][t] = x]
    <3>1. sent = [sent EXCEPT ![c][t] = sent[c][t]] /\ wire = [wire EXCEPT ![c][t] = wire[c][t]]
      BY <2>1
    <3>2. /\ sent[c][t] \in {"none", "waiting", "success", "failed"}
          /\ wire[c][t] \in {"none", "request", "same", "other"}
      BY <2>1
    <3>3. QED
      BY <3>1, <3>2 DEF NetStep, SendMessage, SendFails, Lost, PeerHandles, ForeignAnswers,
         Answered, ReadFails, SetSent, SetWire
  <2>3. QED  BY <2>1, <2>2
<1>6. /\ sent[c][t] = "success" => sent'[c][t] = "success"
      /\ wire'[c][t] # "none" \/ sent'[c][t] # "none" => Key(c) # NoKey
      /\ wire'[c][t] # "none" /\ ~Put(c) => <<Key(c), Self>> \in vouched'
      /\ sent'[c][t] = "waiting" => Put(c)
      /\ Put(c) /\ t \in Peers /\ (wire'[c][t] = "same" \/ sent'[c][t] = "success") =>
           StoredAt(c, t)'
      /\ wire'[c][t] = "other" => t \in Foreign
  <2>1. /\ wire[c][t] # "none" \/ sent[c][t] # "none" => Key(c) # NoKey
        /\ wire[c][t] # "none" /\ ~Put(c) => <<Key(c), Self>> \in vouched
        /\ sent[c][t] = "waiting" => Put(c)
        /\ Put(c) /\ t \in Peers /\ (wire[c][t] = "same" \/ sent[c][t] = "success") =>
             StoredAt(c, t)
        /\ wire[c][t] = "other" => t \in Foreign
    BY <1>1 DEF NetInv
  <2>2. /\ sent \in [Calls -> [Targets -> {"none", "waiting", "success", "failed"}]]
        /\ wire \in [Calls -> [Targets -> {"none", "request", "same", "other"}]]
    BY <1>1 DEF TypeOK
  <2>3. Peers \cap Foreign = {}
    OBVIOUS
  <2>4. t \in Peers /\ StoredAt(c, t) => StoredAt(c, t)'
    BY <1>3, <1>4 DEF StaysStored
  <2>5. CASE SendMessage(c, t)
    <3>1. /\ sent'[c][t] = (IF Put(c) THEN "waiting" ELSE "success") /\ wire'[c][t] = "request"
          /\ sent[c][t] = "none" /\ pc[c] = "publish"
          /\ ~Put(c) => <<Key(c), Self>> \in vouched'
      BY <2>2, <2>5 DEF SendMessage, SetSent, SetWire, ExpectResponse
    <3>2. Key(c) # NoKey
      BY <1>1, <3>1 DEF CallInv
    <3>3. QED  BY <3>1, <3>2
  <2>6. CASE SendFails(c, t)
    <3>1. /\ sent'[c][t] = "failed" /\ wire'[c][t] = wire[c][t] /\ sent[c][t] = "none"
          /\ pc[c] = "publish"
      BY <2>2, <2>6 DEF SendFails, SetSent
    <3>2. Key(c) # NoKey
      BY <1>1, <3>1 DEF CallInv
    <3>3. QED  BY <1>4, <2>1, <2>4, <3>1, <3>2
  <2>7. CASE Lost(c, t)
    <3>1. sent'[c][t] = sent[c][t] /\ wire'[c][t] = "none" /\ wire[c][t] = "request"
      BY <2>2, <2>7 DEF Lost, SetWire
    <3>2. QED  BY <2>1, <2>4, <3>1
  <2>8. CASE PeerHandles(c, t)
    <3>1. PICK o \in handle(t, Self, Message(c)) :
            /\ StoreAt(t, o, IF o.reply = "echo" THEN {c} ELSE {})
            /\ SetWire(c, t, IF o.reply = "echo" /\ sent[c][t] = "waiting" THEN "same" ELSE "none")
      BY <2>8 DEF PeerHandles
    <3>2. sent'[c][t] = sent[c][t] /\ wire[c][t] = "request" /\ t \in Nodes
      BY <1>3, <2>8 DEF PeerHandles
    <3>3. /\ wire'[c][t] \in {"same", "none"}
          /\ wire'[c][t] = "same" => o.reply = "echo" /\ sent[c][t] = "waiting"
      BY <2>2, <3>1 DEF SetWire
    <3>4. wire'[c][t] = "same" => StoredAt(c, t)'
      <4>1. /\ Message(c) \in RequestType /\ Message(c).key = Key(c)
            /\ Message(c).value = call[c].value
        BY <1>1, MessageType
      <4>2. o.reply = "echo" => StoredAt(c, t)'
        BY <1>1, <1>2, <1>3, <3>1, <3>2, <4>1, StoreAtOutcome
      <4>3. QED  BY <3>3, <4>2
    <3>5. QED  BY <1>4, <2>1, <2>4, <3>2, <3>3, <3>4
  <2>9. CASE ForeignAnswers(c, t)
    <3>1. /\ sent'[c][t] = "waiting" /\ sent[c][t] = "waiting" /\ wire[c][t] = "request"
          /\ t \in Foreign /\ wire'[c][t] \in {"same", "other"}
      BY <2>2, <2>9 DEF ForeignAnswers, SetWire
    <3>2. QED  BY <1>4, <2>1, <2>3, <3>1
  <2>10. CASE Answered(c, t)
    <3>1. /\ sent[c][t] = "waiting" /\ wire'[c][t] = "none"
          /\ sent'[c][t] = IF verifyStoredRecord(c, wire[c][t]) THEN "success" ELSE "failed"
          /\ wire[c][t] \in {"same", "other"}
      BY <2>2, <2>10 DEF Answered, SetSent, SetWire
    <3>2. Put(c) /\ sent'[c][t] = "success" => wire[c][t] = "same"
      BY <3>1 DEF verifyStoredRecord
    <3>3. QED  BY <2>1, <2>4, <3>1, <3>2
  <2>11. CASE ReadFails(c, t)
    <3>1. /\ sent[c][t] = "waiting" /\ sent'[c][t] = "failed"
          /\ wire'[c][t] \in {"none", "request"}
          /\ wire'[c][t] = "request" => wire[c][t] = "request"
      BY <2>2, <2>11 DEF ReadFails, SetSent, SetWire
    <3>2. QED  BY <1>4, <2>1, <3>1
  <2>12. QED  BY <2>5, <2>6, <2>7, <2>8, <2>9, <2>10, <2>11 DEF NetStep
<1>7. TypeOK'
  BY <1>1, <1>2, <1>4, <1>5 DEF TypeOK
<1>8. \A d \in Calls : Key(d)' = Key(d) /\ (Put(d)' <=> Put(d)) /\ Key(d) \in Keys \cup {NoKey}
  BY <1>1, <1>2, Typed DEF Key, Put
<1>9. NetInv'
  <2> SUFFICES ASSUME NEW d \in Calls, NEW u \in Targets
               PROVE  /\ wire'[d][u] # "none" \/ sent'[d][u] # "none" => Key(d) # NoKey
                      /\ wire'[d][u] # "none" /\ ~Put(d) => <<Key(d), Self>> \in vouched'
                      /\ sent'[d][u] = "waiting" => Put(d)
                      /\ Put(d) /\ u \in Peers
                           /\ (wire'[d][u] = "same" \/ sent'[d][u] = "success") =>
                           StoredAt(d, u)'
                      /\ wire'[d][u] = "other" => u \in Foreign
    BY <1>2, <1>8 DEF NetInv
  <2>1. CASE d = c /\ u = t
    BY <1>6, <2>1
  <2>2. CASE d # c \/ u # t
    <3>1. sent'[d][u] = sent[d][u] /\ wire'[d][u] = wire[d][u]
      BY <1>5, <2>2
    <3>2. /\ wire[d][u] # "none" \/ sent[d][u] # "none" => Key(d) # NoKey
          /\ wire[d][u] # "none" /\ ~Put(d) => <<Key(d), Self>> \in vouched
          /\ sent[d][u] = "waiting" => Put(d)
          /\ Put(d) /\ u \in Peers /\ (wire[d][u] = "same" \/ sent[d][u] = "success") =>
               StoredAt(d, u)
          /\ wire[d][u] = "other" => u \in Foreign
      BY <1>1 DEF NetInv
    <3>3. u \in Peers /\ StoredAt(d, u) => StoredAt(d, u)'
      BY <1>3, <1>4 DEF StaysStored
    <3>4. QED  BY <1>4, <1>8, <3>1, <3>2, <3>3
  <2>3. QED  BY <2>1, <2>2
<1>10. \A d \in Calls, u \in Targets : sent[d][u] = "success" => sent'[d][u] = "success"
  BY <1>5, <1>6
<1>11. CallInv'
  BY <1>2, <1>4, <1>10, CallsKept
<1>12. KeyInv' /\ ProvidedKeysSurvive'
  BY <1>2, KeysKept
<1>13. NothingUnvouched'
  BY <1>2, <1>4 DEF IInv, NothingUnvouched
<1>14. QED  BY <1>4, <1>7, <1>9, <1>11, <1>12, <1>13 DEF IInv

(* A step of one call, from one place to another, that neither sends nor   *)
(* receives.  What CallInv says of the place it comes to is what the step  *)
(* must show; the rest is kept.                                            *)
LEMMA CallMoves ==
  ASSUME IInv, NEW c \in Calls, NEW to \in PCs, pc' = [pc EXCEPT ![c] = to],
         UNCHANGED <<call, sent, wire, up>>, StaysStored,
         vouched \subseteq vouched',
         targets' = targets \/ (pc[c] = "announce" /\ to = "publish"),
         \A d \in Calls : d # c => targets'[d] = targets[d],
         targets' \in [Calls -> SUBSET Targets],
         Key(c) = NoKey => to \in {"idle", "failed"},
         to \in Active => up,
         to \in {"register", "index"} => call[c].op = "provide" /\ call[c].register,
         to \in {"delete", "unindex"} => call[c].op = "remove",
         Put(c) /\ to \in {"announce", "publish", "done"} => StoredAt(c, Self)',
         Put(c) /\ to = "done" /\ call[c].online => StoreSuccess(c) # {}
  PROVE  NetInv' /\ CallInv'
<1>1. /\ CallInv /\ Self \in Nodes
      /\ targets \in [Calls -> SUBSET Targets] /\ pc \in [Calls -> PCs]
  BY DEF IInv, TypeOK, Nodes
<1>2. pc'[c] = to /\ \A d \in Calls : d # c => pc'[d] = pc[d]
  BY <1>1
<1>3. NetInv'
  BY NetKept
<1>4. \A d \in Calls : Key(d)' = Key(d) /\ (Put(d)' <=> Put(d))
  BY DEF Key, Put
<1>5. CallInv'
  <2> SUFFICES ASSUME NEW d \in Calls
               PROVE  /\ Key(d) = NoKey => pc'[d] \in {"idle", "failed"}
                      /\ pc'[d] \in Active => up
                      /\ pc'[d] \in {"register", "index"} =>
                           call[d].op = "provide" /\ call[d].register
                      /\ pc'[d] \in {"delete", "unindex"} => call[d].op = "remove"
                      /\ Put(d) /\ pc'[d] \in {"announce", "publish", "done"} =>
                           StoredAt(d, Self)'
                      /\ Put(d) /\ pc'[d] = "done" /\ call[d].online =>
                           StoreSuccess(d)' # {}
    BY <1>4 DEF CallInv
  <2>1. CASE d = c
    <3>1. to = "done" => StoreSuccess(c)' = StoreSuccess(c)
      BY DEF StoreSuccess
    <3>2. QED  BY <1>2, <2>1, <3>1
  <2>2. CASE d # c
    <3>1. StoreSuccess(d)' = StoreSuccess(d)
      BY <2>2 DEF StoreSuccess
    <3>2. StoredAt(d, Self) => StoredAt(d, Self)'
      BY <1>1 DEF StaysStored
    <3>3. QED  BY <1>1, <1>2, <2>2, <3>1, <3>2 DEF CallInv
  <2>3. QED  BY <2>1, <2>2
<1>6. QED  BY <1>3, <1>5

LEMMA OtherCallMoves ==
  ASSUME IInv, NEW c \in Calls, NEW to \in PCs, pc' = [pc EXCEPT ![c] = to],
         UNCHANGED <<call, targets, sent, wire, records, since, now, fetch, vouched, up>>,
         up, Key(c) # NoKey, ~Put(c),
         to \in {"register", "index"} => call[c].op = "provide" /\ call[c].register,
         to \in {"delete", "unindex"} => call[c].op = "remove"
  PROVE  NetInv' /\ CallInv' /\ SinceInv'
<1>1. targets' \in [Calls -> SUBSET Targets] /\ SinceInv
  BY DEF IInv, TypeOK
<1>2. SinceInv' /\ StaysStored
  BY <1>1, SinceSame
<1>3. /\ vouched \subseteq vouched' /\ targets' = targets
      /\ \A d \in Calls : d # c => targets'[d] = targets[d]
  OBVIOUS
<1>4. QED  BY <1>1, <1>2, <1>3, CallMoves

(* A move of a call that changes nothing but its place, nor starts to      *)
(* index a key.                                                            *)
LEMMA GotoIInv ==
  ASSUME IInv, NEW c \in Calls, NEW from, NEW to \in PCs, GotoOnly(c, from, to),
         to \notin {"idle", "index"},
         Key(c) = NoKey => to = "failed",
         to \in Active => up,
         to = "register" => call[c].op = "provide" /\ call[c].register,
         to \in {"delete", "unindex"} => call[c].op = "remove",
         Put(c) => to \notin {"announce", "publish"},
         Put(c) /\ to = "done" => StoredAt(c, Self),
         Put(c) /\ to = "done" /\ call[c].online => StoreSuccess(c) # {}
  PROVE  IInv'
<1> USE DEF callVars, loadVars, planVars, netVars, storeVars, keyVars, lifeVars, foreignVars,
            outside
<1>1. /\ pc' = [pc EXCEPT ![c] = to]
      /\ UNCHANGED <<loadVars, planVars, netVars, storeVars, keyVars, lifeVars, outside>>
  BY DEF GotoOnly, Goto
<1>2. TypeOK /\ NothingUnvouched /\ pc \in [Calls -> PCs] /\ SinceInv
  BY DEF IInv, TypeOK
<1>3. SinceInv' /\ StaysStored
  BY <1>1, <1>2, SinceSame
<1>4. NetInv' /\ CallInv'
  <2>1. /\ targets' = targets /\ vouched \subseteq vouched'
        /\ UNCHANGED <<call, sent, wire, up>>
    BY <1>1
  <2>2. Put(c) /\ to \in {"announce", "publish", "done"} => StoredAt(c, Self)'
    BY <1>1 DEF StoredAt
  <2>3. to \in {"register", "index"} => call[c].op = "provide" /\ call[c].register
    OBVIOUS
  <2>4. Key(c) = NoKey => to \in {"idle", "failed"}
    OBVIOUS
  <2>5. /\ targets' \in [Calls -> SUBSET Targets]
        /\ \A d \in Calls : d # c => targets'[d] = targets[d]
    BY <1>2, <2>1 DEF TypeOK
  <2>6. QED  BY <1>1, <1>3, <2>1, <2>2, <2>3, <2>4, <2>5, CallMoves
<1>5. KeyInv' /\ ProvidedKeysSurvive'
  BY <1>1, <1>2, KeysKept
<1>6. TypeOK' /\ NothingUnvouched'
  BY <1>1, <1>2 DEF TypeOK, NothingUnvouched
<1>7. QED  BY <1>3, <1>4, <1>5, <1>6 DEF IInv

(* Keys are added to the provide set before they are indexed, and removed  *)
(* by calls of Remove.                                                     *)
LEMMA AddToDiskIInv ==
  ASSUME IInv, NEW c \in Calls, AddToDisk(c)
  PROVE  IInv'
<1> USE DEF callVars, loadVars, planVars, netVars, storeVars, keyVars, lifeVars, foreignVars,
            outside
<1>1. TypeOK /\ NetInv /\ CallInv /\ KeyInv /\ NothingUnvouched /\ ProvidedKeysSurvive
  BY DEF IInv
<1>2. /\ pc[c] = "register" /\ Key(c) \in Keys /\ up
      /\ call[c].op = "provide" /\ call[c].register /\ ~Put(c)
  <2>1. pc[c] = "register"
    BY DEF AddToDisk, GotoOnly, Goto
  <2>2. QED  BY <1>1, <2>1, Typed DEF CallInv, Active, Key, Put
<1>3. CASE GotoOnly(c, "register", "failed")
  BY <1>2, <1>3, GotoIInv DEF PCs, Active
<1>4. CASE /\ Goto(c, "register", "index")
           /\ disk' = disk \cup {Key(c)}
           /\ UNCHANGED <<loadVars, planVars, netVars, storeVars, index, registered,
                          lifeVars, outside>>
  <2>1. pc' = [pc EXCEPT ![c] = "index"] /\ "index" \in PCs
    BY <1>4 DEF Goto, PCs, Active
  <2>2. TypeOK'
    BY <1>1, <1>2, <1>4, <2>1 DEF TypeOK
  <2>3. NetInv' /\ CallInv' /\ SinceInv'
    <3>1. Key(c) # NoKey
      BY <1>2, ConstantsAssumption
    <3>2. QED  BY <1>2, <1>4, <2>1, <3>1, OtherCallMoves
  <2>4. \A k : Removed(k)' => Removed(k) \/ k = Key(c)
    BY <1>1, <1>4, <2>1 DEF Removed, TypeOK, Key
  <2>5. \A k : Removed(k) => Removed(k)'
    BY <1>1, <1>2, <1>4, <2>1 DEF Removed, TypeOK, Key
  <2>6. \A d \in Calls : Key(d)' = Key(d) /\ (pc'[d] = "index" => d = c \/ pc[d] = "index")
    BY <1>1, <1>4, <2>1 DEF TypeOK, Key
  <2>7. KeyInv' /\ ProvidedKeysSurvive'
    BY <1>1, <1>2, <1>4, <2>5, <2>6 DEF KeyInv, ProvidedKeysSurvive
  <2>8. NothingUnvouched'
    BY <1>1, <1>4 DEF NothingUnvouched
  <2>9. QED  BY <2>2, <2>3, <2>7, <2>8 DEF IInv
<1>5. QED  BY <1>3, <1>4 DEF AddToDisk

LEMMA AddToIndexIInv ==
  ASSUME IInv, NEW c \in Calls, AddToIndex(c)
  PROVE  IInv'
<1> USE DEF callVars, loadVars, planVars, netVars, storeVars, keyVars, lifeVars, foreignVars,
            outside
<1>1. TypeOK /\ NetInv /\ CallInv /\ KeyInv /\ NothingUnvouched /\ ProvidedKeysSurvive
  BY DEF IInv
<1>2. /\ pc[c] = "index" /\ pc' = [pc EXCEPT ![c] = "store"] /\ "store" \in PCs
      /\ index' = index \cup {Key(c)} /\ registered' = registered \cup {Key(c)}
      /\ UNCHANGED <<loadVars, planVars, netVars, storeVars, disk, lifeVars, outside>>
  BY DEF AddToIndex, Goto, PCs, Active
<1>3. Key(c) \in Keys /\ up /\ call[c].op = "provide" /\ ~Put(c) /\ Key(c) # NoKey
  BY <1>1, <1>2, Typed DEF CallInv, Active, Key, Put
<1>4. TypeOK'
  BY <1>1, <1>2, <1>3 DEF TypeOK
<1>5. NetInv' /\ CallInv' /\ SinceInv'
  BY <1>2, <1>3, OtherCallMoves
<1>6. \A k : Removed(k) => Removed(k)'
  BY <1>1, <1>2 DEF Removed, TypeOK, Key
<1>7. \A d \in Calls : Key(d)' = Key(d) /\ (pc'[d] = "index" => pc[d] = "index")
  BY <1>1, <1>2 DEF TypeOK, Key
<1>8. ~Removed(Key(c)) => Key(c) \in disk
  BY <1>1, <1>2 DEF KeyInv
<1>9. KeyInv' /\ ProvidedKeysSurvive'
  BY <1>1, <1>2, <1>3, <1>6, <1>7, <1>8 DEF KeyInv, ProvidedKeysSurvive
<1>10. NothingUnvouched'
  BY <1>1, <1>2 DEF NothingUnvouched
<1>11. QED  BY <1>4, <1>5, <1>9, <1>10 DEF IInv

(* What a removal takes away is its own key, which counts as removed.      *)
LEMMA RemovalIInv ==
  ASSUME IInv, NEW c \in Calls, RemoveFromDisk(c) \/ RemoveFromIndex(c)
  PROVE  IInv'
<1> USE DEF callVars, loadVars, planVars, netVars, storeVars, keyVars, lifeVars, foreignVars,
            outside
<1>1. TypeOK /\ NetInv /\ CallInv /\ KeyInv /\ NothingUnvouched /\ ProvidedKeysSurvive
  BY DEF IInv
<1>2. pc[c] \in {"delete", "unindex"}
  BY DEF RemoveFromDisk, RemoveFromIndex, GotoOnly, Goto
<1>3. Key(c) \in Keys /\ up /\ call[c].op = "remove" /\ ~Put(c) /\ Key(c) # NoKey
  BY <1>1, <1>2, Typed DEF CallInv, Active, Key, Put
<1>4. CASE GotoOnly(c, "delete", "failed")
  BY <1>3, <1>4, GotoIInv DEF PCs, Active
<1>5. CASE ~GotoOnly(c, "delete", "failed")
  <2>1. PICK to \in {"unindex", "done"} : pc' = [pc EXCEPT ![c] = to]
    BY <1>5 DEF RemoveFromDisk, RemoveFromIndex, Goto
  <2>2. /\ disk' \in {disk, disk \ {Key(c)}} /\ index' \in {index, index \ {Key(c)}}
        /\ UNCHANGED <<loadVars, planVars, netVars, storeVars, registered, lifeVars, outside>>
    BY <1>5 DEF RemoveFromDisk, RemoveFromIndex
  <2>3. to \in PCs /\ to \notin {"idle", "index"}
    BY DEF PCs, Active
  <2>4. TypeOK'
    BY <1>1, <2>1, <2>2, <2>3 DEF TypeOK
  <2>5. NetInv' /\ CallInv' /\ SinceInv'
    BY <1>3, <2>1, <2>2, <2>3, OtherCallMoves
  <2>6. \A k : Removed(k) => Removed(k)'
    BY <1>1, <2>1, <2>2, <2>3 DEF Removed, TypeOK, Key
  <2>7. \A d \in Calls : Key(d)' = Key(d) /\ (pc'[d] = "index" => pc[d] = "index")
    BY <1>1, <2>1, <2>2, <2>3 DEF TypeOK, Key
  <2>8. Removed(Key(c))'
    BY <1>1, <1>3, <2>1, <2>2, <2>3 DEF Removed, TypeOK, Key
  <2>9. KeyInv' /\ ProvidedKeysSurvive'
    BY <1>1, <2>2, <2>6, <2>7, <2>8 DEF KeyInv, ProvidedKeysSurvive
  <2>10. NothingUnvouched'
    BY <1>1, <2>2 DEF NothingUnvouched
  <2>11. QED  BY <2>4, <2>5, <2>9, <2>10 DEF IInv
<1>6. QED  BY <1>4, <1>5

(* What a call stores at the DHT is a value that may replace what is there *)
(* or its own provider record, vouched for in the same step.               *)
LEMMA StoreLocallyIInv ==
  ASSUME IInv, NEW c \in Calls, StoreLocally(c)
  PROVE  IInv'
<1> USE DEF callVars, loadVars, planVars, netVars, storeVars, keyVars, lifeVars, foreignVars,
            outside
<1>1. TypeOK /\ NetInv /\ CallInv /\ SinceInv /\ NothingUnvouched
  BY DEF IInv
<1>2. pc[c] = "store" /\ Key(c) \in Keys /\ up /\ Key(c) # NoKey /\ Self \in Nodes
  <2>1. pc[c] = "store"
    BY DEF StoreLocally, GotoOnly, Goto
  <2>2. QED  BY <1>1, <2>1, Typed, ConstantsAssumption DEF CallInv, Active, Key, Nodes
<1>3. CASE GotoOnly(c, "store", "failed")
  BY <1>2, <1>3, GotoIInv DEF PCs, Active
<1>4. CASE ~GotoOnly(c, "store", "failed")
  <2>1. PICK to \in {"announce", "done"} :
          /\ pc' = [pc EXCEPT ![c] = to]
          /\ to = IF call[c].online THEN "announce" ELSE "done"
    BY <1>4 DEF StoreLocally, Goto
  <2>2. UNCHANGED <<loadVars, planVars, netVars, keyVars, lifeVars, foreignVars>>
    BY <1>4 DEF StoreLocally
  <2>3. /\ records \in [Nodes -> [Keys -> Stored]]
        /\ since \in [Calls -> [Nodes -> SUBSET Stored]]
        /\ providers \in [Nodes -> SUBSET (Keys \X Everyone)]
        /\ vouched \subseteq (Keys \cup {NoKey}) \X Everyone
        /\ \A m \in Nodes : providers[m] \subseteq vouched
        /\ call[c].value \in Vals /\ now \in Times
    BY <1>1, Typed DEF TypeOK, NothingUnvouched
  <2>4. /\ records' \in [Nodes -> [Keys -> Stored]]
        /\ since' \in [Calls -> [Nodes -> SUBSET Stored]]
        /\ SinceInv' /\ StaysStored
        /\ Put(c) => StoredAt(c, Self)'
    <3>1. CASE Put(c)
      <4> DEFINE recs == [records[Self] EXCEPT ![Key(c)] = Record(call[c].value, now)]
      <4>1. /\ Replaceable(records[Self][Key(c)], call[c].value, now)
            /\ records' = [records EXCEPT ![Self][Key(c)] = Record(call[c].value, now)]
            /\ Note(Self, records'[Self], {c})
        BY <1>4, <3>1 DEF StoreLocally
      <4>2. Record(call[c].value, now) \in Stored
        BY <2>3, RecordStored
      <4>3. /\ recs \in [Keys -> Stored] /\ recs[Key(c)] = Record(call[c].value, now)
            /\ \A k \in Keys : k # Key(c) => recs[k] = records[Self][k]
        BY <1>2, <2>3, <4>2
      <4>4. \A k \in Keys : Changed(records[Self][k], recs[k])
        BY <2>3, <4>1, <4>3 DEF Changed
      <4>5. records' = [records EXCEPT ![Self] = recs] /\ records'[Self] = recs
        BY <1>2, <2>3, <4>1
      <4>6. Note(Self, recs, {c})
        BY <4>1, <4>5
      <4> HIDE DEF recs
      <4>7. /\ \A d \in {c} : Key(d) \in Keys /\ recs[Key(d)] = Record(call[d].value, now)
            /\ {c} \in SUBSET Calls /\ c \in {c}
            /\ UNCHANGED <<call, now, fetch>>
        BY <1>2, <2>2, <4>3
      <4>8. /\ records' \in [Nodes -> [Keys -> Stored]]
            /\ since' \in [Calls -> [Nodes -> SUBSET Stored]]
            /\ SinceInv' /\ StaysStored
            /\ \A d \in {c} : StoredAt(d, Self)'
        BY <1>1, <1>2, <4>3, <4>4, <4>5, <4>6, <4>7, NoteKeeps
      <4>9. QED  BY <4>8
    <3>2. CASE ~Put(c)
      <4>1. UNCHANGED <<call, records, since, now, fetch>>
        BY <1>4, <2>2, <3>2 DEF StoreLocally
      <4>2. SinceInv' /\ StaysStored
        BY <1>1, <4>1, SinceSame
      <4>3. QED  BY <2>3, <3>2, <4>1, <4>2
    <3>3. QED  BY <3>1, <3>2
  <2>5. /\ providers' \in [Nodes -> SUBSET (Keys \X Everyone)]
        /\ vouched \subseteq vouched' /\ vouched' \subseteq (Keys \cup {NoKey}) \X Everyone
        /\ \A m \in Nodes : providers'[m] \subseteq vouched'
    <3>1. CASE Put(c)
      BY <1>4, <2>3, <3>1 DEF StoreLocally
    <3>2. CASE ~Put(c)
      <4>1. /\ providers' = [providers EXCEPT ![Self] = WithProvider(Self, Key(c), Self)]
            /\ vouched' = vouched \cup {<<Key(c), Self>>}
        BY <1>4, <3>2 DEF StoreLocally
      <4>2. <<Key(c), Self>> \in Keys \X Everyone
        BY <1>2 DEF Everyone
      <4>3. QED  BY <1>2, <2>3, <4>1, <4>2 DEF WithProvider
    <3>3. QED  BY <3>1, <3>2
  <2>6. TypeOK'
    BY <1>1, <2>1, <2>2, <2>4, <2>5 DEF TypeOK, PCs, Active
  <2>7. to \in PCs /\ to \notin {"idle", "index", "register", "delete", "unindex", "publish"}
    BY DEF PCs, Active
  <2>8. NetInv' /\ CallInv'
    <3>1. /\ targets' = targets /\ targets' \in [Calls -> SUBSET Targets]
          /\ \A d \in Calls : d # c => targets'[d] = targets[d]
          /\ UNCHANGED <<call, sent, wire, up>>
      BY <1>1, <2>2 DEF TypeOK
    <3>2. Put(c) /\ to = "done" /\ call[c].online => StoreSuccess(c) # {}
      BY <2>1
    <3>3. QED  BY <1>2, <2>1, <2>4, <2>5, <2>7, <3>1, <3>2, CallMoves
  <2>9. KeyInv' /\ ProvidedKeysSurvive'
    <3>1. \A d \in Calls : /\ pc[d] # "idle" => pc'[d] # "idle"
                           /\ pc'[d] = "index" => pc[d] = "index"
      BY <1>1, <2>1, <2>7 DEF TypeOK
    <3>2. QED  BY <2>2, <3>1, KeysKept
  <2>10. NothingUnvouched'
    BY <1>1, <2>2, <2>5 DEF NothingUnvouched
  <2>11. QED  BY <2>4, <2>6, <2>8, <2>9, <2>10 DEF IInv
<1>5. QED  BY <1>3, <1>4

LEMMA PublishBeginsIInv ==
  ASSUME IInv, NEW c \in Calls, PublishBegins(c)
  PROVE  IInv'
<1> USE DEF callVars, loadVars, planVars, netVars, storeVars, keyVars, lifeVars, foreignVars,
            outside
<1>1. TypeOK /\ NetInv /\ CallInv /\ SinceInv /\ NothingUnvouched
  BY DEF IInv
<1>2. /\ pc[c] = "announce" /\ pc' = [pc EXCEPT ![c] = "publish"]
      /\ "publish" \in PCs /\ "publish" \in Active
      /\ UNCHANGED <<loadVars, netVars, storeVars, keyVars, lifeVars, outside>>
  BY DEF PublishBegins, Goto, PCs, Active
<1>3. PICK T \in SUBSET Targets : targets' = [targets EXCEPT ![c] = T]
  BY DEF PublishBegins
<1>4. \E b \in BOOLEAN : carries' = [carries EXCEPT ![c] = b /\ ~Put(c)]
  BY DEF PublishBegins
<1>5. TypeOK'
  <2>1. carries' \in [Calls -> BOOLEAN] /\ targets' \in [Calls -> SUBSET Targets]
    BY <1>1, <1>3, <1>4 DEF TypeOK
  <2>2. QED  BY <1>1, <1>2, <2>1 DEF TypeOK
<1>6. NetInv' /\ CallInv' /\ SinceInv'
  <2>1. SinceInv' /\ StaysStored
    BY <1>1, <1>2, SinceSame
  <2>2. /\ targets' \in [Calls -> SUBSET Targets]
        /\ \A d \in Calls : d # c => targets'[d] = targets[d]
    BY <1>1, <1>3 DEF TypeOK
  <2>3. /\ vouched \subseteq vouched' /\ UNCHANGED <<call, sent, wire, up>>
    BY <1>2
  <2>4. /\ up /\ Key(c) # NoKey
        /\ Put(c) => StoredAt(c, Self)'
    BY <1>1, <1>2 DEF CallInv, Active, StoredAt
  <2>5. QED  BY <1>2, <2>1, <2>2, <2>3, <2>4, CallMoves
<1>7. KeyInv' /\ ProvidedKeysSurvive'
  <2>1. \A d \in Calls : /\ pc[d] # "idle" => pc'[d] # "idle"
                         /\ pc'[d] = "index" => pc[d] = "index"
    BY <1>1, <1>2 DEF TypeOK
  <2>2. QED  BY <1>2, <2>1, KeysKept
<1>8. NothingUnvouched'
  BY <1>1, <1>2 DEF NothingUnvouched
<1>9. QED  BY <1>5, <1>6, <1>7, <1>8 DEF IInv

(* The remaining moves of a call.                                          *)
LEMMA MoveIInv ==
  ASSUME IInv, NEW c \in Calls,
         CallFails(c) \/ CallBegins(c) \/ PublishReturns(c) \/ PublishFails(c)
  PROVE  IInv'
<1>1. TypeOK /\ CallInv
  BY DEF IInv
<1>2. call[c].op \in {"put", "provide", "survey", "remove"}
  BY <1>1, Typed DEF CallType
<1>3. /\ "failed" \in PCs /\ "failed" \notin Active
      /\ \A to \in {"store", "register", "announce", "delete", "done"} : to \in PCs
  BY DEF PCs, Active
<1>4. CASE CallFails(c) \/ PublishFails(c)
  <2>1. PICK from \in {"idle", "publish"} : GotoOnly(c, from, "failed")
    BY <1>4 DEF CallFails, PublishFails
  <2>2. QED  BY <1>3, <2>1, GotoIInv
<1>5. CASE CallBegins(c)
  <2>1. up /\ Key(c) # NoKey
    BY <1>5 DEF CallBegins
  <2>2. PICK to \in {"store", "register", "announce", "delete"} :
          /\ GotoOnly(c, "idle", to)
          /\ to = "register" => call[c].op = "provide" /\ call[c].register
          /\ to = "delete" => call[c].op = "remove"
          /\ to = "announce" => call[c].op = "survey"
    BY <1>2, <1>5 DEF CallBegins, Put
  <2>3. Put(c) => to \notin {"announce", "publish", "done"}
    BY <2>2 DEF Put
  <2>4. QED  BY <1>3, <2>1, <2>2, <2>3, GotoIInv
<1>6. CASE PublishReturns(c)
  <2>1. pc[c] = "publish"
    BY <1>6 DEF PublishReturns, GotoOnly, Goto
  <2>2. up /\ Key(c) # NoKey /\ (Put(c) => StoredAt(c, Self))
    BY <1>1, <2>1 DEF CallInv, Active
  <2>3. PICK to \in {"done", "failed"} :
          GotoOnly(c, "publish", to) /\ (to = "done" => StoreSuccess(c) # {})
    BY <1>6 DEF PublishReturns
  <2>4. QED  BY <1>3, <2>2, <2>3, GotoIInv
<1>7. QED  BY <1>4, <1>5, <1>6

(* A foreign node vouches for no more than its own record, which is all    *)
(* that the handlers take from it.                                         *)
LEMMA ForeignRequestIInv ==
  ASSUME IInv, NEW from \in Foreign, NEW n \in Nodes, NEW req \in world.requests,
         ForeignRequest(from, n, req)
  PROVE  IInv'
<1> USE DEF callVars, loadVars, planVars, netVars, storeVars, keyVars, lifeVars, foreignVars,
            outside
<1>1. TypeOK /\ NothingUnvouched /\ SinceInv
  BY DEF IInv
<1>2. /\ foreign < MaxForeign /\ foreign' = foreign + 1
      /\ vouched' = vouched \cup Own(from, req)
      /\ UNCHANGED <<callVars, netVars, keyVars, lifeVars>>
  BY DEF ForeignRequest, Own
<1>3. req \in RequestType /\ from \in Everyone
  BY <1>1, Typed DEF Everyone, WorldType
<1>4. PICK o \in handle(n, from, req) :
        /\ StoreAt(n, o, {})
        /\ echoed' = IF o.reply = "echo" THEN echoed \cup Named(stripPeerRecords(req))
                     ELSE echoed
  BY DEF ForeignRequest
<1>5. /\ records' \in [Nodes -> [Keys -> Stored]]
      /\ since' \in [Calls -> [Nodes -> SUBSET Stored]]
      /\ SinceInv' /\ StaysStored
      /\ providers' \in [Nodes -> SUBSET (Keys \X Everyone)]
      /\ \A m \in Nodes : providers'[m] \subseteq providers[m] \cup Own(from, req)
  <2>1. UNCHANGED <<call, now, fetch>>
    BY <1>2
  <2>2. \A c \in {} : o.reply = "echo" /\ Key(c) = req.key /\ call[c].value = req.value
    OBVIOUS
  <2>3. QED  BY <1>1, <1>3, <1>4, <2>1, <2>2, StoreAtOutcome
<1>6. echoed' = echoed
  <2>1. /\ stripPeerRecords(req).closer = {} /\ stripPeerRecords(req).providers = <<>>
    BY <1>3 DEF stripPeerRecords, RequestType
  <2>2. Named(stripPeerRecords(req)) = {}
    <3>1. Range(<<>>) = {}
      BY DEF Range
    <3>2. QED  BY <2>1, <3>1 DEF Named
  <2>3. QED  BY <1>4, <2>2
<1>7. vouched \subseteq vouched' /\ vouched' \subseteq (Keys \cup {NoKey}) \X Everyone
  <2>1. req.key \in Keys \cup {NoKey}
    BY <1>3 DEF RequestType
  <2>2. Own(from, req) \subseteq (Keys \cup {NoKey}) \X Everyone
    BY <1>3, <2>1 DEF Own
  <2>3. QED  BY <1>1, <1>2, <2>2 DEF TypeOK
<1>8. foreign' \in 0 .. MaxForeign
  BY <1>1, <1>2, ConstantsAssumption DEF TypeOK
<1>9. TypeOK'
  BY <1>1, <1>2, <1>5, <1>6, <1>7, <1>8 DEF TypeOK
<1>10. NetInv'
  BY <1>2, <1>5, <1>7, NetKept
<1>11. CallInv'
  BY <1>2, <1>5, CallsKept
<1>12. KeyInv' /\ ProvidedKeysSurvive'
  BY <1>2, KeysKept
<1>13. NothingUnvouched'
  BY <1>1, <1>2, <1>5, <1>6 DEF NothingUnvouched
<1>14. QED  BY <1>5, <1>9, <1>10, <1>11, <1>12, <1>13 DEF IInv

-----------------------------------------------------------------------------
(* A Fetch deletes what it found unusable: what it had read from a node is *)
(* among what the node has had since it stored a value.                    *)

(* Fetches that end, on their own or with the DHT.                         *)
LEMMA FetchesEnd ==
  ASSUME SinceInv, UNCHANGED <<call, records, since, now>>,
         \A f \in Fetches : fetch'[f] \in {fetch[f], IdleFetch}
  PROVE  SinceInv' /\ StaysStored
<1>1. ASSUME NEW n \in Nodes, NEW k, k # NoKey, NEW f \in Fetches
      PROVE  Seen(n, k)'[f] \in {Seen(n, k)[f], NoRec}
  BY <1>1 DEF Seen, IdleFetch
<1>2. QED  BY <1>1 DEF SinceInv, StaysStored, StoredAt, Kept, Key

LEMMA FetchStepIInv ==
  ASSUME IInv, NEW f \in Fetches, FetchStep(f)
  PROVE  IInv'
<1> USE DEF callVars, loadVars, planVars, netVars, storeVars, keyVars, lifeVars, foreignVars,
            outside
<1>1. TypeOK /\ SinceInv /\ NothingUnvouched /\ IdleFetch.key = NoKey
      /\ fetch \in [Fetches -> [node : Nodes, key : Keys \cup {NoKey}, rec : Stored]]
      /\ records \in [Nodes -> [Keys -> Stored]]
  BY DEF IInv, TypeOK, IdleFetch
<1>2. IdleFetch \in [node : Nodes, key : Keys \cup {NoKey}, rec : Stored]
  BY DEF IdleFetch, Nodes, Stored
<1>3. UNCHANGED <<callVars, netVars, providers, since, keyVars, up, crashes, now, outside>>
  BY DEF FetchStep, FetchReads, FetchRemoves, FetchEnds
<1>4. /\ records' \in [Nodes -> [Keys -> Stored]]
      /\ fetch' \in [Fetches -> [node : Nodes, key : Keys \cup {NoKey}, rec : Stored]]
      /\ SinceInv' /\ StaysStored
  <2>1. CASE FetchEnds(f)
    <3>1. records' = records /\ fetch' = [fetch EXCEPT ![f] = IdleFetch]
      BY <2>1 DEF FetchEnds
    <3>2. \A g \in Fetches : fetch'[g] \in {fetch[g], IdleFetch}
      BY <1>1, <3>1
    <3>3. QED  BY <1>1, <1>2, <1>3, <3>1, <3>2, FetchesEnd
  <2>2. CASE \E n \in Nodes, k \in Keys : FetchReads(f, n, k)
    <3>1. PICK n \in Nodes, k \in Keys :
            /\ records' = records
            /\ fetch' = [fetch EXCEPT ![f] = [node |-> n, key |-> k, rec |-> records[n][k]]]
      BY <2>2 DEF FetchReads
    <3>2. fetch' \in [Fetches -> [node : Nodes, key : Keys \cup {NoKey}, rec : Stored]]
      BY <1>1, <3>1
    <3>3. ASSUME NEW m \in Nodes, NEW j, NEW g \in Fetches
          PROVE  Seen(m, j)'[g] \in {Seen(m, j)[g], NoRec, records[m][j]}
      BY <1>1, <3>1 DEF Seen
    <3>4. ASSUME NEW c \in Calls, NEW m \in Nodes, StoredAt(c, m), NEW g \in Fetches
          PROVE  Seen(m, Key(c))'[g] \in since[c][m] \cup {NoRec}
      <4>1. Key(c)' = Key(c)
        BY <1>3 DEF Key
      <4>2. /\ Seen(m, Key(c))[g] \in since[c][m] \cup {NoRec}
            /\ records[m][Key(c)] \in since[c][m] \cup {NoRec}
        BY <1>1, <3>4 DEF SinceInv
      <4>3. Seen(m, Key(c))'[g] \in {Seen(m, Key(c))[g], NoRec, records[m][Key(c)]}
        BY <3>3, <4>1
      <4>4. QED  BY <4>2, <4>3
    <3>5. SinceInv'
      <4>1. ASSUME NEW c \in Calls, NEW m \in Nodes
            PROVE  /\ StoredAt(c, m)' <=> StoredAt(c, m)
                   /\ Key(c)' = Key(c) /\ records'[m] = records[m]
                   /\ Kept(c, m)' <=> Kept(c, m)
        BY <1>3, <3>1 DEF StoredAt, Key, Kept
      <4>2. QED  BY <1>1, <1>3, <3>4, <4>1 DEF SinceInv
    <3>6. StaysStored
      BY <1>3 DEF StaysStored, StoredAt
    <3>7. QED  BY <1>1, <3>1, <3>2, <3>5, <3>6
  <2>3. CASE FetchRemoves(f)
    <3> DEFINE m == fetch[f].node
               j == fetch[f].key
    <3>1. /\ Unusable(fetch[f].rec, now) /\ fetch' = [fetch EXCEPT ![f] = IdleFetch]
          /\ records' = [records EXCEPT ![m][j] = NoRec]
      BY <2>3 DEF FetchRemoves
    <3>2. m \in Nodes /\ j \in Keys \cup {NoKey} /\ NoRec \in Stored
      BY <1>1 DEF Stored
    <3>3. /\ records' \in [Nodes -> [Keys -> Stored]]
          /\ fetch' \in [Fetches -> [node : Nodes, key : Keys \cup {NoKey}, rec : Stored]]
          /\ \A n \in Nodes, k \in Keys :
               records'[n][k] = IF n = m /\ k = j THEN NoRec ELSE records[n][k]
      <4>1. CASE j \in Keys
        <5>1. records' \in [Nodes -> [Keys -> Stored]]
          BY <1>1, <3>1, <3>2, <4>1
        <5>2. \A n \in Nodes, k \in Keys :
                records'[n][k] = IF n = m /\ k = j THEN NoRec ELSE records[n][k]
          BY <1>1, <3>1, <3>2, <4>1
        <5>3. fetch' \in [Fetches -> [node : Nodes, key : Keys \cup {NoKey}, rec : Stored]]
          BY <1>1, <1>2, <3>1
        <5>4. QED  BY <5>1, <5>2, <5>3
      <4>2. CASE j = NoKey
        <5>1. records' = records
          BY <1>1, <3>1, <3>2, <4>2, ConstantsAssumption
        <5>2. fetch' \in [Fetches -> [node : Nodes, key : Keys \cup {NoKey}, rec : Stored]]
          BY <1>1, <1>2, <3>1
        <5>3. \A k \in Keys : k # j
          BY <4>2, ConstantsAssumption
        <5>4. QED  BY <1>1, <5>1, <5>2, <5>3
      <4>3. QED  BY <3>2, <4>1, <4>2
    <3>4. ASSUME NEW n \in Nodes, NEW k, k # NoKey, NEW g \in Fetches
          PROVE  Seen(n, k)'[g] \in {Seen(n, k)[g], NoRec}
      BY <1>1, <3>1, <3>4 DEF Seen
    <3>5. Seen(m, j)[f] = fetch[f].rec /\ ~Unusable(NoRec, now)
      BY DEF Seen, Unusable, NoRec
    <3>6. ASSUME NEW c \in Calls, NEW n \in Nodes, StoredAt(c, n)
          PROVE  /\ Key(c) # NoKey
                 /\ records'[n][Key(c)] \in since[c][n] \cup {NoRec}
                 /\ \A g \in Fetches : Seen(n, Key(c))'[g] \in since[c][n] \cup {NoRec}
                 /\ \/ AtLeast(records'[n][Key(c)], call[c].value)
                    \/ \E r \in since[c][n] :
                         Unusable(r, now)
                           \/ (AtLeast(r, call[c].value) /\ ~ValidVal(r.val, now))
      <4>1. /\ Key(c) \in Keys /\ Key(c) # NoKey
            /\ records[n][Key(c)] \in since[c][n] \cup {NoRec}
            /\ \A g \in Fetches : Seen(n, Key(c))[g] \in since[c][n] \cup {NoRec}
            /\ Kept(c, n)
        BY <1>1, <3>6, Typed DEF SinceInv, Key
      <4>2. \A g \in Fetches : Seen(n, Key(c))'[g] \in since[c][n] \cup {NoRec}
        <5>1. Key(c)' = Key(c)
          BY <1>3 DEF Key
        <5>2. \A g \in Fetches : Seen(n, Key(c))'[g] \in {Seen(n, Key(c))[g], NoRec}
          BY <3>4, <4>1, <5>1
        <5>3. QED  BY <4>1, <5>2
      <4>3. CASE n = m /\ Key(c) = j
        <5>1. fetch[f].rec \in since[c][n]
          BY <3>1, <3>5, <4>1, <4>3
        <5>2. QED  BY <3>1, <3>3, <4>1, <4>2, <4>3, <5>1
      <4>4. CASE n # m \/ Key(c) # j
        <5>1. records'[n][Key(c)] = records[n][Key(c)]
          BY <3>3, <4>1, <4>4
        <5>2. QED  BY <4>1, <4>2, <5>1 DEF Kept
      <4>5. QED  BY <4>3, <4>4
    <3>7. SinceInv'
      BY <1>3, <3>6 DEF SinceInv, StoredAt, Kept, Key
    <3>8. StaysStored
      BY <1>3 DEF StaysStored, StoredAt
    <3>9. QED  BY <3>3, <3>7, <3>8
  <2>4. QED  BY <2>1, <2>2, <2>3 DEF FetchStep
<1>5. TypeOK'
  BY <1>1, <1>3, <1>4 DEF TypeOK
<1>6. NetInv' /\ CallInv'
  BY <1>3, <1>4, NetKept, CallsKept
<1>7. KeyInv' /\ ProvidedKeysSurvive'
  BY <1>3, KeysKept
<1>8. NothingUnvouched'
  BY <1>1, <1>3 DEF NothingUnvouched
<1>9. QED  BY <1>4, <1>5, <1>6, <1>7, <1>8 DEF IInv

(* What is too old or has expired stays so.                                *)
LEMMA TickIInv ==
  ASSUME IInv, Tick
  PROVE  IInv'
<1> USE DEF callVars, loadVars, planVars, netVars, storeVars, keyVars, lifeVars, foreignVars,
            outside
<1>1. TypeOK /\ SinceInv /\ NothingUnvouched /\ now \in Nat /\ world.until \in Nat
      /\ since \in [Calls -> [Nodes -> SUBSET Stored]]
  BY Typed, ConstantsAssumption DEF IInv, TypeOK, Times
<1>2. /\ now < world.until /\ now' = now + 1
      /\ UNCHANGED <<callVars, netVars, storeVars, keyVars, up, crashes, fetch, outside>>
  BY DEF Tick
<1>3. now' \in 0 .. world.until
  BY <1>1, <1>2
<1>4. ASSUME NEW r \in Stored
      PROVE  /\ Unusable(r, now) => Unusable(r, now')
             /\ r.kind = "record" /\ ~ValidVal(r.val, now) => ~ValidVal(r.val, now')
  <2>1. /\ r.kind = "record" => r.val \in Vals /\ r.received \in Nat
        /\ \A v \in Vals : v.eol \in Int
    BY StoredFields
  <2>2. MaxAge \in Nat
    BY ConstantsAssumption
  <2>3. QED  BY <1>1, <1>2, <2>1, <2>2 DEF Unusable, ValidVal
<1>5. SinceInv' /\ StaysStored
  <2>1. \A n, k : Seen(n, k)' = Seen(n, k)
    BY <1>2 DEF Seen
  <2>2. ASSUME NEW c \in Calls, NEW n \in Nodes, Kept(c, n) PROVE Kept(c, n)'
    <3>1. CASE AtLeast(records[n][Key(c)], call[c].value)
      BY <1>2, <3>1 DEF Kept, Key
    <3>2. ASSUME NEW r \in since[c][n],
                 Unusable(r, now) \/ (AtLeast(r, call[c].value) /\ ~ValidVal(r.val, now))
          PROVE  Kept(c, n)'
      <4>1. r \in Stored
        BY <1>1
      <4>2. Unusable(r, now') \/ (AtLeast(r, call[c].value) /\ ~ValidVal(r.val, now'))
        BY <1>4, <3>2, <4>1 DEF AtLeast
      <4>3. QED  BY <1>2, <4>2 DEF Kept
    <3>3. QED  BY <2>2, <3>1, <3>2 DEF Kept
  <2>3. QED  BY <1>1, <1>2, <2>1, <2>2 DEF SinceInv, StaysStored, StoredAt, Key
<1>6. TypeOK'
  BY <1>1, <1>2, <1>3 DEF TypeOK
<1>7. NetInv' /\ CallInv'
  BY <1>2, <1>5, NetKept, CallsKept
<1>8. KeyInv' /\ ProvidedKeysSurvive'
  BY <1>2, KeysKept
<1>9. NothingUnvouched'
  BY <1>1, <1>2 DEF NothingUnvouched
<1>10. QED  BY <1>5, <1>6, <1>7, <1>8, <1>9 DEF IInv

(* A crash forgets what was on its way to the DHT, the calls and the       *)
(* index, and nothing that has been stored or promised.                    *)
LEMMA CrashIInv ==
  ASSUME IInv, Crash
  PROVE  IInv'
<1> USE DEF callVars, loadVars, planVars, netVars, storeVars, keyVars, lifeVars, foreignVars,
            outside
<1>1. /\ TypeOK /\ NetInv /\ CallInv /\ SinceInv /\ KeyInv
      /\ NothingUnvouched /\ ProvidedKeysSurvive
  BY DEF IInv
<1>2. /\ up' = FALSE /\ crashes < MaxCrashes /\ crashes' = crashes + 1 /\ index' = {}
      /\ UNCHANGED <<loadVars, planVars, storeVars, disk, registered, now, outside>>
  BY DEF Crash
<1>3. /\ pc' = [c \in Calls |-> IF pc[c] \in Active THEN "crashed" ELSE pc[c]]
      /\ pc' \in [Calls -> PCs] /\ "crashed" \notin Active
      /\ \A c \in Calls : /\ pc'[c] \notin Active
                          /\ pc'[c] = "done" => pc[c] = "done"
                          /\ pc[c] # "idle" => pc'[c] # "idle"
                          /\ Key(c) = NoKey => pc'[c] \in {"idle", "failed"}
  BY <1>1 DEF Crash, TypeOK, PCs, Active, CallInv
<1>4. /\ sent' \in [Calls -> [Targets -> {"none", "waiting", "success", "failed"}]]
      /\ wire' \in [Calls -> [Targets -> {"none", "request", "same", "other"}]]
      /\ \A c \in Calls, t \in Targets :
           /\ sent'[c][t] = IF sent[c][t] = "waiting" THEN "failed" ELSE sent[c][t]
           /\ wire'[c][t] = IF wire[c][t] \in {"same", "other"} THEN "none" ELSE wire[c][t]
  <2>1. \A c \in Calls, t \in Targets :
           /\ sent[c][t] \in {"none", "waiting", "success", "failed"}
           /\ wire[c][t] \in {"none", "request", "same", "other"}
    BY <1>1 DEF TypeOK
  <2>2. /\ sent' = [c \in Calls |-> [t \in Targets |->
                      IF sent[c][t] = "waiting" THEN "failed" ELSE sent[c][t]]]
        /\ wire' = [c \in Calls |-> [t \in Targets |->
                      IF wire[c][t] \in {"same", "other"} THEN "none" ELSE wire[c][t]]]
    BY DEF Crash
  <2>3. QED  BY <2>1, <2>2
<1>5. TypeOK' /\ SinceInv'
  <2>1. crashes' \in 0 .. MaxCrashes
    BY <1>1, <1>2, ConstantsAssumption DEF TypeOK
  <2>2. /\ fetch' \in [Fetches -> [node : Nodes, key : Keys \cup {NoKey}, rec : Stored]]
        /\ \A f \in Fetches : fetch'[f] \in {fetch[f], IdleFetch}
    <3>1. IdleFetch \in [node : Nodes, key : Keys \cup {NoKey}, rec : Stored]
      BY DEF IdleFetch, Nodes, Stored
    <3>2. fetch' = [f \in Fetches |-> IF fetch[f].node = Self THEN IdleFetch ELSE fetch[f]]
      BY DEF Crash
    <3>3. QED  BY <1>1, <3>1, <3>2 DEF TypeOK
  <2>3. SinceInv' /\ StaysStored
    BY <1>1, <1>2, <2>2, FetchesEnd
  <2>4. QED  BY <1>1, <1>2, <1>3, <1>4, <2>1, <2>2, <2>3 DEF TypeOK
<1>6. \A c \in Calls : /\ Key(c)' = Key(c) /\ (Put(c)' <=> Put(c))
                       /\ \A n : StoredAt(c, n)' <=> StoredAt(c, n)
  BY <1>2 DEF Key, Put, StoredAt
<1>7. NetInv'
  BY <1>1, <1>2, <1>4, <1>6 DEF NetInv
<1>8. CallInv'
  <2>1. \A c \in Calls : StoreSuccess(c)' = StoreSuccess(c)
    BY <1>1, <1>2, <1>4 DEF StoreSuccess, TypeOK
  <2>2. QED  BY <1>1, <1>2, <1>3, <1>6, <2>1 DEF CallInv, Active
<1>9. KeyInv' /\ ProvidedKeysSurvive'
  <2>1. \A k : Removed(k) => Removed(k)'
    BY <1>2, <1>3, <1>6 DEF Removed
  <2>2. \A c \in Calls : pc'[c] # "index"
    BY <1>3 DEF Active
  <2>3. QED  BY <1>1, <1>2, <2>1, <2>2 DEF KeyInv, ProvidedKeysSurvive
<1>10. NothingUnvouched'
  BY <1>1, <1>2 DEF NothingUnvouched
<1>11. QED  BY <1>5, <1>7, <1>8, <1>9, <1>10 DEF IInv

(* The index is read from the datastore, which has every registered key.   *)
LEMMA RestartIInv ==
  ASSUME IInv, Restart
  PROVE  IInv'
<1> USE DEF callVars, loadVars, planVars, netVars, storeVars, keyVars, lifeVars, foreignVars,
            outside
<1>1. /\ TypeOK /\ NetInv /\ CallInv /\ SinceInv /\ KeyInv
      /\ NothingUnvouched /\ ProvidedKeysSurvive
  BY DEF IInv
<1>2. /\ up' = TRUE /\ index' = disk
      /\ UNCHANGED <<callVars, netVars, storeVars, disk, registered, crashes, now, fetch, outside>>
  BY DEF Restart
<1>3. TypeOK'
  BY <1>1, <1>2 DEF TypeOK
<1>4. SinceInv' /\ StaysStored
  BY <1>1, <1>2, SinceSame
<1>5. NetInv'
  BY <1>2, <1>4, NetKept
<1>6. CallInv'
  BY <1>1, <1>2 DEF CallInv, Key, Put, StoredAt, StoreSuccess
<1>7. KeyInv' /\ ProvidedKeysSurvive'
  <2>1. \A k : Removed(k)' <=> Removed(k)
    BY <1>2 DEF Removed, Key
  <2>2. QED  BY <1>1, <1>2, <2>1 DEF KeyInv, ProvidedKeysSurvive, Key
<1>8. NothingUnvouched'
  BY <1>1, <1>2 DEF NothingUnvouched
<1>9. QED  BY <1>3, <1>4, <1>5, <1>6, <1>7, <1>8 DEF IInv

LEMMA NextIInv ==
  ASSUME IInv, [Next]_vars
  PROVE  IInv'
<1>1. ASSUME NEW c \in Calls, CallFails(c) \/ CallBegins(c) \/ CallStep(c) \/ PublishFails(c)
      PROVE  IInv'
  BY <1>1, AddToDiskIInv, AddToIndexIInv, RemovalIInv, StoreLocallyIInv, PublishBeginsIInv,
     MoveIInv DEF CallStep
<1>2. ASSUME NEW c \in Calls, NEW t \in Targets, NetStep(c, t) PROVE IInv'
  BY <1>2, NetStepIInv
<1>3. ASSUME NEW from \in Foreign, NEW n \in Nodes, NEW req \in world.requests,
             ForeignRequest(from, n, req)
      PROVE  IInv'
  BY <1>3, ForeignRequestIInv
<1>4. ASSUME NEW f \in Fetches, FetchStep(f) PROVE IInv'
  BY <1>4, FetchStepIInv
<1>5. CASE Tick \/ Crash \/ Restart
  BY <1>5, TickIInv, CrashIInv, RestartIInv
<1>6. CASE UNCHANGED vars
  <2>1. /\ UNCHANGED <<call, world, pc, targets, carries, sent, wire, records, providers>>
        /\ UNCHANGED <<since, disk, index, registered, up, crashes, now, fetch>>
        /\ UNCHANGED <<foreign, echoed, vouched>>
    BY <1>6 DEF vars, callVars, loadVars, planVars, netVars, storeVars, keyVars, lifeVars,
       foreignVars, outside
  <2>2. TypeOK' /\ NothingUnvouched'
    BY <2>1 DEF IInv, TypeOK, NothingUnvouched
  <2>3. NetInv' /\ CallInv' /\ SinceInv' /\ KeyInv' /\ ProvidedKeysSurvive'
    BY <2>1, StoresKept
  <2>4. QED  BY <2>2, <2>3 DEF IInv
<1>7. QED  BY <1>1, <1>2, <1>3, <1>4, <1>5, <1>6 DEF Next

(* The strengthened invariant, which the runs check, holds in every        *)
(* reachable state: what is on the wire and in the index is what the       *)
(* promises to the callers need.                                           *)
THEOREM IInvHolds == Spec => []IInv
<1>1. Init => IInv  BY InitIInv
<1>2. IInv /\ [Next]_vars => IInv'  BY NextIInv
<1>3. QED  BY <1>1, <1>2, PTL DEF Spec

(* What PutValue reports as stored is stored, at the DHT and at the nodes  *)
(* of this code that it counted, and it or a better value is found there   *)
(* until a value at least as good that the node has had since expires, or  *)
(* a record that it has had, or that was being fetched, is too old or      *)
(* unreadable.  The proof needs SinceInv: what a late Fetch will delete is *)
(* something that it has read from this node, so that its deleting shows   *)
(* that one of those is unusable.                                          *)
THEOREM PutValueStores == Spec => []PutValueIsStored
<1>1. IInv => PutValueIsStored
  <2> SUFFICES ASSUME IInv, NEW c \in Calls, Put(c), pc[c] = "done",
                      NEW n \in {Self} \cup (StoreSuccess(c) \cap Peers)
               PROVE  StoredAt(c, n) /\ Kept(c, n)
    BY DEF PutValueIsStored, IInv, CallInv
  <2>1. targets \in [Calls -> SUBSET Targets] /\ n \in Nodes
    BY DEF IInv, TypeOK, Nodes
  <2>2. StoredAt(c, n)
    <3>1. CASE n = Self
      BY <3>1 DEF IInv, CallInv
    <3>2. CASE n \in StoreSuccess(c) /\ n \in Peers
      BY <2>1, <3>2 DEF IInv, NetInv, StoreSuccess
    <3>3. QED  BY <3>1, <3>2
  <2>3. QED  BY <2>1, <2>2 DEF IInv, SinceInv
<1>2. QED  BY <1>1, IInvHolds, PTL

(* Nobody can make a node of this code list somebody else as a provider,   *)
(* nor pass on peers in an answer to a request to store.                   *)
THEOREM OnlyVouchedRecords == Spec => []NothingUnvouched
<1>1. IInv => NothingUnvouched  BY DEF IInv
<1>2. QED  BY <1>1, IInvHolds, PTL

(* A key that Provide has registered survives crashes at any point of its  *)
(* own or of any other call.                                               *)
THEOREM RegisteredKeysSurvive == Spec => []ProvidedKeysSurvive
<1>1. IInv => ProvidedKeysSurvive  BY DEF IInv
<1>2. QED  BY <1>1, IInvHolds, PTL

-----------------------------------------------------------------------------
(* What the nodes store, seen one record at a time: each node and key is a *)
(* register of RecordRegister, which RecordBackend implements.             *)

Register(n, k) ==
  INSTANCE RecordRegister
    WITH Readers <- Fetches, reg <- records[n][k], seen <- Seen(n, k)

(* A step that is not of a Fetch replaces records only as the backend does.*)
LEMMA StepChanges ==
  ASSUME IInv, NEW n \in Nodes, NEW k \in Keys,
         \/ \E c \in Calls : CallFails(c) \/ CallBegins(c) \/ CallStep(c) \/ PublishFails(c)
         \/ \E c \in Calls, t \in Targets : NetStep(c, t)
         \/ \E from \in Foreign, m \in Nodes, req \in world.requests :
              ForeignRequest(from, m, req)
  PROVE  Changed(records[n][k], records'[n][k]) /\ UNCHANGED <<now, fetch>>
<1> USE DEF callVars, loadVars, planVars, netVars, storeVars, keyVars, lifeVars, foreignVars,
            outside
<1>1. /\ TypeOK /\ NetInv /\ records \in [Nodes -> [Keys -> Stored]]
      /\ now \in Times /\ \A c \in Calls : call[c].value \in Vals
  BY Typed DEF IInv, TypeOK
<1>2. ASSUME records' = records PROVE Changed(records[n][k], records'[n][k])
  BY <1>2 DEF Changed
<1>3. ASSUME NEW m \in Nodes, NEW from \in Everyone, NEW req \in RequestType,
             NEW o \in handle(m, from, req), NEW C, StoreAt(m, o, C)
      PROVE  Changed(records[n][k], records'[n][k])
  <2>1. \A j \in Keys : Changed(records[m][j], o.records[j])
    BY <1>1, HandleOutcome
  <2>2. records' = [records EXCEPT ![m] = o.records]
    BY <1>3 DEF StoreAt
  <2>3. records'[n][k] = IF n = m THEN o.records[k] ELSE records[n][k]
    BY <1>1, <2>2
  <2>4. QED  BY <2>1, <2>3 DEF Changed
<1>4. ASSUME NEW c \in Calls, CallFails(c) \/ CallBegins(c) \/ CallStep(c) \/ PublishFails(c)
      PROVE  Changed(records[n][k], records'[n][k]) /\ UNCHANGED <<now, fetch>>
  <2>1. /\ UNCHANGED <<now, fetch>>
        /\ \/ records' = records
           \/ /\ Replaceable(records[Self][Key(c)], call[c].value, now)
              /\ records' = [records EXCEPT ![Self][Key(c)] = Record(call[c].value, now)]
    BY <1>4 DEF CallFails, CallBegins, CallStep, PublishFails, AddToDisk, AddToIndex,
       RemoveFromDisk, RemoveFromIndex, StoreLocally, PublishBegins, PublishReturns, GotoOnly
  <2>2. CASE records' # records
    <3>1. records'[n][k] = IF n = Self /\ k = Key(c) THEN Record(call[c].value, now)
                           ELSE records[n][k]
      BY <1>1, <2>1, <2>2
    <3>2. QED  BY <1>1, <2>1, <2>2, <3>1 DEF Changed
  <2>3. QED  BY <1>2, <2>1, <2>2
<1>5. ASSUME NEW c \in Calls, NEW t \in Targets, NetStep(c, t)
      PROVE  Changed(records[n][k], records'[n][k]) /\ UNCHANGED <<now, fetch>>
  <2>1. CASE PeerHandles(c, t)
    <3>1. t \in Nodes /\ Self \in Everyone /\ Message(c) \in RequestType
      BY <1>1, <2>1, MessageType DEF PeerHandles, Nodes, Everyone
    <3>2. /\ UNCHANGED <<now, fetch>>
          /\ \E o \in handle(t, Self, Message(c)), C \in {{c}, {}} : StoreAt(t, o, C)
      BY <2>1 DEF PeerHandles
    <3>3. QED  BY <1>3, <3>1, <3>2
  <2>2. CASE ~PeerHandles(c, t)
    <3>1. UNCHANGED <<records, now, fetch>>
      BY <1>5, <2>2 DEF NetStep, SendMessage, SendFails, Lost, ForeignAnswers, Answered,
         ReadFails
    <3>2. QED  BY <1>2, <3>1
  <2>3. QED  BY <2>1, <2>2
<1>6. ASSUME NEW from \in Foreign, NEW m \in Nodes, NEW req \in world.requests,
             ForeignRequest(from, m, req)
      PROVE  Changed(records[n][k], records'[n][k]) /\ UNCHANGED <<now, fetch>>
  <2>1. from \in Everyone /\ req \in RequestType
    BY <1>1, Typed DEF Everyone, WorldType
  <2>2. QED  BY <1>3, <1>6, <2>1 DEF ForeignRequest
<1>7. QED  BY <1>4, <1>5, <1>6

(* A step of a Fetch is one of a reader, at the node and key it fetches.   *)
LEMMA FetchIsReader ==
  ASSUME IInv, NEW n \in Nodes, NEW k \in Keys, NEW f \in Fetches, FetchStep(f)
  PROVE  \/ Register(n, k)!Read(f) \/ Register(n, k)!Remove(f) \/ Register(n, k)!Forget(f)
         \/ UNCHANGED Register(n, k)!vars
<1>1. /\ records \in [Nodes -> [Keys -> Stored]] /\ IdleFetch.key = NoKey /\ k # NoKey
      /\ fetch \in [Fetches -> [node : Nodes, key : Keys \cup {NoKey}, rec : Stored]]
  BY ConstantsAssumption DEF IInv, TypeOK, IdleFetch
<1>2. now' = now
  BY DEF FetchStep, FetchReads, FetchRemoves, FetchEnds
<1>3. ASSUME fetch' = [fetch EXCEPT ![f] = IdleFetch]
      PROVE  Seen(n, k)' = [Seen(n, k) EXCEPT ![f] = NoRec]
  BY <1>1, <1>3 DEF Seen
<1>4. CASE FetchEnds(f)
  <2>1. records' = records /\ Seen(n, k)' = [Seen(n, k) EXCEPT ![f] = NoRec]
    BY <1>3, <1>4 DEF FetchEnds, storeVars
  <2>2. Register(n, k)!Forget(f)
    BY <1>2, <2>1 DEF Register!Forget, Register!NoRec, NoRec
  <2>3. QED  BY <2>2
<1>5. CASE FetchRemoves(f)
  <2>1. /\ Unusable(fetch[f].rec, now) /\ Seen(n, k)' = [Seen(n, k) EXCEPT ![f] = NoRec]
        /\ records' = [records EXCEPT ![fetch[f].node][fetch[f].key] = NoRec]
    BY <1>3, <1>5 DEF FetchRemoves
  <2>2. CASE fetch[f].node = n /\ fetch[f].key = k
    <3>1. Seen(n, k)[f] = fetch[f].rec /\ records'[n][k] = NoRec
      BY <1>1, <2>1, <2>2 DEF Seen
    <3>2. Register(n, k)!Remove(f)
      BY <1>2, <2>1, <3>1 DEF Register!Remove, Register!NoRec, NoRec, Register!Unusable,
         Unusable
    <3>3. QED  BY <3>2
  <2>3. CASE fetch[f].node # n \/ fetch[f].key # k
    <3>1. records'[n][k] = records[n][k]
      BY <1>1, <2>1, <2>3
    <3>2. Register(n, k)!Forget(f)
      BY <1>2, <2>1, <3>1 DEF Register!Forget, Register!NoRec, NoRec
    <3>3. QED  BY <3>2
  <2>4. QED  BY <2>2, <2>3
<1>6. CASE \E m \in Nodes, j \in Keys : FetchReads(f, m, j)
  <2>1. PICK m \in Nodes, j \in Keys :
          /\ records' = records /\ fetch[f] = IdleFetch
          /\ fetch' = [fetch EXCEPT ![f] = [node |-> m, key |-> j, rec |-> records[m][j]]]
    BY <1>6 DEF FetchReads, storeVars
  <2>2. CASE m = n /\ j = k
    <3>1. Seen(n, k)' = [Seen(n, k) EXCEPT ![f] = records[n][k]]
      BY <1>1, <2>1, <2>2 DEF Seen
    <3>2. Register(n, k)!Read(f)
      BY <1>2, <2>1, <3>1 DEF Register!Read
    <3>3. QED  BY <3>2
  <2>3. CASE m # n \/ j # k
    <3>1. Seen(n, k)' = Seen(n, k)
      BY <1>1, <2>1, <2>3 DEF Seen
    <3>2. QED  BY <1>2, <2>1, <3>1 DEF Register!vars
  <2>4. QED  BY <2>2, <2>3
<1>7. QED  BY <1>4, <1>5, <1>6 DEF FetchStep

(* A crash ends the fetches at the DHT, which is a restart of its records. *)
LEMMA CrashIsRestart ==
  ASSUME IInv, NEW n \in Nodes, NEW k \in Keys, Crash
  PROVE  Register(n, k)!Restart \/ UNCHANGED Register(n, k)!vars
<1>1. /\ UNCHANGED <<records, now>> /\ IdleFetch.key = NoKey /\ k # NoKey
      /\ fetch' = [f \in Fetches |-> IF fetch[f].node = Self THEN IdleFetch ELSE fetch[f]]
  BY ConstantsAssumption DEF Crash, IdleFetch, storeVars
<1>2. CASE n = Self
  <2>1. Seen(n, k)' = [f \in Fetches |-> NoRec]
    BY <1>1, <1>2 DEF Seen
  <2>2. Register(n, k)!Restart
    BY <1>1, <2>1 DEF Register!Restart, Register!NoRec, NoRec
  <2>3. QED  BY <2>2
<1>3. CASE n # Self
  <2>1. Seen(n, k)' = Seen(n, k)
    BY <1>1, <1>3 DEF Seen
  <2>2. QED  BY <1>1, <2>1 DEF Register!vars
<1>4. QED  BY <1>2, <1>3

(* Every record of every node is a register of RecordRegister, through     *)
(* puts of this and of other nodes, late and repeated requests, fetches,   *)
(* failures of the backend, the passing of time and crashes: Publish takes *)
(* from a backend no more than RecordBackend grants.                       *)
THEOREM RecordsAreRegisters ==
  ASSUME NEW n \in Nodes, NEW k \in Keys
  PROVE  Spec => Register(n, k)!Spec
<1>1. Init => Register(n, k)!Init
  <2>1. ASSUME Init
        PROVE  /\ now = 0 /\ records[n][k] \in {NoRec, Corrupt}
               /\ Seen(n, k) = [f \in Fetches |-> NoRec]
    <3>1. now = 0 /\ records[n][k] \in {NoRec, Corrupt}
      BY <2>1 DEF Init
    <3>2. fetch = [f \in Fetches |-> IdleFetch] /\ IdleFetch.key # k
      BY <2>1, ConstantsAssumption DEF Init, IdleFetch
    <3>3. Seen(n, k) = [f \in Fetches |-> NoRec]
      BY <3>2 DEF Seen
    <3>4. QED  BY <3>1, <3>3
  <2>2. QED
    BY <2>1 DEF Register!Init, Register!NoRec, Register!Corrupt, NoRec, Corrupt
<1>2. ASSUME IInv, [Next]_vars
      PROVE  [Register(n, k)!Next]_(Register(n, k)!vars)
  <2>1. now \in Nat /\ world.until \in 0 .. MaxTime
    BY <1>2, Typed DEF IInv, Times
  <2>2. CASE Changed(records[n][k], records'[n][k]) /\ UNCHANGED <<now, fetch>>
    <3>1. Seen(n, k)' = Seen(n, k)
      BY <2>2 DEF Seen
    <3>2. CASE records'[n][k] = records[n][k]
      BY <2>2, <3>1, <3>2 DEF Register!vars
    <3>3. ASSUME NEW v \in Vals, Replaceable(records[n][k], v, now),
                 records'[n][k] = Record(v, now)
          PROVE  Register(n, k)!Next
      <4>1. Register(n, k)!Put(v, now)
        BY <2>2, <3>1, <3>3 DEF Register!Put, Register!Record, Record, Register!Replaceable,
           Replaceable, Register!ValidVal, ValidVal
      <4>2. now \in 0 .. now
        BY <2>1
      <4>3. QED  BY <4>1, <4>2 DEF Register!Next
    <3>4. QED  BY <2>2, <3>2, <3>3 DEF Changed
  <2>3. CASE \E f \in Fetches : FetchStep(f)
    BY <1>2, <2>3, FetchIsReader DEF Register!Next
  <2>4. CASE Tick
    <3>1. now < MaxTime /\ now' = now + 1 /\ UNCHANGED <<records, fetch>>
      BY <2>1, <2>4, ConstantsAssumption DEF Tick, storeVars
    <3>2. Seen(n, k)' = Seen(n, k)
      BY <3>1 DEF Seen
    <3>3. Register(n, k)!Tick
      BY <3>1, <3>2 DEF Register!Tick
    <3>4. QED  BY <3>3 DEF Register!Next
  <2>5. CASE Crash
    BY <1>2, <2>5, CrashIsRestart DEF Register!Next
  <2>6. CASE Restart \/ UNCHANGED vars
    <3>1. UNCHANGED <<records, now, fetch>>
      BY <2>6 DEF Restart, vars, storeVars, lifeVars
    <3>2. Seen(n, k)' = Seen(n, k)
      BY <3>1 DEF Seen
    <3>3. QED  BY <3>1, <3>2 DEF Register!vars
  <2>7. QED  BY <1>2, <2>2, <2>3, <2>4, <2>5, <2>6, StepChanges DEF Next
<1>3. QED  BY <1>1, <1>2, IInvHolds, PTL DEF Spec, Register!Spec
=============================================================================
