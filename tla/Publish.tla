------------------------------- MODULE Publish -------------------------------
(***************************************************************************)
(* Publishing: PutValue, Provide, ProvideOnce and the reprovide survey of  *)
(* one DHT (routing.go), the set of keys it reprovides (providerkeystore.  *)
(* go), the requests it sends (router.go) and the handlers that store what *)
(* they carry, at remote nodes and at the DHT itself (handlers.go).        *)
(*                                                                         *)
(* The coordinator chooses the closest nodes, sends a request to each and  *)
(* counts the answers: it is not part of this repository.  The datastore   *)
(* outlives a crash of the DHT; what a handler stores, it stores in one    *)
(* step, which RecordBackend and ProvidersBackend justify.  Values expire, *)
(* and whoever fetches a record (GetValue and GET_VALUE) deletes it when   *)
(* it is too old or unreadable.  All nodes have the same clock.            *)
(***************************************************************************)
EXTENDS Records, Sequences, SequencesExt

CONSTANTS
  Calls,     \* calls of the API, one after the other or at the same time
  Workloads, \* what the calls may be, and what happens around them
  Keys,      \* keys with a namespace, a path and a backend
  NoKey,     \* any other key
  Vals,      \* the values that are put: records [rank, eol]
  Self,      \* the DHT
  Peers,     \* remote nodes that run this code
  Foreign,   \* remote nodes that run any other code
  Fetches,   \* goroutines that fetch a record, at any node
  MaxTime, MaxForeign, MaxCrashes

Nodes == {Self} \cup Peers
Targets == Peers \cup Foreign
Everyone == Nodes \cup Foreign
Times == 0 .. MaxTime
Stored == {NoRec, Corrupt} \cup {Record(v, t) : v \in Vals, t \in Times}

(* Register distinguishes Provide from ProvideOnce, online a call that may *)
(* reach the network.  A survey is a step of the coordinator's schedule.   *)
CallType ==
  [op : {"put", "provide", "survey", "remove"}, key : Keys \cup {NoKey}, value : Vals,
   online : BOOLEAN, register : BOOLEAN]

(* A request: the key of its record may differ from its own, a value whose *)
(* time is over before it starts never validates; providers carry an       *)
(* address or not, and closer are peers that have no business in a request.*)
RequestType ==
  [type : {"PUT_VALUE", "ADD_PROVIDER"}, key : Keys \cup {NoKey},
   recKey : Keys \cup {NoKey}, value : Vals,
   providers : Seq([id : Everyone, addr : BOOLEAN]), closer : SUBSET Everyone]

(* What may happen besides: what foreign nodes send, the records that are  *)
(* fetched, and how long it goes on.                                       *)
WorldType ==
  [requests : SUBSET RequestType, reads : SUBSET (Nodes \X Keys), until : Times]

(* A workload also says which records of earlier runs are unreadable.      *)
WorkloadType ==
  [call : [Calls -> CallType], world : WorldType, corrupt : SUBSET (Nodes \X Keys)]

ASSUME ConstantsAssumption ==
  /\ Workloads \subseteq WorkloadType
  /\ NoKey \notin Keys
  /\ Vals \subseteq [rank : Nat, eol : Int]
  /\ MaxAge \in Nat /\ MaxTime \in Nat /\ MaxForeign \in Nat /\ MaxCrashes \in Nat
  /\ Self \notin Targets /\ Peers \cap Foreign = {}

VARIABLES
  call,      \* what the calls are
  world,     \* what may happen besides
  pc,        \* where each call is
  targets,   \* the nodes that the coordinator has chosen for a call
  sent,      \* what the coordinator knows of a call's request to a node
  wire,      \* that request, or the answer to it, while it is on its way
  carries,   \* does the provider record of a call carry an address?
  records,   \* what each node stores under each key
  providers, \* the provider records that each node stores
  since,     \* what a node has had under a call's key since it stored the value of
             \* the call, and what was being fetched then (history)
  disk,      \* the provide set in the datastore
  index,     \* the keystore's index of it
  registered, \* the keys whose registration has returned (history)
  up,        \* is the DHT running?
  crashes,   \* how often it crashed
  now,       \* the wall clock
  fetch,     \* the record that each Fetch under way has read, and where
  foreign,   \* how many requests foreign nodes have sent
  echoed,    \* the peers that answers to foreign nodes carried (history)
  vouched    \* the provider records that their own peer has sent (history)

loadVars == <<call, world>>
planVars == <<targets, carries>>
callVars == <<loadVars, pc, planVars>>
netVars == <<sent, wire>>
storeVars == <<records, providers, since>>
keyVars == <<disk, index, registered>>
lifeVars == <<up, crashes, now, fetch>>
foreignVars == <<foreign, echoed>>
outside == <<foreignVars, vouched>>
vars == <<callVars, netVars, storeVars, keyVars, lifeVars, outside>>

IdleFetch == [node |-> Self, key |-> NoKey, rec |-> NoRec]

Init ==
  /\ \E w \in Workloads :
       /\ call = w.call /\ world = w.world
       /\ records = [n \in Nodes |-> [k \in Keys |->
                       IF <<n, k>> \in w.corrupt THEN Corrupt ELSE NoRec]]
  /\ pc = [c \in Calls |-> "idle"]
  /\ targets = [c \in Calls |-> {}]
  /\ carries = [c \in Calls |-> FALSE]
  /\ sent = [c \in Calls |-> [t \in Targets |-> "none"]]
  /\ wire = [c \in Calls |-> [t \in Targets |-> "none"]]
  /\ providers = [n \in Nodes |-> {}]
  /\ since = [c \in Calls |-> [n \in Nodes |-> {}]]
  /\ disk = {} /\ index = {} /\ registered = {}
  /\ up = TRUE /\ crashes = 0
  /\ now = 0 /\ fetch = [f \in Fetches |-> IdleFetch]
  /\ foreign = 0 /\ echoed = {}
  /\ vouched = {}

Put(c) == call[c].op = "put"
Key(c) == call[c].key

-----------------------------------------------------------------------------
(* Handlers.  handle(n, req) is the set of what may come of a request at   *)
(* node n: what it stores, and whether it answers, by an echo, by nothing  *)
(* or by resetting the stream.                                             *)

Outcome(recs, provs, reply) == [records |-> recs, providers |-> provs, reply |-> reply]
Refused(n) == Outcome(records[n], providers[n], "reset")

PutIgnoringError(n, req) ==  \* mutant: answers although the backend failed
  IF req.key = NoKey \/ req.recKey # req.key \/ ~ValidVal(req.value, now) THEN {Refused(n)}
  ELSE {Outcome(records[n], providers[n], "echo")} \cup
    (IF ~Replaceable(records[n][req.key], req.value, now) THEN {}
     ELSE {Outcome([records[n] EXCEPT ![req.key] = Record(req.value, now)],
                   providers[n], "echo")})

(* The backend may fail, and refuses a value that does not validate and,   *)
(* while the one it has does, a worse one.                                 *)
handlePutValue(n, req) ==
  IF req.key = NoKey \/ req.recKey # req.key \/ ~ValidVal(req.value, now) THEN {Refused(n)}
  ELSE {Refused(n)} \cup
    (IF ~Replaceable(records[n][req.key], req.value, now) THEN {}
     ELSE {Outcome([records[n] EXCEPT ![req.key] = Record(req.value, now)],
                   providers[n], "echo")})

WithProvider(n, k, p) == providers[n] \cup {<<k, p>>}

AddUnchecked(n, from, req) ==  \* mutant: does not ask whose record it is
  IF req.key = NoKey \/ req.providers = <<>> \/ \E p \in Range(req.providers) : ~p.addr
  THEN {Refused(n)}
  ELSE {Refused(n), Outcome(records[n],
          providers[n] \cup {<<req.key, p.id>> : p \in Range(req.providers)}, "none")}

(* Every entry is looked at before one is stored; they are stored one by   *)
(* one, and an error of the backend leaves those before it.                *)
handleAddProvider(n, from, req) ==
  IF \/ req.key = NoKey
     \/ req.providers = <<>>
     \/ \E p \in Range(req.providers) : p.id # from \/ ~p.addr
  THEN {Refused(n)}
  ELSE LET stored == WithProvider(n, req.key, from) IN
       {Refused(n), Outcome(records[n], stored, "none")} \cup
       (IF Len(req.providers) > 1 THEN {Outcome(records[n], stored, "reset")} ELSE {})

handle(n, from, req) ==
  IF req.type = "PUT_VALUE" THEN handlePutValue(n, req)
  ELSE handleAddProvider(n, from, req)

(* What each Fetch under way has read of a record.                         *)
Seen(n, k) ==
  [f \in Fetches |->
     IF fetch[f].node = n /\ fetch[f].key = k THEN fetch[f].rec ELSE NoRec]

(* Node n now has the records recs, where the values of the calls C were   *)
(* stored by this step.                                                    *)
Note(n, recs, C) ==
  since' = [c \in Calls |-> [since[c] EXCEPT ![n] =
              IF c \in C THEN {recs[Key(c)]} \cup Range(Seen(n, Key(c)))
              ELSE IF @ = {} THEN {}
              ELSE @ \cup {recs[Key(c)]}]]

StoreAt(n, o, C) ==
  /\ records' = [records EXCEPT ![n] = o.records]
  /\ providers' = [providers EXCEPT ![n] = o.providers]
  /\ Note(n, o.records, C)

-----------------------------------------------------------------------------
(* Requests of the DHT: SendMessage and the handlers at the other end.     *)

(* The message of PutValue and of provideRecord.                           *)
Message(c) ==
  [type |-> IF Put(c) THEN "PUT_VALUE" ELSE "ADD_PROVIDER", key |-> Key(c),
   recKey |-> Key(c), value |-> call[c].value,
   providers |-> IF Put(c) THEN <<>> ELSE <<[id |-> Self, addr |-> carries[c]]>>,
   closer |-> {}]

ExpectResponse(c) == Put(c)

SetSent(c, t, s) == sent' = [sent EXCEPT ![c][t] = s]
SetWire(c, t, w) == wire' = [wire EXCEPT ![c][t] = w]

(* A request that draws no answer has succeeded when it is written.        *)
SendMessage(c, t) ==
  /\ pc[c] = "publish" /\ t \in targets[c] /\ sent[c][t] = "none"
  /\ SetSent(c, t, IF ExpectResponse(c) THEN "waiting" ELSE "success")
  /\ SetWire(c, t, "request")
  /\ vouched' = IF Put(c) THEN vouched ELSE vouched \cup {<<Key(c), Self>>}
  /\ UNCHANGED <<callVars, storeVars, keyVars, lifeVars, foreignVars>>

(* No address of the peer, no stream, or an error of the write.            *)
SendFails(c, t) ==
  /\ pc[c] = "publish" /\ t \in targets[c] /\ sent[c][t] = "none"
  /\ SetSent(c, t, "failed")
  /\ UNCHANGED <<callVars, wire, storeVars, keyVars, lifeVars, outside>>

(* What was written is lost with its connection.  (An answer that is lost  *)
(* is one that ReadFails does not read.)                                   *)
Lost(c, t) ==
  /\ wire[c][t] = "request"
  /\ SetWire(c, t, "none")
  /\ UNCHANGED <<callVars, sent, storeVars, keyVars, lifeVars, outside>>

(* A remote node of this code: the echo carries the record of the request, *)
(* and is of no use any more when nobody waits for it.                     *)
PeerHandles(c, t) ==
  /\ t \in Peers /\ wire[c][t] = "request"
  /\ \E o \in handle(t, Self, Message(c)) :
       /\ StoreAt(t, o, IF o.reply = "echo" THEN {c} ELSE {})
       /\ SetWire(c, t,
            IF o.reply = "echo" /\ sent[c][t] = "waiting" THEN "same" ELSE "none")
  /\ UNCHANGED <<callVars, sent, keyVars, lifeVars, outside>>

(* Any other node answers with the record, with something else, or not.    *)
ForeignAnswers(c, t) ==
  /\ t \in Foreign /\ wire[c][t] = "request" /\ sent[c][t] = "waiting"
  /\ \E w \in {"same", "other"} : SetWire(c, t, w)
  /\ UNCHANGED <<callVars, sent, storeVars, keyVars, lifeVars, outside>>

verifyStoredRecord(c, w) == Put(c) => w = "same"

Answered(c, t) ==
  /\ sent[c][t] = "waiting" /\ wire[c][t] \in {"same", "other"}
  /\ SetSent(c, t, IF verifyStoredRecord(c, wire[c][t]) THEN "success" ELSE "failed")
  /\ SetWire(c, t, "none")
  /\ UNCHANGED <<callVars, storeVars, keyVars, lifeVars, outside>>

ReadWithoutDeadline(c, t) ==  \* mutant: only a reset ends the wait
  /\ sent[c][t] = "waiting" /\ wire[c][t] = "none"
  /\ SetSent(c, t, "failed")
  /\ SetWire(c, t, IF wire[c][t] = "request" THEN "request" ELSE "none")
  /\ UNCHANGED <<callVars, storeVars, keyVars, lifeVars, outside>>

(* The stream is reset or its deadline passes; the request may be handled  *)
(* all the same.                                                           *)
ReadFails(c, t) ==
  /\ sent[c][t] = "waiting"
  /\ SetSent(c, t, "failed")
  /\ SetWire(c, t, IF wire[c][t] = "request" THEN "request" ELSE "none")
  /\ UNCHANGED <<callVars, storeVars, keyVars, lifeVars, outside>>

NetStep(c, t) ==
  \/ SendMessage(c, t) \/ SendFails(c, t) \/ Lost(c, t) \/ PeerHandles(c, t)
  \/ ForeignAnswers(c, t) \/ Answered(c, t) \/ ReadFails(c, t)

-----------------------------------------------------------------------------
(* Calls.                                                                  *)

Goto(c, from, to) == pc[c] = from /\ pc' = [pc EXCEPT ![c] = to]
GotoOnly(c, from, to) ==
  /\ Goto(c, from, to)
  /\ UNCHANGED <<loadVars, planVars, netVars, storeVars, keyVars, lifeVars, outside>>

(* An undefined cid, or a key that does not split, ends the call.          *)
CallFails(c) == up /\ Key(c) = NoKey /\ GotoOnly(c, "idle", "failed")

(* Provide registers the key first; the survey asks the index for it.      *)
CallBegins(c) ==
  /\ up /\ Key(c) # NoKey
  /\ \/ Put(c) /\ GotoOnly(c, "idle", "store")
     \/ call[c].op = "provide" /\
          GotoOnly(c, "idle", IF call[c].register THEN "register" ELSE "store")
     \/ call[c].op = "survey" /\ Key(c) \in index /\ GotoOnly(c, "idle", "announce")
     \/ /\ call[c].op = "remove"
        /\ \A d \in Calls : Key(d) = Key(c) => pc[d] \notin {"register", "index"}
        /\ GotoOnly(c, "idle", "delete")

(* providerKeystore.Add: the datastore, which may fail, then the index.    *)
AddIgnoringError(c) ==  \* mutant: the key is indexed although the datastore failed
  /\ Goto(c, "register", "index")
  /\ disk' \in {disk, disk \cup {Key(c)}}
  /\ UNCHANGED <<loadVars, planVars, netVars, storeVars, index, registered, lifeVars, outside>>

AddToDisk(c) ==
  \/ GotoOnly(c, "register", "failed")
  \/ /\ Goto(c, "register", "index")
     /\ disk' = disk \cup {Key(c)}
     /\ UNCHANGED <<loadVars, planVars, netVars, storeVars, index, registered, lifeVars, outside>>

AddToIndex(c) ==
  /\ Goto(c, "index", "store")
  /\ index' = index \cup {Key(c)} /\ registered' = registered \cup {Key(c)}
  /\ UNCHANGED <<loadVars, planVars, netVars, storeVars, disk, lifeVars, outside>>

(* providerKeystore.Remove, which nothing calls while a key is added.      *)
RemoveFromDisk(c) ==
  \/ GotoOnly(c, "delete", "failed")
  \/ /\ Goto(c, "delete", "unindex")
     /\ disk' = disk \ {Key(c)}
     /\ UNCHANGED <<loadVars, planVars, netVars, storeVars, index, registered, lifeVars, outside>>

RemoveFromIndex(c) ==
  /\ Goto(c, "unindex", "done")
  /\ index' = index \ {Key(c)}
  /\ UNCHANGED <<loadVars, planVars, netVars, storeVars, disk, registered, lifeVars, outside>>

(* putValueLocal, and the own provider record of provideOnce.              *)
StoreLocally(c) ==
  /\ \/ GotoOnly(c, "store", "failed")
     \/ /\ Goto(c, "store", IF call[c].online THEN "announce" ELSE "done")
        /\ IF Put(c)
           THEN /\ ValidVal(call[c].value, now)
                /\ Replaceable(records[Self][Key(c)], call[c].value, now)
                /\ records' = [records EXCEPT ![Self][Key(c)] = Record(call[c].value, now)]
                /\ Note(Self, records'[Self], {c})
                /\ UNCHANGED <<providers, vouched>>
           ELSE /\ providers' =
                     [providers EXCEPT ![Self] = WithProvider(Self, Key(c), Self)]
                /\ vouched' = vouched \cup {<<Key(c), Self>>}
                /\ UNCHANGED <<records, since>>
        /\ UNCHANGED <<loadVars, planVars, netVars, keyVars, lifeVars, foreignVars>>

(* The coordinator starts to publish; the addresses are those of the host  *)
(* now, which may have none.                                               *)
PublishBegins(c) ==
  /\ Goto(c, "announce", "publish")
  /\ \E T \in SUBSET Targets \ {{}} : targets' = [targets EXCEPT ![c] = T]
  /\ \E b \in BOOLEAN : carries' = [carries EXCEPT ![c] = b /\ ~Put(c)]
  /\ UNCHANGED <<loadVars, netVars, storeVars, keyVars, lifeVars, outside>>

Decided(c) == \A t \in targets[c] : sent[c][t] \in {"success", "failed"}
StoreSuccess(c) == {t \in targets[c] : sent[c][t] = "success"}

CountsAnswers(c) ==  \* mutant: a node that has answered has stored
  /\ Decided(c)
  /\ GotoOnly(c, "publish", IF targets[c] # {} THEN "done" ELSE "failed")

PublishReturns(c) ==
  /\ Decided(c)
  /\ GotoOnly(c, "publish", IF StoreSuccess(c) # {} THEN "done" ELSE "failed")

(* The call's context ends, or there is nobody to publish to.              *)
PublishFails(c) == GotoOnly(c, "publish", "failed")

CallStep(c) ==
  \/ AddToDisk(c) \/ AddToIndex(c) \/ RemoveFromDisk(c) \/ RemoveFromIndex(c)
  \/ StoreLocally(c) \/ PublishBegins(c) \/ PublishReturns(c)

-----------------------------------------------------------------------------
(* Requests of foreign nodes, to the DHT while it runs and to the others.  *)

(* The echo of handlePutValue is the request without these fields.         *)
stripPeerRecords(msg) == [msg EXCEPT !.closer = {}, !.providers = <<>>]
Named(msg) == msg.closer \cup {p.id : p \in Range(msg.providers)}

ForeignRequest(from, n, req) ==
  /\ foreign < MaxForeign
  /\ n = Self => up
  /\ foreign' = foreign + 1
  /\ \E o \in handle(n, from, req) :
       /\ StoreAt(n, o, {})
       /\ echoed' = IF o.reply = "echo" THEN echoed \cup Named(stripPeerRecords(req))
                    ELSE echoed
  /\ vouched' = vouched \cup
       (IF req.type = "ADD_PROVIDER" /\ \E p \in Range(req.providers) : p.id = from
        THEN {<<req.key, from>>} ELSE {})
  /\ UNCHANGED <<callVars, netVars, keyVars, lifeVars>>

-----------------------------------------------------------------------------
(* Fetch, by GetValue at the DHT and by GET_VALUE requests at any node.    *)

FetchReads(f, n, k) ==
  /\ fetch[f] = IdleFetch
  /\ <<n, k>> \in world.reads /\ records[n][k] # NoRec
  /\ n = Self => up
  /\ fetch' = [fetch EXCEPT ![f] = [node |-> n, key |-> k, rec |-> records[n][k]]]
  /\ UNCHANGED <<callVars, netVars, storeVars, keyVars, up, crashes, now, outside>>

(* What was read is too old or unreadable: the record is deleted, whatever *)
(* it is by now.                                                           *)
FetchRemoves(f) ==
  /\ Unusable(fetch[f].rec, now)
  /\ records' = [records EXCEPT ![fetch[f].node][fetch[f].key] = NoRec]
  /\ fetch' = [fetch EXCEPT ![f] = IdleFetch]
  /\ UNCHANGED <<callVars, netVars, providers, since, keyVars, up, crashes, now, outside>>

(* The record is served, or the datastore fails to delete it.              *)
FetchEnds(f) ==
  /\ fetch[f] # IdleFetch
  /\ fetch' = [fetch EXCEPT ![f] = IdleFetch]
  /\ UNCHANGED <<callVars, netVars, storeVars, keyVars, up, crashes, now, outside>>

FetchStep(f) ==
  \/ FetchRemoves(f) \/ FetchEnds(f)
  \/ \E n \in Nodes, k \in Keys : FetchReads(f, n, k)

Tick ==
  /\ now < world.until
  /\ now' = now + 1
  /\ UNCHANGED <<callVars, netVars, storeVars, keyVars, up, crashes, fetch, outside>>

-----------------------------------------------------------------------------
(* A crash ends every call and loses the index; messages stay on their way.*)

Active == {"register", "index", "delete", "unindex", "store", "announce", "publish"}

Crash ==
  /\ up /\ crashes < MaxCrashes
  /\ up' = FALSE /\ crashes' = crashes + 1
  /\ pc' = [c \in Calls |-> IF pc[c] \in Active THEN "crashed" ELSE pc[c]]
  /\ sent' = [c \in Calls |-> [t \in Targets |->
                IF sent[c][t] = "waiting" THEN "failed" ELSE sent[c][t]]]
  /\ wire' = [c \in Calls |-> [t \in Targets |->
                IF wire[c][t] \in {"same", "other"} THEN "none" ELSE wire[c][t]]]
  /\ index' = {}
  /\ fetch' = [f \in Fetches |-> IF fetch[f].node = Self THEN IdleFetch ELSE fetch[f]]
  /\ UNCHANGED <<loadVars, planVars, storeVars, disk, registered, now, outside>>

(* New: newProviderKeystore reads the provide set.                         *)
Restart ==
  /\ ~up
  /\ up' = TRUE
  /\ index' = disk
  /\ UNCHANGED <<callVars, netVars, storeVars, disk, registered, crashes, now, fetch, outside>>

-----------------------------------------------------------------------------
Next ==
  \/ \E c \in Calls : CallFails(c) \/ CallBegins(c) \/ CallStep(c) \/ PublishFails(c)
  \/ \E c \in Calls, t \in Targets : NetStep(c, t)
  \/ \E from \in Foreign, n \in Nodes, req \in world.requests : ForeignRequest(from, n, req)
  \/ \E f \in Fetches : FetchStep(f)
  \/ Tick \/ Crash \/ Restart

Spec == Init /\ [][Next]_vars

(* A call goes on, or a request of it is sent or fails, at the latest when *)
(* its deadline passes.  Nothing is assumed of the network, of the remote  *)
(* nodes or of restarts.                                                   *)
Fairness ==
  \A c \in Calls :
    WF_vars(CallStep(c) \/ \E t \in Targets :
              SendMessage(c, t) \/ SendFails(c, t) \/ ReadFails(c, t))

FairSpec == Spec /\ Fairness

-----------------------------------------------------------------------------
(* Properties.                                                             *)

PCs == Active \cup {"idle", "done", "failed", "crashed"}

(* Every variable stays in its type.                                       *)
TypeOK ==
  /\ \E w \in Workloads : call = w.call /\ world = w.world
  /\ pc \in [Calls -> PCs]
  /\ targets \in [Calls -> SUBSET Targets]
  /\ carries \in [Calls -> BOOLEAN]
  /\ sent \in [Calls -> [Targets -> {"none", "waiting", "success", "failed"}]]
  /\ wire \in [Calls -> [Targets -> {"none", "request", "same", "other"}]]
  /\ records \in [Nodes -> [Keys -> Stored]]
  /\ providers \in [Nodes -> SUBSET (Keys \X Everyone)]
  /\ since \in [Calls -> [Nodes -> SUBSET Stored]]
  /\ disk \subseteq Keys /\ index \subseteq Keys /\ registered \subseteq Keys
  /\ up \in BOOLEAN /\ crashes \in 0 .. MaxCrashes
  /\ now \in 0 .. world.until
  /\ fetch \in [Fetches -> [node : Nodes, key : Keys \cup {NoKey}, rec : Stored]]
  /\ foreign \in 0 .. MaxForeign
  /\ echoed \subseteq Everyone
  /\ vouched \subseteq (Keys \cup {NoKey}) \X Everyone

(* A PutValue that returned nil has stored its value at the DHT and, when  *)
(* it went online, at every node of this code that it counted, and it      *)
(* counted one.  There the value or a better one is found whatever other   *)
(* calls, foreign nodes, late requests, fetches and crashes did since, but *)
(* for two ways to lose it that the backend has: a value at least as good  *)
(* that the node had since has expired, so that anything may replace it,   *)
(* or a record that it had since, or that was being fetched at the time,   *)
(* is too old or unreadable, so that a Fetch deletes what is there.        *)
AtLeast(r, v) == r.kind = "record" /\ r.val.rank >= v.rank
Kept(c, n) ==
  \/ AtLeast(records[n][Key(c)], call[c].value)
  \/ \E r \in since[c][n] :
       Unusable(r, now) \/ (AtLeast(r, call[c].value) /\ ~ValidVal(r.val, now))
StoredAt(c, n) == since[c][n] # {}
PutValueIsStored ==
  \A c \in Calls : Put(c) /\ pc[c] = "done" =>
    /\ \A n \in {Self} \cup (StoreSuccess(c) \cap Peers) : StoredAt(c, n) /\ Kept(c, n)
    /\ call[c].online => StoreSuccess(c) # {}

(* A node lists a peer as a provider only if that peer has said so itself, *)
(* and passes on nothing that a request says of peers.                     *)
NothingUnvouched ==
  /\ \A n \in Nodes : providers[n] \subseteq vouched
  /\ echoed = {}

(* A key that Provide has registered is reprovided until it is removed,    *)
(* even if its announcement failed, and whatever crashes happen: it is in  *)
(* the provide set, and in the index while the DHT runs.                   *)
Removed(k) == \E c \in Calls : call[c].op = "remove" /\ Key(c) = k /\ pc[c] # "idle"
ProvidedKeysSurvive ==
  \A k \in registered : ~Removed(k) => k \in disk /\ (up => k \in index)

(* Every call of a DHT that does not crash returns, however silent the     *)
(* remote nodes are.                                                       *)
CallsReturn == \A c \in Calls : pc[c] \in Active ~> pc[c] \notin Active

(* The strengthening that makes the invariants inductive: what a request   *)
(* on its way says of its sender, and what the index owes to the datastore.*)
NetInv ==
  \A c \in Calls, t \in Targets :
    /\ wire[c][t] # "none" \/ sent[c][t] # "none" => Key(c) # NoKey
    /\ wire[c][t] # "none" /\ ~Put(c) => <<Key(c), Self>> \in vouched
    /\ sent[c][t] = "waiting" => Put(c)
    /\ Put(c) /\ t \in Peers /\ (wire[c][t] = "same" \/ sent[c][t] = "success") =>
         StoredAt(c, t)
    /\ wire[c][t] = "other" => t \in Foreign

CallInv ==
  \A c \in Calls :
    /\ Key(c) = NoKey => pc[c] \in {"idle", "failed"}
    /\ pc[c] \in Active => up
    /\ pc[c] \in {"register", "index"} => call[c].op = "provide" /\ call[c].register
    /\ pc[c] \in {"delete", "unindex"} => call[c].op = "remove"
    /\ Put(c) /\ pc[c] \in {"announce", "publish", "done"} => StoredAt(c, Self)
    /\ Put(c) /\ pc[c] = "done" /\ call[c].online => StoreSuccess(c) # {}

(* What a node has, and what is being fetched from it, it has had since it *)
(* stored the value, unless it was deleted.                                *)
SinceInv ==
  \A c \in Calls, n \in Nodes : StoredAt(c, n) =>
    /\ Key(c) # NoKey
    /\ records[n][Key(c)] \in since[c][n] \cup {NoRec}
    /\ \A f \in Fetches : Seen(n, Key(c))[f] \in since[c][n] \cup {NoRec}
    /\ Kept(c, n)

KeyInv ==
  /\ up => \A k \in index : k \in disk \/ Removed(k)
  /\ ~up => index = {}
  /\ \A c \in Calls : pc[c] = "index" /\ ~Removed(Key(c)) => Key(c) \in disk

IInv ==
  /\ TypeOK /\ NetInv /\ CallInv /\ SinceInv /\ KeyInv
  /\ NothingUnvouched /\ ProvidedKeysSurvive
=============================================================================
