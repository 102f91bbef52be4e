------------------------------ MODULE Lifecycle ------------------------------
(***************************************************************************)
(* The life of a DHT: New (config.go, dht.go), the event loop that         *)
(* switches between client and server mode (notifee.go, dht.go), the       *)
(* streams of the host while it does (stream.go), and Close (dht.go).      *)
(*                                                                         *)
(* Goroutines: New's caller, consumeNetworkEvents, one handler per inbound *)
(* stream, and the callers of Close.  modeMu is not a variable: only New   *)
(* and then the event loop, which New starts last, switch modes, so it is  *)
(* never contended.                                                        *)
(***************************************************************************)
EXTENDS Integers, Sequences, FiniteSets

CONSTANTS
  Configs,    \* the configurations New may be called with
  Inbound,    \* streams that remote peers open
  Outbound,   \* streams of our own requests
  Closers,    \* goroutines that call Close
  MaxEvents   \* how many events the host emits

Modes == {"client", "server"}
AutoOptions == {"autoClient", "autoServer"}
Namespaces == {"ipns", "pk", "providers"}
Reachability == {"private", "public", "unknown"}
ResetLoops == {"switch", "close"}

(* What a Config says that New, the loop or Close looks at: `sound` stands *)
(* for every field they only validate, `traced` for a map of backends that *)
(* an earlier New has already wrapped, `zikade` for a providers backend    *)
(* that is a ProvidersBackend, `datastore` for one given by the user.      *)
ConfigType ==
  [mode : Modes \cup AutoOptions \cup {"invalid"}, protocol : {"ipfs", "other"},
   backends : SUBSET (Namespaces \cup {"x"}), zikade : BOOLEAN, traced : BOOLEAN,
   datastore : BOOLEAN, sound : BOOLEAN]

(* DefaultConfig, which New takes for a Config that is nil.                *)
DefaultConfig ==
  [mode |-> "autoClient", protocol |-> "ipfs", backends |-> {}, zikade |-> FALSE,
   traced |-> FALSE, datastore |-> FALSE, sound |-> TRUE]

Streams == Inbound \cup Outbound

ASSUME ConstantsAssumption ==
  /\ Configs \subseteq ConfigType
  /\ IsFiniteSet(Streams)
  /\ Inbound \cap Outbound = {}
  /\ MaxEvents \in Nat

VARIABLES
  cfg,       \* the configuration
  new,       \* where New is
  backends,  \* the namespaces of d.backends
  wraps,     \* how many tracedBackends are around each backend
  open,      \* the datastores that are open
  closed,    \* the backends whose Close was called
  kad,       \* the coordinator: "none", "running" or "closed"
  sub,       \* the event subscription: "none", "open" or "closed"
  mode,      \* d.mode
  handler,   \* is the stream handler registered with the host?
  switch,    \* the switch of modes in progress
  events,    \* the channel of the subscription
  emitted,   \* how many events the host has emitted
  latest,    \* the last reachability the host has emitted (history)
  loop,      \* where consumeNetworkEvents is
  stopped,   \* d.stopped
  closer,    \* where each Close is
  todo,      \* the streams each reset loop, setClientMode's and Close's, has to visit
  served,    \* the streams that were in use when that loop began (history)
  stream,    \* the state of each stream
  reset      \* the streams the DHT has reset

newVars == <<cfg, new, backends, wraps>>
storeVars == <<open, closed>>
modeVars == <<mode, handler, switch>>
eventVars == <<events, emitted, latest>>
streamVars == <<stream, reset>>
loopVars == <<todo, served>>
dht == <<newVars, storeVars, kad, sub>>
bus == <<eventVars, loop>>
close == <<stopped, closer>>
host == <<loopVars, streamVars>>
vars == <<dht, modeVars, bus, close, host>>

-----------------------------------------------------------------------------
(* Config.Validate and the values New derives from a Config.               *)

Validate(c) ==
  /\ c.mode # "invalid"
  /\ c.sound
  /\ c.protocol = "ipfs" /\ c.backends # {} => c.backends = Namespaces

(* The datastore behind the providers backend.                             *)
ProvidersStore ==
  CASE cfg.backends # {} -> "backends"
    [] cfg.backends = {} /\ cfg.datastore -> "configured"
    [] OTHER -> "memory"

FindsUnwrappedOnly ==  \* mutant: does not look through the tracing wrapper
  "providers" \in backends /\ wraps = 0 /\ (cfg.backends = {} \/ cfg.zikade)

(* typedBackend[*ProvidersBackend]: it looks through one tracedBackend.    *)
FindsProvidersBackend ==
  "providers" \in backends /\ wraps <= 1 /\ (cfg.backends = {} \/ cfg.zikade)

(* Backends that are io.Closers, which a tracedBackend is not.             *)
ClosableBackends == IF wraps = 0 /\ FindsProvidersBackend THEN {"providers"} ELSE {}

InitialWraps == IF cfg.backends # {} /\ cfg.traced THEN 1 ELSE 0

Init ==
  /\ cfg \in Configs
  /\ new = "validate"
  /\ backends = {}
  /\ wraps = InitialWraps
  /\ open = (IF cfg.datastore THEN {"configured"} ELSE {})
              \cup (IF cfg.backends # {} THEN {"backends"} ELSE {})
  /\ closed = {}
  /\ kad = "none" /\ sub = "none"
  /\ mode = "unset" /\ handler = FALSE /\ switch = "idle"
  /\ events = <<>> /\ emitted = 0 /\ latest = "none"
  /\ loop = "none"
  /\ stopped = FALSE
  /\ closer = [c \in Closers |-> "idle"]
  /\ todo = [l \in ResetLoops |-> {}] /\ served = [l \in ResetLoops |-> {}]
  /\ stream = [s \in Streams |-> "none"]
  /\ reset = {}

-----------------------------------------------------------------------------
(* Streams.  An inbound stream is "opened" while its protocol is unknown,  *)
(* "negotiated" when the host has looked up the handler for it, "reading"  *)
(* once it carries the protocol and streamHandler runs, "handling" while   *)
(* handleMsg runs.  An outbound stream is "open" while it is used.          *)

Serving(s) == stream[s] \in {"reading", "handling"}

(* s.Protocol() == d.cfg.ProtocolID                                        *)
HasProtocol(s) == Serving(s) \/ (s \in Outbound /\ stream[s] = "open")

Goto(s, from, to) ==
  /\ stream[s] = from
  /\ stream' = [stream EXCEPT ![s] = to]
  /\ UNCHANGED <<dht, modeVars, bus, close, loopVars, reset>>

StreamOpened(s) == s \in Inbound /\ Goto(s, "none", "opened")

(* The host answers the remote's protocol selection.                       *)
StreamNegotiated(s) == Goto(s, "opened", IF handler THEN "negotiated" ELSE "ended")

(* The host sets the protocol and calls streamHandler, whether or not the  *)
(* handler is still registered.                                            *)
StreamAccepted(s) == Goto(s, "negotiated", "reading")

(* streamReadMsg and streamUnmarshalMsg give a message.                    *)
StreamRead(s) == s \notin reset /\ Goto(s, "reading", "handling")

(* handleMsg has no response, or streamWriteMsg sends it.                  *)
StreamHandled(s) == Goto(s, "handling", "reading")

(* The end of the stream, an error or the idle timeout of the read, a      *)
(* message that does not parse; streamHandler closes or resets the stream. *)
StreamReadFails(s) == Goto(s, "reading", "ended")

(* An error of the handler, or of writing the response.                    *)
StreamHandleFails(s) == Goto(s, "handling", "ended")

(* SendMessage, called by the coordinator, opens a stream and closes it.   *)
StreamAsks(s) == s \in Outbound /\ kad = "running" /\ Goto(s, "none", "open")
StreamDone(s) == Goto(s, "open", "ended")

StreamStep(s) ==
  \/ StreamNegotiated(s) \/ StreamAccepted(s) \/ StreamRead(s) \/ StreamHandled(s)
  \/ StreamReadFails(s) \/ StreamHandleFails(s)
  \/ StreamOpened(s) \/ StreamAsks(s) \/ StreamDone(s)

-----------------------------------------------------------------------------
(* setServerMode and setClientMode.                                        *)

(* A loop over the connections and their streams: it looks at each stream  *)
(* at a time of its own, and not at one that is opened after that.         *)
ResetLoopBegins(l) ==
  /\ todo' = [todo EXCEPT ![l] = Streams]
  /\ served' = [served EXCEPT ![l] = {s \in Streams : HasProtocol(s)}]
Visit(l, s) ==
  /\ s \in todo[l]
  /\ todo' = [todo EXCEPT ![l] = @ \ {s}]
  /\ UNCHANGED served

(* d.mode is set; the host is told in a step of its own.                   *)
SwitchTo(m) == mode' = m /\ switch' = m /\ UNCHANGED handler

SetStreamHandler ==
  /\ switch = "server"
  /\ handler' = TRUE
  /\ switch' = "idle"
  /\ UNCHANGED <<dht, mode, bus, close, host>>

RemoveStreamHandler ==
  /\ switch = "client"
  /\ handler' = FALSE
  /\ switch' = "reset"
  /\ ResetLoopBegins("switch")
  /\ UNCHANGED <<dht, mode, bus, close, streamVars>>

ResetEvery(s) ==  \* mutant: does not look at the direction
  /\ switch = "reset" /\ Visit("switch", s)
  /\ reset' = IF HasProtocol(s) THEN reset \cup {s} ELSE reset
  /\ UNCHANGED <<dht, modeVars, bus, close, stream>>

ResetReadingOnly(s) ==  \* mutant: lets the request that is being handled finish
  /\ switch = "reset" /\ Visit("switch", s)
  /\ reset' = IF stream[s] = "reading" THEN reset \cup {s} ELSE reset
  /\ UNCHANGED <<dht, modeVars, bus, close, stream>>

ResetInbound(s) ==
  /\ switch = "reset" /\ Visit("switch", s)
  /\ reset' = IF HasProtocol(s) /\ s \in Inbound THEN reset \cup {s} ELSE reset
  /\ UNCHANGED <<dht, modeVars, bus, close, stream>>

ClientModeSet ==
  /\ switch = "reset" /\ todo["switch"] = {}
  /\ switch' = "idle"
  /\ UNCHANGED <<dht, mode, handler, bus, close, host>>

SwitchStep ==
  \/ SetStreamHandler \/ RemoveStreamHandler \/ ClientModeSet
  \/ \E s \in Streams : ResetInbound(s)

-----------------------------------------------------------------------------
(* New.                                                                    *)

(* A step of New that goes to `to`, or returns its error.                  *)
NewGoto(from, to) == new = from /\ new' \in {to, "failed"}
NewOnly(from, to) ==
  /\ NewGoto(from, to)
  /\ UNCHANGED <<cfg, backends, wraps, storeVars, kad, sub, modeVars, bus, close, host>>

NewValidate ==
  /\ new = "validate"
  /\ new' = IF Validate(cfg) THEN "backends" ELSE "failed"
  /\ UNCHANGED <<cfg, backends, wraps, storeVars, kad, sub, modeVars, bus, close, host>>

(* The routing table, the telemetry, then initAminoBackends, where the     *)
(* default datastore is opened before the backends are made: an error      *)
(* after that leaves it open.  A wrap per backend is last.                 *)
NewBackends ==
  /\ NewGoto("backends", "keystore")
  /\ backends' = CASE new' = "failed" -> {}
                   [] cfg.backends # {} -> cfg.backends
                   [] cfg.protocol = "ipfs" -> Namespaces
                   [] OTHER -> {}
  /\ open' \in IF cfg.backends = {} /\ cfg.protocol = "ipfs" /\ ~cfg.datastore
               THEN {open \cup {"memory"}} \cup (IF new' = "failed" THEN {open} ELSE {})
               ELSE {open}
  /\ wraps' = IF new' = "failed" THEN wraps ELSE wraps + 1
  /\ UNCHANGED <<cfg, closed, kad, sub, modeVars, bus, close, host>>

(* newProviderKeystore, when there is a datastore.                         *)
NewKeystore == NewOnly("keystore", "coordinator")

NewCoordinator ==
  /\ NewGoto("coordinator", "mode")
  /\ kad' = IF new' = "failed" THEN "none" ELSE "running"
  /\ UNCHANGED <<cfg, backends, wraps, storeVars, sub, modeVars, bus, close, host>>

NewMode ==
  /\ new = "mode"
  /\ new' = "subscribe"
  /\ SwitchTo(IF cfg.mode \in {"client", "autoClient"} THEN "client" ELSE "server")
  /\ UNCHANGED <<cfg, backends, wraps, storeVars, kad, sub, bus, close, host>>

(* An error here returns no DHT although the coordinator runs and the      *)
(* stream handler is registered.                                           *)
NewSubscribe ==
  /\ switch = "idle"
  /\ NewGoto("subscribe", "go")
  /\ sub' = IF new' = "failed" THEN "none" ELSE "open"
  /\ UNCHANGED <<cfg, backends, wraps, storeVars, kad, modeVars, bus, close, host>>

NewGo ==
  /\ new = "go"
  /\ new' = "done"
  /\ loop' = "range"
  /\ UNCHANGED <<cfg, backends, wraps, storeVars, kad, sub, modeVars, eventVars, close, host>>

NewStep ==
  \/ NewValidate \/ NewBackends \/ NewKeystore \/ NewCoordinator
  \/ NewMode \/ NewSubscribe \/ NewGo

-----------------------------------------------------------------------------
(* The event bus and consumeNetworkEvents.                                 *)

(* networkEventsSubscription asks for reachability only in an auto mode.   *)
Subscribed == {"identified"} \cup (IF cfg.mode \in AutoOptions THEN Reachability ELSE {})

Emit(e) ==
  /\ sub = "open"
  /\ emitted < MaxEvents
  /\ e \in Subscribed
  /\ emitted' = emitted + 1
  /\ events' = Append(events, e)
  /\ latest' = IF e \in Reachability THEN e ELSE latest
  /\ UNCHANGED <<dht, modeVars, loop, close, host>>

(* sub.Close discards what is left in the channel, while the loop reads on.*)
Discard ==
  /\ sub = "closed" /\ events # <<>>
  /\ events' = Tail(events)
  /\ UNCHANGED <<dht, modeVars, emitted, latest, loop, close, host>>

ModeIgnoringUnknown(e) ==  \* mutant: an unknown reachability counts as public
  IF e = "private" THEN "client" ELSE "server"

(* The cases of onEvtLocalReachabilityChanged.                             *)
ModeFor(e) ==
  CASE e = "private" -> "client"
    [] e = "public" -> "server"
    [] e = "unknown" -> IF cfg.mode = "autoClient" THEN "client" ELSE "server"

LoopSwitches ==
  /\ loop = "range" /\ events # <<>> /\ Head(events) \in Reachability
  /\ events' = Tail(events)
  /\ SwitchTo(ModeFor(Head(events)))
  /\ loop' = "switching"
  /\ UNCHANGED <<dht, emitted, latest, close, host>>

LoopSwitched ==
  /\ loop = "switching" /\ switch = "idle"
  /\ loop' = "range"
  /\ UNCHANGED <<dht, modeVars, eventVars, close, host>>

(* onEvtPeerIdentificationCompleted: the coordinator is told of the node.  *)
LoopAddsNode ==
  /\ loop = "range" /\ events # <<>> /\ Head(events) = "identified"
  /\ events' = Tail(events)
  /\ UNCHANGED <<dht, modeVars, emitted, latest, loop, close, host>>

LoopEnds ==
  /\ loop = "range" /\ events = <<>> /\ sub = "closed"
  /\ loop' = "ended"
  /\ UNCHANGED <<dht, modeVars, eventVars, close, host>>

LoopStep == LoopSwitches \/ LoopSwitched \/ LoopAddsNode \/ LoopEnds

-----------------------------------------------------------------------------
(* Close.                                                                  *)

CloseGoto(c, from, to) == closer[c] = from /\ closer' = [closer EXCEPT ![c] = to]

CloseTwice(c) ==  \* mutant: the flag is read first and set later
  /\ new = "done"
  /\ CloseGoto(c, "idle", "sub")
  /\ stopped' = TRUE
  /\ UNCHANGED <<dht, modeVars, bus, host>>

(* d.stopped.Swap(true).  A call that finds it set returns at once, while  *)
(* the first may still be closing.                                         *)
CloseSwap(c) ==
  /\ new = "done"
  /\ ~stopped
  /\ CloseGoto(c, "idle", "sub")
  /\ stopped' = TRUE
  /\ UNCHANGED <<dht, modeVars, bus, host>>

CloseSubLeaks(c) ==  \* mutant: the subscription is not closed
  /\ CloseGoto(c, "sub", "kad")
  /\ UNCHANGED <<dht, modeVars, bus, stopped, host>>

CloseSub(c) ==
  /\ CloseGoto(c, "sub", "kad")
  /\ sub' = "closed"
  /\ UNCHANGED <<newVars, storeVars, kad, modeVars, bus, stopped, host>>

CloseKad(c) ==
  /\ CloseGoto(c, "kad", "backends")
  /\ kad' = "closed"
  /\ UNCHANGED <<newVars, storeVars, sub, modeVars, bus, stopped, host>>

CloseBackends(c) ==
  /\ CloseGoto(c, "backends", "store")
  /\ closed' = closed \cup ClosableBackends
  /\ UNCHANGED <<newVars, open, kad, sub, modeVars, bus, stopped, host>>

(* The datastore that was not configured is closed, although it is the     *)
(* user's own when the user configured the backends.                       *)
CloseStore(c) ==
  /\ CloseGoto(c, "store", "streams")
  /\ open' = IF cfg.protocol = "ipfs" /\ ~cfg.datastore /\ FindsProvidersBackend
               THEN open \ {ProvidersStore} ELSE open
  /\ ResetLoopBegins("close")
  /\ UNCHANGED <<newVars, closed, kad, sub, modeVars, bus, stopped, streamVars>>

(* Streams of either direction; the handler stays registered.              *)
CloseStream(c, s) ==
  /\ closer[c] = "streams"
  /\ Visit("close", s)
  /\ reset' = IF HasProtocol(s) THEN reset \cup {s} ELSE reset
  /\ UNCHANGED <<dht, modeVars, bus, close, stream>>

CloseReturns(c) ==
  /\ todo["close"] = {}
  /\ CloseGoto(c, "streams", "closed")
  /\ UNCHANGED <<dht, modeVars, bus, stopped, host>>

CloseStep(c) ==
  \/ CloseSub(c) \/ CloseKad(c) \/ CloseBackends(c) \/ CloseStore(c)
  \/ CloseReturns(c) \/ \E s \in Streams : CloseStream(c, s)

-----------------------------------------------------------------------------
Next ==
  \/ NewStep \/ SwitchStep \/ LoopStep \/ Discard
  \/ \E e \in Reachability \cup {"identified"} : Emit(e)
  \/ \E s \in Streams : StreamStep(s)
  \/ \E c \in Closers : CloseSwap(c) \/ CloseStep(c)

Spec == Init /\ [][Next]_vars

(* Goroutines are scheduled, a read of a stream that was reset fails, and  *)
(* handlers return.  Nothing is assumed of the remote peers, of the host's *)
(* events or of who calls Close.                                           *)
Fairness ==
  /\ WF_vars(NewStep) /\ WF_vars(SwitchStep) /\ WF_vars(LoopStep) /\ WF_vars(Discard)
  /\ \A c \in Closers : WF_vars(CloseStep(c))
  /\ \A s \in Inbound :
       /\ WF_vars(StreamHandled(s) \/ StreamHandleFails(s))
       /\ WF_vars(s \in reset /\ StreamReadFails(s))

FairSpec == Spec /\ Fairness

-----------------------------------------------------------------------------
(* Properties.                                                             *)

NewStates ==
  {"validate", "backends", "keystore", "coordinator", "mode", "subscribe", "go", "done",
   "failed"}
Closing == {"sub", "kad", "backends", "store", "streams"}
InboundStates == {"none", "opened", "negotiated", "reading", "handling", "ended"}

(* Every variable stays in its type.                                       *)
TypeOK ==
  /\ cfg \in Configs /\ new \in NewStates
  /\ backends \subseteq Namespaces \cup {"x"} /\ wraps \in 0 .. 2
  /\ open \subseteq {"memory", "configured", "backends"}
  /\ closed \subseteq Namespaces
  /\ kad \in {"none", "running", "closed"} /\ sub \in {"none", "open", "closed"}
  /\ mode \in Modes \cup {"unset"} /\ handler \in BOOLEAN
  /\ switch \in Modes \cup {"idle", "reset"}
  /\ events \in Seq(Reachability \cup {"identified"})
  /\ emitted \in 0 .. MaxEvents /\ latest \in Reachability \cup {"none"}
  /\ loop \in {"none", "range", "switching", "ended"}
  /\ stopped \in BOOLEAN
  /\ closer \in [Closers -> {"idle", "closed"} \cup Closing]
  /\ todo \in [ResetLoops -> SUBSET Streams]
  /\ served \in [ResetLoops -> SUBSET Streams]
  /\ stream \in [Streams -> InboundStates \cup {"open"}]
  /\ reset \subseteq Streams

(* A switch to client mode that has returned, and a Close that has, leave  *)
(* none of the streams going on that they found: each has been reset or    *)
(* has ended by itself, whatever opened, was accepted or was answered      *)
(* while the loops went over the connections.  (Later ones are another     *)
(* matter: a stream that was negotiated before, and after Close any that   *)
(* is opened while the handler is still registered.)                       *)
Dealt(S) == \A s \in S : s \in reset \/ stream[s] = "ended"
ServedStreamsAreReset ==
  /\ mode = "client" /\ switch = "idle" => Dealt(served["switch"] \cap Inbound)
  /\ \A c \in Closers : closer[c] = "closed" => Dealt(served["close"])

(* Requests of our own survive every switch of modes: only Close, when it  *)
(* has stopped the coordinator that waits for the answers, resets them.    *)
OwnRequestsSurvive ==
  [][\A s \in reset' \ reset : s \in Outbound => stopped /\ kad = "closed"]_vars

(* Close gives back what New took: the in-memory datastore of the default  *)
(* backends, which is found behind the tracing wrapper, is open until some *)
(* Close begins and is closed when that Close returns.  What the user gave *)
(* stays open: a configured datastore for ever, that of the user's own     *)
(* backends until a Close.  (Nothing is said of who still uses a datastore *)
(* that is closed: Close resets the streams, whose handlers do, after it.) *)
StoresAreReturned ==
  /\ new = "done" /\ cfg.protocol = "ipfs" /\ cfg.backends = {} /\ ~cfg.datastore =>
       /\ "memory" \notin open => stopped
       /\ (\E c \in Closers : closer[c] = "closed") => "memory" \notin open
  /\ cfg.datastore => "configured" \in open
  /\ cfg.backends # {} /\ ~stopped => "backends" \in open

(* A DHT in an auto mode ends in the mode of the last reachability the     *)
(* host reported, however fast reports follow each other and however many  *)
(* streams the switches have to reset, unless it is closed.                *)
CalledFor(e) ==
  IF e = "private" \/ (e = "unknown" /\ cfg.mode = "autoClient") THEN "client" ELSE "server"
FollowsReachability ==
  \A e \in Reachability :
    <>[](latest = e) => <>[](stopped \/ (mode = CalledFor(e) /\ handler = (mode = "server")))

(* After Close the event loop ends, whatever was left in its channel, and  *)
(* so does the handler of every inbound stream that was reset.             *)
GoroutinesEnd ==
  /\ stopped ~> loop = "ended"
  /\ \A s \in Inbound : s \in reset ~> stream[s] = "ended"

(* The strengthening that makes the invariants inductive.  It also says    *)
(* that mode and handler agree between switches, that one Close does the   *)
(* work, and that an ipfs DHT has its three backends.                      *)
Built == {"keystore", "coordinator", "mode", "subscribe", "go", "done"}
Running == {"subscribe", "go", "done"}

NewInv ==
  /\ new # "validate" /\ new # "failed" => Validate(cfg)
  /\ new \in Built /\ cfg.protocol = "ipfs" => backends = Namespaces
  /\ new \in Built /\ cfg.protocol = "ipfs" /\ cfg.backends = {} => wraps = 1
  /\ new \in {"mode"} \cup Running => kad # "none"
  /\ new \in {"go", "done"} => sub # "none"
  /\ new = "done" <=> loop # "none"
  /\ new \in {"validate", "backends"} => wraps = InitialWraps
  /\ new \notin Running \cup {"failed"} => switch = "idle"

ModeInv ==
  /\ switch = "idle" => handler = (mode = "server")
  /\ switch \in Modes => mode = switch
  /\ switch = "reset" => mode = "client" /\ ~handler
  /\ switch # "idle" => new = "subscribe" \/ loop = "switching"

CloseInv ==
  /\ \A c \in Closers : closer[c] # "idle" => stopped /\ new = "done"
  /\ stopped => \E c \in Closers : closer[c] # "idle"
  /\ \A c, d \in Closers :
       closer[c] # "idle" /\ closer[d] # "idle" => c = d
  /\ \A c \in Closers :
       /\ closer[c] \notin {"idle", "sub"} => sub = "closed"
       /\ closer[c] \in {"backends", "store", "streams", "closed"} => kad = "closed"
       /\ closer[c] = "closed" => todo["close"] = {}

(* What the reset loops rely on: a stream that was in use can only end.    *)
StreamInv ==
  /\ \A s \in Inbound : stream[s] # "open"
  /\ \A s \in Outbound : stream[s] \in {"none", "open", "ended"}
  /\ \A l \in ResetLoops : \A s \in served[l] : HasProtocol(s) \/ stream[s] = "ended"
  /\ switch = "reset" => Dealt((served["switch"] \cap Inbound) \ todo["switch"])
  /\ \A c \in Closers : closer[c] = "streams" => Dealt(served["close"] \ todo["close"])

StoreInv ==
  new \in Built /\ cfg.protocol = "ipfs" /\ cfg.backends = {} /\ ~cfg.datastore =>
    ("memory" \notin open <=> \E c \in Closers : closer[c] \in {"streams", "closed"})

(* Until Close ends the subscription, the reports under way end with the   *)
(* latest; when none is, the mode is the one that the latest called for.   *)
Reports == {i \in DOMAIN events : events[i] \in Reachability}
EventInv ==
  /\ new \notin {"go", "done"} => sub = "none"
  /\ sub = "none" => latest = "none" /\ events = <<>>
  /\ sub = "open" =>
       /\ \A i \in Reports : (\A j \in Reports : j <= i) => events[i] = latest
       /\ latest # "none" => Reports # {} \/ mode = CalledFor(latest)

(* What FollowsReachability comes to at any time: a loop that has worked   *)
(* off its channel leaves the mode, and the handler, of the latest report. *)
SettledAsReported ==
  sub = "open" /\ events = <<>> /\ loop = "range" /\ latest # "none" =>
    mode = CalledFor(latest) /\ handler = (mode = "server")

IInv ==
  /\ TypeOK /\ NewInv /\ ModeInv /\ CloseInv /\ StreamInv /\ StoreInv /\ EventInv
  /\ ServedStreamsAreReset /\ StoresAreReturned
=============================================================================
