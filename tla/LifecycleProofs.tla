--------------------------- MODULE LifecycleProofs ---------------------------
(***************************************************************************)
(* The inductive invariant of Lifecycle, for every set of configurations,  *)
(* of streams and of callers of Close.  The steps are taken in groups by   *)
(* the variables they may change: one lemma per group.                     *)
(***************************************************************************)
EXTENDS Lifecycle, TLAPS

LEMMA InitIInv == Init => IInv
<1> SUFFICES ASSUME Init PROVE IInv
  OBVIOUS
<1> USE ConstantsAssumption
<1>1. cfg \in ConfigType
  BY DEF Init
<1>2. TypeOK
  <2>1. open \subseteq {"memory", "configured", "backends"} /\ wraps \in 0 .. 2
    BY DEF Init, InitialWraps
  <2>2. /\ cfg \in Configs /\ new \in NewStates /\ backends \subseteq Namespaces \cup {"x"}
        /\ closed \subseteq Namespaces /\ kad = "none" /\ sub = "none"
        /\ mode \in Modes \cup {"unset"} /\ handler \in BOOLEAN
        /\ switch \in Modes \cup {"idle", "reset"}
        /\ latest \in Reachability \cup {"none"} /\ loop = "none" /\ stopped \in BOOLEAN
        /\ reset \subseteq Streams
    BY DEF Init, NewStates
  <2>3. events \in Seq(Reachability \cup {"identified"}) /\ emitted \in 0 .. MaxEvents
    BY DEF Init
  <2>4. closer \in [Closers -> {"idle", "closed"} \cup Closing]
    BY DEF Init
  <2>5. /\ todo \in [ResetLoops -> SUBSET Streams]
        /\ served \in [ResetLoops -> SUBSET Streams]
    BY DEF Init
  <2>6. stream \in [Streams -> InboundStates \cup {"open"}]
    BY DEF Init, InboundStates
  <2>7. QED  BY <2>1, <2>2, <2>3, <2>4, <2>5, <2>6 DEF TypeOK
<1>3. NewInv /\ ModeInv
  <2>1. NewInv
    BY DEF Init, NewInv, Built, Running
  <2>2. ModeInv
    BY DEF Init, ModeInv, Modes
  <2>3. QED  BY <2>1, <2>2
<1>4. CloseInv /\ StreamInv /\ StoreInv
  BY DEF Init, CloseInv, StreamInv, StoreInv, Built, Closing, Dealt, Streams,
         HasProtocol, ResetLoops
<1>5. ServedStreamsAreReset /\ StoresAreReturned
  BY DEF Init, ServedStreamsAreReset, StoresAreReturned
<1>6. EventInv
  BY DEF Init, EventInv
<1>7. QED  BY <1>2, <1>3, <1>4, <1>5, <1>6 DEF IInv

(* Steps that leave the channel, the latest report and the mode alone keep *)
(* what is said of them, if they do not open the subscription.             *)
LEMMA EventsKept ==
  ASSUME EventInv, UNCHANGED <<cfg, events, latest, mode>>, sub' \in {sub, "closed"},
         new' = new, sub = "none" => sub' = "none"
  PROVE  EventInv'
  BY DEF EventInv, Reports, CalledFor

(* A stream changes its state by Goto, from a state of its kind to one of  *)
(* its kind: streams in use stay in use or end.                            *)
LEMMA StreamStepIInv ==
  ASSUME IInv, NEW s \in Streams, StreamStep(s)
  PROVE  IInv'
<1> USE ConstantsAssumption
<1>1. PICK from \in InboundStates \cup {"open"}, to \in InboundStates \cup {"open"} :
         /\ Goto(s, from, to)
         /\ s \in Inbound => to # "open"
         /\ s \in Outbound => to \in {"open", "ended"}
         /\ from \in {"reading", "handling"} => to \in {"reading", "handling", "ended"}
         /\ from = "open" => to = "ended"
         /\ from # "ended"
  <2>1. stream[s] \in InboundStates \cup {"open"}
    BY DEF IInv, TypeOK
  <2>2. /\ s \in Inbound => stream[s] # "open"
        /\ s \in Outbound => stream[s] \in {"none", "open", "ended"}
        /\ s \in Outbound => s \notin Inbound
        /\ s \in Inbound \/ s \in Outbound
    BY DEF IInv, StreamInv, Streams
  <2>3. QED
    BY <2>1, <2>2 DEF StreamStep, StreamNegotiated, StreamAccepted, StreamRead,
       StreamHandled, StreamReadFails, StreamHandleFails, StreamOpened, StreamAsks,
       StreamDone, Goto, InboundStates
<1>2. /\ stream \in [Streams -> InboundStates \cup {"open"}]
      /\ stream[s] = from
      /\ stream' = [stream EXCEPT ![s] = to]
      /\ UNCHANGED <<dht, modeVars, bus, close, loopVars, reset>>
  BY <1>1 DEF Goto, IInv, TypeOK
<1>3. \A t \in Streams : t # s => stream'[t] = stream[t]
  BY <1>2
<1>4. stream'[s] = to
  BY <1>2
<1>5. TypeOK'
  BY <1>2 DEF IInv, TypeOK, dht, newVars, storeVars, modeVars, bus, eventVars, close,
              loopVars
<1>6. NewInv' /\ ModeInv' /\ CloseInv' /\ StoreInv' /\ StoresAreReturned'
  BY <1>2 DEF IInv, NewInv, ModeInv, CloseInv, StoreInv, StoresAreReturned, Validate,
              InitialWraps, dht, newVars, storeVars, modeVars, bus, eventVars, close, loopVars
<1>7. UNCHANGED <<switch, mode, closer, todo, served, reset>>
  BY <1>2 DEF modeVars, close, loopVars
<1>8. \A t \in Streams : stream[t] = "ended" => stream'[t] = "ended"
  BY <1>1, <1>2, <1>3
<1>9. served \in [ResetLoops -> SUBSET Streams]
  BY DEF IInv, TypeOK
<1>10. ServedStreamsAreReset'
  <2>1. /\ served["switch"] \cap Inbound \subseteq Streams
        /\ served["close"] \subseteq Streams
    BY <1>9 DEF ResetLoops
  <2>2. ServedStreamsAreReset
    BY DEF IInv
  <2>3. QED  BY <1>7, <1>8, <2>1, <2>2 DEF ServedStreamsAreReset, Dealt
<1>11. StreamInv'
  <2>1. /\ served["switch"] \subseteq Streams /\ served["close"] \subseteq Streams
        /\ StreamInv
    BY <1>9 DEF ResetLoops, IInv
  <2>2. \A t \in Streams : HasProtocol(t) => HasProtocol(t)' \/ stream'[t] = "ended"
    BY <1>1, <1>2, <1>3, <1>4 DEF HasProtocol, Serving
  <2>3. (\A t \in Inbound : stream[t] # "open")'
    BY <1>1, <1>3, <1>4, <2>1 DEF StreamInv, Streams
  <2>4. (\A t \in Outbound : stream[t] \in {"none", "open", "ended"})'
    BY <1>1, <1>3, <1>4, <2>1 DEF StreamInv, Streams
  <2>5. (\A l \in ResetLoops : \A t \in served[l] : HasProtocol(t) \/ stream[t] = "ended")'
    BY <1>7, <1>8, <1>9, <2>1, <2>2 DEF StreamInv
  <2>6. (switch = "reset" => Dealt((served["switch"] \cap Inbound) \ todo["switch"]))'
    BY <1>7, <1>8, <2>1 DEF StreamInv, Dealt
  <2>7. (\A c \in Closers : closer[c] = "streams" => Dealt(served["close"] \ todo["close"]))'
    BY <1>7, <1>8, <2>1 DEF StreamInv, Dealt
  <2>8. QED  BY <2>3, <2>4, <2>5, <2>6, <2>7 DEF StreamInv
<1>12. EventInv'
  BY <1>2, EventsKept DEF IInv, dht, newVars, modeVars, bus, eventVars
<1>13. QED  BY <1>5, <1>6, <1>10, <1>11, <1>12 DEF IInv

(* New runs before the event loop and before any Close.                    *)
LEMMA NewStepIInv ==
  ASSUME IInv, NewStep
  PROVE  IInv'
<1> USE ConstantsAssumption
<1> USE DEF dht, newVars, storeVars, modeVars, bus, eventVars, close, host, loopVars,
            streamVars, NewOnly, NewGoto, SwitchTo
<1>1. /\ UNCHANGED <<cfg, closed, stopped, closer, todo, served, stream, reset, emitted>>
      /\ UNCHANGED <<latest, events, handler>>
      /\ new # "done" /\ new # "failed" /\ loop = "none"
  BY DEF NewStep, NewValidate, NewBackends, NewKeystore, NewCoordinator, NewMode,
         NewSubscribe, NewGo, IInv, NewInv
<1>2. \A c \in Closers : closer[c] = "idle"
  BY <1>1 DEF IInv, CloseInv
<1>3. cfg \in ConfigType /\ cfg \in Configs
  BY DEF IInv, TypeOK
<1>4. (switch' = switch /\ mode' = mode) \/ NewMode
  BY DEF NewStep, NewValidate, NewBackends, NewKeystore, NewCoordinator, NewSubscribe, NewGo
<1>5. NewMode => switch' \in Modes /\ mode' = switch' /\ switch = "idle"
  BY DEF NewMode, Modes, IInv, NewInv, Running
<1>6. TypeOK'
  <2>1. new' \in NewStates
    BY DEF NewStep, NewValidate, NewBackends, NewKeystore, NewCoordinator, NewMode,
           NewSubscribe, NewGo, NewStates
  <2>2. /\ backends' \subseteq Namespaces \cup {"x"}
        /\ open' \subseteq {"memory", "configured", "backends"}
    BY <1>3 DEF NewStep, NewValidate, NewBackends, NewKeystore, NewCoordinator, NewMode,
           NewSubscribe, NewGo, IInv, TypeOK, ConfigType
  <2>3. wraps' \in 0 .. 2
    <3>1. new = "backends" => wraps \in 0 .. 1
      BY DEF IInv, NewInv, InitialWraps
    <3>2. QED  BY <3>1 DEF NewStep, NewValidate, NewBackends, NewKeystore, NewCoordinator,
                  NewMode, NewSubscribe, NewGo, IInv, TypeOK
  <2>4. /\ kad' \in {"none", "running", "closed"} /\ sub' \in {"none", "open", "closed"}
        /\ loop' \in {"none", "range", "switching", "ended"}
    BY DEF NewStep, NewValidate, NewBackends, NewKeystore, NewCoordinator, NewMode,
           NewSubscribe, NewGo, IInv, TypeOK
  <2>5. mode' \in Modes \cup {"unset"} /\ switch' \in Modes \cup {"idle", "reset"}
    BY <1>4, <1>5 DEF IInv, TypeOK
  <2>6. QED  BY <1>1, <2>1, <2>2, <2>3, <2>4, <2>5 DEF IInv, TypeOK
<1>7. NewInv'
  <2> USE DEF Validate, InitialWraps
  <2>1. CASE NewValidate
    BY <1>1, <2>1 DEF NewValidate, IInv, NewInv, Built, Running
  <2>2. CASE NewBackends
    BY <1>1, <2>2 DEF NewBackends, IInv, NewInv, Built, Running
  <2>3. CASE NewKeystore
    BY <1>1, <2>3 DEF NewKeystore, IInv, NewInv, Built, Running
  <2>4. CASE NewCoordinator
    BY <1>1, <2>4 DEF NewCoordinator, IInv, NewInv, Built, Running
  <2>5. CASE NewMode
    BY <1>1, <2>5 DEF NewMode, IInv, NewInv, Built, Running
  <2>6. CASE NewSubscribe
    BY <1>1, <2>6 DEF NewSubscribe, IInv, NewInv, Built, Running
  <2>7. CASE NewGo
    BY <1>1, <2>7 DEF NewGo, IInv, NewInv, Built, Running
  <2>8. QED  BY <2>1, <2>2, <2>3, <2>4, <2>5, <2>6, <2>7 DEF NewStep
<1>8. ModeInv'
  <2>1. CASE NewMode
    BY <1>1, <1>5, <2>1 DEF NewMode, ModeInv, Modes
  <2>2. CASE ~NewMode
    <3>1. switch' = switch /\ mode' = mode
      BY <1>4, <2>2
    <3>2. switch # "idle" => new = "subscribe"
      BY <1>1 DEF IInv, ModeInv
    <3>3. switch # "idle" => new' = "subscribe"
      BY <2>2, <3>2 DEF NewStep, NewValidate, NewBackends, NewKeystore, NewCoordinator,
                        NewSubscribe, NewGo
    <3>4. QED  BY <1>1, <3>1, <3>3 DEF IInv, ModeInv
  <2>3. QED  BY <2>1, <2>2
<1>9. CloseInv'
  BY <1>1, <1>2 DEF IInv, CloseInv
<1>10. StreamInv'
  BY <1>1, <1>4, <1>5 DEF IInv, StreamInv, HasProtocol, Serving, Dealt, Modes
<1>11. StoreInv'
  <2>1. cfg.protocol = "ipfs" /\ cfg.backends = {} /\ ~cfg.datastore /\ new' \in Built =>
          "memory" \in open'
    BY <1>1 DEF NewStep, NewValidate, NewBackends, NewKeystore, NewCoordinator, NewMode,
           NewSubscribe, NewGo, IInv, StoreInv, CloseInv, Built
  <2>2. QED  BY <1>1, <1>2, <2>1 DEF StoreInv
<1>12. ServedStreamsAreReset'
  BY <1>1, <1>2, <1>4, <1>5 DEF IInv, ServedStreamsAreReset, Dealt, Modes
<1>13. StoresAreReturned'
  <2>1. open \subseteq open'
    BY DEF NewStep, NewValidate, NewBackends, NewKeystore, NewCoordinator, NewMode,
           NewSubscribe, NewGo
  <2>2. /\ cfg.datastore => "configured" \in open
        /\ cfg.backends # {} /\ ~stopped => "backends" \in open
    BY DEF IInv, StoresAreReturned
  <2>3. \A c \in Closers : closer[c] = "idle"
    BY <1>1 DEF IInv, CloseInv
  <2>4. new' = "done" /\ cfg.protocol = "ipfs" /\ cfg.backends = {} /\ ~cfg.datastore =>
          "memory" \in open'
    BY <1>1, <1>11, <2>3 DEF StoreInv, Built
  <2>5. QED  BY <1>1, <2>1, <2>2, <2>3, <2>4 DEF StoresAreReturned
<1>14. EventInv'
  <2>1. sub = "none" \/ new = "go"
    BY <1>1 DEF IInv, EventInv
  <2>2. CASE sub = "none"
    <3>1. latest' = "none" /\ events' = <<>>
      BY <1>1, <2>2 DEF IInv, EventInv
    <3>2. new' \notin {"go", "done"} => sub' = "none"
      BY <2>2 DEF NewStep, NewValidate, NewBackends, NewKeystore, NewCoordinator, NewMode,
         NewSubscribe, NewGo
    <3>3. QED  BY <3>1, <3>2 DEF EventInv, Reports
  <2>3. CASE new = "go"
    <3>1. new' = "done" /\ UNCHANGED <<sub, mode>>
      BY <2>3 DEF NewStep, NewValidate, NewBackends, NewKeystore, NewCoordinator, NewMode,
         NewSubscribe, NewGo
    <3>2. QED  BY <1>1, <2>3, <3>1 DEF IInv, EventInv, Reports, CalledFor
  <2>4. QED  BY <2>1, <2>2, <2>3
<1>15. QED
  BY <1>6, <1>7, <1>8, <1>9, <1>10, <1>11, <1>12, <1>13, <1>14 DEF IInv

(* A switch of modes; its reset loop takes each stream it visits out of    *)
(* todo and resets it if it was in use.                                    *)
LEMMA SwitchStepIInv ==
  ASSUME IInv, SwitchStep
  PROVE  IInv'
<1> USE ConstantsAssumption
<1> USE DEF dht, newVars, storeVars, modeVars, bus, eventVars, close, host, loopVars,
            streamVars
<1>1. /\ UNCHANGED <<dht, mode, bus, close, stream>>
      /\ todo'["close"] = todo["close"] /\ served'["close"] = served["close"]
      /\ reset \subseteq reset'
  BY DEF SwitchStep, SetStreamHandler, RemoveStreamHandler, ClientModeSet, ResetInbound,
         ResetLoopBegins, Visit, IInv, TypeOK, ResetLoops
<1>2. TypeOK'
  <2>1. /\ todo' \in [ResetLoops -> SUBSET Streams]
        /\ served' \in [ResetLoops -> SUBSET Streams]
    BY DEF SwitchStep, SetStreamHandler, RemoveStreamHandler, ClientModeSet, ResetInbound,
           ResetLoopBegins, Visit, IInv, TypeOK, ResetLoops
  <2>2. handler' \in BOOLEAN /\ switch' \in Modes \cup {"idle", "reset"} /\ reset' \subseteq Streams
    BY DEF SwitchStep, SetStreamHandler, RemoveStreamHandler, ClientModeSet, ResetInbound,
           IInv, TypeOK
  <2>3. QED  BY <1>1, <2>1, <2>2 DEF IInv, TypeOK
<1>3. NewInv'
  <2>1. switch # "idle"
    BY DEF SwitchStep, SetStreamHandler, RemoveStreamHandler, ClientModeSet, ResetInbound
  <2>2. new \in Running
    BY <2>1 DEF IInv, NewInv, ModeInv, Running
  <2>3. QED  BY <1>1, <2>2 DEF IInv, NewInv, Validate, InitialWraps
<1>4. ModeInv'
  <2>1. CASE SetStreamHandler
    BY <1>1, <2>1 DEF SetStreamHandler, IInv, ModeInv, Modes
  <2>2. CASE RemoveStreamHandler
    BY <1>1, <2>2 DEF RemoveStreamHandler, IInv, ModeInv, Modes
  <2>3. CASE ClientModeSet
    <3>1. mode' = "client" /\ handler' = FALSE /\ switch' = "idle"
      BY <2>3 DEF ClientModeSet, IInv, ModeInv, TypeOK
    <3>2. QED  BY <3>1 DEF ModeInv, Modes
  <2>4. CASE \E s \in Streams : ResetInbound(s)
    BY <1>1, <2>4 DEF ResetInbound, IInv, ModeInv, Modes
  <2>5. QED  BY <2>1, <2>2, <2>3, <2>4 DEF SwitchStep
<1>5. CloseInv' /\ StoreInv' /\ StoresAreReturned'
  BY <1>1 DEF IInv, CloseInv, StoreInv, StoresAreReturned
<1>6. \A S : Dealt(S) => \A s \in S : s \in reset' \/ stream'[s] = "ended"
  BY <1>1 DEF Dealt
<1>7. StreamInv'
  <2>1. \A l \in ResetLoops : \A s \in served'[l] : HasProtocol(s) \/ stream[s] = "ended"
    BY DEF SwitchStep, SetStreamHandler, RemoveStreamHandler, ClientModeSet, ResetInbound,
           ResetLoopBegins, Visit, IInv, StreamInv, TypeOK, ResetLoops
  <2>2. \A s \in served'["switch"] \cap Inbound :
          switch' = "reset" /\ s \notin todo'["switch"] => s \in reset' \/ stream[s] = "ended"
    <3>1. CASE RemoveStreamHandler
      <4>1. served'["switch"] \subseteq todo'["switch"]
        BY <3>1 DEF RemoveStreamHandler, ResetLoopBegins, IInv, TypeOK, ResetLoops
      <4>2. QED  BY <4>1
    <3>2. ASSUME NEW t \in Streams, ResetInbound(t)
          PROVE  \A s \in served'["switch"] \cap Inbound :
                   s \notin todo'["switch"] => s \in reset' \/ stream[s] = "ended"
      <4>1. /\ served' = served /\ todo'["switch"] = todo["switch"] \ {t}
            /\ switch = "reset"
        BY <3>2 DEF ResetInbound, Visit, IInv, TypeOK, ResetLoops
      <4>2. t \in served["switch"] \cap Inbound => t \in reset' \/ stream[t] = "ended"
        BY <3>2 DEF ResetInbound, IInv, StreamInv, ResetLoops
      <4>3. \A s \in served["switch"] \cap Inbound :
              s \notin todo["switch"] => s \in reset \/ stream[s] = "ended"
        BY <4>1 DEF IInv, StreamInv, Dealt
      <4>4. QED  BY <1>1, <4>1, <4>2, <4>3
    <3>3. CASE SetStreamHandler \/ ClientModeSet
      BY <3>3 DEF SetStreamHandler, ClientModeSet
    <3>4. QED  BY <3>1, <3>2, <3>3 DEF SwitchStep
  <2>3. QED
    BY <1>1, <1>6, <2>1, <2>2 DEF IInv, StreamInv, HasProtocol, Serving, Dealt
<1>8. ServedStreamsAreReset'
  <2>1. mode' = "client" /\ switch' = "idle" =>
          \A s \in served'["switch"] \cap Inbound : s \in reset' \/ stream'[s] = "ended"
    <3>1. CASE ClientModeSet
      BY <3>1 DEF ClientModeSet, IInv, StreamInv, Dealt
    <3>2. CASE ~ClientModeSet
      BY <3>2 DEF SwitchStep, SetStreamHandler, RemoveStreamHandler, ResetInbound, IInv,
                  ModeInv, Modes
    <3>3. QED  BY <3>1, <3>2
  <2>2. QED  BY <1>1, <1>6, <2>1 DEF ServedStreamsAreReset, Dealt, IInv
<1>9. EventInv'
  BY <1>1, EventsKept DEF IInv
<1>10. QED  BY <1>2, <1>3, <1>4, <1>5, <1>7, <1>8, <1>9 DEF IInv

(* The loop takes the report at the head of the channel: the last one when *)
(* no other is left, and then the latest.                                  *)
LEMMA EventStepEventInv ==
  ASSUME TypeOK, NewInv, EventInv,
         LoopStep \/ Discard \/ \E e \in Reachability \cup {"identified"} : Emit(e)
  PROVE  EventInv'
<1> USE DEF dht, newVars, storeVars, modeVars, bus, eventVars, close, host, loopVars,
            streamVars, SwitchTo
<1> DEFINE Events == Reachability \cup {"identified"}
<1>1. events \in Seq(Events) /\ latest \in Reachability \cup {"none"}
  BY DEF TypeOK
<1>2. UNCHANGED <<cfg, new, sub>>
  BY DEF LoopStep, LoopSwitches, LoopSwitched, LoopAddsNode, LoopEnds, Discard, Emit
<1>3. CASE LoopSwitched \/ LoopEnds
  BY <1>2, <1>3, EventsKept DEF LoopSwitched, LoopEnds
<1>4. CASE Discard
  BY <1>2, <1>4 DEF Discard, EventInv
<1>5. ASSUME NEW e \in Events, Emit(e)
      PROVE  EventInv'
  <2>1. /\ sub = "open" /\ mode' = mode /\ events' = Append(events, e)
        /\ latest' = IF e \in Reachability THEN e ELSE latest
    BY <1>5 DEF Emit
  <2>2. /\ Len(events) \in Nat /\ DOMAIN events = 1 .. Len(events)
        /\ DOMAIN events' = 1 .. Len(events) + 1 /\ events'[Len(events) + 1] = e
        /\ \A i \in 1 .. Len(events) : events'[i] = events[i]
    BY <1>1, <2>1
  <2>3. CASE e \in Reachability
    <3>1. Len(events) + 1 \in Reports'
      BY <2>2, <2>3 DEF Reports
    <3>2. \A i \in Reports' : (\A j \in Reports' : j <= i) => i = Len(events) + 1
      BY <2>2, <3>1 DEF Reports
    <3>3. QED  BY <1>2, <2>1, <2>2, <2>3, <3>1, <3>2 DEF EventInv
  <2>4. CASE e \notin Reachability
    <3>1. Reports' = Reports /\ \A i \in Reports : events'[i] = events[i]
      BY <2>2, <2>4 DEF Reports
    <3>2. QED  BY <1>2, <2>1, <2>4, <3>1 DEF EventInv, CalledFor
  <2>5. QED  BY <2>3, <2>4
<1>6. CASE LoopSwitches \/ LoopAddsNode
  <2> SUFFICES ASSUME sub = "open"
               PROVE  /\ \A i \in Reports' : (\A j \in Reports' : j <= i) => events'[i] = latest
                      /\ latest # "none" => Reports' # {} \/ mode' = CalledFor(latest)
    <3>1. latest' = latest
      BY <1>6 DEF LoopSwitches, LoopAddsNode
    <3>2. sub # "none"
      BY <1>6 DEF LoopSwitches, LoopAddsNode, NewInv, EventInv
    <3>3. QED  BY <1>2, <3>1, <3>2 DEF EventInv, CalledFor
  <2>1. events # <<>> /\ events' = Tail(events)
    BY <1>6 DEF LoopSwitches, LoopAddsNode
  <2>2. /\ Len(events) \in Nat \ {0} /\ DOMAIN events = 1 .. Len(events)
        /\ DOMAIN events' = 1 .. Len(events) - 1 /\ Head(events) = events[1]
        /\ \A i \in 1 .. Len(events) - 1 : events'[i] = events[i + 1]
    BY <1>1, <2>1
  <2>3. /\ \A i \in Reports' : i \in Int /\ i >= 1 /\ i + 1 \in Reports
        /\ \A j \in Reports : j \in Int /\ (j = 1 \/ j - 1 \in Reports')
    BY <2>2 DEF Reports
  <2>4. \A i \in Reports : (\A j \in Reports : j <= i) => events[i] = latest
    BY DEF EventInv
  <2>5. \A i \in Reports' : (\A j \in Reports' : j <= i) => events'[i] = latest
    <3> SUFFICES ASSUME NEW i \in Reports', \A j \in Reports' : j <= i
                 PROVE  events'[i] = latest
      OBVIOUS
    <3>1. \A j \in Reports : j <= i + 1
      BY <2>3
    <3>2. events'[i] = events[i + 1]
      BY <2>2 DEF Reports
    <3>3. QED  BY <2>3, <2>4, <3>1, <3>2
  <2>6. latest # "none" => Reports' # {} \/ mode' = CalledFor(latest)
    <3> SUFFICES ASSUME latest # "none", Reports' = {}
                 PROVE  mode' = CalledFor(latest)
      OBVIOUS
    <3>1. \A j \in Reports : j = 1
      BY <2>3
    <3>2. CASE LoopSwitches
      <4>1. 1 \in Reports
        BY <2>2, <3>2 DEF LoopSwitches, Reports
      <4>2. Head(events) = latest
        BY <2>2, <2>4, <3>1, <4>1
      <4>3. mode' = ModeFor(latest) /\ latest \in Reachability
        BY <3>2, <4>2 DEF LoopSwitches
      <4>4. QED  BY <4>3 DEF ModeFor, CalledFor, Reachability
    <3>3. CASE LoopAddsNode
      <4>1. 1 \notin Reports /\ mode' = mode
        BY <2>2, <3>3 DEF LoopAddsNode, Reports, Reachability
      <4>2. QED  BY <3>1, <4>1 DEF EventInv
    <3>4. QED  BY <1>6, <3>2, <3>3
  <2>7. QED  BY <2>5, <2>6
<1>7. QED  BY <1>3, <1>4, <1>5, <1>6 DEF LoopStep

(* The event loop and the event bus change nothing but a mode, between     *)
(* switches.                                                               *)
LEMMA EventStepIInv ==
  ASSUME IInv,
         LoopStep \/ Discard \/ \E e \in Reachability \cup {"identified"} : Emit(e)
  PROVE  IInv'
<1> USE ConstantsAssumption
<1> USE DEF dht, newVars, storeVars, modeVars, bus, eventVars, close, host, loopVars,
            streamVars, SwitchTo
<1>1. UNCHANGED <<dht, handler, close, host>>
  BY DEF LoopStep, LoopSwitches, LoopSwitched, LoopAddsNode, LoopEnds, Discard, Emit
<1>2. \/ UNCHANGED <<mode, switch>>
      \/ /\ mode' \in Modes /\ switch' = mode' /\ loop' = "switching"
         /\ switch = "idle" /\ new = "done"
  <2>1. CASE LoopSwitches
    <3>1. events \in Seq(Reachability \cup {"identified"}) /\ Head(events) \in Reachability
      BY <2>1 DEF LoopSwitches, IInv, TypeOK
    <3>2. ModeFor(Head(events)) \in Modes
      BY <3>1 DEF ModeFor, Modes, Reachability
    <3>3. new = "done"
      BY <2>1 DEF LoopSwitches, IInv, NewInv
    <3>4. switch = "idle"
      BY <2>1, <3>3 DEF LoopSwitches, IInv, ModeInv
    <3>5. QED  BY <2>1, <3>2, <3>3, <3>4 DEF LoopSwitches
  <2>2. CASE ~LoopSwitches
    BY <2>2 DEF LoopStep, LoopSwitched, LoopAddsNode, LoopEnds, Discard, Emit
  <2>3. QED  BY <2>1, <2>2
<1>3. TypeOK'
  <2>1. /\ events' \in Seq(Reachability \cup {"identified"})
        /\ emitted' \in 0 .. MaxEvents /\ latest' \in Reachability \cup {"none"}
    <3> DEFINE Events == Reachability \cup {"identified"}
    <3>1. /\ events \in Seq(Events) /\ emitted \in 0 .. MaxEvents
          /\ latest \in Reachability \cup {"none"}
      BY DEF IInv, TypeOK
    <3>2. ASSUME NEW e \in Events, Emit(e)
          PROVE  /\ events' = Append(events, e) /\ emitted' \in 0 .. MaxEvents
                 /\ latest' \in Reachability \cup {"none"}
      BY <3>1, <3>2 DEF Emit
    <3>3. \A e \in Events : Append(events, e) \in Seq(Events)
      BY <3>1
    <3>4. events # <<>> => Tail(events) \in Seq(Events)
      BY <3>1
    <3>5. CASE LoopStep \/ Discard
      BY <3>1, <3>4, <3>5 DEF LoopStep, LoopSwitches, LoopSwitched, LoopAddsNode, LoopEnds,
                              Discard
    <3>6. QED  BY <3>2, <3>3, <3>5
  <2>2. loop' \in {"none", "range", "switching", "ended"}
    BY DEF LoopStep, LoopSwitches, LoopSwitched, LoopAddsNode, LoopEnds, Discard, Emit,
           IInv, TypeOK
  <2>3. QED  BY <1>1, <1>2, <2>1, <2>2 DEF IInv, TypeOK
<1>4. NewInv'
  <2>1. loop' # "none" <=> loop # "none"
    BY DEF LoopStep, LoopSwitches, LoopSwitched, LoopAddsNode, LoopEnds, Discard, Emit
  <2>2. QED  BY <1>1, <1>2, <2>1 DEF IInv, NewInv, Validate, InitialWraps, Running
<1>5. ModeInv'
  <2>1. CASE LoopSwitched
    BY <2>1 DEF LoopSwitched, IInv, ModeInv
  <2>2. CASE LoopSwitches
    BY <1>1, <1>2, <2>2 DEF LoopSwitches, Modes, IInv, ModeInv
  <2>3. CASE LoopEnds
    BY <2>3 DEF LoopEnds, IInv, ModeInv
  <2>4. CASE LoopAddsNode \/ Discard \/ \E e \in Reachability \cup {"identified"} : Emit(e)
    BY <2>4 DEF LoopAddsNode, Discard, Emit, IInv, ModeInv
  <2>5. QED  BY <2>1, <2>2, <2>3, <2>4 DEF LoopStep
<1>6. CloseInv' /\ StoreInv' /\ StoresAreReturned'
  BY <1>1 DEF IInv, CloseInv, StoreInv, StoresAreReturned
<1>7. StreamInv'
  BY <1>1, <1>2 DEF IInv, StreamInv, HasProtocol, Serving, Dealt, Modes
<1>8. ServedStreamsAreReset'
  BY <1>1, <1>2 DEF IInv, ServedStreamsAreReset, Dealt, Modes
<1>9. EventInv'
  BY EventStepEventInv DEF IInv
<1>10. QED  BY <1>3, <1>4, <1>5, <1>6, <1>7, <1>8, <1>9 DEF IInv

(* Close: the one that swapped the flag.                                   *)
LEMMA CloseStepIInv ==
  ASSUME IInv, NEW c \in Closers, CloseSwap(c) \/ CloseStep(c)
  PROVE  IInv'
<1> USE ConstantsAssumption
<1> USE DEF dht, newVars, storeVars, modeVars, bus, eventVars, close, host, loopVars,
            streamVars, CloseGoto
<1>1. /\ UNCHANGED <<newVars, modeVars, bus, stream>>
      /\ todo'["switch"] = todo["switch"] /\ served'["switch"] = served["switch"]
      /\ reset \subseteq reset'
  BY DEF CloseSwap, CloseStep, CloseSub, CloseKad, CloseBackends, CloseStore, CloseStream,
         CloseReturns, ResetLoopBegins, Visit, IInv, TypeOK, ResetLoops
<1>2. /\ closer \in [Closers -> {"idle", "closed"} \cup Closing]
      /\ closer' \in [Closers -> {"idle", "closed"} \cup Closing]
      /\ \A d \in Closers : d # c => closer'[d] = closer[d] /\ closer[d] = "idle"
      /\ closer'[c] # "idle" /\ new = "done" /\ stopped'
  <2>1. closer \in [Closers -> {"idle", "closed"} \cup Closing]
    BY DEF IInv, TypeOK
  <2>2. \E to \in {"closed"} \cup Closing : closer' = [closer EXCEPT ![c] = to]
    <3>1. CASE \E s \in Streams : CloseStream(c, s)
      BY <2>1, <3>1 DEF CloseStream, Closing
    <3>2. CASE ~\E s \in Streams : CloseStream(c, s)
      BY <3>2 DEF CloseSwap, CloseStep, CloseSub, CloseKad, CloseBackends, CloseStore,
                  CloseReturns, Closing
    <3>3. QED  BY <3>1, <3>2
  <2>3. \A d \in Closers : d # c => closer[d] = "idle"
    BY DEF CloseSwap, CloseStep, CloseSub, CloseKad, CloseBackends, CloseStore, CloseStream,
           CloseReturns, IInv, CloseInv
  <2>4. new = "done" /\ stopped'
    BY DEF CloseSwap, CloseStep, CloseSub, CloseKad, CloseBackends, CloseStore, CloseStream,
           CloseReturns, IInv, CloseInv
  <2>5. QED  BY <2>1, <2>2, <2>3, <2>4 DEF Closing
<1>3. TypeOK'
  <2>1. /\ todo' \in [ResetLoops -> SUBSET Streams]
        /\ served' \in [ResetLoops -> SUBSET Streams]
        /\ reset' \subseteq Streams
    BY DEF CloseSwap, CloseStep, CloseSub, CloseKad, CloseBackends, CloseStore, CloseStream,
           CloseReturns, ResetLoopBegins, Visit, IInv, TypeOK, ResetLoops
  <2>2. /\ open' \subseteq open /\ closed' \subseteq Namespaces
        /\ kad' \in {kad, "closed"} /\ sub' \in {sub, "closed"} /\ stopped' \in BOOLEAN
    BY DEF CloseSwap, CloseStep, CloseSub, CloseKad, CloseBackends, CloseStore, CloseStream,
           CloseReturns, ClosableBackends, Namespaces, IInv, TypeOK
  <2>3. QED  BY <1>1, <1>2, <2>1, <2>2 DEF IInv, TypeOK
<1>4. NewInv' /\ ModeInv'
  <2>1. kad' # "none" /\ sub' # "none"
    BY <1>2 DEF CloseSwap, CloseStep, CloseSub, CloseKad, CloseBackends, CloseStore,
       CloseStream, CloseReturns, IInv, NewInv, Running
  <2>2. QED  BY <1>1, <2>1 DEF IInv, NewInv, ModeInv, Validate, InitialWraps
<1>5. CloseInv'
  <2>1. /\ closer'[c] \notin {"idle", "sub"} => sub' = "closed"
        /\ closer'[c] \in {"backends", "store", "streams", "closed"} => kad' = "closed"
        /\ closer'[c] = "closed" => todo'["close"] = {}
    BY <1>2 DEF CloseSwap, CloseStep, CloseSub, CloseKad, CloseBackends, CloseStore,
       CloseStream, CloseReturns, IInv, CloseInv
  <2>2. QED  BY <1>1, <1>2, <2>1 DEF CloseInv
<1>6. StreamInv'
  <2>1. \A l \in ResetLoops : \A s \in served'[l] : HasProtocol(s) \/ stream[s] = "ended"
    BY DEF CloseSwap, CloseStep, CloseSub, CloseKad, CloseBackends, CloseStore, CloseStream,
           CloseReturns, ResetLoopBegins, Visit, IInv, StreamInv, TypeOK, ResetLoops
  <2>2. closer'[c] = "streams" =>
          \A s \in served'["close"] \ todo'["close"] : s \in reset' \/ stream[s] = "ended"
    <3>1. CASE CloseStore(c)
      <4>1. served'["close"] \subseteq todo'["close"]
        BY <3>1 DEF CloseStore, ResetLoopBegins, IInv, TypeOK, ResetLoops
      <4>2. QED  BY <4>1
    <3>2. ASSUME NEW t \in Streams, CloseStream(c, t)
          PROVE  \A s \in served'["close"] \ todo'["close"] :
                   s \in reset' \/ stream[s] = "ended"
      <4>1. /\ served' = served /\ todo'["close"] = todo["close"] \ {t}
            /\ closer[c] = "streams"
        BY <3>2 DEF CloseStream, Visit, IInv, TypeOK, ResetLoops
      <4>2. t \in served["close"] => t \in reset' \/ stream[t] = "ended"
        BY <3>2 DEF CloseStream, IInv, StreamInv, ResetLoops
      <4>3. \A s \in served["close"] \ todo["close"] : s \in reset \/ stream[s] = "ended"
        BY <4>1 DEF IInv, StreamInv, Dealt
      <4>4. QED  BY <1>1, <4>1, <4>2, <4>3
    <3>3. CASE CloseSwap(c) \/ CloseSub(c) \/ CloseKad(c) \/ CloseBackends(c) \/ CloseReturns(c)
      BY <1>2, <3>3 DEF CloseSwap, CloseSub, CloseKad, CloseBackends, CloseReturns
    <3>4. QED  BY <3>1, <3>2, <3>3 DEF CloseStep
  <2>3. switch = "reset" =>
          \A s \in (served["switch"] \cap Inbound) \ todo["switch"] :
            s \in reset' \/ stream[s] = "ended"
    BY <1>1 DEF IInv, StreamInv, Dealt
  <2>4. QED
    BY <1>1, <1>2, <2>1, <2>2, <2>3 DEF IInv, StreamInv, HasProtocol, Serving, Dealt
<1>7. StoreInv'
  <2>1. SUFFICES ASSUME new \in Built, cfg.protocol = "ipfs", cfg.backends = {},
                        ~cfg.datastore
                 PROVE  "memory" \notin open' <=> closer'[c] \in {"streams", "closed"}
    BY <1>1, <1>2 DEF StoreInv
  <2>2. "memory" \notin open <=> closer[c] \in {"streams", "closed"}
    BY <1>2, <2>1 DEF IInv, StoreInv
  <2>3. CASE CloseStore(c)
    <3>1. FindsProvidersBackend /\ ProvidersStore = "memory"
      BY <2>1 DEF FindsProvidersBackend, ProvidersStore, IInv, NewInv, Namespaces
    <3>2. QED  BY <1>2, <2>1, <2>3, <3>1 DEF CloseStore
  <2>4. CASE ~CloseStore(c)
    BY <1>2, <2>2, <2>4 DEF CloseSwap, CloseStep, CloseSub, CloseKad, CloseBackends,
       CloseStream, CloseReturns
  <2>5. QED  BY <2>3, <2>4
<1>8. ServedStreamsAreReset'
  <2>1. closer'[c] = "closed" =>
          \A s \in served'["close"] : s \in reset' \/ stream'[s] = "ended"
    BY <1>1, <1>5, <1>6, <1>2 DEF CloseSwap, CloseStep, CloseSub, CloseKad, CloseBackends,
       CloseStore, CloseStream, CloseReturns, IInv, StreamInv, Dealt
  <2>2. QED  BY <1>1, <1>2, <2>1 DEF IInv, ServedStreamsAreReset, Dealt
<1>9. StoresAreReturned'
  <2>1. cfg.datastore => "configured" \in open'
    BY DEF CloseSwap, CloseStep, CloseSub, CloseKad, CloseBackends, CloseStore, CloseStream,
           CloseReturns, IInv, StoresAreReturned
  <2>2. QED  BY <1>1, <1>2, <1>5, <1>7, <2>1 DEF StoresAreReturned, StoreInv,
                CloseInv, Built
<1>10. EventInv'
  <2>1. sub' \in {sub, "closed"} /\ sub # "none"
    BY <1>2 DEF CloseSwap, CloseStep, CloseSub, CloseKad, CloseBackends, CloseStore,
       CloseStream, CloseReturns, IInv, NewInv
  <2>2. QED  BY <1>1, <2>1, EventsKept DEF IInv
<1>11. QED  BY <1>3, <1>4, <1>5, <1>6, <1>7, <1>8, <1>9, <1>10 DEF IInv

LEMMA NextIInv == IInv /\ [Next]_vars => IInv'
<1> SUFFICES ASSUME IInv, [Next]_vars PROVE IInv'
  OBVIOUS
<1>1. CASE NewStep
  BY <1>1, NewStepIInv
<1>2. CASE SwitchStep
  BY <1>2, SwitchStepIInv
<1>3. CASE LoopStep \/ Discard \/ \E e \in Reachability \cup {"identified"} : Emit(e)
  BY <1>3, EventStepIInv
<1>4. CASE \E s \in Streams : StreamStep(s)
  BY <1>4, StreamStepIInv
<1>5. CASE \E c \in Closers : CloseSwap(c) \/ CloseStep(c)
  BY <1>5, CloseStepIInv
<1>6. CASE UNCHANGED vars
  <2>1. /\ UNCHANGED <<newVars, open, closed, kad, sub, mode, handler, switch, events, emitted>>
        /\ UNCHANGED <<latest, loop, stopped, closer, todo, served, stream, reset>>
    BY <1>6 DEF vars, dht, storeVars, modeVars, bus, eventVars, close, host, loopVars,
                streamVars
  <2>2. TypeOK' /\ NewInv' /\ ModeInv'
    BY <2>1 DEF newVars, IInv, TypeOK, NewInv, ModeInv, Validate, InitialWraps
  <2>3. CloseInv' /\ StoreInv' /\ StoresAreReturned'
    BY <2>1 DEF newVars, IInv, CloseInv, StoreInv, StoresAreReturned
  <2>4. StreamInv' /\ ServedStreamsAreReset'
    BY <2>1 DEF IInv, StreamInv, ServedStreamsAreReset, HasProtocol, Serving, Dealt
  <2>5. EventInv'
    BY <2>1, EventsKept DEF IInv, newVars
  <2>6. QED  BY <2>2, <2>3, <2>4, <2>5 DEF IInv
<1>7. QED  BY <1>1, <1>2, <1>3, <1>4, <1>5, <1>6 DEF Next

(* The inductive invariant holds in every state: one Close does the work,  *)
(* mode and handler agree between switches, and the reset loops leave no   *)
(* stream behind that they found.                                          *)
THEOREM IInvHolds == Spec => []IInv
  BY InitIInv, NextIInv, PTL DEF Spec

(* A switch to client mode and a Close that have returned have dealt with  *)
(* every stream that was in use when their loop began.                     *)
THEOREM StreamsAreReset == Spec => []ServedStreamsAreReset
<1>1. IInv => ServedStreamsAreReset
  BY DEF IInv
<1>2. QED  BY <1>1, IInvHolds, PTL

(* Reports that overtake the switches which earlier ones caused are not    *)
(* lost: a loop that waits for the next has gone where the last one called.*)
THEOREM ModeSettles == Spec => []SettledAsReported
<1>1. IInv => SettledAsReported
  BY DEF IInv, EventInv, ModeInv, NewInv, TypeOK, Reports, SettledAsReported
<1>2. QED  BY <1>1, IInvHolds, PTL

(* The datastore that New opened is closed by the Close that closes, and   *)
(* by nobody before; what the user gave is not, or not before a Close.     *)
THEOREM OwnStoreIsClosed == Spec => []StoresAreReturned
<1>1. IInv => StoresAreReturned
  BY DEF IInv
<1>2. QED  BY <1>1, IInvHolds, PTL

(* Only Close resets an outbound stream, after it closed the coordinator.  *)
THEOREM OutboundIsKept == Spec => OwnRequestsSurvive
<1> DEFINE Kept == \A s \in reset' \ reset : s \in Outbound => stopped /\ kad = "closed"
<1>1. ASSUME IInv, [Next]_vars
      PROVE  [Kept]_vars
  <2>1. CASE UNCHANGED reset
    BY <2>1
  <2>2. ASSUME NEW s \in Streams, ResetInbound(s)
        PROVE  Kept
    BY <2>2, ConstantsAssumption DEF ResetInbound
  <2>3. ASSUME NEW c \in Closers, NEW s \in Streams, CloseStream(c, s)
        PROVE  Kept
    BY <1>1, <2>3 DEF CloseStream, IInv, CloseInv
  <2>4. CASE UNCHANGED vars
    BY <2>4
  <2>5. CASE Next
    <3> USE DEF host, streamVars
    <3>1. CASE NewStep
      BY <2>1, <3>1 DEF NewStep, NewOnly, NewValidate, NewBackends, NewKeystore,
         NewCoordinator, NewMode, NewSubscribe, NewGo
    <3>2. CASE SwitchStep
      BY <2>1, <2>2, <3>2 DEF SwitchStep, SetStreamHandler, RemoveStreamHandler, ClientModeSet
    <3>3. CASE LoopStep \/ Discard \/ \E e \in Reachability \cup {"identified"} : Emit(e)
      BY <2>1, <3>3 DEF LoopStep, LoopSwitches, LoopSwitched, LoopAddsNode, LoopEnds,
         Discard, Emit
    <3>4. CASE \E s \in Streams : StreamStep(s)
      BY <2>1, <3>4 DEF StreamStep, StreamNegotiated, StreamAccepted, StreamRead,
         StreamHandled, StreamReadFails, StreamHandleFails, StreamOpened, StreamAsks,
         StreamDone, Goto
    <3>5. CASE \E c \in Closers : CloseSwap(c) \/ CloseStep(c)
      BY <2>1, <2>3, <3>5 DEF CloseStep, CloseSwap, CloseSub, CloseKad, CloseBackends,
         CloseStore, CloseReturns
    <3>6. QED  BY <2>5, <3>1, <3>2, <3>3, <3>4, <3>5 DEF Next
  <2>6. QED  BY <1>1, <2>4, <2>5
<1>2. QED  BY <1>1, IInvHolds, PTL DEF Spec, OwnRequestsSurvive
=============================================================================
