----------------------- MODULE GarbageCollectionLoop -----------------------
(***************************************************************************)
(* The life of the garbage collection loop of a ProvidersBackend:          *)
(* StartGarbageCollection, StopGarbageCollection (which Close calls) and   *)
(* the goroutine that runs collectGarbage at every tick of its ticker.     *)
(*                                                                         *)
(* gcCancelMu guards gcCancel and gcDone, but the goroutine reads gcDone   *)
(* without it, when its deferred close is set up, and StopGarbageCollection*)
(* keeps the mutex while it waits for the goroutine.                       *)
(*                                                                         *)
(* A loop is named by a number; its context, its done channel and its      *)
(* ticker go by the same number, 0 is nil.  What collectGarbage does is in *)
(* ProvidersBackend.                                                       *)
(***************************************************************************)
EXTENDS Integers, FiniteSets

CONSTANTS
  Callers,   \* goroutines that call Start- or StopGarbageCollection
  MaxLoops,  \* bound on the number of loops ever started
  None       \* no holder of the mutex

ASSUME ConstantsAssumption ==
  /\ MaxLoops \in Nat
  /\ None \notin Callers

VARIABLES
  gcCancelMu,  \* the caller that holds the mutex
  gcCancel,    \* the loop that gcCancel cancels, or nil
  gcDone,      \* the done channel, or nil
  started,     \* the number of loops started so far
  cancelled,   \* the loops whose context is cancelled
  closed,      \* the done channels that are closed
  ticks,       \* the loops whose ticker channel holds a tick
  loop,        \* the state of each loop's goroutine
  toClose,     \* the channel that the goroutine's deferred close will close
  pc           \* the state of each caller

vars == <<gcCancelMu, gcCancel, gcDone, started, cancelled, closed, ticks, loop,
          toClose, pc>>

Loops == 1 .. MaxLoops
nil == 0

Init ==
  /\ gcCancelMu = None
  /\ gcCancel = nil
  /\ gcDone = nil
  /\ started = 0
  /\ cancelled = {}
  /\ closed = {}
  /\ ticks = {}
  /\ loop = [l \in Loops |-> "none"]
  /\ toClose = [l \in Loops |-> nil]
  /\ pc = [c \in Callers |-> "idle"]

Goto(c, from, to) == pc[c] = from /\ pc' = [pc EXCEPT ![c] = to]

CallerOnly(c, from, to) ==
  /\ Goto(c, from, to)
  /\ UNCHANGED <<gcCancelMu, gcCancel, gcDone, started, cancelled, closed, ticks,
                 loop, toClose>>

LockAlways(c) == gcCancelMu' = c  \* mutant: no mutual exclusion
Lock(c) == gcCancelMu = None /\ gcCancelMu' = c
Unlock == gcCancelMu' = None

-----------------------------------------------------------------------------
(* StartGarbageCollection                                                  *)

StartCalls == {c \in Callers : pc[c] \in {"startLock", "start", "spawn"}}

(* No more calls than MaxLoops leaves room for.                            *)
StartCall(c) ==
  /\ started + Cardinality(StartCalls) < MaxLoops
  /\ CallerOnly(c, "idle", "startLock")

StartLock(c) ==
  /\ Goto(c, "startLock", "start")
  /\ Lock(c)
  /\ UNCHANGED <<gcCancel, gcDone, started, cancelled, closed, ticks, loop, toClose>>

StartKeepsLock(c) ==  \* mutant: returns without Unlock
  /\ gcCancel # nil
  /\ Goto(c, "start", "idle")
  /\ UNCHANGED <<gcCancelMu, gcCancel, gcDone, started, cancelled, closed, ticks, loop,
                 toClose>>

StartAlreadyRunning(c) ==
  /\ gcCancel # nil
  /\ Goto(c, "start", "idle")
  /\ Unlock
  /\ UNCHANGED <<gcCancel, gcDone, started, cancelled, closed, ticks, loop, toClose>>

StartNotRunning(c) == gcCancel = nil /\ CallerOnly(c, "start", "spawn")

(* The context, the channel and the ticker are made, the goroutine is      *)
(* spawned; it may run before the mutex is released.                       *)
StartSpawn(c) ==
  LET l == started + 1 IN
  /\ started < MaxLoops
  /\ Goto(c, "spawn", "unlock")
  /\ started' = l
  /\ gcCancel' = l
  /\ gcDone' = l
  /\ loop' = [loop EXCEPT ![l] = "spawned"]
  /\ UNCHANGED <<gcCancelMu, cancelled, closed, ticks, toClose>>

-----------------------------------------------------------------------------
(* StopGarbageCollection                                                   *)

StopCall(c) == CallerOnly(c, "idle", "stopLock")

StopLock(c) ==
  /\ Goto(c, "stopLock", "stop")
  /\ Lock(c)
  /\ UNCHANGED <<gcCancel, gcDone, started, cancelled, closed, ticks, loop, toClose>>

StopNotRunning(c) ==
  /\ gcCancel = nil
  /\ Goto(c, "stop", "idle")
  /\ Unlock
  /\ UNCHANGED <<gcCancel, gcDone, started, cancelled, closed, ticks, loop, toClose>>

StopCancel(c) ==
  /\ gcCancel # nil
  /\ Goto(c, "stop", "stopWait")
  /\ cancelled' = cancelled \cup {gcCancel}
  /\ UNCHANGED <<gcCancelMu, gcCancel, gcDone, started, closed, ticks, loop, toClose>>

StopDoneAtOnce(c) ==  \* mutant: does not wait for the goroutine
  /\ Goto(c, "stopWait", "unlock")
  /\ gcDone' = nil
  /\ gcCancel' = nil
  /\ UNCHANGED <<gcCancelMu, started, cancelled, closed, ticks, loop, toClose>>

StopDoneKeepsChannel(c) ==  \* mutant: gcDone is not reset
  /\ gcDone \in closed
  /\ Goto(c, "stopWait", "unlock")
  /\ gcCancel' = nil
  /\ UNCHANGED <<gcCancelMu, gcDone, started, cancelled, closed, ticks, loop, toClose>>

StopDone(c) ==
  /\ gcDone \in closed
  /\ Goto(c, "stopWait", "unlock")
  /\ gcDone' = nil
  /\ gcCancel' = nil
  /\ UNCHANGED <<gcCancelMu, started, cancelled, closed, ticks, loop, toClose>>

(* The deferred Unlock of both.                                            *)
Return(c) ==
  /\ Goto(c, "unlock", "idle")
  /\ Unlock
  /\ UNCHANGED <<gcCancel, gcDone, started, cancelled, closed, ticks, loop, toClose>>

-----------------------------------------------------------------------------
(* The goroutine.                                                          *)

GotoLoop(l, from, to) == loop[l] = from /\ loop' = [loop EXCEPT ![l] = to]

(* defer close(p.gcDone) evaluates p.gcDone now.                           *)
LoopEnter(l) ==
  /\ GotoLoop(l, "spawned", "select")
  /\ toClose' = [toClose EXCEPT ![l] = gcDone]
  /\ UNCHANGED <<gcCancelMu, gcCancel, gcDone, started, cancelled, closed, ticks, pc>>

(* A tick is dropped while the previous one is still in the channel.       *)
Tick(l) ==
  /\ loop[l] \in {"spawned", "select", "collect"}
  /\ l \notin ticks
  /\ ticks' = ticks \cup {l}
  /\ UNCHANGED <<gcCancelMu, gcCancel, gcDone, started, cancelled, closed, loop,
                 toClose, pc>>

(* With the tick and the cancellation both ready, select takes either.     *)
LoopTick(l) ==
  /\ GotoLoop(l, "select", "collect")
  /\ l \in ticks
  /\ ticks' = ticks \ {l}
  /\ UNCHANGED <<gcCancelMu, gcCancel, gcDone, started, cancelled, closed, toClose, pc>>

LoopCollected(l) ==
  /\ GotoLoop(l, "collect", "select")
  /\ UNCHANGED <<gcCancelMu, gcCancel, gcDone, started, cancelled, closed, ticks,
                 toClose, pc>>

(* The deferred calls run: ticker.Stop, then close.                        *)
LoopCancelled(l) ==
  /\ GotoLoop(l, "select", "exited")
  /\ l \in cancelled
  /\ closed' = closed \cup {toClose[l]}
  /\ ticks' = ticks \ {l}
  /\ UNCHANGED <<gcCancelMu, gcCancel, gcDone, started, cancelled, toClose, pc>>

-----------------------------------------------------------------------------
CallerStep(c) ==
  \/ StartLock(c) \/ StartAlreadyRunning(c) \/ StartNotRunning(c) \/ StartSpawn(c)
  \/ StopLock(c) \/ StopNotRunning(c) \/ StopCancel(c) \/ StopDone(c)
  \/ Return(c)

LoopStep(l) == LoopEnter(l) \/ LoopTick(l) \/ LoopCollected(l) \/ LoopCancelled(l)

Next ==
  \/ \E c \in Callers : StartCall(c) \/ StopCall(c) \/ CallerStep(c)
  \/ \E l \in Loops : LoopStep(l) \/ Tick(l)

Spec == Init /\ [][Next]_vars

(* Goroutines are scheduled, collectGarbage returns, a waiter gets the     *)
(* mutex in the end (Go's mutexes hand over to a starving waiter), and     *)
(* select, whose choice is uniform, does not ignore the cancellation for   *)
(* ever.  Nothing is assumed of the ticker or of who calls.                *)
Fairness ==
  /\ \A c \in Callers :
       /\ SF_vars(StartLock(c)) /\ SF_vars(StopLock(c))
       /\ WF_vars(StartAlreadyRunning(c) \/ StartNotRunning(c) \/ StartSpawn(c))
       /\ WF_vars(StopNotRunning(c) \/ StopCancel(c) \/ StopDone(c) \/ Return(c))
  /\ \A l \in Loops :
       /\ WF_vars(LoopEnter(l)) /\ WF_vars(LoopCollected(l))
       /\ SF_vars(LoopCancelled(l))

FairSpec == Spec /\ Fairness

-----------------------------------------------------------------------------
(* Properties.                                                             *)

CallerStates ==
  {"idle", "startLock", "start", "spawn", "stopLock", "stop", "stopWait", "unlock"}

(* Every variable stays in its type.                                       *)
TypeOK ==
  /\ gcCancelMu \in Callers \cup {None}
  /\ gcCancel \in 0 .. MaxLoops
  /\ gcDone \in 0 .. MaxLoops
  /\ started \in 0 .. MaxLoops
  /\ cancelled \subseteq Loops
  /\ closed \subseteq 0 .. MaxLoops
  /\ ticks \subseteq Loops
  /\ loop \in [Loops -> {"none", "spawned", "select", "collect", "exited"}]
  /\ toClose \in [Loops -> 0 .. MaxLoops]
  /\ pc \in [Callers -> CallerStates]

Alive(l) == loop[l] \in {"spawned", "select", "collect"}

(* Two loops never sweep one datastore, however Start and Stop calls of    *)
(* several goroutines overlap.                                             *)
AtMostOneLoop == \A l, m \in Loops : Alive(l) /\ Alive(m) => l = m

(* Once a StopGarbageCollection has let go of the mutex, and until the     *)
(* next Start, no goroutine and so no pass is left: the datastore may be   *)
(* closed.                                                                 *)
StoppedMeansStopped ==
  gcCancelMu = None /\ gcCancel = nil => \A l \in Loops : ~Alive(l)

(* The goroutine reads gcDone without the mutex.  It must still be the     *)
(* channel made for it: closing nil, or a channel that is closed, panics.  *)
ClosesItsOwnChannel ==
  [][\A l \in Loops :
       loop'[l] = "exited" /\ loop[l] # "exited" =>
         toClose[l] # nil /\ toClose[l] \notin closed]_vars

(* The strengthening that makes the three inductive.                       *)
HasMutex(c) == pc[c] \in {"start", "spawn", "stop", "stopWait", "unlock"}

IInv ==
  /\ TypeOK
  /\ \A c \in Callers : HasMutex(c) <=> gcCancelMu = c
  /\ \A c \in Callers : pc[c] = "spawn" => gcCancel = nil
  /\ gcDone = gcCancel
  /\ gcCancel \in {nil, started}
  /\ \A l \in Loops :
       /\ l > started <=> loop[l] = "none"
       /\ l <= started /\ l # gcCancel => loop[l] = "exited"
       /\ loop[l] \in {"select", "collect"} => toClose[l] = l
       /\ l \in closed <=> loop[l] = "exited"
  /\ nil \notin closed
  /\ \A c \in Callers : pc[c] = "stopWait" => gcCancel # nil /\ gcCancel \in cancelled

(* Nobody waits for somebody who waits for him: a caller at the mutex      *)
(* waits for the caller that holds it, and that one, if it waits itself,   *)
(* for a loop that is cancelled and runs on without the mutex until it     *)
(* closes the very channel that is waited for.                             *)
HolderIsServed ==
  /\ gcCancelMu # None => HasMutex(gcCancelMu)
  /\ \A c \in Callers : pc[c] = "stopWait" =>
       /\ gcDone \in Loops /\ gcDone \in cancelled
       /\ gcDone \in closed \/ Alive(gcDone)
       /\ loop[gcDone] \in {"select", "collect"} => toClose[gcDone] = gcDone

(* Every call returns: nobody waits for ever for the mutex or for a loop   *)
(* that ignores its cancellation.                                          *)
CallsReturn == \A c \in Callers : pc[c] # "idle" ~> pc[c] = "idle"
=============================================================================
