-------------------- MODULE GarbageCollectionLoopProofs --------------------
(***************************************************************************)
(* Proofs about GarbageCollectionLoop, for any number of callers and       *)
(* loops.                                                                  *)
(***************************************************************************)
EXTENDS GarbageCollectionLoop, TLAPS

LEMMA InitIInv == Init => IInv
  BY ConstantsAssumption
  DEF Init, IInv, TypeOK, HasMutex, CallerStates, Loops, nil

LEMMA StartKeepsIInv ==
  ASSUME IInv, NEW c \in Callers,
         StartCall(c) \/ StartLock(c) \/ StartAlreadyRunning(c) \/ StartNotRunning(c)
           \/ StartSpawn(c)
  PROVE  IInv'
<1> USE ConstantsAssumption DEF IInv, TypeOK, HasMutex, CallerStates, Goto, CallerOnly,
        Lock, Unlock, nil, Loops
<1>1. CASE StartCall(c)
  BY <1>1 DEF StartCall
<1>2. CASE StartLock(c)
  BY <1>2 DEF StartLock
<1>3. CASE StartAlreadyRunning(c)
  BY <1>3 DEF StartAlreadyRunning
<1>4. CASE StartNotRunning(c)
  BY <1>4 DEF StartNotRunning
<1>5. CASE StartSpawn(c)
  <2>1. TypeOK'
    BY <1>5 DEF StartSpawn
  <2>2. \A d \in Callers : (HasMutex(d) <=> gcCancelMu = d)'
    BY <1>5 DEF StartSpawn
  <2>3. \A d \in Callers : (pc[d] = "spawn" => gcCancel = nil)'
    BY <1>5 DEF StartSpawn
  <2>4. gcDone' = gcCancel' /\ gcCancel' \in {nil, started'}
    BY <1>5 DEF StartSpawn
  <2>5. ASSUME NEW l \in Loops
        PROVE  (/\ l > started <=> loop[l] = "none"
                /\ l <= started /\ l # gcCancel => loop[l] = "exited"
                /\ loop[l] \in {"select", "collect"} => toClose[l] = l
                /\ l \in closed <=> loop[l] = "exited")'
    BY <1>5, <2>5 DEF StartSpawn
  <2>6. nil \notin closed'
    BY <1>5 DEF StartSpawn
  <2>7. \A d \in Callers : pc'[d] # "stopWait"
    BY <1>5 DEF StartSpawn
  <2>8. QED  BY <2>1, <2>2, <2>3, <2>4, <2>5, <2>6, <2>7
<1>6. QED  BY <1>1, <1>2, <1>3, <1>4, <1>5

LEMMA StopKeepsIInv ==
  ASSUME IInv, NEW c \in Callers,
         StopCall(c) \/ StopLock(c) \/ StopNotRunning(c) \/ StopCancel(c)
           \/ StopDone(c) \/ Return(c)
  PROVE  IInv'
<1> USE ConstantsAssumption DEF IInv, TypeOK, HasMutex, CallerStates, Goto, CallerOnly,
        Lock, Unlock, nil, Loops
<1>1. CASE StopCall(c)
  BY <1>1 DEF StopCall
<1>2. CASE StopLock(c)
  BY <1>2 DEF StopLock
<1>3. CASE StopNotRunning(c)
  BY <1>3 DEF StopNotRunning
<1>4. CASE StopCancel(c)
  BY <1>4 DEF StopCancel
<1>5. CASE StopDone(c)
  BY <1>5 DEF StopDone
<1>6. CASE Return(c)
  BY <1>6 DEF Return
<1>7. QED  BY <1>1, <1>2, <1>3, <1>4, <1>5, <1>6

LEMMA LoopKeepsIInv ==
  ASSUME IInv, NEW l \in Loops, LoopStep(l) \/ Tick(l)
  PROVE  IInv'
<1> USE ConstantsAssumption DEF IInv, TypeOK, HasMutex, GotoLoop, nil, Loops
<1>1. CASE LoopEnter(l)
  <2>1. loop[l] = "spawned" /\ gcDone = l /\ l \notin closed
    BY <1>1 DEF LoopEnter
  <2>2. TypeOK'
    BY <1>1 DEF LoopEnter
  <2>3. ASSUME NEW m \in Loops
        PROVE  (/\ m > started <=> loop[m] = "none"
                /\ m <= started /\ m # gcCancel => loop[m] = "exited"
                /\ loop[m] \in {"select", "collect"} => toClose[m] = m
                /\ m \in closed <=> loop[m] = "exited")'
    BY <1>1, <2>1, <2>3 DEF LoopEnter
  <2>4. QED  BY <1>1, <2>2, <2>3 DEF LoopEnter
<1>2. CASE LoopTick(l)
  <2>1. TypeOK'
    BY <1>2 DEF LoopTick
  <2>2. QED  BY <1>2, <2>1 DEF LoopTick
<1>3. CASE LoopCollected(l)
  <2>1. TypeOK'
    <3>1. loop' = [loop EXCEPT ![l] = "select"]
      BY <1>3 DEF LoopCollected
    <3>2. QED  BY <1>3, <3>1 DEF LoopCollected
  <2>2. QED  BY <1>3, <2>1 DEF LoopCollected
<1>4. CASE LoopCancelled(l)
  <2>1. toClose[l] = l
    BY <1>4 DEF LoopCancelled
  <2>2. TypeOK'
    <3>1. /\ loop' = [loop EXCEPT ![l] = "exited"] /\ closed' = closed \cup {l}
          /\ ticks' \subseteq Loops /\ l \in 0 .. MaxLoops
      BY <1>4, <2>1 DEF LoopCancelled
    <3>2. /\ loop' \in [Loops -> {"none", "spawned", "select", "collect", "exited"}]
          /\ closed' \subseteq Loops
      BY <3>1
    <3>3. QED  BY <1>4, <3>1, <3>2 DEF LoopCancelled
  <2>3. ASSUME NEW m \in Loops
        PROVE  (/\ m > started <=> loop[m] = "none"
                /\ m <= started /\ m # gcCancel => loop[m] = "exited"
                /\ loop[m] \in {"select", "collect"} => toClose[m] = m
                /\ m \in closed <=> loop[m] = "exited")'
    BY <1>4, <2>1, <2>3 DEF LoopCancelled
  <2>4. QED  BY <1>4, <2>1, <2>2, <2>3 DEF LoopCancelled
<1>5. CASE Tick(l)
  BY <1>5 DEF Tick
<1>6. QED  BY <1>1, <1>2, <1>3, <1>4, <1>5 DEF LoopStep

LEMMA NextIInv == IInv /\ [Next]_vars => IInv'
<1> SUFFICES ASSUME IInv, [Next]_vars
             PROVE  IInv'
  OBVIOUS
<1>1. CASE UNCHANGED vars
  BY <1>1 DEF IInv, TypeOK, HasMutex, vars
<1>2. QED
  BY <1>1, StartKeepsIInv, StopKeepsIInv, LoopKeepsIInv DEF Next, CallerStep

(* gcDone, gcCancel, the mutex and the loops agree at every step of Start, *)
(* Stop and the goroutine.                                                 *)
THEOREM IInvHolds == Spec => []IInv
  BY InitIInv, NextIInv, PTL DEF Spec

(* At no time do two garbage collection loops run.                         *)
THEOREM OneLoop == Spec => []AtMostOneLoop
<1>1. IInv => AtMostOneLoop
  BY DEF IInv, TypeOK, AtMostOneLoop, Alive, Loops
<1>2. QED  BY <1>1, IInvHolds, PTL

(* After StopGarbageCollection no loop and no pass is left.                *)
THEOREM StopIsFinal == Spec => []StoppedMeansStopped
<1>1. IInv => StoppedMeansStopped
  BY DEF IInv, TypeOK, StoppedMeansStopped, Alive, Loops, nil
<1>2. QED  BY <1>1, IInvHolds, PTL

(* The mutex is held by a caller inside Start or Stop, never by nobody, and *)
(* what Stop waits for under the mutex comes about without it.             *)
THEOREM WaitsAreServed == Spec => []HolderIsServed
<1>1. ASSUME IInv
      PROVE  HolderIsServed
  <2>1. gcCancelMu # None => HasMutex(gcCancelMu)
    BY <1>1 DEF IInv, TypeOK
  <2>2. ASSUME NEW c \in Callers, pc[c] = "stopWait"
        PROVE  /\ gcDone \in Loops /\ gcDone \in cancelled
               /\ gcDone \in closed \/ Alive(gcDone)
               /\ loop[gcDone] \in {"select", "collect"} => toClose[gcDone] = gcDone
    <3>1. gcDone \in Loops /\ gcDone \in cancelled /\ gcDone = started
      BY <1>1, <2>2 DEF IInv, TypeOK, Loops, nil
    <3>2. QED
      BY <1>1, <3>1 DEF IInv, TypeOK, Alive
  <2>3. QED  BY <2>1, <2>2 DEF HolderIsServed
<1>2. QED  BY <1>1, IInvHolds, PTL

(* A goroutine that exits closes the channel made for it, once.            *)
THEOREM NoPanicOnClose == Spec => ClosesItsOwnChannel
<1> DEFINE Closes == \A l \in Loops :
             loop'[l] = "exited" /\ loop[l] # "exited" =>
               toClose[l] # nil /\ toClose[l] \notin closed
<1>1. ASSUME IInv, [Next]_vars
      PROVE  Closes
  <2> SUFFICES ASSUME NEW l \in Loops, loop'[l] = "exited", loop[l] # "exited"
               PROVE  toClose[l] # nil /\ toClose[l] \notin closed
    OBVIOUS
  <2>1. loop[l] = "select"
    <3>1. CASE \E m \in Loops : LoopStep(m)
      <4> PICK m \in Loops : LoopStep(m)
        BY <3>1
      <4>1. loop \in [Loops -> {"none", "spawned", "select", "collect", "exited"}]
        BY <1>1 DEF IInv, TypeOK
      <4>2. QED  BY <4>1 DEF LoopStep, LoopEnter, LoopTick, LoopCollected,
                             LoopCancelled, GotoLoop
    <3>2. CASE \E m \in Loops : Tick(m)
      BY <3>2 DEF Tick
    <3>3. CASE \E c \in Callers : StartCall(c) \/ StopCall(c) \/ CallerStep(c)
      <4> PICK c \in Callers : StartCall(c) \/ StopCall(c) \/ CallerStep(c)
        BY <3>3
      <4>1. CASE StartSpawn(c)
        BY <4>1, <1>1 DEF StartSpawn, IInv, TypeOK, Loops
      <4>2. CASE ~StartSpawn(c)
        BY <4>2 DEF CallerStep, StartCall, StartLock, StartAlreadyRunning,
                    StartNotRunning, StopCall, StopLock, StopNotRunning, StopCancel,
                    StopDone, Return, CallerOnly
      <4>3. QED  BY <4>1, <4>2
    <3>4. CASE UNCHANGED vars
      BY <3>4 DEF vars
    <3>5. QED  BY <1>1, <3>1, <3>2, <3>3, <3>4 DEF Next
  <2>2. QED  BY <1>1, <2>1 DEF IInv, Loops, nil
<1>2. IInv /\ [Next]_vars => [Closes]_vars
  BY <1>1
<1>3. QED  BY <1>2, IInvHolds, PTL DEF Spec, ClosesItsOwnChannel
=============================================================================
