--------------------------- MODULE RecordRegister ---------------------------
(***************************************************************************)
(* What a record backend promises for one key: a register that only gets   *)
(* better.  A value is replaced in one step, and only by one that is at    *)
(* least as good, unless it has expired or cannot be read.  It is removed  *)
(* only by a reader that has read it, or a predecessor of it, and finds    *)
(* what it has read unusable.                                              *)
(***************************************************************************)
EXTENDS Records

CONSTANTS
  Vals,     \* the values a record can have: [rank, eol]
  Readers,  \* who may remove a record
  MaxTime   \* bound on the clock

VARIABLES
  now,      \* the wall clock
  reg,      \* the register: [val, received], or no or an unreadable record
  seen      \* what each reader has read

vars == <<now, reg, seen>>

Init ==
  /\ now = 0
  /\ reg \in {NoRec, Corrupt}
  /\ seen = [r \in Readers |-> NoRec]

Put(v, t) ==
  /\ Replaceable(reg, v, now)
  /\ reg' = Record(v, t)
  /\ UNCHANGED <<now, seen>>

Read(r) ==
  /\ seen' = [seen EXCEPT ![r] = reg]
  /\ UNCHANGED <<now, reg>>

Remove(r) ==
  /\ Unusable(seen[r], now)
  /\ reg' = NoRec
  /\ seen' = [seen EXCEPT ![r] = NoRec]
  /\ UNCHANGED now

Forget(r) ==
  /\ seen' = [seen EXCEPT ![r] = NoRec]
  /\ UNCHANGED <<now, reg>>

Restart ==
  /\ seen' = [r \in Readers |-> NoRec]
  /\ UNCHANGED <<now, reg>>

Tick == now < MaxTime /\ now' = now + 1 /\ UNCHANGED <<reg, seen>>

Next ==
  \/ \E v \in Vals, t \in 0 .. now : Put(v, t)
  \/ \E r \in Readers : Read(r) \/ Remove(r) \/ Forget(r)
  \/ Restart
  \/ Tick

Spec == Init /\ [][Next]_vars
=============================================================================
