------------------------------ MODULE Records ------------------------------
(***************************************************************************)
(* The records of the IPNS and public key backends (backend_record.go) as  *)
(* a datastore holds them: when one may be replaced, and when it is not    *)
(* served any more.  A value is its rank in the validator's order and the  *)
(* time until which the validator accepts it.                              *)
(***************************************************************************)
EXTENDS Integers

CONSTANT MaxAge  \* age at which a record is no longer served

NoRec == [kind |-> "none"]
Corrupt == [kind |-> "corrupt"]
Record(v, t) == [kind |-> "record", val |-> v, received |-> t]

(* The validator's view of a value, which an expired one does not pass.    *)
ValidVal(v, t) == t <= v.eol

(* May v take the place of record r at time t?                             *)
Replaceable(r, v, t) ==
  r.kind = "record" /\ ValidVal(r.val, t) => v.rank >= r.val.rank

(* Too old to be served, or unreadable.                                    *)
Unusable(r, t) ==
  \/ r.kind = "corrupt"
  \/ r.kind = "record" /\ t - r.received > MaxAge
=============================================================================
