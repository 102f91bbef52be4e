--------------------------- MODULE MCRecordBackend ---------------------------
(* Constants of RecordBackend for TLC. *)
EXTENDS RecordBackend

CONSTANTS s1, s2, f1

TwoStores == {s1, s2}
OneFetcher == {f1}

(* A poor value that stays valid and better ones that expire before it. *)
ThreeVals == {[rank |-> 1, eol |-> 9], [rank |-> 2, eol |-> 1], [rank |-> 3, eol |-> 2]}
=============================================================================
