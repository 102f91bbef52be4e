------------------------------ MODULE MCPublish ------------------------------
(* Constants of Publish for TLC. *)
EXTENDS Publish

CONSTANTS a, b, k, self, peer, other, f

TwoCalls == {a, b}
OneKey == {k}
OnePeer == {peer}
OneForeign == {other}
OneFetch == {f}

(* A value that stays valid, a better one that expires, a worse one, and   *)
(* one that never validates.                                               *)
Value(rank, eol) == [rank |-> rank, eol |-> eol]
Lasting == Value(1, 9)
Fading == Value(2, 0)
Least == Value(0, 9)
Bad == Value(0, -1)
AllVals == {Lasting, Fading, Least, Bad}

Call(op, key, v, online, register) ==
  [op |-> op, key |-> key, value |-> v, online |-> online, register |-> register]
PutOf(v) == Call("put", k, v, TRUE, FALSE)
ProvideIt == Call("provide", k, Bad, TRUE, TRUE)
NoCall == Call("put", NoKey, Bad, TRUE, FALSE)
Pairs(c, d) == (a :> c) @@ (b :> d)

Req(t, key, rk, v, ps, cs) ==
  [type |-> t, key |-> key, recKey |-> rk, value |-> v, providers |-> ps, closer |-> cs]
Of(p, addr) == [id |-> p, addr |-> addr]

PutReq(v) == Req("PUT_VALUE", k, k, v, <<>>, {self})
Puts == {PutReq(v) : v \in AllVals}
Adds ==
  {Req("ADD_PROVIDER", k, NoKey, Bad, ps, {}) :
     ps \in {<<Of(other, TRUE), Of(other, TRUE)>>, <<Of(other, TRUE), Of(peer, TRUE)>>}}
Malformed ==
  {Req("PUT_VALUE", k, NoKey, Least, <<>>, {}), Req("PUT_VALUE", NoKey, NoKey, Least, <<>>, {}),
   Req("ADD_PROVIDER", NoKey, NoKey, Bad, <<Of(other, TRUE)>>, {}),
   Req("ADD_PROVIDER", k, NoKey, Bad, <<>>, {}),
   Req("ADD_PROVIDER", k, NoKey, Bad, <<Of(other, FALSE)>>, {})}
Load(c, d, reqs, reads, until, corrupt) ==
  [call |-> Pairs(c, d), world |-> [requests |-> reqs, reads |-> reads, until |-> until],
   corrupt |-> corrupt]

(* Two values under one key, of which the better one expires; one value    *)
(* against foreign requests and fetches at the peer; a key that is         *)
(* provided and surveyed or removed; offline calls with everything else at *)
(* the DHT; and calls for no key.                                          *)
AllWorkloads ==
  {Load(PutOf(Lasting), PutOf(Fading), {}, {}, 1, {}),
   Load(PutOf(Lasting), NoCall, {PutReq(Least), PutReq(Fading)}, {<<peer, k>>}, 2, {}),
   Load(ProvideIt, Call("survey", k, Bad, TRUE, FALSE), Adds, {}, 0, {}),
   Load(ProvideIt, Call("remove", k, Bad, FALSE, FALSE), {}, {}, 0, {}),
   Load(Call("put", k, Lasting, FALSE, FALSE), Call("put", k, Fading, FALSE, FALSE),
        Puts, {<<self, k>>}, 3, {<<self, k>>}),
   Load(Call("put", k, Lasting, FALSE, FALSE), Call("provide", k, Bad, FALSE, FALSE),
        Puts \cup Adds \cup Malformed, {}, 0, {}),
   Load(NoCall, Call("provide", NoKey, Bad, TRUE, TRUE), {}, {}, 0, {})}
=============================================================================
