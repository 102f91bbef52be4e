-------------------------- MODULE SearchValueProofs --------------------------
(***************************************************************************)
(* Proofs about SearchValue, for any peers, any values and any quorum.     *)
(***************************************************************************)
EXTENDS SearchValue, FiniteSetTheorems, TLAPS

(* Validate of the best value so far and a new one.                        *)
LEMMA ValidateTwo ==
  ASSUME NEW b \in OptValues, NEW v \in Values, valid \subseteq Values
  PROVE  /\ Validate(<<b, v>>) = 0 =>
              b \in valid /\ (v \in valid => Rank[b] >= Rank[v])
         /\ Validate(<<b, v>>) = 1 =>
              v \in valid /\ (b \in valid => Rank[v] > Rank[b])
         /\ Validate(<<b, v>>) = -1 => b \notin valid /\ v \notin valid
<1> DEFINE s == <<b, v>>
           good == {i \in DOMAIN s : s[i] \in valid}
           Best(i) == i \in good /\ \A j \in good : Better(s, i, j)
<1>1. /\ DOMAIN s = {1, 2} /\ s[1] = b /\ s[2] = v
      /\ \A x \in valid : Rank[x] \in Nat
  BY ConstantsAssumption
<1>2. CASE good = {}
  BY <1>1, <1>2 DEF Validate
<1>3. CASE good # {}
  <2>1. \E i \in good : Best(i)
    <3>1. CASE b \notin valid \/ v \notin valid
      BY <1>1, <1>3, <3>1 DEF Better
    <3>2. CASE b \in valid /\ v \in valid
      <4>1. Rank[b] > Rank[v] \/ Rank[b] = Rank[v] \/ Rank[v] > Rank[b]
        BY <1>1, <3>2
      <4>2. QED
        BY <1>1, <3>2, <4>1 DEF Better
    <3>3. QED  BY <3>1, <3>2
  <2>2. PICK i \in good : Best(i) /\ Validate(s) = i - 1
    BY <1>3, <2>1 DEF Validate
  <2>3. CASE i = 1
    BY <1>1, <2>2, <2>3 DEF Better
  <2>4. CASE i = 2
    BY <1>1, <2>2, <2>4 DEF Better
  <2>5. QED  BY <1>1, <2>2, <2>3, <2>4
<1>4. QED  BY <1>2, <1>3

LEMMA InitIInv == Init => IInv
<1> SUFFICES ASSUME Init
             PROVE  IInv
  OBVIOUS
<1>1. IsFiniteSet({}) /\ NoValue \in OptValues /\ 0 \in 0 .. MaxExpiries
  BY FS_EmptySet, ConstantsAssumption DEF OptValues
<1>2. \A p \in Peers : answered[p] \notin valid
  BY ConstantsAssumption DEF Init
<1>3. QED
  BY <1>1, <1>2 DEF Init, IInv, TypeOK, PCs, SearchInProgress, NothingExpired, Answer, AnswersTakenOnce, FirstIsLocal

-----------------------------------------------------------------------------
(* The steps of the search.                                                *)

LEMMA StartKeepsIInv ==
  ASSUME IInv, SearchFails \/ SearchOffline \/ SearchNoLocal \/ SearchLocal \/ SendLocal
  PROVE  IInv'
<1> USE DEF IInv, network, options, search
<1>1. best = NoValue /\ quorumPeers = {}
  BY DEF SearchInProgress, SearchFails, SearchOffline, SearchNoLocal, SearchLocal,
         SendLocal, TypeOK, Answer, AnswersTakenOnce, FirstIsLocal
<1>2. TypeOK'
  BY DEF TypeOK, PCs, SearchFails, SearchOffline, SearchNoLocal, SearchLocal, SendLocal,
         OptValues, SearchInProgress
<1>3. SearchInProgress'
  BY <1>1
  DEF SearchInProgress, Answer, AnswersTakenOnce, FirstIsLocal, SearchFails, SearchOffline, SearchNoLocal, SearchLocal,
      SendLocal
<1>4. NothingExpired => NothingExpired'
  BY DEF NothingExpired, Answer, SearchFails, SearchOffline, SearchNoLocal, SearchLocal,
         SendLocal
<1>5. QED
  BY <1>2, <1>3, <1>4
  DEF SearchFails, SearchOffline, SearchNoLocal, SearchLocal, SendLocal

LEMMA TakeFacts ==
  ASSUME IInv, NEW p \in Peers, Take(p)
  PROVE  /\ reply[p] \in Values /\ reply[p] # NoValue /\ p \in asked /\ ~Answer(p)
         /\ best \in OptValues /\ valid \subseteq Values
         /\ p \notin quorumPeers
         /\ answered' = [answered EXCEPT ![p] = reply[p]]
         /\ answered' \in [Peers -> OptValues]
         /\ reply' \in [Peers -> OptValues]
         /\ \A q \in Peers : reply'[q] # NoValue => reply'[q] = reply[q] /\ q # p
  BY DEF IInv, TypeOK, SearchInProgress, Take, Answer, AnswersTakenOnce, FirstIsLocal, OptValues

LEMMA NotBetterKeepsIInv ==
  ASSUME IInv, NEW p \in Peers, ReplyNotBetter(p)
  PROVE  IInv'
<1> DEFINE agree == IF reply[p] = best THEN quorumPeers \cup {p} ELSE quorumPeers
<1>1. /\ Take(p) /\ quorumPeers' = agree
      /\ pc' = IF QuorumReached(agree) THEN "quorum" ELSE "query"
      /\ pc = "query"
      /\ UNCHANGED <<best, fixupPeers, valid, expiries, holds, asked, fixed, local,
                     offline, quorum, got>>
  BY DEF ReplyNotBetter, Take, options
<1>2. best \in valid /\ (reply[p] \in valid => Rank[best] >= Rank[reply[p]])
  BY <1>1, TakeFacts, ValidateTwo DEF ReplyNotBetter
<1>3. best # NoValue /\ quorumPeers # {}
  BY <1>2, ConstantsAssumption DEF IInv, TypeOK, SearchInProgress
<1>4. /\ IsFiniteSet(agree)
      /\ Cardinality(quorumPeers) \in Nat /\ Cardinality(agree) \in Nat
      /\ Cardinality(agree) <= Cardinality(quorumPeers) + 1
  <2>1. IsFiniteSet(quorumPeers) /\ p \notin quorumPeers
    BY <1>1, TakeFacts DEF IInv, SearchInProgress
  <2>2. /\ IsFiniteSet(quorumPeers \cup {p})
        /\ Cardinality(quorumPeers \cup {p}) = Cardinality(quorumPeers) + 1
    BY <2>1, FS_AddElement
  <2>3. Cardinality(quorumPeers) \in Nat
    BY <2>1, FS_CardinalityType
  <2>4. QED
    BY <2>1, <2>2, <2>3
<1>5. TypeOK'
  BY <1>1, TakeFacts DEF IInv, TypeOK, PCs
<1>6. SearchInProgress'
  <2>1. \A q \in quorumPeers' : answered'[q] = best'
    BY <1>1, TakeFacts DEF IInv, TypeOK, SearchInProgress
  <2>2. pc' = "quorum" => Cardinality(quorumPeers') = quorum
    BY <1>1 DEF QuorumReached
  <2>3. pc' = "query" /\ quorum > 0 => Cardinality(quorumPeers') < quorum
    BY <1>1, <1>3, <1>4, ConstantsAssumption DEF QuorumReached, IInv, TypeOK, SearchInProgress
  <2>4. AnswersTakenOnce'
    BY <1>1, TakeFacts DEF IInv, TypeOK, SearchInProgress, AnswersTakenOnce, Answer
  <2>5. FirstIsLocal'
    BY <1>1, <1>3 DEF FirstIsLocal
  <2>6. QED
    BY <1>1, <1>3, <1>4, <2>1, <2>2, <2>3, <2>4, <2>5 DEF IInv, SearchInProgress
<1>7. NothingExpired => NothingExpired'
  <2>1. \A q \in Peers : q # p => answered'[q] = answered[q] /\ Answer(q)' = Answer(q)
    BY TakeFacts, <1>1 DEF IInv, TypeOK, Answer
  <2>2. answered'[p] = reply[p]
    BY TakeFacts, <1>1 DEF IInv, TypeOK
  <2>3. QED
    BY <1>1, <1>2, <1>3, <2>1, <2>2, TakeFacts DEF NothingExpired, Answer, IInv, TypeOK
<1>8. QED
  BY <1>1, <1>5, <1>6, <1>7 DEF IInv

LEMMA BetterKeepsIInv ==
  ASSUME IInv, NEW p \in Peers, ReplyBetter(p)
  PROVE  IInv'
<1>1. /\ Take(p) /\ best' = reply[p] /\ quorumPeers' = {p}
      /\ fixupPeers' = fixupPeers \cup quorumPeers
      /\ pc' = "send" /\ pc = "query"
      /\ UNCHANGED <<valid, expiries, holds, asked, fixed, local, offline, quorum, got>>
  BY DEF ReplyBetter, Take, options
<1>2. reply[p] \in valid /\ (best \in valid => Rank[reply[p]] > Rank[best])
  BY <1>1, TakeFacts, ValidateTwo DEF ReplyBetter
<1>3. IsFiniteSet(quorumPeers') /\ Cardinality(quorumPeers') = 1
  BY <1>1, FS_Singleton
<1>4. TypeOK'
  BY <1>1, TakeFacts DEF IInv, TypeOK, PCs, OptValues
<1>5. answered'[p] = reply[p] /\ \A q \in Peers : q # p => answered'[q] = answered[q]
  BY <1>1, TakeFacts DEF IInv, TypeOK
<1>6. SearchInProgress'
  <2>1. AnswersTakenOnce'
    BY <1>1, TakeFacts DEF IInv, TypeOK, SearchInProgress, AnswersTakenOnce, Answer
  <2>2. FirstIsLocal'
    BY <1>1 DEF IInv, SearchInProgress, FirstIsLocal
  <2>3. QED
    BY <1>1, <1>3, <1>5, <2>1, <2>2, TakeFacts DEF SearchInProgress
<1>7. ASSUME NothingExpired, expiries = 0
      PROVE  NothingExpired'
  <2>1. \A x \in valid : Rank[x] \in Nat
    BY ConstantsAssumption DEF IInv, TypeOK
  <2>2. \A q \in Peers : answered[q] \in valid => Rank[reply[p]] > Rank[answered[q]]
    BY <1>2, <1>7, <2>1, ConstantsAssumption DEF NothingExpired, IInv, TypeOK
  <2>3. \A q \in fixupPeers' : Answer(q)' /\ Rank[answered'[q]] < Rank[best']
    <3>1. ASSUME NEW q \in fixupPeers
          PROVE  Answer(q) /\ Rank[answered[q]] < Rank[reply[p]] /\ q # p
      <4>1. Answer(q) /\ Rank[answered[q]] < Rank[best] /\ q # p /\ q \in Peers
        BY <1>1, <1>7, <3>1, TakeFacts DEF NothingExpired, IInv, TypeOK
      <4>2. best \in valid
        BY <1>7, <3>1 DEF NothingExpired, IInv, SearchInProgress
      <4>3. answered[q] \in Values
        BY <4>1 DEF IInv, TypeOK, Answer, OptValues
      <4>4. Rank[answered[q]] \in Nat
        BY <4>3, ConstantsAssumption
      <4>5. Rank[best] \in Nat /\ Rank[reply[p]] \in Nat
        BY <1>2, <2>1, <4>2
      <4>6. QED  BY <1>2, <4>1, <4>2, <4>4, <4>5
    <3>2. ASSUME NEW q \in quorumPeers
          PROVE  Answer(q) /\ Rank[answered[q]] < Rank[reply[p]] /\ q # p
      BY <1>1, <1>2, <1>7, TakeFacts, ConstantsAssumption
      DEF NothingExpired, IInv, TypeOK, SearchInProgress, Answer, AnswersTakenOnce, FirstIsLocal
    <3>3. QED
      BY <1>1, <1>5, <3>1, <3>2 DEF Answer, IInv, TypeOK
  <2>4. \A q \in Peers : Answer(q)' /\ answered'[q] = best' => q = p
    <3>1. \A q \in Peers : answered[q] # reply[p]
      BY <1>2, <2>1, <2>2
    <3>2. QED  BY <1>1, <1>5, <3>1
  <2>5. \A q \in Peers : answered'[q] \in valid' => Rank[best'] >= Rank[answered'[q]]
    BY <1>1, <1>2, <1>5, <2>1, <2>2
  <2>6. best' # NoValue /\ best' \in valid'
    BY <1>1, <1>2, TakeFacts
  <2>7. fixed' = {}
    BY <1>1, <1>7 DEF NothingExpired
  <2>8. fixupPeers' # {} => got' # NoValue /\ Rank[got'] < Rank[best']
    <3>1. fixupPeers' # {} => best # NoValue /\ got = best /\ best \in valid
      BY <1>1, <1>7 DEF IInv, SearchInProgress, NothingExpired
    <3>2. QED  BY <1>1, <1>2, <2>1, <3>1
  <2>9. QED
    BY <1>1, <2>3, <2>4, <2>5, <2>6, <2>7, <2>8 DEF NothingExpired
<1>8. QED
  BY <1>1, <1>4, <1>6, <1>7 DEF IInv

LEMMA InvalidKeepsIInv ==
  ASSUME IInv, NEW p \in Peers, ReplyInvalid(p)
  PROVE  IInv'
<1>1. /\ Take(p) /\ pc = "query"
      /\ UNCHANGED <<pc, best, quorumPeers, fixupPeers, valid, expiries, holds, asked,
                     fixed, local, offline, quorum, got>>
  BY DEF ReplyInvalid, Take, options
<1>2. best \notin valid /\ reply[p] \notin valid
  BY <1>1, TakeFacts, ValidateTwo DEF ReplyInvalid
<1>3. answered'[p] = reply[p] /\ \A q \in Peers : q # p => answered'[q] = answered[q]
  BY <1>1, TakeFacts DEF IInv, TypeOK
<1>4. TypeOK'
  BY <1>1, TakeFacts DEF IInv, TypeOK
<1>5. SearchInProgress'
  <2>1. AnswersTakenOnce'
    BY <1>1, TakeFacts DEF IInv, TypeOK, SearchInProgress, AnswersTakenOnce, Answer
  <2>2. \A q \in quorumPeers' : answered'[q] = best'
    BY <1>1, <1>3, TakeFacts DEF IInv, TypeOK, SearchInProgress
  <2>3. FirstIsLocal'
    BY <1>1 DEF IInv, SearchInProgress, FirstIsLocal
  <2>4. QED
    BY <1>1, <2>1, <2>2, <2>3 DEF IInv, SearchInProgress
<1>6. ASSUME NothingExpired, expiries = 0
      PROVE  NothingExpired'
  <2>1. best = NoValue
    BY <1>2, <1>6 DEF NothingExpired
  <2>2. fixupPeers = {}
    BY <1>6, <2>1, ConstantsAssumption
    DEF NothingExpired, IInv, TypeOK, SearchInProgress, Answer, AnswersTakenOnce, FirstIsLocal
  <2>3. QED
    BY <1>1, <1>2, <1>3, <1>6, <2>1, <2>2, TakeFacts DEF NothingExpired, Answer
<1>7. QED
  BY <1>1, <1>4, <1>5, <1>6 DEF IInv

LEMMA QueryKeepsIInv ==
  ASSUME IInv, SendBest \/ QueryEnds \/ QueryFails \/ Finish
  PROVE  IInv'
<1> USE DEF network, options, search
<1>1. TypeOK'
  BY DEF IInv, TypeOK, PCs, SendBest, QueryEnds, QueryFails, Finish
<1>2. SearchInProgress'
  <2>1. CASE SendBest
    <3>1. quorum > 0 /\ quorum # 1 => 1 < quorum
      BY ConstantsAssumption DEF IInv, TypeOK
    <3>2. QED
      BY <2>1, <3>1 DEF IInv, SearchInProgress, SendBest, QuorumReached, Answer, AnswersTakenOnce, FirstIsLocal
  <2>2. CASE QueryEnds \/ QueryFails \/ Finish
    BY <2>2 DEF IInv, SearchInProgress, QueryEnds, QueryFails, Finish, Answer, AnswersTakenOnce, FirstIsLocal
  <2>3. QED  BY <2>1, <2>2
<1>3. NothingExpired => NothingExpired'
  BY DEF NothingExpired, Answer, SendBest, QueryEnds, QueryFails, Finish
<1>4. QED
  BY <1>1, <1>2, <1>3 DEF IInv, SendBest, QueryEnds, QueryFails, Finish

LEMMA SearchKeepsIInv == IInv /\ SearchStep => IInv'
BY StartKeepsIInv, QueryKeepsIInv, NotBetterKeepsIInv, BetterKeepsIInv, InvalidKeepsIInv
DEF SearchStep

-----------------------------------------------------------------------------
(* The steps of the peers.                                                 *)

(* What a peer stores is no worse than a valid value it holds.             *)
LEMMA StoresNothingWorse ==
  ASSUME IInv, NEW p \in Peers, NEW v \in Values, Accepts(p, v),
         holds' = [holds EXCEPT ![p] = v], UNCHANGED <<valid, best, expiries>>
  PROVE  /\ holds' \in [Peers -> OptValues]
         /\ \A q \in Peers :
              best \in valid /\ holds[q] \in valid /\ Rank[holds[q]] >= Rank[best] =>
                holds'[q] \in valid /\ Rank[holds'[q]] >= Rank[best]
<1>1. \A x \in valid : Rank[x] \in Nat
  BY ConstantsAssumption DEF IInv, TypeOK
<1>2. QED
  BY <1>1 DEF IInv, TypeOK, OptValues, Accepts

LEMMA FixupKeepsIInv ==
  ASSUME IInv, NEW p \in Peers, FixupPut(p)
  PROVE  IInv'
<1>1. /\ pc = "fixup" /\ p \in fixupPeers
      /\ fixupPeers' = fixupPeers \ {p}
      /\ holds' = [holds EXCEPT ![p] = IF Accepts(p, best) THEN best ELSE holds[p]]
      /\ fixed' = fixed \cup {p}
      /\ UNCHANGED <<valid, expiries, reply, asked, local, offline, quorum, pc, best,
                     quorumPeers, got, answered>>
  BY DEF FixupPut, options
<1>2. best \in Values
  BY <1>1 DEF IInv, TypeOK, SearchInProgress, OptValues
<1>3. TypeOK'
  BY <1>1, <1>2 DEF IInv, TypeOK, OptValues
<1>4. SearchInProgress'
  BY <1>1 DEF IInv, SearchInProgress, Answer, AnswersTakenOnce, FirstIsLocal
<1>5. ASSUME NothingExpired
      PROVE  NothingExpired'
  <2>1. best \in valid /\ Rank[best] \in Nat
    BY <1>2, <1>5, ConstantsAssumption DEF NothingExpired
  <2>2. holds'[p] \in valid /\ Rank[holds'[p]] >= Rank[best]
    <3>1. CASE Accepts(p, best)
      BY <1>1, <2>1, <3>1 DEF IInv, TypeOK
    <3>2. CASE ~Accepts(p, best)
      <4>1. holds'[p] = holds[p] /\ holds[p] \in valid /\ ~(Rank[best] >= Rank[holds[p]])
        BY <1>1, <2>1, <3>2 DEF IInv, TypeOK, Accepts
      <4>2. Rank[holds[p]] \in Nat
        BY <4>1, ConstantsAssumption DEF IInv, TypeOK
      <4>3. QED  BY <2>1, <4>1, <4>2
    <3>3. QED  BY <3>1, <3>2
  <2>3. \A q \in Peers : q # p => holds'[q] = holds[q]
    BY <1>1 DEF IInv, TypeOK
  <2>4. \A q \in fixed' : holds'[q] \in valid' /\ Rank[holds'[q]] >= Rank[best']
    BY <1>1, <1>5, <2>2, <2>3 DEF NothingExpired, IInv, TypeOK
  <2>5. QED
    BY <1>1, <1>2, <1>5, <2>4, ConstantsAssumption DEF NothingExpired, Answer
<1>6. QED
  BY <1>1, <1>3, <1>4, <1>5 DEF IInv

LEMMA StoresKeepsIInv ==
  ASSUME IInv, NEW p \in Peers, NEW v \in Values, PeerStores(p, v)
  PROVE  IInv'
<1>1. /\ Accepts(p, v) /\ holds' = [holds EXCEPT ![p] = v]
      /\ UNCHANGED <<valid, expiries, reply, asked, fixed, local, offline, quorum, pc, best,
                     quorumPeers, fixupPeers, got, answered>>
  BY DEF PeerStores, options, search
<1>2. TypeOK' /\ SearchInProgress'
  BY <1>1, StoresNothingWorse DEF IInv, TypeOK, SearchInProgress, Answer, AnswersTakenOnce, FirstIsLocal
<1>3. ASSUME NothingExpired
      PROVE  NothingExpired'
  <2>1. fixed # {} => best \in valid
    BY <1>3, ConstantsAssumption DEF NothingExpired, IInv, TypeOK
  <2>2. \A q \in fixed' : holds'[q] \in valid' /\ Rank[holds'[q]] >= Rank[best']
    BY <1>1, <1>3, <2>1, StoresNothingWorse DEF NothingExpired, IInv, TypeOK
  <2>3. QED
    BY <1>1, <1>3, <2>2 DEF NothingExpired, Answer
<1>4. QED
  BY <1>1, <1>2, <1>3 DEF IInv

LEMMA NetworkKeepsIInv == IInv /\ NetworkStep => IInv'
<1> SUFFICES ASSUME IInv, NetworkStep
             PROVE  IInv'
  OBVIOUS
<1>1. ASSUME NEW p \in Peers, FixupLost(p)
      PROVE  IInv'
  BY <1>1
  DEF FixupLost, network, options, IInv, TypeOK, SearchInProgress, NothingExpired, Answer, AnswersTakenOnce, FirstIsLocal
<1>2. ASSUME NEW p \in Peers, PeerAnswers(p)
      PROVE  IInv'
  <2>1. /\ asked' = asked \cup {p} /\ reply' = [reply EXCEPT ![p] = holds[p]]
        /\ p \notin asked /\ pc \in {"query", "send"}
        /\ UNCHANGED <<valid, expiries, holds, fixed, local, offline, quorum, pc, best,
                       quorumPeers, fixupPeers, got, answered>>
    BY <1>2 DEF PeerAnswers, options, search
  <2>2. ~Answer(p)
    BY <2>1 DEF IInv, SearchInProgress, AnswersTakenOnce
  <2>3. AnswersTakenOnce'
    BY <2>1, <2>2 DEF IInv, TypeOK, SearchInProgress, AnswersTakenOnce, Answer
  <2>4. QED
    BY <2>1, <2>3 DEF IInv, TypeOK, SearchInProgress, NothingExpired, Answer, AnswersTakenOnce, FirstIsLocal
<1>3. ASSUME NEW v \in Values, Expire(v)
      PROVE  IInv'
  <2>1. /\ expiries' = expiries + 1 /\ expiries' \in 0 .. MaxExpiries /\ expiries' # 0
        /\ valid' = valid \ {v}
        /\ UNCHANGED <<holds, reply, asked, fixed, local, offline, quorum, pc, best, quorumPeers,
                       fixupPeers, got, answered>>
    BY <1>3, ConstantsAssumption DEF Expire, options, search, IInv, TypeOK
  <2>2. QED
    BY <2>1 DEF IInv, TypeOK, SearchInProgress, Answer, AnswersTakenOnce, FirstIsLocal
<1>4. QED
  BY <1>1, <1>2, <1>3, FixupKeepsIInv, StoresKeepsIInv DEF NetworkStep

LEMMA NextKeepsIInv == IInv /\ [Next]_vars => IInv'
<1>1. IInv /\ UNCHANGED vars => IInv'
  BY DEF vars, IInv, TypeOK, SearchInProgress, NothingExpired, Answer, AnswersTakenOnce, FirstIsLocal
<1>2. QED
  BY <1>1, SearchKeepsIInv, NetworkKeepsIInv DEF Next

(* The quorum peers are those that answered best, in every order of the    *)
(* answers.                                                                *)
THEOREM Inductive == Spec => []IInv
BY InitIInv, NextKeepsIInv, PTL DEF Spec

-----------------------------------------------------------------------------
(* A search that ends before the query has the quorum it needs.            *)
THEOREM QuorumEnds == Spec => []EndsByQuorum
<1>1. IInv => EndsByQuorum
  <2> SUFFICES ASSUME IInv, pc = "quorum"
               PROVE  /\ quorum > 0
                      /\ quorumPeers \subseteq {p \in Peers : answered[p] = best}
                      /\ Cardinality(quorumPeers) = quorum
    BY DEF EndsByQuorum
  <2>1. quorumPeers # {} /\ IsFiniteSet(quorumPeers)
    BY DEF IInv, SearchInProgress
  <2>2. Cardinality(quorumPeers) # 0
    BY <2>1, FS_EmptySet
  <2>3. QED
    BY <2>2, ConstantsAssumption DEF IInv, SearchInProgress, TypeOK
<1>2. QED  BY <1>1, Inductive, PTL

(* It never asks on once it has it, while no value expires.                *)
THEOREM NoSearchBeyondQuorum == Spec => []GoesOnWithoutQuorum
<1>1. IInv => GoesOnWithoutQuorum
  <2> DEFINE same == {p \in Peers : answered[p] = best /\ best # NoValue}
  <2> SUFFICES ASSUME IInv, expiries = 0, pc = "query", quorum > 0
               PROVE  Cardinality(same) < quorum
    BY DEF GoesOnWithoutQuorum
  <2>1. same = quorumPeers
    BY DEF IInv, TypeOK, SearchInProgress, NothingExpired, Answer, AnswersTakenOnce, FirstIsLocal
  <2>2. Cardinality({}) = 0
    BY FS_EmptySet
  <2>3. QED
    BY <2>1, <2>2 DEF IInv, SearchInProgress
<1>2. QED  BY <1>1, Inductive, PTL

(* What GetValue returns is as good as every answer, while no value        *)
(* expires.                                                                *)
THEOREM BestAnswerReturned == Spec => []ReturnsBestAnswer
<1>1. IInv => ReturnsBestAnswer
  BY DEF IInv, SearchInProgress, NothingExpired, ReturnsBestAnswer, Returned
<1>2. QED  BY <1>1, Inductive, PTL

(* Only peers with an older value are updated, while no value expires.     *)
THEOREM UpdatesAreSound == Spec => []UpdatesOnlyStalePeers
<1>1. IInv => UpdatesOnlyStalePeers
  BY DEF IInv, TypeOK, NothingExpired, UpdatesOnlyStalePeers
<1>2. QED  BY <1>1, Inductive, PTL

(* An updated peer then holds nothing worse than the best value, whatever  *)
(* it has stored since it answered, while no value expires.                *)
THEOREM UpdatesImprove == Spec => []UpdatedPeersCatchUp
<1>1. IInv => UpdatedPeersCatchUp
  BY ConstantsAssumption DEF IInv, TypeOK, NothingExpired, UpdatedPeersCatchUp
<1>2. QED  BY <1>1, Inductive, PTL

(* While no value expires, each value that the caller of SearchValue gets  *)
(* is strictly better than the one before, except that the first one of    *)
(* the network may be worse than the local one.                            *)
DeliveredValueImproves ==
  expiries' = 0 /\ got # NoValue /\ got' # got =>
    \/ Rank[got'] > Rank[got]
    \/ got = local /\ fixupPeers = {}

(* The channel of SearchValue never goes back to an older value of the     *)
(* network, whatever order the answers come in.                            *)
THEOREM DeliveriesImprove == Spec => [][DeliveredValueImproves]_vars
<1>1. ASSUME IInv, [Next]_vars
      PROVE  [DeliveredValueImproves]_vars
  <2> SUFFICES ASSUME expiries' = 0, got # NoValue, got' # got
               PROVE  Rank[got'] > Rank[got] \/ (got = local /\ fixupPeers = {})
    BY DEF DeliveredValueImproves
  <2>1. SendBest
    BY <1>1 DEF Next, SearchStep, NetworkStep, SearchFails, SearchOffline, SearchNoLocal,
       SearchLocal, SendLocal, ReplyNotBetter, ReplyBetter, ReplyInvalid, Take, QueryEnds,
       QueryFails, Finish, FixupPut, FixupLost, PeerAnswers, PeerStores, Expire, vars,
       IInv, SearchInProgress, FirstIsLocal
  <2>2. pc = "send" /\ got' = best /\ expiries = 0
    BY <2>1 DEF SendBest, network
  <2>3. CASE fixupPeers = {}
    BY <1>1, <2>2, <2>3 DEF IInv, SearchInProgress, FirstIsLocal
  <2>4. CASE fixupPeers # {}
    <3>1. Rank[got] < Rank[best] /\ best \in Values /\ got \in Values
      BY <1>1, <2>2, <2>4 DEF IInv, TypeOK, SearchInProgress, NothingExpired, OptValues
    <3>2. QED  BY <2>2, <3>1, ConstantsAssumption
  <2>5. QED  BY <2>3, <2>4
<1>2. QED  BY <1>1, Inductive, PTL DEF Spec
=============================================================================
