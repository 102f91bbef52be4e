------------------------- MODULE FindProvidersProofs -------------------------
(***************************************************************************)
(* Proofs about FindProviders, for any nodes, any responses and any count. *)
(***************************************************************************)
EXTENDS FindProviders, FiniteSetTheorems, TLAPS

(* Appending to a list adds one element, and no repetition if it is new.   *)
LEMMA AppendFacts ==
  ASSUME NEW s \in Seq(Providers), NEW p \in Providers
  PROVE  /\ Append(s, p) \in Seq(Providers) /\ Len(Append(s, p)) = Len(s) + 1
         /\ Range(Append(s, p)) = Range(s) \cup {p}
         /\ p \notin Range(s) /\ IsInjective(s) => IsInjective(Append(s, p))
<1> DEFINE t == Append(s, p)
<1>1. /\ t \in Seq(Providers) /\ Len(t) = Len(s) + 1 /\ DOMAIN t = 1 .. Len(s) + 1
      /\ DOMAIN s = 1 .. Len(s) /\ Len(s) \in Nat
      /\ t[Len(s) + 1] = p /\ \A i \in 1 .. Len(s) : t[i] = s[i]
  OBVIOUS
<1>2. 1 .. Len(s) + 1 = (1 .. Len(s)) \cup {Len(s) + 1}
  BY <1>1
<1>3. Range(t) = Range(s) \cup {p}
  <2>1. \A i \in DOMAIN t : t[i] \in Range(s) \cup {p}
    BY <1>1, <1>2 DEF Range
  <2>2. \A i \in DOMAIN s : s[i] \in Range(t)
    BY <1>1, <1>2 DEF Range
  <2>3. p \in Range(t)
    BY <1>1, <1>2, Len(s) + 1 \in DOMAIN t DEF Range
  <2>4. Range(t) \subseteq Range(s) \cup {p} /\ Range(s) \subseteq Range(t)
    BY <2>1, <2>2 DEF Range
  <2>5. QED  BY <2>3, <2>4
<1>4. ASSUME p \notin Range(s), IsInjective(s)
      PROVE  IsInjective(t)
  BY <1>1, <1>2, <1>4 DEF Range, IsInjective
<1>5. QED  BY <1>1, <1>3, <1>4

(* A list is its head and its tail.                                        *)
LEMMA TailFacts ==
  ASSUME NEW s \in Seq(Providers), s # <<>>
  PROVE  /\ Head(s) \in Providers /\ Tail(s) \in Seq(Providers)
         /\ Range(s) = Range(Tail(s)) \cup {Head(s)}
         /\ IsInjective(s) => IsInjective(Tail(s)) /\ Head(s) \notin Range(Tail(s))
<1> DEFINE t == Tail(s)
<1>1. /\ Head(s) = s[1] /\ s[1] \in Providers /\ t \in Seq(Providers)
      /\ Len(s) \in Nat \ {0} /\ DOMAIN s = 1 .. Len(s)
      /\ Len(t) = Len(s) - 1 /\ DOMAIN t = 1 .. Len(s) - 1
      /\ \A i \in 1 .. Len(s) - 1 : t[i] = s[i + 1]
  OBVIOUS
<1>2. Range(s) = Range(t) \cup {Head(s)}
  <2>1. ASSUME NEW i \in 1 .. Len(s)
        PROVE  s[i] \in Range(t) \cup {Head(s)}
    <3>1. CASE i = 1
      BY <1>1, <3>1
    <3>2. CASE i # 1
      BY <1>1, <3>2, i - 1 \in DOMAIN t, t[i - 1] = s[i] DEF Range
    <3>3. QED  BY <3>1, <3>2
  <2>2. ASSUME NEW i \in 1 .. Len(s) - 1
        PROVE  t[i] \in Range(s)
    BY <1>1, i + 1 \in DOMAIN s DEF Range
  <2>3. 1 \in DOMAIN s
    BY <1>1
  <2>4. Range(s) \subseteq Range(t) \cup {Head(s)}
    BY <1>1, <2>1 DEF Range
  <2>5. Range(t) \subseteq Range(s) /\ Head(s) \in Range(s)
    BY <1>1, <2>2, <2>3 DEF Range
  <2>6. QED  BY <2>4, <2>5
<1>3. ASSUME IsInjective(s)
      PROVE  IsInjective(t) /\ Head(s) \notin Range(t)
  BY <1>1, <1>3 DEF Range, IsInjective
<1>4. QED  BY <1>1, <1>2, <1>3

(* The empty list.                                                         *)
LEMMA EmptyFacts == /\ <<>> \in Seq(Providers) /\ Range(<<>>) = {} /\ Len(<<>>) = 0
                    /\ IsInjective(<<>>)
BY DEF Range, IsInjective

LEMMA InitIInv == Init => IInv
<1> SUFFICES ASSUME Init
             PROVE  IInv
  OBVIOUS
<1>1. TypeOK
  BY EmptyFacts DEF Init, TypeOK
<1>2. NoProviderTwice /\ StopsAtCount /\ GivesAllItFinds
  BY EmptyFacts, ConstantsAssumption DEF Init, NoProviderTwice, StopsAtCount, GivesAllItFinds
<1>3. SeenIsOut
  BY EmptyFacts, FS_EmptySet DEF Init, SeenIsOut, Marked
<1>4. ToldIsSeenOrListed
  BY EmptyFacts DEF Init, ToldIsSeenOrListed
<1>5. QED  BY <1>1, <1>2, <1>3, <1>4 DEF IInv

-----------------------------------------------------------------------------
(* The steps of the search.                                                *)

LEMMA StartKeepsIInv ==
  ASSUME IInv, SearchFails \/ FetchLocal
  PROVE  IInv'
<1> USE DEF IInv, options, network, caller
<1>1. pc = "start" /\ seen = {} /\ out = <<>> /\ told = {} /\ list = <<>> /\ from = "store"
  BY DEF SeenIsOut, ToldIsSeenOrListed, SearchFails, FetchLocal
<1>2. local # None => local \in Seq(Providers) /\ IsInjective(local)
  BY EmptyFacts, ConstantsAssumption DEF TypeOK, LocalOutcomes
<1>3. local # None => Range(local) \subseteq Providers
  BY <1>2 DEF Range
<1>4. TypeOK'
  BY <1>2, <1>3 DEF TypeOK, Over, SearchFails, FetchLocal
<1>5. (NoProviderTwice /\ StopsAtCount /\ GivesAllItFinds)'
  BY <1>1, EmptyFacts, ConstantsAssumption
  DEF NoProviderTwice, StopsAtCount, GivesAllItFinds, SearchFails, FetchLocal, TypeOK
<1>6. SeenIsOut'
  BY <1>1, EmptyFacts, FS_EmptySet DEF SeenIsOut, Marked, SearchFails, FetchLocal
<1>7. ToldIsSeenOrListed'
  BY <1>1, <1>2, EmptyFacts DEF ToldIsSeenOrListed, SearchFails, FetchLocal
<1>8. QED  BY <1>4, <1>5, <1>6, <1>7

LEMMA SkipKeepsIInv ==
  ASSUME IInv, Skip
  PROVE  IInv'
<1> USE DEF IInv, options, network, caller, Skip
<1>1. /\ Tail(list) \in Seq(Providers) /\ Range(list) = Range(Tail(list)) \cup {Head(list)}
      /\ IsInjective(list) => IsInjective(Tail(list))
      /\ Head(list) \in seen
  BY TailFacts DEF TypeOK, Skips
<1>2. TypeOK'
  BY <1>1 DEF TypeOK
<1>3. (NoProviderTwice /\ StopsAtCount /\ GivesAllItFinds)'
  BY DEF NoProviderTwice, StopsAtCount, GivesAllItFinds
<1>4. SeenIsOut'
  BY DEF SeenIsOut, Marked
<1>5. ToldIsSeenOrListed'
  BY <1>1 DEF ToldIsSeenOrListed
<1>6. QED  BY <1>2, <1>3, <1>4, <1>5

(* A provider that the loop does not skip has not been seen.               *)
LEMMA NotSkippedIsNew ==
  ASSUME IInv, pc = "next", list # <<>>, ~Skips(Head(list))
  PROVE  /\ Head(list) \in Providers /\ Head(list) \notin seen
         /\ seen = Range(out) /\ Cardinality(seen) = Len(out)
         /\ IsFiniteSet(seen \cup {Head(list)})
         /\ Cardinality(seen \cup {Head(list)}) = Len(out) + 1
<1> USE DEF IInv
<1>1. Head(list) \in Providers /\ Head(list) \in Range(list) /\ Len(out) \in Nat
  BY TailFacts DEF TypeOK
<1>2. Head(list) \notin seen
  BY <1>1 DEF Skips, TypeOK, ToldIsSeenOrListed
<1>3. Marked = {} /\ Cardinality({}) = 0
  BY FS_EmptySet DEF Marked
<1>4. seen = Range(out) /\ Cardinality(seen) = Len(out) /\ IsFiniteSet(seen)
  BY <1>1, <1>3 DEF SeenIsOut
<1>5. QED  BY <1>1, <1>2, <1>4, FS_AddElement

LEMMA MarkKeepsIInv ==
  ASSUME IInv, Mark
  PROVE  IInv'
<1> USE DEF IInv, options, network, caller, Mark
<1>1. /\ Head(list) \in Providers /\ Head(list) \notin seen /\ seen = Range(out)
      /\ IsFiniteSet(seen') /\ Cardinality(seen') = Len(out) + 1
  BY NotSkippedIsNew
<1>2. /\ Tail(list) \in Seq(Providers) /\ Range(list) = Range(Tail(list)) \cup {Head(list)}
      /\ IsInjective(list) => Head(list) \notin Range(Tail(list))
  BY TailFacts DEF TypeOK
<1>3. TypeOK'
  BY <1>1 DEF TypeOK
<1>4. (NoProviderTwice /\ StopsAtCount /\ GivesAllItFinds)'
  BY DEF NoProviderTwice, StopsAtCount, GivesAllItFinds
<1>5. SeenIsOut'
  <2>1. Cardinality({Head(list)}) = 1
    BY FS_Singleton
  <2>2. QED  BY <1>1, <2>1 DEF SeenIsOut, Marked
<1>6. ToldIsSeenOrListed'
  BY <1>1, <1>2 DEF ToldIsSeenOrListed
<1>7. QED  BY <1>3, <1>4, <1>5, <1>6

(* What holds when the head of the list has reached the caller.            *)
LEMMA SendKeepsIInv ==
  ASSUME IInv, Send
  PROVE  IInv'
<1> USE DEF IInv, options, network, caller, Send
<1> DEFINE p == Head(list)
<1>1. /\ p \in Providers /\ Tail(list) \in Seq(Providers)
      /\ Range(list) = Range(Tail(list)) \cup {p}
      /\ IsInjective(list) => IsInjective(Tail(list))
  BY TailFacts DEF TypeOK, SeenIsOut
<1>2. /\ out' \in Seq(Providers) /\ Len(out') = Len(out) + 1
      /\ Range(out') = Range(out) \cup {p} /\ IsInjective(out') /\ Len(out) \in Nat
  BY <1>1, AppendFacts DEF TypeOK, SeenIsOut, NoProviderTwice
<1>3. Cardinality(seen) = Len(out) + 1 /\ seen = Range(out') /\ IsFiniteSet(seen)
  BY <1>2, FS_Singleton DEF SeenIsOut, Marked
<1>4. count \in Int /\ (count > 0 => Len(out) < count)
  BY ConstantsAssumption DEF TypeOK, StopsAtCount
<1>5. TypeOK'
  BY <1>1, <1>2 DEF TypeOK, Over
<1>6. (NoProviderTwice /\ StopsAtCount)'
  BY <1>2, <1>3, <1>4 DEF NoProviderTwice, StopsAtCount, EnoughSent
<1>7. GivesAllItFinds'
  BY <1>2, <1>3, <1>4 DEF GivesAllItFinds, EnoughSent, ToldIsSeenOrListed
<1>8. SeenIsOut'
  BY <1>2, <1>3, FS_EmptySet DEF SeenIsOut, Marked
<1>9. ToldIsSeenOrListed'
  BY <1>1, <1>2, <1>3 DEF ToldIsSeenOrListed, SeenIsOut, Marked
<1>10. QED  BY <1>5, <1>6, <1>7, <1>8, <1>9

LEMMA AddKeepsIInv ==
  ASSUME IInv, Add
  PROVE  IInv'
<1> USE DEF IInv, options, network, caller, Add
<1> DEFINE p == Head(list)
<1>1. /\ p \in Providers /\ Tail(list) \in Seq(Providers)
      /\ Range(list) = Range(Tail(list)) \cup {p}
      /\ IsInjective(list) => IsInjective(Tail(list)) /\ p \notin Range(Tail(list))
  BY TailFacts DEF TypeOK
<1>2. /\ p \notin seen /\ seen = Range(out)
      /\ IsFiniteSet(seen') /\ Cardinality(seen') = Len(out) + 1
  BY NotSkippedIsNew
<1>3. /\ out' \in Seq(Providers) /\ Len(out') = Len(out) + 1
      /\ Range(out') = Range(out) \cup {p} /\ IsInjective(out') /\ Len(out) \in Nat
  BY <1>1, <1>2, AppendFacts DEF TypeOK, NoProviderTwice
<1>4. count \in Int /\ (count > 0 => Len(out) < count)
  BY ConstantsAssumption DEF TypeOK, StopsAtCount
<1>5. TypeOK'
  BY <1>1, <1>3 DEF TypeOK, Over
<1>6. (NoProviderTwice /\ StopsAtCount)'
  BY <1>3, <1>4 DEF NoProviderTwice, StopsAtCount, EnoughAdded
<1>7. GivesAllItFinds'
  BY <1>1, <1>2, <1>3, <1>4 DEF GivesAllItFinds, EnoughAdded, ToldIsSeenOrListed
<1>8. SeenIsOut'
  BY <1>2, <1>3, FS_EmptySet DEF SeenIsOut, Marked
<1>9. ToldIsSeenOrListed'
  BY <1>1, <1>2 DEF ToldIsSeenOrListed
<1>10. QED  BY <1>5, <1>6, <1>7, <1>8, <1>9

(* The steps that leave the providers as they are.                         *)
LEMMA EndKeepsIInv ==
  ASSUME IInv, SendCancelled \/ ListEnds \/ QueryEnds
  PROVE  IInv'
<1> USE DEF IInv, options, network, caller, SendCancelled, ListEnds, QueryEnds
<1>1. TypeOK'
  BY DEF TypeOK, Over
<1>2. SeenIsOut'
  BY DEF SeenIsOut, Marked
<1>3. ToldIsSeenOrListed'
  BY DEF ToldIsSeenOrListed
<1>4. QueryEnds => Range(out) = told
  BY EmptyFacts DEF SeenIsOut, Marked, ToldIsSeenOrListed
<1>5. (NoProviderTwice /\ StopsAtCount /\ GivesAllItFinds)'
  BY <1>4 DEF NoProviderTwice, StopsAtCount, GivesAllItFinds
<1>6. QED  BY <1>1, <1>2, <1>3, <1>5

LEMMA QueryFailsKeepsIInv ==
  ASSUME IInv, QueryFails
  PROVE  IInv'
<1> USE DEF IInv, options, network, caller, QueryFails
<1>1. TypeOK'
  BY EmptyFacts DEF TypeOK, Over
<1>2. (NoProviderTwice /\ StopsAtCount /\ GivesAllItFinds)'
  BY EmptyFacts, ConstantsAssumption
  DEF NoProviderTwice, StopsAtCount, GivesAllItFinds, TypeOK
<1>3. SeenIsOut' /\ ToldIsSeenOrListed'
  BY DEF SeenIsOut, Marked, ToldIsSeenOrListed
<1>4. QED  BY <1>1, <1>2, <1>3

LEMMA VisitKeepsIInv ==
  ASSUME IInv, NEW n \in Nodes, Visit(n)
  PROVE  IInv'
<1> USE DEF IInv, options, network, caller, Visit
<1>1. reply[n] \in Seq(Providers) /\ Range(reply[n]) \subseteq Providers
  BY ConstantsAssumption DEF TypeOK, Range
<1>2. TypeOK'
  BY <1>1 DEF TypeOK
<1>3. (NoProviderTwice /\ StopsAtCount /\ GivesAllItFinds)'
  BY DEF NoProviderTwice, StopsAtCount, GivesAllItFinds
<1>4. SeenIsOut'
  BY DEF SeenIsOut, Marked
<1>5. ToldIsSeenOrListed'
  BY <1>1, EmptyFacts DEF ToldIsSeenOrListed
<1>6. QED  BY <1>2, <1>3, <1>4, <1>5

(* The caller and the nodes.                                               *)
LEMMA OthersKeepIInv ==
  ASSUME IInv,
         \/ \E n \in Nodes, r \in Responses : NodeResponds(n, r)
         \/ StopReading \/ Cancel \/ UNCHANGED vars
  PROVE  IInv'
<1> USE DEF IInv, options, network, caller, vars, NodeResponds, StopReading, Cancel
<1>1. TypeOK'
  <2>1. ASSUME NEW n \in Nodes, NEW r \in Responses, NodeResponds(n, r)
        PROVE  TypeOK'
    BY <2>1 DEF TypeOK
  <2>2. CASE StopReading \/ Cancel \/ UNCHANGED vars
    BY <2>2 DEF TypeOK
  <2>3. QED  BY <2>1, <2>2
<1>2. (NoProviderTwice /\ StopsAtCount /\ GivesAllItFinds)'
  BY DEF NoProviderTwice, StopsAtCount, GivesAllItFinds
<1>3. SeenIsOut' /\ ToldIsSeenOrListed'
  BY DEF SeenIsOut, Marked, ToldIsSeenOrListed
<1>4. QED  BY <1>1, <1>2, <1>3

LEMMA NextKeepsIInv == IInv /\ [Next]_vars => IInv'
<1> SUFFICES ASSUME IInv, [Next]_vars
             PROVE  IInv'
  OBVIOUS
<1>1. CASE SearchFails \/ FetchLocal
  BY <1>1, StartKeepsIInv
<1>2. CASE Skip
  BY <1>2, SkipKeepsIInv
<1>3. CASE Mark
  BY <1>3, MarkKeepsIInv
<1>4. CASE Send
  BY <1>4, SendKeepsIInv
<1>5. CASE Add
  BY <1>5, AddKeepsIInv
<1>6. CASE SendCancelled \/ ListEnds \/ QueryEnds
  BY <1>6, EndKeepsIInv
<1>7. CASE QueryFails
  BY <1>7, QueryFailsKeepsIInv
<1>8. ASSUME NEW n \in Nodes, Visit(n)
      PROVE  IInv'
  BY <1>8, VisitKeepsIInv
<1>9. CASE \/ \E n \in Nodes, r \in Responses : NodeResponds(n, r)
           \/ StopReading \/ Cancel \/ UNCHANGED vars
  BY <1>9, OthersKeepIInv
<1>10. QED
  BY <1>1, <1>2, <1>3, <1>4, <1>5, <1>6, <1>7, <1>8, <1>9 DEF Next, SearchStep

-----------------------------------------------------------------------------
(* The two ways of counting providers agree, and whatever a response names *)
(* is seen or still to be looked at, in every state of a search.           *)
THEOREM InvariantHolds == Spec => []IInv
BY InitIInv, NextKeepsIInv, PTL DEF Spec

(* Every variable stays in its type.                                       *)
THEOREM TypeCorrect == Spec => []TypeOK
<1>1. IInv => TypeOK
  BY DEF IInv
<1>2. QED  BY InvariantHolds, <1>1, PTL

(* Neither interface gives a provider twice.                               *)
THEOREM NoDuplicates == Spec => []NoProviderTwice
<1>1. IInv => NoProviderTwice
  BY DEF IInv
<1>2. QED  BY InvariantHolds, <1>1, PTL

(* Neither gives more than a positive count, nor walks on once it has it.  *)
THEOREM CountRespected == Spec => []StopsAtCount
<1>1. IInv => StopsAtCount
  BY DEF IInv
<1>2. QED  BY InvariantHolds, <1>1, PTL

(* A search that runs to the end of the walk gives every provider that the *)
(* store and the nodes visited named, and only those.                      *)
THEOREM AllFound == Spec => []GivesAllItFinds
<1>1. IInv => GivesAllItFinds
  BY DEF IInv
<1>2. QED  BY InvariantHolds, <1>1, PTL
=============================================================================
