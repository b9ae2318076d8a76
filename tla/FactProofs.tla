----------------------------- MODULE FactProofs -----------------------------
(***************************************************************************)
(* Proofs about facts, for any number of sources, clients and facts, any   *)
(* intervals, answers and refresh period.  First, a fact's quality says    *)
(* what it should: good facts are recent, and a fact inside its window     *)
(* reads stale only just after an update.  Then, that a client's derived   *)
(* fact says threatened only on what its feeds were seen to report.        *)
(*                                                                         *)
(* The proofs need instance names without a dot, which the code does not   *)
(* demand: sourceFromKey does not find the interval of any other, so its   *)
(* facts stay good for ever and GoodIsRecent does not hold of them.        *)
(***************************************************************************)
EXTENDS FactFlow, SequenceTheorems, FiniteSetTheorems, WellFoundedInduction, TLAPS

\* No instance name, and no feed that refers to one, holds a dot.
Undotted ==
    /\ \A p \in Pollers : Len(Name[p]) = 1
    /\ \A c \in Clients : \A i \in DOMAIN Feeds[c] : Len(Feeds[c][i]) = 1

------------------------------------------------------------------------------
(* The quality loop and time *)

\* The window RefreshQuality uses for k.
WindowOf(k) == Window(SourceFromKey(k))

\* The last pass has ended and the next is not due.
Resting0 == loop.pc = "idle" /\ loop.tick = FALSE

\* Ticks since the quality loop's ticker fired.
Elapsed == QualityRefresh - loop.next

\* The feeds of some client.
FeedNames == UNION {FeedSet(c) : c \in Clients}

LoopType ==
    [pc : {"idle", "assess", "mark", "derive"}, tick : BOOLEAN, next : 1..QualityRefresh,
     pass : 0..2, todo : SUBSET Keys, key : Keys \cup {<<>>},
     verdict : {"none", "good", "stale"}, client : 0..NumClients,
     feeds : Seq(FeedNames), answer : Trilean \cup {"none"}]

LoopInv ==
    /\ loop \in LoopType
    /\ loop.pc # "idle" => loop.tick = FALSE
    /\ loop.pc = "mark" => loop.key \in Keys /\ loop.verdict \in {"good", "stale"}
    /\ loop.pc = "derive" => loop.client \in Clients

RecordInv ==
    /\ fact = [k \in Keys |-> fact[k]]
    /\ \A k \in Keys : /\ fact[k].age \in 0..Oldest
                       /\ fact[k].quality \in {"unknown", "good", "stale"}
                       /\ fact[k] = [quality |-> fact[k].quality, value |-> fact[k].value,
                                     age |-> fact[k].age]

\* Assessed in this pass or, while deriving, in the first one, and not about
\* to be marked.
Assessed(k) ==
    \/ loop.pc \in {"assess", "mark"} /\ k \notin loop.todo
       /\ (loop.pc = "mark" => k # loop.key)
    \/ loop.pc = "derive"

AgeInv ==
    \A k \in Keys :
        /\ fact[k].quality = "good" =>
              /\ fact[k].age <= WindowOf(k) + QualityRefresh
              /\ Resting0 => fact[k].age <= WindowOf(k) + Elapsed
              /\ Assessed(k) => fact[k].age <= WindowOf(k)
        /\ fact[k].quality = "stale" /\ fact[k].age <= WindowOf(k) =>
              /\ fact[k].age <= QualityRefresh
              /\ Resting0 => fact[k].age <= Elapsed
              /\ Assessed(k) => fact[k].age = 0

\* What was read still says so, or the fact has been updated since.
VerdictInv ==
    loop.pc = "mark" =>
        IF loop.verdict = "good" THEN fact[loop.key].age <= WindowOf(loop.key)
        ELSE fact[loop.key].age > WindowOf(loop.key) \/ fact[loop.key].age = 0

FactInv == LoopInv /\ RecordInv /\ AgeInv /\ VerdictInv
------------------------------------------------------------------------------
(* Keys, windows and feeds *)

LEMMA OneElement ==
    ASSUME NEW S, NEW t \in Seq(S), Len(t) = 1 PROVE t = <<t[1]>>
OBVIOUS

LEMMA OneCut ==
    ASSUME NEW S, NEW s \in Seq(S), Len(s) >= 1
    PROVE  SubSeq(s, 1, 1) = <<s[1]>>
<1>1. SubSeq(s, 1, 1) \in Seq(S) /\ Len(SubSeq(s, 1, 1)) = 1
  OBVIOUS
<1>2. SubSeq(s, 1, 1)[1] = s[1]
  OBVIOUS
<1> QED
  BY <1>1, <1>2, OneElement, Zenon

\* A path under an undotted name is cut back to that name.
LEMMA FirstSegment ==
    ASSUME NEW S, NEW n \in Seq(S), Len(n) = 1, NEW f \in Seq(S)
    PROVE  /\ n \o f \in Seq(S) /\ Len(n \o f) = 1 + Len(f)
           /\ <<Head(n \o f)>> = n /\ SubSeq(n \o f, 1, 1) = n
<1>1. n \o f \in Seq(S) /\ Len(n \o f) = 1 + Len(f) /\ (n \o f)[1] = n[1]
  BY ConcatProperties
<1>2. n = <<n[1]>>
  OBVIOUS
<1>3. Head(n \o f) = n[1]
  BY <1>1
<1>4. SubSeq(n \o f, 1, 1) = <<n[1]>>
  <2>1. Len(n \o f) >= 1
    BY <1>1
  <2>2. SubSeq(n \o f, 1, 1) = <<(n \o f)[1]>>
    BY <1>1, <2>1, OneCut, Zenon
  <2> QED
    BY <1>1, <2>2, Zenon
<1> QED
  BY <1>1, <1>2, <1>3, <1>4, Zenon

\* A source's interval is one of its loops'.
LEMMA DeclaredNat ==
    ASSUME NEW p \in Pollers
    PROVE  Declared(Name[p]) \in Nat
<1> DEFINE S == {Interval[q] : q \in {r \in Pollers : Name[r] = Name[p]}}
<1>1. S \in SUBSET Nat /\ S # {}
  BY FactAssumption
<1> HIDE DEF S
<1>0. IsWellFoundedOn(OpToRel(<, Nat), Nat)
  BY NatLessThanWellFounded
<1>2. PICK m \in S : \A n \in S : ~ (<<n, m>> \in OpToRel(<, Nat))
  BY <1>0, <1>1, WFMin
<1>3. m \in S /\ \A n \in S : m <= n
  <2> SUFFICES ASSUME NEW n \in S PROVE m <= n
    OBVIOUS
  <2>1. ~ (n < m)
    BY <1>1, <1>2 DEF OpToRel
  <2> QED
    BY <1>1, <2>1
<1>4. Min(S) \in S
  BY <1>3 DEF Min
<1> QED
  BY <1>1, <1>4 DEF Declared, S

LEMMA WindowNat ==
    ASSUME NEW n \in Sources
    PROVE  Window(n) \in Nat
<1>1. Polls(n) \in Nat /\ MinPoll \in Nat
  BY DeclaredNat, FactAssumption DEF Sources, Polls
<1>2. Max({Polls(n), MinPoll}) \in {Polls(n), MinPoll}
  <2> DEFINE a == Polls(n)
             b == MinPoll
  <2> HIDE DEF a, b
  <2>0. a \in Nat /\ b \in Nat
    BY <1>1 DEF a, b
  <2>1. \E x \in {a, b} : \A y \in {a, b} : x >= y
    BY <2>0
  <2>2. Max({a, b}) \in {a, b}
    BY <2>1 DEF Max
  <2> QED
    BY <2>2 DEF a, b
<1> QED
  BY <1>1, <1>2 DEF Window, StalenessFactor

\* Every fact belongs to a declared source, which SourceFromKey finds.
LEMMA KeySource ==
    ASSUME Undotted, NEW k \in Keys
    PROVE  /\ SourceFromKey(k) \in Sources /\ Owner(k) = SourceFromKey(k)
           /\ WindowOf(k) \in Nat
<1>1. /\ SourceFromKey(k) \in Sources
      /\ SubSeq(k, 1, 1) = SourceFromKey(k)
  <2>1. CASE k \in SourceKeys
    <3>0. PICK p \in Pollers : k \in {Name[p] \o f : f \in Range(Reports[p])}
      BY <2>1 DEF SourceKeys
    <3>1. PICK f \in Range(Reports[p]) : k = Name[p] \o f
      BY <3>0
    <3>2. /\ Name[p] \in Seq(Segment) /\ Reports[p] \in Seq(Seq(Segment))
          /\ Len(Name[p]) = 1
      BY NameAssumption DEF Undotted
    <3>3. f \in Seq(Segment)
      BY <3>2 DEF Range
    <3>4. <<Head(k)>> = Name[p] /\ SubSeq(k, 1, 1) = Name[p]
      BY <3>1, <3>2, <3>3, FirstSegment, Zenon
    <3> QED
      BY <3>4 DEF SourceFromKey, Sources
  <2>2. CASE k \in DerivedKeys
    <3>1. PICK c \in Clients : k = <<"client", ClientNames[c], "threatened">>
      BY <2>2 DEF DerivedKeys, Derived
    <3>2. /\ Head(k) = "client" /\ k[1] = "client" /\ Len(k) >= 1
          /\ k \in Seq({"client", ClientNames[c], "threatened"})
      BY <3>1
    <3>3. SubSeq(k, 1, 1) = <<k[1]>>
      BY <3>2, OneCut, Zenon
    <3> QED
      BY <3>2, <3>3 DEF SourceFromKey, Sources
  <2> QED
    BY <2>1, <2>2 DEF Keys
<1>2. \A n \in Sources : Len(n) = 1
  BY DEF Sources, Undotted
<1>3. Owner(k) = SourceFromKey(k)
  BY <1>1, <1>2 DEF Owner
<1> QED
  BY <1>1, <1>3, WindowNat DEF WindowOf

LEMMA SourceKeysFinite == IsFiniteSet(SourceKeys)
<1> DEFINE K(p) == {Name[p] \o f : f \in Range(Reports[p])}
<1>1. ASSUME NEW p \in Pollers PROVE IsFiniteSet(K(p))
  <2> DEFINE D == 1..Len(Reports[p])
             g == [i \in D |-> Name[p] \o Reports[p][i]]
  <2>1. Reports[p] \in Seq(Seq(Segment))
    BY NameAssumption
  <2>2. DOMAIN Reports[p] = D /\ Len(Reports[p]) \in Nat
    BY <2>1, LenProperties
  <2>3. IsFiniteSet(D)
    BY <2>2, FS_Interval
  <2>4. g \in Surjection(D, K(p))
    BY <2>2 DEF Surjection, Range
  <2> QED
    BY <2>3, <2>4, FS_Surjection
<1> DEFINE F == {K(p) : p \in Pollers}
           h == [p \in Pollers |-> K(p)]
<1>2. h \in Surjection(Pollers, F)
  BY DEF Surjection
<1>3. IsFiniteSet(Pollers)
  BY NameAssumption
<1>4. IsFiniteSet(F) /\ \A T \in F : IsFiniteSet(T)
  <2>1. IsFiniteSet(F)
    <3> HIDE DEF F, h
    <3> QED
      BY <1>2, <1>3, FS_Surjection
  <2>2. ASSUME NEW T \in F PROVE IsFiniteSet(T)
    <3>1. PICK p \in Pollers : T = K(p)
      OBVIOUS
    <3> QED
      BY <1>1, <3>1
  <2> QED
    BY <2>1, <2>2
<1>5. IsFiniteSet(UNION F)
  BY <1>4, FS_UNION
<1> QED
  BY <1>5 DEF SourceKeys

LEMMA UpsFinite == IsFiniteSet(UpsSources)
<1> DEFINE J == {j \in SourceKeys : Tail(j) = Status /\ Head(j) # "client"}
           h == [j \in J |-> <<Head(j)>>]
<1>1. IsFiniteSet(J)
  BY SourceKeysFinite, FS_Subset
<1>2. h \in Surjection(J, UpsSources)
  BY DEF Surjection, UpsSources
<1> QED
  BY <1>1, <1>2, FS_Surjection

\* A finite set can be listed.
LEMMA Listed ==
    ASSUME NEW S, IsFiniteSet(S)
    PROVE  SetToSeq(S) \in Seq(S)
<1>1. Cardinality(S) \in Nat /\ ExistsBijection(1..Cardinality(S), S)
  BY FS_CardinalityType
<1>2. PICK f \in Bijection(1..Cardinality(S), S) : TRUE
  BY <1>1 DEF ExistsBijection
<1>3. f \in [1..Cardinality(S) -> S] /\ IsInjective(f)
  BY <1>2 DEF Bijection, Injection
<1>4. SetToSeq(S) \in [1..Cardinality(S) -> S]
  BY <1>3 DEF SetToSeq
<1> QED
  BY <1>1, <1>4

LEMMA SeqMonotone ==
    ASSUME NEW S, NEW T, S \subseteq T, NEW s \in Seq(S)
    PROVE  s \in Seq(T)
OBVIOUS

LEMMA SeqByElements ==
    ASSUME NEW S, NEW s \in Seq(S), NEW T, \A i \in 1..Len(s) : s[i] \in T
    PROVE  s \in Seq(T)
OBVIOUS

LEMMA ListOfRange ==
    ASSUME NEW S, NEW t \in Seq(S)
    PROVE  t \in Seq(Range(t)) /\ Range(t) \subseteq S
<1>1. DOMAIN t = 1..Len(t) /\ \A i \in 1..Len(t) : t[i] \in S
  OBVIOUS
<1>2. (\A i \in 1..Len(t) : t[i] \in Range(t)) /\ Range(t) \subseteq S
  BY <1>1 DEF Range
<1> QED
  BY <1>2, SeqByElements, Zenon

\* A client's feeds are a list of undotted names.
LEMMA FeedsListed ==
    ASSUME Undotted, NEW c \in Clients
    PROVE  /\ ClientFeeds(c) \in Seq(FeedSet(c)) /\ ClientFeeds(c) \in Seq(FeedNames)
           /\ \A n \in FeedSet(c) : n \in Seq(Segment) /\ Len(n) = 1
<1> DEFINE N == {n \in Seq(Segment) : Len(n) = 1}
<1>1. UpsSources \subseteq N
  <2> SUFFICES ASSUME NEW k \in SourceKeys PROVE <<Head(k)>> \in N
    BY DEF UpsSources
  <2>1. PICK p \in Pollers : k \in {Name[p] \o f : f \in Range(Reports[p])}
    BY DEF SourceKeys
  <2>2. PICK f \in Range(Reports[p]) : k = Name[p] \o f
    BY <2>1
  <2>3. /\ Name[p] \in Seq(Segment) /\ Reports[p] \in Seq(Seq(Segment))
        /\ Len(Name[p]) = 1
    BY NameAssumption DEF Undotted
  <2>4. f \in Seq(Segment)
    BY <2>3 DEF Range
  <2>5. <<Head(k)>> = Name[p]
    BY <2>2, <2>3, <2>4, FirstSegment, Zenon
  <2> QED
    BY <2>3, <2>5
<1>2. ClientFeeds(c) \in Seq(N)
  <2>1. CASE Feeds[c] # <<>>
    <3>1. Feeds[c] \in Seq(Seq(Segment)) /\ \A i \in DOMAIN Feeds[c] : Len(Feeds[c][i]) = 1
      BY NameAssumption DEF Undotted
    <3>2. \A i \in 1..Len(Feeds[c]) : Feeds[c][i] \in N
      BY <3>1
    <3>3. Feeds[c] \in Seq(N)
      BY <3>1, <3>2
    <3> QED
      BY <2>1, <3>3 DEF ClientFeeds
  <2>2. CASE Feeds[c] = <<>>
    <3>1. SetToSeq(UpsSources) \in Seq(UpsSources)
      BY UpsFinite, Listed
    <3>2. SetToSeq(UpsSources) \in Seq(N)
      <4> HIDE DEF N
      <4> QED
        BY <1>1, <3>1
    <3> QED
      BY <2>2, <3>2 DEF ClientFeeds
  <2> QED
    BY <2>1, <2>2
<1>3. ClientFeeds(c) \in Seq(FeedSet(c)) /\ FeedSet(c) \subseteq N
  <2> HIDE DEF N
  <2> QED
    BY <1>2, ListOfRange DEF FeedSet
<1>4. ClientFeeds(c) \in Seq(FeedNames)
  <2>1. FeedSet(c) \subseteq FeedNames
    BY DEF FeedNames
  <2> QED
    BY <1>3, <2>1, SeqMonotone, Zenon
<1> QED
  BY <1>3, <1>4
------------------------------------------------------------------------------
(* The invariant holds *)

LEMMA LoopFields ==
    ASSUME NEW l \in LoopType
    PROVE  /\ l.pc \in {"idle", "assess", "mark", "derive"} /\ l.tick \in BOOLEAN
           /\ l.next \in 1..QualityRefresh /\ l.pass \in 0..2 /\ l.todo \in SUBSET Keys
           /\ l.client \in 0..NumClients
BY DEF LoopType

\* A store holds the value given, now and good, under that key only.
LEMMA SetFact ==
    ASSUME RecordInv, NEW k, NEW v, Set(k, v)
    PROVE  /\ RecordInv'
           /\ \A j \in Keys :
                 \/ j = k /\ fact'[j].age = 0 /\ fact'[j].quality = "good"
                 \/ j # k /\ fact'[j] = fact[j]
<1> DEFINE r == [quality |-> "good", value |-> v, age |-> 0]
<1>1. fact' = [j \in Keys |-> IF j = k THEN r ELSE fact[j]]
  BY DEF RecordInv, Set
<1>2. r.age = 0 /\ r.quality = "good" /\ r.value = v
  OBVIOUS
<1>3. 0 \in 0..Oldest
  BY FactAssumption
<1> HIDE DEF r
<1>4. \A j \in Keys : \/ j = k /\ fact'[j] = r
                      \/ j # k /\ fact'[j] = fact[j]
  BY <1>1
<1>5. r = [quality |-> r.quality, value |-> r.value, age |-> r.age]
  BY <1>2 DEF r
<1>6. RecordInv'
  <2>1. fact' = [j \in Keys |-> fact'[j]]
    BY <1>1
  <2>2. ASSUME NEW j \in Keys
        PROVE  /\ fact'[j].age \in 0..Oldest
               /\ fact'[j].quality \in {"unknown", "good", "stale"}
               /\ fact'[j] = [quality |-> fact'[j].quality, value |-> fact'[j].value,
                              age |-> fact'[j].age]
    <3>1. CASE fact'[j] = r
      BY <3>1, <1>2, <1>3, <1>5
    <3>2. CASE fact'[j] = fact[j]
      BY <3>2 DEF RecordInv
    <3> QED
      BY <1>4, <3>1, <3>2
  <2> QED
    BY <2>1, <2>2 DEF RecordInv
<1> QED
  BY <1>2, <1>4, <1>6

LEMMA InitFact == ASSUME Undotted, Init PROVE FactInv
<1>1. LoopInv
  <2>1. <<>> \in Seq(FeedNames) /\ 0 \in 0..NumClients /\ QualityRefresh \in 1..QualityRefresh
    BY FactAssumption, NameAssumption DEF NumClients
  <2> QED
    BY <2>1 DEF Init, LoopInv, LoopType
<1>2. RecordInv
  <2> DEFINE v(k) == LET c == CHOOSE d \in Clients : Derived(d) = k IN
                     Bool(ClientFeeds(c) # <<>> /\ c \in AssumeThreat)
  <2>1. fact = [k \in Keys |->
               IF k \in SourceKeys THEN [quality |-> "unknown", value |-> NoValue, age |-> 0]
               ELSE [quality |-> "good", age |-> 0, value |-> v(k)]]
    BY DEF Init
  <2> HIDE DEF v
  <2>2. 0 \in 0..Oldest
    BY FactAssumption
  <2> QED
    BY <2>1, <2>2 DEF RecordInv
<1>3. \A k \in Keys : fact[k].age = 0 /\ fact[k].quality # "stale"
  BY DEF Init
<1>4. \A k \in Keys : WindowOf(k) \in Nat /\ QualityRefresh \in Nat
  BY KeySource, FactAssumption
<1>5. AgeInv
  BY <1>3, <1>4 DEF AgeInv, Init, Resting0, Assessed
<1>6. VerdictInv
  BY DEF Init, VerdictInv
<1> QED
  BY <1>1, <1>2, <1>5, <1>6 DEF FactInv

\* A store is as recent as can be.
LEMMA StoreKeeps ==
    ASSUME Undotted, FactInv, NEW k, NEW v, Set(k, v), UNCHANGED loop
    PROVE  FactInv'
<1>1. RecordInv' /\ \A j \in Keys :
                 \/ j = k /\ fact'[j].age = 0 /\ fact'[j].quality = "good"
                 \/ j # k /\ fact'[j] = fact[j]
  BY SetFact DEF FactInv
<1>2. LoopInv'
  BY DEF FactInv, LoopInv
<1>3. \A j \in Keys : WindowOf(j) \in Nat
  BY KeySource
<1>4. QualityRefresh \in Nat /\ Elapsed \in Nat /\ loop' = loop
  BY FactAssumption, LoopFields DEF FactInv, LoopInv, Elapsed
<1>5. AgeInv'
  BY <1>1, <1>3, <1>4 DEF FactInv, AgeInv, Resting0, Assessed, Elapsed
<1>6. VerdictInv'
  BY <1>1, <1>3, <1>4 DEF FactInv, LoopInv, VerdictInv
<1> QED
  BY <1>1, <1>2, <1>5, <1>6 DEF FactInv

LEMMA AssessingFields ==
    ASSUME loop \in LoopType, NEW n \in 0..2
    PROVE  /\ Assessing(n) \in LoopType
           /\ Assessing(n).pc = "assess" /\ Assessing(n).todo = Keys
           /\ Assessing(n).tick = loop.tick /\ Assessing(n).pass = n
<1>1. Assessing(n) \in LoopType
  BY DEF LoopType, Assessing
<1> QED
  BY <1>1 DEF LoopType, Assessing

LEMMA BeginRefreshKeeps ==
    ASSUME Undotted, FactInv, BeginRefresh
    PROVE  FactInv'
<1> DEFINE l == Assessing(1)
<1>1. l \in LoopType /\ l.pc = "assess" /\ l.todo = Keys
  BY AssessingFields DEF FactInv, LoopInv
<1>2. loop' = [l EXCEPT !.tick = FALSE] /\ fact' = fact
  BY DEF BeginRefresh
<1> HIDE DEF l
<1>3. loop' \in LoopType /\ loop'.pc = "assess" /\ loop'.todo = Keys /\ loop'.tick = FALSE
  BY <1>1, <1>2 DEF LoopType
<1>4. LoopInv'
  BY <1>3 DEF LoopInv
<1> QED
  BY <1>2, <1>3, <1>4 DEF FactInv, RecordInv, AgeInv, VerdictInv, Resting0, Assessed

LEMMA AssessKeeps ==
    ASSUME Undotted, FactInv, Assess
    PROVE  FactInv'
<1>0. PICK k \in loop.todo :
           IF SourceFromKey(k) \in Sources /\ fact[k].quality # "unknown"
           THEN loop' = [loop EXCEPT !.todo = @ \ {k}, !.pc = "mark", !.key = k,
                                     !.verdict = Verdict(k)]
           ELSE loop' = [loop EXCEPT !.todo = @ \ {k}]
  BY DEF Assess
<1>1. k \in Keys /\ loop.pc = "assess" /\ fact' = fact
  BY LoopFields DEF Assess, FactInv, LoopInv
<1>2. SourceFromKey(k) \in Sources /\ \A j \in Keys : WindowOf(j) \in Nat
  BY <1>1, KeySource
<1>3. RecordInv'
  BY <1>1 DEF FactInv, RecordInv
<1>4. QualityRefresh \in Nat
  BY FactAssumption
<1>5. CASE fact[k].quality # "unknown"
  <2>1. loop' = [loop EXCEPT !.todo = @ \ {k}, !.pc = "mark", !.key = k,
                             !.verdict = Verdict(k)]
    BY <1>0, <1>2, <1>5
  <2>2. Verdict(k) \in {"good", "stale"}
    BY DEF Verdict
  <2>3. LoopInv'
    BY <1>1, <2>1, <2>2 DEF FactInv, LoopInv, LoopType
  <2>4. /\ loop'.pc = "mark" /\ loop'.key = k /\ loop'.verdict = Verdict(k)
        /\ loop'.todo = loop.todo \ {k}
    BY <2>1 DEF FactInv, LoopInv, LoopType
  <2>5. AgeInv'
    BY <1>1, <2>4 DEF FactInv, AgeInv, Resting0, Assessed
  <2>6. VerdictInv'
    BY <1>1, <1>2, <2>4 DEF FactInv, RecordInv, VerdictInv, Verdict, WindowOf
  <2> QED
    BY <1>3, <2>3, <2>5, <2>6 DEF FactInv
<1>6. CASE fact[k].quality = "unknown"
  <2>1. loop' = [loop EXCEPT !.todo = @ \ {k}]
    BY <1>0, <1>6
  <2>2. LoopInv'
    BY <1>1, <2>1 DEF FactInv, LoopInv, LoopType
  <2>3. loop'.pc = "assess" /\ loop'.todo = loop.todo \ {k}
    BY <1>1, <2>1 DEF FactInv, LoopInv, LoopType
  <2>4. AgeInv'
    BY <1>1, <1>6, <2>3 DEF FactInv, AgeInv, Resting0, Assessed
  <2> QED
    BY <1>3, <2>2, <2>3, <2>4 DEF FactInv, VerdictInv
<1> QED
  BY <1>5, <1>6

LEMMA Requalified ==
    ASSUME NEW f, f = [quality |-> f.quality, value |-> f.value, age |-> f.age], NEW x
    PROVE  [f EXCEPT !.quality = x] = [quality |-> x, value |-> f.value, age |-> f.age]
<1>1. \A a, v, n : [[quality |-> a, value |-> v, age |-> n] EXCEPT !.quality = x]
                     = [quality |-> x, value |-> v, age |-> n]
  OBVIOUS
<1>2. PICK a, v, n : f = [quality |-> a, value |-> v, age |-> n]
  OBVIOUS
<1>3. f.value = v /\ f.age = n
  BY <1>2
<1> QED
  BY <1>1, <1>2, <1>3

\* What is marked is what was read, unless an update came between.
LEMMA MarkKeeps ==
    ASSUME Undotted, FactInv, Mark
    PROVE  FactInv'
<1> DEFINE k == loop.key
           q == loop.verdict
<1>1. k \in Keys /\ q \in {"good", "stale"} /\ loop.pc = "mark"
  BY DEF Mark, FactInv, LoopInv
<1>2. LoopInv' /\ loop'.pc = "assess" /\ loop'.todo = loop.todo
  BY <1>1 DEF Mark, FactInv, LoopInv, LoopType
<1>3. \A j \in Keys : WindowOf(j) \in Nat
  BY KeySource
<1>4. /\ IF q = "good" THEN fact[k].age <= WindowOf(k)
         ELSE fact[k].age > WindowOf(k) \/ fact[k].age = 0
  BY <1>1 DEF FactInv, VerdictInv
<1>5. fact' = [fact EXCEPT ![k].quality = q]
  BY DEF Mark
<1> HIDE DEF k, q
<1>6. fact' = [j \in Keys |-> IF j = k THEN [fact[k] EXCEPT !.quality = q] ELSE fact[j]]
  BY <1>5 DEF FactInv, RecordInv
<1>7. [fact[k] EXCEPT !.quality = q] = [quality |-> q, value |-> fact[k].value, age |-> fact[k].age]
  <2>1. fact[k] = [quality |-> fact[k].quality, value |-> fact[k].value, age |-> fact[k].age]
    BY <1>1 DEF FactInv, RecordInv
  <2> QED
    BY <2>1, Requalified, Zenon
<1>8. \A j \in Keys : \/ j = k /\ fact'[j] = [quality |-> q, value |-> fact[k].value, age |-> fact[k].age]
                      \/ j # k /\ fact'[j] = fact[j]
  BY <1>6, <1>7
<1>9. RecordInv'
  <2>1. fact' = [j \in Keys |-> fact'[j]]
    BY <1>6
  <2>2. ASSUME NEW j \in Keys
        PROVE  /\ fact'[j].age \in 0..Oldest
               /\ fact'[j].quality \in {"unknown", "good", "stale"}
               /\ fact'[j] = [quality |-> fact'[j].quality, value |-> fact'[j].value,
                              age |-> fact'[j].age]
    BY <1>1, <1>8 DEF FactInv, RecordInv
  <2> QED
    BY <2>1, <2>2 DEF RecordInv
<1>10. \A j \in Keys : /\ fact'[j].age = fact[j].age
                       /\ \/ j = k /\ fact'[j].quality = q
                          \/ j # k /\ fact'[j].quality = fact[j].quality
  BY <1>8
<1>11. AgeInv'
  <2>0. QualityRefresh \in Nat
    BY FactAssumption
  <2>1. ~Resting0'
    BY <1>2 DEF Resting0
  <2> SUFFICES ASSUME NEW j \in Keys
               PROVE  /\ fact'[j].quality = "good" =>
                            /\ fact'[j].age <= WindowOf(j) + QualityRefresh
                            /\ Assessed(j)' => fact'[j].age <= WindowOf(j)
                      /\ fact'[j].quality = "stale" /\ fact'[j].age <= WindowOf(j) =>
                            /\ fact'[j].age <= QualityRefresh
                            /\ Assessed(j)' => fact'[j].age = 0
    BY <2>1 DEF AgeInv
  <2>2. WindowOf(j) \in Nat /\ fact[j].age \in Nat
    BY <1>3, FactAssumption DEF FactInv, RecordInv
  <2>3. CASE j = k
    BY <1>1, <1>4, <1>10, <2>0, <2>2, <2>3
  <2>4. CASE j # k
    <3>1. Assessed(j)' => Assessed(j)
      BY <1>1, <1>2, <2>4 DEF Assessed, k
    <3> QED
      BY <1>10, <2>4, <3>1 DEF FactInv, AgeInv
  <2> QED
    BY <2>3, <2>4
<1> QED
  BY <1>2, <1>9, <1>11 DEF FactInv, VerdictInv

LEMMA PassType ==
    ASSUME NEW l \in LoopType, NEW p \in {"idle", "assess", "mark", "derive"}, NEW n \in 0..2,
           NEW K \in SUBSET Keys
    PROVE  /\ [l EXCEPT !.pc = p, !.pass = n] \in LoopType
           /\ [l EXCEPT !.pc = p, !.pass = n, !.todo = K] \in LoopType
BY DEF LoopType

LEMMA DerivedType ==
    ASSUME NEW l \in LoopType, NEW c \in 0..NumClients, NEW f \in Seq(FeedNames)
    PROVE  [l EXCEPT !.client = c, !.feeds = f, !.answer = "none"] \in LoopType
BY DEF LoopType

LEMMA DerivingFields ==
    ASSUME Undotted, loop \in LoopType, NEW c \in Clients
    PROVE  /\ Deriving(c) \in LoopType
           /\ Deriving(c).pc = "derive" /\ Deriving(c).tick = loop.tick
           /\ Deriving(c).client = c /\ Deriving(c).feeds = ClientFeeds(c)
           /\ Deriving(c).answer = IF ClientFeeds(c) = <<>> THEN "false" ELSE Unit(c)
<1> DEFINE a == IF ClientFeeds(c) = <<>> THEN "false" ELSE Unit(c)
           f == ClientFeeds(c)
<1>1. a \in Trilean /\ f \in Seq(FeedNames) /\ c \in 0..NumClients
  BY FeedsListed DEF Unit, Trilean, Clients
<1>2. Deriving(c) = [loop EXCEPT !.pc = "derive", !.client = c, !.feeds = f, !.answer = a]
  BY DEF Deriving
<1> HIDE DEF a, f
<1>3. Deriving(c) \in LoopType
  BY <1>1, <1>2 DEF LoopType
<1>4. /\ Deriving(c).pc = "derive" /\ Deriving(c).tick = loop.tick
      /\ Deriving(c).client = c /\ Deriving(c).feeds = f /\ Deriving(c).answer = a
  BY <1>2 DEF LoopType
<1> QED
  BY <1>3, <1>4 DEF a, f

\* A pass that has ended left every good fact inside its window.
LEMMA EndAssessKeeps ==
    ASSUME Undotted, FactInv, EndAssess
    PROVE  FactInv'
<1>1. loop.pc = "assess" /\ loop.todo = {} /\ fact' = fact /\ loop \in LoopType
  BY DEF EndAssess, FactInv, LoopInv
<1>2. loop.tick = FALSE
  BY <1>1 DEF FactInv, LoopInv
<1>3. RecordInv'
  BY <1>1 DEF FactInv, RecordInv
<1>4. CASE loop.pass = 2
  <2>1. loop' = Resting
    BY <1>4 DEF EndAssess
  <2>2. loop' \in LoopType
    <3>1. 0 \in 0..2 /\ "idle" \in {"idle", "assess", "mark", "derive"}
      OBVIOUS
    <3>2. loop' = [loop EXCEPT !.pc = "idle", !.pass = 0]
      BY <2>1 DEF Resting
    <3> QED
      BY <1>1, <3>1, <3>2, PassType, Zenon
  <2>3. loop'.pc = "idle" /\ loop'.tick = FALSE /\ loop'.next = loop.next
    BY <1>1, <1>2, <2>1 DEF Resting, LoopType
  <2>4. LoopInv'
    BY <2>2, <2>3 DEF LoopInv
  <2>5. \A k \in Keys : WindowOf(k) \in Nat /\ fact[k].age \in Nat /\ Assessed(k)
    BY <1>1, KeySource, FactAssumption DEF FactInv, RecordInv, Assessed
  <2>6. QualityRefresh \in Nat /\ Elapsed \in Nat /\ Elapsed' = Elapsed
    BY <1>1, <2>3, FactAssumption, LoopFields DEF Elapsed
  <2>7. AgeInv'
    <3> SUFFICES ASSUME NEW k \in Keys
                 PROVE  /\ fact[k].quality = "good" =>
                              /\ fact[k].age <= WindowOf(k) + QualityRefresh
                              /\ fact[k].age <= WindowOf(k) + Elapsed
                        /\ fact[k].quality = "stale" /\ fact[k].age <= WindowOf(k) =>
                              /\ fact[k].age <= QualityRefresh
                              /\ fact[k].age <= Elapsed
      BY <1>1, <2>3, <2>6 DEF AgeInv, Assessed
    <3> QED
      BY <2>5, <2>6 DEF FactInv, AgeInv
  <2> QED
    BY <1>3, <2>3, <2>4, <2>7 DEF FactInv, VerdictInv
<1>5. CASE loop.pass # 2 /\ NumClients = 0
  <2>1. loop' = Assessing(2)
    BY <1>5 DEF EndAssess
  <2>2. loop' \in LoopType /\ loop'.pc = "assess" /\ loop'.todo = Keys /\ loop'.tick = FALSE
    BY <1>1, <1>2, <2>1, AssessingFields
  <2>3. LoopInv'
    BY <2>2 DEF LoopInv
  <2> QED
    BY <1>1, <1>3, <2>2, <2>3 DEF FactInv, AgeInv, VerdictInv, Resting0, Assessed
<1>6. CASE loop.pass # 2 /\ NumClients # 0
  <2>1. loop' = Deriving(1) /\ 1 \in Clients
    BY <1>6, NameAssumption DEF EndAssess, Clients, NumClients
  <2>2. loop' \in LoopType /\ loop'.pc = "derive" /\ loop'.tick = FALSE /\ loop'.client = 1
    BY <1>1, <1>2, <2>1, DerivingFields
  <2>3. LoopInv'
    BY <2>1, <2>2 DEF LoopInv
  <2> QED
    BY <1>1, <1>3, <2>2, <2>3 DEF FactInv, AgeInv, VerdictInv, Resting0, Assessed
<1> QED
  BY <1>4, <1>5, <1>6

LEMMA ReadFeedKeeps ==
    ASSUME Undotted, FactInv, ReadFeed
    PROVE  FactInv'
<1> DEFINE a == Combine(loop.client, loop.answer, FeedThreatened(Head(loop.feeds)))
           f == Tail(loop.feeds)
<1>1. loop.pc = "derive" /\ loop \in LoopType /\ fact' = fact /\ loop.feeds # <<>>
  BY DEF ReadFeed, Feeding, FactInv, LoopInv
<1>2. loop' = [loop EXCEPT !.feeds = f, !.answer = a]
  BY DEF ReadFeed
<1>3. a \in Trilean
  <2>1. FeedThreatened(Head(loop.feeds)) \in Trilean
    BY DEF FeedThreatened, BoolToTrilean, Trilean
  <2> QED
    BY <2>1 DEF Combine, And, Or, Trilean
<1>4. f \in Seq(FeedNames)
  <2>1. loop.feeds \in Seq(FeedNames)
    BY <1>1 DEF LoopType
  <2> QED
    BY <1>1, <2>1
<1> HIDE DEF a, f
<1>5. loop' \in LoopType
  BY <1>1, <1>2, <1>3, <1>4 DEF LoopType
<1>6. loop'.pc = "derive" /\ loop'.tick = loop.tick /\ loop'.client = loop.client
  BY <1>1, <1>2 DEF LoopType
<1>7. LoopInv'
  BY <1>1, <1>5, <1>6 DEF FactInv, LoopInv
<1> QED
  BY <1>1, <1>6, <1>7 DEF FactInv, RecordInv, AgeInv, VerdictInv, Resting0, Assessed

LEMMA UpdateDerivedKeeps ==
    ASSUME Undotted, FactInv, UpdateDerived
    PROVE  FactInv'
<1> DEFINE k == Derived(loop.client)
           v == Bool(Resolved(loop.client, loop.answer))
<1>1. Set(k, v) /\ loop.pc = "derive" /\ loop \in LoopType /\ loop.client \in Clients
  BY DEF UpdateDerived, FactInv, LoopInv
<1> HIDE DEF k, v
<1>2. RecordInv' /\ \A j \in Keys :
                 \/ j = k /\ fact'[j].age = 0 /\ fact'[j].quality = "good"
                 \/ j # k /\ fact'[j] = fact[j]
  BY <1>1, SetFact DEF FactInv
<1>3. /\ loop' \in LoopType /\ loop'.tick = FALSE
      /\ \/ loop'.pc = "derive" /\ loop'.client \in Clients
         \/ loop'.pc = "assess" /\ loop'.todo = Keys
  <2>1. CASE loop.client < NumClients
    <3>1. loop' = Deriving(loop.client + 1) /\ loop.client + 1 \in Clients
      BY <1>1, <2>1, NameAssumption DEF UpdateDerived, Clients, NumClients
    <3>2. loop.tick = FALSE
      BY <1>1 DEF FactInv, LoopInv
    <3> QED
      BY <1>1, <3>1, <3>2, DerivingFields
  <2>2. CASE ~(loop.client < NumClients)
    <3> DEFINE d == [loop EXCEPT !.client = 0, !.feeds = <<>>, !.answer = "none"]
    <3>1. loop' = [d EXCEPT !.pc = "assess", !.pass = 2, !.todo = Keys]
      BY <2>2 DEF UpdateDerived
    <3>2. d \in LoopType
      <4>1. 0 \in 0..NumClients /\ <<>> \in Seq(FeedNames)
        BY NameAssumption DEF NumClients
      <4> QED
        BY <1>1, <4>1, DerivedType, Zenon
    <3>3. d.tick = FALSE
      BY <1>1 DEF FactInv, LoopInv, LoopType
    <3> HIDE DEF d
    <3>4. loop' \in LoopType
      <4>1. /\ 2 \in 0..2 /\ "assess" \in {"idle", "assess", "mark", "derive"}
            /\ Keys \in SUBSET Keys
        OBVIOUS
      <4> QED
        BY <3>1, <3>2, <4>1, PassType, Zenon
    <3>5. loop'.tick = FALSE /\ loop'.pc = "assess" /\ loop'.todo = Keys
      BY <3>1, <3>2, <3>3 DEF LoopType
    <3> QED
      BY <3>4, <3>5
  <2> QED
    BY <2>1, <2>2
<1>4. LoopInv'
  BY <1>3 DEF LoopInv
<1>5. AgeInv'
  <2>1. QualityRefresh \in Nat /\ \A j \in Keys : WindowOf(j) \in Nat
    BY KeySource, FactAssumption
  <2>2. ~Resting0' /\ \A j \in Keys : Assessed(j)
    BY <1>1, <1>3 DEF Resting0, Assessed
  <2> QED
    BY <1>2, <2>1, <2>2 DEF FactInv, AgeInv
<1> QED
  BY <1>2, <1>3, <1>4, <1>5 DEF FactInv, VerdictInv

LEMMA Grown ==
    ASSUME NEW f, f = [quality |-> f.quality, value |-> f.value, age |-> f.age],
           f.age \in 0..Oldest
    PROVE  /\ [f EXCEPT !.age = Aged(@)]
                = [quality |-> f.quality, value |-> f.value, age |-> Aged(f.age)]
           /\ Aged(f.age) \in 0..Oldest /\ f.age <= Aged(f.age) /\ Aged(f.age) <= f.age + 1
<1>1. \A a, v, n, x : [[quality |-> a, value |-> v, age |-> n] EXCEPT !.age = x]
                        = [quality |-> a, value |-> v, age |-> x]
  OBVIOUS
<1>2. PICK a, v, n : f = [quality |-> a, value |-> v, age |-> n]
  OBVIOUS
<1>3. f.quality = a /\ f.value = v /\ f.age = n
  BY <1>2
<1>4. /\ Aged(f.age) \in 0..Oldest /\ f.age <= Aged(f.age) /\ Aged(f.age) <= f.age + 1
  BY FactAssumption DEF Aged
<1> QED
  BY <1>1, <1>2, <1>3, <1>4

\* A tick makes every value a tick older and changes nothing else.
LEMMA TickAges ==
    ASSUME RecordInv, Tick, NEW k \in Keys
    PROVE  /\ fact'[k].quality = fact[k].quality /\ fact'[k].value = fact[k].value
           /\ fact'[k].age \in 0..Oldest /\ fact'[k].age \in Nat /\ fact[k].age \in Nat
           /\ fact[k].age <= fact'[k].age /\ fact'[k].age <= fact[k].age + 1
           /\ fact'[k] = [quality |-> fact'[k].quality, value |-> fact'[k].value,
                          age |-> fact'[k].age]
<1>0. Oldest \in Nat /\ fact[k].age \in 0..Oldest
  BY FactAssumption DEF RecordInv
<1>1. fact'[k] = IF fact[k].quality = "unknown" THEN fact[k]
                 ELSE [fact[k] EXCEPT !.age = Aged(@)]
  BY DEF Tick
<1>2. CASE fact[k].quality = "unknown"
  <2>1. fact'[k] = fact[k]
    BY <1>1, <1>2
  <2> QED
    BY <1>0, <2>1 DEF RecordInv
<1>3. CASE fact[k].quality # "unknown"
  <2> DEFINE n == Aged(fact[k].age)
  <2>1. fact'[k] = [fact[k] EXCEPT !.age = Aged(@)]
    BY <1>1, <1>3
  <2>2. fact[k] = [quality |-> fact[k].quality, value |-> fact[k].value, age |-> fact[k].age]
    BY DEF RecordInv
  <2>3. /\ fact'[k] = [quality |-> fact[k].quality, value |-> fact[k].value, age |-> n]
        /\ n \in 0..Oldest /\ fact[k].age <= n /\ n <= fact[k].age + 1
    BY <1>0, <2>1, <2>2, Grown, Zenon
  <2> HIDE DEF n
  <2>4. /\ fact'[k].quality = fact[k].quality /\ fact'[k].age = n
        /\ fact'[k].value = fact[k].value
    BY <2>3
  <2> QED
    BY <1>0, <2>3, <2>4
<1> QED
  BY <1>2, <1>3

\* Ages and the quality loop's ticker move together.
LEMMA TickKeeps ==
    ASSUME Undotted, FactInv, Tick
    PROVE  FactInv'
<1>1. loop.pc = "idle" /\ loop.tick = FALSE /\ loop \in LoopType /\ Resting0
  BY LoopFields DEF Tick, FactInv, LoopInv, Resting0
<1>2. QualityRefresh \in Nat \ {0} /\ loop.next \in 1..QualityRefresh
  BY <1>1, FactAssumption, LoopFields
<1>3. /\ loop' \in LoopType /\ loop'.pc = "idle"
      /\ \/ loop.next = 1 /\ loop'.tick = TRUE
         \/ loop.next # 1 /\ loop'.tick = FALSE /\ loop'.next = loop.next - 1
  <2> DEFINE n == IF loop.next = 1 THEN QualityRefresh ELSE loop.next - 1
             t == loop.tick \/ loop.next = 1
  <2>1. n \in 1..QualityRefresh /\ t \in BOOLEAN
    BY <1>1, <1>2, SMTT(40)
  <2>2. loop' = [loop EXCEPT !.next = n, !.tick = t]
    BY DEF Tick, TickerFires
  <2>3. t = TRUE <=> loop.next = 1
    BY <1>1
  <2>4. loop.next # 1 => n = loop.next - 1
    OBVIOUS
  <2> HIDE DEF n, t
  <2>5. loop' \in LoopType
    BY <1>1, <2>1, <2>2 DEF LoopType
  <2>6. loop'.pc = "idle" /\ loop'.next = n /\ loop'.tick = t
    BY <1>1, <2>2 DEF LoopType
  <2> QED
    BY <2>1, <2>3, <2>4, <2>5, <2>6
<1>4. LoopInv'
  BY <1>3 DEF LoopInv
<1>5. fact' = [k \in Keys |-> IF fact[k].quality = "unknown" THEN fact[k]
                              ELSE [fact[k] EXCEPT !.age = Aged(@)]]
  BY DEF Tick
<1>6. ASSUME NEW k \in Keys
      PROVE  /\ fact'[k].quality = fact[k].quality
             /\ fact'[k].age \in 0..Oldest /\ fact'[k].age \in Nat /\ fact[k].age \in Nat
             /\ fact[k].age <= fact'[k].age /\ fact'[k].age <= fact[k].age + 1
             /\ fact'[k] = [quality |-> fact'[k].quality, value |-> fact'[k].value,
                            age |-> fact'[k].age]
  BY TickAges DEF FactInv
<1>7. RecordInv'
  <2>1. fact' = [k \in Keys |-> fact'[k]]
    BY <1>5
  <2>2. \A k \in Keys : fact[k].quality \in {"unknown", "good", "stale"}
    BY DEF FactInv, RecordInv
  <2> QED
    BY <1>6, <2>1, <2>2 DEF RecordInv
<1>8. AgeInv'
  <2> SUFFICES ASSUME NEW k \in Keys
               PROVE  /\ fact'[k].quality = "good" =>
                            /\ fact'[k].age <= WindowOf(k) + QualityRefresh
                            /\ Resting0' => fact'[k].age <= WindowOf(k) + Elapsed'
                      /\ fact'[k].quality = "stale" /\ fact'[k].age <= WindowOf(k) =>
                            /\ fact'[k].age <= QualityRefresh
                            /\ Resting0' => fact'[k].age <= Elapsed'
    BY <1>3 DEF AgeInv, Assessed
  <2>1. WindowOf(k) \in Nat
    BY KeySource
  <2>2. /\ fact[k].quality = "good" => fact[k].age <= WindowOf(k) + Elapsed
        /\ fact[k].quality = "stale" /\ fact[k].age <= WindowOf(k) => fact[k].age <= Elapsed
    BY <1>1 DEF FactInv, AgeInv
  <2>3. Elapsed \in Nat /\ Elapsed + 1 <= QualityRefresh /\ (Resting0' => Elapsed' = Elapsed + 1)
    BY <1>2, <1>3 DEF Elapsed, Resting0
  <2>4. /\ fact'[k].quality = fact[k].quality
        /\ fact'[k].age \in Nat /\ fact[k].age \in Nat
        /\ fact[k].age <= fact'[k].age /\ fact'[k].age <= fact[k].age + 1
    BY <1>6
  <2> HIDE DEF Elapsed
  <2> QED
    BY <1>2, <2>1, <2>2, <2>3, <2>4
<1> QED
  BY <1>3, <1>4, <1>7, <1>8 DEF FactInv, VerdictInv

LEMMA NextFact ==
    ASSUME Undotted, FactInv, [Next]_vars
    PROVE  FactInv'
<1>1. CASE UNCHANGED <<fact, loop>>
  BY <1>1 DEF FactInv, LoopInv, RecordInv, AgeInv, VerdictInv, Resting0, Elapsed, Assessed
<1>2. CASE UNCHANGED vars
  BY <1>1, <1>2 DEF vars
<1>3. ASSUME NEW p \in Pollers, PollerStep(p) PROVE UNCHANGED <<fact, loop>>
  BY <1>3 DEF PollerStep, BeginPoll, PollFails, PollAnswered, Emit
<1>4. CASE Forward
  BY <1>4, StoreKeeps DEF Forward
<1>5. CASE LoopStep
  BY <1>5, BeginRefreshKeeps, AssessKeeps, MarkKeeps, EndAssessKeeps, ReadFeedKeeps,
     UpdateDerivedKeeps DEF LoopStep
<1> QED
  BY <1>1, <1>2, <1>3, <1>4, <1>5, TickKeeps DEF Next

LEMMA FactInvariant == ASSUME Undotted PROVE Spec => []FactInv
<1>1. Init => FactInv
  BY InitFact
<1>2. FactInv /\ [Next]_vars => FactInv'
  BY NextFact
<1> QED
  BY <1>1, <1>2, PTL DEF Spec

\* RefreshQuality and qualityLoop: a fact the evaluator trusts was stored
\* within two intervals of its source and one refresh period, whatever the
\* sources do and however their updates race the refresh.
THEOREM GoodFactsAreRecent == ASSUME Undotted PROVE Spec => []GoodIsRecent
<1>1. FactInv => GoodIsRecent
  BY KeySource DEF FactInv, AgeInv, GoodIsRecent, WindowOf
<1> QED
  BY <1>1, FactInvariant, PTL

\* The Get and the SetQuality of a refresh are two steps: an update between
\* them is marked stale by mistake, but no fact inside its window stays so
\* past the next refresh.
THEOREM StaleFactsAreOldOrRaced == ASSUME Undotted PROVE Spec => []StaleIsOldOrRaced
<1>1. FactInv => StaleIsOldOrRaced
  <2> SUFFICES ASSUME FactInv, NEW k \in SourceKeys, fact[k].quality = "stale"
               PROVE  fact[k].age > Window(Owner(k)) \/ fact[k].age <= QualityRefresh
    BY DEF StaleIsOldOrRaced
  <2>1. k \in Keys
    BY DEF Keys
  <2>2. Window(Owner(k)) = WindowOf(k) /\ WindowOf(k) \in Nat
    BY <2>1, KeySource DEF WindowOf
  <2>3. fact[k].age \in Nat
    BY <2>1, FactAssumption DEF FactInv, RecordInv
  <2> QED
    BY <2>1, <2>2, <2>3 DEF FactInv, AgeInv
<1> QED
  BY <1>1, FactInvariant, PTL
------------------------------------------------------------------------------
(* What the derived facts rest on *)

\* No instance takes the derived facts' own prefix.
NoClientSource == \A p \in Pollers : Name[p] # <<"client">>

\* Values a device reports.
Reported == {NoValue} \cup UNION {UNION {Range(r) : r \in Readings[p]} : p \in Pollers}
Update == [key : SourceKeys, value : Reported]

PollerType ==
    [pc : {"idle", "query", "emit", "gone"}, tick : BOOLEAN, next : Nat \ {0}, took : Nat,
     pending : Seq(Update)]

\* Only facts the sources registered are on their way to the store.
SourceInv ==
    /\ poller \in [Pollers -> PollerType]
    /\ \A p \in Pollers : poller[p].pc = "emit" => poller[p].pending # <<>>
    /\ updates \in Seq(Update)

\* Feed n reported a threat no longer than d ticks past its window ago, or has
\* been stored again in the last d.
SeenWithin(n, d) ==
    LET f == fact[n \o Status] IN
    /\ n \o Status \in Keys
    /\ \/ IsThreat(f.value) /\ f.age <= Window(n) + d
       \/ f.quality # "unknown" /\ f.age <= d

FeedsSeen(c, d) ==
    IF c \in NeedsAll THEN \A n \in FeedSet(c) : SeenWithin(n, d)
    ELSE \E n \in FeedSet(c) : SeenWithin(n, d)

\* Ticks since client c's fact was last computed, at most.
Slack(c) ==
    IF Resting0 THEN Elapsed
    ELSE IF \/ loop.pc = "derive" /\ c < loop.client
            \/ loop.pc \in {"assess", "mark"} /\ loop.pass = 2 THEN 0
    ELSE QualityRefresh

KnownInv == \A c \in Clients \ AssumeThreat : ThreatKnown(c) => FeedsSeen(c, Slack(c))

\* The answer so far: for a client that needs all, every feed read was seen.
AnswerInv ==
    loop.pc = "derive" =>
        /\ loop.feeds \in Seq(FeedSet(loop.client)) /\ loop.answer \in Trilean
        /\ loop.answer = "true" =>
              IF loop.client \in NeedsAll
              THEN \A n \in FeedSet(loop.client) \ Range(loop.feeds) : SeenWithin(n, 0)
              ELSE \E n \in FeedSet(loop.client) : SeenWithin(n, 0)

ThreatInv == SourceInv /\ KnownInv /\ AnswerInv

\* A status fact is its feed's, and no derived fact.
LEMMA StatusKey ==
    ASSUME Undotted, NEW n \in Seq(Segment), Len(n) = 1
    PROVE  /\ WindowOf(n \o Status) = Window(n)
           /\ \A c \in Clients : n \o Status # Derived(c)
<1> DEFINE S == Segment \cup {"status"}
<1>1. Status \in Seq(S) /\ Len(Status) = 1
  BY DEF Status
<1>2. <<Head(n \o Status)>> = n /\ Len(n \o Status) = 2
  <2>1. Segment \subseteq S
    OBVIOUS
  <2> HIDE DEF S
  <2>2. n \in Seq(S)
    BY <2>1, SeqMonotone, Zenon
  <2> QED
    BY <1>1, <2>2, FirstSegment
<1>3. \A c \in Clients : Len(Derived(c)) = 3
  BY DEF Derived
<1> QED
  BY <1>2, <1>3, SMTT(40) DEF WindowOf, SourceFromKey

LEMMA SourceNotDerived ==
    ASSUME Undotted, NoClientSource, NEW k \in SourceKeys, NEW c \in Clients
    PROVE  k # Derived(c)
<1>1. PICK p \in Pollers : k \in {Name[p] \o f : f \in Range(Reports[p])}
  BY DEF SourceKeys
<1>2. PICK f \in Range(Reports[p]) : k = Name[p] \o f
  BY <1>1
<1>3. /\ Name[p] \in Seq(Segment) /\ Reports[p] \in Seq(Seq(Segment))
      /\ Len(Name[p]) = 1
  BY NameAssumption DEF Undotted
<1>4. f \in Seq(Segment)
  BY <1>3 DEF Range
<1>5. <<Head(k)>> = Name[p]
  BY <1>2, <1>3, <1>4, FirstSegment, Zenon
<1>6. Head(Derived(c)) = "client"
  BY DEF Derived
<1> QED
  BY <1>5, <1>6 DEF NoClientSource

LEMMA DerivedDistinct ==
    ASSUME NEW c \in Clients, NEW d \in Clients, Derived(c) = Derived(d)
    PROVE  c = d
<1>1. Derived(c)[2] = ClientNames[c] /\ Derived(d)[2] = ClientNames[d]
  BY DEF Derived
<1> QED
  BY <1>1, NameAssumption

LEMMA SourceInit == Init => SourceInv
<1> SUFFICES ASSUME Init PROVE SourceInv
  OBVIOUS
<1>1. \A p \in Pollers : Interval[p] \in Nat \ {0}
  BY FactAssumption
<1>2. <<>> \in Seq(Update)
  OBVIOUS
<1> QED
  BY <1>1, <1>2 DEF Init, SourceInv, PollerType

\* An answer becomes one update for each fact the source registered.
LEMMA AnswerTyped ==
    ASSUME NEW p \in Pollers, NEW r \in Readings[p]
    PROVE  [i \in DOMAIN Reports[p] |->
               LET f == Reports[p][i] IN
               [key |-> Name[p] \o f,
                value |-> IF f \in DOMAIN r THEN r[f] ELSE NoValue]] \in Seq(Update)
<1> DEFINE v(f) == IF f \in DOMAIN r THEN r[f] ELSE NoValue
           u(i) == [key |-> Name[p] \o Reports[p][i], value |-> v(Reports[p][i])]
<1>1. Reports[p] \in Seq(Seq(Segment))
  BY NameAssumption
<1>2. DOMAIN Reports[p] = 1..Len(Reports[p]) /\ Len(Reports[p]) \in Nat
  BY <1>1, LenProperties
<1>3. ASSUME NEW i \in DOMAIN Reports[p] PROVE u(i) \in Update
  <2>1. Reports[p][i] \in Range(Reports[p])
    BY DEF Range
  <2>2. Name[p] \o Reports[p][i] \in SourceKeys
    <3>1. Name[p] \o Reports[p][i] \in {Name[p] \o f : f \in Range(Reports[p])}
      BY <2>1, Zenon
    <3> QED
      BY <3>1, Zenon DEF SourceKeys
  <2>3. v(Reports[p][i]) \in Reported
    <3>1. \A f \in DOMAIN r : r[f] \in Range(r)
      BY DEF Range
    <3>2. Range(r) \subseteq Reported /\ NoValue \in Reported
      BY DEF Reported
    <3> QED
      BY <3>1, <3>2
  <2> HIDE DEF v
  <2> QED
    BY <2>2, <2>3 DEF Update
<1> HIDE DEF u
<1>4. [i \in DOMAIN Reports[p] |-> u(i)] \in [1..Len(Reports[p]) -> Update]
  BY <1>2, <1>3
<1>5. [i \in DOMAIN Reports[p] |-> u(i)] \in Seq(Update)
  BY <1>2, <1>4
<1> QED
  BY <1>5 DEF u

LEMMA Listful ==
    ASSUME NEW S, NEW s \in Seq(S), s # <<>>
    PROVE  /\ DOMAIN s # {} /\ Head(s) \in S /\ Tail(s) \in Seq(S)
           /\ Len(s) # 1 => Tail(s) # <<>>
<1>1. 1 \in DOMAIN s /\ Len(s) >= 1 /\ Head(s) \in S /\ Tail(s) \in Seq(S)
  OBVIOUS
<1>2. Len(Tail(s)) = Len(s) - 1 /\ Len(s) \in Nat
  BY <1>1
<1>3. Len(s) # 1 => Len(Tail(s)) # 0
  BY <1>1, <1>2
<1>4. Len(<<>>) = 0 /\ DOMAIN s # {}
  BY <1>1
<1> QED
  BY <1>1, <1>3, <1>4, Zenon

\* What a poll loop does to itself leaves the others as they are.
LEMMA OneLoopMoves ==
    ASSUME SourceInv, NEW p \in Pollers, NEW l \in PollerType, l.pc = "emit" => l.pending # <<>>,
           poller' = [poller EXCEPT ![p] = l], updates' \in Seq(Update)
    PROVE  SourceInv'
BY DEF SourceInv

LEMMA SourceStep ==
    ASSUME SourceInv, [Next]_vars
    PROVE  SourceInv'
<1>0. /\ poller \in [Pollers -> PollerType] /\ updates \in Seq(Update)
      /\ \A p \in Pollers : poller[p].pc = "emit" => poller[p].pending # <<>>
  BY DEF SourceInv
<1>1. CASE UNCHANGED <<poller, updates>>
  BY <1>1 DEF SourceInv
<1>2. ASSUME NEW p \in Pollers, BeginPoll(p) PROVE SourceInv'
  <2> DEFINE l == [poller[p] EXCEPT !.pc = "query", !.tick = FALSE, !.took = 0]
  <2>1. l \in PollerType
    BY <1>0 DEF PollerType
  <2>2. l.pc = "query"
    BY <1>0 DEF PollerType
  <2>3. poller' = [poller EXCEPT ![p] = l] /\ updates' = updates
    BY <1>0, <1>2 DEF BeginPoll
  <2> HIDE DEF l
  <2> QED
    BY <1>0, <2>1, <2>2, <2>3, OneLoopMoves
<1>3. ASSUME NEW p \in Pollers, PollFails(p) PROVE SourceInv'
  <2> DEFINE l == [poller[p] EXCEPT !.pc = "idle", !.took = 0]
  <2>1. l \in PollerType
    BY <1>0 DEF PollerType
  <2>2. l.pc = "idle"
    BY <1>0 DEF PollerType
  <2>3. poller' = [poller EXCEPT ![p] = l] /\ updates' = updates
    BY <1>0, <1>3 DEF PollFails
  <2> HIDE DEF l
  <2> QED
    BY <1>0, <2>1, <2>2, <2>3, OneLoopMoves
<1>4. ASSUME NEW p \in Pollers, NEW r \in Readings[p], PollAnswered(p, r) PROVE SourceInv'
  <2> DEFINE s == [i \in DOMAIN Reports[p] |->
                      LET f == Reports[p][i] IN
                      [key |-> Name[p] \o f,
                       value |-> IF f \in DOMAIN r THEN r[f] ELSE NoValue]]
             q == IF Reports[p] = <<>> THEN "idle" ELSE "emit"
             l == [poller[p] EXCEPT !.pc = q, !.took = 0, !.pending = s]
  <2>1. s \in Seq(Update)
    BY AnswerTyped
  <2>2. q = "emit" => s # <<>>
    <3>1. Reports[p] \in Seq(Seq(Segment))
      BY NameAssumption
    <3>2. q = "emit" => DOMAIN Reports[p] # {}
      BY <3>1, Listful
    <3>3. DOMAIN s = DOMAIN Reports[p] /\ DOMAIN <<>> = {}
      OBVIOUS
    <3> QED
      BY <3>2, <3>3
  <2>3. q \in {"idle", "emit"}
    OBVIOUS
  <2>4. /\ poller' = [poller EXCEPT ![p].pc = q, ![p].took = 0, ![p].pending = s]
        /\ updates' = updates
    BY <1>4 DEF PollAnswered
  <2> HIDE DEF s, q
  <2>5. l \in PollerType
    BY <1>0, <2>1, <2>3 DEF PollerType
  <2>6. l.pc = q /\ l.pending = s
    BY <1>0 DEF PollerType
  <2>7. poller' = [poller EXCEPT ![p] = l]
    BY <1>0, <2>4
  <2> HIDE DEF l
  <2> QED
    BY <1>0, <2>2, <2>4, <2>5, <2>6, <2>7, OneLoopMoves
<1>5. ASSUME NEW p \in Pollers, Emit(p) PROVE SourceInv'
  <2> DEFINE s == Tail(poller[p].pending)
             q == AfterEmit(p)
             l == [poller[p] EXCEPT !.pc = q, !.pending = s]
  <2>1. poller[p].pending \in Seq(Update) /\ poller[p].pending # <<>>
    BY <1>0, <1>5 DEF Emit, PollerType
  <2>2. /\ Head(poller[p].pending) \in Update /\ s \in Seq(Update)
        /\ Len(poller[p].pending) # 1 => s # <<>>
    BY <2>1, Listful
  <2>3. q \in {"idle", "emit"} /\ (q = "emit" => s # <<>>)
    BY <2>2 DEF AfterEmit
  <2>4. updates' \in Seq(Update)
    BY <1>0, <1>5, <2>2, SMTT(40) DEF Emit
  <2>5. poller' = [poller EXCEPT ![p].pc = q, ![p].pending = s]
    BY <1>5 DEF Emit
  <2> HIDE DEF s, q
  <2>6. l \in PollerType
    BY <1>0, <2>2, <2>3 DEF PollerType
  <2>7. l.pc = q /\ l.pending = s
    BY <1>0 DEF PollerType
  <2>8. poller' = [poller EXCEPT ![p] = l]
    BY <1>0, <2>5
  <2> HIDE DEF l
  <2> QED
    BY <2>3, <2>4, <2>6, <2>7, <2>8, OneLoopMoves
<1>6. CASE Forward
  BY <1>0, <1>6 DEF Forward, SourceInv
<1>7. CASE LoopStep
  BY <1>1, <1>7 DEF LoopStep, BeginRefresh, Assess, Mark, EndAssess, ReadFeed, UpdateDerived
<1>8. CASE Tick
  <2> DEFINE t(p) == TickerFires(poller[p], Interval[p])
  <2>1. ASSUME NEW p \in Pollers
        PROVE  t(p) \in PollerType /\ t(p).pc = poller[p].pc
    <3> DEFINE n == IF poller[p].next = 1 THEN Interval[p] ELSE poller[p].next - 1
               b == poller[p].tick \/ poller[p].next = 1
    <3>1. Interval[p] \in Nat \ {0} /\ poller[p] \in PollerType
      BY <1>0, FactAssumption
    <3>2. poller[p].next \in Nat \ {0} /\ poller[p].tick \in BOOLEAN
      BY <3>1 DEF PollerType
    <3>3. n \in Nat \ {0} /\ b \in BOOLEAN
      BY <3>1, <3>2
    <3>4. t(p) = [poller[p] EXCEPT !.next = n, !.tick = b]
      BY DEF TickerFires
    <3> HIDE DEF n, b, t
    <3>5. t(p) \in PollerType
      BY <3>1, <3>3, <3>4 DEF PollerType
    <3>6. t(p).pc = poller[p].pc
      BY <3>1, <3>4 DEF PollerType
    <3> QED
      BY <3>5, <3>6
  <2>2. /\ poller' = [p \in Pollers |->
               CASE poller[p].pc = "gone" -> poller[p]
                 [] poller[p].pc = "query" -> [t(p) EXCEPT !.took = @ + 1]
                 [] OTHER -> t(p)]
        /\ updates' = updates
    BY <1>8 DEF Tick
  <2> HIDE DEF t
  <2>3. ASSUME NEW p \in Pollers
        PROVE  poller'[p] \in PollerType /\ poller'[p].pc # "emit"
    <3>1. poller[p] \in PollerType /\ poller[p].pc # "emit"
      BY <1>0, <1>8 DEF Tick, Settled
    <3>2. CASE poller[p].pc = "query"
      <4> DEFINE w == t(p).took + 1
      <4>1. poller'[p] = [t(p) EXCEPT !.took = w] /\ w \in Nat
        BY <2>1, <2>2, <3>2 DEF PollerType
      <4> HIDE DEF w
      <4>2. poller'[p] \in PollerType
        BY <2>1, <4>1 DEF PollerType
      <4>3. poller'[p].pc = "query"
        BY <2>1, <3>2, <4>1 DEF PollerType
      <4> QED
        BY <4>2, <4>3
    <3>3. CASE poller[p].pc # "query"
      BY <2>1, <2>2, <3>1, <3>3
    <3> QED
      BY <3>2, <3>3
  <2>4. poller' \in [Pollers -> PollerType]
    BY <2>2, <2>3
  <2> QED
    BY <1>0, <2>2, <2>3, <2>4 DEF SourceInv
<1> QED
  BY <1>1, <1>2, <1>3, <1>4, <1>5, <1>6, <1>7, <1>8 DEF Next, PollerStep, vars

\* No step but a tick makes what is stored older.
FactKept ==
    \A k \in Keys :
        \/ fact'[k].quality = "good" /\ fact'[k].age = 0
        \/ /\ fact'[k].value = fact[k].value /\ fact'[k].age = fact[k].age
           /\ fact[k].quality # "unknown" => fact'[k].quality # "unknown"

LEMMA SeenMore ==
    ASSUME Undotted, RecordInv, NEW n \in Seq(Segment), Len(n) = 1,
           NEW d \in Nat, NEW e \in Nat, d <= e, SeenWithin(n, d)
    PROVE  SeenWithin(n, e)
<1> DEFINE k == n \o Status
<1>1. k \in Keys
  BY DEF SeenWithin
<1>2. Window(n) \in Nat
  <2>1. WindowOf(k) \in Nat
    BY <1>1, KeySource
  <2>2. WindowOf(k) = Window(n)
    BY StatusKey
  <2> QED
    BY <2>1, <2>2
<1>3. fact[k].age \in Nat
  BY <1>1, FactAssumption DEF RecordInv
<1>4. \/ IsThreat(fact[k].value) /\ fact[k].age <= Window(n) + d
      \/ fact[k].quality # "unknown" /\ fact[k].age <= d
  BY DEF SeenWithin
<1> HIDE DEF k
<1>5. \/ IsThreat(fact[k].value) /\ fact[k].age <= Window(n) + e
      \/ fact[k].quality # "unknown" /\ fact[k].age <= e
  BY <1>2, <1>3, <1>4
<1> QED
  BY <1>1, <1>5 DEF SeenWithin, k

LEMMA SeenStays ==
    ASSUME NEW n, NEW d \in Nat, SeenWithin(n, d), FactKept
    PROVE  SeenWithin(n, d)'
<1> DEFINE k == n \o Status
<1>1. k \in Keys /\ \/ IsThreat(fact[k].value) /\ fact[k].age <= Window(n) + d
                    \/ fact[k].quality # "unknown" /\ fact[k].age <= d
  BY DEF SeenWithin
<1> HIDE DEF k
<1>2. CASE fact'[k].quality = "good" /\ fact'[k].age = 0
  <2>1. fact'[k].quality # "unknown" /\ fact'[k].age <= d
    BY <1>2
  <2> QED
    BY <1>1, <2>1 DEF SeenWithin, k
<1>3. CASE /\ fact'[k].value = fact[k].value /\ fact'[k].age = fact[k].age
           /\ fact[k].quality # "unknown" => fact'[k].quality # "unknown"
  <2>1. \/ IsThreat(fact'[k].value) /\ fact'[k].age <= Window(n) + d
        \/ fact'[k].quality # "unknown" /\ fact'[k].age <= d
    BY <1>1, <1>3
  <2> QED
    BY <1>1, <2>1 DEF SeenWithin, k
<1> QED
  BY <1>1, <1>2, <1>3 DEF FactKept

\* What was seen within d is, a tick later, seen within d + 1.
LEMMA SeenAges ==
    ASSUME Undotted, RecordInv, Tick, NEW n \in Seq(Segment), Len(n) = 1,
           NEW d \in Nat, SeenWithin(n, d)
    PROVE  SeenWithin(n, d + 1)'
<1> DEFINE k == n \o Status
<1>1. k \in Keys /\ \/ IsThreat(fact[k].value) /\ fact[k].age <= Window(n) + d
                    \/ fact[k].quality # "unknown" /\ fact[k].age <= d
  BY DEF SeenWithin
<1>2. Window(n) \in Nat
  <2>1. WindowOf(k) \in Nat
    BY <1>1, KeySource
  <2>2. WindowOf(k) = Window(n)
    BY StatusKey
  <2> QED
    BY <2>1, <2>2
<1> HIDE DEF k
<1>3. /\ fact'[k].quality = fact[k].quality /\ fact'[k].value = fact[k].value
      /\ fact'[k].age \in Nat /\ fact[k].age \in Nat /\ fact'[k].age <= fact[k].age + 1
  BY <1>1, TickAges
<1>4. \/ IsThreat(fact'[k].value) /\ fact'[k].age <= Window(n) + (d + 1)
      \/ fact'[k].quality # "unknown" /\ fact'[k].age <= d + 1
  BY <1>1, <1>2, <1>3, SMTT(40)
<1> QED
  BY <1>1, <1>4 DEF SeenWithin, k

LEMMA FeedsMore ==
    ASSUME Undotted, RecordInv, NEW c \in Clients,
           NEW d \in Nat, NEW e \in Nat, d <= e, FeedsSeen(c, d)
    PROVE  FeedsSeen(c, e)
<1>1. \A n \in FeedSet(c) : n \in Seq(Segment) /\ Len(n) = 1
  BY FeedsListed
<1>2. \A n \in FeedSet(c) : SeenWithin(n, d) => SeenWithin(n, e)
  BY <1>1, SeenMore
<1> QED
  BY <1>2 DEF FeedsSeen

LEMMA FeedsStay ==
    ASSUME NEW c \in Clients, NEW d \in Nat, FeedsSeen(c, d), FactKept
    PROVE  FeedsSeen(c, d)'
<1>1. \A n \in FeedSet(c) : SeenWithin(n, d) => SeenWithin(n, d)'
  BY SeenStays
<1> QED
  BY <1>1 DEF FeedsSeen

LEMMA FeedsAge ==
    ASSUME Undotted, RecordInv, Tick, NEW c \in Clients, NEW d \in Nat, FeedsSeen(c, d)
    PROVE  FeedsSeen(c, d + 1)'
<1>1. \A n \in FeedSet(c) : n \in Seq(Segment) /\ Len(n) = 1
  BY FeedsListed
<1>2. \A n \in FeedSet(c) : SeenWithin(n, d) => SeenWithin(n, d + 1)'
  BY <1>1, SeenAges
<1> QED
  BY <1>2 DEF FeedsSeen

LEMMA SlackNat ==
    ASSUME LoopInv, NEW c
    PROVE  Slack(c) \in 0..QualityRefresh
<1>1. QualityRefresh \in Nat /\ loop.next \in 1..QualityRefresh
  BY FactAssumption, LoopFields DEF LoopInv
<1> QED
  BY <1>1 DEF Slack, Elapsed

\* A client whose fact is not computed in this step stays answered for.
LEMMA KnownStays ==
    ASSUME Undotted, FactInv, LoopInv', KnownInv, FactKept,
           NEW c \in Clients \ AssumeThreat,
           fact'[Derived(c)].value = fact[Derived(c)].value,
           Slack(c) <= Slack(c)', ThreatKnown(c)'
    PROVE  FeedsSeen(c, Slack(c))'
<1>1. ThreatKnown(c)
  BY DEF ThreatKnown
<1>2. QualityRefresh \in Nat /\ Slack(c) \in Nat
  BY SlackNat, FactAssumption DEF FactInv
<1>3. Slack(c)' \in Nat
  <2>1. loop'.next \in 1..QualityRefresh
    BY LoopFields DEF LoopInv
  <2> QED
    BY <1>2, <2>1 DEF Slack, Elapsed
<1>4. PICK d \in Nat : d = Slack(c)
  BY <1>2
<1>5. PICK e \in Nat : e = Slack(c)'
  BY <1>3
<1>6. FeedsSeen(c, d)
  BY <1>1, <1>4 DEF KnownInv
<1>7. FeedsSeen(c, e)
  BY <1>4, <1>5, <1>6, FeedsMore DEF FactInv
<1>8. FeedsSeen(c, e)'
  BY <1>7, FeedsStay
<1> QED
  <2> DEFINE W(x) == IF c \in NeedsAll THEN \A n \in FeedSet(c) : SeenWithin(n, x)'
                     ELSE \E n \in FeedSet(c) : SeenWithin(n, x)'
  <2>1. W(e)
    BY <1>8 DEF FeedsSeen
  <2> QED
    BY <1>5, <2>1, Zenon DEF FeedsSeen, SeenWithin

LEMMA ThreatInit ==
    ASSUME Undotted, NoClientSource, Init
    PROVE  ThreatInv
<1>1. SourceInv
  BY SourceInit
<1>2. ASSUME NEW c \in Clients \ AssumeThreat PROVE ~ThreatKnown(c)
  <2>1. Derived(c) \in Keys /\ Derived(c) \notin SourceKeys
    BY SourceNotDerived DEF Keys, DerivedKeys
  <2>2. (CHOOSE d \in Clients : Derived(d) = Derived(c)) = c
    BY DerivedDistinct
  <2>3. fact[Derived(c)].value = Bool(ClientFeeds(c) # <<>> /\ c \in AssumeThreat)
    BY <2>1, <2>2 DEF Init
  <2>4. Bool(FALSE) # Bool(TRUE)
    BY DEF Bool
  <2>5. (ClientFeeds(c) # <<>> /\ c \in AssumeThreat) = FALSE
    OBVIOUS
  <2> QED
    BY <2>3, <2>4, <2>5 DEF ThreatKnown
<1>3. KnownInv
  BY <1>2 DEF KnownInv
<1>4. AnswerInv
  BY DEF Init, AnswerInv
<1> QED
  BY <1>1, <1>3, <1>4 DEF ThreatInv

\* Nothing a computation has taken from a feed is undone while it goes on.
LEMMA AnswerStays ==
    ASSUME AnswerInv, FactKept,
           loop'.pc = "derive" => loop' = loop
    PROVE  AnswerInv'
<1> SUFFICES ASSUME loop'.pc = "derive" PROVE AnswerInv'
  BY DEF AnswerInv
<1>1. loop' = loop
  OBVIOUS
<1>2. \A n : SeenWithin(n, 0) => SeenWithin(n, 0)'
  BY SeenStays
<1> QED
  BY <1>1, <1>2 DEF AnswerInv

LEMMA ForwardThreat ==
    ASSUME Undotted, NoClientSource, FactInv, FactInv', ThreatInv, Forward
    PROVE  KnownInv' /\ AnswerInv'
<1> DEFINE k == Head(updates).key
           v == Head(updates).value
<1>1. k \in SourceKeys
  BY Listful DEF Forward, ThreatInv, SourceInv, Update
<1>2. Set(k, v) /\ loop' = loop
  BY DEF Forward
<1> HIDE DEF k, v
<1>3. \A j \in Keys : \/ j = k /\ fact'[j].age = 0 /\ fact'[j].quality = "good"
                      \/ j # k /\ fact'[j] = fact[j]
  BY <1>2, SetFact DEF FactInv
<1>4. FactKept
  BY <1>3 DEF FactKept
<1>5. ASSUME NEW c \in Clients PROVE fact'[Derived(c)].value = fact[Derived(c)].value
  BY <1>1, <1>3, SourceNotDerived DEF Keys, DerivedKeys
<1>6. ASSUME NEW c \in Clients PROVE Slack(c) <= Slack(c)'
  <2>1. Slack(c)' = Slack(c)
    BY <1>2 DEF Slack, Resting0, Elapsed
  <2> QED
    BY <2>1, SlackNat, FactAssumption DEF FactInv
<1>7. KnownInv'
  BY <1>4, <1>5, <1>6, KnownStays DEF KnownInv, FactInv, ThreatInv
<1>8. AnswerInv'
  BY <1>2, <1>4, AnswerStays DEF ThreatInv
<1> QED
  BY <1>7, <1>8

LEMMA MarkThreat ==
    ASSUME Undotted, FactInv, FactInv', ThreatInv, Mark
    PROVE  KnownInv' /\ AnswerInv'
<1> DEFINE k == loop.key
           q == loop.verdict
<1>1. k \in Keys /\ q \in {"good", "stale"} /\ loop.pc = "mark" /\ loop \in LoopType
  BY DEF Mark, FactInv, LoopInv
<1>2. loop'.pc = "assess" /\ loop'.pass = loop.pass
  BY <1>1 DEF Mark, LoopType
<1>3. fact' = [fact EXCEPT ![k].quality = q]
  BY DEF Mark
<1> HIDE DEF k, q
<1>4. fact' = [j \in Keys |-> IF j = k THEN [fact[k] EXCEPT !.quality = q] ELSE fact[j]]
  BY <1>3 DEF FactInv, RecordInv
<1>5. [fact[k] EXCEPT !.quality = q] = [quality |-> q, value |-> fact[k].value, age |-> fact[k].age]
  <2>1. fact[k] = [quality |-> fact[k].quality, value |-> fact[k].value, age |-> fact[k].age]
    BY <1>1 DEF FactInv, RecordInv
  <2> QED
    BY <2>1, Requalified, Zenon
<1>6. \A j \in Keys : \/ j = k /\ fact'[j] = [quality |-> q, value |-> fact[k].value, age |-> fact[k].age]
                      \/ j # k /\ fact'[j] = fact[j]
  BY <1>4, <1>5
<1>7. \A j \in Keys : /\ fact'[j].value = fact[j].value /\ fact'[j].age = fact[j].age
                      /\ fact[j].quality # "unknown" => fact'[j].quality # "unknown"
  BY <1>1, <1>6
<1>8. FactKept
  BY <1>7 DEF FactKept
<1>9. ASSUME NEW c \in Clients PROVE fact'[Derived(c)].value = fact[Derived(c)].value
  BY <1>7 DEF Keys, DerivedKeys
<1>10. ASSUME NEW c \in Clients PROVE Slack(c) <= Slack(c)'
  <2>1. Slack(c)' = Slack(c)
    BY <1>1, <1>2 DEF Slack, Resting0
  <2> QED
    BY <2>1, SlackNat, FactAssumption DEF FactInv
<1>11. KnownInv'
  BY <1>8, <1>9, <1>10, KnownStays DEF KnownInv, FactInv, ThreatInv
<1>12. AnswerInv'
  BY <1>2, <1>8, AnswerStays DEF ThreatInv
<1> QED
  BY <1>11, <1>12

\* Reading and resting change no fact and, but for the end of the second pass,
\* no client's slack.
LEMMA QuietThreat ==
    ASSUME Undotted, FactInv, FactInv', ThreatInv, fact' = fact,
           \A c \in Clients : Slack(c) <= Slack(c)'
    PROVE  KnownInv' /\ FactKept
<1>1. FactKept
  BY DEF FactKept
<1>2. KnownInv'
  BY <1>1, KnownStays DEF KnownInv, FactInv, ThreatInv
<1> QED
  BY <1>1, <1>2

LEMMA BeginRefreshThreat ==
    ASSUME Undotted, FactInv, FactInv', ThreatInv, BeginRefresh
    PROVE  KnownInv' /\ AnswerInv'
<1> DEFINE l == Assessing(1)
<1>1. l \in LoopType /\ l.pc = "assess" /\ l.pass = 1
  BY AssessingFields DEF FactInv, LoopInv
<1>2. loop' = [l EXCEPT !.tick = FALSE] /\ fact' = fact
  BY DEF BeginRefresh
<1> HIDE DEF l
<1>3. loop'.pc = "assess" /\ loop'.pass = 1
  BY <1>1, <1>2 DEF LoopType
<1>4. ASSUME NEW c \in Clients PROVE Slack(c) <= Slack(c)'
  <2>1. Slack(c)' = QualityRefresh
    BY <1>3 DEF Slack, Resting0
  <2> QED
    BY <2>1, SlackNat, FactAssumption DEF FactInv
<1>5. KnownInv' /\ FactKept
  BY <1>2, <1>4, QuietThreat
<1> QED
  BY <1>3, <1>5, AnswerStays DEF ThreatInv

LEMMA AssessThreat ==
    ASSUME Undotted, FactInv, FactInv', ThreatInv, Assess
    PROVE  KnownInv' /\ AnswerInv'
<1>1. PICK k \in loop.todo :
           \/ loop' = [loop EXCEPT !.todo = @ \ {k}, !.pc = "mark", !.key = k,
                                   !.verdict = Verdict(k)]
           \/ loop' = [loop EXCEPT !.todo = @ \ {k}]
  BY DEF Assess
<1>2. loop.pc = "assess" /\ loop \in LoopType /\ fact' = fact
  BY DEF Assess, FactInv, LoopInv
<1>3. loop'.pc \in {"assess", "mark"} /\ loop'.pass = loop.pass
  BY <1>1, <1>2 DEF LoopType
<1>4. ASSUME NEW c \in Clients PROVE Slack(c) <= Slack(c)'
  <2>1. Slack(c)' = Slack(c)
    BY <1>2, <1>3 DEF Slack, Resting0
  <2> QED
    BY <2>1, SlackNat, FactAssumption DEF FactInv
<1>5. KnownInv' /\ FactKept
  BY <1>2, <1>4, QuietThreat
<1> QED
  BY <1>3, <1>5, AnswerStays DEF ThreatInv

\* A computation starts with every feed still to be read.
LEMMA AnswerStarts ==
    ASSUME Undotted, loop \in LoopType, NEW c \in Clients, loop' = Deriving(c)
    PROVE  AnswerInv'
<1>1. /\ loop'.pc = "derive" /\ loop'.client = c /\ loop'.feeds = ClientFeeds(c)
      /\ loop'.answer = IF ClientFeeds(c) = <<>> THEN "false" ELSE Unit(c)
  BY DerivingFields
<1>2. ClientFeeds(c) \in Seq(FeedSet(c))
  BY FeedsListed
<1>3. loop'.answer \in Trilean /\ (loop'.answer = "true" => c \in NeedsAll)
  BY <1>1 DEF Unit, Trilean
<1> QED
  BY <1>1, <1>2, <1>3 DEF AnswerInv, FeedSet

LEMMA EndAssessThreat ==
    ASSUME Undotted, FactInv, FactInv', ThreatInv, EndAssess
    PROVE  KnownInv' /\ AnswerInv'
<1>1. loop.pc = "assess" /\ loop \in LoopType /\ fact' = fact /\ loop.tick = FALSE
  BY DEF EndAssess, FactInv, LoopInv
<1>2. CASE loop.pass = 2
  <2>1. loop' = Resting
    BY <1>2 DEF EndAssess
  <2>2. loop'.pc = "idle"
    BY <1>1, <2>1 DEF Resting, LoopType
  <2>3. ASSUME NEW c \in Clients PROVE Slack(c) <= Slack(c)'
    <3>1. Slack(c) = 0
      BY <1>1, <1>2 DEF Slack, Resting0
    <3>2. QualityRefresh \in Nat /\ loop'.next \in 1..QualityRefresh
      BY FactAssumption, LoopFields DEF FactInv, LoopInv
    <3>3. Slack(c)' \in Nat
      BY <3>2 DEF Slack, Elapsed
    <3> QED
      BY <3>1, <3>3
  <2>4. KnownInv' /\ FactKept
    BY <1>1, <2>3, QuietThreat
  <2> QED
    BY <2>2, <2>4, AnswerStays DEF ThreatInv
<1>3. CASE loop.pass # 2 /\ NumClients = 0
  <2>1. Clients = {}
    BY <1>3 DEF Clients
  <2>2. loop' = Assessing(2)
    BY <1>3 DEF EndAssess
  <2>3. loop'.pc = "assess"
    BY <1>1, <2>2, AssessingFields
  <2> QED
    BY <2>1, <2>3 DEF KnownInv, AnswerInv
<1>4. CASE loop.pass # 2 /\ NumClients # 0
  <2>1. loop' = Deriving(1) /\ 1 \in Clients
    BY <1>4, NameAssumption DEF EndAssess, Clients, NumClients
  <2>2. loop'.pc = "derive" /\ loop'.client = 1
    BY <1>1, <2>1, DerivingFields
  <2>3. ASSUME NEW c \in Clients PROVE Slack(c) <= Slack(c)'
    <3>1. ~(c < 1)
      BY DEF Clients
    <3>2. Slack(c)' = QualityRefresh
      BY <2>2, <3>1 DEF Slack, Resting0
    <3> QED
      BY <3>2, SlackNat, FactAssumption DEF FactInv
  <2>4. KnownInv'
    BY <1>1, <2>3, QuietThreat
  <2>5. AnswerInv'
    BY <1>1, <2>1, AnswerStarts
  <2> QED
    BY <2>4, <2>5
<1> QED
  BY <1>2, <1>3, <1>4

\* A feed counts as threatened only on a good status that says so.
LEMMA ThreatenedSeen ==
    ASSUME Undotted, FactInv, loop.pc = "derive", NEW n \in Seq(Segment), Len(n) = 1,
           FeedThreatened(n) = "true"
    PROVE  SeenWithin(n, 0)
<1> DEFINE k == n \o Status
<1>1. k \in Keys /\ fact[k].quality = "good" /\ IsThreat(fact[k].value)
  BY DEF FeedThreatened, BoolToTrilean
<1>2. WindowOf(k) = Window(n)
  BY StatusKey
<1>3. fact[k].age <= Window(n) /\ Window(n) \in Nat /\ fact[k].age \in Nat
  <2>1. fact[k].age <= WindowOf(k)
    BY <1>1 DEF FactInv, AgeInv, Assessed
  <2>2. WindowOf(k) \in Nat
    BY <1>1, KeySource
  <2>3. fact[k].age \in Nat
    BY <1>1, FactAssumption DEF FactInv, RecordInv
  <2> QED
    BY <1>2, <2>1, <2>2, <2>3
<1> HIDE DEF k
<1>4. fact[k].age <= Window(n) + 0
  BY <1>3
<1> QED
  BY <1>1, <1>4 DEF SeenWithin, k

LEMMA HeadOrTail ==
    ASSUME NEW S, NEW s \in Seq(S), s # <<>>, NEW x \in Range(s), x # Head(s)
    PROVE  x \in Range(Tail(s))
<1>1. PICK i \in 1..Len(s) : x = s[i]
  BY DEF Range
<1>2. i # 1
  BY <1>1
<1>3. /\ Tail(s) \in Seq(S) /\ Len(Tail(s)) = Len(s) - 1 /\ Len(s) \in Nat
      /\ \A j \in 1..(Len(s) - 1) : Tail(s)[j] = s[j + 1]
  OBVIOUS
<1>4. i - 1 \in 1..(Len(s) - 1) /\ (i - 1) + 1 = i
  BY <1>1, <1>2, <1>3
<1>5. Tail(s)[i - 1] = s[i] /\ i - 1 \in DOMAIN Tail(s)
  BY <1>3, <1>4
<1> QED
  BY <1>1, <1>5 DEF Range

LEMMA ReadFeedThreat ==
    ASSUME Undotted, FactInv, FactInv', ThreatInv, ReadFeed
    PROVE  KnownInv' /\ AnswerInv'
<1> DEFINE c == loop.client
           h == Head(loop.feeds)
           t == FeedThreatened(h)
           a == Combine(c, loop.answer, t)
           f == Tail(loop.feeds)
<1>1. /\ loop.pc = "derive" /\ loop \in LoopType /\ fact' = fact /\ loop.feeds # <<>>
      /\ c \in Clients
  BY DEF ReadFeed, Feeding, FactInv, LoopInv
<1>2. loop' = [loop EXCEPT !.feeds = f, !.answer = a]
  BY DEF ReadFeed
<1>3. loop.feeds \in Seq(FeedSet(c))
  BY <1>1 DEF ThreatInv, AnswerInv
<1>4. h \in FeedSet(c) /\ f \in Seq(FeedSet(c))
  BY <1>1, <1>3, Listful
<1>5. t = "true" => SeenWithin(h, 0)
  <2>1. h \in Seq(Segment) /\ Len(h) = 1
    BY <1>1, <1>4, FeedsListed
  <2> HIDE DEF h
  <2> QED
    BY <1>1, <2>1, ThreatenedSeen
<1>6. /\ a \in Trilean
      /\ c \in NeedsAll /\ a = "true" => loop.answer = "true" /\ t = "true"
      /\ c \notin NeedsAll /\ a = "true" => loop.answer = "true" \/ t = "true"
  <2>1. t \in Trilean
    BY DEF FeedThreatened, BoolToTrilean, Trilean
  <2>2. loop.answer \in Trilean
    BY <1>1 DEF ThreatInv, AnswerInv
  <2> HIDE DEF t
  <2> QED
    BY <2>1, <2>2 DEF Combine, And, Or, Trilean
<1>7. \A n \in FeedSet(c) \ Range(f) : n = h \/ n \in FeedSet(c) \ Range(loop.feeds)
  BY <1>1, <1>3, HeadOrTail
<1> HIDE DEF a, f, t, h
<1>8. /\ loop'.pc = "derive" /\ loop'.client = c /\ loop'.feeds = f /\ loop'.answer = a
  BY <1>1, <1>2 DEF LoopType
<1>9. ASSUME NEW d \in Clients PROVE Slack(d) <= Slack(d)'
  <2>1. Slack(d)' = Slack(d)
    BY <1>1, <1>8 DEF Slack, Resting0
  <2> QED
    BY <2>1, SlackNat, FactAssumption DEF FactInv
<1>10. KnownInv' /\ FactKept
  BY <1>1, <1>9, QuietThreat
<1>11. a = "true" =>
          IF c \in NeedsAll THEN \A n \in FeedSet(c) \ Range(f) : SeenWithin(n, 0)
          ELSE \E n \in FeedSet(c) : SeenWithin(n, 0)
  <2>1. loop.answer = "true" =>
          IF c \in NeedsAll THEN \A n \in FeedSet(c) \ Range(loop.feeds) : SeenWithin(n, 0)
          ELSE \E n \in FeedSet(c) : SeenWithin(n, 0)
    BY <1>1 DEF ThreatInv, AnswerInv
  <2> QED
    BY <1>4, <1>5, <1>6, <1>7, <2>1
<1>12. \A n : SeenWithin(n, 0)' <=> SeenWithin(n, 0)
  BY <1>1 DEF SeenWithin
<1>13. AnswerInv'
  <2>1. PICK d \in Clients : d = c
    BY <1>1
  <2> HIDE DEF c
  <2> QED
    BY <1>4, <1>6, <1>8, <1>11, <1>12, <2>1 DEF AnswerInv
<1> QED
  BY <1>10, <1>13

\* A client is answered threatened only on what its feeds were seen to say.
LEMMA ResolvedSeen ==
    ASSUME AnswerInv, LoopInv, loop.pc = "derive", ~Feeding,
           loop.client \notin AssumeThreat, Resolved(loop.client, loop.answer)
    PROVE  FeedsSeen(loop.client, 0)
<1>1. loop.answer = "true"
  BY DEF Resolved
<1>2. CASE loop.client \in NeedsAll
  <2>1. loop.feeds = <<>>
    BY <1>1, <1>2 DEF Feeding, Decided
  <2>2. Range(loop.feeds) = {}
    BY <2>1 DEF Range
  <2> QED
    BY <1>1, <1>2, <2>2 DEF AnswerInv, FeedsSeen
<1>3. CASE loop.client \notin NeedsAll
  BY <1>1, <1>3 DEF AnswerInv, FeedsSeen
<1> QED
  BY <1>2, <1>3

LEMMA UpdateDerivedThreat ==
    ASSUME Undotted, FactInv, FactInv', ThreatInv, UpdateDerived
    PROVE  KnownInv' /\ AnswerInv'
<1> DEFINE b == Resolved(loop.client, loop.answer)
<1>1. PICK m \in Clients : m = loop.client
  BY DEF UpdateDerived, FactInv, LoopInv
<1>2. /\ Set(Derived(m), Bool(b)) /\ loop.pc = "derive" /\ loop \in LoopType /\ ~Feeding
      /\ LoopInv
  BY <1>1 DEF UpdateDerived, FactInv, LoopInv
<1> HIDE DEF b
<1>3. \A j \in Keys : \/ j = Derived(m) /\ fact'[j].age = 0 /\ fact'[j].quality = "good"
                      \/ j # Derived(m) /\ fact'[j] = fact[j]
  BY <1>2, SetFact, Zenon DEF FactInv
<1>4. FactKept
  BY <1>3 DEF FactKept
<1>5. ASSUME NEW c \in Clients, c # m PROVE fact'[Derived(c)].value = fact[Derived(c)].value
  BY <1>3, <1>5, DerivedDistinct DEF Keys, DerivedKeys
<1>6. fact'[Derived(m)].value = Bool(b)
  <2>1. Derived(m) \in Keys
    BY DEF Keys, DerivedKeys
  <2> QED
    BY <1>2, <2>1 DEF Set, FactInv, RecordInv
<1>7. /\ m < NumClients => loop' = Deriving(m + 1) /\ m + 1 \in Clients
      /\ ~(m < NumClients) => loop'.pc = "assess" /\ loop'.pass = 2
  <2>1. CASE m < NumClients
    BY <1>1, <2>1, NameAssumption DEF UpdateDerived, Clients, NumClients
  <2>2. CASE ~(m < NumClients)
    <3> DEFINE d == [loop EXCEPT !.client = 0, !.feeds = <<>>, !.answer = "none"]
    <3>1. loop' = [d EXCEPT !.pc = "assess", !.pass = 2, !.todo = Keys]
      BY <1>1, <2>2 DEF UpdateDerived
    <3>2. d \in LoopType
      <4>1. 0 \in 0..NumClients /\ <<>> \in Seq(FeedNames)
        BY NameAssumption DEF NumClients
      <4> QED
        BY <1>2, <4>1, DerivedType, Zenon
    <3> HIDE DEF d
    <3>3. loop'.pc = "assess" /\ loop'.pass = 2
      BY <3>1, <3>2 DEF LoopType
    <3> QED
      BY <2>2, <3>3
  <2> QED
    BY <2>1, <2>2
<1>8. m < NumClients => loop'.pc = "derive" /\ loop'.client = m + 1
  BY <1>2, <1>7, DerivingFields
<1>9. ASSUME NEW c \in Clients
      PROVE  /\ c < m => Slack(c) = 0
             /\ c > m => Slack(c) = QualityRefresh
             /\ c <= m => Slack(c)' = 0
             /\ c > m => Slack(c)' = QualityRefresh
  <2>1. c \in 1..NumClients /\ m \in 1..NumClients /\ NumClients \in Nat
    BY NameAssumption DEF Clients, NumClients
  <2>2. ~Resting0 /\ ~Resting0'
    BY <1>2, <1>7, <1>8 DEF Resting0
  <2>3. /\ c < m => Slack(c) = 0
        /\ c > m => Slack(c) = QualityRefresh
    BY <1>1, <1>2, <2>1, <2>2 DEF Slack
  <2>4. CASE m < NumClients
    BY <1>8, <2>1, <2>2, <2>3, <2>4 DEF Slack
  <2>5. CASE ~(m < NumClients)
    BY <1>7, <2>1, <2>2, <2>3, <2>5 DEF Slack
  <2> QED
    BY <2>4, <2>5
<1>10. ASSUME NEW c \in Clients \ AssumeThreat, ThreatKnown(c)'
       PROVE  FeedsSeen(c, Slack(c))'
  <2>1. CASE c # m
    <3>1. Slack(c) <= Slack(c)'
      <4>1. QualityRefresh \in Nat /\ c \in Nat /\ m \in Nat
        BY FactAssumption, NameAssumption DEF Clients, NumClients
      <4> QED
        BY <1>9, <2>1, <4>1
    <3> QED
      BY <1>4, <1>5, <1>10, <2>1, <3>1, KnownStays DEF FactInv, ThreatInv
  <2>2. CASE c = m
    <3>1. b
      <4>1. Bool(b) = Bool(TRUE)
        BY <1>6, <1>10, <2>2 DEF ThreatKnown
      <4> QED
        BY <4>1 DEF Bool
    <3>2. FeedsSeen(m, 0)
      BY <1>1, <1>2, <1>10, <2>2, <3>1, ResolvedSeen DEF b, ThreatInv
    <3>3. FeedsSeen(m, 0)'
      BY <1>4, <3>2, FeedsStay
    <3>4. Slack(m)' = 0
      BY <1>9 DEF Clients
    <3> QED
      BY <2>2, <3>3, <3>4, Zenon DEF FeedsSeen, SeenWithin
  <2> QED
    BY <2>1, <2>2
<1>11. KnownInv'
  BY <1>10 DEF KnownInv
<1>12. AnswerInv'
  <2>1. CASE m < NumClients
    BY <1>2, <1>7, <2>1, AnswerStarts
  <2>2. CASE ~(m < NumClients)
    BY <1>7, <2>2 DEF AnswerInv
  <2> QED
    BY <2>1, <2>2
<1> QED
  BY <1>11, <1>12

LEMMA TickThreat ==
    ASSUME Undotted, FactInv, FactInv', ThreatInv, Tick
    PROVE  KnownInv' /\ AnswerInv'
<1>1. loop.pc = "idle" /\ loop.tick = FALSE /\ loop \in LoopType /\ RecordInv
  BY LoopFields DEF Tick, FactInv, LoopInv
<1>2. QualityRefresh \in Nat \ {0} /\ loop.next \in 1..QualityRefresh
  BY <1>1, FactAssumption, LoopFields
<1>3. /\ loop'.pc = "idle"
      /\ \/ loop.next = 1 /\ loop'.tick = TRUE
         \/ loop.next # 1 /\ loop'.tick = FALSE /\ loop'.next = loop.next - 1
  <2> DEFINE n == IF loop.next = 1 THEN QualityRefresh ELSE loop.next - 1
             t == loop.tick \/ loop.next = 1
  <2>1. loop' = [loop EXCEPT !.next = n, !.tick = t]
    BY DEF Tick, TickerFires
  <2>2. t = (loop.next = 1) /\ (loop.next # 1 => n = loop.next - 1)
    BY <1>1
  <2> HIDE DEF n, t
  <2>3. loop'.pc = "idle" /\ loop'.next = n /\ loop'.tick = t
    BY <1>1, <2>1 DEF LoopType
  <2> QED
    BY <2>2, <2>3
<1>4. PICK d \in Nat : d = Elapsed /\ d + 1 <= QualityRefresh
  BY <1>2 DEF Elapsed
<1>5. PICK e \in Nat : e \in {d + 1, QualityRefresh} /\ \A c \in Clients : Slack(c)' = e
  <2>1. CASE loop.next = 1
    BY <1>2, <1>3, <2>1 DEF Slack, Resting0
  <2>2. CASE loop.next # 1
    BY <1>2, <1>3, <1>4, <2>2 DEF Slack, Resting0, Elapsed
  <2> QED
    BY <2>1, <2>2
<1>6. ASSUME NEW c \in Clients \ AssumeThreat, ThreatKnown(c)'
      PROVE  FeedsSeen(c, Slack(c))'
  <2>1. Derived(c) \in Keys
    BY DEF Keys, DerivedKeys
  <2>2. ThreatKnown(c)
    BY <1>1, <1>6, <2>1, TickAges DEF ThreatKnown
  <2>3. Slack(c) = d
    BY <1>1, <1>4 DEF Slack, Resting0
  <2>4. FeedsSeen(c, d)
    BY <2>2, <2>3 DEF ThreatInv, KnownInv
  <2>5. PICK g \in Nat : g + 1 = e /\ d <= g
    BY <1>2, <1>4, <1>5
  <2>6. FeedsSeen(c, g)
    BY <1>1, <2>4, <2>5, FeedsMore
  <2>7. FeedsSeen(c, g + 1)'
    BY <1>1, <2>6, FeedsAge
  <2>8. Slack(c)' = g + 1
    BY <1>5, <2>5
  <2> QED
    BY <2>7, <2>8, Zenon DEF FeedsSeen, SeenWithin
<1>7. KnownInv'
  BY <1>6 DEF KnownInv
<1> QED
  BY <1>3, <1>7 DEF AnswerInv

LEMMA NextThreat ==
    ASSUME Undotted, NoClientSource, FactInv, FactInv', ThreatInv, [Next]_vars
    PROVE  ThreatInv'
<1>1. SourceInv'
  BY SourceStep DEF ThreatInv
<1>2. CASE UNCHANGED <<fact, loop>>
  <2>1. ASSUME NEW c \in Clients PROVE Slack(c) <= Slack(c)'
    <3>1. Slack(c)' = Slack(c)
      BY <1>2 DEF Slack, Resting0, Elapsed
    <3> QED
      BY <3>1, SlackNat, FactAssumption DEF FactInv
  <2>2. KnownInv' /\ FactKept
    BY <1>2, <2>1, QuietThreat
  <2>3. AnswerInv'
    BY <1>2, <2>2, AnswerStays DEF ThreatInv
  <2> QED
    BY <1>1, <2>2, <2>3 DEF ThreatInv
<1>3. CASE UNCHANGED vars
  BY <1>2, <1>3 DEF vars
<1>4. ASSUME NEW p \in Pollers, PollerStep(p) PROVE UNCHANGED <<fact, loop>>
  BY <1>4 DEF PollerStep, BeginPoll, PollFails, PollAnswered, Emit
<1>5. CASE LoopStep
  BY <1>1, <1>5, BeginRefreshThreat, AssessThreat, MarkThreat, EndAssessThreat,
     ReadFeedThreat, UpdateDerivedThreat DEF LoopStep, ThreatInv
<1>6. CASE Forward
  BY <1>1, <1>6, ForwardThreat DEF ThreatInv
<1>7. CASE Tick
  BY <1>1, <1>7, TickThreat DEF ThreatInv
<1> QED
  BY <1>2, <1>3, <1>4, <1>5, <1>6, <1>7 DEF Next

\* clientThreatened: unless comms_loss_assumes says otherwise, a client's
\* derived fact says threatened only on flags its feeds did report (all of
\* them where feed_policy is "all"), inside their window at the last refresh.
\* Silence is never taken for a threat, however polls, updates and the two
\* passes of a refresh interleave.
THEOREM ThreatsAreReported ==
    ASSUME Undotted, NoClientSource
    PROVE  Spec => []ThreatIsReported
<1>1. Init => ThreatInv
  BY ThreatInit
<1>2. FactInv /\ FactInv' /\ ThreatInv /\ [Next]_vars => ThreatInv'
  BY NextThreat
<1>3. FactInv /\ ThreatInv => ThreatIsReported
  <2> SUFFICES ASSUME FactInv, ThreatInv, NEW c \in Clients \ AssumeThreat, ThreatKnown(c)
               PROVE  FeedsSeen(c, QualityRefresh)
    BY DEF ThreatIsReported, FeedsSeen, SeenWithin, ThreatSeen
  <2>1. QualityRefresh \in Nat /\ Slack(c) \in Nat /\ Slack(c) <= QualityRefresh
    BY SlackNat, FactAssumption DEF FactInv
  <2>2. PICK d \in Nat : d = Slack(c) /\ d <= QualityRefresh
    BY <2>1
  <2>3. FeedsSeen(c, d)
    BY <2>2 DEF ThreatInv, KnownInv
  <2> QED
    BY <2>1, <2>2, <2>3, FeedsMore DEF FactInv
<1> QED
  BY <1>1, <1>2, <1>3, FactInvariant, PTL DEF Spec
=============================================================================
