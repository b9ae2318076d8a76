-------------------------- MODULE SimulationProofs --------------------------
(***************************************************************************)
(* Proofs about conditions, validation and the simulator, for any config   *)
(* files, conditions, facts and timelines.                                 *)
(*                                                                         *)
(* What a recursive function computes is proved in two steps.  Recursion   *)
(* says once and for all that a recursion whose calls go down in some rank *)
(* has a solution; it speaks of functions only, so that it can be applied  *)
(* to each definition.  Properties then follow by a least counterexample.  *)
(***************************************************************************)
EXTENDS Simulation, SequenceTheorems, FiniteSetTheorems, WellFoundedInduction, TLAPS

------------------------------------------------------------------------------
(* Induction and recursion *)

\* A set of numbers that is not empty has a least member.
LEMMA Least ==
    ASSUME NEW S \in SUBSET Nat, S # {}
    PROVE  \E m \in S : \A n \in S : m <= n
<1>1. IsWellFoundedOn(OpToRel(<, Nat), Nat)
  BY NatLessThanWellFounded
<1>2. PICK m \in S : \A n \in S : ~ (<<n, m>> \in OpToRel(<, Nat))
  BY <1>1, WFMin
<1>3. ASSUME NEW n \in S PROVE m <= n
  <2>1. ~ (n < m)
    BY <1>2 DEF OpToRel
  <2> QED
    BY <2>1
<1> QED
  BY <1>2, <1>3

\* A set that reaches past each number below which it has all is all of Nat.
LEMMA Induction ==
    ASSUME NEW S, \A n \in Nat : (\A m \in Nat : m < n => m \in S) => n \in S
    PROVE  Nat \subseteq S
<1> SUFFICES ASSUME Nat \ S # {} PROVE FALSE
  OBVIOUS
<1>1. Nat \ S \in SUBSET Nat
  OBVIOUS
<1>2. PICK m \in Nat \ S : \A n \in Nat \ S : m <= n
  BY <1>1, Least
<1>3. \A n \in Nat : n < m => n \in S
  BY <1>2
<1> QED
  BY <1>2, <1>3

\* A function whose value at c is one of V[c].
Family(C, V) == {g \in [C -> UNION {V[c] : c \in C}] : \A c \in C : g[c] \in V[c]}

\* The functions from C to W, by a name that the provers do not look into.
Maps(C, W) == [C -> W]

\* Step is one round of a recursion over C that looks down only.
Descends(C, Rank, G, Step) ==
    /\ Rank \in [C -> Nat] /\ G # {} /\ Step \in [G -> G]
    /\ \A g, h \in G : \A c \in C :
           (\A b \in C : Rank[b] < Rank[c] => g[b] = h[b]) => Step[g][c] = Step[h][c]

\* Such a recursion has a solution.
LEMMA Recursion ==
    ASSUME NEW C, NEW Rank, NEW V, NEW Step, Descends(C, Rank, Family(C, V), Step)
    PROVE  \E f \in Family(C, V) : f = Step[f]
<1> DEFINE G == Family(C, V)
<1> SUFFICES ASSUME Rank \in [C -> Nat], G # {}, Step \in [G -> G],
                    \A g, h \in G : \A c \in C :
                        (\A b \in C : Rank[b] < Rank[c] => g[b] = h[b]) => Step[g][c] = Step[h][c]
             PROVE  \E f \in G : f = Step[f]
  BY DEF Descends
<1>a. \A g \in G : g = [c \in C |-> g[c]] /\ \A c \in C : g[c] \in V[c]
  BY DEF Family
<1>b. ASSUME NEW g, g = [c \in C |-> g[c]], \A c \in C : g[c] \in V[c] PROVE g \in G
  BY <1>b DEF Family
<1> HIDE DEF G
<1> DEFINE Solved(f, n) == \A c \in C : Rank[c] < n => f[c] = Step[f][c]
<1>1. \A n \in Nat : \E f \in G : Solved(f, n)
  <2> DEFINE S == {n \in Nat : \E f \in G : Solved(f, n)}
  <2>1. ASSUME NEW n \in Nat, \A m \in Nat : m < n => m \in S PROVE n \in S
    <3>1. CASE n = 0
      BY <3>1
    <3>2. CASE n # 0
      <4>1. n - 1 \in Nat /\ n - 1 < n
        BY <3>2
      <4>2. PICK f \in G : Solved(f, n - 1)
        BY <2>1, <4>1
      <4>3. Step[f] \in G
        OBVIOUS
      <4>4. ASSUME NEW c \in C, Rank[c] < n PROVE Step[f][c] = Step[Step[f]][c]
        <5>1. \A b \in C : Rank[b] < Rank[c] => f[b] = Step[f][b]
          BY <4>1, <4>2, <4>4
        <5> QED
          BY <4>3, <5>1
      <4> QED
        BY <4>3, <4>4
    <3> QED
      BY <3>1, <3>2
  <2> HIDE DEF S
  <2>2. Nat \subseteq S
    BY <2>1, Induction
  <2> QED
    BY <2>2 DEF S
<1>2. ASSUME NEW m \in Nat, NEW n \in Nat, NEW f \in G, NEW g \in G, Solved(f, m), Solved(g, n)
      PROVE  \A c \in C : Rank[c] < m /\ Rank[c] < n => f[c] = g[c]
  <2> DEFINE S == {k \in Nat : \A c \in C : Rank[c] = k /\ k < m /\ k < n => f[c] = g[c]}
  <2>1. ASSUME NEW k \in Nat, \A j \in Nat : j < k => j \in S PROVE k \in S
    <3> SUFFICES ASSUME NEW c \in C, Rank[c] = k, k < m, k < n PROVE f[c] = g[c]
      OBVIOUS
    <3>1. \A b \in C : Rank[b] < Rank[c] => f[b] = g[b]
      BY <2>1
    <3>2. Step[f][c] = Step[g][c]
      BY <3>1
    <3> QED
      BY <1>2, <3>2
  <2> HIDE DEF S
  <2>2. Nat \subseteq S
    BY <2>1, Induction
  <2> QED
    BY <2>2 DEF S
<1> DEFINE upto == [n \in Nat |-> CHOOSE f \in G : Solved(f, n)]
           limit == [c \in C |-> upto[Rank[c] + 1][c]]
<1>3. \A n \in Nat : upto[n] \in G /\ Solved(upto[n], n)
  BY <1>1
<1> HIDE DEF upto, Solved
<1>4. limit \in G
  BY <1>3, <1>a, <1>b, SMTT(40)
<1>5. ASSUME NEW c \in C PROVE limit[c] = Step[limit][c]
  <2> DEFINE f == upto[Rank[c] + 1]
  <2>1. f \in G /\ Solved(f, Rank[c] + 1)
    BY <1>3
  <2>2. ASSUME NEW b \in C, Rank[b] < Rank[c] PROVE limit[b] = f[b]
    <3>1. upto[Rank[b] + 1] \in G /\ Solved(upto[Rank[b] + 1], Rank[b] + 1)
      BY <1>3
    <3>2. Rank[b] < Rank[b] + 1 /\ Rank[b] < Rank[c] + 1
      BY <2>2
    <3> QED
      BY <1>2, <2>1, <3>1, <3>2
  <2>3. Step[limit][c] = Step[f][c]
    BY <1>4, <2>1, <2>2
  <2>4. f[c] = Step[f][c]
    BY <2>1 DEF Solved
  <2> QED
    BY <2>3, <2>4
<1> HIDE DEF limit
<1>6. Step[limit] \in G
  BY <1>4
<1>7. limit = Step[limit]
  BY <1>4, <1>5, <1>6, <1>a
<1> QED
  BY <1>4, <1>7

\* The same where the function may be anything in W.
LEMMA PlainRecursion ==
    ASSUME NEW C, NEW Rank, NEW W, NEW Step, Descends(C, Rank, Maps(C, W), Step)
    PROVE  \E f \in Maps(C, W) : f = Step[f]
<1> DEFINE V == [c \in C |-> W]
<1>1. Family(C, V) = Maps(C, W)
  BY DEF Family, Maps
<1> QED
  BY <1>1, Recursion

\* A loop that carries a value of W through n rounds.
LEMMA Loop ==
    ASSUME NEW n \in Nat, NEW W, NEW start \in W, NEW F, F \in Maps(1..n, Maps(W, W))
    PROVE  \E f \in Maps(0..n, W) : f = [i \in 0..n |-> IF i = 0 THEN start ELSE F[i][f[i - 1]]]
<1>0. F \in [1..n -> [W -> W]]
  BY DEF Maps
<1> DEFINE C == 0..n
           Rank == [i \in C |-> i]
           Step == [g \in [C -> W] |-> [i \in C |-> IF i = 0 THEN start ELSE F[i][g[i - 1]]]]
<1>1. Rank \in [C -> Nat]
  OBVIOUS
<1>2. Step \in [[C -> W] -> [C -> W]]
  <2> SUFFICES ASSUME NEW g \in [C -> W], NEW i \in C PROVE (IF i = 0 THEN start ELSE F[i][g[i - 1]]) \in W
    OBVIOUS
  <2>1. CASE i = 0
    BY <2>1
  <2>2. CASE i # 0
    <3>1. i \in 1..n /\ i - 1 \in C
      BY <2>2
    <3>2. g[i - 1] \in W /\ F[i] \in [W -> W]
      BY <1>0, <3>1
    <3> QED
      BY <2>2, <3>2
  <2> QED
    BY <2>1, <2>2
<1>3. ASSUME NEW g \in [C -> W], NEW h \in [C -> W], NEW i \in C,
             \A j \in C : Rank[j] < Rank[i] => g[j] = h[j]
      PROVE  Step[g][i] = Step[h][i]
  <2>1. CASE i = 0
    BY <2>1
  <2>2. CASE i # 0
    <3>1. i - 1 \in C /\ Rank[i - 1] < Rank[i]
      BY <2>2
    <3>2. g[i - 1] = h[i - 1]
      BY <1>3, <3>1
    <3> QED
      BY <3>2
  <2> QED
    BY <2>1, <2>2
<1>4. \A g, h \in [C -> W] : \A i \in C :
          (\A j \in C : Rank[j] < Rank[i] => g[j] = h[j]) => Step[g][i] = Step[h][i]
  BY <1>3
<1>5. \A f \in [C -> W] : Step[f] = [i \in C |-> IF i = 0 THEN start ELSE F[i][f[i - 1]]]
  OBVIOUS
<1>6. [C -> W] # {}
  <2>1. [i \in C |-> start] \in [C -> W]
    OBVIOUS
  <2> QED
    BY <2>1
<1> HIDE DEF C, Step, Rank
<1>7. Descends(C, Rank, Maps(C, W), Step)
  BY <1>1, <1>2, <1>4, <1>6 DEF Descends, Maps
<1>8. \E f \in Maps(C, W) : f = Step[f]
  BY <1>7, PlainRecursion
<1> QED
  BY <1>5, <1>8 DEF C, Maps


------------------------------------------------------------------------------
(* Conditions: the read-only answers *)

\* Every leaf of a condition answers.
LEMMA LeafAnswers ==
    ASSUME NEW c, NEW s, NEW t
    PROVE  EvaluateLeaf(c, s, t) \in Trilean
<1>1. \A b : BoolToTrilean(b) \in Trilean
  BY DEF BoolToTrilean, Trilean
<1>2. "unavailable" \in Trilean /\ "true" \in Trilean /\ "false" \in Trilean
  BY DEF Trilean
<1>3. EvaluateNumeric(c, s) \in Trilean
  BY <1>1, <1>2 DEF EvaluateNumeric
<1>4. EvaluateState(c, s) \in Trilean
  BY <1>1, <1>2 DEF EvaluateState
<1>5. EvaluateTemplate(c, s, t) \in Trilean
  BY <1>1, <1>2 DEF EvaluateTemplate
<1> QED
  BY <1>2, <1>3, <1>4, <1>5 DEF EvaluateLeaf

LEMMA CondFacts ==
    ASSUME NEW c \in Conds
    PROVE  /\ For(c) \in Int /\ Depth[c] \in Nat
           /\ Members(c) \in Seq(Conds) /\ Len(Members(c)) \in Nat
           /\ DOMAIN Members(c) = 1..Len(Members(c))
           /\ \A i \in 1..Len(Members(c)) : Members(c)[i] \in Conds /\ Depth[Members(c)[i]] < Depth[c]
<1>1. /\ For(c) \in Int /\ Depth[c] \in Nat /\ Members(c) \in Seq(Conds)
      /\ \A i \in DOMAIN Members(c) : Depth[Members(c)[i]] < Depth[c]
  BY ConditionAssumption DEF For, Members
<1> QED
  BY <1>1

\* The answer of c without its `for`, from the answers in j of its members.
AtOnce(j, s, t, c) ==
    LET children == {j[Members(c)[i]] : i \in DOMAIN Members(c)} IN
    CASE TypeOf(c) = "and" -> AndAll(children)
      [] TypeOf(c) = "or" -> OrAll(children)
      [] TypeOf(c) = "not" -> IF Members(c) = <<>> THEN "unavailable" ELSE Not(j[Members(c)[1]])
      [] OTHER -> EvaluateLeaf(Cond[c], s, t)

\* One round of Judge.
Verdict(j, s, ripe, t, c) ==
    IF AtOnce(j, s, t, c) # "true" \/ For(c) <= 0 THEN AtOnce(j, s, t, c) ELSE BoolToTrilean(c \in ripe)

LEMMA VerdictType ==
    ASSUME NEW j, NEW s, NEW ripe, NEW t, NEW c
    PROVE  Verdict(j, s, ripe, t, c) \in Trilean
<1> DEFINE leaf == EvaluateLeaf(Cond[c], s, t)
<1>1. leaf \in Trilean
  BY LeafAnswers
<1> HIDE DEF leaf
<1>2. Verdict(j, s, ripe, t, c) \in Trilean
  <2>1. \A b : BoolToTrilean(b) \in Trilean
    BY DEF BoolToTrilean, Trilean
  <2>2. \A S : AndAll(S) \in Trilean /\ OrAll(S) \in Trilean /\ Not(S) \in Trilean
    BY DEF AndAll, OrAll, Not, Trilean
  <2>3. "unavailable" \in Trilean
    BY DEF Trilean
  <2> QED
    BY <1>1, <2>1, <2>2, <2>3 DEF AtOnce, Verdict, leaf
<1> QED
  BY <1>2

\* The answers of a condition's members settle its own.
LEMMA VerdictLocal ==
    ASSUME NEW j, NEW k, NEW s, NEW ripe, NEW t, NEW c \in Conds,
           \A i \in 1..Len(Members(c)) : j[Members(c)[i]] = k[Members(c)[i]]
    PROVE  Verdict(j, s, ripe, t, c) = Verdict(k, s, ripe, t, c)
<1> DEFINE leaf == EvaluateLeaf(Cond[c], s, t)
           jc == {j[Members(c)[i]] : i \in DOMAIN Members(c)}
           kc == {k[Members(c)[i]] : i \in DOMAIN Members(c)}
           j1 == Not(j[Members(c)[1]])
           k1 == Not(k[Members(c)[1]])
<1>0. DOMAIN Members(c) = 1..Len(Members(c)) /\ Members(c) \in Seq(Conds)
  BY CondFacts
<1>1. jc = kc
  BY <1>0
<1>2. Members(c) # <<>> => j1 = k1
  <2> SUFFICES ASSUME Members(c) # <<>> PROVE 1 \in 1..Len(Members(c))
    OBVIOUS
  <2> QED
    BY <1>0
<1> HIDE DEF leaf, jc, kc, j1, k1
<1> QED
  BY <1>1, <1>2 DEF AtOnce, Verdict, leaf, jc, kc, j1, k1

\* Judge is total and answers every condition from its members.
LEMMA JudgeUnfold ==
    ASSUME NEW s, NEW ripe, NEW t
    PROVE  /\ Judge(s, ripe, t) \in [Conds -> Trilean]
           /\ \A c \in Conds : Judge(s, ripe, t)[c] = Verdict(Judge(s, ripe, t), s, ripe, t, c)
<1> DEFINE Step == [g \in Maps(Conds, Trilean) |-> [c \in Conds |-> Verdict(g, s, ripe, t, c)]]
           J == Judge(s, ripe, t)
<1>1. \A g : [c \in Conds |-> Verdict(g, s, ripe, t, c)] \in Maps(Conds, Trilean)
  BY VerdictType DEF Maps
<1>2. ASSUME NEW g \in Maps(Conds, Trilean), NEW h \in Maps(Conds, Trilean), NEW c \in Conds,
             \A b \in Conds : Depth[b] < Depth[c] => g[b] = h[b]
      PROVE  Step[g][c] = Step[h][c]
  <2>1. \A i \in 1..Len(Members(c)) : g[Members(c)[i]] = h[Members(c)[i]]
    BY <1>2, CondFacts
  <2>2. Verdict(g, s, ripe, t, c) = Verdict(h, s, ripe, t, c)
    BY <2>1, VerdictLocal
  <2> QED
    BY <2>2
<1>3. \A g, h \in Maps(Conds, Trilean) : \A c \in Conds :
          (\A b \in Conds : Depth[b] < Depth[c] => g[b] = h[b]) => Step[g][c] = Step[h][c]
  BY <1>2
<1>4. Maps(Conds, Trilean) # {}
  <2>1. [c \in Conds |-> Verdict(Depth, s, ripe, t, c)] \in Maps(Conds, Trilean)
    BY <1>1
  <2> QED
    BY <2>1
<1>5. Step \in [Maps(Conds, Trilean) -> Maps(Conds, Trilean)]
  BY <1>1
<1>6. \A f \in Maps(Conds, Trilean) : Step[f] = [c \in Conds |-> Verdict(f, s, ripe, t, c)]
  OBVIOUS
<1> HIDE DEF Step
<1>7. Descends(Conds, Depth, Maps(Conds, Trilean), Step)
  BY <1>3, <1>4, <1>5, ConditionAssumption DEF Descends
<1>8. \E f \in Maps(Conds, Trilean) : f = Step[f]
  BY <1>7, PlainRecursion
<1>9. \E f : f = [c \in Conds |-> Verdict(f, s, ripe, t, c)]
  <2>1. PICK f \in Maps(Conds, Trilean) : f = Step[f]
    BY <1>8
  <2>2. Step[f] = [c \in Conds |-> Verdict(f, s, ripe, t, c)]
    BY <1>6
  <2>3. f = [c \in Conds |-> Verdict(f, s, ripe, t, c)]
    BY <2>1, <2>2, ZenonT(60)
  <2> QED
    BY <2>3, Zenon
<1>10. J = [c \in Conds |-> Verdict(J, s, ripe, t, c)]
  BY <1>9 DEF Judge, Verdict, AtOnce
<1> HIDE DEF J
<1>11. J \in Maps(Conds, Trilean)
  BY <1>1, <1>10
<1> QED
  BY <1>10, <1>11 DEF J, Maps

------------------------------------------------------------------------------
(* Conditions: Evaluate *)

Outcomes == [val : Trilean, dwell : Trackers]
Evaluators == Maps(Conds, Maps(Trackers, Outcomes))

\* One round of EvaluateList, over the members it has read so far.
Round(c, eval, i, sofar) ==
    LET and == TypeOf(c) = "and"
        child == eval[Members(c)[i]][sofar.dwell]
    IN IF sofar.val = BoolToTrilean(~and) THEN sofar
       ELSE [val |-> IF and THEN And(sofar.val, child.val) ELSE Or(sofar.val, child.val),
             dwell |-> child.dwell]

\* What EvaluateList starts from.
Before(c, d) == [val |-> BoolToTrilean(TypeOf(c) = "and"), dwell |-> d]

\* f[i] is what EvaluateList has after i members.
Listed(f, c, eval, d) ==
    /\ f \in [0..Len(Members(c)) -> Outcomes]
    /\ f[0] = Before(c, d)
    /\ \A i \in 1..Len(Members(c)) : f[i] = Round(c, eval, i, f[i - 1])

LEMMA RoundType ==
    ASSUME NEW c \in Conds, NEW eval \in Evaluators, NEW i \in 1..Len(Members(c)), NEW o \in Outcomes
    PROVE  Round(c, eval, i, o) \in Outcomes
<1> DEFINE child == eval[Members(c)[i]][o.dwell]
<1>1. child \in Outcomes
  BY CondFacts DEF Evaluators, Maps, Outcomes
<1> HIDE DEF child
<1>2. And(o.val, child.val) \in Trilean /\ Or(o.val, child.val) \in Trilean
  BY DEF And, Or, Trilean
<1> QED
  BY <1>1, <1>2 DEF Round, child, Outcomes

LEMMA ListUnfold ==
    ASSUME NEW c \in Conds, NEW eval \in Evaluators, NEW d \in Trackers
    PROVE  \E f : Listed(f, c, eval, d) /\ EvaluateList(c, eval, d) = f[Len(Members(c))]
<1> DEFINE n == Len(Members(c))
           start == Before(c, d)
           F == [i \in 1..n |-> [o \in Outcomes |-> Round(c, eval, i, o)]]
<1>0. n \in Nat
  BY CondFacts
<1>1. start \in Outcomes
  BY DEF Before, BoolToTrilean, Outcomes, Trilean
<1>2. F \in Maps(1..n, Maps(Outcomes, Outcomes))
  BY RoundType DEF Maps
<1>3. \A i \in 1..n : \A o \in Outcomes : F[i][o] = Round(c, eval, i, o)
  OBVIOUS
<1> HIDE DEF F, start, n
<1>4. PICK f \in Maps(0..n, Outcomes) : f = [i \in 0..n |-> IF i = 0 THEN start ELSE F[i][f[i - 1]]]
  BY <1>0, <1>1, <1>2, Loop
<1>5. ASSUME NEW i \in 1..n PROVE i \in 0..n /\ i # 0 /\ i - 1 \in 0..n
  BY <1>0, <1>5
<1>6. \A i \in 1..n : f[i] = Round(c, eval, i, f[i - 1])
  BY <1>3, <1>4, <1>5 DEF Maps
<1>7. f = [i \in 0..n |-> IF i = 0 THEN start ELSE Round(c, eval, i, f[i - 1])]
  <2> DEFINE g == [i \in 0..n |-> IF i = 0 THEN start ELSE Round(c, eval, i, f[i - 1])]
  <2>1. \A i \in 0..n : i # 0 => i \in 1..n
    BY <1>0
  <2>2. \A i \in 0..n : f[i] = g[i]
    BY <1>4, <1>6, <2>1
  <2> QED
    BY <1>4, <2>2 DEF Maps
<1> DEFINE body(g) == [i \in 0..n |-> IF i = 0 THEN start ELSE Round(c, eval, i, g[i - 1])]
           u == CHOOSE g : g = body(g)
<1>8. u = body(u)
  BY <1>7
<1>9. EvaluateList(c, eval, d) = u[n]
  BY DEF EvaluateList, n, start, Before, Round
<1> HIDE DEF u
<1>10. PICK g : g = body(g) /\ EvaluateList(c, eval, d) = g[n]
  BY <1>8, <1>9
<1>11. g[0] = start /\ \A i \in 1..n : g[i] = Round(c, eval, i, g[i - 1])
  BY <1>0, <1>10
<1>12. \A i \in 0..n : g[i] \in Outcomes
  <2> DEFINE S == {i \in Nat : i <= n => g[i] \in Outcomes}
  <2>1. ASSUME NEW i \in Nat, \A j \in Nat : j < i => j \in S PROVE i \in S
    <3> SUFFICES ASSUME i <= n, i # 0 PROVE g[i] \in Outcomes
      BY <1>1, <1>11
    <3>1. i \in 1..n /\ i - 1 \in Nat /\ i - 1 < i /\ i - 1 <= n
      BY <1>0
    <3>2. g[i - 1] \in Outcomes
      BY <2>1, <3>1
    <3>3. Round(c, eval, i, g[i - 1]) \in Outcomes
      BY <3>1, <3>2, RoundType DEF n
    <3> QED
      BY <1>11, <3>1, <3>3
  <2> HIDE DEF S
  <2>2. Nat \subseteq S
    BY <2>1, Induction
  <2> QED
    BY <1>0, <2>2 DEF S
<1>13. g \in [0..n -> Outcomes]
  BY <1>10, <1>12
<1> QED
  BY <1>10, <1>11, <1>13 DEF Listed, n, start

\* EvaluateList asks nothing but the members.
LEMMA ListLocal ==
    ASSUME NEW c \in Conds, NEW g, NEW h, NEW d,
           \A i \in 1..Len(Members(c)) : g[Members(c)[i]] = h[Members(c)[i]]
    PROVE  EvaluateList(c, g, d) = EvaluateList(c, h, d)
<1> DEFINE n == Len(Members(c))
           start == Before(c, d)
           body(q, f) == [i \in 0..n |-> IF i = 0 THEN start ELSE Round(c, q, i, f[i - 1])]
<1>0. n \in Nat
  BY CondFacts
<1>1. ASSUME NEW f, NEW i \in 0..n, i # 0 PROVE Round(c, g, i, f[i - 1]) = Round(c, h, i, f[i - 1])
  <2>1. i \in 1..n
    BY <1>0, <1>1
  <2> QED
    BY <2>1 DEF Round
<1>2. ASSUME NEW f PROVE body(g, f) = body(h, f)
  BY <1>1
<1>3. \A f : f = body(g, f) <=> f = body(h, f)
  BY <1>2
<1>4. EvaluateList(c, g, d) = (CHOOSE f : f = body(g, f))[n]
  BY DEF EvaluateList, Before, Round
<1>5. EvaluateList(c, h, d) = (CHOOSE f : f = body(h, f))[n]
  BY DEF EvaluateList, Before, Round
<1> HIDE DEF body
<1>6. (CHOOSE f : f = body(g, f)) = (CHOOSE f : f = body(h, f))
  BY <1>3
<1> QED
  BY <1>4, <1>5, <1>6

LEMMA InnerType ==
    ASSUME NEW c \in Conds, NEW eval \in Evaluators, NEW s, NEW d \in Trackers, NEW t
    PROVE  EvaluateInner(c, eval, s, d, t) \in Outcomes
<1> DEFINE leaf == EvaluateLeaf(Cond[c], s, t)
           list == EvaluateList(c, eval, d)
           child == eval[Members(c)[1]][d]
<1>1. leaf \in Trilean
  BY LeafAnswers
<1>2. list \in Outcomes
  BY ListUnfold, CondFacts DEF Listed
<1>3. Members(c) # <<>> => child \in Outcomes
  <2> SUFFICES ASSUME Members(c) # <<>> PROVE Members(c)[1] \in Conds
    BY DEF Evaluators, Maps
  <2> QED
    BY CondFacts
<1>4. \A a : Not(a) \in Trilean
  BY DEF Not, Trilean
<1>5. "unavailable" \in Trilean
  BY DEF Trilean
<1> HIDE DEF leaf, list, child
<1>6. Members(c) # <<>> => [val |-> Not(child.val), dwell |-> child.dwell] \in Outcomes
  BY <1>3, <1>4 DEF Outcomes
<1>7. [val |-> "unavailable", dwell |-> d] \in Outcomes /\ [val |-> leaf, dwell |-> d] \in Outcomes
  BY <1>1, <1>5 DEF Outcomes
<1>8. CASE TypeOf(c) \in {"and", "or"}
  BY <1>2, <1>8 DEF EvaluateInner, list
<1>9. CASE TypeOf(c) = "not"
  BY <1>6, <1>7, <1>9 DEF EvaluateInner, child
<1>10. CASE TypeOf(c) \notin {"and", "or", "not"}
  BY <1>7, <1>10 DEF EvaluateInner, leaf
<1> QED
  BY <1>8, <1>9, <1>10

LEMMA InnerLocal ==
    ASSUME NEW c \in Conds, NEW g, NEW h, NEW s, NEW d, NEW t,
           \A i \in 1..Len(Members(c)) : g[Members(c)[i]] = h[Members(c)[i]]
    PROVE  EvaluateInner(c, g, s, d, t) = EvaluateInner(c, h, s, d, t)
<1>1. EvaluateList(c, g, d) = EvaluateList(c, h, d)
  BY ListLocal
<1>2. Members(c) # <<>> => g[Members(c)[1]][d] = h[Members(c)[1]][d]
  <2> SUFFICES ASSUME Members(c) # <<>> PROVE 1 \in 1..Len(Members(c))
    OBVIOUS
  <2> QED
    BY CondFacts
<1>8. CASE TypeOf(c) \in {"and", "or"}
  BY <1>1, <1>8 DEF EvaluateInner
<1>9. CASE TypeOf(c) = "not"
  BY <1>2, <1>9 DEF EvaluateInner
<1>10. CASE TypeOf(c) \notin {"and", "or", "not"}
  BY <1>10 DEF EvaluateInner
<1> QED
  BY <1>8, <1>9, <1>10

LEMMA DwellType ==
    ASSUME NEW c \in Timed, NEW a \in Trilean, NEW d \in Trackers, NEW t \in Nat
    PROVE  ApplyDwell(c, a, d, t) \in Outcomes
<1> DEFINE T == [since : Nat \cup {Never}, credited : Nat, satisfied : BOOLEAN]
           on == Running(d[c], t)
           new == IF a # "true" THEN FreshTracker
                  ELSE [on EXCEPT !.satisfied = Elapsed(on, t) >= For(c)]
<1>1. d[c] \in T
  BY DEF Trackers
<1>2. on \in T
  BY <1>1 DEF Running
<1>3. (Elapsed(on, t) >= For(c)) \in BOOLEAN
  OBVIOUS
<1>4. FreshTracker \in T
  BY DEF FreshTracker
<1>5. new \in T
  BY <1>2, <1>3, <1>4
<1>6. ApplyDwell(c, a, d, t) = [val |-> IF a # "true" THEN a ELSE BoolToTrilean(new.satisfied),
                                dwell |-> [d EXCEPT ![c] = new]]
  BY DEF ApplyDwell
<1> HIDE DEF new, on
<1>7. [d EXCEPT ![c] = new] \in Trackers
  BY <1>5 DEF Trackers
<1>8. BoolToTrilean(new.satisfied) \in Trilean
  BY DEF BoolToTrilean, Trilean
<1> QED
  BY <1>6, <1>7, <1>8 DEF Outcomes

\* One round of Evaluator.
Asked(eval, s, t, c, d) ==
    LET inner == EvaluateInner(c, eval, s, d, t)
    IN IF For(c) = 0 THEN inner ELSE ApplyDwell(c, inner.val, inner.dwell, t)

LEMMA AskedType ==
    ASSUME NEW eval \in Evaluators, NEW s, NEW t \in Nat, NEW c \in Conds, NEW d \in Trackers
    PROVE  Asked(eval, s, t, c, d) \in Outcomes
<1> DEFINE inner == EvaluateInner(c, eval, s, d, t)
<1>1. inner \in Outcomes
  BY InnerType
<1> HIDE DEF inner
<1>2. ASSUME For(c) # 0 PROVE ApplyDwell(c, inner.val, inner.dwell, t) \in Outcomes
  BY <1>1, <1>2, DwellType DEF Timed, Outcomes
<1> QED
  BY <1>1, <1>2 DEF Asked, inner

\* Evaluator is total and works out every condition from its members.
LEMMA EvaluatorUnfold ==
    ASSUME NEW s, NEW t \in Nat
    PROVE  /\ Evaluator(s, t) \in Evaluators
           /\ \A c \in Conds : \A d \in Trackers :
                  Evaluator(s, t)[c][d] = Asked(Evaluator(s, t), s, t, c, d)
<1> DEFINE W == Maps(Trackers, Outcomes)
           Step == [g \in Maps(Conds, W) |-> [c \in Conds |-> [d \in Trackers |-> Asked(g, s, t, c, d)]]]
           E == Evaluator(s, t)
<1>0. Evaluators = Maps(Conds, W)
  BY DEF Evaluators
<1>1. \A g \in Maps(Conds, W) : [c \in Conds |-> [d \in Trackers |-> Asked(g, s, t, c, d)]] \in Maps(Conds, W)
  BY <1>0, AskedType DEF Maps
<1>2. ASSUME NEW g, NEW h, NEW c \in Conds,
             \A b \in Conds : Depth[b] < Depth[c] => g[b] = h[b]
      PROVE  [d \in Trackers |-> Asked(g, s, t, c, d)] = [d \in Trackers |-> Asked(h, s, t, c, d)]
  <2>1. \A i \in 1..Len(Members(c)) : g[Members(c)[i]] = h[Members(c)[i]]
    BY <1>2, CondFacts
  <2>2. ASSUME NEW d \in Trackers PROVE Asked(g, s, t, c, d) = Asked(h, s, t, c, d)
    <3>1. EvaluateInner(c, g, s, d, t) = EvaluateInner(c, h, s, d, t)
      BY <2>1, InnerLocal
    <3> QED
      BY <3>1 DEF Asked
  <2> QED
    BY <2>2
<1>3. \A g, h \in Maps(Conds, W) : \A c \in Conds :
          (\A b \in Conds : Depth[b] < Depth[c] => g[b] = h[b]) => Step[g][c] = Step[h][c]
  BY <1>2
<1>4. Maps(Conds, W) # {}
  <2>1. [c \in Conds |-> [d \in Trackers |-> [val |-> "true", dwell |-> d]]] \in Maps(Conds, W)
    BY DEF Maps, Outcomes, Trilean
  <2> QED
    BY <2>1
<1>5. Step \in [Maps(Conds, W) -> Maps(Conds, W)]
  BY <1>1
<1> DEFINE body(g) == [c \in Conds |-> [d \in Trackers |-> Asked(g, s, t, c, d)]]
           u == CHOOSE g : g = body(g)
<1>6. \A f \in Maps(Conds, W) : Step[f] = body(f)
  OBVIOUS
<1>a. \A f : \A c \in Conds : body(f)[c] = [d \in Trackers |-> Asked(f, s, t, c, d)]
  OBVIOUS
<1>b. Evaluator(s, t) = u
  BY DEF Evaluator, Asked, Dwelt
<1>c. \A f : body(f) = [c \in Conds |-> body(f)[c]]
  BY <1>a
<1> HIDE DEF Step, body
<1>7. Descends(Conds, Depth, Maps(Conds, W), Step)
  BY <1>3, <1>4, <1>5, ConditionAssumption DEF Descends
<1>8. \E f \in Maps(Conds, W) : f = Step[f]
  BY <1>7, PlainRecursion
<1>9. PICK f \in Maps(Conds, W) : f = body(f)
  BY <1>6, <1>8
<1>10. u = body(u)
  BY <1>9
<1> HIDE DEF u
<1>11. \A c \in Conds : u[c] = f[c]
  <2> DEFINE S == {k \in Nat : \A c \in Conds : Depth[c] = k => u[c] = f[c]}
  <2>1. ASSUME NEW k \in Nat, \A j \in Nat : j < k => j \in S PROVE k \in S
    <3> SUFFICES ASSUME NEW c \in Conds, Depth[c] = k PROVE u[c] = f[c]
      OBVIOUS
    <3>1. \A b \in Conds : Depth[b] < Depth[c] => u[b] = f[b]
      BY <2>1, CondFacts
    <3>2. body(u)[c] = body(f)[c]
      <4>1. body(u)[c] = [d \in Trackers |-> Asked(u, s, t, c, d)]
        BY <1>a
      <4>2. body(f)[c] = [d \in Trackers |-> Asked(f, s, t, c, d)]
        BY <1>a
      <4>3. [d \in Trackers |-> Asked(u, s, t, c, d)] = [d \in Trackers |-> Asked(f, s, t, c, d)]
        BY ONLY <1>2, <3>1, c \in Conds
      <4> QED
        BY <4>1, <4>2, <4>3
    <3> QED
      BY <1>9, <1>10, <3>2
  <2> HIDE DEF S
  <2>2. Nat \subseteq S
    BY <2>1, Induction
  <2> QED
    BY <2>2, CondFacts DEF S
<1>12. u = f
  BY <1>9, <1>10, <1>11, <1>c
<1>13. E = f
  BY <1>b, <1>12
<1>14. \A c \in Conds : \A d \in Trackers : f[c][d] = Asked(f, s, t, c, d)
  <2> SUFFICES ASSUME NEW c \in Conds, NEW d \in Trackers PROVE f[c][d] = Asked(f, s, t, c, d)
    OBVIOUS
  <2>1. body(f)[c] = [e \in Trackers |-> Asked(f, s, t, c, e)]
    BY <1>a
  <2>2. f[c] = body(f)[c]
    BY <1>9
  <2> QED
    BY <2>1, <2>2
<1> QED
  BY <1>0, <1>13, <1>14

------------------------------------------------------------------------------
(* Evaluate and Explain agree *)

\* No tracker counts from a time to come.
Past(d, t) == d \in Trackers /\ \A c \in Timed : d[c].since = Never \/ d[c].since <= t

\* The tracker of c after c, without its `for`, answered a at t.
Advanced(c, a, d, t) ==
    IF a # "true" THEN FreshTracker
    ELSE [Running(d[c], t) EXCEPT !.satisfied = Elapsed(Running(d[c], t), t) >= For(c)]

\* What d can become by evaluating conditions at t, where each answers as in j.
Ahead(d, j, s, t) ==
    {e \in Trackers : \A c \in Timed : e[c] \in {d[c], Advanced(c, AtOnce(j, s, t, c), d, t)}}

\* A tracker advanced twice at one instant is as advanced once.
LEMMA AdvanceOnce ==
    ASSUME NEW d, NEW t \in Nat, Past(d, t), NEW j, NEW s, NEW e \in Ahead(d, j, s, t), NEW c \in Timed
    PROVE  Advanced(c, AtOnce(j, s, t, c), e, t) = Advanced(c, AtOnce(j, s, t, c), d, t)
<1> DEFINE a == AtOnce(j, s, t, c)
           T == [since : Nat \cup {Never}, credited : Nat, satisfied : BOOLEAN]
<1>0. d[c] \in T /\ e[c] \in {d[c], Advanced(c, a, d, t)} /\ For(c) \in Int
  BY CondFacts DEF Past, Trackers, Ahead, Timed
<1> SUFFICES Advanced(c, a, e, t) = Advanced(c, a, d, t)
  OBVIOUS
<1> HIDE DEF a
<1>1. CASE a # "true" \/ e[c] = d[c]
  <2>1. CASE a # "true"
    BY <2>1 DEF Advanced
  <2>2. CASE e[c] = d[c]
    BY <2>2 DEF Advanced
  <2> QED
    BY <1>1, <2>1, <2>2
<1>2. CASE a = "true" /\ e[c] = Advanced(c, a, d, t)
  <2> DEFINE r == Running(d[c], t)
             sat == Elapsed(r, t) >= For(c)
  <2>1. r \in T /\ r.since \in Nat /\ r.since # Never
    BY <1>0 DEF Running, Never
  <2>2. e[c] = [r EXCEPT !.satisfied = sat]
    BY <1>2 DEF Advanced
  <2>3. sat \in BOOLEAN
    OBVIOUS
  <2>4. Advanced(c, a, d, t) = [r EXCEPT !.satisfied = sat]
    BY <1>2 DEF Advanced
  <2>5. Elapsed(e[c], t) = Elapsed(r, t)
    BY <2>1, <2>2 DEF Elapsed
  <2> HIDE DEF r, sat
  <2>6. Running(e[c], t) = e[c]
    BY <2>1, <2>2, <2>3 DEF Running
  <2>7. Advanced(c, a, e, t) = [e[c] EXCEPT !.satisfied = sat]
    BY <1>2, <2>5, <2>6 DEF Advanced, sat
  <2> QED
    BY <2>1, <2>2, <2>3, <2>4, <2>7
<1> QED
  BY <1>0, <1>1, <1>2

\* AndAll and OrAll of one more answer.
LEMMA OneMore ==
    ASSUME NEW S \in SUBSET Trilean, NEW x \in Trilean
    PROVE  /\ AndAll(S \cup {x}) = And(AndAll(S), x) /\ (AndAll(S) = "false" => AndAll(S \cup {x}) = "false")
           /\ OrAll(S \cup {x}) = Or(OrAll(S), x) /\ (OrAll(S) = "true" => OrAll(S \cup {x}) = "true")
BY DEF AndAll, OrAll, And, Or, Trilean

\* What EvaluateInner answers once the members answer as Judge says.
LEMMA InnerIsAtOnce ==
    ASSUME NEW s, NEW t \in Nat, NEW A \in SUBSET Trackers, NEW j \in [Conds -> Trilean], NEW c \in Conds,
           NEW E \in Evaluators,
           \A i \in 1..Len(Members(c)) : \A e \in A :
               E[Members(c)[i]][e].val = j[Members(c)[i]] /\ E[Members(c)[i]][e].dwell \in A,
           NEW d \in A
    PROVE  /\ EvaluateInner(c, E, s, d, t).val = AtOnce(j, s, t, c)
           /\ EvaluateInner(c, E, s, d, t).dwell \in A
<1> DEFINE n == Len(Members(c))
           M == Members(c)
<1>0. n \in Nat /\ DOMAIN M = 1..n /\ \A i \in 1..n : M[i] \in Conds
  BY CondFacts
<1>1. ASSUME TypeOf(c) \in {"and", "or"}
      PROVE  /\ EvaluateList(c, E, d).val = AtOnce(j, s, t, c)
             /\ EvaluateList(c, E, d).dwell \in A
  <2> DEFINE All(S) == IF TypeOf(c) = "and" THEN AndAll(S) ELSE OrAll(S)
             Seen(i) == {j[M[k]] : k \in 1..i}
  <2>1. PICK u : Listed(u, c, E, d) /\ EvaluateList(c, E, d) = u[n]
    BY ListUnfold
  <2> DEFINE Good(i) == u[i].val = All(Seen(i)) /\ u[i].dwell \in A
             S == {i \in Nat : i <= n => Good(i)}
  <2>2. ASSUME NEW i \in Nat, \A k \in Nat : k < i => k \in S PROVE i \in S
    <3>1. CASE i = 0
      <4>1. Seen(0) = {}
        OBVIOUS
      <4>2. AndAll({}) = "true" /\ OrAll({}) = "false"
        BY DEF AndAll, OrAll
      <4>3. u[0].val = BoolToTrilean(TypeOf(c) = "and") /\ u[0].dwell = d
        BY <2>1 DEF Listed, Before
      <4>4. u[0].val = All(Seen(0))
        BY <4>1, <4>2, <4>3 DEF BoolToTrilean
      <4> QED
        BY <3>1, <4>3, <4>4
    <3>2. CASE i # 0
      <4> SUFFICES ASSUME i <= n PROVE u[i].val = All(Seen(i)) /\ u[i].dwell \in A
        OBVIOUS
      <4>1. i \in 1..n /\ i - 1 \in Nat /\ i - 1 < i /\ i - 1 <= n
        BY <1>0, <3>2
      <4>2. u[i - 1].val = All(Seen(i - 1)) /\ u[i - 1].dwell \in A
        BY <2>2, <4>1
      <4> DEFINE child == E[M[i]][u[i - 1].dwell]
                 P == Seen(i - 1)
                 x == j[M[i]]
      <4>3. child.val = x /\ child.dwell \in A
        BY <4>1, <4>2
      <4>4. u[i] = Round(c, E, i, u[i - 1])
        BY <2>1, <4>1 DEF Listed
      <4>5. Seen(i) = P \cup {x}
        <5>1. 1..i = (1..(i - 1)) \cup {i}
          BY <4>1
        <5> QED
          BY <5>1
      <4>6. P \in SUBSET Trilean /\ x \in Trilean
        BY <1>0, <4>1
      <4>7. u[i - 1] \in Outcomes
        BY <2>1, <4>1, <1>0 DEF Listed
      <4> HIDE DEF child, P, x
      <4>8. u[i] = IF u[i - 1].val = BoolToTrilean(~(TypeOf(c) = "and")) THEN u[i - 1]
                   ELSE [val |-> IF TypeOf(c) = "and" THEN And(u[i - 1].val, child.val) ELSE Or(u[i - 1].val, child.val),
                         dwell |-> child.dwell]
        BY <4>4 DEF Round, child
      <4>9. AndAll(P \cup {x}) = And(AndAll(P), x) /\ (AndAll(P) = "false" => AndAll(P \cup {x}) = "false")
        BY <4>6, OneMore
      <4>10. OrAll(P \cup {x}) = Or(OrAll(P), x) /\ (OrAll(P) = "true" => OrAll(P \cup {x}) = "true")
        BY <4>6, OneMore
      <4>11. CASE TypeOf(c) = "and"
        <5>1. u[i - 1].val = AndAll(P) /\ BoolToTrilean(~(TypeOf(c) = "and")) = "false"
          BY <4>2, <4>11 DEF P, BoolToTrilean
        <5>2. u[i].val = AndAll(P \cup {x}) /\ u[i].dwell \in A
          BY <4>2, <4>3, <4>8, <4>9, <4>11, <5>1
        <5> QED
          BY <4>5, <4>11, <5>2
      <4>12. CASE TypeOf(c) # "and"
        <5>1. u[i - 1].val = OrAll(P) /\ BoolToTrilean(~(TypeOf(c) = "and")) = "true"
          BY <4>2, <4>12 DEF P, BoolToTrilean
        <5>2. u[i].val = OrAll(P \cup {x}) /\ u[i].dwell \in A
          BY <4>2, <4>3, <4>8, <4>10, <4>12, <5>1
        <5> QED
          BY <4>5, <4>12, <5>2
      <4> QED
        BY <4>11, <4>12
    <3> QED
      BY <3>1, <3>2
  <2> HIDE DEF S, Good
  <2>3. Nat \subseteq S
    BY <2>2, Induction
  <2>4. Good(n)
    BY <1>0, <2>3 DEF S
  <2>5. AtOnce(j, s, t, c) = All(Seen(n))
    BY <1>0, <1>1 DEF AtOnce
  <2> QED
    BY <2>1, <2>4, <2>5 DEF Good
<1>2. CASE TypeOf(c) \in {"and", "or"}
  BY <1>1, <1>2 DEF EvaluateInner
<1>3. CASE TypeOf(c) = "not"
  <2>1. CASE M = <<>>
    BY <1>3, <2>1 DEF EvaluateInner, AtOnce
  <2>2. CASE M # <<>>
    <3>1. 1 \in 1..n
      BY <2>2, CondFacts
    <3>2. E[M[1]][d].val = j[M[1]] /\ E[M[1]][d].dwell \in A
      BY <3>1
    <3>3. EvaluateInner(c, E, s, d, t) = [val |-> Not(E[M[1]][d].val), dwell |-> E[M[1]][d].dwell]
      BY <1>3, <2>2 DEF EvaluateInner
    <3>4. AtOnce(j, s, t, c) = Not(j[M[1]])
      BY <1>3, <2>2 DEF AtOnce
    <3> QED
      BY <3>2, <3>3, <3>4
  <2> QED
    BY <2>1, <2>2
<1>4. CASE TypeOf(c) \notin {"and", "or", "not"}
  <2>1. EvaluateInner(c, E, s, d, t) = [val |-> EvaluateLeaf(Cond[c], s, t), dwell |-> d]
    BY <1>4 DEF EvaluateInner
  <2>2. AtOnce(j, s, t, c) = EvaluateLeaf(Cond[c], s, t)
    BY <1>4 DEF AtOnce
  <2> QED
    BY <2>1, <2>2
<1> QED
  BY <1>2, <1>3, <1>4

\* Evaluating a condition, with trackers that other evaluations of this instant
\* may already have advanced, answers as Judge does on the trackers before, and
\* leaves trackers of the same kind.
LEMMA EvaluateIsJudge ==
    ASSUME NEW s, NEW t \in Nat, NEW d, Past(d, t)
    PROVE  LET j == Judge(s, ExplainDwell(d, t), t) IN
           \A c \in Conds : \A e \in Ahead(d, j, s, t) :
               /\ Evaluator(s, t)[c][e].val = j[c]
               /\ Evaluator(s, t)[c][e].dwell \in Ahead(d, j, s, t)
<1> DEFINE ripe == ExplainDwell(d, t)
           j == Judge(s, ripe, t)
           E == Evaluator(s, t)
           A == Ahead(d, j, s, t)
           Good(c) == \A e \in A : E[c][e].val = j[c] /\ E[c][e].dwell \in A
           S == {k \in Nat : \A c \in Conds : Depth[c] = k => Good(c)}
<1>1. j \in [Conds -> Trilean] /\ \A c \in Conds : j[c] = Verdict(j, s, ripe, t, c)
  BY JudgeUnfold
<1>2. E \in Evaluators /\ \A c \in Conds : \A e \in Trackers : E[c][e] = Asked(E, s, t, c, e)
  BY EvaluatorUnfold
<1>3. A \in SUBSET Trackers /\ \A e \in A : \A c \in Timed : e[c] \in {d[c], Advanced(c, AtOnce(j, s, t, c), d, t)}
  BY DEF Ahead
<1>4. \A c \in Timed : c \in ripe <=> Elapsed(d[c], t) >= For(c)
  BY DEF ExplainDwell
<1>5. ASSUME NEW c \in Timed, NEW e \in A PROVE Advanced(c, AtOnce(j, s, t, c), e, t) = Advanced(c, AtOnce(j, s, t, c), d, t)
  BY AdvanceOnce
<1>6. ASSUME NEW e \in Trackers, \A c \in Timed : e[c] \in {d[c], Advanced(c, AtOnce(j, s, t, c), d, t)} PROVE e \in A
  BY <1>6 DEF Ahead
<1> HIDE DEF ripe, j, E, A
<1>7. ASSUME NEW k \in Nat, \A m \in Nat : m < k => m \in S PROVE k \in S
  <2> SUFFICES ASSUME NEW c \in Conds, Depth[c] = k, NEW e \in A
               PROVE  E[c][e].val = j[c] /\ E[c][e].dwell \in A
    OBVIOUS
  <2> DEFINE inner == EvaluateInner(c, E, s, e, t)
             a == AtOnce(j, s, t, c)
  <2>1. \A i \in 1..Len(Members(c)) : Good(Members(c)[i])
    BY <1>7, CondFacts
  <2>2. inner.val = a /\ inner.dwell \in A
    BY <1>1, <1>2, <1>3, <2>1, InnerIsAtOnce
  <2>3. E[c][e] = IF For(c) = 0 THEN inner ELSE ApplyDwell(c, inner.val, inner.dwell, t)
    BY <1>2, <1>3 DEF Asked
  <2>4. j[c] = IF a # "true" \/ For(c) <= 0 THEN a ELSE BoolToTrilean(c \in ripe)
    BY <1>1 DEF Verdict
  <2>a. Advanced(c, a, inner.dwell, t) = Advanced(c, a, d, t) \/ For(c) = 0
    BY <1>5, <2>2 DEF Timed
  <2>b. inner.dwell \in Trackers
    BY <1>3, <2>2
  <2> HIDE DEF inner
  <2>5. CASE For(c) = 0
    BY <2>2, <2>3, <2>4, <2>5
  <2>6. CASE For(c) # 0
    <3> DEFINE new == Advanced(c, a, inner.dwell, t)
    <3>0. c \in Timed /\ For(c) \in Int
      BY <2>6, CondFacts DEF Timed
    <3>1. E[c][e] = [val |-> IF a # "true" THEN a ELSE BoolToTrilean(new.satisfied),
                     dwell |-> [inner.dwell EXCEPT ![c] = new]]
      BY <2>2, <2>3, <2>6 DEF ApplyDwell, Advanced
    <3>2. new = Advanced(c, a, d, t)
      BY <2>6, <2>a
    <3>3. [inner.dwell EXCEPT ![c] = new] \in A
      <4> DEFINE g == [inner.dwell EXCEPT ![c] = new]
      <4>1. inner.val \in Trilean
        BY <1>2, <1>3, InnerType DEF Outcomes, inner
      <4>2. ApplyDwell(c, inner.val, inner.dwell, t) \in Outcomes
        BY <2>b, <3>0, <4>1, DwellType
      <4>3. g \in Trackers
        BY <2>3, <2>6, <3>1, <4>2 DEF Outcomes
      <4>4. \A b \in Timed : g[b] = IF b = c THEN new ELSE inner.dwell[b]
        BY <2>b DEF Trackers
      <4>5. \A b \in Timed : g[b] \in {d[b], Advanced(b, AtOnce(j, s, t, b), d, t)}
        BY <1>3, <2>2, <3>2, <4>4
      <4> HIDE DEF g
      <4>6. g \in A
        BY <1>6, <4>3, <4>5
      <4> QED
        BY <4>6 DEF g
    <3>4. CASE a # "true"
      BY <2>4, <3>1, <3>3, <3>4
    <3>5. CASE a = "true"
      <4> DEFINE r == Running(d[c], t)
                 T == [since : Nat \cup {Never}, credited : Nat, satisfied : BOOLEAN]
      <4>1. d[c] \in T /\ (d[c].since = Never \/ d[c].since <= t)
        BY <3>0 DEF Past, Trackers
      <4>2. Elapsed(r, t) = Elapsed(d[c], t) /\ Elapsed(r, t) >= 0 /\ Elapsed(r, t) \in Int /\ r \in T
        BY <4>1 DEF Running, Elapsed, Never
      <4>3. new = [r EXCEPT !.satisfied = Elapsed(r, t) >= For(c)]
        BY <3>2, <3>5 DEF Advanced
      <4> HIDE DEF r, new
      <4>4. new.satisfied = (Elapsed(r, t) >= For(c))
        BY <4>2, <4>3
      <4>5. BoolToTrilean(new.satisfied) = j[c]
        <5>1. CASE For(c) <= 0
          <6>1. Elapsed(r, t) >= For(c)
            BY <3>0, <4>2, <5>1
          <6> QED
            BY <2>4, <3>5, <4>4, <5>1, <6>1 DEF BoolToTrilean
        <5>2. CASE ~(For(c) <= 0)
          <6>1. c \in ripe <=> Elapsed(r, t) >= For(c)
            BY <1>4, <3>0, <4>2
          <6>2. new.satisfied <=> c \in ripe
            BY <4>4, <6>1
          <6> QED
            BY <2>4, <3>5, <5>2, <6>2 DEF BoolToTrilean
        <5> QED
          BY <5>1, <5>2
      <4> QED
        BY <3>1, <3>3, <3>5, <4>5
    <3> QED
      BY <3>4, <3>5
  <2> QED
    BY <2>5, <2>6
<1> HIDE DEF S, Good
<1>8. Nat \subseteq S
  BY <1>7, Induction
<1>9. \A c \in Conds : Good(c)
  BY <1>8, CondFacts DEF S
<1> QED
  BY <1>9 DEF Good, ripe, j, E, A

\* The trackers of before are among those.
LEMMA AheadSelf ==
    ASSUME NEW s, NEW t, NEW d, NEW j, Past(d, t)
    PROVE  d \in Ahead(d, j, s, t)
BY DEF Ahead, Past

\* Explain tells what Evaluate would answer.
LEMMA AnswerIsExplain ==
    ASSUME NEW s, NEW t \in Nat, NEW d, Past(d, t), NEW c \in Conds
    PROVE  Answer(c, s, d, t) = Explain(c, s, d, t)
BY EvaluateIsJudge, AheadSelf DEF Answer, Evaluate, Explain

------------------------------------------------------------------------------
(* Config files *)

\* What the proofs need to know of a config.
Wellformed(file) ==
    /\ file.clients \in Seq(Range(file.clients))
    /\ \A k \in DOMAIN file.clients :
          /\ file.clients[k].name \in STRING
          /\ file.clients[k].dependsOn \in Seq(STRING)
    /\ file.plan.stages \in Seq(Range(file.plan.stages))
    /\ \A i \in DOMAIN file.plan.stages :
          /\ file.plan.stages[i].when \in Conds
          /\ file.plan.stages[i].clients \in Seq(ClientRef)
    /\ file.plan.trigger \in Conds /\ file.plan.gate \in Conds /\ file.plan.abort \subseteq Conds
    /\ \A a, b \in file.plan.abort : a = b

LEMMA FileWellformed ==
    ASSUME NEW file \in Configs
    PROVE  Wellformed(file)
<1>1. file \in ConfigType /\ \A a, b \in file.plan.abort : a = b
  BY ConfigAssumption
<1>2. file.clients \in Seq(ClientType) /\ file.plan \in PlanType
  BY <1>1 DEF ConfigType
<1>3. /\ file.plan.stages \in Seq(StageType)
      /\ file.plan.trigger \in Conds /\ file.plan.gate \in Conds /\ file.plan.abort \subseteq Conds
  BY <1>2 DEF PlanType
<1>4. \A q : q \in ClientType => q.name \in STRING /\ q.dependsOn \in Seq(STRING)
  BY DEF ClientType
<1>5. \A q : q \in StageType => q.when \in Conds /\ q.clients \in Seq(ClientRef)
  BY DEF StageType
<1>6. \A T, q : q \in Seq(T) => q \in Seq(Range(q)) /\ \A i \in DOMAIN q : q[i] \in T
  BY SeqDef, ElementOfSeq, LenProperties DEF Range
<1> QED
  BY <1>1, <1>2, <1>3, <1>4, <1>5, <1>6 DEF Wellformed

\* The defaults leave names, conditions and references as they are.
LEMMA DefaultsKeep ==
    ASSUME NEW file \in Configs
    PROVE  LET c == ApplyDefaults(file) IN
           /\ DOMAIN c.clients = DOMAIN file.clients
           /\ \A k \in DOMAIN file.clients :
                 /\ c.clients[k].name = file.clients[k].name
                 /\ c.clients[k].dependsOn = file.clients[k].dependsOn
           /\ DOMAIN c.plan.stages = DOMAIN file.plan.stages
           /\ \A i \in DOMAIN file.plan.stages :
                 /\ c.plan.stages[i].when = file.plan.stages[i].when
                 /\ c.plan.stages[i].clients = file.plan.stages[i].clients
           /\ c.plan.trigger = file.plan.trigger /\ c.plan.gate = file.plan.gate
           /\ c.plan.abort = file.plan.abort
<1>1. file \in ConfigType
  BY ConfigAssumption
<1>2. file.clients \in Seq(ClientType) /\ file.plan \in PlanType
  BY <1>1 DEF ConfigType
<1>3. file.plan.stages \in Seq(StageType)
  BY <1>2 DEF PlanType
<1> DEFINE or(v, default) == IF v = "" THEN default ELSE v
           client(q) == [q EXCEPT !.feedPolicy = or(@, "any"), !.wakePolicy = or(@, "power_state")]
           stage(q) == [q EXCEPT !.waitPolicy = or(@, "skip")]
           cl == [k \in DOMAIN file.clients |-> client(file.clients[k])]
           st == [i \in DOMAIN file.plan.stages |-> stage(file.plan.stages[i])]
           plan == [file.plan EXCEPT !.retries = IF @ = 0 THEN 3 ELSE @, !.stages = st]
           c == ApplyDefaults(file)
<1>4. c = [file EXCEPT !.mode = or(@, "disarmed"), !.clients = cl, !.plan = plan]
  BY DEF ApplyDefaults
<1>5. \A q \in ClientType : client(q).name = q.name /\ client(q).dependsOn = q.dependsOn
  BY DEF ClientType
<1>6. \A q \in StageType : stage(q).when = q.when /\ stage(q).clients = q.clients
  BY DEF StageType
<1>7. \A k \in DOMAIN file.clients : file.clients[k] \in ClientType
  BY <1>2
<1>8. \A i \in DOMAIN file.plan.stages : file.plan.stages[i] \in StageType
  BY <1>3
<1> HIDE DEF client, stage, c
<1>9. /\ DOMAIN cl = DOMAIN file.clients
      /\ \A k \in DOMAIN file.clients : cl[k].name = file.clients[k].name /\ cl[k].dependsOn = file.clients[k].dependsOn
  BY <1>5, <1>7
<1>10. /\ DOMAIN st = DOMAIN file.plan.stages
       /\ \A i \in DOMAIN file.plan.stages : st[i].when = file.plan.stages[i].when /\ st[i].clients = file.plan.stages[i].clients
  BY <1>6, <1>8
<1> HIDE DEF cl, st
<1>11. plan.stages = st /\ plan.trigger = file.plan.trigger /\ plan.gate = file.plan.gate /\ plan.abort = file.plan.abort
  BY <1>2 DEF PlanType
<1> HIDE DEF plan
<1>12. c.clients = cl /\ c.plan = plan
  BY <1>1, <1>4 DEF ConfigType
<1>13. /\ DOMAIN c.clients = DOMAIN file.clients
       /\ \A k \in DOMAIN file.clients :
            c.clients[k].name = file.clients[k].name /\ c.clients[k].dependsOn = file.clients[k].dependsOn
       /\ DOMAIN c.plan.stages = DOMAIN file.plan.stages
       /\ \A i \in DOMAIN file.plan.stages :
            c.plan.stages[i].when = file.plan.stages[i].when /\ c.plan.stages[i].clients = file.plan.stages[i].clients
       /\ c.plan.trigger = file.plan.trigger /\ c.plan.gate = file.plan.gate /\ c.plan.abort = file.plan.abort
  BY <1>9, <1>10, <1>11, <1>12
<1> QED
  BY <1>13 DEF c

LEMMA DefaultsWellformed ==
    ASSUME NEW file \in Configs
    PROVE  Wellformed(ApplyDefaults(file))
<1> DEFINE c == ApplyDefaults(file)
<1>1. Wellformed(file)
  BY FileWellformed
<1>2. /\ DOMAIN c.clients = DOMAIN file.clients
      /\ \A k \in DOMAIN file.clients :
            c.clients[k].name = file.clients[k].name /\ c.clients[k].dependsOn = file.clients[k].dependsOn
      /\ DOMAIN c.plan.stages = DOMAIN file.plan.stages
      /\ \A i \in DOMAIN file.plan.stages :
            c.plan.stages[i].when = file.plan.stages[i].when /\ c.plan.stages[i].clients = file.plan.stages[i].clients
      /\ c.plan.trigger = file.plan.trigger /\ c.plan.gate = file.plan.gate /\ c.plan.abort = file.plan.abort
  BY DefaultsKeep
<1>3. \A n \in Nat : \A f : DOMAIN f = 1..n /\ f = [i \in 1..n |-> f[i]] => f \in Seq(Range(f))
  BY SeqDef DEF Range
<1>4. c.clients = [k \in DOMAIN c.clients |-> c.clients[k]] /\ c.plan.stages = [k \in DOMAIN c.plan.stages |-> c.plan.stages[k]]
  <2>1. file \in ConfigType /\ file.plan \in PlanType
    BY ConfigAssumption DEF ConfigType
  <2> QED
    BY <2>1 DEF ApplyDefaults, ConfigType, PlanType
<1>5. DOMAIN file.clients = 1..Len(file.clients) /\ Len(file.clients) \in Nat
  BY <1>1 DEF Wellformed
<1>6. DOMAIN file.plan.stages = 1..Len(file.plan.stages) /\ Len(file.plan.stages) \in Nat
  BY <1>1 DEF Wellformed
<1> HIDE DEF c
<1>7. c.clients \in Seq(Range(c.clients)) /\ c.plan.stages \in Seq(Range(c.plan.stages))
  BY <1>2, <1>3, <1>4, <1>5, <1>6
<1>8. Wellformed(c)
  BY <1>1, <1>2, <1>7 DEF Wellformed
<1> QED
  BY <1>8 DEF c

------------------------------------------------------------------------------
(* The clients of a stage *)

\* What holds at the start of a loop and through each round holds throughout.
LEMMA LoopKeeps ==
    ASSUME NEW n \in Nat, NEW u, NEW W, u[0] \in W, \A i \in 1..n : u[i - 1] \in W => u[i] \in W
    PROVE  \A i \in 0..n : u[i] \in W
<1> DEFINE S == {i \in Nat : i <= n => u[i] \in W}
<1>1. ASSUME NEW i \in Nat, \A k \in Nat : k < i => k \in S PROVE i \in S
  <2>1. CASE i = 0
    BY <2>1
  <2>2. CASE i # 0
    <3>1. i - 1 \in Nat /\ i - 1 < i /\ (i <= n => i \in 1..n /\ i - 1 <= n)
      BY <2>2
    <3> QED
      BY <1>1, <3>1
  <2> QED
    BY <2>1, <2>2
<1> HIDE DEF S
<1>2. Nat \subseteq S
  BY <1>1, Induction
<1> QED
  BY <1>2 DEF S

LEMMA TagClientsNamed ==
    ASSUME NEW c, Wellformed(c), NEW tag
    PROVE  TagClients(c, tag) \in Seq(ClientNames(c))
<1> DEFINE n == Len(c.clients)
           W == Seq(ClientNames(c))
           round(i, q) == IF tag \in c.clients[i].tags THEN Append(q, c.clients[i].name) ELSE q
           F == [i \in 1..n |-> [q \in W |-> round(i, q)]]
           body(g) == [i \in 0..n |-> IF i = 0 THEN <<>> ELSE round(i, g[i - 1])]
           u == CHOOSE g : g = body(g)
<1>0. n \in Nat /\ DOMAIN c.clients = 1..n
  BY DEF Wellformed
<1>1. <<>> \in W
  OBVIOUS
<1>2. ASSUME NEW i \in 1..n, NEW q \in W PROVE round(i, q) \in W
  <2>1. c.clients[i].name \in ClientNames(c)
    BY <1>0 DEF ClientNames
  <2> QED
    BY <2>1
<1>a. TagClients(c, tag) = u[n]
  BY DEF TagClients
<1> HIDE DEF W, round, n
<1>3. F \in Maps(1..n, Maps(W, W)) /\ \A i \in 1..n : \A q \in W : F[i][q] = round(i, q)
  BY <1>2 DEF Maps
<1> HIDE DEF F
<1>4. PICK f \in Maps(0..n, W) : f = [i \in 0..n |-> IF i = 0 THEN <<>> ELSE F[i][f[i - 1]]]
  BY <1>0, <1>1, <1>3, Loop
<1>5. \A i \in 0..n : i # 0 => i \in 1..n /\ i - 1 \in 0..n
  BY <1>0
<1>6. \A i \in 0..n : f[i] = IF i = 0 THEN <<>> ELSE round(i, f[i - 1])
  BY <1>3, <1>4, <1>5 DEF Maps
<1>7. f = body(f)
  BY <1>4, <1>6 DEF Maps
<1>8. u = body(u)
  BY <1>7
<1> HIDE DEF u
<1>9. u[0] \in W /\ \A i \in 1..n : u[i - 1] \in W => u[i] \in W
  BY <1>0, <1>1, <1>2, <1>8
<1>10. \A i \in 0..n : u[i] \in W
  BY <1>0, <1>9, LoopKeeps
<1> QED
  BY <1>0, <1>a, <1>10 DEF W

\* A reference names something in N, or a tag.
Names(refs, N) == \A i \in DOMAIN refs : refs[i].tag \/ refs[i].name \in N

LEMMA ExpandedNamed ==
    ASSUME NEW c, Wellformed(c), NEW refs \in Seq(ClientRef), NEW N, ClientNames(c) \subseteq N, Names(refs, N)
    PROVE  Expanded(refs, c) \in Seq(N)
<1> DEFINE n == Len(refs)
           W == Seq(N)
           round(i, q) == q \o Expand(refs[i], c)
           F == [i \in 1..n |-> [q \in W |-> round(i, q)]]
           body(g) == [i \in 0..n |-> IF i = 0 THEN <<>> ELSE round(i, g[i - 1])]
           u == CHOOSE g : g = body(g)
<1>0. n \in Nat /\ DOMAIN refs = 1..n
  OBVIOUS
<1>1. <<>> \in W
  OBVIOUS
<1>2. ASSUME NEW i \in 1..n, NEW q \in W PROVE round(i, q) \in W
  <2>1. TagClients(c, refs[i].name) \in Seq(N)
    <3>1. TagClients(c, refs[i].name) \in Seq(ClientNames(c))
      BY TagClientsNamed
    <3> QED
      BY <3>1
  <2>2. ~refs[i].tag => <<refs[i].name>> \in Seq(N)
    BY <1>0 DEF Names
  <2>3. Expand(refs[i], c) \in Seq(N)
    BY <2>1, <2>2 DEF Expand
  <2> QED
    BY <2>3
<1>a. Expanded(refs, c) = u[n]
  BY DEF Expanded
<1> HIDE DEF W, round, n
<1>3. F \in Maps(1..n, Maps(W, W)) /\ \A i \in 1..n : \A q \in W : F[i][q] = round(i, q)
  BY <1>2 DEF Maps
<1> HIDE DEF F
<1>4. PICK f \in Maps(0..n, W) : f = [i \in 0..n |-> IF i = 0 THEN <<>> ELSE F[i][f[i - 1]]]
  BY <1>0, <1>1, <1>3, Loop
<1>5. \A i \in 0..n : i # 0 => i \in 1..n /\ i - 1 \in 0..n
  BY <1>0
<1>6. \A i \in 0..n : f[i] = IF i = 0 THEN <<>> ELSE round(i, f[i - 1])
  BY <1>3, <1>4, <1>5 DEF Maps
<1>7. f = body(f)
  BY <1>4, <1>6 DEF Maps
<1>8. u = body(u)
  BY <1>7
<1> HIDE DEF u
<1>9. u[0] \in W /\ \A i \in 1..n : u[i - 1] \in W => u[i] \in W
  BY <1>0, <1>1, <1>2, <1>8
<1>10. \A i \in 0..n : u[i] \in W
  BY <1>0, <1>9, LoopKeeps
<1> QED
  BY <1>0, <1>a, <1>10 DEF W

Distinct(q) == \A i, k \in DOMAIN q : q[i] = q[k] => i = k

\* The clients of a stage are listed once each, all of them from N.
LEMMA ResolvedOnce ==
    ASSUME NEW c, Wellformed(c), NEW refs \in Seq(ClientRef), NEW N, ClientNames(c) \subseteq N, Names(refs, N)
    PROVE  ResolveClientRefs(refs, c) \in Seq(N) /\ Distinct(ResolveClientRefs(refs, c))
<1> DEFINE all == Expanded(refs, c)
           n == Len(all)
           W == {q \in Seq(N) : Distinct(q)}
           round(i, q) == IF Contains(q, all[i]) THEN q ELSE Append(q, all[i])
           F == [i \in 1..n |-> [q \in W |-> round(i, q)]]
           body(g) == [i \in 0..n |-> IF i = 0 THEN <<>> ELSE round(i, g[i - 1])]
           u == CHOOSE g : g = body(g)
<1>a. ResolveClientRefs(refs, c) = u[n]
  BY DEF ResolveClientRefs
<1>b. all \in Seq(N)
  BY ExpandedNamed
<1> HIDE DEF all
<1>0. n \in Nat /\ \A i \in 1..n : all[i] \in N
  BY <1>b
<1>1. <<>> \in W
  BY DEF Distinct
<1>2. ASSUME NEW i \in 1..n, NEW q \in W PROVE round(i, q) \in W
  <2> SUFFICES ASSUME ~Contains(q, all[i]) PROVE Append(q, all[i]) \in W
    OBVIOUS
  <2>1. q \in Seq(N) /\ Distinct(q) /\ all[i] \in N
    BY <1>0
  <2>2. \A k \in 1..Len(q) : q[k] # all[i]
    BY DEF Contains
  <2> DEFINE r == Append(q, all[i])
  <2>3. /\ r \in Seq(N) /\ DOMAIN r = 1..(Len(q) + 1) /\ r[Len(q) + 1] = all[i]
        /\ \A k \in 1..Len(q) : r[k] = q[k]
    BY <2>1
  <2>4. DOMAIN q = 1..Len(q) /\ Len(q) \in Nat
    BY <2>1
  <2> HIDE DEF r
  <2>5. \A k \in DOMAIN r : k \in DOMAIN q \/ k = Len(q) + 1
    BY <2>3, <2>4
  <2>6. Distinct(r)
    BY <2>1, <2>2, <2>3, <2>4, <2>5 DEF Distinct
  <2> QED
    BY <2>3, <2>6 DEF r
<1> HIDE DEF W, round, n
<1>3. F \in Maps(1..n, Maps(W, W)) /\ \A i \in 1..n : \A q \in W : F[i][q] = round(i, q)
  BY <1>2 DEF Maps
<1> HIDE DEF F
<1>4. PICK f \in Maps(0..n, W) : f = [i \in 0..n |-> IF i = 0 THEN <<>> ELSE F[i][f[i - 1]]]
  BY <1>0, <1>1, <1>3, Loop
<1>5. \A i \in 0..n : i # 0 => i \in 1..n /\ i - 1 \in 0..n
  BY <1>0
<1>6. \A i \in 0..n : f[i] = IF i = 0 THEN <<>> ELSE round(i, f[i - 1])
  BY <1>3, <1>4, <1>5 DEF Maps
<1>7. f = body(f)
  BY <1>4, <1>6 DEF Maps
<1>8. u = body(u)
  BY <1>7
<1> HIDE DEF u
<1>9. u[0] \in W /\ \A i \in 1..n : u[i - 1] \in W => u[i] \in W
  BY <1>0, <1>1, <1>2, <1>8
<1>10. \A i \in 0..n : u[i] \in W
  BY <1>0, <1>9, LoopKeeps
<1> QED
  BY <1>0, <1>a, <1>10 DEF W

------------------------------------------------------------------------------
(* A turn of the simulator *)

RunType ==
    [triggered : BOOLEAN, aborted : BOOLEAN, ponr : BOOLEAN, stage : Nat, enteredAt : Nat,
     order : Seq(STRING), notShutDown : Seq(STRING), stages : Seq(Nat), skipped : Seq(Nat)]

\* With any trackers of A, conditions answer as in j at t and leave trackers of A.
Answers(A, s, t, j) ==
    \A c \in Conds : \A e \in A : Evaluate(c, s, e, t).val = j[c] /\ Evaluate(c, s, e, t).dwell \in A

LEMMA AnswersAhead ==
    ASSUME NEW s, NEW t \in Nat, NEW d, Past(d, t), NEW j, j = Judge(s, ExplainDwell(d, t), t)
    PROVE  Answers(Ahead(d, j, s, t), s, t, j) /\ d \in Ahead(d, j, s, t)
BY EvaluateIsJudge, AheadSelf DEF Answers, Evaluate

LEMMA AheadPast ==
    ASSUME NEW s, NEW t \in Nat, NEW d, Past(d, t), NEW j, NEW e \in Ahead(d, j, s, t)
    PROVE  Past(e, t)
<1>1. e \in Trackers
  BY DEF Ahead
<1>2. ASSUME NEW c \in Timed PROVE e[c].since = Never \/ e[c].since <= t
  <2> DEFINE a == AtOnce(j, s, t, c)
             T == [since : Nat \cup {Never}, credited : Nat, satisfied : BOOLEAN]
             r == Running(d[c], t)
  <2>1. e[c] \in {d[c], Advanced(c, a, d, t)} /\ d[c] \in T /\ (d[c].since = Never \/ d[c].since <= t)
    BY DEF Ahead, Past, Trackers
  <2> HIDE DEF a
  <2>2. r \in T /\ r.since <= t
    BY <2>1 DEF Running, Never
  <2> HIDE DEF r
  <2>3. Advanced(c, a, d, t).since = Never \/ Advanced(c, a, d, t).since <= t
    BY <2>2 DEF Advanced, FreshTracker, r
  <2> QED
    BY <2>1, <2>3
<1> QED
  BY <1>1, <1>2 DEF Past

\* Abort, asked while no point of no return is crossed.
LEMMA AbortStep ==
    ASSUME Wellformed(cfg), NEW r \in RunType, NEW s, NEW t, NEW A, NEW j, Answers(A, s, t, j), NEW d \in A
    PROVE  LET o == AskAbort(r, s, d, t) IN
           /\ o.dwell \in A
           /\ o.run \in RunType
           /\ o.run = [r EXCEPT !.aborted = o.run.aborted]
           /\ o.run.aborted <=> r.aborted \/ (~r.ponr /\ \E a \in Plan.abort : j[a] = "true")
<1> DEFINE o == AskAbort(r, s, d, t)
<1>1. CASE r.aborted \/ r.ponr \/ Plan.abort = {}
  <2>1. o = [run |-> r, dwell |-> d, asked |-> {}]
    BY <1>1 DEF AskAbort
  <2>2. r = [r EXCEPT !.aborted = r.aborted]
    BY DEF RunType
  <2> QED
    BY <1>1, <2>1, <2>2
<1>2. CASE ~(r.aborted \/ r.ponr \/ Plan.abort = {})
  <2> DEFINE a == CHOOSE c \in Plan.abort : TRUE
             e == Evaluate(a, s, d, t)
  <2>1. a \in Plan.abort
    BY <1>2
  <2>2. o = [run |-> [r EXCEPT !.aborted = (e.val = "true")], dwell |-> e.dwell, asked |-> {a}]
    BY <1>2 DEF AskAbort
  <2> HIDE DEF a
  <2>3. a \in Conds /\ \A b \in Plan.abort : b = a
    BY <2>1 DEF Wellformed, Plan
  <2>4. e.val = j[a] /\ e.dwell \in A
    BY <2>3 DEF Answers
  <2> HIDE DEF e
  <2> DEFINE b == (e.val = "true")
             q == [r EXCEPT !.aborted = b]
  <2>5. b \in BOOLEAN /\ (b <=> j[a] = "true")
    BY <2>4
  <2>a. o.run = q /\ o.dwell = e.dwell
    BY <2>2
  <2> HIDE DEF b, o
  <2>6. q \in RunType /\ q.aborted = b
    BY <2>5 DEF RunType
  <2>8. q = [r EXCEPT !.aborted = q.aborted]
    BY <2>6
  <2> HIDE DEF q
  <2>7. (\E x \in Plan.abort : j[x] = "true") <=> j[a] = "true"
    BY <2>1, <2>3
  <2> QED
    BY <1>2, <2>4, <2>5, <2>6, <2>7, <2>8, <2>a DEF o
<1> QED
  BY <1>1, <1>2

\* What a stage that starts, or is given up, makes of the run.
StageStarted(r, t) ==
    LET stage == Plan.stages[r.stage]
        next == [r EXCEPT !.stage = @ + 1, !.enteredAt = t]
    IN [next EXCEPT !.ponr = @ \/ stage.ponr, !.order = @ \o ResolveClientRefs(stage.clients, cfg),
                    !.stages = Append(@, r.stage)]
StageSkipped(r, t) ==
    LET stage == Plan.stages[r.stage]
        next == [r EXCEPT !.stage = @ + 1, !.enteredAt = t]
    IN [next EXCEPT !.notShutDown = @ \o ResolveClientRefs(stage.clients, cfg), !.skipped = Append(@, r.stage)]

LEMMA StageFacts ==
    ASSUME Wellformed(cfg), NEW g \in 1..Len(Plan.stages)
    PROVE  /\ Plan.stages[g].when \in Conds
           /\ ResolveClientRefs(Plan.stages[g].clients, cfg) \in Seq(STRING)
<1>1. Plan.stages[g].when \in Conds /\ Plan.stages[g].clients \in Seq(ClientRef)
  BY DEF Wellformed, Plan
<1>2. ClientNames(cfg) \subseteq STRING
  BY DEF Wellformed, ClientNames
<1>3. Names(Plan.stages[g].clients, STRING)
  <2>1. \A x \in ClientRef : x.name \in STRING
    BY DEF ClientRef
  <2>2. \A i \in DOMAIN Plan.stages[g].clients : Plan.stages[g].clients[i] \in ClientRef
    BY <1>1
  <2> QED
    BY <2>1, <2>2 DEF Names
<1> QED
  BY <1>1, <1>2, <1>3, ResolvedOnce

LEMMA StageStep ==
    ASSUME Wellformed(cfg), NEW r \in RunType, r.stage >= 1, NEW s, NEW t, NEW A, NEW j,
           Answers(A, s, t, j), NEW d \in A
    PROVE  LET o == AskStage(r, s, d, t) IN
           /\ o.dwell \in A
           /\ r.aborted \/ r.stage > Len(Plan.stages) => o.run = r
           /\ ~r.aborted /\ r.stage <= Len(Plan.stages) =>
                 o.run = IF j[Plan.stages[r.stage].when] = "true" THEN StageStarted(r, t)
                         ELSE IF StageTimedOut(Plan.stages[r.stage], t, r.enteredAt) THEN StageSkipped(r, t)
                         ELSE r
<1> DEFINE o == AskStage(r, s, d, t)
<1>0. Len(Plan.stages) \in Nat /\ r.stage \in Nat
  BY DEF Wellformed, Plan, RunType
<1>1. CASE r.aborted \/ r.stage > Len(Plan.stages)
  <2>1. o = [run |-> r, dwell |-> d, asked |-> {}]
    BY <1>1 DEF AskStage
  <2> QED
    BY <1>0, <1>1, <2>1
<1>2. CASE ~r.aborted /\ ~(r.stage > Len(Plan.stages))
  <2> DEFINE w == Plan.stages[r.stage].when
             e == Evaluate(w, s, d, t)
  <2>1. r.stage \in 1..Len(Plan.stages)
    BY <1>0, <1>2
  <2>2. w \in Conds
    BY <2>1, StageFacts
  <2>3. e.val = j[w] /\ e.dwell \in A
    BY <2>2 DEF Answers
  <2>4. o = [run |-> IF e.val = "true" THEN StageStarted(r, t)
                     ELSE IF StageTimedOut(Plan.stages[r.stage], t, r.enteredAt) THEN StageSkipped(r, t)
                     ELSE r,
             dwell |-> e.dwell, asked |-> {w}]
    BY <1>2 DEF AskStage, StageStarted, StageSkipped
  <2> HIDE DEF o, e, w
  <2>5. o.dwell \in A /\ o.run = IF j[w] = "true" THEN StageStarted(r, t)
                                 ELSE IF StageTimedOut(Plan.stages[r.stage], t, r.enteredAt) THEN StageSkipped(r, t)
                                 ELSE r
    BY <2>3, <2>4
  <2> QED
    BY <1>2, <2>5 DEF o, w
<1> QED
  BY <1>1, <1>2

LEMMA GateStep ==
    ASSUME Wellformed(cfg), NEW r, NEW s, NEW t, NEW A, NEW j, Answers(A, s, t, j), NEW d \in A
    PROVE  AskGate(r, s, d, t).dwell \in A
<1>1. Plan.gate \in Conds
  BY DEF Wellformed, Plan
<1>2. Evaluate(Plan.gate, s, d, t).dwell \in A
  BY <1>1 DEF Answers
<1> QED
  BY <1>2 DEF AskGate

\* The fields of a run after its stage has started or was given up.
LEMMA StageStartedFields ==
    ASSUME Wellformed(cfg), NEW r \in RunType, r.stage \in 1..Len(Plan.stages), NEW t \in Nat
    PROVE  LET q == StageStarted(r, t)
               clients == ResolveClientRefs(Plan.stages[r.stage].clients, cfg) IN
           /\ q \in RunType /\ q.stage = r.stage + 1 /\ q.aborted = r.aborted
           /\ q.order = r.order \o clients /\ q.notShutDown = r.notShutDown
           /\ q.stages = Append(r.stages, r.stage) /\ q.skipped = r.skipped
<1> DEFINE clients == ResolveClientRefs(Plan.stages[r.stage].clients, cfg)
           p == r.ponr \/ Plan.stages[r.stage].ponr
           sg == r.stage + 1
           st == Append(r.stages, r.stage)
           or == r.order \o clients
<1>1. clients \in Seq(STRING)
  BY StageFacts
<1>2. p \in BOOLEAN
  OBVIOUS
<1>3. StageStarted(r, t) = [r EXCEPT !.stage = sg, !.enteredAt = t, !.ponr = p, !.order = or, !.stages = st]
  BY DEF StageStarted, RunType
<1> HIDE DEF clients
<1>4. r.order \in Seq(STRING) /\ r.stages \in Seq(Nat) /\ r.stage \in Nat
  BY DEF RunType
<1>5. or \in Seq(STRING) /\ st \in Seq(Nat) /\ sg \in Nat
  BY <1>1, <1>4
<1> HIDE DEF p, or, sg, st
<1>6. /\ StageStarted(r, t) \in RunType /\ StageStarted(r, t).stage = sg
      /\ StageStarted(r, t).aborted = r.aborted /\ StageStarted(r, t).order = or
      /\ StageStarted(r, t).notShutDown = r.notShutDown /\ StageStarted(r, t).stages = st
      /\ StageStarted(r, t).skipped = r.skipped
  BY <1>2, <1>3, <1>4, <1>5 DEF RunType
<1> QED
  BY <1>6 DEF clients, or, sg, st

LEMMA StageSkippedFields ==
    ASSUME Wellformed(cfg), NEW r \in RunType, r.stage \in 1..Len(Plan.stages), NEW t \in Nat
    PROVE  LET q == StageSkipped(r, t)
               clients == ResolveClientRefs(Plan.stages[r.stage].clients, cfg) IN
           /\ q \in RunType /\ q.stage = r.stage + 1 /\ q.aborted = r.aborted
           /\ q.order = r.order /\ q.notShutDown = r.notShutDown \o clients
           /\ q.stages = r.stages /\ q.skipped = Append(r.skipped, r.stage)
<1> DEFINE clients == ResolveClientRefs(Plan.stages[r.stage].clients, cfg)
           sg == r.stage + 1
           st == Append(r.skipped, r.stage)
           or == r.notShutDown \o clients
<1>1. clients \in Seq(STRING)
  BY StageFacts
<1>3. StageSkipped(r, t) = [r EXCEPT !.stage = sg, !.enteredAt = t, !.notShutDown = or, !.skipped = st]
  BY DEF StageSkipped, RunType
<1> HIDE DEF clients
<1>4. r.notShutDown \in Seq(STRING) /\ r.skipped \in Seq(Nat) /\ r.stage \in Nat
  BY DEF RunType
<1>5. or \in Seq(STRING) /\ st \in Seq(Nat) /\ sg \in Nat
  BY <1>1, <1>4
<1> HIDE DEF or, sg, st
<1>6. /\ StageSkipped(r, t) \in RunType /\ StageSkipped(r, t).stage = sg
      /\ StageSkipped(r, t).aborted = r.aborted /\ StageSkipped(r, t).order = r.order
      /\ StageSkipped(r, t).notShutDown = or /\ StageSkipped(r, t).stages = r.stages
      /\ StageSkipped(r, t).skipped = st
  BY <1>3, <1>4, <1>5 DEF RunType
<1> QED
  BY <1>6 DEF clients, or, sg, st

------------------------------------------------------------------------------
(* The order of shutdown *)

Resolved(c, i) == ToSet(ResolveClientRefs(c.plan.stages[i].clients, c))

\* What validation has made sure of.
Approved(c) ==
    /\ \A i, k \in DOMAIN c.plan.stages : i < k => Resolved(c, i) \cap Resolved(c, k) = {}
    /\ \A k \in DOMAIN c.clients : \A d \in ToSet(c.clients[k].dependsOn) :
          LET mine == StageOf(c.plan, c.clients[k].name, c)
              its == StageOf(c.plan, d, c)
          IN ~(mine # 0 /\ its # 0 /\ mine >= its)
    /\ \A i \in DOMAIN c.plan.stages : Names(c.plan.stages[i].clients, ClientNames(c))

LEMMA ValidApproved ==
    ASSUME NEW c, NEW order, ValidateWith(c, order) = {}
    PROVE  Approved(c)
<1>1. ValidateStageOrder(c.plan, c) = {} /\ ValidatePlan(c.plan, c) = {}
  BY DEF ValidateWith
<1>2. \A b, what : Err(b, what) = {} => ~b
  BY DEF Err
<1>3. \A i, k \in DOMAIN c.plan.stages : ~(i < k /\ Resolved(c, i) \cap Resolved(c, k) # {})
  <2>1. Err(\E i, k \in DOMAIN c.plan.stages : i < k /\ Resolved(c, i) \cap Resolved(c, k) # {}, "in_two_stages") = {}
    BY <1>1 DEF ValidateStageOrder, Resolved
  <2> QED
    BY <2>1 DEF Err
<1>4. ASSUME NEW k \in DOMAIN c.clients, NEW d \in ToSet(c.clients[k].dependsOn)
      PROVE  LET mine == StageOf(c.plan, c.clients[k].name, c)
                 its == StageOf(c.plan, d, c)
             IN ~(mine # 0 /\ its # 0 /\ mine >= its)
  <2>1. Err(\E m \in DOMAIN c.clients : \E e \in ToSet(c.clients[m].dependsOn) :
                /\ StageOf(c.plan, c.clients[m].name, c) # 0 /\ StageOf(c.plan, e, c) # 0
                /\ StageOf(c.plan, c.clients[m].name, c) >= StageOf(c.plan, e, c),
            "dependency_before_dependent") = {}
    BY <1>1 DEF ValidateStageOrder
  <2> QED
    BY <2>1 DEF Err
<1>5. ASSUME NEW i \in DOMAIN c.plan.stages PROVE Names(c.plan.stages[i].clients, ClientNames(c))
  <2>1. UNION {ValidateStage(c.plan.stages[k], c) : k \in DOMAIN c.plan.stages} = {}
    <3> DEFINE S == UNION {ValidateStage(c.plan.stages[k], c) : k \in DOMAIN c.plan.stages}
               a1 == ValidateCondition[c.plan.trigger]
               a2 == UNION {ValidateCondition[a] : a \in c.plan.abort}
               a4 == UNION {ValidatePostShutdown(ps) : ps \in c.plan.postShutdown}
               a5 == ValidateCondition[c.plan.gate]
               a6 == UNION {UnknownRefs(c.plan.wakeStages[k], c) : k \in DOMAIN c.plan.wakeStages}
               a7 == Err(c.plan.retries < 0, "negative_retries")
               a8 == CheckDurations({c.plan.stagger, c.plan.probeInterval, c.plan.bootDeadline})
    <3>1. ValidatePlan(c.plan, c) = a1 \cup a2 \cup S \cup a4 \cup a5 \cup a6 \cup a7 \cup a8
      BY DEF ValidatePlan
    <3> HIDE DEF S, a1, a2, a4, a5, a6, a7, a8
    <3>2. S = {}
      BY <1>1, <3>1
    <3> QED
      BY <3>2 DEF S
  <2>2. ValidateStage(c.plan.stages[i], c) = {}
    BY <2>1
  <2>3. UnknownRefs(c.plan.stages[i].clients, c) = {}
    BY <2>2 DEF ValidateStage
  <2> QED
    BY <2>3 DEF UnknownRefs, Err, Names
<1> QED
  BY <1>3, <1>4, <1>5 DEF Approved

\* A client of a stage that starts is of that stage and no other.
LEMMA StageOfResolved ==
    ASSUME NEW c, Wellformed(c), Approved(c), NEW g \in DOMAIN c.plan.stages, NEW x \in Resolved(c, g)
    PROVE  StageOf(c.plan, x, c) = g
<1> DEFINE in == {i \in DOMAIN c.plan.stages : Contains(ResolveClientRefs(c.plan.stages[i].clients, c), x)}
<1>0. g \in Nat /\ DOMAIN c.plan.stages = 1..Len(c.plan.stages) /\ Len(c.plan.stages) \in Nat
  BY DEF Wellformed
<1>1. ASSUME NEW i \in DOMAIN c.plan.stages
      PROVE  Contains(ResolveClientRefs(c.plan.stages[i].clients, c), x) <=> x \in Resolved(c, i)
  <2> DEFINE q == ResolveClientRefs(c.plan.stages[i].clients, c)
  <2>1. q \in Seq(ClientNames(c))
    BY ResolvedOnce DEF Wellformed, Approved
  <2> HIDE DEF q
  <2>2. DOMAIN q = 1..Len(q)
    BY <2>1
  <2>3. Contains(q, x) <=> x \in ToSet(q)
    BY <2>2 DEF Contains, ToSet
  <2> QED
    BY <2>3 DEF q, Resolved
<1>2. in = {g}
  <2>1. g \in in
    BY <1>1
  <2>2. ASSUME NEW i \in in PROVE i = g
    <3>1. i \in DOMAIN c.plan.stages /\ x \in Resolved(c, i)
      BY <1>1
    <3>2. ~(i < g) /\ ~(g < i)
      BY <3>1 DEF Approved
    <3> QED
      BY <1>0, <3>1, <3>2
  <2> QED
    BY <2>1, <2>2
<1>3. Max({g}) = g
  BY <1>0 DEF Max
<1> QED
  BY <1>2, <1>3 DEF StageOf

\* The clients settled so far are of the stages before, each once, and those
\* told to shut down in the order of the stages.
Settled(c, r) ==
    /\ \A i \in DOMAIN r.order : \E g \in DOMAIN c.plan.stages : g < r.stage /\ r.order[i] \in Resolved(c, g)
    /\ \A i \in DOMAIN r.notShutDown :
          \E g \in DOMAIN c.plan.stages : g < r.stage /\ r.notShutDown[i] \in Resolved(c, g)
    /\ \A i, k \in DOMAIN r.order : i < k => StageOf(c.plan, r.order[i], c) <= StageOf(c.plan, r.order[k], c)
    /\ Distinct(r.order) /\ Distinct(r.notShutDown)
    /\ \A i \in DOMAIN r.order, k \in DOMAIN r.notShutDown : r.order[i] # r.notShutDown[k]

\* An element of p \o q is one of p, before those of q, or one of q.
LEMMA ConcatElements ==
    ASSUME NEW T, NEW p \in Seq(T), NEW q \in Seq(T), NEW k \in DOMAIN (p \o q)
    PROVE  \/ k \in DOMAIN p /\ k <= Len(p) /\ (p \o q)[k] = p[k]
           \/ k > Len(p) /\ k - Len(p) \in DOMAIN q /\ (p \o q)[k] = q[k - Len(p)]
OBVIOUS

LEMMA DistinctConcat ==
    ASSUME NEW T, NEW p \in Seq(T), NEW q \in Seq(T), Distinct(p), Distinct(q),
           \A i \in DOMAIN p, k \in DOMAIN q : p[i] # q[k]
    PROVE  Distinct(p \o q)
<1> SUFFICES ASSUME NEW i \in DOMAIN (p \o q), NEW k \in DOMAIN (p \o q), (p \o q)[i] = (p \o q)[k]
             PROVE  i = k
  BY DEF Distinct
<1>0. i \in Nat /\ k \in Nat /\ Len(p) \in Nat
  OBVIOUS
<1>1. \/ i \in DOMAIN p /\ i <= Len(p) /\ (p \o q)[i] = p[i]
      \/ i > Len(p) /\ i - Len(p) \in DOMAIN q /\ (p \o q)[i] = q[i - Len(p)]
  BY ConcatElements
<1>2. \/ k \in DOMAIN p /\ k <= Len(p) /\ (p \o q)[k] = p[k]
      \/ k > Len(p) /\ k - Len(p) \in DOMAIN q /\ (p \o q)[k] = q[k - Len(p)]
  BY ConcatElements
<1>3. CASE i \in DOMAIN p /\ k \in DOMAIN p /\ (p \o q)[i] = p[i] /\ (p \o q)[k] = p[k]
  BY <1>3 DEF Distinct
<1>4. CASE /\ i > Len(p) /\ i - Len(p) \in DOMAIN q /\ (p \o q)[i] = q[i - Len(p)]
           /\ k > Len(p) /\ k - Len(p) \in DOMAIN q /\ (p \o q)[k] = q[k - Len(p)]
  <2>1. i - Len(p) = k - Len(p)
    BY <1>4 DEF Distinct
  <2> QED
    BY <1>0, <2>1
<1> QED
  BY <1>1, <1>2, <1>3, <1>4

\* Starting or giving up the next stage keeps the clients settled in order.
LEMMA SettledNext ==
    ASSUME Wellformed(cfg), Approved(cfg), NEW r \in RunType, r.stage \in 1..Len(Plan.stages), Settled(cfg, r),
           NEW t \in Nat
    PROVE  Settled(cfg, StageStarted(r, t)) /\ Settled(cfg, StageSkipped(r, t))
<1> DEFINE g == r.stage
           q == ResolveClientRefs(Plan.stages[g].clients, cfg)
           a == StageStarted(r, t)
           b == StageSkipped(r, t)
           St(x) == StageOf(Plan, x, cfg)
           Earlier(x, n) == \E h \in DOMAIN Plan.stages : h < n /\ x \in Resolved(cfg, h)
<1>0. /\ DOMAIN Plan.stages = 1..Len(Plan.stages) /\ g \in DOMAIN Plan.stages /\ g \in Nat
      /\ \A h \in DOMAIN Plan.stages : h \in Nat
  BY DEF Wellformed, Plan
<1>1. q \in Seq(ClientNames(cfg)) /\ Distinct(q)
  BY <1>0, ResolvedOnce DEF Wellformed, Approved, Plan
<1>2. q \in Seq(STRING)
  BY StageFacts
<1>3. /\ a.stage = g + 1 /\ a.order = r.order \o q /\ a.notShutDown = r.notShutDown
      /\ b.stage = g + 1 /\ b.order = r.order /\ b.notShutDown = r.notShutDown \o q
  BY StageStartedFields, StageSkippedFields
<1>4. \A k \in DOMAIN q : q[k] \in Resolved(cfg, g)
  BY DEF Resolved, ToSet, Plan
<1>5. /\ \A i \in DOMAIN r.order : Earlier(r.order[i], g)
      /\ \A i \in DOMAIN r.notShutDown : Earlier(r.notShutDown[i], g)
      /\ \A i, k \in DOMAIN r.order : i < k => St(r.order[i]) <= St(r.order[k])
      /\ Distinct(r.order) /\ Distinct(r.notShutDown)
      /\ \A i \in DOMAIN r.order, k \in DOMAIN r.notShutDown : r.order[i] # r.notShutDown[k]
  BY DEF Settled, Plan
<1>6. r.order \in Seq(STRING) /\ r.notShutDown \in Seq(STRING)
  BY DEF RunType
<1>7. ASSUME NEW x, Earlier(x, g) PROVE St(x) \in Nat /\ St(x) < g /\ x \notin Resolved(cfg, g) /\ Earlier(x, g + 1)
  <2>1. PICK h \in DOMAIN Plan.stages : h < g /\ x \in Resolved(cfg, h)
    BY <1>7
  <2>2. St(x) = h
    BY <2>1, StageOfResolved DEF Plan
  <2>3. x \notin Resolved(cfg, g)
    BY <1>0, <2>1 DEF Approved, Plan
  <2>4. h < g + 1
    BY <1>0, <2>1
  <2> QED
    BY <1>0, <2>1, <2>2, <2>3, <2>4
<1>8. \A x \in Resolved(cfg, g) : St(x) = g /\ Earlier(x, g + 1)
  <2>1. g < g + 1
    BY <1>0
  <2> QED
    BY <1>0, <2>1, StageOfResolved DEF Plan
<1> HIDE DEF a, b, q, St, Earlier, g
<1>9. ASSUME NEW p \in Seq(STRING), \A i \in DOMAIN p : Earlier(p[i], g)
      PROVE  /\ \A k \in DOMAIN (p \o q) : Earlier((p \o q)[k], g + 1)
             /\ Distinct(p) => Distinct(p \o q)
  <2>1. ASSUME NEW k \in DOMAIN (p \o q) PROVE Earlier((p \o q)[k], g + 1)
    <3>1. \/ k \in DOMAIN p /\ k <= Len(p) /\ (p \o q)[k] = p[k]
          \/ k > Len(p) /\ k - Len(p) \in DOMAIN q /\ (p \o q)[k] = q[k - Len(p)]
      BY <1>2, ConcatElements
    <3> QED
      BY <1>4, <1>7, <1>8, <1>9, <3>1
  <2>2. \A i \in DOMAIN p, k \in DOMAIN q : p[i] # q[k]
    BY <1>4, <1>7, <1>9
  <2>3. Distinct(p) => Distinct(p \o q)
    BY <1>1, <1>2, <2>2, DistinctConcat
  <2> QED
    BY <2>1, <2>3
<1>10. /\ \A k \in DOMAIN (r.order \o q) : Earlier((r.order \o q)[k], g + 1)
       /\ Distinct(r.order \o q)
       /\ \A k \in DOMAIN (r.notShutDown \o q) : Earlier((r.notShutDown \o q)[k], g + 1)
       /\ Distinct(r.notShutDown \o q)
  BY <1>5, <1>6, <1>9
<1>11. \A k \in DOMAIN (r.order \o q), i \in DOMAIN r.notShutDown : (r.order \o q)[k] # r.notShutDown[i]
  <2> SUFFICES ASSUME NEW k \in DOMAIN (r.order \o q), NEW i \in DOMAIN r.notShutDown
               PROVE  (r.order \o q)[k] # r.notShutDown[i]
    OBVIOUS
  <2>1. \/ k \in DOMAIN r.order /\ (r.order \o q)[k] = r.order[k]
        \/ k - Len(r.order) \in DOMAIN q /\ (r.order \o q)[k] = q[k - Len(r.order)]
    BY <1>2, <1>6, ConcatElements
  <2> QED
    BY <1>4, <1>5, <1>7, <2>1
<1>12. \A i \in DOMAIN r.order, k \in DOMAIN (r.notShutDown \o q) : r.order[i] # (r.notShutDown \o q)[k]
  <2> SUFFICES ASSUME NEW i \in DOMAIN r.order, NEW k \in DOMAIN (r.notShutDown \o q)
               PROVE  r.order[i] # (r.notShutDown \o q)[k]
    OBVIOUS
  <2>1. \/ k \in DOMAIN r.notShutDown /\ (r.notShutDown \o q)[k] = r.notShutDown[k]
        \/ k - Len(r.notShutDown) \in DOMAIN q /\ (r.notShutDown \o q)[k] = q[k - Len(r.notShutDown)]
    BY <1>2, <1>6, ConcatElements
  <2> QED
    BY <1>4, <1>5, <1>7, <2>1
<1>13. \A i, k \in DOMAIN (r.order \o q) : i < k => St((r.order \o q)[i]) <= St((r.order \o q)[k])
  <2> DEFINE p == r.order
  <2> SUFFICES ASSUME NEW i \in DOMAIN (p \o q), NEW k \in DOMAIN (p \o q), i < k
               PROVE  St((p \o q)[i]) <= St((p \o q)[k])
    OBVIOUS
  <2>0. i \in Nat /\ k \in Nat /\ Len(p) \in Nat
    BY <1>2, <1>6
  <2>1. \/ i \in DOMAIN p /\ i <= Len(p) /\ (p \o q)[i] = p[i]
        \/ i > Len(p) /\ i - Len(p) \in DOMAIN q /\ (p \o q)[i] = q[i - Len(p)]
    BY <1>2, <1>6, ConcatElements
  <2>2. \/ k \in DOMAIN p /\ k <= Len(p) /\ (p \o q)[k] = p[k]
        \/ k > Len(p) /\ k - Len(p) \in DOMAIN q /\ (p \o q)[k] = q[k - Len(p)]
    BY <1>2, <1>6, ConcatElements
  <2>3. CASE i \in DOMAIN p /\ (p \o q)[i] = p[i] /\ k \in DOMAIN p /\ (p \o q)[k] = p[k]
    BY <1>5, <2>3
  <2>4. CASE i \in DOMAIN p /\ (p \o q)[i] = p[i] /\ k - Len(p) \in DOMAIN q /\ (p \o q)[k] = q[k - Len(p)]
    <3>1. St(p[i]) \in Nat /\ St(p[i]) < g
      BY <1>5, <1>7, <2>4
    <3>2. St(q[k - Len(p)]) = g
      BY <1>4, <1>8, <2>4
    <3> QED
      BY <1>0, <2>4, <3>1, <3>2
  <2>5. CASE i > Len(p) /\ i - Len(p) \in DOMAIN q /\ (p \o q)[i] = q[i - Len(p)]
    <3>1. k - Len(p) \in DOMAIN q /\ (p \o q)[k] = q[k - Len(p)]
      BY <2>0, <2>2, <2>5
    <3>2. St((p \o q)[i]) = g /\ St((p \o q)[k]) = g
      BY <1>4, <1>8, <2>5, <3>1
    <3> QED
      BY <1>0, <3>2
  <2> QED
    BY <2>1, <2>2, <2>3, <2>4, <2>5
<1>14. \A i \in DOMAIN r.order : Earlier(r.order[i], g + 1)
  BY <1>5, <1>7
<1>15. \A i \in DOMAIN r.notShutDown : Earlier(r.notShutDown[i], g + 1)
  BY <1>5, <1>7
<1>16. Settled(cfg, a)
  BY <1>3, <1>5, <1>10, <1>11, <1>13, <1>15 DEF Settled, St, Earlier, Plan
<1>17. Settled(cfg, b)
  BY <1>3, <1>5, <1>10, <1>12, <1>14 DEF Settled, St, Earlier, Plan
<1> QED
  BY <1>16, <1>17 DEF a, b

------------------------------------------------------------------------------
(* The invariant of a simulation *)

SimInv ==
    /\ Wellformed(cfg)
    /\ phase = "loaded" => cfg \in Configs
    /\ now \in Nat /\ Past(dwell, now - 1)
    /\ run \in RunType /\ run.stage >= 1
    /\ phase \in {"running", "done"} => Approved(cfg)
    /\ phase \notin {"running", "done"} => run.order = <<>> /\ run.notShutDown = <<>>
    /\ Settled(cfg, run)

LEMMA PastLater ==
    ASSUME NEW d, NEW t \in Nat, Past(d, t - 1)
    PROVE  Past(d, t)
<1>1. \A c \in Timed : d[c].since \in Nat \cup {Never}
  BY DEF Past, Trackers
<1> QED
  BY <1>1 DEF Past, Never

LEMMA SimInit == Init => SimInv
<1> SUFFICES ASSUME Init PROVE SimInv
  OBVIOUS
<1>1. Wellformed(cfg)
  BY FileWellformed DEF Init
<1>2. Past(dwell, now - 1)
  BY DEF Init, Past, Trackers, FreshTracker
<1>3. run \in RunType /\ run.stage >= 1 /\ run.order = <<>> /\ run.notShutDown = <<>>
  BY DEF Init, RunType
<1>4. Settled(cfg, run)
  BY <1>3 DEF Settled, Distinct
<1> QED
  BY <1>1, <1>2, <1>3, <1>4 DEF Init, SimInv

LEMMA SimValidate == SimInv /\ Validate => SimInv'
<1> SUFFICES ASSUME SimInv, Validate PROVE SimInv'
  OBVIOUS
<1>1. PICK order : /\ cfg' = ApplyDefaults(cfg)
                   /\ phase' = IF ValidateWith(ApplyDefaults(cfg), order) = {} THEN "running" ELSE "refused"
  BY DEF Validate
<1>2. cfg \in Configs /\ phase = "loaded" /\ run' = run /\ now' = now /\ dwell' = dwell
  BY DEF SimInv, Validate
<1>3. Wellformed(cfg')
  BY <1>1, <1>2, DefaultsWellformed
<1>4. phase' \in {"running", "done"} => Approved(cfg')
  BY <1>1, ValidApproved
<1>5. run.order = <<>> /\ run.notShutDown = <<>>
  BY <1>2 DEF SimInv
<1>6. Settled(cfg', run')
  BY <1>2, <1>5 DEF Settled, Distinct
<1> QED
  BY <1>1, <1>2, <1>3, <1>4, <1>5, <1>6 DEF SimInv

\* A turn that follows the plan, with j for what conditions answer in it.
LEMMA FollowPlanStep ==
    ASSUME SimInv, phase = "running", NEW s, FollowPlan(s, now),
           NEW j, j = Judge(s, ExplainDwell(dwell, now), now)
    PROVE  LET aborts == ~run.ponr /\ \E a \in Plan.abort : j[a] = "true"
               waiting == ~run.aborted /\ run.stage <= Len(Plan.stages)
               stage == Plan.stages[run.stage]
           IN /\ dwell' \in Ahead(dwell, j, s, now)
              /\ phase' \in {"running", "done"}
              /\ run' \in RunType /\ run'.stage >= 1 /\ Settled(cfg, run')
              /\ ~waiting => look'.here = "none" /\ look'.executor = "none"
              /\ waiting =>
                    /\ look'.here = Decision(run, run')
                    /\ look'.executor = ExecutorLook(stage, run, s, dwell, now)
                    /\ look'.clash = Clash(stage, run, s, dwell, now)
                    /\ IF aborts THEN run'.aborted /\ run'.stages = run.stages /\ run'.skipped = run.skipped
                       ELSE run' = IF j[stage.when] = "true" THEN StageStarted(run, now)
                                   ELSE IF StageTimedOut(stage, now, run.enteredAt) THEN StageSkipped(run, now)
                                   ELSE run
<1> DEFINE A == Ahead(dwell, j, s, now)
           abort == AskAbort(run, s, dwell, now)
           stg == AskStage(abort.run, s, abort.dwell, now)
           gate == AskGate(stg.run, s, stg.dwell, now)
           aborts == ~run.ponr /\ \E a \in Plan.abort : j[a] = "true"
           waiting == ~run.aborted /\ run.stage <= Len(Plan.stages)
           stage == Plan.stages[run.stage]
<1>0. /\ Wellformed(cfg) /\ now \in Nat /\ Past(dwell, now) /\ run \in RunType /\ run.stage >= 1
      /\ Approved(cfg) /\ Settled(cfg, run)
  BY PastLater DEF SimInv
<1>1. Answers(A, s, now, j) /\ dwell \in A
  BY <1>0, AnswersAhead
<1>2. /\ dwell' = gate.dwell /\ run' = stg.run /\ phase' \in {"running", "done"}
      /\ ~waiting => look'.here = "none" /\ look'.executor = "none"
      /\ waiting => /\ look'.here = Decision(run, stg.run)
                    /\ look'.executor = ExecutorLook(stage, run, s, dwell, now)
                    /\ look'.clash = Clash(stage, run, s, dwell, now)
  <2>1. /\ dwell' = gate.dwell /\ run' = stg.run /\ phase' = IF gate.open THEN "done" ELSE "running"
        /\ look' = IF run.aborted \/ run.stage > Len(Plan.stages)
                   THEN [NoLook EXCEPT !.asked = abort.asked \cup gate.asked]
                   ELSE [here |-> Decision(run, stg.run),
                         executor |-> ExecutorLook(stage, run, s, dwell, now),
                         clash |-> Clash(stage, run, s, dwell, now),
                         asked |-> abort.asked \cup stg.asked \cup gate.asked]
    BY Zenon DEF FollowPlan
  <2>2. waiting <=> ~(run.aborted \/ run.stage > Len(Plan.stages))
    BY <1>0 DEF Wellformed, Plan, RunType
  <2> HIDE DEF gate, stg, abort, stage, waiting
  <2> QED
    BY <2>1, <2>2 DEF NoLook
<1> HIDE DEF A
<1>3. /\ abort.dwell \in A /\ abort.run \in RunType /\ abort.run = [run EXCEPT !.aborted = abort.run.aborted]
      /\ abort.run.aborted <=> run.aborted \/ aborts
  BY <1>0, <1>1, AbortStep
<1> DEFINE r == abort.run
<1> HIDE DEF abort
<1>4. r.stage = run.stage /\ r.order = run.order /\ r.notShutDown = run.notShutDown /\ r.enteredAt = run.enteredAt
  BY <1>0, <1>3 DEF RunType
<1>5. Settled(cfg, r)
  BY <1>0, <1>4 DEF Settled
<1>6. /\ stg.dwell \in A
      /\ r.aborted \/ r.stage > Len(Plan.stages) => stg.run = r
      /\ ~r.aborted /\ r.stage <= Len(Plan.stages) =>
            stg.run = IF j[Plan.stages[r.stage].when] = "true" THEN StageStarted(r, now)
                      ELSE IF StageTimedOut(Plan.stages[r.stage], now, r.enteredAt) THEN StageSkipped(r, now)
                      ELSE r
  BY <1>0, <1>1, <1>3, <1>4, StageStep
<1> HIDE DEF stg
<1>7. gate.dwell \in A
  BY <1>0, <1>1, <1>6, GateStep
<1>8. stg.run \in RunType /\ stg.run.stage >= 1 /\ Settled(cfg, stg.run)
  <2>0. r \in RunType /\ r.stage \in Nat /\ r.stage >= 1 /\ Len(Plan.stages) \in Nat
    BY <1>0, <1>3, <1>4 DEF RunType, Wellformed, Plan
  <2>1. CASE stg.run = r
    BY <1>5, <2>0, <2>1
  <2>2. CASE stg.run # r
    <3>1. r.stage \in 1..Len(Plan.stages)
      BY <1>6, <2>0, <2>2
    <3>2. stg.run \in {StageStarted(r, now), StageSkipped(r, now)}
      BY <1>6, <2>0, <2>2
    <3>3. /\ StageStarted(r, now) \in RunType /\ StageStarted(r, now).stage = r.stage + 1
          /\ StageSkipped(r, now) \in RunType /\ StageSkipped(r, now).stage = r.stage + 1
      BY <1>0, <2>0, <3>1, StageStartedFields, StageSkippedFields
    <3>4. Settled(cfg, StageStarted(r, now)) /\ Settled(cfg, StageSkipped(r, now))
      BY <1>0, <1>5, <2>0, <3>1, SettledNext
    <3>5. r.stage + 1 >= 1
      BY <2>0
    <3> QED
      BY <3>2, <3>3, <3>4, <3>5
  <2> QED
    BY <2>1, <2>2
<1>9. ASSUME waiting PROVE IF aborts THEN stg.run.aborted /\ stg.run.stages = run.stages /\ stg.run.skipped = run.skipped
                           ELSE stg.run = IF j[stage.when] = "true" THEN StageStarted(run, now)
                                          ELSE IF StageTimedOut(stage, now, run.enteredAt) THEN StageSkipped(run, now)
                                          ELSE run
  <2>1. CASE aborts
    <3>1. r.aborted
      BY <1>3, <2>1
    <3>2. r.stages = run.stages /\ r.skipped = run.skipped
      BY <1>0, <1>3 DEF RunType
    <3> QED
      BY <1>6, <2>1, <3>1, <3>2
  <2>2. CASE ~aborts
    <3>1. r.aborted \in BOOLEAN /\ run.aborted \in BOOLEAN /\ ~r.aborted /\ ~run.aborted
      BY <1>0, <1>3, <1>9, <2>2 DEF RunType
    <3>2. r = run
      <4>1. r.aborted = run.aborted
        BY <3>1
      <4>2. [run EXCEPT !.aborted = run.aborted] = run
        BY <1>0 DEF RunType
      <4> QED
        BY <1>3, <4>1, <4>2
    <3> QED
      BY <1>6, <1>9, <2>2, <3>1, <3>2
  <2> QED
    BY <2>1, <2>2
<1> QED
  BY <1>2, <1>7, <1>8, <1>9 DEF A

LEMMA SimTick == SimInv /\ Tick => SimInv'
<1> SUFFICES ASSUME SimInv, Tick PROVE SimInv'
  OBVIOUS
<1>1. PICK s : /\ store' = s
               /\ IF run.triggered THEN FollowPlan(s, now) ELSE LookForTrigger(s, now)
  BY DEF Tick
<1>2. phase = "running" /\ now' = now + 1 /\ cfg' = cfg
  BY DEF Tick
<1>3. /\ Wellformed(cfg) /\ now \in Nat /\ Past(dwell, now) /\ run \in RunType /\ run.stage >= 1
      /\ Approved(cfg) /\ Settled(cfg, run)
  BY <1>2, PastLater DEF SimInv
<1> DEFINE j == Judge(s, ExplainDwell(dwell, now), now)
           A == Ahead(dwell, j, s, now)
<1>4. dwell' \in A /\ phase' \in {"running", "done"} /\ run' \in RunType /\ run'.stage >= 1 /\ Settled(cfg, run')
  <2>1. CASE run.triggered
    <3>1. FollowPlan(s, now)
      BY <1>1, <2>1
    <3> QED
      BY <1>2, <3>1, FollowPlanStep
  <2>2. CASE ~run.triggered
    <3> DEFINE e == Evaluate(Plan.trigger, s, dwell, now)
    <3>1. /\ dwell' = e.dwell /\ phase' = "running"
          /\ run' = IF e.val = "true" THEN [run EXCEPT !.triggered = TRUE, !.enteredAt = now] ELSE run
      BY <1>1, <2>2 DEF LookForTrigger
    <3>2. Plan.trigger \in Conds
      BY <1>3 DEF Wellformed, Plan
    <3>3. Answers(A, s, now, j) /\ dwell \in A
      BY <1>3, AnswersAhead
    <3> HIDE DEF A
    <3>4. e.dwell \in A
      BY <3>2, <3>3 DEF Answers
    <3> HIDE DEF e
    <3>5. run' \in RunType /\ run'.stage = run.stage /\ run'.order = run.order /\ run'.notShutDown = run.notShutDown
      BY <1>3, <3>1 DEF RunType
    <3>6. Settled(cfg, run')
      BY <1>3, <3>5 DEF Settled
    <3> QED
      BY <1>3, <3>1, <3>4, <3>5, <3>6
  <2> QED
    BY <2>1, <2>2
<1> HIDE DEF j
<1>5. Past(dwell', now)
  BY <1>3, <1>4, AheadPast
<1>6. now' \in Nat /\ now' - 1 = now
  BY <1>2, <1>3
<1> QED
  BY <1>2, <1>3, <1>4, <1>5, <1>6 DEF SimInv

LEMMA SimOther == SimInv /\ (Finish \/ UNCHANGED vars) => SimInv'
<1>1. SimInv /\ Finish => SimInv'
  BY DEF SimInv, Finish
<1>2. SimInv /\ UNCHANGED vars => SimInv'
  BY DEF SimInv, vars
<1> QED
  BY <1>1, <1>2

\* Config, trackers and run stay well formed; clients are settled in order.
THEOREM SimulationInvariant == Spec => []SimInv
<1>1. SimInv /\ [Next]_vars => SimInv'
  BY SimValidate, SimTick, SimOther DEF Next
<1> QED
  BY SimInit, <1>1, PTL DEF Spec

------------------------------------------------------------------------------
(* What the simulator and the evaluator promise *)

\* "Result is what the policy loop would currently see": the read-only account
\* of every condition of the plan is the answer Evaluate would give, at every
\* instant of every timeline.
THEOREM ExplainTellsTheAnswer == Spec => []ExplainAgrees
<1>1. SimInv => ExplainAgrees
  <2> SUFFICES ASSUME SimInv, Started, NEW r \in Roots(Plan)
               PROVE  Explain(r, store, dwell, LastTick) = Answer(r, store, dwell, LastTick)
    BY DEF ExplainAgrees
  <2>1. LastTick \in Nat /\ Past(dwell, LastTick)
    BY DEF SimInv, Started, LastTick
  <2>2. r \in Conds
    BY DEF SimInv, Wellformed, Roots, Plan
  <2> QED
    BY <2>1, <2>2, AnswerIsExplain
<1> QED
  BY SimulationInvariant, <1>1, PTL

\* A plan that passed validation settles every client once, and only clients
\* there are.
THEOREM ClientsSettledOnce == Spec => []EachClientOnce
<1>1. SimInv => EachClientOnce
  <2> SUFFICES ASSUME SimInv PROVE EachClientOnce
    OBVIOUS
  <2> DEFINE p == run.order
             q == run.notShutDown
  <2>1. p \in Seq(STRING) /\ q \in Seq(STRING)
    BY DEF SimInv, RunType
  <2>2. Distinct(p \o q)
    <3>1. Distinct(p) /\ Distinct(q) /\ \A i \in DOMAIN p, k \in DOMAIN q : p[i] # q[k]
      BY DEF SimInv, Settled
    <3> QED
      BY <2>1, <3>1, DistinctConcat
  <2>3. ASSUME NEW k \in DOMAIN (p \o q) PROVE (p \o q)[k] \in ClientNames(cfg)
    <3>1. \/ k \in DOMAIN p /\ (p \o q)[k] = p[k]
          \/ k - Len(p) \in DOMAIN q /\ (p \o q)[k] = q[k - Len(p)]
      BY <2>1, ConcatElements
    <3>2. PICK g \in DOMAIN Plan.stages : (p \o q)[k] \in Resolved(cfg, g)
      BY <3>1 DEF SimInv, Settled, Plan
    <3>3. phase \in {"running", "done"}
      BY <3>1 DEF SimInv
    <3>4. Wellformed(cfg) /\ Approved(cfg)
      BY <3>3 DEF SimInv
    <3>5. ResolveClientRefs(Plan.stages[g].clients, cfg) \in Seq(ClientNames(cfg))
      BY <3>4, ResolvedOnce DEF Wellformed, Approved, Plan
    <3> QED
      BY <3>2, <3>5 DEF Resolved, ToSet, Plan
  <2> HIDE DEF p, q
  <2>4. ToSet(p \o q) \subseteq ClientNames(cfg)
    BY <2>3 DEF ToSet
  <2> QED
    BY <2>2, <2>4 DEF EachClientOnce, Distinct, p, q
<1> QED
  BY SimulationInvariant, <1>1, PTL

\* A plan that passed validation shuts down dependents before what they depend
\* on.
THEOREM DependentsGoFirst == Spec => []DependentsFirst
<1>1. SimInv => DependentsFirst
  <2> SUFFICES ASSUME SimInv, NEW i \in DOMAIN run.order, NEW k \in DOMAIN run.order, NEW m \in DOMAIN cfg.clients,
                      cfg.clients[m].name = run.order[k], run.order[i] \in ToSet(cfg.clients[m].dependsOn)
               PROVE  k < i
    BY DEF DependentsFirst
  <2>0. i \in Nat /\ k \in Nat
    BY DEF SimInv, RunType
  <2> DEFINE St(x) == StageOf(Plan, x, cfg)
  <2>1. phase \in {"running", "done"}
    BY DEF SimInv
  <2>2. Wellformed(cfg) /\ Approved(cfg) /\ Settled(cfg, run)
    BY <2>1 DEF SimInv
  <2>3. ASSUME NEW n \in DOMAIN run.order PROVE St(run.order[n]) \in Nat /\ St(run.order[n]) # 0
    <3>1. PICK g \in DOMAIN Plan.stages : run.order[n] \in Resolved(cfg, g)
      BY <2>2 DEF Settled, Plan
    <3>2. St(run.order[n]) = g
      BY <2>2, <3>1, StageOfResolved DEF Plan
    <3>3. g \in 1..Len(Plan.stages)
      BY <2>2 DEF Wellformed, Plan
    <3> QED
      BY <3>2, <3>3
  <2>4. ~(St(run.order[k]) >= St(run.order[i]))
    BY <2>2, <2>3 DEF Approved, Plan
  <2>5. i < k => St(run.order[i]) <= St(run.order[k])
    BY <2>2 DEF Settled, Plan
  <2> HIDE DEF St
  <2>6. St(run.order[i]) \in Nat /\ St(run.order[k]) \in Nat
    BY <2>3
  <2>7. i # k
    BY <2>4, <2>6
  <2> QED
    BY <2>0, <2>4, <2>5, <2>6, <2>7
<1> QED
  BY SimulationInvariant, <1>1, PTL

\* Unless a stage's condition and the abort condition hold at once, the
\* simulator does about the stage what the executor does.
THEOREM SimulatorIsExecutor == Spec => []AgreesWithExecutor
<1>1. Init => AgreesWithExecutor
  BY DEF Init, AgreesWithExecutor, NoLook
<1>2. ASSUME AgreesWithExecutor, Validate \/ Finish \/ UNCHANGED vars PROVE AgreesWithExecutor'
  BY <1>2 DEF AgreesWithExecutor, Validate, Finish, vars
<1>3. ASSUME SimInv, Tick PROVE AgreesWithExecutor'
  <2>1. PICK s : IF run.triggered THEN FollowPlan(s, now) ELSE LookForTrigger(s, now)
    BY <1>3 DEF Tick
  <2>2. CASE ~run.triggered
    BY <2>1, <2>2 DEF LookForTrigger, NoLook, AgreesWithExecutor
  <2>3. CASE run.triggered
    <3> DEFINE j == Judge(s, ExplainDwell(dwell, now), now)
               waiting == ~run.aborted /\ run.stage <= Len(Plan.stages)
               stage == Plan.stages[run.stage]
               aborts == ~run.ponr /\ \E a \in Plan.abort : j[a] = "true"
               timedOut == StageTimedOut(stage, now, run.enteredAt)
    <3>1. FollowPlan(s, now) /\ phase = "running"
      BY <1>3, <2>1, <2>3 DEF Tick
    <3>2. /\ ~waiting => look'.here = "none" /\ look'.executor = "none"
          /\ waiting =>
                /\ look'.here = Decision(run, run')
                /\ look'.executor = ExecutorLook(stage, run, s, dwell, now)
                /\ look'.clash = Clash(stage, run, s, dwell, now)
                /\ IF aborts THEN run'.aborted /\ run'.stages = run.stages /\ run'.skipped = run.skipped
                   ELSE run' = IF j[stage.when] = "true" THEN StageStarted(run, now)
                               ELSE IF timedOut THEN StageSkipped(run, now)
                               ELSE run
      BY <1>3, <3>1, FollowPlanStep
    <3>3. Wellformed(cfg) /\ now \in Nat /\ Past(dwell, now) /\ run \in RunType /\ run.stage >= 1
      BY <1>3, PastLater DEF SimInv
    <3>4. CASE ~waiting
      BY <3>2, <3>4 DEF AgreesWithExecutor
    <3>5. CASE waiting
      <4>1. run.stage \in 1..Len(Plan.stages)
        BY <3>3, <3>5 DEF RunType, Wellformed, Plan
      <4>2. stage.when \in Conds /\ \A a \in Plan.abort : a \in Conds
        BY <3>3, <4>1, StageFacts DEF Wellformed, Plan
      <4>3. \A c \in Conds : Answer(c, s, dwell, now) = j[c]
        BY <3>3, AnswerIsExplain DEF Explain
      <4>4. Answer(stage.when, s, dwell, now) = j[stage.when] /\ \A a \in Plan.abort : Answer(a, s, dwell, now) = j[a]
        BY <4>2, <4>3
      <4> HIDE DEF j
      <4>5. SUFFICES ASSUME ~Clash(stage, run, s, dwell, now) PROVE look'.here = look'.executor
        BY <3>2, <3>5 DEF AgreesWithExecutor
      <4>a. aborts <=> Aborting(run, s, dwell, now)
        BY <4>4 DEF Aborting
      <4>6. CASE aborts
        <5>1. FirstLook(run, now) \/ Answer(stage.when, s, dwell, now) # "true"
          BY <4>5, <4>6, <4>a DEF Clash
        <5>2. ExecutorLook(stage, run, s, dwell, now) = "abort"
          BY <4>6, <4>a, <5>1 DEF ExecutorLook
        <5>3. Decision(run, run') = "abort"
          BY <3>2, <3>5, <4>6 DEF Decision
        <5> QED
          BY <3>2, <3>5, <5>2, <5>3
      <4>7. CASE ~aborts /\ j[stage.when] = "true"
        <5>1. ExecutorLook(stage, run, s, dwell, now) = "start"
          BY <4>4, <4>7, <4>a DEF ExecutorLook
        <5>2. run' = StageStarted(run, now)
          BY <3>2, <3>5, <4>7
        <5>3. /\ run'.aborted = run.aborted /\ run'.stages = Append(run.stages, run.stage)
              /\ run'.skipped = run.skipped
          BY <3>3, <4>1, <5>2, StageStartedFields
        <5>4. run'.stages # run.stages
          <6>1. run.stages \in Seq(Nat) /\ run.stage \in Nat
            BY <3>3 DEF RunType
          <6>2. Len(Append(run.stages, run.stage)) = Len(run.stages) + 1 /\ Len(run.stages) \in Nat
            BY <6>1
          <6> QED
            BY <5>3, <6>2
        <5>5. Decision(run, run') = "start"
          BY <3>5, <5>3, <5>4 DEF Decision
        <5> QED
          BY <3>2, <3>5, <5>1, <5>5
      <4>8. CASE ~aborts /\ j[stage.when] # "true"
        <5>1. ExecutorLook(stage, run, s, dwell, now) = IF timedOut THEN "skip" ELSE "wait"
          <6>1. timedOut <=> now - run.enteredAt >= stage.waitTimeout /\ stage.waitPolicy # "hold"
            BY DEF StageTimedOut
          <6> HIDE DEF stage, timedOut
          <6> QED
            BY <4>4, <4>8, <4>a, <6>1 DEF ExecutorLook
        <5>2. run' = IF timedOut THEN StageSkipped(run, now) ELSE run
          BY <3>2, <3>5, <4>8
        <5>3. CASE timedOut
          <6>1. /\ run'.aborted = run.aborted /\ run'.stages = run.stages
                /\ run'.skipped = Append(run.skipped, run.stage)
            BY <3>3, <4>1, <5>2, <5>3, StageSkippedFields
          <6>2. run.skipped \in Seq(Nat) /\ run.stage \in Nat
            BY <3>3 DEF RunType
          <6>3. Len(Append(run.skipped, run.stage)) = Len(run.skipped) + 1 /\ Len(run.skipped) \in Nat
            BY <6>2
          <6>4. run'.skipped # run.skipped
            BY <6>1, <6>3
          <6>5. Decision(run, run') = "skip"
            BY <3>5, <6>1, <6>4 DEF Decision
          <6> QED
            BY <3>2, <3>5, <5>1, <5>3, <6>5
        <5>4. CASE ~timedOut
          <6>1. Decision(run, run') = "wait"
            BY <3>5, <5>2, <5>4 DEF Decision
          <6> QED
            BY <3>2, <3>5, <5>1, <5>4, <6>1
        <5> QED
          BY <5>3, <5>4
      <4> QED
        BY <4>6, <4>7, <4>8
    <3> QED
      BY <3>4, <3>5
  <2> QED
    BY <2>2, <2>3
<1>4. SimInv /\ AgreesWithExecutor /\ [Next]_vars => AgreesWithExecutor'
  BY <1>2, <1>3 DEF Next
<1> QED
  BY SimulationInvariant, <1>1, <1>4, PTL DEF Spec

------------------------------------------------------------------------------
(* Losing facts *)

\* less is the store s with the facts in lost gone stale.
Without(s, lost) == [f \in FactKeys |-> IF f \in lost THEN [s[f] EXCEPT !.quality = "stale"] ELSE s[f]]

StoreType ==
    [FactKeys -> [value : {NoValue} \cup UNION {Values[f] : f \in FactKeys}, quality : {"good", "stale", "unknown"}, at : Int]]

\* A fact that is lost cannot be used; the others are as they were.
LEMMA LostUnusable ==
    ASSUME NEW s \in StoreType, NEW lost, NEW f
    PROVE  Get(Without(s, lost), f) = Get(s, f) \/ ~Usable(Get(Without(s, lost), f))
<1> DEFINE V == {NoValue} \cup UNION {Values[g] : g \in FactKeys}
           l == Without(s, lost)
<1>1. DOMAIN l = FactKeys /\ DOMAIN s = FactKeys
  BY DEF Without, StoreType
<1>2. CASE f \notin FactKeys
  BY <1>1, <1>2 DEF Get
<1>3. CASE f \in FactKeys
  <2>1. Get(l, f) = l[f] /\ Get(s, f) = s[f]
    BY <1>1, <1>3 DEF Get
  <2>2. CASE f \notin lost
    BY <1>3, <2>1, <2>2 DEF Without
  <2>3. CASE f \in lost
    <3> HIDE DEF V
    <3>1. s[f] \in [value : V, quality : {"good", "stale", "unknown"}, at : Int]
      BY <1>3 DEF StoreType, V
    <3>2. l[f] = [s[f] EXCEPT !.quality = "stale"]
      BY <1>3, <2>3 DEF Without
    <3>3. l[f].quality = "stale"
      BY <3>1, <3>2
    <3> QED
      BY <2>1, <3>3 DEF Usable
  <2> QED
    BY <2>2, <2>3
<1> QED
  BY <1>2, <1>3

LEMMA NumericLoss ==
    ASSUME NEW s \in StoreType, NEW lost, NEW c
    PROVE  EvaluateNumeric(c, Without(s, lost)) \in {"unavailable", EvaluateNumeric(c, s)}
<1> DEFINE f == CHOOSE g \in c.fact : TRUE
<1>1. Get(Without(s, lost), f) = Get(s, f) \/ ~Usable(Get(Without(s, lost), f))
  BY LostUnusable
<1> HIDE DEF f
<1>2. Reading(c, Without(s, lost)) = Reading(c, s) \/ ~Usable(Reading(c, Without(s, lost)))
  BY <1>1 DEF Reading, f
<1>3. CASE Reading(c, Without(s, lost)) = Reading(c, s)
  BY <1>3 DEF EvaluateNumeric
<1>4. CASE ~Usable(Reading(c, Without(s, lost)))
  BY <1>4 DEF EvaluateNumeric
<1> QED
  BY <1>2, <1>3, <1>4

LEMMA StateLoss ==
    ASSUME NEW s \in StoreType, NEW lost, NEW c
    PROVE  EvaluateState(c, Without(s, lost)) \in {"unavailable", EvaluateState(c, s)}
<1> DEFINE f == CHOOSE g \in c.fact : TRUE
<1>1. Get(Without(s, lost), f) = Get(s, f) \/ ~Usable(Get(Without(s, lost), f))
  BY LostUnusable
<1> HIDE DEF f
<1>2. Reading(c, Without(s, lost)) = Reading(c, s) \/ ~Usable(Reading(c, Without(s, lost)))
  BY <1>1 DEF Reading, f
<1>3. CASE Reading(c, Without(s, lost)) = Reading(c, s)
  BY <1>3 DEF EvaluateState
<1>4. CASE ~Usable(Reading(c, Without(s, lost)))
  BY <1>4 DEF EvaluateState
<1> QED
  BY <1>2, <1>3, <1>4

\* The tests of template t decide at i, in store s at time n.
DecidesAt(t, s, n, i) == Test(t.tests[i], s, n) = (t.join = "or")

\* The last test of a template that is looked at.
LastAsked(t, s, n) ==
    IF \E i \in 1..Len(t.tests) : DecidesAt(t, s, n, i)
    THEN CHOOSE i \in 1..Len(t.tests) : DecidesAt(t, s, n, i) /\ \A k \in 1..i-1 : ~DecidesAt(t, s, n, k)
    ELSE Len(t.tests)

LEMMA LastAskedIs ==
    ASSUME NEW t, Len(t.tests) \in Nat, NEW s, NEW n
    PROVE  LET last == LastAsked(t, s, n) IN
           \/ /\ last \in 1..Len(t.tests) /\ DecidesAt(t, s, n, last)
              /\ \A k \in 1..last-1 : ~DecidesAt(t, s, n, k)
           \/ last = Len(t.tests) /\ \A i \in 1..Len(t.tests) : ~DecidesAt(t, s, n, i)
<1> DEFINE D == {i \in 1..Len(t.tests) : DecidesAt(t, s, n, i)}
           last == LastAsked(t, s, n)
           First(i) == DecidesAt(t, s, n, i) /\ \A k \in 1..i-1 : ~DecidesAt(t, s, n, k)
<1>1. CASE D = {}
  BY <1>1 DEF LastAsked
<1>2. CASE D # {}
  <2>1. D \in SUBSET Nat
    OBVIOUS
  <2>2. PICK m \in D : \A i \in D : m <= i
    BY <1>2, <2>1, Least
  <2>3. m \in 1..Len(t.tests) /\ First(m)
    BY <2>2
  <2>4. last = CHOOSE i \in 1..Len(t.tests) : First(i)
    BY <2>3 DEF LastAsked
  <2> HIDE DEF last, First
  <2>5. last \in 1..Len(t.tests) /\ First(last)
    BY <2>3, <2>4
  <2> QED
    BY <2>5 DEF last, First
<1> QED
  BY <1>1, <1>2

\* There is only one such test.
LEMMA LastAskedUnique ==
    ASSUME NEW t, Len(t.tests) \in Nat, NEW s, NEW n, NEW last,
           \/ /\ last \in 1..Len(t.tests) /\ DecidesAt(t, s, n, last)
              /\ \A k \in 1..last-1 : ~DecidesAt(t, s, n, k)
           \/ last = Len(t.tests) /\ \A i \in 1..Len(t.tests) : ~DecidesAt(t, s, n, i)
    PROVE  last = LastAsked(t, s, n)
<1> DEFINE m == LastAsked(t, s, n)
<1>1. \/ /\ m \in 1..Len(t.tests) /\ DecidesAt(t, s, n, m)
         /\ \A k \in 1..m-1 : ~DecidesAt(t, s, n, k)
      \/ m = Len(t.tests) /\ \A i \in 1..Len(t.tests) : ~DecidesAt(t, s, n, i)
  BY LastAskedIs
<1> HIDE DEF m
<1>2. m = last
  <2>1. CASE m \in 1..Len(t.tests) /\ last \in 1..Len(t.tests) /\ DecidesAt(t, s, n, m) /\ DecidesAt(t, s, n, last)
    <3>1. ~(m < last)
      BY <1>1, <2>1
    <3>2. ~(last < m)
      BY <1>1, <2>1
    <3> QED
      BY <2>1, <3>1, <3>2
  <2>2. CASE \A i \in 1..Len(t.tests) : ~DecidesAt(t, s, n, i)
    BY <1>1, <2>2
  <2> QED
    BY <1>1, <2>1, <2>2
<1> QED
  BY <1>2 DEF m

\* A template that only asks for the values of facts.
OnlyFacts(c) == \A t \in c.value : \A i \in DOMAIN t.tests : t.tests[i].asks = "fact"

LEMMA TemplateLoss ==
    ASSUME NEW s \in StoreType, NEW lost, NEW b \in Conds, NEW n, OnlyFacts(Cond[b])
    PROVE  EvaluateTemplate(Cond[b], Without(s, lost), n) \in {"unavailable", EvaluateTemplate(Cond[b], s, n)}
<1> DEFINE c == Cond[b]
           t == CHOOSE v \in c.value : TRUE
           l == Without(s, lost)
           Saw(q) == \E i \in 1..LastAsked(t, q, n) : t.tests[i].asks = "fact" /\ ~Usable(Get(q, t.tests[i].fact))
<1>1. \A q : EvaluateTemplate(c, q, n) =
          IF c.value = {} \/ Saw(q) THEN "unavailable" ELSE BoolToTrilean(Test(t.tests[LastAsked(t, q, n)], q, n))
  BY DEF EvaluateTemplate, LastAsked, DecidesAt
<1>2. CASE c.value = {} \/ Saw(l)
  BY <1>1, <1>2
<1>3. CASE c.value # {} /\ ~Saw(l)
  <2>1. t \in c.value
    BY <1>3
  <2> HIDE DEF t
  <2>2. t.tests \in Seq(ToSet(t.tests)) \ {<<>>}
    BY <2>1, ConditionAssumption
  <2>3. Len(t.tests) \in Nat \ {0} /\ DOMAIN t.tests = 1..Len(t.tests)
    BY <2>2
  <2> DEFINE k == LastAsked(t, l, n)
  <2>4. \/ /\ k \in 1..Len(t.tests) /\ DecidesAt(t, l, n, k)
           /\ \A i \in 1..k-1 : ~DecidesAt(t, l, n, i)
        \/ k = Len(t.tests) /\ \A i \in 1..Len(t.tests) : ~DecidesAt(t, l, n, i)
    BY <2>3, LastAskedIs
  <2>5. k \in 1..Len(t.tests)
    BY <2>3, <2>4
  <2>6. ASSUME NEW i \in 1..k
        PROVE  /\ Test(t.tests[i], l, n) = Test(t.tests[i], s, n)
               /\ Usable(Get(s, t.tests[i].fact))
    <3>1. i \in DOMAIN t.tests
      BY <2>3, <2>5, <2>6
    <3>2. t.tests[i].asks = "fact"
      BY <2>1, <3>1 DEF OnlyFacts
    <3>3. Usable(Get(l, t.tests[i].fact))
      BY <1>3, <2>6, <3>2
    <3>4. Get(l, t.tests[i].fact) = Get(s, t.tests[i].fact)
      BY <3>3, LostUnusable
    <3> QED
      BY <3>2, <3>3, <3>4 DEF Test
  <2> HIDE DEF l, k
  <2>7. \A i \in 1..k : DecidesAt(t, l, n, i) <=> DecidesAt(t, s, n, i)
    BY <2>6 DEF DecidesAt
  <2>8. \/ /\ k \in 1..Len(t.tests) /\ DecidesAt(t, s, n, k)
           /\ \A i \in 1..k-1 : ~DecidesAt(t, s, n, i)
        \/ k = Len(t.tests) /\ \A i \in 1..Len(t.tests) : ~DecidesAt(t, s, n, i)
    <3>1. k \in 1..k /\ \A i \in 1..k-1 : i \in 1..k
      BY <2>3, <2>5
    <3> QED
      BY <2>4, <2>7, <3>1
  <2>9. k = LastAsked(t, s, n)
    BY <2>3, <2>8, LastAskedUnique
  <2>10. ~Saw(s) /\ k \in 1..k
    BY <2>3, <2>5, <2>6, <2>9
  <2>11. Test(t.tests[k], l, n) = Test(t.tests[k], s, n)
    BY <2>6, <2>10
  <2>12. EvaluateTemplate(c, s, n) = BoolToTrilean(Test(t.tests[k], s, n))
    BY <1>1, <1>3, <2>9, <2>10
  <2>13. EvaluateTemplate(c, l, n) = BoolToTrilean(Test(t.tests[k], l, n))
    BY <1>1, <1>3 DEF k
  <2> QED
    BY <2>11, <2>12, <2>13 DEF l
<1> QED
  BY <1>2, <1>3

LEMMA LeafLoss ==
    ASSUME NEW s \in StoreType, NEW lost, NEW c \in Conds, NEW n, OnlyFacts(Cond[c])
    PROVE  EvaluateLeaf(Cond[c], Without(s, lost), n) \in {"unavailable", EvaluateLeaf(Cond[c], s, n)}
<1>1. EvaluateNumeric(Cond[c], Without(s, lost)) \in {"unavailable", EvaluateNumeric(Cond[c], s)}
  BY NumericLoss
<1>2. EvaluateState(Cond[c], Without(s, lost)) \in {"unavailable", EvaluateState(Cond[c], s)}
  BY StateLoss
<1>3. EvaluateTemplate(Cond[c], Without(s, lost), n) \in {"unavailable", EvaluateTemplate(Cond[c], s, n)}
  BY TemplateLoss
<1> DEFINE type == InferConditionType(Cond[c])
<1> HIDE DEF type
<1>4. CASE type = "numeric"
  BY <1>1, <1>4 DEF EvaluateLeaf, type
<1>5. CASE type = "state"
  BY <1>2, <1>5 DEF EvaluateLeaf, type
<1>6. CASE type = "template"
  BY <1>3, <1>6 DEF EvaluateLeaf, type
<1>7. CASE type \notin {"numeric", "state", "template"}
  BY <1>7 DEF EvaluateLeaf, type
<1> QED
  BY <1>4, <1>5, <1>6, <1>7

\* One round of Parts.
PartsOf(g, c) == {c} \cup UNION {g[Members(c)[i]] : i \in DOMAIN Members(c)}

\* The parts of a condition include it, and the parts of its members.
LEMMA PartsUnfold ==
    ASSUME NEW c \in Conds
    PROVE  c \in Parts[c] /\ \A i \in 1..Len(Members(c)) : Parts[Members(c)[i]] \subseteq Parts[c]
<1> DEFINE W == SUBSET Conds
           Step == [g \in Maps(Conds, W) |-> [b \in Conds |-> PartsOf(g, b)]]
<1>1. ASSUME NEW g \in Maps(Conds, W), NEW b \in Conds PROVE PartsOf(g, b) \in W
  <2>1. \A i \in DOMAIN Members(b) : Members(b)[i] \in Conds
    BY CondFacts
  <2>2. \A i \in DOMAIN Members(b) : g[Members(b)[i]] \in SUBSET Conds
    BY <2>1 DEF Maps
  <2> QED
    BY <2>2 DEF PartsOf
<1>2. ASSUME NEW g \in Maps(Conds, W), NEW h \in Maps(Conds, W), NEW b \in Conds,
             \A a \in Conds : Depth[a] < Depth[b] => g[a] = h[a]
      PROVE  PartsOf(g, b) = PartsOf(h, b)
  <2>1. \A i \in DOMAIN Members(b) : g[Members(b)[i]] = h[Members(b)[i]]
    BY <1>2, CondFacts
  <2>2. {g[Members(b)[i]] : i \in DOMAIN Members(b)} = {h[Members(b)[i]] : i \in DOMAIN Members(b)}
    BY <2>1
  <2> QED
    BY <2>2 DEF PartsOf
<1> HIDE DEF W
<1>3. \A g, h \in Maps(Conds, W) : \A b \in Conds :
          (\A a \in Conds : Depth[a] < Depth[b] => g[a] = h[a]) => Step[g][b] = Step[h][b]
  BY <1>2
<1>4. Maps(Conds, W) # {}
  <2>1. [b \in Conds |-> {}] \in Maps(Conds, W)
    BY DEF Maps, W
  <2> QED
    BY <2>1
<1>5. Step \in [Maps(Conds, W) -> Maps(Conds, W)]
  BY <1>1 DEF Maps
<1>6. \A f \in Maps(Conds, W) : Step[f] = [b \in Conds |-> PartsOf(f, b)]
  OBVIOUS
<1> HIDE DEF Step
<1>7. Descends(Conds, Depth, Maps(Conds, W), Step)
  BY <1>3, <1>4, <1>5, ConditionAssumption DEF Descends
<1>8. \E f \in Maps(Conds, W) : f = Step[f]
  BY <1>7, PlainRecursion
<1>9. \E f : f = [b \in Conds |-> PartsOf(f, b)]
  BY <1>6, <1>8, ZenonT(60)
<1>10. Parts = [b \in Conds |-> PartsOf(Parts, b)]
  BY <1>9 DEF Parts, PartsOf
<1>11. Parts[c] = PartsOf(Parts, c)
  BY <1>10
<1>12. DOMAIN Members(c) = 1..Len(Members(c))
  BY CondFacts
<1> QED
  BY <1>11, <1>12 DEF PartsOf

\* Answers that kept or lost what they were: so does the answer made of them.
LEMMA AtOnceLoss ==
    ASSUME NEW s \in StoreType, NEW lost, NEW c \in Conds, NEW n, OnlyFacts(Cond[c]),
           NEW j \in [Conds -> Trilean], NEW k \in [Conds -> Trilean],
           \A i \in 1..Len(Members(c)) : k[Members(c)[i]] \in {"unavailable", j[Members(c)[i]]}
    PROVE  AtOnce(k, Without(s, lost), n, c) \in {"unavailable", AtOnce(j, s, n, c)}
<1> DEFINE M == Members(c)
           jc == {j[M[i]] : i \in DOMAIN M}
           kc == {k[M[i]] : i \in DOMAIN M}
<1>0. DOMAIN M = 1..Len(M) /\ \A i \in 1..Len(M) : M[i] \in Conds
  BY CondFacts
<1>1. ASSUME NEW x \in kc PROVE x = "unavailable" \/ x \in jc
  BY <1>0
<1>2. ASSUME NEW x \in jc PROVE "unavailable" \in kc \/ x \in kc
  BY <1>0
<1>3. jc \subseteq Trilean /\ kc \subseteq Trilean
  BY <1>0
<1>4. CASE TypeOf(c) = "and"
  <2>1. AtOnce(j, s, n, c) = AndAll(jc) /\ AtOnce(k, Without(s, lost), n, c) = AndAll(kc)
    BY <1>4 DEF AtOnce
  <2> HIDE DEF jc, kc
  <2>2. AndAll(kc) \in {"unavailable", AndAll(jc)}
    BY <1>1, <1>2, <1>3 DEF AndAll, Trilean
  <2> QED
    BY <2>1, <2>2
<1>5. CASE TypeOf(c) = "or"
  <2>1. AtOnce(j, s, n, c) = OrAll(jc) /\ AtOnce(k, Without(s, lost), n, c) = OrAll(kc)
    BY <1>5 DEF AtOnce
  <2> HIDE DEF jc, kc
  <2>2. OrAll(kc) \in {"unavailable", OrAll(jc)}
    BY <1>1, <1>2, <1>3 DEF OrAll, Trilean
  <2> QED
    BY <2>1, <2>2
<1>6. CASE TypeOf(c) = "not"
  <2>1. CASE M = <<>>
    BY <1>6, <2>1 DEF AtOnce
  <2>2. CASE M # <<>>
    <3>1. 1 \in 1..Len(M)
      BY <2>2, CondFacts
    <3>2. AtOnce(j, s, n, c) = Not(j[M[1]]) /\ AtOnce(k, Without(s, lost), n, c) = Not(k[M[1]])
      BY <1>6, <2>2 DEF AtOnce
    <3>3. k[M[1]] \in {"unavailable", j[M[1]]}
      BY <3>1
    <3> QED
      BY <3>2, <3>3 DEF Not
  <2> QED
    BY <2>1, <2>2
<1>7. CASE TypeOf(c) \notin {"and", "or", "not"}
  <2>1. AtOnce(j, s, n, c) = EvaluateLeaf(Cond[c], s, n)
    BY <1>7 DEF AtOnce
  <2>2. AtOnce(k, Without(s, lost), n, c) = EvaluateLeaf(Cond[c], Without(s, lost), n)
    BY <1>7 DEF AtOnce
  <2> QED
    BY <2>1, <2>2, LeafLoss
<1> QED
  BY <1>4, <1>5, <1>6, <1>7

\* Losing facts leaves a condition its answer or takes it away.
LEMMA JudgeLoss ==
    ASSUME NEW s \in StoreType, NEW lost, NEW ripe, NEW n
    PROVE  \A c \in Conds : ~AsksAvailability(c) =>
               Judge(Without(s, lost), ripe, n)[c] \in {"unavailable", Judge(s, ripe, n)[c]}
<1> DEFINE l == Without(s, lost)
           j == Judge(s, ripe, n)
           k == Judge(l, ripe, n)
           Good(c) == ~AsksAvailability(c) => k[c] \in {"unavailable", j[c]}
           S == {m \in Nat : \A c \in Conds : Depth[c] = m => Good(c)}
<1>1. j \in [Conds -> Trilean] /\ \A c \in Conds : j[c] = Verdict(j, s, ripe, n, c)
  BY JudgeUnfold
<1>2. k \in [Conds -> Trilean] /\ \A c \in Conds : k[c] = Verdict(k, l, ripe, n, c)
  BY JudgeUnfold
<1> HIDE DEF j, k
<1>3. ASSUME NEW m \in Nat, \A i \in Nat : i < m => i \in S PROVE m \in S
  <2> SUFFICES ASSUME NEW c \in Conds, Depth[c] = m, ~AsksAvailability(c) PROVE k[c] \in {"unavailable", j[c]}
    OBVIOUS
  <2>1. OnlyFacts(Cond[c])
    BY PartsUnfold DEF AsksAvailability, OnlyFacts
  <2>2. ASSUME NEW i \in 1..Len(Members(c)) PROVE k[Members(c)[i]] \in {"unavailable", j[Members(c)[i]]}
    <3>1. Members(c)[i] \in Conds /\ Depth[Members(c)[i]] \in Nat /\ Depth[Members(c)[i]] < m
      BY CondFacts
    <3>2. ~AsksAvailability(Members(c)[i])
      BY PartsUnfold DEF AsksAvailability
    <3>3. Good(Members(c)[i])
      BY <1>3, <3>1
    <3> QED
      BY <3>2, <3>3
  <2>3. AtOnce(k, l, n, c) \in {"unavailable", AtOnce(j, s, n, c)}
    BY <1>1, <1>2, <2>1, <2>2, AtOnceLoss
  <2> QED
    BY <1>1, <1>2, <2>3 DEF Verdict
<1> HIDE DEF S, Good
<1>4. Nat \subseteq S
  BY <1>3, Induction
<1>5. \A c \in Conds : Good(c)
  BY <1>4, CondFacts DEF S
<1> QED
  BY <1>5 DEF Good, j, k

StoreTyped == store \in StoreType

LEMMA StoreInvariant == Spec => []StoreTyped
<1> DEFINE V == {NoValue} \cup UNION {Values[f] : f \in FactKeys}
           R == [value : V, quality : {"good", "stale", "unknown"}, at : Int]
<1>0. StoreType = [FactKeys -> R]
  BY DEF StoreType
<1>1. Init => StoreTyped
  <2>1. [value |-> NoValue, quality |-> "unknown", at |-> Never] \in R
    BY DEF Never
  <2> HIDE DEF R
  <2> QED
    BY <1>0, <2>1 DEF Init, StoreTyped
<1>2. ASSUME SimInv, StoreTyped, Tick PROVE StoreTyped'
  <2>1. PICK reported \in [FactKeys -> V] : store' = RefreshStore(reported, now)
    BY <1>2 DEF Tick, Reports
  <2>2. now \in Int
    BY <1>2 DEF SimInv
  <2> HIDE DEF V
  <2>3. ASSUME NEW f \in FactKeys PROVE store'[f] \in R
    <3> DEFINE new == [store[f] EXCEPT !.quality = IF now - store[f].at > 2 * Interval THEN "stale" ELSE "good"]
    <3>1. store[f] \in R /\ reported[f] \in V
      BY <1>0, <1>2, <2>1 DEF StoreTyped
    <3>2. (IF now - store[f].at > 2 * Interval THEN "stale" ELSE "good") \in {"good", "stale"}
      OBVIOUS
    <3>3. new \in R
      BY <3>1, <3>2
    <3>4. [value |-> reported[f], quality |-> "good", at |-> now] \in R
      BY <2>2, <3>1
    <3> HIDE DEF R, new
    <3>5. store'[f] = IF reported[f] # NoValue THEN [value |-> reported[f], quality |-> "good", at |-> now]
                      ELSE IF store[f].quality = "unknown" THEN store[f] ELSE new
      BY <2>1 DEF RefreshStore, new
    <3> QED
      BY <3>1, <3>3, <3>4, <3>5
  <2> HIDE DEF R
  <2>4. store' = [f \in FactKeys |-> store'[f]]
    BY <2>1 DEF RefreshStore
  <2> QED
    BY <1>0, <2>3, <2>4 DEF StoreTyped
<1>3. ASSUME StoreTyped, Validate \/ Finish \/ UNCHANGED vars PROVE StoreTyped'
  BY <1>3 DEF StoreTyped, Validate, Finish, vars
<1>4. SimInv /\ StoreTyped /\ [Next]_vars => StoreTyped'
  BY <1>2, <1>3 DEF Next
<1> QED
  BY SimulationInvariant, <1>1, <1>4, PTL DEF Spec

\* "Stale or unknown facts never satisfy a condition": whichever facts are lost,
\* a condition that does not ask for their quality or age keeps its answer or
\* becomes unavailable.
THEOREM LossDecidesNothing == Spec => []LossNeverDecides
<1>1. SimInv /\ StoreTyped => LossNeverDecides
  <2> SUFFICES ASSUME SimInv, store \in StoreType, Started, NEW r \in Roots(Plan), NEW lost \in SUBSET FactKeys,
                      ~AsksAvailability(r)
               PROVE  Answer(r, Without(store, lost), dwell, LastTick)
                          \in {"unavailable", Answer(r, store, dwell, LastTick)}
    BY DEF LossNeverDecides, Without, StoreTyped
  <2>1. LastTick \in Nat /\ Past(dwell, LastTick)
    BY DEF SimInv, Started, LastTick
  <2>2. r \in Conds
    BY DEF SimInv, Wellformed, Roots, Plan
  <2>3. \A s : Answer(r, s, dwell, LastTick) = Judge(s, ExplainDwell(dwell, LastTick), LastTick)[r]
    BY <2>1, <2>2, AnswerIsExplain DEF Explain
  <2> QED
    BY <2>2, <2>3, JudgeLoss
<1> QED
  BY SimulationInvariant, StoreInvariant, <1>1, PTL

------------------------------------------------------------------------------
(* The search for cycles: the graph *)

LEMMA FiniteRange ==
    ASSUME NEW S, IsFiniteSet(S), NEW f, f = [x \in S |-> f[x]]
    PROVE  IsFiniteSet({f[x] : x \in S})
<1> DEFINE T == {f[x] : x \in S}
<1>1. f \in Surjection(S, T)
  BY DEF Surjection
<1> QED
  BY <1>1, FS_Surjection

Deps(c, n) == ToSet(Dependencies(c, n))

LEMMA DependenciesIn ==
    ASSUME NEW c, Wellformed(c), NEW n
    PROVE  /\ Dependencies(c, n) \in Seq(Deps(c, n)) /\ Len(Dependencies(c, n)) \in Nat
           /\ DOMAIN Dependencies(c, n) = 1..Len(Dependencies(c, n))
           /\ Deps(c, n) = {Dependencies(c, n)[i] : i \in 1..Len(Dependencies(c, n))}
           /\ Deps(c, n) # {} => n \in ClientNames(c)
<1> DEFINE mine == {i \in DOMAIN c.clients : c.clients[i].name = n}
           size == Len(c.clients)
<1>0. DOMAIN c.clients = 1..size /\ size \in Nat
  BY DEF Wellformed
<1>1. Dependencies(c, n) = IF mine = {} THEN <<>> ELSE c.clients[Max(mine)].dependsOn
  BY DEF Dependencies
<1>2. mine # {} => Max(mine) \in DOMAIN c.clients
  <2> SUFFICES ASSUME mine # {} PROVE Max(mine) \in mine
    OBVIOUS
  <2> DEFINE T == {size - i : i \in mine}
  <2>1. T \in SUBSET Nat /\ T # {}
    <3>1. \A i \in mine : i \in 1..size
      BY <1>0
    <3>2. size \in Nat
      BY <1>0
    <3> HIDE DEF mine, size
    <3>3. \A i \in mine : size - i \in Nat
      BY <3>1, <3>2
    <3> QED
      BY <3>3
  <2>2. PICK m \in T : \A x \in T : m <= x
    BY <2>1, Least
  <2>3. PICK i \in mine : m = size - i
    BY <2>2
  <2>4. \A k \in mine : i >= k
    <3> SUFFICES ASSUME NEW k \in mine PROVE i >= k
      OBVIOUS
    <3>1. size - i <= size - k
      BY <2>2, <2>3
    <3>2. i \in Nat /\ k \in Nat
      BY <1>0
    <3> QED
      BY <1>0, <3>1, <3>2
  <2> HIDE DEF mine
  <2> QED
    BY <2>3, <2>4 DEF Max
<1>3. Dependencies(c, n) \in Seq(STRING)
  <2>1. mine # {} => c.clients[Max(mine)].dependsOn \in Seq(STRING)
    BY <1>2 DEF Wellformed
  <2>2. <<>> \in Seq(STRING)
    OBVIOUS
  <2> HIDE DEF mine
  <2>3. CASE mine = {}
    BY <1>1, <2>2, <2>3
  <2>4. CASE mine # {}
    BY <1>1, <2>1, <2>4
  <2> QED
    BY <2>3, <2>4
<1>4. mine # {} => n \in ClientNames(c)
  BY DEF ClientNames
<1> HIDE DEF mine
<1>5. Dependencies(c, n) = <<>> \/ n \in ClientNames(c)
  BY <1>1, <1>4
<1> DEFINE q == Dependencies(c, n)
<1> HIDE DEF q
<1>6. q \in Seq(ToSet(q)) /\ Len(q) \in Nat /\ DOMAIN q = 1..Len(q)
  <2>1. q \in Seq(STRING)
    BY <1>3 DEF q
  <2> QED
    BY <2>1, SeqDef DEF ToSet
<1>7. ToSet(q) = {q[i] : i \in 1..Len(q)}
  BY <1>6 DEF ToSet
<1>8. q = <<>> => ToSet(q) = {}
  BY DEF ToSet
<1> QED
  BY <1>5, <1>6, <1>7, <1>8 DEF Deps, q

\* The nodes are closed under depends_on and finite.
LEMMA NodesFacts ==
    ASSUME NEW c, Wellformed(c)
    PROVE  /\ ClientNames(c) \subseteq Nodes(c)
           /\ \A n : Deps(c, n) \subseteq Nodes(c)
           /\ IsFiniteSet(ClientNames(c)) /\ IsFiniteSet(Nodes(c))
<1>1. ASSUME NEW n PROVE Deps(c, n) \subseteq Nodes(c)
  BY DependenciesIn DEF Nodes, Deps
<1>2. IsFiniteSet(ClientNames(c))
  <2> DEFINE f == [i \in 1..Len(c.clients) |-> c.clients[i].name]
  <2>1. DOMAIN c.clients = 1..Len(c.clients) /\ Len(c.clients) \in Nat
    BY DEF Wellformed
  <2>2. IsFiniteSet(1..Len(c.clients))
    BY <2>1, FS_Interval
  <2>3. f = [x \in 1..Len(c.clients) |-> f[x]]
    OBVIOUS
  <2>4. {f[x] : x \in 1..Len(c.clients)} = ClientNames(c)
    BY <2>1 DEF ClientNames
  <2> HIDE DEF f
  <2> QED
    BY <2>2, <2>3, <2>4, FiniteRange
<1>3. ASSUME NEW n PROVE IsFiniteSet(Deps(c, n))
  <2> DEFINE q == Dependencies(c, n)
  <2>1. q \in Seq(Deps(c, n)) /\ Len(q) \in Nat /\ Deps(c, n) = {q[i] : i \in 1..Len(q)}
    BY DependenciesIn
  <2> HIDE DEF q
  <2>2. q = [x \in 1..Len(q) |-> q[x]]
    BY <2>1
  <2>3. IsFiniteSet(1..Len(q))
    BY <2>1, FS_Interval
  <2> QED
    BY <2>1, <2>2, <2>3, FiniteRange
<1> DEFINE g == [n \in ClientNames(c) |-> Deps(c, n)]
           F == {g[n] : n \in ClientNames(c)}
<1>4. IsFiniteSet(F)
  <2>1. g = [n \in ClientNames(c) |-> g[n]]
    OBVIOUS
  <2> HIDE DEF g
  <2> QED
    BY <1>2, <2>1, FiniteRange
<1>5. IsFiniteSet(UNION F)
  <2>1. \A T \in F : IsFiniteSet(T)
    BY <1>3
  <2> HIDE DEF F
  <2> QED
    BY <1>4, <2>1, FS_UNION
<1>6. Nodes(c) = ClientNames(c) \cup UNION F
  BY DEF Nodes, Deps
<1> HIDE DEF F
<1>7. IsFiniteSet(Nodes(c))
  BY <1>2, <1>5, <1>6, FS_Union
<1>8. ClientNames(c) \subseteq Nodes(c)
  BY <1>6
<1> QED
  BY <1>1, <1>2, <1>7, <1>8

------------------------------------------------------------------------------
(* The search for cycles: the recursion *)

\* The searches that may follow s: nothing is unvisited, no report withdrawn.
Grown(c, s) == {x \in Searches(c) : s.visited \subseteq x.visited /\ (s.reported => x.reported)}

\* One round of the loop of FollowDeps.
FRound(c, q, node, i, s) ==
    LET d == Dependencies(c, node)[i] IN
    IF s.found THEN s
    ELSE IF d \notin s.visited THEN q[d][s]
    ELSE IF d \in s.path THEN [s EXCEPT !.found = TRUE, !.reported = TRUE]
    ELSE s

\* v[i] is the search after i dependencies of node.
Followed(v, c, q, node, start) ==
    /\ \A i \in 0..Len(Dependencies(c, node)) : v[i] \in Grown(c, start)
    /\ v[0] = start
    /\ \A i \in 1..Len(Dependencies(c, node)) : v[i] = FRound(c, q, node, i, v[i - 1])

Guided(c, q) == \A n \in Nodes(c) : \A s \in Searches(c) : q[n][s] \in Grown(c, s)

\* p and q answer alike whatever a search from start may ask.
AlikeFrom(c, p, q, start) ==
    \A x \in Grown(c, start) : \A d \in Nodes(c) : d \notin x.visited => p[d][x] = q[d][x]

LEMMA SearchFields ==
    ASSUME NEW c, NEW s \in Searches(c)
    PROVE  /\ s.visited \subseteq Nodes(c) /\ s.path \subseteq Nodes(c)
           /\ s.found \in BOOLEAN /\ s.reported \in BOOLEAN
           /\ s \in Grown(c, s)
           /\ \A x \in Grown(c, s) : x \in Searches(c) /\ Grown(c, x) \subseteq Grown(c, s)
<1>1. s.visited \subseteq Nodes(c) /\ s.path \subseteq Nodes(c) /\ s.found \in BOOLEAN /\ s.reported \in BOOLEAN
  BY DEF Searches
<1> QED
  BY <1>1 DEF Grown

\* A cycle found is reported.
Reported(s) == [s EXCEPT !.found = TRUE, !.reported = TRUE]

LEMMA ReportedFields ==
    ASSUME NEW c, NEW s \in Searches(c)
    PROVE  /\ Reported(s) \in Grown(c, s)
           /\ Reported(s).found = TRUE /\ Reported(s).reported = TRUE
<1>1. Reported(s) \in Searches(c)
  BY DEF Reported, Searches
<1>2. Reported(s).found = TRUE /\ Reported(s).reported = TRUE /\ Reported(s).visited = s.visited
  BY DEF Reported, Searches
<1> HIDE DEF Reported
<1> QED
  BY <1>1, <1>2 DEF Grown

LEMMA EnterFields ==
    ASSUME NEW c, NEW s \in Searches(c), NEW node \in Nodes(c)
    PROVE  /\ Enter(s, node) \in Grown(c, s)
           /\ Enter(s, node).visited = s.visited \cup {node}
           /\ Enter(s, node).path = s.path \cup {node}
           /\ Enter(s, node).found = s.found /\ Enter(s, node).reported = s.reported
<1>1. Enter(s, node) \in Searches(c)
  BY DEF Enter, Searches
<1>2. /\ Enter(s, node).visited = s.visited \cup {node}
      /\ Enter(s, node).path = s.path \cup {node}
      /\ Enter(s, node).found = s.found /\ Enter(s, node).reported = s.reported
  BY DEF Enter, Searches
<1> QED
  BY <1>1, <1>2 DEF Grown

LEMMA LeaveFields ==
    ASSUME NEW c, NEW s \in Searches(c), NEW node
    PROVE  /\ Leave(s, node) \in Grown(c, s)
           /\ Leave(s, node).visited = s.visited
           /\ Leave(s, node).path = IF s.found THEN s.path ELSE s.path \ {node}
           /\ Leave(s, node).found = s.found /\ Leave(s, node).reported = s.reported
<1>1. Leave(s, node) \in Searches(c)
  BY DEF Leave, Searches
<1>2. /\ Leave(s, node).visited = s.visited
      /\ Leave(s, node).path = IF s.found THEN s.path ELSE s.path \ {node}
      /\ Leave(s, node).found = s.found /\ Leave(s, node).reported = s.reported
  BY DEF Leave, Searches
<1> QED
  BY <1>1, <1>2 DEF Grown

LEMMA FRoundGrown ==
    ASSUME NEW c, Wellformed(c), NEW q, Guided(c, q), NEW node,
           NEW i \in 1..Len(Dependencies(c, node)), NEW s \in Searches(c)
    PROVE  FRound(c, q, node, i, s) \in Grown(c, s)
<1> DEFINE d == Dependencies(c, node)[i]
<1>1. d \in Nodes(c)
  BY DependenciesIn, NodesFacts
<1> HIDE DEF d
<1>2. q[d][s] \in Grown(c, s)
  BY <1>1 DEF Guided
<1>3. s \in Grown(c, s)
  BY SearchFields
<1>4. Reported(s) \in Grown(c, s)
  BY ReportedFields
<1> QED
  BY <1>2, <1>3, <1>4 DEF FRound, Reported, d

LEMMA FollowedExists ==
    ASSUME NEW c, Wellformed(c), NEW q, Guided(c, q), NEW node, NEW start \in Searches(c)
    PROVE  \E v : Followed(v, c, q, node, start)
<1> DEFINE n == Len(Dependencies(c, node))
           W == Grown(c, start)
           F == [i \in 1..n |-> [s \in W |-> FRound(c, q, node, i, s)]]
<1>0. n \in Nat
  BY DependenciesIn
<1>1. start \in W
  BY SearchFields
<1>2. ASSUME NEW i \in 1..n, NEW s \in W PROVE FRound(c, q, node, i, s) \in W
  <2>1. s \in Searches(c) /\ Grown(c, s) \subseteq W
    BY SearchFields
  <2> QED
    BY <2>1, FRoundGrown
<1> HIDE DEF W, n
<1>3. F \in Maps(1..n, Maps(W, W)) /\ \A i \in 1..n : \A s \in W : F[i][s] = FRound(c, q, node, i, s)
  BY <1>2 DEF Maps
<1> HIDE DEF F
<1>4. PICK f \in Maps(0..n, W) : f = [i \in 0..n |-> IF i = 0 THEN start ELSE F[i][f[i - 1]]]
  BY <1>0, <1>1, <1>3, Loop
<1>5. \A i \in 1..n : i # 0 /\ i \in 0..n /\ i - 1 \in 0..n
  BY <1>0
<1>6. \A i \in 0..n : f[i] \in W
  BY <1>4 DEF Maps
<1>7. f[0] = start
  BY <1>0, <1>4
<1>8. \A i \in 1..n : f[i] = F[i][f[i - 1]]
  BY <1>4, <1>5
<1>9. \A i \in 1..n : f[i] = FRound(c, q, node, i, f[i - 1])
  BY <1>3, <1>5, <1>6, <1>8
<1> QED
  BY <1>6, <1>7, <1>9 DEF Followed, W, n

\* FollowDeps asks nothing but the nodes still unvisited when it asks.
LEMMA FollowIs ==
    ASSUME NEW c, Wellformed(c), NEW p, NEW q, NEW node, NEW start, NEW v,
           Followed(v, c, q, node, start), AlikeFrom(c, p, q, start)
    PROVE  FollowDeps(c, node, p, start) = v[Len(Dependencies(c, node))]
<1> DEFINE n == Len(Dependencies(c, node))
           body(g) == [i \in 0..n |-> IF i = 0 THEN start ELSE FRound(c, p, node, i, g[i - 1])]
           u == CHOOSE g : g = body(g)
           w == [i \in 0..n |-> v[i]]
<1>0. n \in Nat
  BY DependenciesIn
<1>1. FollowDeps(c, node, p, start) = u[n]
  BY DEF FollowDeps, FRound
<1>2. \A i \in 1..n : Dependencies(c, node)[i] \in Nodes(c)
  BY DependenciesIn, NodesFacts
<1>3. ASSUME NEW i \in 1..n PROVE FRound(c, p, node, i, v[i - 1]) = v[i]
  <2>1. i - 1 \in 0..n
    BY <1>0
  <2>2. v[i - 1] \in Grown(c, start) /\ v[i] = FRound(c, q, node, i, v[i - 1])
    BY <2>1 DEF Followed
  <2> QED
    BY <1>2, <2>2 DEF FRound, AlikeFrom
<1>4. v[0] = start
  BY DEF Followed
<1> HIDE DEF n
<1>5. \A i \in 0..n : i # 0 => i \in 1..n /\ i - 1 \in 0..n
  BY <1>0
<1>6. \A i \in 0..n : body(w)[i] = w[i]
  BY <1>3, <1>4, <1>5
<1>7. w = body(w)
  BY <1>6
<1>8. u = body(u)
  BY <1>7
<1> HIDE DEF u, w
<1>9. u[0] = v[0] /\ \A i \in 1..n : u[i - 1] = v[i - 1] => u[i] = v[i]
  <2>1. 0 \in 0..n /\ \A i \in 1..n : i \in 0..n /\ i # 0
    BY <1>0
  <2>2. u[0] = start /\ \A i \in 1..n : u[i] = FRound(c, p, node, i, u[i - 1])
    BY <1>8, <2>1
  <2> QED
    BY <1>3, <1>4, <2>2
<1> DEFINE S == {i \in Nat : i <= n => u[i] = v[i]}
<1>10. ASSUME NEW i \in Nat, \A j \in Nat : j < i => j \in S PROVE i \in S
  <2>1. CASE i = 0
    BY <1>9, <2>1
  <2>2. CASE i # 0
    <3>1. i - 1 \in Nat /\ i - 1 < i /\ (i <= n => i \in 1..n /\ i - 1 <= n)
      BY <1>0, <2>2
    <3> QED
      BY <1>9, <1>10, <3>1
  <2> QED
    BY <2>1, <2>2
<1> HIDE DEF S
<1>11. Nat \subseteq S
  BY <1>10, Induction
<1>12. u[n] = v[n]
  BY <1>0, <1>11 DEF S
<1> QED
  BY <1>1, <1>12 DEF n

LEMMA FollowLocal ==
    ASSUME NEW c, Wellformed(c), NEW p, NEW q, Guided(c, q), NEW node, NEW start \in Searches(c),
           AlikeFrom(c, p, q, start)
    PROVE  /\ FollowDeps(c, node, p, start) = FollowDeps(c, node, q, start)
           /\ FollowDeps(c, node, q, start) \in Grown(c, start)
           /\ \E v : /\ Followed(v, c, q, node, start)
                     /\ FollowDeps(c, node, q, start) = v[Len(Dependencies(c, node))]
<1>1. PICK v : Followed(v, c, q, node, start)
  BY FollowedExists
<1>2. AlikeFrom(c, q, q, start)
  BY DEF AlikeFrom
<1>3. FollowDeps(c, node, p, start) = v[Len(Dependencies(c, node))]
  BY <1>1, FollowIs
<1>4. FollowDeps(c, node, q, start) = v[Len(Dependencies(c, node))]
  BY <1>1, <1>2, FollowIs
<1>5. Len(Dependencies(c, node)) \in 0..Len(Dependencies(c, node))
  BY DependenciesIn
<1>6. v[Len(Dependencies(c, node))] \in Grown(c, start)
  BY <1>1, <1>5 DEF Followed
<1> QED
  BY <1>1, <1>3, <1>4, <1>6

\* What hasCycle does with node, calling q for its dependencies.
Explored(c, q, node, s) == Leave(FollowDeps(c, node, q, Enter(s, node)), node)

\* Unvisited nodes go down; a search from a visited node comes before those
\* from the unvisited ones it calls.
Unvisited(c, s) == Cardinality(Nodes(c) \ s.visited)
SearchRank(c, node, s) == 2 * Unvisited(c, s) + (IF node \in s.visited THEN 1 ELSE 0)

LEMMA FewerUnvisited ==
    ASSUME NEW c, Wellformed(c), NEW s \in Searches(c), NEW x \in Searches(c), s.visited \subseteq x.visited
    PROVE  /\ Unvisited(c, s) \in Nat /\ Unvisited(c, x) \in Nat
           /\ Unvisited(c, x) <= Unvisited(c, s)
           /\ \A n \in Nodes(c) : n \notin s.visited /\ n \in x.visited => Unvisited(c, x) < Unvisited(c, s)
<1> DEFINE A == Nodes(c) \ s.visited
           B == Nodes(c) \ x.visited
<1>1. IsFiniteSet(Nodes(c))
  BY NodesFacts
<1>2. IsFiniteSet(A) /\ IsFiniteSet(B) /\ B \subseteq A
  BY <1>1, FS_Subset
<1>3. \A n \in Nodes(c) : n \notin s.visited /\ n \in x.visited => B # A
  OBVIOUS
<1> HIDE DEF A, B
<1>4. Cardinality(A) \in Nat /\ Cardinality(B) \in Nat
  BY <1>2, FS_CardinalityType
<1>5. Cardinality(B) <= Cardinality(A) /\ (Cardinality(B) = Cardinality(A) => B = A)
  BY <1>2, FS_Subset
<1>6. Unvisited(c, s) = Cardinality(A) /\ Unvisited(c, x) = Cardinality(B)
  BY DEF Unvisited, A, B
<1>7. B # A => Cardinality(B) < Cardinality(A)
  BY <1>4, <1>5
<1> QED
  BY <1>3, <1>4, <1>5, <1>6, <1>7

LEMMA CallsDescend ==
    ASSUME NEW c, Wellformed(c), NEW node \in Nodes(c), NEW s \in Searches(c),
           NEW x \in Grown(c, Enter(s, node)), NEW d \in Nodes(c), d \notin x.visited
    PROVE  x \in Searches(c) /\ SearchRank(c, d, x) < SearchRank(c, node, s)
<1>1. Enter(s, node) \in Searches(c) /\ Enter(s, node).visited = s.visited \cup {node}
  BY EnterFields DEF Grown
<1>2. x \in Searches(c) /\ s.visited \subseteq x.visited /\ node \in x.visited
  BY <1>1 DEF Grown
<1>3. /\ Unvisited(c, s) \in Nat /\ Unvisited(c, x) \in Nat
      /\ Unvisited(c, x) <= Unvisited(c, s)
      /\ node \notin s.visited => Unvisited(c, x) < Unvisited(c, s)
  BY <1>2, FewerUnvisited
<1>4. SearchRank(c, d, x) = 2 * Unvisited(c, x)
  BY <1>3 DEF SearchRank
<1>5. CASE node \in s.visited
  BY <1>2, <1>3, <1>4, <1>5 DEF SearchRank
<1>6. CASE node \notin s.visited
  BY <1>2, <1>3, <1>4, <1>6 DEF SearchRank
<1> QED
  BY <1>5, <1>6

LEMMA ExploredGrown ==
    ASSUME NEW c, Wellformed(c), NEW q, Guided(c, q), NEW node \in Nodes(c), NEW s \in Searches(c)
    PROVE  Explored(c, q, node, s) \in Grown(c, s)
<1> DEFINE e == Enter(s, node)
           r == FollowDeps(c, node, q, e)
<1>1. e \in Grown(c, s)
  BY EnterFields
<1>2. e \in Searches(c) /\ Grown(c, e) \subseteq Grown(c, s)
  BY <1>1, SearchFields
<1>3. AlikeFrom(c, q, q, e)
  BY DEF AlikeFrom
<1> HIDE DEF e
<1>4. r \in Grown(c, e)
  BY <1>2, <1>3, FollowLocal
<1> HIDE DEF r
<1>5. r \in Searches(c) /\ Grown(c, r) \subseteq Grown(c, s)
  BY <1>2, <1>4, SearchFields
<1>6. Leave(r, node) \in Grown(c, r)
  BY <1>5, LeaveFields
<1> QED
  BY <1>5, <1>6 DEF Explored, e, r

\* Two searchers that agree below a call's rank answer the call alike.
LEMMA ExploredLocal ==
    ASSUME NEW c, Wellformed(c), NEW p, NEW q, Guided(c, q), NEW node \in Nodes(c), NEW s \in Searches(c),
           \A d \in Nodes(c) : \A x \in Searches(c) :
               SearchRank(c, d, x) < SearchRank(c, node, s) => p[d][x] = q[d][x]
    PROVE  Explored(c, p, node, s) = Explored(c, q, node, s)
<1>1. AlikeFrom(c, p, q, Enter(s, node))
  BY CallsDescend DEF AlikeFrom
<1>2. Enter(s, node) \in Searches(c)
  BY EnterFields DEF Grown
<1> QED
  BY <1>1, <1>2, FollowLocal DEF Explored

\* hasCycle is total: it answers for every node and every state of the search.
LEMMA HasCycleUnfold ==
    ASSUME NEW c, Wellformed(c)
    PROVE  /\ Guided(c, HasCycle(c))
           /\ \A node \in Nodes(c) : \A s \in Searches(c) :
                  HasCycle(c)[node][s] = Explored(c, HasCycle(c), node, s)
<1> DEFINE N == Nodes(c)
           X == Searches(c)
           C == N \X X
           V == [b \in C |-> Grown(c, b[2])]
           Rank == [b \in C |-> SearchRank(c, b[1], b[2])]
           curry(g) == [node \in N |-> [s \in X |-> g[<<node, s>>]]]
           G == Family(C, V)
           Step == [g \in G |-> [b \in C |-> Explored(c, curry(g), b[1], b[2])]]
<1>a. \A b \in C : b[1] \in N /\ b[2] \in X /\ b = <<b[1], b[2]>>
  OBVIOUS
<1>b. \A node \in N : \A s \in X : <<node, s>> \in C /\ <<node, s>>[1] = node /\ <<node, s>>[2] = s
  OBVIOUS
<1>c. \A g : \A node \in N : \A s \in X : curry(g)[node][s] = g[<<node, s>>]
  OBVIOUS
<1>d. \A node \in N : \A s \in X : SearchRank(c, node, s) \in Nat
  <2> SUFFICES ASSUME NEW node \in N, NEW s \in X PROVE SearchRank(c, node, s) \in Nat
    OBVIOUS
  <2>1. Unvisited(c, s) \in Nat
    BY FewerUnvisited
  <2> QED
    BY <2>1 DEF SearchRank
<1>e. \A b \in C : V[b] = Grown(c, b[2])
  OBVIOUS
<1>f. \A b \in C : Rank[b] = SearchRank(c, b[1], b[2])
  OBVIOUS
<1>g. ASSUME NEW g, g = [b \in C |-> g[b]], \A b \in C : g[b] \in V[b] PROVE g \in G
  BY <1>g DEF Family
<1>h. \A g \in G : g = [b \in C |-> g[b]] /\ \A b \in C : g[b] \in V[b]
  BY DEF Family
<1>i. \A f \in G : Step[f] = [b \in C |-> Explored(c, curry(f), b[1], b[2])]
  OBVIOUS
<1>j. Rank \in [C -> Nat]
  BY <1>a, <1>d
<1> HIDE DEF C, V, Rank, curry, G
<1>1. ASSUME NEW g \in G PROVE Guided(c, curry(g))
  <2> SUFFICES ASSUME NEW node \in N, NEW s \in X PROVE curry(g)[node][s] \in Grown(c, s)
    BY DEF Guided
  <2> DEFINE b == <<node, s>>
  <2>1. b \in C /\ b[2] = s
    BY <1>b
  <2>2. curry(g)[node][s] = g[b]
    BY <1>c
  <2> HIDE DEF b
  <2>3. g[b] \in Grown(c, b[2])
    BY <1>e, <1>h, <2>1
  <2> QED
    BY <2>1, <2>2, <2>3
<1>2. ASSUME NEW g \in G PROVE [b \in C |-> Explored(c, curry(g), b[1], b[2])] \in G
  <2> DEFINE h == [b \in C |-> Explored(c, curry(g), b[1], b[2])]
  <2>1. \A b \in C : h[b] \in V[b]
    BY <1>a, <1>e, <1>1, ExploredGrown
  <2>2. h = [b \in C |-> h[b]]
    OBVIOUS
  <2> HIDE DEF h
  <2>3. h \in G
    BY <1>g, <2>1, <2>2
  <2> QED
    BY <2>3 DEF h
<1>3. Step \in [G -> G]
  BY <1>2
<1>4. ASSUME NEW g, NEW h \in G, NEW b \in C,
             \A a \in C : Rank[a] < Rank[b] => g[a] = h[a]
      PROVE  Explored(c, curry(g), b[1], b[2]) = Explored(c, curry(h), b[1], b[2])
  <2>1. b[1] \in N /\ b[2] \in X
    BY <1>a
  <2>2. ASSUME NEW d \in N, NEW x \in X, SearchRank(c, d, x) < SearchRank(c, b[1], b[2])
        PROVE  curry(g)[d][x] = curry(h)[d][x]
    <3>1. <<d, x>> \in C /\ Rank[<<d, x>>] < Rank[b]
      BY <1>b, <1>f, <2>2
    <3> QED
      BY <1>c, <1>4, <3>1
  <2>3. Guided(c, curry(h))
    BY <1>1
  <2> QED
    BY <2>1, <2>2, <2>3, ExploredLocal
<1>5. ASSUME NEW g \in G, NEW h \in G, NEW b \in C,
             \A a \in C : Rank[a] < Rank[b] => g[a] = h[a]
      PROVE  Step[g][b] = Step[h][b]
  BY <1>i, <1>4, <1>5
<1>6. G # {}
  <2> DEFINE g == [b \in C |-> b[2]]
  <2>1. \A b \in C : g[b] \in V[b]
    BY <1>a, <1>e, SearchFields
  <2>2. g = [b \in C |-> g[b]]
    OBVIOUS
  <2> HIDE DEF g
  <2>3. g \in G
    BY <1>g, <2>1, <2>2
  <2> QED
    BY <2>3
<1> HIDE DEF Step
<1>7. Descends(C, Rank, G, Step)
  BY <1>3, <1>5, <1>6, <1>j DEF Descends
<1>8. PICK f \in G : f = Step[f]
  BY <1>7, Recursion DEF G
<1>9. \A b \in C : f[b] = Explored(c, curry(f), b[1], b[2])
  <2> DEFINE e(b) == Explored(c, curry(f), b[1], b[2])
  <2>1. f = [b \in C |-> e(b)]
    BY <1>i, <1>8
  <2> HIDE DEF e
  <2>2. \A b \in C : f[b] = e(b)
    BY <2>1
  <2> QED
    BY <2>2 DEF e
<1> DEFINE F == curry(f)
<1>10. Guided(c, F)
  BY <1>1
<1>11. ASSUME NEW node \in N, NEW s \in X PROVE F[node][s] = Explored(c, F, node, s)
  <2> DEFINE b == <<node, s>>
  <2>1. b \in C /\ b[1] = node /\ b[2] = s
    BY <1>b
  <2>2. F[node][s] = f[b]
    BY <1>c
  <2> HIDE DEF b
  <2>3. f[b] = Explored(c, F, b[1], b[2])
    BY <1>9, <2>1
  <2> QED
    BY <2>1, <2>2, <2>3
<1> DEFINE body(g) == [node \in N |-> [s \in X |-> Explored(c, g, node, s)]]
           u == CHOOSE g : g = body(g)
<1>12. HasCycle(c) = u
  BY DEF HasCycle, Explored
<1>13. F = body(F)
  <2>1. F = [node \in N |-> [s \in X |-> F[node][s]]]
    BY DEF curry
  <2> HIDE DEF F
  <2>2. \A node \in N : [s \in X |-> F[node][s]] = [s \in X |-> Explored(c, F, node, s)]
    BY <1>11
  <2>3. [node \in N |-> [s \in X |-> F[node][s]]] = body(F)
    BY <2>2
  <2> QED
    BY <2>1, <2>3
<1> HIDE DEF F
<1>14. u = body(u)
  BY <1>13
<1> HIDE DEF u
<1>15. \A node \in N : \A s \in X : u[node][s] = Explored(c, u, node, s)
  BY <1>14
<1>16. \A node \in N : \A s \in X : u[node][s] = F[node][s]
  <2> DEFINE S == {k \in Nat : \A node \in N : \A s \in X :
                                   SearchRank(c, node, s) = k => u[node][s] = F[node][s]}
  <2>1. ASSUME NEW k \in Nat, \A j \in Nat : j < k => j \in S PROVE k \in S
    <3> SUFFICES ASSUME NEW node \in N, NEW s \in X, SearchRank(c, node, s) = k
                 PROVE  u[node][s] = F[node][s]
      OBVIOUS
    <3>1. \A d \in N : \A x \in X : SearchRank(c, d, x) < SearchRank(c, node, s) => u[d][x] = F[d][x]
      BY <1>d, <2>1
    <3>2. Explored(c, u, node, s) = Explored(c, F, node, s)
      BY <1>10, <3>1, ExploredLocal
    <3> QED
      BY <1>11, <1>15, <3>2
  <2> HIDE DEF S
  <2>2. Nat \subseteq S
    BY <2>1, Induction
  <2> QED
    BY <1>d, <2>2 DEF S
<1>17. u = F
  <2>1. \A node \in N : \A s \in X : Explored(c, u, node, s) = Explored(c, F, node, s)
    BY <1>11, <1>15, <1>16
  <2>2. \A node \in N : [s \in X |-> Explored(c, u, node, s)] = [s \in X |-> Explored(c, F, node, s)]
    BY <2>1
  <2>3. body(u) = body(F)
    BY <2>2
  <2> QED
    BY <1>13, <1>14, <2>3
<1> QED
  BY <1>10, <1>11, <1>12, <1>17

------------------------------------------------------------------------------
(* The search for cycles: what it finds *)

\* A set of nodes each of which depends on one of the set.
Cycle(c, S) == S # {} /\ \A n \in S : Deps(c, n) \cap S # {}
HasLoop(c) == \E S \in SUBSET Nodes(c) : Cycle(c, S)

\* The nodes the search has returned from.
Finished(s) == s.visited \ s.path

\* Nothing leads out of the finished nodes, and there is no cycle among them.
Tidy(c, s) ==
    /\ s.path \subseteq s.visited
    /\ \A n \in Finished(s) : Deps(c, n) \subseteq Finished(s)
    /\ \A S \in SUBSET Finished(s) : ~Cycle(c, S)

\* The search may enter node: it is new, and continues the path.
Ready(c, node, s) ==
    /\ node \notin s.visited /\ s.found = FALSE /\ Tidy(c, s)
    /\ \A n \in s.path : Deps(c, n) \cap (s.path \cup {node}) # {}

\* What hasCycle promises of x, its answer on node and s.
Result(c, node, s, x) ==
    IF x.found THEN x.reported /\ HasLoop(c)
    ELSE x.path = s.path /\ node \in x.visited /\ Tidy(c, x) /\ x.reported = s.reported

\* The search x after i dependencies of node, entered from s.
Along(c, node, s, i, x) ==
    IF x.found THEN x.reported /\ HasLoop(c)
    ELSE /\ x.path = s.path \cup {node} /\ x.visited \cap {node} # {} /\ Tidy(c, x) /\ x.reported = s.reported
         /\ \A j \in 1..i : Dependencies(c, node)[j] \in Finished(x)

LEMMA FollowRound ==
    ASSUME NEW c, Wellformed(c), NEW q, Guided(c, q), NEW node \in Nodes(c), NEW s \in Searches(c),
           Ready(c, node, s), NEW i \in 1..Len(Dependencies(c, node)), NEW x \in Searches(c),
           Along(c, node, s, i - 1, x),
           \A d \in Nodes(c) : Ready(c, d, x) => Result(c, d, x, q[d][x])
    PROVE  Along(c, node, s, i, FRound(c, q, node, i, x))
<1> DEFINE d == Dependencies(c, node)[i]
           n == Len(Dependencies(c, node))
<1>0. n \in Nat /\ d \in Deps(c, node) /\ d \in Nodes(c)
  BY DependenciesIn, NodesFacts
<1>1. CASE x.found
  BY <1>1 DEF Along, FRound
<1> SUFFICES ASSUME ~x.found PROVE Along(c, node, s, i, FRound(c, q, node, i, x))
  BY <1>1
<1>a. x.found = FALSE
  BY SearchFields
<1>2. /\ x.path = s.path \cup {node} /\ Tidy(c, x) /\ x.reported = s.reported
      /\ node \in x.visited /\ x.path \subseteq x.visited
      /\ \A j \in 1..(i - 1) : Dependencies(c, node)[j] \in Finished(x)
  BY DEF Along, Tidy
<1>b. \A j \in 1..i : j = i \/ j \in 1..(i - 1)
  BY <1>0
<1>3. \A m \in x.path : Deps(c, m) \cap (x.path \cup {d}) # {}
  BY <1>0, <1>2 DEF Ready
<1>4. CASE d \notin x.visited
  <2> DEFINE y == q[d][x]
  <2>1. Ready(c, d, x)
    BY <1>a, <1>2, <1>3, <1>4 DEF Ready
  <2>2. Result(c, d, x, y)
    BY <1>0, <2>1
  <2>3. x.visited \subseteq y.visited
    BY <1>0 DEF Guided, Grown
  <2>4. FRound(c, q, node, i, x) = y
    BY <1>4 DEF FRound
  <2> HIDE DEF y, d
  <2>5. CASE y.found
    BY <2>2, <2>4, <2>5 DEF Along, Result
  <2>6. CASE ~y.found
    <3>1. y.path = x.path /\ d \in y.visited /\ Tidy(c, y) /\ y.reported = x.reported
      BY <2>2, <2>6 DEF Result
    <3>2. d \in Finished(y) /\ Finished(x) \subseteq Finished(y)
      BY <1>2, <1>4, <2>3, <3>1 DEF Finished
    <3>3. \A j \in 1..i : Dependencies(c, node)[j] \in Finished(y)
      BY <1>2, <1>b, <3>2 DEF d
    <3> QED
      BY <1>2, <2>3, <2>4, <2>6, <3>1, <3>3 DEF Along
  <2> QED
    BY <2>5, <2>6
<1>5. CASE d \in x.path
  <2>1. FRound(c, q, node, i, x) = Reported(x)
    BY <1>2, <1>5 DEF FRound, Reported
  <2>2. Reported(x).found = TRUE /\ Reported(x).reported = TRUE
    BY ReportedFields
  <2>3. Cycle(c, x.path) /\ x.path \in SUBSET Nodes(c)
    <3> HIDE DEF d
    <3>1. x.path \cup {d} = x.path
      BY <1>5
    <3> QED
      BY <1>3, <1>5, <3>1, SearchFields DEF Cycle
  <2> QED
    BY <2>1, <2>2, <2>3 DEF Along, HasLoop
<1>6. CASE d \in x.visited /\ d \notin x.path
  <2>1. FRound(c, q, node, i, x) = x
    BY <1>6 DEF FRound
  <2>2. d \in Finished(x)
    BY <1>6 DEF Finished
  <2>3. \A j \in 1..i : Dependencies(c, node)[j] \in Finished(x)
    BY <1>2, <1>b, <2>2
  <2> QED
    BY <1>2, <2>1, <2>3 DEF Along
<1> QED
  BY <1>4, <1>5, <1>6

LEMMA EnterAlong ==
    ASSUME NEW c, Wellformed(c), NEW node \in Nodes(c), NEW s \in Searches(c), Ready(c, node, s)
    PROVE  Along(c, node, s, 0, Enter(s, node))
<1> DEFINE e == Enter(s, node)
<1>1. /\ e.visited = s.visited \cup {node} /\ e.path = s.path \cup {node}
      /\ e.found = FALSE /\ e.reported = s.reported
  BY EnterFields DEF Ready
<1> HIDE DEF e
<1>2. Finished(e) = Finished(s) /\ e.path \subseteq e.visited
  BY <1>1 DEF Finished, Ready, Tidy
<1>3. Tidy(c, e)
  BY <1>2 DEF Ready, Tidy
<1>4. Along(c, node, s, 0, e)
  BY <1>1, <1>3 DEF Along
<1> QED
  BY <1>4 DEF e

\* Returning from node, all of whose dependencies are finished.
LEMMA LeaveResult ==
    ASSUME NEW c, Wellformed(c), NEW node \in Nodes(c), NEW s \in Searches(c), Ready(c, node, s),
           NEW x \in Searches(c), Along(c, node, s, Len(Dependencies(c, node)), x)
    PROVE  Result(c, node, s, Leave(x, node))
<1> DEFINE y == Leave(x, node)
<1>1. /\ y.visited = x.visited /\ y.path = IF x.found THEN x.path ELSE x.path \ {node}
      /\ y.found = x.found /\ y.reported = x.reported
  BY DEF Leave, Searches
<1> HIDE DEF y
<1>2. CASE x.found
  BY <1>1, <1>2 DEF Along, Result, y
<1>3. CASE ~x.found
  <2>1. /\ x.path = s.path \cup {node} /\ node \in x.visited /\ Tidy(c, x) /\ x.reported = s.reported
        /\ \A j \in 1..Len(Dependencies(c, node)) : Dependencies(c, node)[j] \in Finished(x)
    BY <1>3 DEF Along
  <2>2. Deps(c, node) \subseteq Finished(x)
    BY <2>1, DependenciesIn
  <2>3. y.path = s.path
    BY <1>1, <1>3, <2>1 DEF Ready, Tidy
  <2>4. Finished(y) = Finished(x) \cup {node} /\ node \notin Finished(x)
    BY <1>1, <1>3, <2>1 DEF Finished
  <2>5. y.path \subseteq y.visited
    BY <1>1, <1>3, <2>1 DEF Tidy
  <2>6. \A m \in Finished(y) : Deps(c, m) \subseteq Finished(y)
    BY <2>1, <2>2, <2>4 DEF Tidy
  <2>7. ASSUME NEW S \in SUBSET Finished(y), Cycle(c, S) PROVE FALSE
    <3> DEFINE T == S \ {node}
    <3>1. T \in SUBSET Finished(x)
      BY <2>4
    <3>2. \A m \in T : Deps(c, m) \cap T # {}
      <4> SUFFICES ASSUME NEW m \in T PROVE Deps(c, m) \cap T # {}
        OBVIOUS
      <4>1. PICK k \in S : k \in Deps(c, m)
        BY <2>7 DEF Cycle
      <4>2. k \in Finished(x)
        BY <2>1, <3>1, <4>1 DEF Tidy
      <4> QED
        BY <2>4, <4>1, <4>2
    <3>3. T # {}
      <4>1. PICK m \in S : TRUE
        BY <2>7 DEF Cycle
      <4>2. CASE m = node
        <5>1. PICK k \in S : k \in Deps(c, node)
          BY <2>7, <4>1, <4>2 DEF Cycle
        <5> QED
          BY <2>2, <2>4, <5>1
      <4> QED
        BY <4>1, <4>2
    <3> HIDE DEF T
    <3> QED
      BY <2>1, <3>1, <3>2, <3>3 DEF Tidy, Cycle
  <2>8. Tidy(c, y)
    BY <2>5, <2>6, <2>7 DEF Tidy
  <2> QED
    BY <1>1, <1>3, <2>1, <2>3, <2>8 DEF Result, y
<1> QED
  BY <1>2, <1>3

\* hasCycle keeps its promise from every node it may enter.
LEMMA HasCycleFinds ==
    ASSUME NEW c, Wellformed(c), NEW node \in Nodes(c), NEW s \in Searches(c), Ready(c, node, s)
    PROVE  Result(c, node, s, HasCycle(c)[node][s])
<1> DEFINE q == HasCycle(c)
           Right(a, x) == Ready(c, a, x) => Result(c, a, x, q[a][x])
           S == {k \in Nat : \A a \in Nodes(c) : \A x \in Searches(c) : Unvisited(c, x) = k => Right(a, x)}
<1>0. Guided(c, q) /\ \A a \in Nodes(c) : \A x \in Searches(c) : q[a][x] = Explored(c, q, a, x)
  BY HasCycleUnfold
<1> HIDE DEF q
<1>1. ASSUME NEW k \in Nat, \A j \in Nat : j < k => j \in S PROVE k \in S
  <2> SUFFICES ASSUME NEW a \in Nodes(c), NEW x \in Searches(c), Unvisited(c, x) = k, Ready(c, a, x)
               PROVE  Result(c, a, x, q[a][x])
    OBVIOUS
  <2> DEFINE e == Enter(x, a)
             n == Len(Dependencies(c, a))
  <2>0. n \in Nat
    BY DependenciesIn
  <2>1. e \in Searches(c) /\ e.visited = x.visited \cup {a} /\ Along(c, a, x, 0, e)
    BY EnterFields, EnterAlong DEF Grown
  <2> HIDE DEF e
  <2>2. AlikeFrom(c, q, q, e)
    BY DEF AlikeFrom
  <2>3. PICK v : Followed(v, c, q, a, e) /\ FollowDeps(c, a, q, e) = v[n]
    BY <1>0, <2>1, <2>2, FollowLocal
  <2>4. ASSUME NEW y \in Grown(c, e), NEW d \in Nodes(c), Ready(c, d, y) PROVE Result(c, d, y, q[d][y])
    <3>1. y \in Searches(c) /\ x.visited \subseteq y.visited /\ a \in y.visited /\ a \notin x.visited
      BY <2>1 DEF Grown, Ready
    <3>2. Unvisited(c, y) \in Nat /\ Unvisited(c, y) < k
      BY <3>1, FewerUnvisited
    <3>3. Unvisited(c, y) \in S
      BY <1>1, <3>2
    <3> QED
      BY <2>4, <3>1, <3>3
  <2>5. \A i \in 0..n : v[i] \in Grown(c, e)
    BY <2>3 DEF Followed
  <2>6. \A i \in 1..n : Along(c, a, x, i - 1, v[i - 1]) => Along(c, a, x, i, v[i])
    <3> SUFFICES ASSUME NEW i \in 1..n, Along(c, a, x, i - 1, v[i - 1]) PROVE Along(c, a, x, i, v[i])
      OBVIOUS
    <3>1. i - 1 \in 0..n
      BY <2>0
    <3>2. v[i - 1] \in Grown(c, e) /\ v[i - 1] \in Searches(c)
      BY <2>5, <3>1 DEF Grown
    <3>3. v[i] = FRound(c, q, a, i, v[i - 1])
      BY <2>3 DEF Followed
    <3>4. \A d \in Nodes(c) : Ready(c, d, v[i - 1]) => Result(c, d, v[i - 1], q[d][v[i - 1]])
      BY <2>4, <3>2
    <3> QED
      BY <1>0, <3>2, <3>3, <3>4, FollowRound
  <2>7. Along(c, a, x, n, v[n])
    <3> DEFINE T == {i \in Nat : i <= n => Along(c, a, x, i, v[i])}
    <3>1. ASSUME NEW i \in Nat, \A j \in Nat : j < i => j \in T PROVE i \in T
      <4>1. CASE i = 0
        BY <2>1, <2>3, <4>1 DEF Followed
      <4>2. CASE i # 0
        <5>1. i - 1 \in Nat /\ i - 1 < i /\ (i <= n => i \in 1..n /\ i - 1 <= n)
          BY <2>0, <4>2
        <5> QED
          BY <2>6, <3>1, <5>1
      <4> QED
        BY <4>1, <4>2
    <3> HIDE DEF T
    <3>2. Nat \subseteq T
      BY <3>1, Induction
    <3> QED
      BY <2>0, <3>2 DEF T
  <2>8. v[n] \in Searches(c)
    BY <2>0, <2>5 DEF Grown
  <2>9. Result(c, a, x, Leave(v[n], a))
    BY <2>7, <2>8, LeaveResult
  <2> QED
    BY <1>0, <2>3, <2>9 DEF Explored, e
<1> HIDE DEF S
<1>2. Nat \subseteq S
  BY <1>1, Induction
<1>3. Unvisited(c, s) \in Nat
  BY FewerUnvisited
<1> QED
  BY <1>2, <1>3 DEF S, q

------------------------------------------------------------------------------
(* The search for cycles: from every client *)

\* The search between two clients.
Walked(c, order, i, s) ==
    IF s.reported THEN HasLoop(c)
    ELSE s.path = {} /\ s.found = FALSE /\ Tidy(c, s) /\ \A j \in 1..i : order[j] \in s.visited

NoSearch == [visited |-> {}, path |-> {}, found |-> FALSE, reported |-> FALSE]
Resumed(s) == [s EXCEPT !.found = FALSE]

\* One round of SearchCycles.
WalkRound(c, order, i, s) ==
    IF order[i] \in s.visited THEN s ELSE HasCycle(c)[order[i]][Resumed(s)]

LEMMA ResumedFields ==
    ASSUME NEW c, NEW s \in Searches(c)
    PROVE  /\ Resumed(s) \in Searches(c) /\ Resumed(s).found = FALSE /\ Resumed(s).visited = s.visited
           /\ Resumed(s).path = s.path /\ Resumed(s).reported = s.reported
BY DEF Resumed, Searches

LEMMA WalkRoundKeeps ==
    ASSUME NEW c, Wellformed(c), NEW order, NEW i \in Nat, i # 0, order[i] \in Nodes(c), NEW s \in Searches(c)
    PROVE  /\ WalkRound(c, order, i, s) \in Searches(c)
           /\ Walked(c, order, i - 1, s) => Walked(c, order, i, WalkRound(c, order, i, s))
<1> DEFINE r == Resumed(s)
           y == HasCycle(c)[order[i]][r]
<1>1. /\ r \in Searches(c) /\ r.found = FALSE /\ r.visited = s.visited
      /\ r.path = s.path /\ r.reported = s.reported
  BY ResumedFields
<1>b. \A j \in 1..i : j = i \/ j \in 1..(i - 1)
  OBVIOUS
<1>c. s.reported \in BOOLEAN
  BY SearchFields
<1> HIDE DEF r
<1>2. y \in Grown(c, r)
  BY <1>1, HasCycleUnfold DEF Guided
<1>3. Ready(c, order[i], r) => Result(c, order[i], r, y)
  BY <1>1, HasCycleFinds
<1>4. order[i] \notin s.visited => WalkRound(c, order, i, s) = y
  BY DEF WalkRound, r
<1>5. order[i] \in s.visited => WalkRound(c, order, i, s) = s
  BY DEF WalkRound
<1> HIDE DEF y
<1>6. WalkRound(c, order, i, s) \in Searches(c)
  BY <1>2, <1>4, <1>5 DEF Grown
<1>7. ASSUME Walked(c, order, i - 1, s), order[i] \in s.visited
      PROVE  Walked(c, order, i, s)
  BY <1>b, <1>7 DEF Walked
<1>8. ASSUME Walked(c, order, i - 1, s), order[i] \notin s.visited
      PROVE  Walked(c, order, i, y)
  <2>1. CASE s.reported
    <3>1. y.reported /\ HasLoop(c)
      BY <1>1, <1>2, <1>8, <2>1 DEF Grown, Walked
    <3> QED
      BY <3>1 DEF Walked
  <2>2. CASE ~s.reported
    <3>1. s.path = {} /\ Tidy(c, s) /\ \A j \in 1..(i - 1) : order[j] \in s.visited
      BY <1>8, <2>2 DEF Walked
    <3>2. Tidy(c, r)
      BY <1>1, <3>1 DEF Tidy, Finished
    <3>3. Ready(c, order[i], r)
      BY <1>1, <1>8, <3>1, <3>2 DEF Ready
    <3>4. Result(c, order[i], r, y)
      BY <1>3, <3>3
    <3>5. CASE y.found
      BY <3>4, <3>5 DEF Result, Walked
    <3>6. CASE ~y.found
      <4>1. y.path = {} /\ order[i] \in y.visited /\ Tidy(c, y) /\ y.reported = s.reported
        BY <1>1, <3>1, <3>4, <3>6 DEF Result
      <4>2. s.visited \subseteq y.visited /\ y.found \in BOOLEAN
        BY <1>1, <1>2, SearchFields DEF Grown
      <4>3. \A j \in 1..i : order[j] \in y.visited
        BY <1>b, <3>1, <4>1, <4>2
      <4> QED
        BY <2>2, <3>6, <4>1, <4>2, <4>3 DEF Walked
    <3> QED
      BY <3>5, <3>6
  <2> QED
    BY <2>1, <2>2
<1> QED
  BY <1>4, <1>5, <1>6, <1>7, <1>8

\* An order in which the map may be walked names every client.
LEMMA OrderFacts ==
    ASSUME NEW c, Wellformed(c), NEW order \in SetToSeqs(ClientNames(c))
    PROVE  /\ Len(order) \in Nat
           /\ \A i \in 1..Len(order) : order[i] \in ClientNames(c)
           /\ \A m \in ClientNames(c) : \E i \in 1..Len(order) : order[i] = m
<1> DEFINE N == ClientNames(c)
           k == Cardinality(N)
<1>1. IsFiniteSet(N)
  BY NodesFacts
<1>2. order \in [1..k -> N] /\ \A i, j \in 1..k : i # j => order[i] # order[j]
  BY DEF SetToSeqs
<1> HIDE DEF N
<1>3. k \in Nat
  BY <1>1, FS_CardinalityType
<1>4. IsFiniteSet(1..k) /\ Cardinality(1..k) = k
  <2>1. 1 \in Int /\ k \in Int
    BY <1>3
  <2>2. IsFiniteSet(1..k) /\ Cardinality(1..k) = IF 1 > k THEN 0 ELSE k - 1 + 1
    BY <2>1, FS_Interval
  <2> QED
    BY <1>3, <2>2
<1> DEFINE D == 1..k
<1>5. order \in Injection(D, N)
  BY <1>2 DEF Injection, IsInjective
<1>6. Cardinality(D) = Cardinality(N)
  BY <1>4
<1>7. Len(order) = k
  BY <1>2, <1>3
<1>a. \A i \in D : order[i] \in N
  BY <1>2
<1> HIDE DEF D
<1>8. order \in Surjection(D, N)
  BY <1>1, <1>5, <1>6, FS_Injection
<1>9. \A m \in N : \E i \in D : order[i] = m
  BY <1>8 DEF Surjection
<1> QED
  BY <1>3, <1>7, <1>9, <1>a DEF D, N

\* SearchCycles reports a cycle exactly when there is one, in every order.
LEMMA SearchExact ==
    ASSUME NEW c, Wellformed(c), NEW order \in SetToSeqs(ClientNames(c))
    PROVE  SearchCycles(c, order).reported <=> Cyclic(c)
<1> DEFINE n == Len(order)
           W == Searches(c)
           F == [i \in 1..n |-> [s \in W |-> WalkRound(c, order, i, s)]]
           body(g) == [i \in 0..n |-> IF i = 0 THEN NoSearch ELSE WalkRound(c, order, i, g[i - 1])]
           u == CHOOSE g : g = body(g)
<1>0. /\ n \in Nat /\ \A i \in 1..n : order[i] \in Nodes(c)
      /\ \A m \in ClientNames(c) : \E i \in 1..n : order[i] = m
  BY OrderFacts, NodesFacts
<1>1. NoSearch \in W /\ Walked(c, order, 0, NoSearch)
  <2>1. NoSearch \in W
    BY DEF NoSearch, Searches
  <2>2. NoSearch.visited = {} /\ NoSearch.path = {} /\ NoSearch.found = FALSE /\ NoSearch.reported = FALSE
    BY DEF NoSearch
  <2>3. Tidy(c, NoSearch)
    BY <2>2 DEF Tidy, Finished, Cycle
  <2> QED
    BY <2>1, <2>2, <2>3 DEF Walked
<1>2. ASSUME NEW i \in 1..n, NEW s \in W
      PROVE  /\ WalkRound(c, order, i, s) \in W
             /\ Walked(c, order, i - 1, s) => Walked(c, order, i, WalkRound(c, order, i, s))
  BY <1>0, WalkRoundKeeps
<1>a. SearchCycles(c, order) = u[n]
  BY DEF SearchCycles, NoSearch, WalkRound, Resumed
<1> HIDE DEF W, n
<1>3. F \in Maps(1..n, Maps(W, W)) /\ \A i \in 1..n : \A s \in W : F[i][s] = WalkRound(c, order, i, s)
  BY <1>2 DEF Maps
<1> HIDE DEF F
<1>4. PICK f \in Maps(0..n, W) : f = [i \in 0..n |-> IF i = 0 THEN NoSearch ELSE F[i][f[i - 1]]]
  BY <1>0, <1>1, <1>3, Loop
<1>5. \A i \in 0..n : i # 0 => i \in 1..n /\ i - 1 \in 0..n
  BY <1>0
<1>6. \A i \in 0..n : f[i] = IF i = 0 THEN NoSearch ELSE WalkRound(c, order, i, f[i - 1])
  BY <1>3, <1>4, <1>5 DEF Maps
<1>7. f = body(f)
  BY <1>4, <1>6 DEF Maps
<1>8. u = body(u)
  BY <1>7
<1> HIDE DEF u
<1>9. u[0] = NoSearch /\ \A i \in 1..n : u[i] = WalkRound(c, order, i, u[i - 1])
  BY <1>0, <1>8
<1> DEFINE S == {i \in Nat : i <= n => u[i] \in W /\ Walked(c, order, i, u[i])}
<1>10. ASSUME NEW i \in Nat, \A j \in Nat : j < i => j \in S PROVE i \in S
  <2>1. CASE i = 0
    BY <1>1, <1>9, <2>1
  <2>2. CASE i # 0
    <3>1. i - 1 \in Nat /\ i - 1 < i /\ (i <= n => i \in 1..n /\ i - 1 <= n)
      BY <1>0, <2>2
    <3>2. i <= n => u[i - 1] \in W /\ Walked(c, order, i - 1, u[i - 1])
      BY <1>10, <3>1
    <3> QED
      BY <1>2, <1>9, <3>1, <3>2
  <2> QED
    BY <2>1, <2>2
<1> HIDE DEF S
<1>11. Nat \subseteq S
  BY <1>10, Induction
<1> DEFINE s == u[n]
<1>12. s \in W /\ Walked(c, order, n, s)
  BY <1>0, <1>11 DEF S
<1> HIDE DEF s
<1>13. HasLoop(c) <=> Cyclic(c)
  <2>1. \A m : Deps(c, m) # {} => m \in ClientNames(c)
    BY DependenciesIn
  <2>2. ASSUME NEW T, Cycle(c, T) PROVE T \subseteq ClientNames(c)
    BY <2>1, <2>2 DEF Cycle
  <2>3. ClientNames(c) \subseteq Nodes(c)
    BY NodesFacts
  <2>4. HasLoop(c) <=> \E T \in SUBSET ClientNames(c) : Cycle(c, T)
    BY <2>2, <2>3 DEF HasLoop
  <2> QED
    BY <2>4 DEF Cyclic, Cycle, Deps
<1>14. CASE s.reported
  <2>1. HasLoop(c)
    BY <1>12, <1>14 DEF Walked
  <2> QED
    BY <1>a, <1>13, <1>14, <2>1 DEF s
<1>15. CASE ~s.reported
  <2>1. s.path = {} /\ Tidy(c, s) /\ \A j \in 1..n : order[j] \in s.visited
    BY <1>12, <1>15 DEF Walked
  <2>2. ClientNames(c) \subseteq Finished(s)
    BY <1>0, <2>1 DEF Finished
  <2>3. ~Cyclic(c)
    <3> SUFFICES ASSUME NEW T \in SUBSET ClientNames(c), Cycle(c, T) PROVE FALSE
      BY DEF Cyclic, Cycle, Deps
    <3>1. T \in SUBSET Finished(s)
      BY <2>2
    <3> QED
      BY <2>1, <3>1 DEF Tidy
  <2> QED
    BY <1>a, <1>15, <2>3 DEF s
<1> QED
  BY <1>14, <1>15

------------------------------------------------------------------------------
(* The search for cycles: nothing else reports one *)

ConditionErrors ==
    {"no_fact", "no_bound", "no_state", "no_nested_condition", "not_exactly_one_condition",
     "no_expression", "negative_duration", "unknown_fact"}

\* What is wrong with a condition of type t, nested and first being the errors
\* of its members and of its first member.
ShapeErrors(c, t, nested, first) ==
    CASE t = "numeric" -> Err(c.fact = {}, "no_fact") \cup Err(c.above \cup c.below \cup c.equals = {}, "no_bound")
      [] t = "state" ->
             Err(c.fact = {}, "no_fact") \cup Err(c.is \cup c.isNot \cup c.in \cup c.contains = {}, "no_state")
      [] t \in {"and", "or"} -> Err(c.conditions = <<>>, "no_nested_condition") \cup nested
      [] t = "not" -> Err(Len(c.conditions) # 1, "not_exactly_one_condition")
                      \cup (IF c.conditions = <<>> THEN {} ELSE first)
      [] t = "template" -> Err(c.value = {}, "no_expression")
      [] OTHER -> {}

\* One round of ValidateCondition.
CheckRound(g, k) ==
    LET c == Cond[k]
        t == IF c.condition = "" /\ c.fact = {} /\ c.value = {} THEN "" ELSE InferConditionType(c)
    IN ShapeErrors(c, t, UNION {g[c.conditions[i]] : i \in DOMAIN c.conditions}, g[c.conditions[1]])
       \cup CheckDurations({c.for}) \cup Err(~(c.fact \subseteq KnownFacts), "unknown_fact")

LEMMA ShapeType ==
    ASSUME NEW c, NEW t, NEW nested \in SUBSET ConditionErrors, NEW first,
           c.conditions # <<>> => first \in SUBSET ConditionErrors
    PROVE  ShapeErrors(c, t, nested, first) \in SUBSET ConditionErrors
<1>1. \A b : \A what \in ConditionErrors : Err(b, what) \in SUBSET ConditionErrors
  BY DEF Err
<1>2. /\ "no_fact" \in ConditionErrors /\ "no_bound" \in ConditionErrors /\ "no_state" \in ConditionErrors
      /\ "no_nested_condition" \in ConditionErrors /\ "not_exactly_one_condition" \in ConditionErrors
      /\ "no_expression" \in ConditionErrors
  BY DEF ConditionErrors
<1> QED
  BY <1>1, <1>2 DEF ShapeErrors

LEMMA CheckType ==
    ASSUME NEW g \in Maps(Conds, SUBSET ConditionErrors), NEW k \in Conds
    PROVE  CheckRound(g, k) \in SUBSET ConditionErrors
<1> DEFINE c == Cond[k]
           t == IF c.condition = "" /\ c.fact = {} /\ c.value = {} THEN "" ELSE InferConditionType(c)
           nested == UNION {g[c.conditions[i]] : i \in DOMAIN c.conditions}
           first == g[c.conditions[1]]
           shape == ShapeErrors(c, t, nested, first)
<1>1. /\ Members(k) \in Seq(Conds) /\ Len(Members(k)) \in Nat /\ DOMAIN Members(k) = 1..Len(Members(k))
      /\ \A i \in 1..Len(Members(k)) : Members(k)[i] \in Conds
  BY CondFacts
<1>2. c.conditions = Members(k)
  BY DEF Members
<1>3. \A m \in Conds : g[m] \in SUBSET ConditionErrors
  BY DEF Maps
<1>4. nested \in SUBSET ConditionErrors
  BY <1>1, <1>2, <1>3
<1>5. c.conditions # <<>> => first \in SUBSET ConditionErrors
  <2> SUFFICES ASSUME Members(k) # <<>> PROVE 1 \in 1..Len(Members(k))
    BY <1>1, <1>2, <1>3
  <2> QED
    BY <1>1
<1>6. CheckRound(g, k) = shape \cup CheckDurations({c.for}) \cup Err(~(c.fact \subseteq KnownFacts), "unknown_fact")
  BY DEF CheckRound
<1>7. CheckDurations({c.for}) \in SUBSET ConditionErrors
  BY DEF CheckDurations, Err, ConditionErrors
<1>8. Err(~(c.fact \subseteq KnownFacts), "unknown_fact") \in SUBSET ConditionErrors
  BY DEF Err, ConditionErrors
<1> HIDE DEF nested, first, c, t
<1>9. shape \in SUBSET ConditionErrors
  BY <1>4, <1>5, ShapeType
<1> HIDE DEF shape
<1> QED
  BY <1>6, <1>7, <1>8, <1>9

LEMMA CheckLocal ==
    ASSUME NEW g, NEW h, NEW k \in Conds,
           \A b \in Conds : Depth[b] < Depth[k] => g[b] = h[b]
    PROVE  CheckRound(g, k) = CheckRound(h, k)
<1> DEFINE c == Cond[k]
           nested(j) == UNION {j[c.conditions[i]] : i \in DOMAIN c.conditions}
           first(j) == j[c.conditions[1]]
<1>1. /\ Members(k) \in Seq(Conds) /\ Len(Members(k)) \in Nat /\ DOMAIN Members(k) = 1..Len(Members(k))
      /\ \A i \in 1..Len(Members(k)) : g[Members(k)[i]] = h[Members(k)[i]]
  BY CondFacts
<1>2. c.conditions = Members(k)
  BY DEF Members
<1>3. nested(g) = nested(h)
  BY <1>1, <1>2
<1>4. c.conditions # <<>> => first(g) = first(h)
  <2> SUFFICES ASSUME Members(k) # <<>> PROVE 1 \in 1..Len(Members(k))
    BY <1>1, <1>2
  <2> QED
    BY <1>1
<1>5. \A t : ShapeErrors(c, t, nested(g), first(g)) = ShapeErrors(c, t, nested(h), first(h))
  <2> HIDE DEF nested, first, c
  <2> QED
    BY <1>3, <1>4 DEF ShapeErrors
<1> DEFINE t == IF c.condition = "" /\ c.fact = {} /\ c.value = {} THEN "" ELSE InferConditionType(c)
           rest == CheckDurations({c.for}) \cup Err(~(c.fact \subseteq KnownFacts), "unknown_fact")
<1>6. \A j : CheckRound(j, k) = ShapeErrors(c, t, nested(j), first(j)) \cup rest
  BY DEF CheckRound
<1> HIDE DEF nested, first, c, t, rest
<1> QED
  BY <1>5, <1>6

LEMMA ConditionNeverCyclic ==
    ASSUME NEW k \in Conds
    PROVE  "cycle" \notin ValidateCondition[k]
<1> DEFINE W == SUBSET ConditionErrors
           body(g) == [m \in Conds |-> CheckRound(g, m)]
           Step == [g \in Maps(Conds, W) |-> body(g)]
           u == CHOOSE g : g = body(g)
<1>1. \A g \in Maps(Conds, W) : body(g) \in Maps(Conds, W)
  BY CheckType DEF Maps
<1>2. \A g, h \in Maps(Conds, W) : \A m \in Conds :
          (\A b \in Conds : Depth[b] < Depth[m] => g[b] = h[b]) => Step[g][m] = Step[h][m]
  BY CheckLocal
<1>3. Maps(Conds, W) # {}
  <2>1. [m \in Conds |-> {}] \in Maps(Conds, W)
    BY DEF Maps
  <2> QED
    BY <2>1
<1>4. Step \in [Maps(Conds, W) -> Maps(Conds, W)] /\ \A g \in Maps(Conds, W) : Step[g] = body(g)
  BY <1>1
<1>5. ValidateCondition = u
  BY DEF ValidateCondition, CheckRound, ShapeErrors
<1>6. \A g : \A m \in Conds : body(g)[m] = CheckRound(g, m)
  OBVIOUS
<1> HIDE DEF W, Step, body
<1>7. Descends(Conds, Depth, Maps(Conds, W), Step)
  BY <1>2, <1>3, <1>4, ConditionAssumption DEF Descends
<1>8. \E f \in Maps(Conds, W) : f = Step[f]
  BY <1>7, PlainRecursion
<1>9. PICK f \in Maps(Conds, W) : f = body(f)
  BY <1>4, <1>8
<1>10. u = body(u)
  BY <1>9
<1> HIDE DEF u
<1> DEFINE S == {d \in Nat : \A m \in Conds : Depth[m] = d => u[m] = f[m]}
<1>11. ASSUME NEW d \in Nat, \A j \in Nat : j < d => j \in S PROVE d \in S
  <2> SUFFICES ASSUME NEW m \in Conds, Depth[m] = d PROVE u[m] = f[m]
    OBVIOUS
  <2>1. \A b \in Conds : Depth[b] < Depth[m] => u[b] = f[b]
    BY <1>11, CondFacts
  <2>2. CheckRound(u, m) = CheckRound(f, m)
    BY <2>1, CheckLocal
  <2>3. body(u)[m] = CheckRound(u, m) /\ body(f)[m] = CheckRound(f, m)
    BY <1>6
  <2> QED
    BY <1>9, <1>10, <2>2, <2>3
<1> HIDE DEF S
<1>12. Nat \subseteq S
  BY <1>11, Induction
<1>13. u[k] = f[k]
  BY <1>12, CondFacts DEF S
<1>14. f[k] \in SUBSET ConditionErrors
  BY DEF Maps, W
<1> QED
  BY <1>5, <1>13, <1>14 DEF ConditionErrors

LEMMA CycleIsOfTheSearch ==
    ASSUME NEW c, Wellformed(c), NEW order
    PROVE  "cycle" \in ValidateWith(c, order) <=> SearchCycles(c, order).reported
<1> DEFINE Quiet(E) == "cycle" \notin E
           p == c.plan
<1>1. /\ p.trigger \in Conds /\ p.gate \in Conds /\ p.abort \subseteq Conds
      /\ \A i \in DOMAIN p.stages : p.stages[i].when \in Conds
  BY DEF Wellformed
<1>2. \A k \in Conds : Quiet(ValidateCondition[k])
  BY ConditionNeverCyclic
<1>3. \A b, what : what # "cycle" => Quiet(Err(b, what))
  BY DEF Err
<1>4. \A ds : Quiet(CheckDurations(ds))
  BY DEF CheckDurations, Err
<1>5. \A refs : Quiet(UnknownRefs(refs, c))
  BY DEF UnknownRefs, Err
<1>6. \A ps : Quiet(ValidatePostShutdown(ps))
  BY DEF ValidatePostShutdown, Err
<1>7. Quiet(ValidateCanarium(c))
  BY DEF ValidateCanarium, Err
<1>8. Quiet(ValidateSources(c))
  BY DEF ValidateSources, Err
<1>9. Quiet(ValidateClients(c))
  <2> DEFINE one(k) ==
                 Err(k.transport \notin Transports, "unknown_transport")
                 \cup Err(k.feedPolicy \notin {"any", "all"}, "feed_policy")
                 \cup Err(k.wakePolicy \notin {"power_state", "retain_state"}, "wake_policy")
                 \cup Err(~(k.wakeTransport \subseteq Transports), "unknown_wake_transport")
                 \cup Err(k.commsLoss \notin {"", "threatened", "safe"}, "comms_loss")
                 \cup CheckDurations({k.budget, k.guardPeriod})
                 \cup Err(~(ToSet(k.dependsOn) \subseteq ClientNames(c)), "unknown_dependency")
             twice == \E i, j \in DOMAIN c.clients : i < j /\ c.clients[i].name = c.clients[j].name
  <2>1. \A k : Quiet(one(k))
    BY <1>4 DEF Err
  <2>2. ValidateClients(c) = Err(twice, "duplicate_client") \cup UNION {one(c.clients[i]) : i \in DOMAIN c.clients}
    BY DEF ValidateClients
  <2>3. Quiet(Err(twice, "duplicate_client"))
    BY <1>3
  <2> HIDE DEF one, twice
  <2> QED
    BY <2>1, <2>2, <2>3
<1>10. Quiet(ValidateStageOrder(p, c))
  BY DEF ValidateStageOrder, Err
<1>11. Quiet(ValidateSelfPreservation(c))
  BY DEF ValidateSelfPreservation, Err
<1>12. ASSUME NEW i \in DOMAIN p.stages PROVE Quiet(ValidateStage(p.stages[i], c))
  <2> DEFINE s == p.stages[i]
             bad == s.waitPolicy \notin {"", "skip", "escalate", "hold"}
  <2>1. Quiet(ValidateCondition[s.when])
    BY <1>1, <1>2
  <2>2. Quiet(Err(bad, "wait_policy"))
    BY DEF Err
  <2>3. Quiet(CheckDurations({s.budget, s.waitTimeout})) /\ Quiet(UnknownRefs(s.clients, c))
    BY <1>4, <1>5
  <2>4. ValidateStage(s, c) =
            ValidateCondition[s.when] \cup CheckDurations({s.budget, s.waitTimeout})
            \cup Err(bad, "wait_policy") \cup UnknownRefs(s.clients, c)
    BY DEF ValidateStage
  <2> HIDE DEF s, bad
  <2>5. Quiet(ValidateStage(s, c))
    BY <2>1, <2>2, <2>3, <2>4
  <2> QED
    BY <2>5 DEF s
<1>13. Quiet(ValidatePlan(p, c))
  <2>1. Quiet(ValidateCondition[p.trigger]) /\ Quiet(ValidateCondition[p.gate])
    BY <1>1, <1>2
  <2>2. Quiet(UNION {ValidateCondition[a] : a \in p.abort})
    BY <1>1, <1>2
  <2>3. Quiet(UNION {ValidateStage(p.stages[i], c) : i \in DOMAIN p.stages})
    BY <1>12
  <2>4. Quiet(UNION {ValidatePostShutdown(ps) : ps \in p.postShutdown})
    BY <1>6
  <2>5. Quiet(UNION {UnknownRefs(p.wakeStages[i], c) : i \in DOMAIN p.wakeStages})
    BY <1>5
  <2>6. Quiet(Err(p.retries < 0, "negative_retries"))
    BY <1>3
  <2>7. Quiet(CheckDurations({p.stagger, p.probeInterval, p.bootDeadline}))
    BY <1>4
  <2> QED
    BY <2>1, <2>2, <2>3, <2>4, <2>5, <2>6, <2>7 DEF ValidatePlan
<1>14. "cycle" \in Err(SearchCycles(c, order).reported, "cycle") <=> SearchCycles(c, order).reported
  BY DEF Err
<1> HIDE DEF p
<1> QED
  BY <1>7, <1>8, <1>9, <1>10, <1>11, <1>13, <1>14 DEF ValidateWith, p

\* validateDependencies, for any file and any order in which the map of clients
\* is walked: a cycle of depends_on is reported exactly when there is one.
THEOREM CyclesAreFound == Spec => []CycleVerdictExact
<1>1. Init => CycleVerdictExact
  BY DEF Init, CycleVerdictExact
<1>2. SimInv /\ CycleVerdictExact /\ [Next]_vars => CycleVerdictExact'
  <2> SUFFICES ASSUME SimInv, CycleVerdictExact, [Next]_vars PROVE CycleVerdictExact'
    OBVIOUS
  <2>1. CASE Validate
    <3> DEFINE c == ApplyDefaults(cfg)
    <3>1. PICK order \in SetToSeqs(ClientNames(cfg)) : cfg' = c /\ report' = ValidateWith(c, order)
      BY <2>1 DEF Validate
    <3>2. cfg \in Configs
      BY <2>1 DEF SimInv, Validate
    <3>3. ClientNames(c) = ClientNames(cfg)
      BY <3>2, DefaultsKeep DEF ClientNames
    <3>4. Wellformed(c)
      BY <3>2, DefaultsWellformed
    <3> HIDE DEF c
    <3>5. "cycle" \in ValidateWith(c, order) <=> Cyclic(c)
      BY <3>1, <3>3, <3>4, CycleIsOfTheSearch, SearchExact
    <3>6. Cyclic(cfg)' <=> Cyclic(c)
      BY <3>1 DEF Cyclic, ClientNames, Dependencies
    <3> QED
      BY <3>1, <3>5, <3>6 DEF CycleVerdictExact
  <2>2. CASE Tick \/ Finish \/ UNCHANGED vars
    <3>1. UNCHANGED <<cfg, report>> /\ (phase # "loaded" \/ phase' = phase)
      BY <2>2 DEF Tick, Finish, vars
    <3>2. Cyclic(cfg)' <=> Cyclic(cfg)
      BY <3>1 DEF Cyclic, ClientNames, Dependencies
    <3> QED
      BY <3>1, <3>2 DEF CycleVerdictExact
  <2> QED
    BY <2>1, <2>2 DEF Next
<1> QED
  BY SimulationInvariant, <1>1, <1>2, PTL DEF Spec

------------------------------------------------------------------------------
(* Dwell: conditions whose `for` stands at the top *)

\* Evaluating a condition that asks for no time moves no tracker, and what is
\* ripe makes no difference to its answer.
LEMMA UntimedEvaluate ==
    ASSUME NEW s, NEW t \in Nat, NEW d \in Trackers, NEW ripe, NEW c \in Conds, Untimed(c)
    PROVE  /\ Evaluator(s, t)[c][d].val = Judge(s, ripe, t)[c]
           /\ Evaluator(s, t)[c][d].dwell = d
<1> DEFINE j == Judge(s, ripe, t)
           E == Evaluator(s, t)
           A == {d}
           Good(b) == Untimed(b) => \A e \in A : E[b][e].val = j[b] /\ E[b][e].dwell \in A
           S == {k \in Nat : \A b \in Conds : Depth[b] = k => Good(b)}
<1>1. j \in [Conds -> Trilean] /\ \A b \in Conds : j[b] = Verdict(j, s, ripe, t, b)
  BY JudgeUnfold
<1>2. E \in Evaluators /\ \A b \in Conds : \A e \in Trackers : E[b][e] = Asked(E, s, t, b, e)
  BY EvaluatorUnfold
<1>3. A \in SUBSET Trackers
  OBVIOUS
<1> HIDE DEF j, E, A
<1>4. ASSUME NEW k \in Nat, \A m \in Nat : m < k => m \in S PROVE k \in S
  <2> SUFFICES ASSUME NEW b \in Conds, Depth[b] = k, Untimed(b), NEW e \in A
               PROVE  E[b][e].val = j[b] /\ E[b][e].dwell \in A
    OBVIOUS
  <2>1. For(b) = 0 /\ \A i \in 1..Len(Members(b)) : Untimed(Members(b)[i])
    BY PartsUnfold DEF Untimed
  <2>2. \A i \in 1..Len(Members(b)) : Good(Members(b)[i])
    BY <1>4, CondFacts
  <2>a. \A i \in 1..Len(Members(b)) : \A x \in A :
            E[Members(b)[i]][x].val = j[Members(b)[i]] /\ E[Members(b)[i]][x].dwell \in A
    BY <2>1, <2>2
  <2> HIDE DEF Good
  <2>3. /\ EvaluateInner(b, E, s, e, t).val = AtOnce(j, s, t, b)
        /\ EvaluateInner(b, E, s, e, t).dwell \in A
    BY <1>1, <1>2, <1>3, <2>a, InnerIsAtOnce
  <2>4. E[b][e] = EvaluateInner(b, E, s, e, t)
    BY <1>2, <1>3, <2>1 DEF Asked
  <2>5. j[b] = AtOnce(j, s, t, b)
    BY <1>1, <2>1 DEF Verdict
  <2> QED
    BY <2>3, <2>4, <2>5
<1> HIDE DEF S
<1>5. Nat \subseteq S
  BY <1>4, Induction
<1>6. Good(c)
  BY <1>5, CondFacts DEF S
<1> QED
  BY <1>6 DEF j, E, A

\* The same of the inside of a condition whose `for` stands at the top.
LEMMA TopInner ==
    ASSUME NEW s, NEW t \in Nat, NEW d \in Trackers, NEW ripe, NEW c \in Conds, Top(c)
    PROVE  /\ EvaluateInner(c, Evaluator(s, t), s, d, t).val = AtOnce(Judge(s, ripe, t), s, t, c)
           /\ EvaluateInner(c, Evaluator(s, t), s, d, t).dwell = d
<1> DEFINE j == Judge(s, ripe, t)
           E == Evaluator(s, t)
           A == {d}
<1>1. j \in [Conds -> Trilean] /\ E \in Evaluators
  BY JudgeUnfold, EvaluatorUnfold
<1>2. \A i \in 1..Len(Members(c)) : \A e \in A :
          E[Members(c)[i]][e].val = j[Members(c)[i]] /\ E[Members(c)[i]][e].dwell \in A
  <2> SUFFICES ASSUME NEW i \in 1..Len(Members(c))
               PROVE  LET m == Members(c)[i] IN E[m][d].val = j[m] /\ E[m][d].dwell = d
    OBVIOUS
  <2>1. Members(c)[i] \in Conds /\ Untimed(Members(c)[i])
    BY CondFacts DEF Top
  <2> QED
    BY <2>1, UntimedEvaluate, SMTT(40)
<1>3. A \in SUBSET Trackers /\ d \in A
  OBVIOUS
<1> HIDE DEF j, E, A
<1>4. EvaluateInner(c, E, s, d, t).val = AtOnce(j, s, t, c) /\ EvaluateInner(c, E, s, d, t).dwell \in A
  BY <1>1, <1>2, <1>3, InnerIsAtOnce
<1> QED
  BY <1>4 DEF j, E, A

LEMMA TopInstant ==
    ASSUME NEW s, NEW t \in Nat, NEW d \in Trackers, NEW ripe, NEW c \in Conds, Top(c)
    PROVE  Instant(c, s, d, t) = AtOnce(Judge(s, ripe, t), s, t, c)
BY TopInner DEF Instant

\* The trackers d once the conditions of Q have been evaluated at t.
Moved(d, Q, s, t) ==
    [c \in Timed |-> IF c \in Q THEN Advanced(c, Instant(c, s, d, t), d, t) ELSE d[c]]

LEMMA AdvancedTracker ==
    ASSUME NEW d \in Trackers, NEW t \in Nat, NEW c \in Timed, NEW a
    PROVE  Advanced(c, a, d, t) \in [since : Nat \cup {Never}, credited : Nat, satisfied : BOOLEAN]
<1> DEFINE T == [since : Nat \cup {Never}, credited : Nat, satisfied : BOOLEAN]
           r == Running(d[c], t)
           sat == Elapsed(r, t) >= For(c)
<1>1. d[c] \in T
  BY DEF Trackers
<1>2. r \in T
  BY <1>1 DEF Running
<1>3. sat \in BOOLEAN
  OBVIOUS
<1>4. FreshTracker \in T
  BY DEF FreshTracker
<1>5. Advanced(c, a, d, t) = IF a # "true" THEN FreshTracker ELSE [r EXCEPT !.satisfied = sat]
  BY DEF Advanced
<1> HIDE DEF r, sat
<1> QED
  BY <1>2, <1>3, <1>4, <1>5

LEMMA MovedType ==
    ASSUME NEW d \in Trackers, NEW Q, NEW s, NEW t \in Nat
    PROVE  Moved(d, Q, s, t) \in Trackers
<1> DEFINE T == [since : Nat \cup {Never}, credited : Nat, satisfied : BOOLEAN]
<1>1. \A c \in Timed : d[c] \in T /\ Advanced(c, Instant(c, s, d, t), d, t) \in T
  BY AdvancedTracker DEF Trackers
<1> HIDE DEF T
<1>2. Moved(d, Q, s, t) \in [Timed -> T]
  BY <1>1 DEF Moved
<1> QED
  BY <1>2 DEF Trackers, T

\* Evaluating a condition moves its own tracker and no other.
LEMMA TopEvaluate ==
    ASSUME NEW s, NEW t \in Nat, NEW d \in Trackers, NEW c \in Conds, Top(c)
    PROVE  Evaluate(c, s, d, t).dwell = Moved(d, {c}, s, t)
<1> DEFINE inner == EvaluateInner(c, Evaluator(s, t), s, d, t)
           a == Instant(c, s, d, t)
<1>1. inner.val = a /\ inner.dwell = d
  BY TopInner DEF Instant
<1>2. Evaluate(c, s, d, t) = IF For(c) = 0 THEN inner ELSE ApplyDwell(c, inner.val, inner.dwell, t)
  BY EvaluatorUnfold DEF Evaluate, Asked
<1>0. d = [b \in Timed |-> d[b]]
  BY DEF Trackers
<1>3. Moved(d, {c}, s, t) = [b \in Timed |-> IF b = c THEN Advanced(c, a, d, t) ELSE d[b]]
  BY DEF Moved
<1> HIDE DEF inner, a
<1>4. CASE For(c) = 0
  <2>1. Moved(d, {c}, s, t) = d
    BY <1>0, <1>3, <1>4 DEF Timed
  <2> QED
    BY <1>1, <1>2, <1>4, <2>1
<1>5. CASE For(c) # 0
  <2> DEFINE new == Advanced(c, a, d, t)
  <2>1. ApplyDwell(c, a, d, t).dwell = [d EXCEPT ![c] = new]
    BY DEF ApplyDwell, Advanced
  <2> HIDE DEF new
  <2>2. [d EXCEPT ![c] = new] = [b \in Timed |-> IF b = c THEN new ELSE d[b]]
    BY <1>0
  <2> QED
    BY <1>1, <1>2, <1>3, <1>5, <2>1, <2>2 DEF new
<1> QED
  BY <1>4, <1>5

\* Evaluating one more condition.
LEMMA MovedTwice ==
    ASSUME NEW s, NEW t \in Nat, NEW d \in Trackers, NEW Q, NEW c \in Conds, Top(c), c \in Q => For(c) = 0
    PROVE  Moved(Moved(d, Q, s, t), {c}, s, t) = Moved(d, Q \cup {c}, s, t)
<1> DEFINE m == Moved(d, Q, s, t)
           a == Instant(c, s, d, t)
<1>1. m \in Trackers
  BY MovedType
<1>2. Instant(c, s, m, t) = a
  BY <1>1, TopInstant
<1>3. \A b \in Timed : m[b] = IF b \in Q THEN Advanced(b, Instant(b, s, d, t), d, t) ELSE d[b]
  BY DEF Moved
<1> HIDE DEF m
<1>4. ASSUME NEW b \in Timed PROVE Moved(m, {c}, s, t)[b] = Moved(d, Q \cup {c}, s, t)[b]
  <2>1. CASE b = c
    <3>1. b \notin Q
      BY <2>1 DEF Timed
    <3>2. m[c] = d[c]
      BY <1>3, <2>1, <3>1
    <3>3. Advanced(c, a, m, t) = Advanced(c, a, d, t)
      BY <3>2 DEF Advanced
    <3> QED
      BY <1>2, <2>1, <3>3 DEF Moved
  <2>2. CASE b # c
    BY <1>3, <2>2 DEF Moved
  <2> QED
    BY <2>1, <2>2
<1>5. Moved(m, {c}, s, t) = Moved(d, Q \cup {c}, s, t)
  <2>1. Moved(m, {c}, s, t) = [b \in Timed |-> Moved(m, {c}, s, t)[b]]
    BY DEF Moved
  <2>2. Moved(d, Q \cup {c}, s, t) = [b \in Timed |-> Moved(d, Q \cup {c}, s, t)[b]]
    BY DEF Moved
  <2> QED
    BY <1>4, <2>1, <2>2
<1> QED
  BY <1>5 DEF m

LEMMA MovedNone ==
    ASSUME NEW d \in Trackers, NEW s, NEW t
    PROVE  Moved(d, {}, s, t) = d
BY DEF Moved, Trackers

------------------------------------------------------------------------------
(* Dwell: a plan and its conditions *)

\* The clock of c is not running.
Idle(d, c) == d[c].since = Never

\* It is, and c has been true since it was started, or longer.
Backed(d, h, c) == Idle(d, c) \/ (h[c] # Never /\ h[c] <= d[c].since)

\* There is no stage left to look at.
Over(p, r) == r.aborted \/ r.stage > Len(p.stages)

\* Where run r stands, a condition that is asked at every tick now is backed, and
\* one whose turn is still to come is idle.
Uses(p, r, d, h, asked) ==
    /\ For(p.trigger) > 0 /\ ~r.triggered => Backed(d, h, p.trigger)
    /\ \A a \in p.abort : For(a) > 0 =>
          /\ ~r.triggered => Idle(d, a)
          /\ ~r.aborted /\ ~r.ponr => Backed(d, h, a)
    /\ \A i \in DOMAIN p.stages : For(p.stages[i].when) > 0 =>
          /\ ~r.triggered \/ r.stage < i => Idle(d, p.stages[i].when)
          /\ ~r.aborted /\ r.stage = i => Backed(d, h, p.stages[i].when)
    /\ For(p.gate) > 0 =>
          /\ ~r.triggered \/ ~Over(p, r) => Idle(d, p.gate)
          /\ Backed(d, h, p.gate)
    /\ \A c \in asked : c \in Roots(p) /\ (For(c) > 0 => Backed(d, h, c))

DwellInv ==
    /\ \A c \in Timed : dwell[c].credited = 0
    /\ \A c \in DOMAIN held : held[c] \in Int /\ held[c] < now
    /\ phase = "loaded" => look.asked = {} /\ \A c \in Timed : Idle(dwell, c)
    /\ phase # "loaded" => DwellParts(Plan) \subseteq DOMAIN held
    /\ PlainDwell(Plan) => Uses(Plan, run, dwell, held, look.asked)

LEMMA AbortMoves ==
    ASSUME Wellformed(cfg), PlainDwell(Plan), NEW r \in RunType, NEW s, NEW t \in Nat, NEW d \in Trackers
    PROVE  LET o == AskAbort(r, s, d, t) IN
           /\ o.dwell = Moved(d, o.asked, s, t)
           /\ o.asked = IF r.aborted \/ r.ponr THEN {} ELSE Plan.abort
           /\ o.run \in RunType /\ o.run.triggered = r.triggered /\ o.run.stage = r.stage /\ o.run.ponr = r.ponr
           /\ r.aborted => o.run.aborted
<1> DEFINE o == AskAbort(r, s, d, t)
<1>1. CASE r.aborted \/ r.ponr \/ Plan.abort = {}
  <2>1. o = [run |-> r, dwell |-> d, asked |-> {}]
    BY <1>1 DEF AskAbort
  <2> QED
    BY <1>1, <2>1, MovedNone
<1>2. CASE ~(r.aborted \/ r.ponr \/ Plan.abort = {})
  <2> DEFINE a == CHOOSE c \in Plan.abort : TRUE
             e == Evaluate(a, s, d, t)
             b == (e.val = "true")
             q == [r EXCEPT !.aborted = b]
  <2>1. a \in Plan.abort
    BY <1>2
  <2>2. o = [run |-> q, dwell |-> e.dwell, asked |-> {a}]
    BY <1>2 DEF AskAbort
  <2> HIDE DEF a
  <2>3. a \in Conds /\ Plan.abort = {a} /\ Top(a)
    BY <2>1 DEF Wellformed, Plan, PlainDwell, Roots
  <2>4. e.dwell = Moved(d, {a}, s, t)
    BY <2>3, TopEvaluate
  <2>5. b \in BOOLEAN
    OBVIOUS
  <2> HIDE DEF e, b
  <2>6. q \in RunType /\ q.triggered = r.triggered /\ q.stage = r.stage /\ q.ponr = r.ponr
    BY <2>5 DEF RunType
  <2> HIDE DEF q
  <2> QED
    BY <1>2, <2>2, <2>3, <2>4, <2>6
<1> QED
  BY <1>1, <1>2

LEMMA StageMoves ==
    ASSUME Wellformed(cfg), PlainDwell(Plan), NEW r \in RunType, r.stage >= 1, NEW s, NEW t \in Nat, NEW d \in Trackers
    PROVE  LET o == AskStage(r, s, d, t) IN
           /\ o.dwell = Moved(d, o.asked, s, t)
           /\ o.asked = IF Over(Plan, r) THEN {} ELSE {Plan.stages[r.stage].when}
           /\ o.run.triggered = r.triggered /\ o.run.aborted = r.aborted /\ (r.ponr => o.run.ponr)
           /\ o.run.stage \in {r.stage, r.stage + 1}
<1> DEFINE o == AskStage(r, s, d, t)
<1>0. Len(Plan.stages) \in Nat /\ r.stage \in Nat /\ DOMAIN Plan.stages = 1..Len(Plan.stages)
  BY DEF Wellformed, Plan, RunType
<1>1. CASE Over(Plan, r)
  <2>1. o = [run |-> r, dwell |-> d, asked |-> {}]
    BY <1>1 DEF AskStage, Over
  <2> QED
    BY <1>1, <2>1, MovedNone
<1>2. CASE ~Over(Plan, r)
  <2> DEFINE w == Plan.stages[r.stage].when
             e == Evaluate(w, s, d, t)
             q == IF e.val = "true" THEN StageStarted(r, t)
                  ELSE IF StageTimedOut(Plan.stages[r.stage], t, r.enteredAt) THEN StageSkipped(r, t)
                  ELSE r
  <2>1. r.stage \in 1..Len(Plan.stages)
    BY <1>0, <1>2 DEF Over
  <2>2. w \in Conds /\ Top(w)
    BY <1>0, <2>1, StageFacts DEF PlainDwell, Roots
  <2>3. o = [run |-> q, dwell |-> e.dwell, asked |-> {w}]
    BY <1>2 DEF Over, AskStage, StageStarted, StageSkipped
  <2>4. e.dwell = Moved(d, {w}, s, t)
    BY <2>2, TopEvaluate
  <2>5. StageStarted(r, t).stage = r.stage + 1 /\ StageStarted(r, t).aborted = r.aborted
    BY <2>1, StageStartedFields
  <2>6. StageSkipped(r, t).stage = r.stage + 1 /\ StageSkipped(r, t).aborted = r.aborted
    BY <2>1, StageSkippedFields
  <2>7. /\ StageStarted(r, t).triggered = r.triggered /\ (r.ponr => StageStarted(r, t).ponr)
        /\ StageSkipped(r, t).triggered = r.triggered /\ StageSkipped(r, t).ponr = r.ponr
    BY DEF StageStarted, StageSkipped, RunType
  <2>8. q.triggered = r.triggered /\ q.aborted = r.aborted /\ (r.ponr => q.ponr) /\ q.stage \in {r.stage, r.stage + 1}
    BY <2>5, <2>6, <2>7
  <2> HIDE DEF w, e, q
  <2> QED
    BY <1>2, <2>3, <2>4, <2>8 DEF w
<1> QED
  BY <1>1, <1>2

LEMMA GateMoves ==
    ASSUME Wellformed(cfg), PlainDwell(Plan), NEW r, NEW s, NEW t \in Nat, NEW d \in Trackers
    PROVE  LET o == AskGate(r, s, d, t) IN
           /\ o.dwell = Moved(d, o.asked, s, t)
           /\ o.asked = IF Over(Plan, r) THEN {Plan.gate} ELSE {}
<1> DEFINE o == AskGate(r, s, d, t)
<1>1. CASE Over(Plan, r)
  <2> DEFINE e == Evaluate(Plan.gate, s, d, t)
  <2>1. o = [open |-> (e.val = "true"), dwell |-> e.dwell, asked |-> {Plan.gate}]
    BY <1>1 DEF AskGate, Over
  <2>2. Plan.gate \in Conds /\ Top(Plan.gate)
    BY DEF Wellformed, Plan, PlainDwell, Roots
  <2>3. e.dwell = Moved(d, {Plan.gate}, s, t)
    BY <2>2, TopEvaluate
  <2> HIDE DEF e
  <2> QED
    BY <1>1, <2>1, <2>3
<1>2. CASE ~Over(Plan, r)
  <2>1. o = [open |-> FALSE, dwell |-> d, asked |-> {}]
    BY <1>2 DEF AskGate, Over
  <2> QED
    BY <1>2, <2>1, MovedNone
<1> QED
  BY <1>1, <1>2

\* A clock that runs on, or is started, is backed by what is held since.
LEMMA MovedBacked ==
    ASSUME NEW d \in Trackers, NEW t \in Nat, NEW s, NEW Q, NEW c \in Q, c \in Conds, For(c) > 0,
           NEW h, h[c] \in Int, h[c] < t, Backed(d, h, c),
           NEW k, k[c] = IF Instant(c, s, d, t) # "true" THEN Never ELSE IF h[c] = Never THEN t ELSE h[c]
    PROVE  Backed(Moved(d, Q, s, t), k, c)
<1> DEFINE m == Moved(d, Q, s, t)
           a == Instant(c, s, d, t)
           T == [since : Nat \cup {Never}, credited : Nat, satisfied : BOOLEAN]
           r == Running(d[c], t)
           sat == Elapsed(r, t) >= For(c)
<1>0. c \in Timed /\ d[c] \in T
  BY CondFacts DEF Timed, Trackers
<1>1. m[c] = IF a # "true" THEN FreshTracker ELSE [r EXCEPT !.satisfied = sat]
  BY <1>0 DEF Moved, Advanced
<1>2. CASE a # "true"
  BY <1>1, <1>2 DEF Backed, Idle, FreshTracker
<1>3. CASE a = "true"
  <2>1. r \in T /\ r.since = IF d[c].since = Never THEN t ELSE d[c].since
    BY <1>0 DEF Running
  <2>2. m[c] = [r EXCEPT !.satisfied = sat]
    BY <1>1, <1>3
  <2> HIDE DEF m, r, sat
  <2>3. m[c].since = IF d[c].since = Never THEN t ELSE d[c].since
    BY <2>1, <2>2
  <2>4. k[c] = IF h[c] = Never THEN t ELSE h[c]
    BY <1>3
  <2>5. d[c].since = Never \/ (h[c] # Never /\ h[c] <= d[c].since)
    BY DEF Backed, Idle
  <2>6. k[c] # Never /\ k[c] <= m[c].since
    BY <2>3, <2>4, <2>5 DEF Never
  <2> QED
    BY <2>6 DEF Backed, m
<1> QED
  BY <1>2, <1>3

\* The trackers and what is held, before and after the conditions Q were asked.
Carried(p, Q, d, h, m, k) ==
    /\ \A c \in Q \cap Roots(p) : For(c) > 0 /\ Backed(d, h, c) => Backed(m, k, c)
    /\ \A c \in Roots(p) \ Q : For(c) > 0 /\ Idle(d, c) => Idle(m, c)

\* What a turn that follows the plan asks, and what it does to the run.
Turned(p, r, q, Q) ==
    /\ r.triggered /\ q.triggered
    /\ (r.aborted => q.aborted) /\ (r.ponr => q.ponr)
    /\ r.stage \in Nat /\ r.stage >= 1 /\ q.stage \in {r.stage, r.stage + 1}
    /\ Q = (IF r.aborted \/ r.ponr THEN {} ELSE p.abort)
           \cup (IF q.aborted \/ r.stage > Len(p.stages) THEN {} ELSE {p.stages[r.stage].when})
           \cup (IF Over(p, q) THEN {p.gate} ELSE {})

LEMMA UsesFollow ==
    ASSUME NEW p, PlainDwell(p), DOMAIN p.stages = 1..Len(p.stages), Len(p.stages) \in Nat,
           \A c \in Roots(p) : For(c) \in Int,
           NEW r, NEW q, NEW Q, Turned(p, r, q, Q),
           NEW d, NEW h, NEW m, NEW k, Carried(p, Q, d, h, m, k), NEW x, Uses(p, r, d, h, x),
           NEW asked \in SUBSET Q
    PROVE  Uses(p, q, m, k, asked)
<1> DEFINE w(i) == p.stages[i].when
<1>0. p.trigger \in Roots(p) /\ p.gate \in Roots(p) /\ p.abort \subseteq Roots(p) /\ \A i \in DOMAIN p.stages : w(i) \in Roots(p)
  BY DEF Roots
<1>1. \A i \in DOMAIN p.stages : w(i) \in Whens(p)
  BY DEF Whens
<1>2. Q \subseteq Roots(p)
  <2>1. ~(r.stage > Len(p.stages)) => r.stage \in DOMAIN p.stages
    BY DEF Turned
  <2> QED
    BY <1>0, <2>1 DEF Turned
<1>3. \A c \in Q : For(c) > 0 /\ Backed(d, h, c) => Backed(m, k, c)
  BY <1>2 DEF Carried
<1>4. \A c \in Roots(p) : c \notin Q /\ For(c) > 0 /\ Idle(d, c) => Idle(m, c)
  BY DEF Carried
<1>5. \A c \in Roots(p) : For(c) > 0 => For(c) # 0
  OBVIOUS
<1>6. \A c : Idle(d, c) => Backed(d, h, c)
  BY DEF Backed
<1>7. \A c : Idle(m, c) => Backed(m, k, c)
  BY DEF Backed
<1>t. q.triggered /\ r.triggered
  BY DEF Turned
<1>a. ASSUME NEW a \in p.abort, For(a) > 0, ~q.aborted, ~q.ponr PROVE Backed(m, k, a) /\ Backed(d, h, a)
  <2>1. ~r.aborted /\ ~r.ponr
    BY <1>a DEF Turned
  <2>2. Backed(d, h, a)
    BY <1>a, <2>1 DEF Uses
  <2>3. a \in Q
    BY <2>1 DEF Turned
  <2> QED
    BY <1>3, <1>a, <2>2, <2>3
<1>b. ASSUME NEW i \in DOMAIN p.stages, For(w(i)) > 0, q.stage < i PROVE Idle(m, w(i))
  <2>1. r.stage < i
    BY <1>b DEF Turned
  <2>2. Idle(d, w(i))
    BY <1>b, <2>1 DEF Uses
  <2>3. w(i) \notin Q
    <3>1. w(i) \notin p.abort /\ w(i) # p.gate
      BY <1>0, <1>1, <1>5, <1>b DEF PlainDwell
    <3>2. ~(r.stage > Len(p.stages)) => w(i) # w(r.stage)
      <4> SUFFICES ASSUME ~(r.stage > Len(p.stages)), w(i) = w(r.stage) PROVE FALSE
        OBVIOUS
      <4>1. r.stage \in DOMAIN p.stages
        BY DEF Turned
      <4>2. i = r.stage
        BY <1>0, <1>5, <1>b, <4>1 DEF PlainDwell
      <4> QED
        BY <2>1, <4>2 DEF Turned
    <3> QED
      BY <3>1, <3>2 DEF Turned
  <2> QED
    BY <1>0, <1>4, <1>b, <2>2, <2>3
<1>c. ASSUME NEW i \in DOMAIN p.stages, For(w(i)) > 0, ~q.aborted, q.stage = i PROVE Backed(m, k, w(i))
  <2>1. CASE r.stage = i
    <3>1. ~r.aborted /\ i \in Nat /\ i <= Len(p.stages)
      BY <1>c DEF Turned
    <3>2. Backed(d, h, w(i))
      BY <1>c, <2>1, <3>1 DEF Uses
    <3>3. w(i) \in Q
      <4>1. ~(r.stage > Len(p.stages))
        BY <2>1, <3>1
      <4> QED
        BY <1>c, <2>1, <4>1 DEF Turned
    <3> QED
      BY <1>3, <1>c, <3>2, <3>3
  <2>2. CASE r.stage # i
    <3>1. r.stage < i
      BY <1>c, <2>2 DEF Turned
    <3>2. Idle(d, w(i))
      BY <1>c, <3>1 DEF Uses
    <3>3. w(i) \notin Q
      <4>1. w(i) \notin p.abort /\ w(i) # p.gate
        BY <1>0, <1>1, <1>5, <1>c DEF PlainDwell
      <4>2. ~(r.stage > Len(p.stages)) => w(i) # w(r.stage)
        <5> SUFFICES ASSUME ~(r.stage > Len(p.stages)), w(i) = w(r.stage) PROVE FALSE
          OBVIOUS
        <5>1. r.stage \in DOMAIN p.stages
          BY DEF Turned
        <5>2. i = r.stage
          BY <1>0, <1>5, <1>c, <5>1 DEF PlainDwell
        <5> QED
          BY <2>2, <5>2
      <4> QED
        BY <4>1, <4>2 DEF Turned
    <3> QED
      BY <1>0, <1>4, <1>7, <1>c, <3>2, <3>3
  <2> QED
    BY <2>1, <2>2
<1>d. ASSUME For(p.gate) > 0 PROVE (~Over(p, q) => Idle(m, p.gate)) /\ Backed(m, k, p.gate)
  <2>1. CASE Over(p, q)
    <3>1. p.gate \in Q
      BY <2>1 DEF Turned
    <3>2. Backed(d, h, p.gate)
      BY <1>d DEF Uses
    <3> QED
      BY <1>3, <1>d, <2>1, <3>1, <3>2
  <2>2. CASE ~Over(p, q)
    <3>1. ~Over(p, r)
      BY <2>2 DEF Turned, Over
    <3>2. Idle(d, p.gate)
      BY <1>d, <3>1 DEF Uses
    <3>3. p.gate \notin Q
      <4>1. p.gate \notin p.abort /\ p.gate \notin Whens(p)
        BY <1>0, <1>5, <1>d DEF PlainDwell
      <4>2. ~(r.stage > Len(p.stages)) => p.gate # w(r.stage)
        <5>1. ~(r.stage > Len(p.stages)) => r.stage \in DOMAIN p.stages
          BY DEF Turned
        <5> QED
          BY <1>1, <4>1, <5>1
      <4> QED
        BY <2>2, <4>1, <4>2 DEF Turned
    <3>4. Idle(m, p.gate)
      BY <1>0, <1>4, <1>d, <3>2, <3>3
    <3> QED
      BY <1>7, <3>4
  <2> QED
    BY <2>1, <2>2
<1>e. ASSUME NEW c \in Q, For(c) > 0 PROVE Backed(m, k, c)
  <2>1. CASE c \in p.abort /\ ~(r.aborted \/ r.ponr)
    <3>1. Backed(d, h, c)
      BY <1>e, <2>1 DEF Uses
    <3> QED
      BY <1>3, <1>e, <3>1
  <2>2. CASE c = w(r.stage) /\ ~q.aborted /\ ~(r.stage > Len(p.stages))
    <3>1. r.stage \in DOMAIN p.stages /\ ~r.aborted
      BY <2>2 DEF Turned
    <3>2. Backed(d, h, c)
      BY <1>e, <2>2, <3>1 DEF Uses
    <3> QED
      BY <1>3, <1>e, <3>2
  <2>3. CASE c = p.gate
    <3>1. For(p.gate) > 0
      BY <1>e, <2>3
    <3> QED
      BY <1>d, <2>3, <3>1
  <2> QED
    BY <2>1, <2>2, <2>3 DEF Turned
<1> HIDE DEF w
<1>u. /\ \A a \in p.abort : For(a) > 0 => (~q.aborted /\ ~q.ponr => Backed(m, k, a))
      /\ \A i \in DOMAIN p.stages : For(w(i)) > 0 => /\ q.stage < i => Idle(m, w(i))
                                                     /\ ~q.aborted /\ q.stage = i => Backed(m, k, w(i))
      /\ \A c \in asked : c \in Roots(p) /\ (For(c) > 0 => Backed(m, k, c))
  BY <1>2, <1>a, <1>b, <1>c, <1>e
<1> QED
  BY <1>t, <1>d, <1>u DEF Uses, w

\* A turn that looks for the trigger.
LEMMA UsesTrigger ==
    ASSUME NEW p, PlainDwell(p), DOMAIN p.stages = 1..Len(p.stages), Len(p.stages) \in Nat,
           \A c \in Roots(p) : For(c) \in Int,
           NEW r, ~r.triggered, NEW q, q.stage = r.stage,
           NEW d, NEW h, NEW m, NEW k, Carried(p, {p.trigger}, d, h, m, k), NEW x, Uses(p, r, d, h, x)
    PROVE  Uses(p, q, m, k, {p.trigger})
<1> DEFINE w(i) == p.stages[i].when
<1>0. p.trigger \in Roots(p) /\ p.gate \in Roots(p) /\ p.abort \subseteq Roots(p) /\ \A i \in DOMAIN p.stages : w(i) \in Roots(p)
  BY DEF Roots
<1>1. \A i \in DOMAIN p.stages : w(i) \in Whens(p)
  BY DEF Whens
<1>2. \A c \in Roots(p) : c # p.trigger /\ For(c) > 0 /\ Idle(d, c) => Idle(m, c)
  BY DEF Carried
<1>3. \A c \in Roots(p) : For(c) > 0 => For(c) # 0
  OBVIOUS
<1>4. \A c : Idle(m, c) => Backed(m, k, c)
  BY DEF Backed
<1>5. For(p.trigger) > 0 => Backed(m, k, p.trigger)
  <2> SUFFICES ASSUME For(p.trigger) > 0 PROVE Backed(m, k, p.trigger)
    OBVIOUS
  <2>1. Backed(d, h, p.trigger)
    BY DEF Uses
  <2> QED
    BY <1>0, <2>1 DEF Carried
<1>6. ASSUME NEW a \in p.abort, For(a) > 0 PROVE Idle(m, a)
  <2>1. Idle(d, a)
    BY <1>6 DEF Uses
  <2>2. a # p.trigger
    BY <1>0, <1>3, <1>6 DEF PlainDwell
  <2> QED
    BY <1>0, <1>2, <1>6, <2>1, <2>2
<1>7. ASSUME NEW i \in DOMAIN p.stages, For(w(i)) > 0 PROVE Idle(m, w(i))
  <2>1. Idle(d, w(i))
    BY <1>7 DEF Uses
  <2>2. w(i) # p.trigger
    BY <1>0, <1>1, <1>3, <1>7 DEF PlainDwell
  <2> QED
    BY <1>0, <1>2, <1>7, <2>1, <2>2
<1>8. ASSUME For(p.gate) > 0 PROVE Idle(m, p.gate)
  <2>1. Idle(d, p.gate)
    BY <1>8 DEF Uses
  <2>2. p.gate # p.trigger
    BY <1>0, <1>3, <1>8 DEF PlainDwell
  <2> QED
    BY <1>0, <1>2, <1>8, <2>1, <2>2
<1> QED
  BY <1>0, <1>4, <1>5, <1>6, <1>7, <1>8 DEF Uses

\* Every tracker is idle, and no condition was asked: nothing to back.
LEMMA UsesIdle ==
    ASSUME NEW p, Roots(p) \subseteq Conds, NEW r, NEW d, NEW h, \A c \in Timed : Idle(d, c)
    PROVE  Uses(p, r, d, h, {})
<1>1. \A c \in Roots(p) : For(c) > 0 => Idle(d, c) /\ Backed(d, h, c)
  BY CondFacts DEF Timed, Backed
<1>2. p.trigger \in Roots(p) /\ p.gate \in Roots(p) /\ p.abort \subseteq Roots(p)
      /\ \A i \in DOMAIN p.stages : p.stages[i].when \in Roots(p)
  BY DEF Roots
<1> QED
  BY <1>1, <1>2 DEF Uses

LEMMA RootsAreConditions ==
    ASSUME Wellformed(cfg)
    PROVE  Roots(Plan) \subseteq Conds /\ DOMAIN Plan.stages = 1..Len(Plan.stages) /\ Len(Plan.stages) \in Nat
BY DEF Wellformed, Roots, Plan

LEMMA DwellInit == SimInv /\ Init => DwellInv
<1> SUFFICES ASSUME SimInv, Init PROVE DwellInv
  OBVIOUS
<1>1. \A c \in Timed : dwell[c].credited = 0 /\ Idle(dwell, c)
  BY DEF Init, Idle, FreshTracker
<1>2. look.asked = {} /\ phase = "loaded"
  BY DEF Init, NoLook
<1>3. DOMAIN held = {}
  BY DEF Init
<1>4. Roots(Plan) \subseteq Conds
  BY RootsAreConditions DEF SimInv
<1>5. Uses(Plan, run, dwell, held, {})
  BY <1>1, <1>4, UsesIdle
<1> QED
  BY <1>1, <1>2, <1>3, <1>5 DEF DwellInv

LEMMA DwellValidate == SimInv /\ DwellInv /\ Validate => DwellInv'
<1> SUFFICES ASSUME SimInv, DwellInv, Validate PROVE DwellInv'
  OBVIOUS
<1>1. cfg' = ApplyDefaults(cfg) /\ phase' # "loaded"
  BY DEF Validate
<1>2. /\ cfg \in Configs /\ phase = "loaded" /\ run' = run /\ now' = now /\ dwell' = dwell /\ look' = look
      /\ held' = [c \in DwellParts(Plan) |-> Never]
  BY DEF SimInv, Validate
<1>3. Roots(Plan') = Roots(Plan)
  <2> DEFINE q == ApplyDefaults(cfg).plan
             p == cfg.plan
  <2>1. /\ DOMAIN q.stages = DOMAIN p.stages /\ \A i \in DOMAIN p.stages : q.stages[i].when = p.stages[i].when
        /\ q.trigger = p.trigger /\ q.gate = p.gate /\ q.abort = p.abort
    BY <1>2, DefaultsKeep
  <2> HIDE DEF q, p
  <2>2. {q.stages[i].when : i \in DOMAIN q.stages} = {p.stages[i].when : i \in DOMAIN p.stages}
    BY <2>1
  <2>3. Roots(q) = Roots(p)
    BY <2>1, <2>2 DEF Roots
  <2> QED
    BY <1>1, <2>3 DEF Plan, q, p
<1>4. DwellParts(Plan') = DwellParts(Plan)
  BY <1>3 DEF DwellParts
<1>5. Roots(Plan) \subseteq Conds /\ now \in Nat
  BY RootsAreConditions DEF SimInv
<1>6. \A c \in Timed : Idle(dwell, c) /\ dwell[c].credited = 0
  BY <1>2 DEF DwellInv
<1>7. look.asked = {}
  BY <1>2 DEF DwellInv
<1>8. Uses(Plan', run', dwell', held', {})
  BY <1>2, <1>3, <1>5, <1>6, UsesIdle
<1>9. \A c \in DOMAIN held' : held'[c] \in Int /\ held'[c] < now'
  BY <1>2, <1>5 DEF Never
<1>10. DwellParts(Plan') \subseteq DOMAIN held'
  BY <1>2, <1>4
<1>11. \A c \in Timed : dwell'[c].credited = 0
  BY <1>2, <1>6
<1>12. look'.asked = {}
  BY <1>2, <1>7
<1> QED
  BY <1>1, <1>8, <1>9, <1>10, <1>11, <1>12 DEF DwellInv

LEMMA MovedMore ==
    ASSUME NEW s, NEW t \in Nat, NEW d \in Trackers, NEW Q, NEW X,
           X = {} \/ \E c \in Conds : X = {c} /\ Top(c) /\ (c \in Q => For(c) = 0)
    PROVE  Moved(Moved(d, Q, s, t), X, s, t) = Moved(d, Q \cup X, s, t)
<1>1. CASE X = {}
  <2>1. Q \cup X = Q
    BY <1>1
  <2>2. Moved(d, Q, s, t) \in Trackers
    BY MovedType
  <2>3. Moved(Moved(d, Q, s, t), {}, s, t) = Moved(d, Q, s, t)
    BY <2>2, MovedNone
  <2> QED
    BY <1>1, <2>1, <2>3
<1>2. CASE \E c \in Conds : X = {c} /\ Top(c) /\ (c \in Q => For(c) = 0)
  BY <1>2, MovedTwice
<1> QED
  BY <1>1, <1>2

\* A turn that follows a plan moves the trackers of what it asks.
LEMMA FollowMoves ==
    ASSUME SimInv, PlainDwell(Plan), run.triggered, NEW s, FollowPlan(s, now)
    PROVE  \E Q : /\ dwell' = Moved(dwell, Q, s, now)
                  /\ Turned(Plan, run, run', Q)
                  /\ look'.asked \subseteq Q
<1> DEFINE abort == AskAbort(run, s, dwell, now)
           stg == AskStage(abort.run, s, abort.dwell, now)
           gate == AskGate(stg.run, s, stg.dwell, now)
           w == Plan.stages[run.stage].when
<1>0. /\ Wellformed(cfg) /\ now \in Nat /\ dwell \in Trackers /\ run \in RunType /\ run.stage >= 1
      /\ run.stage \in Nat /\ DOMAIN Plan.stages = 1..Len(Plan.stages) /\ Len(Plan.stages) \in Nat
      /\ Roots(Plan) \subseteq Conds
  BY RootsAreConditions DEF SimInv, Past, RunType
<1>f. Wellformed(cfg) /\ now \in Nat /\ dwell \in Trackers /\ run \in RunType
  BY <1>0
<1>1. /\ dwell' = gate.dwell /\ run' = stg.run
      /\ look'.asked \subseteq abort.asked \cup stg.asked \cup gate.asked
  <2> DEFINE here == Plan.stages[run.stage]
             clash == Clash(here, run, s, dwell, now)
  <2>1. /\ dwell' = gate.dwell /\ run' = stg.run
        /\ look' = IF run.aborted \/ run.stage > Len(Plan.stages)
                   THEN [NoLook EXCEPT !.asked = abort.asked \cup gate.asked]
                   ELSE [here |-> Decision(run, stg.run), executor |-> ExecutorLook(here, run, s, dwell, now),
                         clash |-> clash, asked |-> abort.asked \cup stg.asked \cup gate.asked]
    BY Zenon DEF FollowPlan
  <2> HIDE DEF gate, stg, abort, here, clash
  <2> QED
    BY <2>1 DEF NoLook
<1>2. /\ abort.dwell = Moved(dwell, abort.asked, s, now)
      /\ abort.asked = IF run.aborted \/ run.ponr THEN {} ELSE Plan.abort
      /\ abort.run \in RunType /\ abort.run.triggered = run.triggered
      /\ abort.run.stage = run.stage /\ abort.run.ponr = run.ponr
      /\ run.aborted => abort.run.aborted
  <2> DEFINE r == run
             d == dwell
             n == now
             o == AskAbort(r, s, d, n)
  <2>1. Wellformed(cfg) /\ n \in Nat /\ d \in Trackers /\ r \in RunType
    BY <1>f
  <2> HIDE DEF r, d, n
  <2>2. /\ o.dwell = Moved(d, o.asked, s, n)
        /\ o.asked = IF r.aborted \/ r.ponr THEN {} ELSE Plan.abort
        /\ o.run \in RunType /\ o.run.triggered = r.triggered /\ o.run.stage = r.stage /\ o.run.ponr = r.ponr
        /\ r.aborted => o.run.aborted
    BY <2>1, AbortMoves
  <2> QED
    BY <2>2 DEF r, d, n
<1> HIDE DEF abort
<1>3. abort.dwell \in Trackers
  BY <1>0, <1>2, MovedType
<1>4. /\ stg.dwell = Moved(abort.dwell, stg.asked, s, now)
      /\ stg.asked = IF Over(Plan, abort.run) THEN {} ELSE {w}
      /\ stg.run.triggered = abort.run.triggered /\ stg.run.aborted = abort.run.aborted
      /\ abort.run.ponr => stg.run.ponr
      /\ stg.run.stage \in {run.stage, run.stage + 1}
  <2> DEFINE r == abort.run
             d == abort.dwell
             o == AskStage(r, s, d, now)
  <2>1. r \in RunType /\ r.stage >= 1 /\ d \in Trackers /\ r.stage = run.stage
    BY <1>0, <1>2, <1>3
  <2> HIDE DEF r, d
  <2>2. /\ o.dwell = Moved(d, o.asked, s, now)
        /\ o.asked = IF Over(Plan, r) THEN {} ELSE {Plan.stages[r.stage].when}
        /\ o.run.triggered = r.triggered /\ o.run.aborted = r.aborted /\ (r.ponr => o.run.ponr)
        /\ o.run.stage \in {r.stage, r.stage + 1}
    BY <1>f, <2>1, StageMoves
  <2> QED
    BY <2>1, <2>2 DEF r, d
<1> HIDE DEF stg
<1>5. stg.dwell \in Trackers
  BY <1>0, <1>3, <1>4, MovedType
<1>6. gate.dwell = Moved(stg.dwell, gate.asked, s, now) /\ gate.asked = IF Over(Plan, stg.run) THEN {Plan.gate} ELSE {}
  BY <1>0, <1>5, GateMoves
<1> HIDE DEF gate
<1>7. ~Over(Plan, abort.run) => /\ w \in Conds /\ Top(w) /\ w \in Whens(Plan)
                                /\ w \in Plan.abort => For(w) = 0
  <2> SUFFICES ASSUME ~Over(Plan, abort.run)
               PROVE  w \in Conds /\ Top(w) /\ w \in Whens(Plan) /\ (w \in Plan.abort => For(w) = 0)
    OBVIOUS
  <2>1. run.stage \in DOMAIN Plan.stages
    BY <1>0, <1>2 DEF Over
  <2>2. w \in Roots(Plan) /\ w \in Whens(Plan)
    BY <2>1 DEF Roots, Whens
  <2> QED
    BY <1>0, <2>2 DEF PlainDwell
<1>8. Plan.gate \in Conds /\ Top(Plan.gate) /\ (Plan.gate \in Plan.abort \cup Whens(Plan) => For(Plan.gate) = 0)
  <2>1. Plan.gate \in Roots(Plan)
    BY DEF Roots
  <2> QED
    BY <1>0, <2>1 DEF PlainDwell
<1> DEFINE Q == abort.asked \cup stg.asked
           P == Q \cup gate.asked
<1>9. stg.dwell = Moved(dwell, Q, s, now)
  <2>1. stg.asked = {} \/ \E c \in Conds : stg.asked = {c} /\ Top(c) /\ (c \in abort.asked => For(c) = 0)
    BY <1>2, <1>4, <1>7
  <2> DEFINE A == abort.asked
             X == stg.asked
  <2> HIDE DEF A, X
  <2>2. Moved(Moved(dwell, A, s, now), X, s, now) = Moved(dwell, A \cup X, s, now)
    <3>1. X = {} \/ \E c \in Conds : X = {c} /\ Top(c) /\ (c \in A => For(c) = 0)
      BY <2>1 DEF A, X
    <3> QED
      BY <1>f, <3>1, MovedMore
  <2> QED
    BY <1>2, <1>4, <2>2 DEF A, X
<1>10. dwell' = Moved(dwell, P, s, now)
  <2>1. Q \subseteq Plan.abort \cup Whens(Plan)
    BY <1>2, <1>4, <1>7
  <2>2. gate.asked = {} \/ \E c \in Conds : gate.asked = {c} /\ Top(c) /\ (c \in Q => For(c) = 0)
    BY <1>6, <1>8, <2>1
  <2> DEFINE X == gate.asked
  <2>b. X = {} \/ \E c \in Conds : X = {c} /\ Top(c) /\ (c \in Q => For(c) = 0)
    BY <2>2
  <2> HIDE DEF Q, X
  <2>3. Moved(Moved(dwell, Q, s, now), X, s, now) = Moved(dwell, Q \cup X, s, now)
    BY <1>f, <2>b, MovedMore
  <2> QED
    BY <1>1, <1>6, <1>9, <2>3 DEF X
<1>11. Turned(Plan, run, run', P)
  <2>1. run'.triggered /\ (run.aborted => run'.aborted) /\ (run.ponr => run'.ponr) /\ run'.stage \in {run.stage, run.stage + 1}
    BY <1>1, <1>2, <1>4
  <2>2. P = (IF run.aborted \/ run.ponr THEN {} ELSE Plan.abort)
            \cup (IF run'.aborted \/ run.stage > Len(Plan.stages) THEN {} ELSE {w})
            \cup (IF Over(Plan, run') THEN {Plan.gate} ELSE {})
    BY <1>1, <1>2, <1>4, <1>6 DEF Over
  <2> QED
    BY <1>0, <2>1, <2>2 DEF Turned
<1> QED
  BY <1>1, <1>10, <1>11

\* The evaluator never credits time a restart would.
LEMMA AheadCredits ==
    ASSUME NEW s, NEW t, NEW d, NEW j, NEW e \in Ahead(d, j, s, t), d \in Trackers, \A c \in Timed : d[c].credited = 0
    PROVE  \A c \in Timed : e[c].credited = 0
<1> SUFFICES ASSUME NEW c \in Timed PROVE e[c].credited = 0
  OBVIOUS
<1> DEFINE a == AtOnce(j, s, t, c)
           T == [since : Nat \cup {Never}, credited : Nat, satisfied : BOOLEAN]
           r == Running(d[c], t)
           sat == Elapsed(r, t) >= For(c)
<1>1. e[c] \in {d[c], Advanced(c, a, d, t)} /\ d[c] \in T
  BY DEF Ahead, Trackers
<1>2. DOMAIN r = {"since", "credited", "satisfied"} /\ r.credited = 0
  BY <1>1 DEF Running
<1>3. Advanced(c, a, d, t) = IF a # "true" THEN FreshTracker ELSE [r EXCEPT !.satisfied = sat]
  BY DEF Advanced
<1> HIDE DEF a, r, sat
<1>4. [r EXCEPT !.satisfied = sat].credited = 0
  BY <1>2
<1>5. Advanced(c, a, d, t).credited = 0
  BY <1>3, <1>4 DEF FreshTracker
<1> QED
  BY <1>1, <1>5

\* What a tick makes of the times the parts of the plan are held since.
HeldOn(d, h, s, t, k) ==
    /\ DOMAIN k = DOMAIN h
    /\ \A c \in DOMAIN h : k[c] = IF Instant(c, s, d, t) # "true" THEN Never ELSE IF h[c] = Never THEN t ELSE h[c]

LEMMA MovedCarried ==
    ASSUME NEW p, Roots(p) \subseteq Conds, DwellParts(p) \subseteq DOMAIN held, NEW t \in Nat,
           \A c \in DOMAIN held : held[c] \in Int /\ held[c] < t,
           NEW d \in Trackers, NEW s, NEW Q, NEW k, HeldOn(d, held, s, t, k)
    PROVE  Carried(p, Q, d, held, Moved(d, Q, s, t), k)
<1> DEFINE m == Moved(d, Q, s, t)
<1>1. ASSUME NEW c \in Q, c \in Roots(p), For(c) > 0, Backed(d, held, c) PROVE Backed(m, k, c)
  <2>1. c \in Conds
    BY <1>1
  <2>2. c \in DOMAIN held
    BY <1>1, <2>1, PartsUnfold DEF DwellParts
  <2>3. k[c] = IF Instant(c, s, d, t) # "true" THEN Never ELSE IF held[c] = Never THEN t ELSE held[c]
    BY <2>2 DEF HeldOn
  <2>4. held[c] \in Int /\ held[c] < t
    BY <2>2
  <2> QED
    BY <1>1, <2>1, <2>3, <2>4, MovedBacked
<1>2. ASSUME NEW c \in Roots(p), c \notin Q, For(c) > 0, Idle(d, c) PROVE Idle(m, c)
  <2>1. c \in Timed
    BY <1>2, CondFacts DEF Timed
  <2> QED
    BY <1>2, <2>1 DEF Moved, Idle
<1> HIDE DEF m
<1>3. Carried(p, Q, d, held, m, k)
  BY <1>1, <1>2 DEF Carried
<1> QED
  BY <1>3 DEF m

LEMMA DwellTick == SimInv /\ DwellInv /\ Tick => DwellInv'
<1> SUFFICES ASSUME SimInv, DwellInv, Tick PROVE DwellInv'
  OBVIOUS
<1> DEFINE on(s) == [c \in DOMAIN held |-> IF Instant(c, s, dwell, now) # "true" THEN Never
                                           ELSE IF held[c] = Never THEN now ELSE held[c]]
<1>1. PICK s : /\ IF run.triggered THEN FollowPlan(s, now) ELSE LookForTrigger(s, now)
               /\ held' = on(s)
  BY DEF Tick
<1>2. phase = "running" /\ now' = now + 1 /\ cfg' = cfg /\ Plan' = Plan
  BY DEF Tick, Plan
<1>3. /\ Wellformed(cfg) /\ now \in Nat /\ Past(dwell, now) /\ dwell \in Trackers /\ run \in RunType /\ run.stage >= 1
  BY <1>2, PastLater DEF SimInv, Past
<1>4. /\ Roots(Plan) \subseteq Conds /\ DOMAIN Plan.stages = 1..Len(Plan.stages) /\ Len(Plan.stages) \in Nat
      /\ \A c \in Roots(Plan) : For(c) \in Int
  BY <1>3, RootsAreConditions, CondFacts
<1>5. HeldOn(dwell, held, s, now, held')
  BY <1>1 DEF HeldOn
<1>6. /\ DwellParts(Plan) \subseteq DOMAIN held
      /\ \A c \in DOMAIN held : held[c] \in Int /\ held[c] < now
      /\ \A c \in Timed : dwell[c].credited = 0
      /\ PlainDwell(Plan) => Uses(Plan, run, dwell, held, look.asked)
  BY <1>2 DEF DwellInv
<1> DEFINE j == Judge(s, ExplainDwell(dwell, now), now)
           A == Ahead(dwell, j, s, now)
<1>7. dwell' \in A /\ phase' # "loaded"
  <2>1. CASE run.triggered
    <3>1. FollowPlan(s, now)
      BY <1>1, <2>1
    <3>2. dwell' \in A /\ phase' \in {"running", "done"}
      BY <1>2, <3>1, FollowPlanStep
    <3> QED
      BY <3>2
  <2>2. CASE ~run.triggered
    <3>1. dwell' = Evaluate(Plan.trigger, s, dwell, now).dwell /\ phase' = "running"
      BY <1>1, <2>2 DEF LookForTrigger
    <3>2. Plan.trigger \in Conds
      BY <1>3 DEF Wellformed, Plan
    <3>3. Answers(A, s, now, j) /\ dwell \in A
      BY <1>3, AnswersAhead
    <3> QED
      BY <3>1, <3>2, <3>3 DEF Answers
  <2> QED
    BY <2>1, <2>2
<1> HIDE DEF j
<1>8. \A c \in Timed : dwell'[c].credited = 0
  BY <1>3, <1>6, <1>7, AheadCredits
<1>9. DOMAIN held' = DOMAIN held /\ \A c \in DOMAIN held' : held'[c] \in Int /\ held'[c] < now'
  BY <1>2, <1>3, <1>5, <1>6 DEF HeldOn, Never
<1>10. ASSUME PlainDwell(Plan) PROVE Uses(Plan, run', dwell', held', look'.asked)
  <2>0. Uses(Plan, run, dwell, held, look.asked)
    BY <1>6, <1>10
  <2>c. \A Q : Carried(Plan, Q, dwell, held, Moved(dwell, Q, s, now), held')
    BY <1>3, <1>4, <1>5, <1>6, MovedCarried
  <2>1. CASE run.triggered
    <3>1. FollowPlan(s, now)
      BY <1>1, <2>1
    <3>2. PICK Q : dwell' = Moved(dwell, Q, s, now) /\ Turned(Plan, run, run', Q) /\ look'.asked \subseteq Q
      BY <1>10, <2>1, <3>1, FollowMoves
    <3>3. Carried(Plan, Q, dwell, held, dwell', held')
      BY <2>c, <3>2
    <3> DEFINE x == look.asked
               y == look'.asked
    <3>4. Uses(Plan, run, dwell, held, x) /\ y \in SUBSET Q
      BY <2>0, <3>2
    <3> HIDE DEF x, y
    <3>5. Uses(Plan, run', dwell', held', y)
      BY <1>4, <1>10, <3>2, <3>3, <3>4, UsesFollow
    <3> QED
      BY <3>5 DEF y
  <2>2. CASE ~run.triggered
    <3> DEFINE e == Evaluate(Plan.trigger, s, dwell, now)
    <3>1. /\ dwell' = e.dwell /\ look'.asked = {Plan.trigger}
          /\ run' = IF e.val = "true" THEN [run EXCEPT !.triggered = TRUE, !.enteredAt = now] ELSE run
      BY <1>1, <2>2 DEF LookForTrigger, NoLook
    <3>2. Plan.trigger \in Conds /\ Top(Plan.trigger)
      BY <1>4, <1>10 DEF PlainDwell, Roots
    <3>3. dwell' = Moved(dwell, {Plan.trigger}, s, now)
      BY <1>3, <3>1, <3>2, TopEvaluate
    <3>4. Carried(Plan, {Plan.trigger}, dwell, held, dwell', held')
      BY <2>c, <3>3
    <3> HIDE DEF e
    <3>5. run'.stage = run.stage
      BY <1>3, <3>1 DEF RunType
    <3> DEFINE x == look.asked
    <3>6. Uses(Plan, run, dwell, held, x)
      BY <2>0
    <3> HIDE DEF x
    <3>7. Uses(Plan, run', dwell', held', {Plan.trigger})
      BY <1>4, <1>10, <2>2, <3>4, <3>5, <3>6, UsesTrigger
    <3> QED
      BY <3>1, <3>7
  <2> QED
    BY <2>1, <2>2
<1> QED
  BY <1>2, <1>6, <1>7, <1>8, <1>9, <1>10 DEF DwellInv

LEMMA DwellInvariant == Spec => []DwellInv
<1>1. DwellInv /\ (Finish \/ UNCHANGED vars) => DwellInv'
  <2> SUFFICES ASSUME DwellInv, Finish \/ UNCHANGED vars PROVE DwellInv'
    OBVIOUS
  <2>1. /\ cfg' = cfg /\ now' = now /\ dwell' = dwell /\ run' = run /\ look' = look /\ held' = held
        /\ phase' = phase \/ (phase = "running" /\ phase' = "done")
    BY DEF Finish, vars
  <2>2. Plan' = Plan
    BY <2>1 DEF Plan
  <2> QED
    BY <2>1, <2>2 DEF DwellInv
<1>2. SimInv /\ DwellInv /\ [Next]_vars => DwellInv'
  BY <1>1, DwellValidate, DwellTick DEF Next
<1>3. SimInv /\ Init => DwellInv
  BY DwellInit
<1> QED
  BY SimulationInvariant, <1>2, <1>3, PTL DEF Spec

\* applyDwell "returns True only once the condition has held true continuously
\* for the configured duration".  For every plan in which a `for` stands at the
\* top of the condition it belongs to, and no condition with a `for` is used in
\* two places: whenever a condition is asked and says true, it has held at every
\* tick for as long as it requires.
THEOREM DwellMeansHeld == Spec => []DwellHeld
<1>1. SimInv /\ DwellInv => DwellHeld
  <2> SUFFICES ASSUME SimInv, DwellInv, PlainDwell(Plan), Started, NEW r \in look.asked,
                      Answer(r, store, dwell, LastTick) = "true"
               PROVE  Meaning(r, store, held, LastTick) = "true"
    BY DEF PlanIsPlain, DwellHeld, TrueMeansHeld
  <2> DEFINE t == LastTick
             ripe == ExplainDwell(dwell, t)
             long == {p \in DOMAIN held : held[p] # Never /\ t - held[p] >= For(p)}
             j == Judge(store, ripe, t)
             k == Judge(store, long, t)
  <2>1. t \in Nat /\ Past(dwell, t) /\ dwell \in Trackers
    BY DEF SimInv, Started, LastTick, Past
  <2>2. Roots(Plan) \subseteq Conds
    BY RootsAreConditions DEF SimInv
  <2>3. r \in Roots(Plan) /\ (For(r) > 0 => Backed(dwell, held, r))
    BY DEF DwellInv, Uses
  <2>4. r \in Conds /\ Top(r)
    BY <2>2, <2>3 DEF PlainDwell
  <2>5. j[r] = "true"
    BY <2>1, <2>4, AnswerIsExplain DEF Explain
  <2>6. j[r] = Verdict(j, store, ripe, t, r) /\ k[r] = Verdict(k, store, long, t, r)
    BY <2>4, JudgeUnfold
  <2>7. AtOnce(j, store, t, r) = AtOnce(k, store, t, r)
    <3>1. \A q : Instant(r, store, dwell, t) = AtOnce(Judge(store, q, t), store, t, r)
      BY <2>1, <2>4, TopInstant
    <3> QED
      BY <3>1
  <2>8. Meaning(r, store, held, LastTick) = k[r]
    BY DEF Meaning
  <2>9. For(r) > 0 /\ r \in ripe => r \in long
    <3> SUFFICES ASSUME For(r) > 0, r \in ripe PROVE r \in long
      OBVIOUS
    <3>1. r \in Timed /\ Elapsed(dwell[r], t) >= For(r)
      BY DEF ExplainDwell
    <3>2. dwell[r].credited = 0 /\ dwell[r].since \in Nat \cup {Never}
      BY <2>1, <3>1 DEF DwellInv, Trackers
    <3>3. dwell[r].since # Never /\ t - dwell[r].since >= For(r)
      <4>1. For(r) \in Int
        BY <2>4, CondFacts
      <4> QED
        BY <2>1, <3>1, <3>2, <4>1 DEF Elapsed
    <3>4. held[r] # Never /\ held[r] <= dwell[r].since
      BY <2>3, <3>3 DEF Backed, Idle
    <3>5. r \in DOMAIN held /\ held[r] \in Int
      <4>1. phase # "loaded"
        BY DEF Started
      <4>2. r \in DwellParts(Plan)
        BY <2>3, <2>4, PartsUnfold DEF DwellParts
      <4> QED
        BY <4>1, <4>2 DEF DwellInv
    <3>6. t - held[r] >= For(r)
      <4>1. For(r) \in Int /\ t \in Int /\ dwell[r].since \in Int
        BY <2>1, <2>4, <3>2, <3>3, CondFacts
      <4> QED
        BY <3>3, <3>4, <3>5, <4>1
    <3> QED
      BY <3>4, <3>5, <3>6
  <2> HIDE DEF j, k, ripe, long, t
  <2>10. k[r] = "true"
    <3>1. For(r) \in Int
      BY <2>4, CondFacts
    <3> QED
      BY <2>5, <2>6, <2>7, <2>9, <3>1 DEF Verdict, BoolToTrilean
  <2> QED
    BY <2>8, <2>10
<1> QED
  BY SimulationInvariant, DwellInvariant, <1>1, PTL
=============================================================================
