----------------------------- MODULE Conditions -----------------------------
(***************************************************************************)
(* The condition evaluator (internal/conditions).  A condition is a tree   *)
(* of comparisons with facts, templates, and/or/not; any node may ask for  *)
(* its result to have held `for` some time, which a tracker kept under the *)
(* whole condition measures.  Evaluate advances the trackers, Explain only *)
(* reads them.                                                             *)
(*                                                                         *)
(* Optional fields of a condition are sets with at most one member.  A     *)
(* value carries what the comparisons can ask of it: its kind, its number, *)
(* the words (elements or substrings) it has, and its text.                *)
(*                                                                         *)
(* A condition stands for its key (conditionKey hashes all of it, with     *)
(* everything nested in it), its members for theirs.  Recursion over a     *)
(* condition and loops over its members are recursive functions.           *)
(***************************************************************************)
EXTENDS Integers, Sequences, FiniteSets, SequencesExt, ThreeValued

CONSTANTS
    Cond,    \* Cond[c]: the condition with key c, of those in the config files
    Depth    \* how many levels are nested below each

Conds == DOMAIN Cond

\* A condition is read from a file, so its nesting ends.  A template tests
\* something.
ASSUME ConditionAssumption ==
    /\ Depth \in [Conds -> Nat]
    /\ \A c \in Conds :
          /\ Cond[c].for \in Int
          /\ Cond[c].conditions \in Seq(Conds)
          /\ \A i \in DOMAIN Cond[c].conditions : Depth[Cond[c].conditions[i]] < Depth[c]
          /\ \A t \in Cond[c].value : t.tests \in Seq(ToSet(t.tests)) \ {<<>>}
          /\ \A d \in Conds : Cond[c] = Cond[d] => c = d

Never == -1

Number(n) == [kind |-> "number", n |-> n, has |-> {}, text |-> ToString(n)]
Words(ws) == [kind |-> "set", n |-> 0, has |-> ws, text |-> ToString(ws)]
Text(s) == [kind |-> "string", n |-> 0, has |-> {s}, text |-> s]
NoValue == [kind |-> "nil", n |-> 0, has |-> {}, text |-> "nil"]

\* ConditionConfig as UnmarshalYAML leaves it: everything absent.
ZeroCondition ==
    [condition |-> "", fact |-> {}, above |-> {}, below |-> {}, equals |-> {},
     is |-> {}, isNot |-> {}, in |-> {}, contains |-> {}, value |-> {},
     for |-> 0, conditions |-> <<>>]

\* conditionFromString: the two literals, or a template.
Literal(b) == [ZeroCondition EXCEPT !.condition = IF b THEN "true" ELSE "false"]
Template(t) == [ZeroCondition EXCEPT !.condition = "template", !.value = {t}]

InferConditionType(c) ==
    CASE c.condition # "" -> c.condition
      [] c.condition = "" /\ c.value # {} -> "template"
      [] c.condition = "" /\ c.value = {} /\ c.fact # {} ->
             IF c.above \cup c.below \cup c.equals # {} THEN "numeric" ELSE "state"
      [] OTHER -> "true"

Members(c) == Cond[c].conditions
For(c) == Cond[c].for
TypeOf(c) == InferConditionType(Cond[c])

-----------------------------------------------------------------------------
(* Leaves.  A fact's value, its quality, its time; one nobody declared has  *)
(* never been seen.                                                         *)

Get(store, f) ==
    IF f \in DOMAIN store THEN store[f] ELSE [value |-> NoValue, quality |-> "unknown", at |-> Never]

Reading(c, store) == Get(store, CHOOSE f \in c.fact : TRUE)

Usable(r) == r.quality = "good" /\ r.value # NoValue

EvaluateNumeric(c, store) ==
    LET r == Reading(c, store) IN
    IF c.fact = {} \/ ~Usable(r) \/ r.value.kind # "number" THEN "unavailable"
    ELSE BoolToTrilean(/\ \A a \in c.above : r.value.n > a
                       /\ \A b \in c.below : r.value.n < b
                       /\ \A e \in c.equals : r.value.n = e)

\* Mutant: a fact that cannot be used counts as not matching.
EvaluateStateTwoValued(c, store) ==
    LET r == Reading(c, store) IN
    BoolToTrilean(Usable(r) /\ c.contains \subseteq r.value.has)

EvaluateState(c, store) ==
    LET r == Reading(c, store) IN
    IF c.fact = {} \/ ~Usable(r) THEN "unavailable"
    ELSE IF c.contains # {}
    THEN IF r.value.kind \in {"set", "string"}
         THEN BoolToTrilean(c.contains \subseteq r.value.has) ELSE "unavailable"
    ELSE IF c.is # {} THEN BoolToTrilean(r.value.text \in c.is)
    ELSE IF c.isNot # {} THEN BoolToTrilean(r.value.text \notin c.isNot)
    ELSE IF c.in # {} THEN BoolToTrilean(r.value.text \in c.in)
    ELSE "unavailable"

(* A template is a chain of tests joined by && or ||, read from the left    *)
(* and only as far as needed.  fact() of a fact that is not good is nil,    *)
(* fails every test and spoils the answer; quality() and age() do not.      *)

FactAge(r, now) == IF r.at = Never THEN -1 ELSE now - r.at

Test(t, store, now) ==
    LET r == Get(store, t.fact) IN
    CASE t.asks = "fact" -> Usable(r) /\ t.word \in r.value.has
      [] t.asks = "quality" -> r.quality = t.word
      [] t.asks = "age" -> FactAge(r, now) > t.limit

EvaluateTemplate(c, store, now) ==
    LET t == CHOOSE v \in c.value : TRUE
        decides(i) == Test(t.tests[i], store, now) = (t.join = "or")
        last == IF \E i \in 1..Len(t.tests) : decides(i)
                THEN CHOOSE i \in 1..Len(t.tests) : decides(i) /\ \A j \in 1..i-1 : ~decides(j)
                ELSE Len(t.tests)
        sawUnavailable == \E i \in 1..last : t.tests[i].asks = "fact" /\ ~Usable(Get(store, t.tests[i].fact))
    IN IF c.value = {} \/ sawUnavailable THEN "unavailable"
       ELSE BoolToTrilean(Test(t.tests[last], store, now))

EvaluateLeaf(c, store, now) ==
    CASE InferConditionType(c) = "numeric" -> EvaluateNumeric(c, store)
      [] InferConditionType(c) = "state" -> EvaluateState(c, store)
      [] InferConditionType(c) = "template" -> EvaluateTemplate(c, store, now)
      [] InferConditionType(c) \in {"true", "false"} -> InferConditionType(c)
      [] OTHER -> "unavailable"

-----------------------------------------------------------------------------
(* Dwell.  dwell maps a condition that asks for some time to its tracker;   *)
(* one that has none yet has a fresh one.                                   *)

Timed == {c \in Conds : For(c) # 0}
Trackers == [Timed -> [since : Nat \cup {Never}, credited : Nat, satisfied : BOOLEAN]]

FreshTracker == [since |-> Never, credited |-> 0, satisfied |-> FALSE]

Elapsed(t, now) == t.credited + (IF t.since = Never THEN 0 ELSE now - t.since)

\* The tracker of a condition that holds, its clock started.
Running(t, now) == [t EXCEPT !.since = IF @ = Never THEN now ELSE @]

\* Mutant: only a definite false starts the time again.
ApplyDwellForgivesGaps(c, current, dwell, now) ==
    LET held == Running(dwell[c], now)
        new == CASE current = "true" -> [held EXCEPT !.satisfied = Elapsed(held, now) >= For(c)]
                 [] current = "false" -> FreshTracker
                 [] OTHER -> dwell[c]
    IN [val |-> IF current # "true" THEN current ELSE BoolToTrilean(new.satisfied),
        dwell |-> [dwell EXCEPT ![c] = new]]

\* applyDwell: anything but true starts the time again, and what is
\* unavailable stays so.
ApplyDwell(c, current, dwell, now) ==
    LET held == Running(dwell[c], now)
        new == IF current # "true" THEN FreshTracker
               ELSE [held EXCEPT !.satisfied = Elapsed(held, now) >= For(c)]
    IN [val |-> IF current # "true" THEN current ELSE BoolToTrilean(new.satisfied),
        dwell |-> [dwell EXCEPT ![c] = new]]

\* evaluateAnd and evaluateOr, with eval for Evaluate: stop at the member that
\* decides; those after it are not evaluated, so neither are their trackers.
EvaluateList(c, eval, dwell) ==
    LET and == TypeOf(c) = "and"
        upto[i \in 0..Len(Members(c))] ==
            IF i = 0 THEN [val |-> BoolToTrilean(and), dwell |-> dwell]
            ELSE LET sofar == upto[i - 1]
                     child == eval[Members(c)[i]][sofar.dwell]
                 IN IF sofar.val = BoolToTrilean(~and) THEN sofar
                    ELSE [val |-> IF and THEN And(sofar.val, child.val) ELSE Or(sofar.val, child.val),
                          dwell |-> child.dwell]
    IN upto[Len(Members(c))]

EvaluateInner(c, eval, store, dwell, now) ==
    CASE TypeOf(c) \in {"and", "or"} -> EvaluateList(c, eval, dwell)
      [] TypeOf(c) = "not" ->
             IF Members(c) = <<>> THEN [val |-> "unavailable", dwell |-> dwell]
             ELSE LET child == eval[Members(c)[1]][dwell]
                  IN [val |-> Not(child.val), dwell |-> child.dwell]
      [] OTHER -> [val |-> EvaluateLeaf(Cond[c], store, now), dwell |-> dwell]

\* Evaluate's last step: the `for` of c, if it has one.
Dwelt(c, inner, now) == IF For(c) = 0 THEN inner ELSE ApplyDwell(c, inner.val, inner.dwell, now)

\* The trackers before each evaluation mapped to the answer and the trackers after.
Evaluator(store, now) ==
    LET eval[c \in Conds] ==
            [dwell \in Trackers |-> Dwelt(c, EvaluateInner(c, eval, store, dwell, now), now)]
    IN eval

Evaluate(c, store, dwell, now) == Evaluator(store, now)[c][dwell]

-----------------------------------------------------------------------------
(* Explain: the same answer without touching a tracker, every child shown.  *)

\* The answer of every condition if just those of ripe have held long enough.
Judge(store, ripe, now) ==
    LET judge[c \in Conds] ==
            LET children == {judge[Members(c)[i]] : i \in DOMAIN Members(c)}
                instant ==
                    CASE TypeOf(c) = "and" -> AndAll(children)
                      [] TypeOf(c) = "or" -> OrAll(children)
                      [] TypeOf(c) = "not" -> IF Members(c) = <<>> THEN "unavailable"
                                         ELSE Not(judge[Members(c)[1]])
                      [] OTHER -> EvaluateLeaf(Cond[c], store, now)
            IN IF instant # "true" \/ For(c) <= 0 THEN instant ELSE BoolToTrilean(c \in ripe)
    IN judge

\* Mutant: a timer that has just run out is still shown as running.
ExplainDwellLate(dwell, now) == {c \in Timed : Elapsed(dwell[c], now) > For(c)}

ExplainDwell(dwell, now) == {c \in Timed : Elapsed(dwell[c], now) >= For(c)}

Explain(c, store, dwell, now) == Judge(store, ExplainDwell(dwell, now), now)[c]

-----------------------------------------------------------------------------
(* What a condition means, for the properties below.                       *)

\* A condition and all its parts.
Parts[c \in Conds] == {c} \cup UNION {Parts[Members(c)[i]] : i \in DOMAIN Members(c)}

\* Does a template in c look at the quality or the age of a fact?
AsksAvailability(c) ==
    \E p \in Parts[c] : \E t \in Cond[p].value : \E i \in DOMAIN t.tests : t.tests[i].asks # "fact"

\* The answer when `for` means what it says: the part has been true at every
\* tick for that long.  held[p] is since when part p has been true.
Meaning(c, store, held, now) ==
    Judge(store, {p \in DOMAIN held : held[p] # Never /\ now - held[p] >= For(p)}, now)[c]
=============================================================================
