---------------------------- MODULE MCSimulation ----------------------------
(* Configs for Simulation.                                                  *)
EXTENDS Simulation

MCTransports == {"ssh"}
MCFacts == {"status", "charge"}
OL == Words({"OL"})
OB == Words({"OB"})
MCValues == [f \in MCFacts |-> IF f = "status" THEN {OL, OB} ELSE {Number(20), Number(90)}]

Name(n) == [tag |-> FALSE, name |-> n]
Tag(t) == [tag |-> TRUE, name |-> t]
Client(n, deps, tags, here) ==
    [name |-> n, transport |-> "ssh", feedPolicy |-> "", wakePolicy |-> "", budget |-> 1,
     guardPeriod |-> 1, wakeTransport |-> {}, commsLoss |-> "", dependsOn |-> deps, tags |-> tags, here |-> here]
Stage(when, refs, timeout, policy, ponr) ==
    [when |-> when, clients |-> refs, budget |-> 1, waitTimeout |-> timeout, waitPolicy |-> policy, ponr |-> ponr]
APlan(trigger, abort, stages, gate) ==
    [trigger |-> trigger, abort |-> abort, stages |-> stages, gate |-> gate, wakeStages |-> <<>>,
     postShutdown |-> {}, retries |-> 0, stagger |-> 0, probeInterval |-> 1, bootDeadline |-> 1]
Config(mode, clients, plan) ==
    [mode |-> mode, sources |-> <<[name |-> "ups", type |-> "nut"]>>, clients |-> clients, plan |-> plan]

Is(w) == [ZeroCondition EXCEPT !.fact = {"status"}, !.contains = {w}]
Low == [ZeroCondition EXCEPT !.fact = {"charge"}, !.below = {50}]
High == [ZeroCondition EXCEPT !.condition = "numeric", !.fact = {"charge"}, !.above = {50}]
Group(type, cs) == [ZeroCondition EXCEPT !.condition = type, !.conditions = cs]
Lasting(c, d) == [c EXCEPT !.for = d]
Asks(what, f, w) == [asks |-> what, fact |-> f, word |-> w, limit |-> 1]
Join(op, tests) == Template([join |-> op, tests |-> tests])

\* The conditions of the configs below.
MCCond ==
    [always |-> Literal(TRUE), ob |-> Is("OB"), ol |-> Is("OL"), low |-> Low, high |-> High,
     ob2 |-> Lasting(Is("OB"), 2), ol1 |-> Lasting(Is("OL"), 1), high2 |-> Lasting(High, 2),
     notLow2 |-> Lasting(Group("not", <<"low">>), 2), notOb |-> Group("not", <<"ob">>),
     lowOrOl |-> Group("or", <<"low", "ol">>), fine |-> Group("or", <<"notOb", "high2">>),
     olAndHigh2 |-> Group("and", <<"ol", "high2">>),
     restored |-> Lasting(Group("and", <<"ol", "high">>), 1),
     obOrBlind |-> Join("or", <<Asks("fact", "status", "OB"), Asks("quality", "charge", "stale")>>),
     obAndOld |-> Join("and", <<Asks("fact", "status", "OB"), Asks("age", "charge", "")>>)]
MCDepth ==
    [c \in DOMAIN MCCond |-> CASE MCCond[c].conditions = <<>> -> 0 [] c = "fine" -> 2 [] OTHER -> 1]

\* Every dependency graph over three clients, in a file whose mode is
\* misspelt, so that it is refused whatever the graph.
Three == {"a", "b", "c"}
Graphs ==
    {Config("amred",
            <<Client("a", SetToSeq(g["a"]), {}, FALSE), Client("b", SetToSeq(g["b"]), {}, FALSE),
              Client("c", SetToSeq(g["c"]), {}, FALSE)>>,
            APlan("always", {}, <<>>, "always")) : g \in [Three -> SUBSET Three]}

\* Every way to name an application, its storage and a tag in two stages;
\* the storage may be the host the daemon runs on.
Refs == {Name("app"), Name("nas"), Name("gone"), Tag("rack")}
Placements ==
    {Config("armed",
            <<Client("app", <<"nas">>, {}, FALSE), Client("nas", <<>>, {"rack"}, here),
              Client("pi", <<>>, {"rack"}, FALSE)>>,
            APlan("always", {}, <<Stage("always", SetToSeq(one), 1, "", FALSE),
                                Stage("always", SetToSeq(two), 1, "", FALSE)>>, "always")) :
        one \in SUBSET Refs, two \in SUBSET Refs, here \in BOOLEAN}

Pair == <<Client("app", <<"nas">>, {}, FALSE), Client("nas", <<>>, {}, FALSE)>>
Two(w1, p1, w2, p2) ==
    <<Stage(w1, <<Name("app")>>, 1, p1, FALSE), Stage(w2, <<Name("nas")>>, 1, p2, TRUE)>>

\* Dwell on the trigger, the abort and the gate; one stage is given up.
Dwelling ==
    Config("armed", Pair, APlan("ob2", {"ol1"}, Two("low", "", "low", "hold"), "restored"))

\* Negation, templates that short-circuit, and an abort on charge.
Templates ==
    Config("dry-run", Pair,
        APlan("obOrBlind", {"notLow2"}, Two("obAndOld", "escalate", "lowOrOl", ""), "fine"))

\* The gate the guide calls canonical: mains restored, and charge above a limit
\* for a while.
CanonicalGate ==
    {Config("armed", Pair, APlan("always", {}, Two("always", "", "always", ""), "olAndHigh2"))}

\* Post-shutdown commands and wake stages, some of them wrong.
Commands ==
    {Config("armed", Pair,
        [APlan("always", {}, Two("always", "", "always", ""), "always")
            EXCEPT !.postShutdown = {[action |-> "upscmd", command |-> c, ups |-> "ups",
                                      username |-> u, password |-> p]},
                   !.wakeStages = <<<<Name(w)>>>>]) :
        c \in {"", "shutdown.return"}, u \in BOOLEAN, p \in BOOLEAN, w \in {"app", "gone"}}

\* Durations and policies that are refused.
Misspelt ==
    {[Config("armed", Pair, APlan("always", {}, Two("always", "", "always", ""), "always"))
        EXCEPT !.clients[1].budget = b, !.clients[2].commsLoss = l, !.clients[2].wakeTransport = t,
               !.plan.stagger = g] :
        b \in {-1, 1}, l \in {"", "save"}, t \in SUBSET {"ssh", "wol"}, g \in {-1, 0}}

MCConfigs == Graphs \cup Placements \cup Commands \cup Misspelt \cup {Dwelling, Templates}
=============================================================================
