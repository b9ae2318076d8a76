----------------------------- MODULE Simulation -----------------------------
(***************************************************************************)
(* `canarium simulate`: a config is loaded and validated, and if it passes *)
(* one plan is replayed against a timeline of fact changes, with the       *)
(* daemon's own evaluator and fact store (internal/simulate).  A tick of   *)
(* the timeline is one step here; which facts change at a tick is open, so *)
(* every timeline over the given values is replayed.                       *)
(***************************************************************************)
EXTENDS Validation

CONSTANTS
    Configs,   \* the config files to load
    Values,    \* Values[f]: what the timeline may set fact f to
    Interval,  \* poll interval of the simulated sources, in ticks
    Duration   \* length of the timeline, in ticks

ASSUME SimulationAssumption ==
    Interval \in Nat \ {0} /\ Duration \in Nat /\ KnownFacts = DOMAIN Values

\* A plan has one abort condition or none.
ASSUME ConfigAssumption ==
    /\ Configs \subseteq ConfigType
    /\ \A file \in Configs : \A a, b \in file.plan.abort : a = b

VARIABLES
    cfg,      \* the config
    report,   \* the errors validation found
    phase,    \* "loaded", "refused", "running" or "done"
    now,      \* ticks since the start of the timeline
    store,    \* store[f]: value, quality and time of fact f
    dwell,    \* the evaluator's trackers
    run,      \* the simulator's local variables and its result
    look,     \* what this tick decided about the stage, here and in the executor
    held      \* held[p]: since when part p of the plan's conditions has been true

vars == <<cfg, report, phase, now, store, dwell, run, look, held>>

FactKeys == DOMAIN Values
Plan == cfg.plan
Roots(p) == {p.trigger, p.gate} \cup p.abort \cup {p.stages[i].when : i \in DOMAIN p.stages}
DwellParts(p) == {c \in UNION {Parts[r] : r \in Roots(p)} : For(c) > 0}

\* No stage was looked at in this tick.
NoLook == [here |-> "none", executor |-> "none", clash |-> FALSE, asked |-> {}]

Init ==
    /\ cfg \in Configs
    /\ report = {}
    /\ phase = "loaded"
    /\ now = 0
    /\ store = [f \in FactKeys |-> [value |-> NoValue, quality |-> "unknown", at |-> Never]]
    /\ dwell = [c \in Timed |-> FreshTracker]
    /\ run = [triggered |-> FALSE, aborted |-> FALSE, ponr |-> FALSE, stage |-> 1, enteredAt |-> 0,
              order |-> <<>>, notShutDown |-> <<>>, stages |-> <<>>, skipped |-> <<>>]
    /\ look = NoLook
    /\ held = [c \in {} |-> Never]

\* simulateCmd: defaults, then validation; the map of clients is walked in
\* any order.
Validate ==
    /\ phase = "loaded"
    /\ \E order \in SetToSeqs(ClientNames(cfg)) :
          LET loaded == ApplyDefaults(cfg)
              errors == ValidateWith(loaded, order)
          IN /\ cfg' = loaded
             /\ report' = errors
             /\ phase' = IF errors = {} THEN "running" ELSE "refused"
    /\ held' = [c \in DwellParts(Plan) |-> Never]
    /\ UNCHANGED <<now, store, dwell, run, look>>

\* Store.Update for every fact still reported, then RefreshQuality.
RefreshStore(reported, t) ==
    [f \in FactKeys |->
        IF reported[f] # NoValue THEN [value |-> reported[f], quality |-> "good", at |-> t]
        ELSE IF store[f].quality = "unknown" THEN store[f]
        ELSE [store[f] EXCEPT !.quality = IF t - store[f].at > 2 * Interval THEN "stale" ELSE "good"]]

StageTimedOut(stage, t, enteredAt) == stage.waitPolicy # "hold" /\ t - enteredAt >= stage.waitTimeout

\* Evaluate without keeping the trackers: what a condition answers now.
Answer(c, s, d, t) == Evaluate(c, s, d, t).val
\* The same without its `for`.
Instant(c, s, d, t) == EvaluateInner(c, Evaluator(s, t), s, d, t).val

Aborting(r, s, d, t) == ~r.ponr /\ \E a \in Plan.abort : Answer(a, s, d, t) = "true"

\* The executor's first look at a stage it has just entered.
FirstLook(r, t) == t = r.enteredAt + 1

\* What the executor makes of the same facts and timers at its next look at a
\* stage: entering it, runShutdownStages asks abort first; while it waits,
\* waitForStage asks `when` first, then abort, then the time, and a stage
\* under hold is entered anew when that is up.
ExecutorLook(stage, r, s, d, t) ==
    LET when == Answer(stage.when, s, d, t) = "true"
        abort == Aborting(r, s, d, t)
        late == t - r.enteredAt >= stage.waitTimeout
    IN CASE abort /\ (FirstLook(r, t) \/ ~when) -> "abort"
         [] when /\ ~(abort /\ FirstLook(r, t)) -> "start"
         [] ~when /\ ~abort /\ late /\ stage.waitPolicy # "hold" -> "skip"
         [] OTHER -> "wait"

\* Both conditions hold while the executor waits for the stage.
Clash(stage, r, s, d, t) ==
    Answer(stage.when, s, d, t) = "true" /\ Aborting(r, s, d, t) /\ ~FirstLook(r, t)

\* The part of a tick that looks for the trigger.
LookForTrigger(s, t) ==
    LET e == Evaluate(Plan.trigger, s, dwell, t) IN
    /\ dwell' = e.dwell
    /\ run' = IF e.val = "true" THEN [run EXCEPT !.triggered = TRUE, !.enteredAt = t] ELSE run
    /\ look' = [NoLook EXCEPT !.asked = {Plan.trigger}]
    /\ phase' = "running"

\* Abort is asked first, while no point of no return is crossed.
AskAbort(r, s, d, t) ==
    IF r.aborted \/ r.ponr \/ Plan.abort = {} THEN [run |-> r, dwell |-> d, asked |-> {}]
    ELSE LET a == CHOOSE c \in Plan.abort : TRUE
             e == Evaluate(a, s, d, t)
         IN [run |-> [r EXCEPT !.aborted = e.val = "true"], dwell |-> e.dwell, asked |-> {a}]

\* Mutant: the time limit is looked at before the condition.
AskStageTimeoutFirst(r, s, d, t) ==
    IF r.aborted \/ r.stage > Len(Plan.stages) THEN [run |-> r, dwell |-> d, asked |-> {}]
    ELSE LET stage == Plan.stages[r.stage]
             e == Evaluate(stage.when, s, d, t)
             clients == ResolveClientRefs(stage.clients, cfg)
             next == [r EXCEPT !.stage = @ + 1, !.enteredAt = t]
         IN [run |-> IF e.val = "true" /\ ~StageTimedOut(stage, t, r.enteredAt)
                     THEN [next EXCEPT !.ponr = @ \/ stage.ponr, !.order = @ \o clients,
                                       !.stages = Append(@, r.stage)]
                     ELSE IF StageTimedOut(stage, t, r.enteredAt)
                     THEN [next EXCEPT !.notShutDown = @ \o clients, !.skipped = Append(@, r.stage)]
                     ELSE r,
             dwell |-> e.dwell, asked |-> {stage.when}]

\* Then the current stage: started, given up, or left waiting.
AskStage(r, s, d, t) ==
    IF r.aborted \/ r.stage > Len(Plan.stages) THEN [run |-> r, dwell |-> d, asked |-> {}]
    ELSE LET stage == Plan.stages[r.stage]
             e == Evaluate(stage.when, s, d, t)
             clients == ResolveClientRefs(stage.clients, cfg)
             next == [r EXCEPT !.stage = @ + 1, !.enteredAt = t]
         IN [run |-> IF e.val = "true"
                     THEN [next EXCEPT !.ponr = @ \/ stage.ponr, !.order = @ \o clients,
                                       !.stages = Append(@, r.stage)]
                     ELSE IF StageTimedOut(stage, t, r.enteredAt)
                     THEN [next EXCEPT !.notShutDown = @ \o clients, !.skipped = Append(@, r.stage)]
                     ELSE r,
             dwell |-> e.dwell, asked |-> {stage.when}]

\* Then, aborted or with no stage left, the wake gate.
AskGate(r, s, d, t) ==
    IF r.aborted \/ r.stage > Len(Plan.stages)
    THEN LET e == Evaluate(Plan.gate, s, d, t)
         IN [open |-> e.val = "true", dwell |-> e.dwell, asked |-> {Plan.gate}]
    ELSE [open |-> FALSE, dwell |-> d, asked |-> {}]

\* What the simulator did about the stage it was at.
Decision(before, after) ==
    IF after.aborted /\ ~before.aborted THEN "abort"
    ELSE IF after.stages # before.stages THEN "start"
    ELSE IF after.skipped # before.skipped THEN "skip"
    ELSE "wait"

\* The three questions in their order, each on the trackers the last one left.
FollowPlan(s, t) ==
    \E abort \in {AskAbort(run, s, dwell, t)} :
    \E stage \in {AskStage(abort.run, s, abort.dwell, t)} :
    \E gate \in {AskGate(stage.run, s, stage.dwell, t)} :
       /\ dwell' = gate.dwell
       /\ run' = stage.run
       /\ phase' = IF gate.open THEN "done" ELSE "running"
       /\ look' =
             IF run.aborted \/ run.stage > Len(Plan.stages)
             THEN [NoLook EXCEPT !.asked = abort.asked \cup gate.asked]
             ELSE LET here == Plan.stages[run.stage] IN
                  [here |-> Decision(run, stage.run),
                   executor |-> ExecutorLook(here, run, s, dwell, t),
                   clash |-> Clash(here, run, s, dwell, t),
                   asked |-> abort.asked \cup stage.asked \cup gate.asked]

\* The facts the plan reads; the others decide nothing.
Reads(p) ==
    LET tested(c) == UNION {{t.tests[i].fact : i \in DOMAIN t.tests} : t \in Cond[c].value}
    IN UNION {Cond[c].fact \cup tested(c) : c \in UNION {Parts[r] : r \in Roots(p)}}

\* What the sources of the facts read may report; NoValue when one is silent.
Reports(reads) ==
    {reported \in [FactKeys -> {NoValue} \cup UNION {Values[f] : f \in FactKeys}] :
        \A f \in FactKeys : reported[f] \in {NoValue} \cup (IF f \in reads THEN Values[f] ELSE {})}

\* One turn of the loop of run(): the events due (reported[f] is what the
\* source of f reports from here on), the facts, the decisions.
Tick ==
    /\ phase = "running" /\ now <= Duration
    /\ \E reported \in Reports(Reads(Plan)) :
          LET s == RefreshStore(reported, now) IN
            /\ store' = s
            /\ IF run.triggered THEN FollowPlan(s, now) ELSE LookForTrigger(s, now)
            /\ held' = [c \in DOMAIN held |->
                           IF Instant(c, s, dwell, now) # "true" THEN Never
                           ELSE IF held[c] = Never THEN now ELSE held[c]]
    /\ now' = now + 1
    /\ UNCHANGED <<cfg, report>>

\* The timeline is over.
Finish ==
    /\ phase = "running" /\ now > Duration
    /\ phase' = "done"
    /\ UNCHANGED <<cfg, report, now, store, dwell, run, look, held>>

Next == Validate \/ Tick \/ Finish

Spec == Init /\ [][Next]_vars

-----------------------------------------------------------------------------
(* Properties.                                                              *)

\* The time of the last tick: the facts and the trackers are of this instant.
LastTick == now - 1
Started == phase \in {"running", "done"} /\ now > 0

\* validateDependencies: whatever order the map of clients is walked in, a
\* cycle is reported exactly when the depends_on graph has one; a client
\* reached along two paths is not taken for one.
CycleVerdictExact == phase # "loaded" => ("cycle" \in report <=> Cyclic(cfg))

\* A plan that passed validation never shuts a client down before one that
\* depends on it, through names or tags.
DependentsFirst ==
    \A i, j \in DOMAIN run.order : \A k \in DOMAIN cfg.clients :
        LET c == cfg.clients[k] IN
        c.name = run.order[j] /\ run.order[i] \in ToSet(c.dependsOn) => j < i

\* Every client of a validated plan exists and is settled once: told to shut down or
\* reported as left running, never both and never twice.
EachClientOnce ==
    LET settled == run.order \o run.notShutDown IN
    /\ ToSet(settled) \subseteq ClientNames(cfg)
    /\ \A i, j \in DOMAIN settled : settled[i] = settled[j] => i = j

\* "Result is what the policy loop would currently see" (Explanation): at
\* every instant the read-only account of a condition, whose children are all
\* looked at, is the answer Evaluate would give.
ExplainAgrees ==
    Started => \A r \in Roots(Plan) : Explain(r, store, dwell, LastTick) = Answer(r, store, dwell, LastTick)

\* Losing facts never decides anything (README: "stale or unknown facts never
\* satisfy a condition"): whichever facts go stale, a condition keeps its
\* answer or becomes unavailable, unless a template asks for the quality or
\* the age of a fact.
LossNeverDecides ==
    Started => \A r \in Roots(Plan) : AsksAvailability(r) \/ \A lost \in SUBSET FactKeys :
        LET less == [f \in FactKeys |-> IF f \in lost THEN [store[f] EXCEPT !.quality = "stale"] ELSE store[f]]
        IN Answer(r, less, dwell, LastTick) \in {"unavailable", Answer(r, store, dwell, LastTick)}

\* No part of c asks for any time; no member of c does.
Untimed(c) == \A p \in Parts[c] : For(p) = 0
Top(c) == \A i \in 1..Len(Members(c)) : Untimed(Members(c)[i])

Whens(p) == {p.stages[i].when : i \in DOMAIN p.stages}

\* The conditions that ask for some time do so at the top, and each is used in
\* one place of the plan.
PlainDwell(p) ==
    /\ \A r \in Roots(p) : Top(r)
    /\ For(p.trigger) # 0 => p.trigger \notin p.abort \cup Whens(p) \cup {p.gate}
    /\ \A a \in p.abort : For(a) # 0 => a \notin Whens(p) \cup {p.gate}
    /\ For(p.gate) # 0 => p.gate \notin Whens(p)
    /\ \A i, k \in DOMAIN p.stages : p.stages[i].when = p.stages[k].when /\ For(p.stages[i].when) # 0 => i = k

PlanIsPlain == PlainDwell(Plan)

\* Whenever a condition of the plan is asked and says true, all its parts have
\* held for as long as they require.
TrueMeansHeld ==
    \A r \in look.asked :
        Answer(r, store, dwell, LastTick) = "true" => Meaning(r, store, held, LastTick) = "true"

\* applyDwell "returns True only once the condition has held true continuously
\* for the configured duration": so it is at every tick, for every plan whose
\* `for`s stand at the top of their conditions and are used in one place.  Under
\* an `and` or `or` that stops early the timer is not asked at every tick, and
\* this can fail: see DwellAlwaysHeld.
DwellHeld == Started /\ PlanIsPlain => TrueMeansHeld

\* The same of every plan, as the comment on applyDwell has it, and the guide of
\* its canonical wake gate ("The dwell prevents waking into a flapping outage").
DwellAlwaysHeld == Started => TrueMeansHeld

\* The answers "match what the executor would decide" (package simulate): at
\* every look at a stage simulator and executor do the same on the same facts
\* and timers, unless the stage's condition and the abort condition come to
\* hold at once while the executor waits (it starts the stage, the simulator
\* aborts).
AgreesWithExecutor == ~look.clash => look.here = look.executor
=============================================================================
