----------------------------- MODULE Validation -----------------------------
(***************************************************************************)
(* Configuration validation (internal/config): what `canarium validate`,   *)
(* and every start of the daemon and of the simulator, refuses.  A config  *)
(* is a record of its clients (in file order) and its plans; what a check  *)
(* would print is reduced to the set of errors, and warnings are left out. *)
(* A reference to clients is [tag |-> TRUE, name |-> t] for "tag:t" and    *)
(* [tag |-> FALSE, ...] for a client's name.  One plan is followed; a      *)
(* missing name, host, directory or url, a malformed hash or expression,   *)
(* which are refused where they stand, are not cases.                      *)
(***************************************************************************)
EXTENDS Conditions

\* What the build supports (Registry): transports, and the facts declared.
CONSTANTS Transports, SourceTypes, KnownFacts

\* What a file can hold.
ClientRef == [tag : BOOLEAN, name : STRING]
ClientType ==
    [name : STRING, transport : STRING, feedPolicy : STRING, wakePolicy : STRING, budget : Int,
     guardPeriod : Int, wakeTransport : SUBSET STRING, commsLoss : STRING, dependsOn : Seq(STRING),
     tags : SUBSET STRING, here : BOOLEAN]
StageType ==
    [when : Conds, clients : Seq(ClientRef), budget : Int, waitTimeout : Int, waitPolicy : STRING,
     ponr : BOOLEAN]
PostShutdownType ==
    [action : STRING, command : STRING, ups : STRING, username : BOOLEAN, password : BOOLEAN]
PlanType ==
    [trigger : Conds, abort : SUBSET Conds, stages : Seq(StageType), gate : Conds,
     wakeStages : Seq(Seq(ClientRef)), postShutdown : SUBSET PostShutdownType, retries : Int,
     stagger : Int, probeInterval : Int, bootDeadline : Int]
ConfigType ==
    [mode : STRING, sources : Seq([name : STRING, type : STRING]), clients : Seq(ClientType),
     plan : PlanType]

Err(b, what) == IF b THEN {what} ELSE {}

ClientNames(cfg) == {cfg.clients[i].name : i \in DOMAIN cfg.clients}

\* buildTagMap: the clients with a tag, in file order.
TagClients(cfg, tag) ==
    LET upto[i \in 0..Len(cfg.clients)] ==
            IF i = 0 THEN <<>>
            ELSE IF tag \in cfg.clients[i].tags THEN Append(upto[i - 1], cfg.clients[i].name)
            ELSE upto[i - 1]
    IN upto[Len(cfg.clients)]

\* A reference, expanded.
Expand(ref, cfg) == IF ref.tag THEN TagClients(cfg, ref.name) ELSE <<ref.name>>

Expanded(refs, cfg) ==
    LET upto[i \in 0..Len(refs)] ==
            IF i = 0 THEN <<>> ELSE upto[i - 1] \o Expand(refs[i], cfg)
    IN upto[Len(refs)]

\* Mutant: a client named and tagged is listed twice.
ResolveClientRefsRepeats(refs, cfg) == Expanded(refs, cfg)

\* ResolveClientRefs: names and tags expanded in order, each client once.
ResolveClientRefs(refs, cfg) ==
    LET all == Expanded(refs, cfg)
        upto[i \in 0..Len(all)] ==
            IF i = 0 THEN <<>>
            ELSE IF Contains(upto[i - 1], all[i]) THEN upto[i - 1] ELSE Append(upto[i - 1], all[i])
    IN upto[Len(all)]

\* An unknown client is an error; a tag nobody has is only a warning.
UnknownRefs(refs, cfg) ==
    Err(\E i \in DOMAIN refs : ~refs[i].tag /\ refs[i].name \notin ClientNames(cfg), "unknown_client")

\* checkDuration, for every duration of a client, a stage or a wake block.
CheckDurations(ds) == Err(\E d \in ds : d < 0, "negative_duration")

-----------------------------------------------------------------------------
\* applyDefaults: what a file leaves out.  Retries cannot be set to zero.
ApplyDefaults(cfg) ==
    LET or(v, default) == IF v = "" THEN default ELSE v
        client(c) == [c EXCEPT !.feedPolicy = or(@, "any"), !.wakePolicy = or(@, "power_state")]
        stage(s) == [s EXCEPT !.waitPolicy = or(@, "skip")]
        plan(p) == [p EXCEPT !.retries = IF @ = 0 THEN 3 ELSE @,
                             !.stages = [i \in DOMAIN p.stages |-> stage(p.stages[i])]]
    IN [cfg EXCEPT !.mode = or(@, "disarmed"),
                   !.clients = [i \in DOMAIN cfg.clients |-> client(cfg.clients[i])],
                   !.plan = plan(cfg.plan)]

ValidateCanarium(cfg) == Err(cfg.mode \notin {"disarmed", "dry-run", "armed"}, "unknown_mode")

ValidateSources(cfg) ==
    Err(\E i, j \in DOMAIN cfg.sources : i < j /\ cfg.sources[i].name = cfg.sources[j].name, "duplicate_source")
    \cup Err(\E i \in DOMAIN cfg.sources : cfg.sources[i].type \notin SourceTypes, "unknown_source_type")

ValidateClients(cfg) ==
    LET cs == cfg.clients
        one(c) == Err(c.transport \notin Transports, "unknown_transport")
                  \cup Err(c.feedPolicy \notin {"any", "all"}, "feed_policy")
                  \cup Err(c.wakePolicy \notin {"power_state", "retain_state"}, "wake_policy")
                  \cup Err(~(c.wakeTransport \subseteq Transports), "unknown_wake_transport")
                  \cup Err(c.commsLoss \notin {"", "threatened", "safe"}, "comms_loss")
                  \cup CheckDurations({c.budget, c.guardPeriod})
                  \cup Err(~(ToSet(c.dependsOn) \subseteq ClientNames(cfg)), "unknown_dependency")
    IN Err(\E i, j \in DOMAIN cs : i < j /\ cs[i].name = cs[j].name, "duplicate_client")
       \cup UNION {one(cs[i]) : i \in DOMAIN cs}

ValidateCondition[k \in Conds] ==
    LET c == Cond[k]
        type == IF c.condition = "" /\ c.fact = {} /\ c.value = {} THEN "" ELSE InferConditionType(c)
        nested == UNION {ValidateCondition[c.conditions[i]] : i \in DOMAIN c.conditions}
        shape ==
            CASE type = "numeric" ->
                     Err(c.fact = {}, "no_fact")
                     \cup Err(c.above \cup c.below \cup c.equals = {}, "no_bound")
              [] type = "state" ->
                     Err(c.fact = {}, "no_fact")
                     \cup Err(c.is \cup c.isNot \cup c.in \cup c.contains = {}, "no_state")
              [] type \in {"and", "or"} -> Err(c.conditions = <<>>, "no_nested_condition") \cup nested
              [] type = "not" ->
                     Err(Len(c.conditions) # 1, "not_exactly_one_condition")
                     \cup (IF c.conditions = <<>> THEN {} ELSE ValidateCondition[c.conditions[1]])
              [] type = "template" -> Err(c.value = {}, "no_expression")
              [] OTHER -> {}
    IN shape \cup CheckDurations({c.for}) \cup Err(~(c.fact \subseteq KnownFacts), "unknown_fact")

ValidatePostShutdown(ps) ==
    Err(ps.action \notin {"", "upscmd", "outlet_off", "outlet_on"}, "post_shutdown_action")
    \cup Err(ps.command = "", "no_post_shutdown_command")
    \cup Err(ps.ups = "", "no_ups")
    \cup Err(ps.username # ps.password, "half_of_a_credential")

ValidateStage(s, cfg) ==
    ValidateCondition[s.when] \cup CheckDurations({s.budget, s.waitTimeout})
    \cup Err(s.waitPolicy \notin {"", "skip", "escalate", "hold"}, "wait_policy")
    \cup UnknownRefs(s.clients, cfg)

\* validatePlans, for one plan.
ValidatePlan(p, cfg) ==
    ValidateCondition[p.trigger]
    \cup (UNION {ValidateCondition[a] : a \in p.abort})
    \cup (UNION {ValidateStage(p.stages[i], cfg) : i \in DOMAIN p.stages})
    \cup (UNION {ValidatePostShutdown(ps) : ps \in p.postShutdown})
    \cup ValidateCondition[p.gate]
    \cup (UNION {UnknownRefs(p.wakeStages[i], cfg) : i \in DOMAIN p.wakeStages})
    \cup Err(p.retries < 0, "negative_retries")
    \cup CheckDurations({p.stagger, p.probeInterval, p.bootDeadline})

-----------------------------------------------------------------------------
(* validateDependencies.  The search for cycles walks the depends_on graph  *)
(* depth first, from every client in the order the map iterates.            *)

\* graph[c.Name] = c.DependsOn: a later client of the same name wins.
Dependencies(cfg, node) ==
    LET mine == {i \in DOMAIN cfg.clients : cfg.clients[i].name = node}
    IN IF mine = {} THEN <<>> ELSE cfg.clients[Max(mine)].dependsOn

Nodes(cfg) == ClientNames(cfg) \cup UNION {ToSet(Dependencies(cfg, n)) : n \in ClientNames(cfg)}
Searches(cfg) ==
    [visited : SUBSET Nodes(cfg), path : SUBSET Nodes(cfg), found : BOOLEAN, reported : BOOLEAN]

Enter(s, node) == [s EXCEPT !.visited = @ \cup {node}, !.path = @ \cup {node}]

\* Mutant: a finished node stays on the path.
LeaveKeepsPath(s, node) == s

\* A search that found a cycle leaves its path behind.
Leave(s, node) == IF s.found THEN s ELSE [s EXCEPT !.path = @ \ {node}]

\* The loop over the dependencies of node, with search for hasCycle.
FollowDeps(cfg, node, search, start) ==
    LET deps == Dependencies(cfg, node)
        upto[i \in 0..Len(deps)] ==
            IF i = 0 THEN start
            ELSE LET s == upto[i - 1] IN
                 IF s.found THEN s
                 ELSE IF deps[i] \notin s.visited THEN search[deps[i]][s]
                 ELSE IF deps[i] \in s.path THEN [s EXCEPT !.found = TRUE, !.reported = TRUE]
                 ELSE s
    IN upto[Len(deps)]

\* The search so far mapped to the search after node has been searched from.
HasCycle(cfg) ==
    LET search[node \in Nodes(cfg)] ==
            [s \in Searches(cfg) |-> Leave(FollowDeps(cfg, node, search, Enter(s, node)), node)]
    IN search

\* One search per client not yet visited.
SearchCycles(cfg, order) ==
    LET upto[i \in 0..Len(order)] ==
            IF i = 0 THEN [visited |-> {}, path |-> {}, found |-> FALSE, reported |-> FALSE]
            ELSE LET s == upto[i - 1] IN
                 IF order[i] \in s.visited THEN s ELSE HasCycle(cfg)[order[i]][[s EXCEPT !.found = FALSE]]
    IN upto[Len(order)]

\* The last stage that names a client, 0 when none does.
StageOf(p, name, cfg) ==
    LET in == {i \in DOMAIN p.stages : Contains(ResolveClientRefs(p.stages[i].clients, cfg), name)}
    IN IF in = {} THEN 0 ELSE Max(in)

\* Mutant: only a dependency in the same stage is refused.
ValidateStageOrderSameStage(p, cfg) ==
    LET resolved(i) == ToSet(ResolveClientRefs(p.stages[i].clients, cfg))
        wrong(c, d) == StageOf(p, c.name, cfg) # 0 /\ StageOf(p, c.name, cfg) = StageOf(p, d, cfg)
    IN Err(\E i, j \in DOMAIN p.stages : i < j /\ resolved(i) \cap resolved(j) # {}, "in_two_stages")
       \cup Err(\E k \in DOMAIN cfg.clients : \E d \in ToSet(cfg.clients[k].dependsOn) :
                    wrong(cfg.clients[k], d), "dependency_before_dependent")

\* No client in two stages, and a dependency strictly after its dependents.
ValidateStageOrder(p, cfg) ==
    LET resolved(i) == ToSet(ResolveClientRefs(p.stages[i].clients, cfg))
        wrong(c, d) == /\ StageOf(p, c.name, cfg) # 0 /\ StageOf(p, d, cfg) # 0
                       /\ StageOf(p, c.name, cfg) >= StageOf(p, d, cfg)
    IN Err(\E i, j \in DOMAIN p.stages : i < j /\ resolved(i) \cap resolved(j) # {}, "in_two_stages")
       \cup Err(\E k \in DOMAIN cfg.clients : \E d \in ToSet(cfg.clients[k].dependsOn) :
                    wrong(cfg.clients[k], d), "dependency_before_dependent")

\* validateSelfPreservation: c.here says that the client's address is one of
\* this host's.
ValidateSelfPreservation(cfg) ==
    LET scheduled == UNION {ToSet(ResolveClientRefs(cfg.plan.stages[i].clients, cfg)) :
                               i \in DOMAIN cfg.plan.stages}
    IN Err(\E k \in DOMAIN cfg.clients : cfg.clients[k].here /\ cfg.clients[k].name \in scheduled,
           "shuts_itself_down")

ValidateWith(cfg, order) ==
    ValidateCanarium(cfg) \cup ValidateClients(cfg) \cup ValidateSources(cfg)
    \cup ValidatePlan(cfg.plan, cfg)
    \cup Err(SearchCycles(cfg, order).reported, "cycle")
    \cup ValidateStageOrder(cfg.plan, cfg) \cup ValidateSelfPreservation(cfg)

-----------------------------------------------------------------------------
\* A set of clients each of which depends on one of the set is a cycle, and
\* there is no other kind.
Cyclic(cfg) ==
    \E S \in SUBSET ClientNames(cfg) :
        S # {} /\ \A n \in S : ToSet(Dependencies(cfg, n)) \cap S # {}
=============================================================================
