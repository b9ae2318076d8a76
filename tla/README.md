# A TLA+ model of Canarium

Canarium watches power (UPS, sensors), decides by configured conditions when to
shut a fleet of machines down, does so in stages, and brings the fleet back when
power returns. It runs unattended and acts rarely; the runs that matter include
crashes, power cuts on its own host and an operator changing their mind. This
directory holds TLA+ modules for the parts that decide and act, TLC
configurations that check them on small plans, and TLAPS proofs of the most
important properties for every plan.

## The system

| Component | State | Operations | Talks to | Correct when |
|---|---|---|---|---|
| Sequence executor (`engine/sequence_run.go`, `active_sequence.go`) | the active sequence, its stage, operator requests, client states | run stages, shut a client down, abort, wake, complete, resume | store, transports, probe | commands are journalled first, order of stages kept, aborts and wakes final, every sequence ends |
| Background probe (`engine/executor.go`) | client states | probe each client, record what it saw | transports, store, races the sequence | states converge to what the hosts are |
| Policy loop and operating mode (`engine/executor.go`, `api/server.go`) | mode, active slot | evaluate triggers, start a sequence, set and restore the mode | evaluator, store, API requests | plans start only when they should, arming surprises nobody |
| Dwell timers (`conditions/dwell.go`, `state/dwell.go`) | one timer per condition with `for:`, and its row | apply a result, persist, restore, reset | policy loop, sequence | credit is earned, never invented |
| State database (`state/`) | sequences, stage records, intents, client states, locks, kv, dwell rows | ordinary and durable commits, active-row query, orphan failure | everything | what was promised durable is |
| Condition evaluator (`conditions/`) | compiled templates, timers | evaluate (three-valued), explain | fact store | unknown never satisfies, the explanation is the answer |
| Fact store, derived facts (`facts/`, `engine/derived.go`), poll loops (`modules/nut`, `snmp`, `gpio`) | value, quality and time of each fact; a channel of readings | poll, update, refresh quality, derive `threatened` | sources | stale facts are not used, outages are seen |
| Webhook notifier, WebSocket hub, daemon start and stop (`notify/`, `api/websocket.go`, `cmd/canarium/main.go`) | bounded queues, connections, deferred calls | enqueue, drop, deliver, broadcast, register, close | executor events, signals | never block or panic the executor, stop cleanly |
| API access (`api/server.go`, `ratelimit.go`, `password.go`, `state/sessions.go`, `tokens.go`) | password hash, sessions, tokens, failure entries | login, logout, setup, change, token commands | requests, each other | one setup, old sessions end, locks end |
| Addresses and MACs (`engine/resolve.go`, `macs.go`, `state/macs.go`) | learned MACs in memory and table, pins in the sequence row | learn, record, restore, pin, choose | probe loop, sequence, devices | one target per sequence, what was learned is used |
| Configuration (`config/`) | none | validate, self-preservation checks | start-up, simulator | bad plans are refused, good ones are not |
| Simulator (`simulate/`) | a simulated clock and plan | replay a timeline | evaluator | agrees with the executor |
| Doctor, device protocols, transports, web interface | — | device and user I/O | — | — |

What is hard: the sequence goroutine, one goroutine per client of a stage, the
background probe, the policy loop and API handlers interleave; any of them may be
cut short by a crash, after which a restart works from what was committed, or, after
a power cut, from what had been synced; deadlines race late answers; conditions
may never hold. `PROJECT.json` lists each hazard at its line.

## Modules

**SequenceRun** — one run of a plan. `pc` is where the sequence goroutine is,
`task[c]` where the goroutine for client `c` is, `seq` the `state.Sequence` it holds,
`req` the operator's requests (memory only), `client` the recorded client states.
`db` is the database as committed and `disk` what a power cut would leave: an
ordinary write changes `db`, a durable one (`Durably`) makes the two equal, and
`Checkpoint` may do so at any time. `host` is what the machines really do; `told`,
`woken`, `cuts` and `calledOff` record the commands that left the daemon and the
aborts it announced. There is one action per step between two points at which
another actor, a crash or a power cut can intervene; each names its function in
the comment above it, and `PROJECT.json` its lines.

**SequenceLifecycle** — the abstract specification: what readers of the sequences
table may rely on (phases in one direction, one final state, no completed abort, no
two unfinished sequences). `SequenceRun!ImplementsLifecycle` maps each row to it.

**SequenceClaims** — statements in comments and documents that the code breaks.

**SequenceProofs** and **LifecycleProofs** — the theorems about SequenceRun.
**MCSequence** — small plans.

**PolicyLoop** — from conditions to sequences, and the mode. Time is counted in
policy ticks; `timer` holds the dwell timers, `record` their rows, `handler` the
set-mode requests in flight, `stored` the mode in the key-value table, `guard` what the
other member of an `and` says. A pass of
`evaluatePolicies` is several steps (`BeginPass` reads the mode, `EvaluateTrigger`
one trigger, `ClaimSlot` takes the slot), as is a set-mode request (the mode, then
each timer, then the store). Counters stop at the largest value anything compares
them with, so that time is unbounded and liveness can be checked.
**PolicyProofs** — the theorems about PolicyLoop. **MCPolicy** — a small instance.

**ThreeValued** — `facts.Trilean` and its connectives.

**FactFlow** — from devices to facts. `poller[p]` is a poll loop (waiting, in a
query that may take `MaxLatency` ticks, or sending readings), `updates` the channel,
`fact[k]` value, quality and age of each fact, `loop` the refresh: `Assess` reads
a fact and gives a verdict, `Mark` sets the quality in a later step, then the
derived fact of each client is accumulated feed by feed. `Emit` goes through what a
source declares in its order and passes over what the device did not answer. Keys are
sequences of their dotted segments, so that `SourceFromKey` is what the code does.

**Conditions** — `Evaluate`, its timers, and `Explain` over condition trees, with
`Meaning` as the reference: a condition holds if all that it requires to have held
really has. A condition is named by its key, which hashes all of it (`conditionKey`):
`Cond` is the table of conditions by key and `Depth` how deep each nests. Recursion
over a tree and loops over its members are recursive functions, so that the prover
can be used on them. A template is a short-circuiting `and`/`or` of tests of a fact, its
quality or its age. **Validation** — the checks that refuse a configuration, with the
search for cycles as the code walks it (`FollowDeps`, marks and path included), for
every order of the clients; `Cyclic` is the reference. **Simulation** — `canarium
simulate`: load, validate, then one plan replayed tick by tick over a timeline that is
left open, so that every timeline is replayed; at each look at a stage the
executor's rules (`waitForStage`) are asked the same question (`look`); `held` is since
when each part with a `for` has been true, which the code does not keep.
**SimulationProofs** — the theorems about all three and the operators they are made of.
**MCSimulation** — families of configurations.

**Delivery** — the daemon's life and its events. `main` and `deferred` are `runDaemon`
and its pending deferred calls, `cancelled` its contexts; `emitter[e]` a goroutine
inside `emit`, first at the webhooks and then at the sockets; `queue`, `worker`,
`accepted` and `attempted` the notifier; `clients` and `socket[s]` the hub with the
handler and the two pumps of each connection.

**Access** — login, logout, setup, password change and the token commands over the
tables and the limiter. `request[r]` is a handler between two statements that read or write
what others share: a setup claims the row and is then forgiven, a password change is let in by
`requireScope` (hash, then credential) before its handler reads the hash itself; `version`
counts passwords, and a session remembers the one it was issued against.

**Addresses** — `learner` is the probe loop inside `learnMACs`, `seq` the sequence that
pins, `known` and `table` the learned MACs, `row` the pins a restart finds, `sent` the
targets commands went to. **FactProofs**, **DeliveryProofs**, **AccessProofs** and
**AddressProofs** — the theorems about the last four; **MCFacts**, **MCDelivery**,
**MCAccess**, **MCAddresses** — small instances.

Abstractions, all deliberate. In SequenceRun:
one plan is followed; conditions and deadlines may come out either way at each
look; a client whose shutdown transport is missing is in `Transportless`, one whose wake
transport is in `Wakeless`, as the two are looked up apart; a client's state in memory and its row
change together; one intent per sequence and client is kept (a later one
replaces it, as its status alone is read); the order of clients inside a wake stage
is open; a graceful stop is a crash (with the context cancelled no write is
committed any more); failing reads and writes of the store are left out (the code
logs them and goes on); heldStage, addresses, events and logs are left out.
In PolicyLoop: facts change between ticks only, so a flap between two samples does
not exist; a guard is false, true or unavailable, and only a false one keeps the timer behind it
from being sampled, while of the timed condition itself `false` and `unavailable` are one; a
row may be pruned whenever its timer is due to be written, which allows any age; a running sequence is just the
occupied slot; triggers of different plans differ, so timers are not shared;
`config_readonly` (no request accepted, none restored) is not a case.
In FactFlow everything but a poll is done before the next tick, and a source's
wire protocol is a choice among its readings. In Conditions a value is what the
comparisons ask of it. In Validation one plan is followed, warnings are left out, and
what is refused by a look at one value alone (port range, delays, `probe.timeout`, malformed
or missing fields) and alternative spellings of a value are not cases.
In Delivery the number of events is bounded by `MaxEvents` and a delivery succeeds,
fails or times out alike. In Access a sweep of the limiter, due at the next `Allow`, is
made as soon as it has something to drop; `MaxVersion` and `MaxSessions` bound
password changes and sessions. In Addresses failing writes of the sequence row, clients
without an address and the times kept for display are left out.

## Runs

| Run | Checks | Instance |
|---|---|---|
| recovery | `TypeOK`, `AbortRecorded`, `AbortIsFinal`, `WakeEndsShutdown`, `ImplementsLifecycle`, `EverySequenceEnds` | two stages (application, then the storage it depends on), point of no return on the second, abort condition and operator, post-shutdown, one wake retry, crash after any step; 179,014 states |
| powercut | `JournalBeforeCommand`, `PonrDurable`, `EarlierStagesSettled`, `ToldIsLocked` | two sequences in a row over an empty stage and one with a client that cannot be probed, a point of no return, abort condition, its own wake list, power cuts and checkpoints at any time; 1.8 million states |
| operator | `AbortEndsSequence`, `ProbeConverges` | three stages, of which the first and the last hold and the second is the point of no return, a client whose transport is missing, armed and dry-run, abort and proceed, the background probe; about 39,000 states |
| policy | `TypeOK`, `TriggerProven`, `ArmingRestarts`, `CreditKept`, `HeldTriggerFires` | two plans (`for:` of 3 ticks on the trigger, of 1 tick nested in an `and` behind a guard that may be unavailable), credit written every 2 ticks, rows pruned, requests to arm, crashes; 540,957 states |
| facts | `GoodIsRecent`, `StaleIsOldOrRaced`, `ThreatIsReported`, `OutageSeen` | a NUT and an SNMP source polled every tick, whose answers may take one, fail or come without a status, a refresh every tick, a channel of one, a client that needs both feeds; 649,311 states |
| simulate | `CycleVerdictExact`, `DependentsFirst`, `EachClientOnce`, `ExplainAgrees`, `LossNeverDecides`, `DwellHeld`, `AgreesWithExecutor` | all 512 dependency graphs over three clients, all placements of names and tags in two stages, wrong commands and misspelt fields, and two plans with dwell, negation and templates over every timeline of six ticks; 13,471 states |
| delivery | `ExitClean`, `PanicOnlyAfterClose`, `EmitReturns`, `StopTerminates`, `SocketsForgotten` | two emitters and two events, a webhook that takes some of them, a queue of one, two workers, one browser with a buffer of one, a signal or a failing start at any step; 48,881 states |
| access | `TypeOK`, `SetupOnce`, `OldSessionsGone`, `LockNotProlonged` | two requests, two passwords, one token, limits of two failures, two password changes, a session that expires; 2.26 million states up to symmetry |
| addresses | `OneTarget`, `KnownMacIsUsed`, `LearnedInTheEnd` | a named client whose device can be asked and one with a configured MAC, two answers each for name and MAC, failing lookups and writes, a crash after any step; 46,552 states |

Why these bounds are enough to be interesting: two stages are the least with an
order to break and with a point of no return that is not the first thing to
happen; two clients are the least for a dependency and for two goroutines of one
stage; two sequences are the least for a lock to stand in someone's way; a `for:` of 3
against an interval of 2 is the least at which unwritten credit can build up and be
lost; one request at a time suffices to arm, its write lost or not, to be disarmed by a
restart and to arm again (requests to disarm make a state space four times as large, which
TLC covers for the safety properties alone; the theorems hold for all requests); a queue and a buffer of one are full after one event, and two workers are the
least that can finish out of order; two requests are the least that race; two
answers are the least that can change; three clients are the least with a diamond
next to a cycle. Bounds are constants: `MaxSeq`, `Retries`, `Required`, `PersistEvery`, `Longest`, `Oldest`,
`MaxLatency`, `MaxEvents`, `QueueDepth`, `SendBuffer`, `MaxVersion`, `MaxSessions`, `Duration`; `cuts`
stops counting at 2. `CHECK_DEADLOCK FALSE` stands where the bounded number of
sequences or events lets the system come to rest, idle, and where a simulation
or the daemon has ended.

Fairness. `FairSpec` of SequenceRun: goroutines are scheduled, the service manager
restarts a dead daemon, faults eventually stop, and what a stage or the gate waits
for eventually comes. `UnaidedSpec` drops the last: nothing is promised of
any condition, which is what makes `AbortEndsSequence` worth checking.
`ProbingSpec` adds the probe loop's rounds (strong fairness per client, since a
probe of one client disables another only while it is out) and that a host
told to stop ends up off. `FairSpec` of PolicyLoop: the loop and its ticker go on;
requests under way and the restart of a stopped daemon are under no obligation, as the
property asks only of a daemon that is up, and sequences need not end.
`FairSpec` of FactFlow: goroutines run and time passes; polls may fail for ever, and
`OutageSeen` asks only of feeds that go on reporting. `FairSpec` of Delivery: each
goroutine that can step does (deliveries and writes have timeouts, a closed
connection fails its read); peers, signals and events are under no obligation.
`Spec` of Addresses: the daemon is restarted, the ticker ticks and the probe loop
runs; sequences, clients and answers are free. Access and Simulation claim safety only.

### Where the code and its documents disagree

Each of these is a run that ends in a counterexample.

* **lock_leak** — "every terminal path" releases the locks; a crash between the save
  of the final state and the release leaves them for good, and later
  sequences skip those clients.
* **abort_no_wake** — an abort "hands over to the wake plan"; the same request closes
  the sequence at the wake gate.
* **canonical_gate** — a condition with a `for:` is true "only once the condition has held
  true continuously" (dwell.go:122), and "the dwell prevents waking into a flapping outage"
  (GUIDE:559). But `evaluateAnd` (evaluator.go:178) returns at the first false member and
  what comes after it is not sampled: in the gate the guide calls canonical, mains restored
  *and* charge above a limit for a while, the timer of the charge keeps its start through a
  lapse during an outage, and the gate opens on a charge that was too low a tick before
  (`DwellAlwaysHeld`). With the `for:` on the `and` itself it cannot happen: `DwellHeld`, in
  `simulate` and proved as `DwellMeansHeld`, is of the plans whose `for:`s stand at the top of
  their conditions and are used in one place (`PlanIsPlain`).

Seen while modelling, without a run of their own. Sequences and policy:

* Post-shutdown is "exactly once per sequence", but a crash after the outlet command
  and before the save repeats it. A plan without a point of no return is "fully
  abortable at any point" (SPEC 7), but an abort accepted during the last stage does
  not stop the outlets. Disarmed means "nothing executes", but a running sequence
  goes on: only dry-run is tested at the point of use, and the policy loop reads the
  mode once per pass.
* A power cut soon after an abort loses the aborting state, which is an ordinary
  commit, and the resumed sequence shuts the spared hosts down; so it may lose the
  post-shutdown flag and the wake-gate state. An accepted abort is in memory only until
  the sequence looks at it. An abort during the verification of the last client leaves
  the sequence recorded as completed. A proceed request made when no stage holds
  stays pending and forces the next one that waits.
* A probe that read a client's state before a sequence set it to shutting_down may
  write it back to up, and a client left in a transitional state by an ended sequence
  accepts only one of the two probe results. If the completed stages cannot be read a
  sequence resumes at stage 0.
* A `for:` under a `not`, and a condition with a `for:` used in two places of a plan, for
  which one timer serves both, have the same gap as the canonical gate; so has a trigger, not sampled while a
  sequence runs, and an abort or gate condition between its waits.
* A stage under `hold` waits "until the condition holds, an operator forces it through, or
  the sequence is aborted" (sequence_run.go:311), but after the point of no return
  `shouldAbort` is false whatever was asked. An abort the API accepted before that point, and
  which no stage had looked at yet, is ignored by a later stage that holds: it ends only by
  its condition or a proceed request. `AbortEndsSequence` excepts this case
  (`HeldBeyondReturn`), which the run `operator` reaches.
* A policy pass between SetMode's two halves starts a plan on credit earned while
  disarmed, and timers nested in a trigger are never reset. Two set-mode requests, or
  one whose client has gone, may leave a mode in the store that is not the one in
  force. The clock of a timer that is not sampled, behind a false guard or while a sequence
  runs, goes on, nothing of it is written, and after a day its row may be pruned
  (executor.go:666, "a live one is touched on every policy tick"): a crash then costs all
  that time, not one persist interval. `CreditKept` is of evaluations that sample the timer. A failed write of a timer's reset gives the old credit back after a restart.
* SPEC 7.5 looks for an abort between batches of a stage; a stage is one batch.

Facts, conditions and configuration:

* "Stale or unknown facts never satisfy a condition", but nothing refuses an instance
  name with a dot: `sourceFromKey` (store.go:194) cuts a key at the first one, the
  interval was registered under the whole name, and the facts of such an instance are
  passed over by every refresh. They read good however long it has been silent;
  `facts` with a UPS named `ups.east` violates `GoodIsRecent`.
* `comms_loss_assumes: threatened` applies before the first poll too. All GPIO pins
  share the shortest interval. SNMP sends its readings without looking at the
  context, so a stopped forwarder leaves it waiting. An instance called `client` would
  share its prefix with the derived facts; nothing refuses it, though `upsSources` leaves it out
  of the feeds a client has by default.
* The simulator looks at the abort condition before the stage's own. So does the executor
  when it enters a stage, but while it waits it asks the stage's condition first; when both come to hold in
  the wait the two differ (`AgreesWithExecutor` excepts it, `Clash`). The simulator
  never computes derived facts.
* A condition group without a type is accepted and is true; an unknown type is only a
  warning. `wake.retries: 0` becomes 3. `hasCycle` leaves its path behind after a find,
  which only affects the wording.

Delivery, access and addresses:

* `executor.Stop` cancels and waits for nobody, so a goroutine may emit into the queue
  after `Close`, and the send panics; `PanicOnlyAfterClose` says that this is the only
  way. Notifications may be delivered out of order, as there are four workers.
* A login that verified the old password before a change keeps its session; one that
  upgrades a legacy hash may write the old password back over the change. A failure
  recorded after the window has rolled over replaces an entry whose lock is in force.
* `learnMACs` asks the neighbour table for the configured address, so for a client
  with a name it never answers until a sequence has resolved it. The learner and a
  starting sequence may record different MACs: memory is written under the lock, the
  table after it, and the two may end up different.

## Proofs

`SequenceProofs` proves, for every plan, every set of clients and faults and
every number of sequences:

* `TypeCorrect`: `Spec => []TypeOK`;
* `JournalPrecedesCommand`: `Spec => []JournalBeforeCommand`;
* `PonrSurvives`: `Spec => []PonrDurable`;
* `StagesInOrder`: `Spec => []EarlierStagesSettled`.

They rest on `ConfigAssumption` and `EnvironmentAssumption` only, which TLC evaluates
in every run. Two inductive invariants carry them. `TypeInv` adds to the types that
what is in flight belongs to the sequence that is active (`Located`: in the phases
that use them, `seq.id` is a real sequence and `stage` a real stage) and that a
row, if it is live, is one of its own id (`Sound`), without which a resumed
sequence would not be typed. `RecordInv` says that both views of the database,
`db` and `disk`, back every command ever sent (`BacksAll`), that a sequence not yet
begun has sent none (`Fresh`), that memory and row agree on the point of no return
(`PonrAgrees`), and that the loop stands behind settled stages, with an intent on
disk for any client about to be told (`LoopPosition`). The heart of the argument is that
a durable write makes `disk` equal `db`, so that everything the loop relied on is
on disk by the time a command goes out: `JournalIntent` comes last before
`ExecuteShutdown`. Most actions send nothing and forget nothing and are
handled by one lemma (`Quiet`); triggers, stage entry and completion, intents,
commands, power loss and resume are each taken by themselves.

`PolicyProofs` proves, for every set of plans, every `for:`, every persist interval
and any number of set-mode requests at once:

* `PolicyTypeCorrect`: `Spec => []TypeOK`;
* `TriggerIsProven`: `Spec => TriggerProven`;
* `ArmingDoesRestart`: `Spec => ArmingRestarts`;
* `CreditIsKept`: `Spec => CreditKept`.

They rest on `PolicyAssumption`. None of the three action properties follows from
the types: the inductive invariant `Inv` adds, for each plan, that neither the timer
nor its row holds credit that was not observed (`Earned`: credit also implies an
unbroken watch, a running clock one that is on, and a row with credit a timer with
some, so that a lapse clears both or had nothing to clear), that a row lags its timer by at most
the ticks since it was written (`Written`), and that a timer has more credit than the
mode has been armed for only while some request has still to reset it
(`Restarted`); and, for the loop (`InPass`), that a settled pass overlaps no reset and
that a plan about to be claimed has been proven. `DwellStep` says once what an
evaluation does to all of these; only `EvaluateTrigger`, `ResetDwell`, `Tick`,
`Crash` and `Restart` touch a timer and `PruneDwellTracker` a row alone, and each is taken by
itself.

`LifecycleProofs` proves, for every plan and any number of sequences,

* `AbortSurvivesCrashes`: `Spec => []AbortRecorded`;
* `AbortStopsCommands`: `Spec => AbortIsFinal`;
* `WakingEndsCommands`: `Spec => WakeEndsShutdown`;
* `ToldHostsAreLocked`: `Spec => []ToldIsLocked`;
* `RefinesLifecycle`: `Spec => ImplementsLifecycle`, the refinement of SequenceLifecycle.

All but `ToldHostsAreLocked` assume `"power" \notin Faults`: crashes of the process at any step, but a database
that keeps what it committed. The assumption is the code's: the saves of the aborting,
gate and final states are ordinary commits, and a power cut soon after one takes it back
(see above), as the run `recovery` also leaves it. What must survive a
power cut is proved in `SequenceProofs`, without it. The invariant `PhaseInv` ties three
things together: where the goroutine stands, the phase and flag of the sequence in
memory, and those in its row (`PlaceInv`; they differ only between a decision and its
save); that at most one row is unfinished and it is the running sequence's
(`TableInv`); and what an announced abort or a wake command has left in the row
(`HistoryInv`). None of the properties is inductive without the place, since it is the
resumption that must not go back. `Turn` lists the eleven turns that a step can take in
the life of a sequence, in terms of the phases alone; `EveryStepTurns` proves, action
by action, that every step is one of them, and the invariant, the action properties and
each step of the refinement are then proved of turns.

`ToldIsLocked` needs the moments between. `LockInv` says that in both views of the database a
told host is locked for its sequence while the row is live (`LocksBack`), that the running
sequence still holds these locks in the store, that a task past `LockClient` has its lock in
the store and one past `JournalIntent` has it on the disk too, and that locks are let go only
under a final row (`LocksStand`). The lock is an ordinary commit; it is the synced intent
after it that carries it to the disk before the command.

`FactProofs` proves, for any sources, clients, intervals, latencies, answers and refresh
period,

* `GoodFactsAreRecent`: `Spec => []GoodIsRecent`;
* `StaleFactsAreOldOrRaced`: `Spec => []StaleIsOldOrRaced`;
* `ThreatsAreReported`: `Spec => []ThreatIsReported`.

All three assume `Undotted`, instance names of one segment: without it the first is
false (above, "Facts, conditions and configuration"). The last assumes `NoClientSource` too, no instance
named `client`. The names of the small instance satisfy both. `FactInv` bounds the age
of each good fact, and of each fact wrongly marked stale, by where the loop is: by the
window once a pass has assessed it, by the window and the ticks since the ticker
fired between passes, and by the window and the whole period in between. `VerdictInv`
carries the race: a verdict not yet set is still true of its fact, or the fact has been
stored since. `ThreatInv` adds that only registered keys are on their way to the store
(`SourceInv`), that the answer accumulated so far rests on feeds seen to threaten
(`AnswerInv`), and that each client's fact does, within the ticks since it was computed
(`KnownInv`, `Slack`). That a good status is inside its window, and not a period past
it, when a feed is read is where the first of the two passes is needed.

`AccessProofs` proves, for any number of requests, sources and passwords,

* `AccessTypes`: `Spec => []TypeOK`;
* `OneSetupWins`: `Spec => []SetupOnce`;
* `ChangeEndsSessions`: `Spec => []OldSessionsGone`;
* `RefusalsDoNotProlong`: `Spec => LockNotProlonged`.

The invariant says that a request acts on a hash and a version it has read, never a later
one (`RequestInv`), that a claim, once made, left a hash which no operation takes away
(`SetupInv`), that there is neither session nor login under way before the first
password (`NobodyYet`), and whom an old session belongs to while its deletion is still
to come (`OldInv`).

`AddressProofs` proves, for any clients, configured or not, and any answers,

* `OneTargetPerSequence`: `Spec => []OneTarget`;
* `LearnedMacsAreUsed`: `Spec => []KnownMacIsUsed`.

What a sequence has sent agrees with its row (`SentInv`), the row is what the acting
sequence goes by and all a crash leaves of it (`RowInv`), and memory has every MAC the
table has once it has been read (`TableInMemory`). `KnownMacIsUsed` says which MAC a wake goes
to: the configured one, else the one pinned in the sequence's row, else the one in the table,
provided the table could be read at start. Memory and table may disagree in general (above),
so that the last needs `UnpinnedInv`: once the sequence has passed a client without pinning
a MAC, nothing was known of it, the pass of the probe loop under way comes to it at most once
more, and what the table then gets is what memory has got.

`DeliveryProofs` proves, for any emitters, webhooks, workers, browsers and queue depth,

* `NothingIsLeftBehind`: `Spec => []ExitClean`;
* `OnlyTheClosedQueuePanics`: `Spec => []PanicOnlyAfterClose`.

`DeferredInv` gives the pending deferred calls at each point of `runDaemon`; `QueueInv`
follows each accepted notification from the queue to a worker to having been tried;
`NotifierInv` says that, when the daemon leaves, the notifier was never used, or its
`Close` is still to come, or its workers have ended, which they do on an empty
queue only.

`SimulationProofs` proves, for every config file, every tree of conditions, every timeline
and every order in which the map of clients is walked,

* `ExplainTellsTheAnswer`: `Spec => []ExplainAgrees`;
* `LossDecidesNothing`: `Spec => []LossNeverDecides`;
* `ClientsSettledOnce`: `Spec => []EachClientOnce`;
* `DependentsGoFirst`: `Spec => []DependentsFirst`;
* `SimulatorIsExecutor`: `Spec => []AgreesWithExecutor`;
* `CyclesAreFound`: `Spec => []CycleVerdictExact`;
* `DwellMeansHeld`: `Spec => []DwellHeld`.

Recursion. The induction theorems of the library cannot be used here, so the module starts
from the least number principle (`Least`, from the well-foundedness of `<`) and states
induction for a set of naturals (`Induction`). `Recursion` then says, once, that a step
function on the functions over a set has a fixed point when what it gives for an
element depends only on elements of smaller rank; the unfolding of `Judge`, `Evaluator`,
`Parts`, the checks of conditions, the loops over lists, and of `HasCycle`, ranked by the
clients not yet visited, are instances of it.

Evaluation. `EvaluateIsJudge` is the heart of the first two: with any trackers between
those of before and those the same instant leads to (`Ahead`), evaluating any condition
answers what `Judge` does with the timers of before, and leaves trackers of that kind.
Short-circuiting changes which trackers move, never the answer; evaluating a
condition twice at one instant advances its timer once (`AdvanceOnce`). That is also
why the order of abort, stage and gate inside a tick does not matter to what they
answer, which `SimulatorIsExecutor` needs. `JudgeLoss` goes by depth: the connectives keep
an answer or lose it when their members do, and so do leaves and templates that do not
ask for availability.

Order. `Approved` is what `validate` has established of a plan that runs (every
reference names a client, no client in two stages, dependents in earlier stages), and
`SimInv` (theorem `SimulationInvariant`) adds that every client settled so far is of a stage
before the current one (`Settled`). From the two follow `EachClientOnce` and `DependentsFirst`.

Cycles. The search marks clients across starts, so neither half of the verdict is local.
`Ready` says what a call may be given: each client on the path depends on another one
or on the node, no cycle lies within what is finished, and everything a finished client
depends on is finished (`Finished`, `Tidy`). `HasCycleFinds` proves by induction on the clients not yet visited that
a call ends with a cycle found that is one, or with the node and all it reaches
finished; `SearchExact` that after a walk in any order the marks cover the graph.

Dwell. `DwellAlwaysHeld` is false (`canonical_gate`, above). `PlanIsPlain` is the part of the
configurations `DwellHeld` speaks of: a `for` stands at the top of a condition the plan uses,
and no condition with a `for` is used in two places. The trigger, abort and gate of
`Dwelling` in the small instance are such, as are the guide's trigger and abort. Then evaluating a condition moves its own tracker only (`TopEvaluate`), and
`DwellInv` says where each clock may run: a condition asked at every tick from now on
has been true since its clock started or longer (`Backed`), and the clock of one whose
turn is still to come is not running (`Idle`), so that it cannot have started before
the gap. A condition is asked at every tick while its turn lasts and never after, and
this is the step the other plans fail.

The assumptions on constants are those the modules name, and TLC evaluates them in
the runs: `AccessAssumption` (positive limits and durations, the empty password is
no password), `AddressAssumption`, `DeliveryAssumption` (room in the queues, at least one
worker, as `New` starts four), `FactAssumption` and `NameAssumption` (positive intervals,
finitely many sources, names and keys made of segments, distinct client names, which
`validateClients` demands), `ConditionAssumption` (conditions read from a file nest
finitely, and equal ones have one key), `ConfigAssumption` (a plan has at most one abort
condition) and `SimulationAssumption`.

Only model-checked. Liveness, under the fairness above, which the prover does not
reach: `EverySequenceEnds`, `AbortEndsSequence`, `ProbeConverges`, `HeldTriggerFires`,
`OutageSeen`, `EmitReturns`, `StopTerminates`, `SocketsForgotten`, `LearnedInTheEnd`.
The claims the code breaks are
counterexamples and need no proof.

## Not modelled, and the plan

Modelled: the executor, the probe, the policy loop and mode, dwell timers, the fact
store with its poll loops and derived facts, the condition evaluator, validation, the
simulator, the notifier, the event hub, start and stop, API access, addresses.

Every safety property of every module has its theorem.
Left to prove: what `DwellHeld` says for a wider class of plans (the last member of an `or` that
ends what it decides); which of the statements about aborts and wakes survive a power
cut (before the save has been synced they do not, after it they should), and that the
learner and the sequence of Addresses keep memory and table in step when no write fails.

Not modelled: the wire protocols of NUT, SNMP and GPIO and the transports (ssh, wake on
LAN, appliances), whose answers are the environment's; parsing of YAML, include files,
secrets and timelines; journal export, retention and the migration of old database
files, single transactions over history that no decision reads back; the doctor,
read-only API pages, cookies and proxy headers; the web interface. These are input and
output whose correctness is not a matter of interleaving. The template language is a
library; Conditions has what a template may ask.
