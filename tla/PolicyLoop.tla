----------------------------- MODULE PolicyLoop -----------------------------
(***************************************************************************)
(* From conditions to sequences: the policy loop (internal/engine), the    *)
(* dwell timers behind `for:` (internal/conditions) with their rows in the *)
(* store, and the operating mode with the API requests that change it.     *)
(*                                                                         *)
(* Time is counted in policy ticks.  Facts change from one tick to the     *)
(* next, so a flap between two samples is not what is looked at here;      *)
(* everything else interleaves within a tick.  What stands under a `for:`  *)
(* is TRUE or not: `false` and `unavailable` reset a timer alike.  A guard *)
(* beside it has all three values.  The sequence a trigger starts is only  *)
(* the slot it occupies (SequenceRun models it); the would_trigger notice  *)
(* of a disarmed pass is reporting only and left out.  Plans have distinct *)
(* triggers, hence timers of their own.                                    *)
(***************************************************************************)
EXTENDS Naturals, FiniteSets

CONSTANTS
    NumPlans,       \* cfg.Plans, in order
    Required,       \* the `for:` of each plan's trigger, in ticks
    Guarded,        \* plans whose `for:` is nested: and[guard, {value, for}]
    PersistEvery,   \* dwellPersistInterval, in ticks
    Handlers,       \* API requests in flight at once
    Requested,      \* the modes they ask for
    Configured,     \* canarium.mode in the configuration file
    Crashes,        \* the daemon may crash
    Longest         \* bound: ticks are counted up to the longest `for:`

Modes == {"disarmed", "dry_run", "armed"}
Trilean == {"true", "false", "unavailable"}
Plans == 1..NumPlans

ASSUME PolicyAssumption ==
    /\ NumPlans \in Nat \ {0}
    /\ Required \in [Plans -> Nat]
    /\ Guarded \subseteq Plans
    /\ PersistEvery \in Nat \ {0}
    /\ Configured \in Modes /\ Requested \subseteq Modes
    /\ Crashes \in BOOLEAN
    /\ Longest \in Nat /\ \A p \in Plans : Required[p] <= Longest

VARIABLES
    \* The world.
    value,      \* does the condition under `for:` hold
    guard,      \* the value of the condition beside it
    \* The daemon.
    pc,         \* the policy loop: "off", "idle", "scan", "claim", "rested"
    at,         \* the plan evaluatePolicies looks at
    loopMode,   \* the mode it read when the pass began, "none" between passes
    timer,      \* dwellState
    mode,
    handler,    \* the set-mode requests
    active,     \* activeSequence: the plan running, 0 when none
    \* The store.
    record,     \* dwell_trackers
    stored,     \* the mode in the key-value table, "" when never set
    \* Observations.
    watch,      \* an unbroken run of true evaluations: "none", "on", or
                \* "paused" by a restart
    proven,     \* ticks the daemon was up in that run
    armedFor,   \* ticks since the mode last left disarmed
    settled     \* no arming has been under way since the pass began

loop == <<pc, at, loopMode>>
facts == <<value, guard>>
seen == <<watch, proven, armedFor, settled>>
vars == <<facts, loop, timer, mode, handler, active, record, stored, seen>>

------------------------------------------------------------------------------
(* Dwell timers *)

CapTo(n, top) == IF n < top THEN n ELSE top

\* DwellTracker.  since counts from StartedAt, unsaved from lastPersisted; the
\* one that is zero in the code is `running = FALSE`, or unsaved at its limit.
Timer == [running : BOOLEAN, since : 0..Longest, credited : 0..Longest,
          satisfied : BOOLEAN, unsaved : 0..PersistEvery]
Record == [elapsed : 0..Longest, satisfied : BOOLEAN]

\* A tracker just created, or not yet.  Its first write is due at once.
NewTimer == [running |-> FALSE, since |-> 0, credited |-> 0, satisfied |-> FALSE,
             unsaved |-> PersistEvery]
NoRecord == [elapsed |-> 0, satisfied |-> FALSE]

Elapsed(t, p) ==
    CapTo(t.credited + (IF t.running THEN t.since ELSE 0), Required[p])

\* Variant: a lapse stops the clock but keeps what was earned.
LapsedKeepingCredit(t) ==
    [t EXCEPT !.running = FALSE, !.satisfied = FALSE]

\* applyDwell on a result that is not true.
Lapsed(t) ==
    [t EXCEPT !.running = FALSE, !.since = 0, !.credited = 0, !.satisfied = FALSE]

\* applyDwell on a true result.
Started(t) == [t EXCEPT !.running = TRUE, !.since = IF t.running THEN @ ELSE 0]
Continued(t, p) ==
    [Started(t) EXCEPT !.satisfied = Elapsed(Started(t), p) >= Required[p]]

Applied(t, p) == IF value[p] THEN Continued(t, p) ELSE Lapsed(t)

\* Variant: progress is written only when the timer fills or empties.
WriteDueOnChange(t, u) == u.satisfied # t.satisfied

\* Whether applyDwell writes the timer it made of t through to the store: on a
\* change of satisfied, on a reset that changed anything, and periodically.
WriteDue(t, u) ==
    \/ u.satisfied # t.satisfied
    \/ IF u.running THEN t.unsaved = PersistEvery
       ELSE t.running \/ t.credited # 0

Saved(u) == [u EXCEPT !.unsaved = 0]

\* Evaluate, of a condition with a `for:`.  for: 0 is no dwell at all.
ApplyDwell(p) ==
    LET u == Applied(timer[p], p) IN
    IF Required[p] = 0 THEN UNCHANGED <<timer, record>>
    ELSE IF WriteDue(timer[p], u)
    THEN /\ timer' = [timer EXCEPT ![p] = Saved(u)]
         /\ record' = [record EXCEPT ![p] = [elapsed |-> Elapsed(u, p),
                                             satisfied |-> u.satisfied]]
    ELSE timer' = [timer EXCEPT ![p] = u] /\ UNCHANGED record

\* What the evaluation returned, after the step that made it.
Fires(p) ==
    /\ p \in Guarded => guard[p] = "true"
    /\ value[p]
    /\ Required[p] > 0 => timer'[p].satisfied

------------------------------------------------------------------------------
(* evaluatePolicies *)

\* Between two passes its variables are gone.
Rest(next) == pc' = next /\ at' = 1 /\ loopMode' = "none" /\ settled' = TRUE

NextPlan ==
    IF at < NumPlans THEN pc' = "scan" /\ at' = at + 1 /\ UNCHANGED <<loopMode, settled>>
    ELSE Rest("rested")

BeginPass ==
    /\ pc = "idle"
    /\ loopMode' = mode
    /\ at' = 1
    /\ settled' = \A h \in Handlers : handler[h].step # "reset"
    /\ pc' = "scan"
    /\ UNCHANGED <<facts, timer, mode, handler, active, record, stored, watch, proven, armedFor>>

\* A sequence is running: no trigger is evaluated.
Busy ==
    /\ pc = "scan" /\ active # 0
    /\ Rest("rested")
    /\ UNCHANGED <<facts, timer, mode, handler, active, record, stored, watch, proven, armedFor>>

\* What the evaluation adds to the record of what has been observed.
Watch(p) ==
    /\ watch' = [watch EXCEPT ![p] = IF value[p] THEN "on" ELSE "none"]
    /\ proven' = [proven EXCEPT ![p] = IF value[p] /\ watch[p] # "none" THEN @ ELSE 0]

\* evaluateAnd stops at a guard that is false, and at no other: the condition
\* with the timer is then not evaluated.
Sampled(p) == p \in Guarded => guard[p] # "false"

\* One trigger.
EvaluateTrigger ==
    /\ pc = "scan" /\ active = 0
    /\ IF Sampled(at) THEN ApplyDwell(at) /\ Watch(at)
       ELSE UNCHANGED <<timer, record, watch, proven>>
    /\ IF Fires(at) /\ loopMode # "disarmed"
       THEN pc' = "claim" /\ UNCHANGED <<at, loopMode, settled>>
       ELSE NextPlan
    /\ UNCHANGED <<facts, mode, handler, active, stored, armedFor>>

\* setActiveSequence: only the policy loop claims the slot, so it is free.
ClaimSlot ==
    /\ pc = "claim"
    /\ active' = at
    /\ NextPlan
    /\ UNCHANGED <<facts, timer, mode, handler, record, stored, watch, proven, armedFor>>

\* The sequence ends: clearActiveSequence.
EndSequence ==
    /\ pc # "off" /\ active # 0
    /\ active' = 0
    /\ UNCHANGED <<facts, loop, timer, mode, handler, record, stored, seen>>

------------------------------------------------------------------------------
(* handleSetMode *)

Idle == [step |-> "idle"]

Handling == [step : {"reset", "save"}, want : Modes, plan : Plans]

\* Variant: arming leaves the timers alone.
NextStepNoReset(previous, m) == "save"

\* Variant: every change of mode restarts the timers.
NextStepAlwaysReset(previous, m) == IF m # "disarmed" THEN "reset" ELSE "save"

\* Leaving disarmed restarts the triggers' timers, one after the other.
NextStep(previous, m) ==
    IF previous = "disarmed" /\ m # "disarmed" THEN "reset" ELSE "save"

\* SetMode: the mode changes at once, the timers are reset after it.
SetMode(h, m) ==
    /\ pc # "off" /\ handler[h] = Idle
    /\ mode' = m
    /\ handler' = [handler EXCEPT ![h] =
                     [step |-> NextStep(mode, m), want |-> m, plan |-> 1]]
    /\ IF mode = "disarmed" /\ m # "disarmed"
       THEN armedFor' = 0 /\ settled' = (loopMode = "none")
       ELSE UNCHANGED <<armedFor, settled>>
    /\ UNCHANGED <<facts, loop, timer, active, record, stored, watch, proven>>

\* ResetDwell of one plan's trigger.  It goes by the key of the whole trigger:
\* a timer nested inside it is another one.
ResetDwell(h) ==
    /\ handler[h].step = "reset"
    /\ LET p == handler[h].plan IN
       /\ IF p \in Guarded THEN UNCHANGED <<timer, record>>
          ELSE /\ timer' = [timer EXCEPT ![p] = NewTimer]
               /\ record' = [record EXCEPT ![p] = NoRecord]
       /\ handler' = [handler EXCEPT ![h] = IF p < NumPlans THEN [@ EXCEPT !.plan = p + 1]
                                             ELSE [@ EXCEPT !.step = "save"]]
    /\ UNCHANGED <<facts, loop, mode, active, stored, seen>>

\* SetKV, with the request's context: a client that has gone away cancels it.
SaveMode(h) ==
    /\ handler[h].step = "save"
    /\ stored' \in {stored, handler[h].want}
    /\ handler' = [handler EXCEPT ![h] = Idle]
    /\ UNCHANGED <<facts, loop, timer, mode, active, record, seen>>

------------------------------------------------------------------------------
(* retentionLoop *)

\* PruneDwellTrackers removes a row last written longer than dwellRetention
\* ago, which is far longer than the persist interval.  A timer that is due to
\* be written, or that was restored and not written since, may have a row of
\* any age.  pruneJournal's look at the active sequence comes before other
\* work and may be out of date by now.
PruneDwellTracker(p) ==
    /\ pc # "off"
    /\ timer[p].unsaved = PersistEvery
    /\ record' = [record EXCEPT ![p] = NoRecord]
    /\ UNCHANGED <<facts, loop, timer, mode, handler, active, stored, seen>>

------------------------------------------------------------------------------
(* Time, crashes and restarts *)

\* One tick of the world.
Passes ==
    /\ value' \in [Plans -> BOOLEAN]
    /\ guard' \in [Plans -> Trilean] /\ \A p \in Plans \ Guarded : guard'[p] = "true"

Aged(t, p) ==
    [t EXCEPT !.since = IF t.running THEN CapTo(@ + 1, Required[p]) ELSE @,
              !.unsaved = CapTo(@ + 1, PersistEvery)]

\* policyLoop's ticker.
Tick ==
    /\ pc = "rested" /\ pc' = "idle"
    /\ Passes
    /\ timer' = [p \in Plans |-> Aged(timer[p], p)]
    /\ proven' = [p \in Plans |-> IF watch[p] = "on" THEN CapTo(proven[p] + 1, Required[p])
                                  ELSE proven[p]]
    /\ armedFor' = CapTo(armedFor + 1, Longest)
    /\ UNCHANGED <<at, loopMode, mode, handler, active, record, stored, watch, settled>>

TickWhileDown ==
    /\ pc = "off"
    /\ Passes
    /\ UNCHANGED <<loop, timer, mode, handler, active, record, stored, seen>>

Crash ==
    /\ Crashes /\ pc # "off"
    /\ Rest("off")
    /\ mode' = Configured
    /\ armedFor' = Longest
    /\ handler' = [h \in Handlers |-> Idle]
    /\ timer' = [p \in Plans |-> NewTimer]
    /\ watch' = [p \in Plans |-> IF watch[p] = "on" THEN "paused" ELSE watch[p]]
    /\ UNCHANGED <<facts, active, record, stored, proven>>

\* SetDwellStore: the credit comes back, the clock does not run until the
\* condition is seen true again.
Restored(r) == [NewTimer EXCEPT !.credited = r.elapsed, !.satisfied = r.satisfied]

\* Variant: a mode nobody stored is taken as it is.
RestoredModeAsStored == stored

\* restoreMode
RestoredMode == IF stored = "" THEN Configured ELSE stored

\* A sequence that was running is resumed, if it had been saved.  A restart is
\* no arming.
Restart ==
    /\ pc = "off" /\ pc' = "idle"
    /\ timer' = [p \in Plans |-> Restored(record[p])]
    /\ mode' = RestoredMode
    /\ active' \in {0, active}
    /\ UNCHANGED <<facts, at, loopMode, handler, record, stored, seen>>

------------------------------------------------------------------------------
Init ==
    /\ value \in [Plans -> BOOLEAN]
    /\ guard \in [Plans -> Trilean] /\ \A p \in Plans \ Guarded : guard[p] = "true"
    /\ pc = "idle" /\ at = 1 /\ loopMode = "none"
    /\ timer = [p \in Plans |-> NewTimer]
    /\ mode = Configured
    /\ handler = [h \in Handlers |-> Idle]
    /\ active = 0
    /\ record = [p \in Plans |-> NoRecord]
    /\ stored = ""
    /\ watch = [p \in Plans |-> "none"]
    /\ proven = [p \in Plans |-> 0]
    /\ armedFor = Longest
    /\ settled = TRUE

PolicyStep == BeginPass \/ Busy \/ EvaluateTrigger \/ ClaimSlot

Request(h) ==
    \/ \E m \in Requested : SetMode(h, m)
    \/ ResetDwell(h) \/ SaveMode(h)

Next ==
    \/ PolicyStep
    \/ EndSequence
    \/ \E h \in Handlers : Request(h)
    \/ \E p \in Plans : PruneDwellTracker(p)
    \/ Tick \/ TickWhileDown
    \/ Crash \/ Restart

Spec == Init /\ [][Next]_vars

\* The loop's goroutine runs and its ticker ticks.  Requests are under no
\* obligation to finish, and nothing restarts a stopped daemon.
FairSpec == Spec /\ WF_vars(PolicyStep) /\ WF_vars(Tick)

------------------------------------------------------------------------------
TypeOK ==
    /\ value \in [Plans -> BOOLEAN] /\ guard \in [Plans -> Trilean]
    /\ pc \in {"off", "idle", "scan", "claim", "rested"}
    /\ at \in Plans
    /\ mode \in Modes /\ loopMode \in Modes \cup {"none"} /\ stored \in Modes \cup {""}
    /\ timer \in [Plans -> Timer] /\ record \in [Plans -> Record]
    /\ handler \in [Handlers -> {Idle} \cup Handling]
    /\ active \in 0..NumPlans
    /\ watch \in [Plans -> {"none", "on", "paused"}]
    /\ proven \in [Plans -> 0..Longest] /\ armedFor \in 0..Longest
    /\ settled \in BOOLEAN

\* A plan is started only when its trigger has been seen true, at every
\* evaluation, over as many ticks of the daemon running as its `for:` asks:
\* credit restored after a crash is never more than was earned before it, a
\* lapse always costs all of it, and time spent down counts for nothing
\* (applyDwell, persistLocked, SetDwellStore).
TriggerProven ==
    [][active = 0 /\ active' # 0 => proven[active'] >= Required[active']]_vars

\* After an arming has restarted the timers, a pass starts a plan only when
\* the mode has been armed for the whole of its `for:` (SetMode, ResetDwell).
\* A `for:` nested inside a trigger keeps its credit.
ArmingRestarts ==
    [][active = 0 /\ active' # 0 /\ settled /\ active' \notin Guarded
       => armedFor >= Required[active']]_vars

\* An evaluation that samples a timer leaves less than one persist interval of
\* its credit unwritten (persistThrottledLocked), also when the row had been
\* pruned before it.  A crash right after it costs no more than that; while a
\* guard that is false or a running sequence keeps a timer from being sampled
\* its clock runs on, and a crash then costs all that time.
CreditKept ==
    [][EvaluateTrigger /\ Sampled(at) /\ timer'[at].running
       => Elapsed(timer'[at], at) < record'[at].elapsed + PersistEvery]_vars

Holds(p) == pc # "off" /\ mode # "disarmed" /\ value[p] /\ guard[p] = "true"

\* A plan whose trigger holds for good while the daemon is up and not disarmed
\* does not wait for ever: some sequence runs again and again, however often
\* the mode is set to what it is (SetMode resets the timers only on leaving
\* disarmed).
HeldTriggerFires ==
    \A p \in Plans : <>[]Holds(p) => []<>(active # 0)
==============================================================================
