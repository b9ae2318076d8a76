----------------------------- MODULE SequenceRun -----------------------------
(***************************************************************************)
(* One run of a plan by the executor (internal/engine): the sequence       *)
(* goroutine, one task per client of the stage being shut down or of the   *)
(* client being woken, the background probe, the operator, the SQLite      *)
(* store and the machines themselves.                                      *)
(*                                                                         *)
(* Conditions (trigger, when, abort, gate) are the environment's: each     *)
(* evaluation may come out either way.  Timers are too: a deadline that    *)
(* has been armed may have passed or not.                                  *)
(***************************************************************************)
EXTENDS Naturals, Sequences, FiniteSets

CONSTANTS
    Clients,          \* cfg.Clients
    Stages,           \* plan.Shutdown.Stages: the clients of each stage
    WakeStages,       \* plan.Wake.Stages, << >> when the plan names none
    PonrStages,       \* stages with point_of_no_return
    HoldStages,       \* stages whose wait_policy is hold
    HasAbort,         \* the plan has an abort condition
    HasPostShutdown,  \* the plan has a post_shutdown block
    DependsOn,        \* depends_on of each client
    RetainState,      \* clients whose wake_policy is retain_state
    Transportless,    \* clients whose transport is not registered
    Wakeless,         \* clients whose wake transport is not
    Blind,            \* clients whose transport cannot probe
    Unverifiable,     \* ... and that have no address for a TCP check either
    Retries,          \* plan.Wake.Retries
    Modes,            \* operating modes the operator uses
    Operator,         \* requests the operator makes: "abort", "proceed"
    Faults,           \* "crash": the process dies; "power": its machine does
    BackgroundProbe,  \* probeLoop runs
    MaxSeq            \* bound on the number of sequences triggered

AllModes == {"disarmed", "dry_run", "armed"}

ASSUME ConfigAssumption ==
    /\ Stages \in Seq(SUBSET Clients)
    /\ WakeStages \in Seq(SUBSET Clients)
    /\ PonrStages \subseteq 1..Len(Stages)
    /\ HoldStages \subseteq 1..Len(Stages)
    /\ HasAbort \in BOOLEAN /\ HasPostShutdown \in BOOLEAN
    /\ DependsOn \in [Clients -> SUBSET Clients]
    /\ RetainState \subseteq Clients
    /\ Transportless \subseteq Clients /\ Wakeless \subseteq Clients
    /\ Blind \subseteq Clients
    /\ Unverifiable \subseteq Blind
    /\ Retries \in Nat /\ MaxSeq \in Nat \ {0}

ASSUME EnvironmentAssumption ==
    /\ Modes \subseteq AllModes /\ Modes # {}
    /\ Operator \subseteq {"abort", "proceed"}
    /\ Faults \subseteq {"crash", "power"}
    /\ BackgroundProbe \in BOOLEAN

NumStages == Len(Stages)
StageIds == 1..NumStages
SeqIds == 1..MaxSeq

VARIABLES
    \* The daemon's memory.
    pc,         \* where the sequence goroutine is
    seq,        \* the state.Sequence inside activeSequence; id 0: none
    req,        \* operator requests recorded in the ActiveSequence
    stage,      \* runShutdownStages's i, counted from 1
    task,       \* where the work on each client is
    visited,    \* clients the wake loop has dealt with
    attempt,    \* wakeClient's attempt
    client,     \* clientStates
    mode,       \* the operating mode
    probe,      \* the background probe in flight
    nextId,     \* the next sequence id (a timestamp in the code)
    \* The state database: as committed, and as a power cut would leave it.
    db, disk,
    \* The machines, and what the daemon has done to them.
    host,
    told,       \* <<stage, client>> pairs sent a real shutdown, per sequence
    woken,      \* clients sent a real wake command, per sequence
    cuts,       \* post-shutdown commands sent, per sequence (capped at 2)
    calledOff   \* sequences whose abort has been announced

memory  == <<pc, seq, req, stage, task, visited, attempt, client, mode, probe, nextId>>
store   == <<db, disk>>
world   == <<host, told, woken, cuts, calledOff>>
control == <<stage, task, visited, attempt, mode, probe, nextId>>
vars    == <<memory, store, world>>

------------------------------------------------------------------------------
(* Types *)

ClientStates == {"unknown", "up", "shutting_down", "down", "down_unverified",
                 "waking", "failed"}
LiveStates == {"shutting_down", "aborting", "wake_gate", "waking"}
FinalStates == {"completed", "aborted", "failed"}
IntentStates == {"none", "dispatching", "dispatched", "reconciled"}

Sequence == [id : 0..MaxSeq, state : LiveStates \cup FinalStates \cup {"none"},
             stage : 1..(NumStages + 1), ponr : BOOLEAN, postRun : BOOLEAN,
             aborted : BOOLEAN, pre : SUBSET Clients]

NoSequence == [id |-> 0, state |-> "none", stage |-> 1, ponr |-> FALSE,
               postRun |-> FALSE, aborted |-> FALSE, pre |-> {}]
NoRequest == [abort |-> FALSE, proceed |-> FALSE]
NoProbe == [step |-> "idle"]

Database == [row    : [SeqIds -> Sequence],
             done   : [SeqIds -> SUBSET StageIds],
             intent : [SeqIds -> [Clients -> IntentStates]],
             lock   : [Clients -> 0..MaxSeq],
             client : [Clients -> ClientStates]]

EmptyDatabase == [row    |-> [s \in SeqIds |-> NoSequence],
                  done   |-> [s \in SeqIds |-> {}],
                  intent |-> [s \in SeqIds |-> [c \in Clients |-> "none"]],
                  lock   |-> [c \in Clients |-> 0],
                  client |-> [c \in Clients |-> "unknown"]]

Locations == {"off", "idle", "start", "resume", "reconcile", "enter", "wait",
              "cross", "dispatch", "join", "outlet", "postsave", "settled",
              "abort", "settle", "gate", "wake", "close", "release"}

ShutdownTasks == {"lock", "intent", "mark", "execute", "record", "await",
                  "dry_record", "dry_down", "done"}
WakeTasks == {"guard", "wake", "wake_dry", "wake_execute", "verify"}
Tasks == ShutdownTasks \cup WakeTasks \cup {"probed", "idle"}

TypeOK ==
    /\ pc \in Locations
    /\ seq \in Sequence
    /\ req \in [abort : BOOLEAN, proceed : BOOLEAN]
    /\ stage \in 1..(NumStages + 1)
    /\ task \in [Clients -> Tasks]
    /\ visited \in SUBSET Clients
    /\ attempt \in 0..Retries
    /\ client \in [Clients -> ClientStates]
    /\ mode \in AllModes
    /\ probe \in {NoProbe} \cup
         [step : {"seen", "write"}, who : Clients, saw : {"up", "down"}]
    /\ nextId \in 1..(MaxSeq + 1)
    /\ db \in Database /\ disk \in Database
    /\ host \in [Clients -> {"on", "stopping", "off"}]
    /\ told \in [SeqIds -> SUBSET (StageIds \X Clients)]
    /\ woken \in [SeqIds -> SUBSET Clients]
    /\ cuts \in [SeqIds -> 0..2]
    /\ calledOff \in SUBSET SeqIds

------------------------------------------------------------------------------
(* The store.  An ordinary write commits to db; a power cut may lose any    *)
(* number of the latest commits.  A durable write syncs the log, and with   *)
(* it every commit before it.                                               *)

SaveSequence(d, q) == [d EXCEPT !.row[q.id] = q]
SaveClientState(d, c, s) == [d EXCEPT !.client[c] = s]
SaveIntent(d, s, c, status) == [d EXCEPT !.intent[s][c] = status]

\* SaveStageRecord is an upsert: writing a record with no completion time
\* takes an earlier completion away.
SaveStageStarted(d, s, i) == [d EXCEPT !.done[s] = @ \ {i}]
SaveStageCompleted(d, s, i) == [d EXCEPT !.done[s] = @ \cup {i}]

\* AcquireClientLock: re-entrant for the holder, refused to anyone else.
CanLock(d, c, s) == d.lock[c] \in {0, s}
AcquireClientLock(d, c, s) == [d EXCEPT !.lock[c] = s]

ReleaseSequenceLocks(d, s) ==
    [d EXCEPT !.lock = [c \in Clients |-> IF @[c] = s THEN 0 ELSE @[c]]]

\* GetActiveSequence: the rows that are not in a final state.
ActiveRows(d) == {s \in SeqIds : d.row[s].state \in LiveStates}
Newest(S) == CHOOSE s \in S : \A t \in S : t <= s

FailOrphanedSequence(d, s) ==
    [ReleaseSequenceLocks(d, s) EXCEPT
        !.row[s].state = "failed",
        !.intent[s] = [c \in Clients |->
                         IF @[c] = "dispatching" THEN "reconciled" ELSE @[c]]]

PendingIntents(d, s) == {c \in Clients : d.intent[s][c] = "dispatching"}

\* disk is followed only in runs that lose power; elsewhere it is db.
Commit(d) == db' = d /\ disk' = IF "power" \in Faults THEN disk ELSE d
Durably(d) == db' = d /\ disk' = d

\* SQLite writes its log back at moments the daemon does not choose.
Checkpoint ==
    /\ "power" \in Faults
    /\ disk' = db
    /\ UNCHANGED <<memory, db, world>>

------------------------------------------------------------------------------
(* What a probe may report.  A host on its way down may still answer, or    *)
(* refuse connections already; an inconclusive probe reports nothing and    *)
(* is not a step.                                                           *)
Reports(c) ==
    CASE host[c] = "on" -> {"up"}
      [] host[c] = "stopping" -> {"up", "down"}
      [] host[c] = "off" -> {"down"}

\* setClientState: the in-memory state, then its row.
SetClientState(c, s) ==
    /\ client' = [client EXCEPT ![c] = s]
    /\ Commit(SaveClientState(db, c, s))

------------------------------------------------------------------------------
(* Policy loop and operator *)

\* evaluatePolicies on a tick with no active sequence and a true trigger:
\* newSequenceFor snapshots the clients and the slot is claimed at once.
Trigger ==
    /\ pc = "idle" /\ mode # "disarmed" /\ nextId \in SeqIds
    /\ seq' = [NoSequence EXCEPT !.id = nextId, !.state = "shutting_down",
                                 !.pre = {c \in Clients : client[c] = "up"}]
    /\ req' = NoRequest
    /\ stage' = 1
    /\ nextId' = nextId + 1
    /\ pc' = "start"
    /\ UNCHANGED <<task, visited, attempt, client, mode, probe, store, world>>

SetMode(m) ==
    /\ pc # "off" /\ mode # m
    /\ mode' = m
    /\ UNCHANGED <<pc, seq, req, stage, task, visited, attempt, client, probe,
                   nextId, store, world>>

\* AbortSequence: accepted while a sequence is active and before its point of
\* no return.  The request lives in memory only.
RequestAbort ==
    /\ "abort" \in Operator
    /\ seq.id # 0 /\ ~seq.ponr
    /\ req' = [req EXCEPT !.abort = TRUE]
    /\ UNCHANGED <<pc, seq, control, client, store, world>>

\* ForceStage
RequestProceed ==
    /\ "proceed" \in Operator
    /\ seq.id # 0
    /\ req' = [req EXCEPT !.proceed = TRUE]
    /\ UNCHANGED <<pc, seq, control, client, store, world>>

------------------------------------------------------------------------------
(* runShutdownStages *)

\* What shouldAbort may answer now.
ShouldAbort ==
    IF seq.ponr THEN {FALSE}
    ELSE IF req.abort THEN {TRUE}
    ELSE IF HasAbort THEN BOOLEAN ELSE {FALSE}

\* executeSequence: the first save of the new sequence.
ExecuteSequence ==
    /\ pc = "start"
    /\ Commit(SaveSequence(db, seq))
    /\ pc' = "enter"
    /\ UNCHANGED <<seq, req, control, client, world>>

\* The top of the loop: record the stage, then look for an abort.
EnterStage ==
    /\ pc = "enter" /\ stage \in StageIds
    /\ seq' = [seq EXCEPT !.stage = stage]
    /\ Commit(SaveSequence(db, seq'))
    /\ \E abort \in ShouldAbort : pc' = IF abort THEN "abort" ELSE "wait"
    /\ UNCHANGED <<req, control, client, world>>

\* Where a stage goes once waitForStage lets it proceed.
Proceeding == IF stage \in PonrStages /\ ~seq.ponr THEN "cross" ELSE "dispatch"

\* waitForStage, in the order of its tests: `when` holds, ...
WhenHolds ==
    /\ pc = "wait"
    /\ pc' = Proceeding
    /\ UNCHANGED <<seq, req, control, client, store, world>>

\* ... or an operator forces the stage through, ...
StageForced ==
    /\ pc = "wait" /\ req.proceed
    /\ req' = [req EXCEPT !.proceed = FALSE]
    /\ pc' = Proceeding
    /\ UNCHANGED <<seq, control, client, store, world>>

\* ... or the sequence is to stop, ...
StageAborted ==
    /\ pc = "wait" /\ ~req.proceed /\ TRUE \in ShouldAbort
    /\ pc' = "abort"
    /\ UNCHANGED <<seq, req, control, client, store, world>>

\* ... or wait_timeout passed.  handleStageTimeout skips the stage, recording it
\* as completed, ...
StageSkipped ==
    /\ pc = "wait" /\ ~req.proceed /\ FALSE \in ShouldAbort
    /\ stage \notin HoldStages
    /\ Commit(SaveStageCompleted(db, seq.id, stage))
    /\ stage' = stage + 1
    /\ pc' = "enter"
    /\ UNCHANGED <<seq, req, task, visited, attempt, client, mode, probe, nextId, world>>

\* ... or, under hold, enters it anew: saved again, and abort asked first.
StageHeld ==
    /\ pc = "wait" /\ ~req.proceed /\ FALSE \in ShouldAbort
    /\ stage \in HoldStages
    /\ pc' = "enter"
    /\ UNCHANGED <<seq, req, control, client, store, world>>

\* Variant: the flag is set and not saved.
CrossPonrUnsaved ==
    /\ pc = "cross"
    /\ seq' = [seq EXCEPT !.ponr = TRUE]
    /\ pc' = "dispatch"
    /\ UNCHANGED <<req, control, client, store, world>>

CrossPonr ==
    /\ pc = "cross"
    /\ seq' = [seq EXCEPT !.ponr = TRUE]
    /\ Durably(SaveSequence(db, seq'))
    /\ pc' = "dispatch"
    /\ UNCHANGED <<req, control, client, world>>

\* executeStage: record the start and launch one goroutine per client.
DispatchStage ==
    /\ pc = "dispatch"
    /\ Commit(SaveStageStarted(db, seq.id, stage))
    /\ task' = [c \in Clients |-> IF c \in Stages[stage] THEN "lock" ELSE "idle"]
    /\ pc' = "join"
    /\ UNCHANGED <<seq, req, stage, visited, attempt, client, mode, probe, nextId, world>>

\* Variant: the completion of the stage is not recorded.
JoinStageUnrecorded ==
    /\ pc = "join"
    /\ \A c \in Stages[stage] : task[c] = "done"
    /\ task' = [c \in Clients |-> "idle"]
    /\ stage' = stage + 1
    /\ pc' = "enter"
    /\ UNCHANGED <<seq, req, visited, attempt, client, mode, probe, nextId, store, world>>

\* ... and wait for all of them.
JoinStage ==
    /\ pc = "join"
    /\ \A c \in Stages[stage] : task[c] = "done"
    /\ Commit(SaveStageCompleted(db, seq.id, stage))
    /\ task' = [c \in Clients |-> "idle"]
    /\ stage' = stage + 1
    /\ pc' = "enter"
    /\ UNCHANGED <<seq, req, visited, attempt, client, mode, probe, nextId, world>>

------------------------------------------------------------------------------
(* shutdownClient, one goroutine per client of the stage *)

ShutdownStep(c, from, to) ==
    /\ task[c] = from
    /\ task' = [task EXCEPT ![c] = to]
    /\ UNCHANGED <<pc, seq, req, stage, visited, attempt, mode, probe, nextId>>

NoTransport(c) ==
    /\ c \in Transportless
    /\ ShutdownStep(c, "lock", "done")
    /\ SetClientState(c, "failed")
    /\ UNCHANGED world

LockClient(c) ==
    /\ c \notin Transportless /\ CanLock(db, c, seq.id)
    /\ ShutdownStep(c, "lock", "intent")
    /\ Commit(AcquireClientLock(db, c, seq.id))
    /\ UNCHANGED <<client, world>>

\* Variant: the refusal is noted and passed over.
LockRefusedIgnored(c) ==
    /\ c \notin Transportless /\ ~CanLock(db, c, seq.id)
    /\ ShutdownStep(c, "lock", "intent")
    /\ UNCHANGED <<client, store, world>>

\* Locked by another sequence: the client is skipped.
LockRefused(c) ==
    /\ c \notin Transportless /\ ~CanLock(db, c, seq.id)
    /\ ShutdownStep(c, "lock", "done")
    /\ UNCHANGED <<client, store, world>>

\* Variant: the intent is written like any other record.
JournalIntentUnsynced(c) ==
    /\ ShutdownStep(c, "intent", "mark")
    /\ Commit(SaveIntent(db, seq.id, c, "dispatching"))
    /\ UNCHANGED <<client, world>>

JournalIntent(c) ==
    /\ ShutdownStep(c, "intent", "mark")
    /\ Durably(SaveIntent(db, seq.id, c, "dispatching"))
    /\ UNCHANGED <<client, world>>

\* The mode is read here, after the state is set and before the command.
MarkShuttingDown(c) ==
    /\ ShutdownStep(c, "mark", IF mode = "dry_run" THEN "dry_record" ELSE "execute")
    /\ SetClientState(c, "shutting_down")
    /\ UNCHANGED world

\* The transport's shutdown command: it may fail, or take a while to bite.
ExecuteShutdown(c) ==
    /\ ShutdownStep(c, "execute", "record")
    /\ told' = [told EXCEPT ![seq.id] = @ \cup {<<stage, c>>}]
    /\ \/ host' = host
       \/ host[c] = "on" /\ host' = [host EXCEPT ![c] = "stopping"]
    /\ UNCHANGED <<client, store, woken, cuts, calledOff>>

RecordDispatched(c) ==
    /\ \/ ShutdownStep(c, "record", "await")
       \/ ShutdownStep(c, "dry_record", "dry_down")
    /\ Commit(SaveIntent(db, seq.id, c, "dispatched"))
    /\ UNCHANGED <<client, world>>

DryRunDown(c) ==
    /\ ShutdownStep(c, "dry_down", "done")
    /\ SetClientState(c, "down")
    /\ UNCHANGED world

\* awaitClientDown: the host is seen down, or the budget runs out.
AwaitClientDown(c) ==
    /\ ShutdownStep(c, "await", "done")
    /\ \/ c \notin Blind /\ "down" \in Reports(c) /\ SetClientState(c, "down")
       \/ SetClientState(c, "down_unverified")
    /\ UNCHANGED world

ShutdownClient(c) ==
    \/ NoTransport(c) \/ LockClient(c) \/ LockRefused(c) \/ JournalIntent(c)
    \/ MarkShuttingDown(c) \/ ExecuteShutdown(c) \/ RecordDispatched(c)
    \/ DryRunDown(c) \/ AwaitClientDown(c)

------------------------------------------------------------------------------
(* After the last stage *)

\* MarkPostShutdownRun claims the action in memory; the mode is read inside
\* executePostShutdown.
ClaimPostShutdown ==
    /\ pc = "enter" /\ stage \notin StageIds
    /\ HasPostShutdown /\ ~seq.postRun
    /\ seq' = [seq EXCEPT !.postRun = TRUE]
    /\ pc' = IF mode = "dry_run" THEN "postsave" ELSE "outlet"
    /\ UNCHANGED <<req, control, client, store, world>>

SkipPostShutdown ==
    /\ pc = "enter" /\ stage \notin StageIds
    /\ ~HasPostShutdown \/ seq.postRun
    /\ pc' = "settled"
    /\ UNCHANGED <<seq, req, control, client, store, world>>

\* The UPS is told to cut its outlets.
ExecutePostShutdown ==
    /\ pc = "outlet"
    /\ cuts' = [cuts EXCEPT ![seq.id] = IF @ < 2 THEN @ + 1 ELSE @]
    /\ pc' = "postsave"
    /\ UNCHANGED <<seq, req, control, client, store, host, told, woken, calledOff>>

SavePostShutdown ==
    /\ pc = "postsave"
    /\ Commit(SaveSequence(db, seq))
    /\ pc' = "settled"
    /\ UNCHANGED <<seq, req, control, client, world>>

ToWakeGate ==
    /\ pc = "settled"
    /\ seq' = [seq EXCEPT !.state = "wake_gate"]
    /\ Commit(SaveSequence(db, seq'))
    /\ pc' = "gate"
    /\ UNCHANGED <<req, control, client, world>>

------------------------------------------------------------------------------
(* handleAbort *)

HandleAbort ==
    /\ pc = "abort"
    /\ seq' = [seq EXCEPT !.state = "aborting", !.aborted = TRUE]
    /\ Commit(SaveSequence(db, seq'))
    /\ calledOff' = calledOff \cup {seq.id}
    /\ pc' = "settle"
    /\ UNCHANGED <<req, control, client, host, told, woken, cuts>>

\* Variant: no budget, only a host seen going down ends the wait.
SettleWhenDown(c) ==
    /\ pc = "settle" /\ client[c] = "shutting_down"
    /\ "down" \in Reports(c)
    /\ SetClientState(c, "down")
    /\ UNCHANGED <<pc, seq, req, control, world>>

\* waitForShuttingDown: a client still shutting down when its budget ends.
SettleTimeout(c) ==
    /\ pc = "settle" /\ client[c] = "shutting_down"
    /\ SetClientState(c, "down_unverified")
    /\ UNCHANGED <<pc, seq, req, control, world>>

AllSettled ==
    /\ pc = "settle"
    /\ \A c \in Clients : client[c] # "shutting_down"
    /\ seq' = [seq EXCEPT !.state = "wake_gate"]
    /\ Commit(SaveSequence(db, seq'))
    /\ pc' = "gate"
    /\ UNCHANGED <<req, control, client, world>>

------------------------------------------------------------------------------
(* runWake *)

\* Variant: the new phase is not saved.
GateOpensUnsaved ==
    /\ pc = "gate"
    /\ seq' = [seq EXCEPT !.state = "waking"]
    /\ visited' = {}
    /\ pc' = "wake"
    /\ UNCHANGED <<req, stage, task, attempt, client, mode, probe, nextId, store, world>>

GateOpens ==
    /\ pc = "gate"
    /\ seq' = [seq EXCEPT !.state = "waking"]
    /\ Commit(SaveSequence(db, seq'))
    /\ visited' = {}
    /\ pc' = "wake"
    /\ UNCHANGED <<req, stage, task, attempt, client, mode, probe, nextId, world>>

\* Variant: the gate does not look at abort requests.
GateDeaf ==
    /\ pc = "gate" /\ FALSE
    /\ UNCHANGED vars

GateAbandoned ==
    /\ pc = "gate" /\ req.abort
    /\ seq' = [seq EXCEPT !.aborted = TRUE]
    /\ pc' = "close"
    /\ UNCHANGED <<req, control, client, store, world>>

\* computeWakeOrder: the plan's own list, or the shutdown stages backwards.
\* The order inside one stage is left open.
WakeList ==
    IF Len(WakeStages) > 0 THEN WakeStages
    ELSE [k \in StageIds |-> Stages[NumStages + 1 - k]]

Awaiting(c) ==
    /\ c \notin visited
    /\ \E k \in DOMAIN WakeList :
          /\ c \in WakeList[k]
          /\ \A j \in 1..(k - 1) : WakeList[j] \subseteq visited

NoWakeInFlight == \A c \in Clients : task[c] = "idle"

DependenciesMet(c) == \A d \in DependsOn[c] : client[d] = "up"

Spared(c) == client[c] = "up" \/ (c \in RetainState /\ c \notin seq.pre)

WakeTurn(c) == pc = "wake" /\ NoWakeInFlight /\ Awaiting(c)

SpareClient(c) ==
    /\ WakeTurn(c) /\ ~req.abort /\ Spared(c)
    /\ visited' = visited \cup {c}
    /\ UNCHANGED <<pc, seq, req, stage, task, attempt, client, mode, probe, nextId,
                   store, world>>

DependencyDown(c) ==
    /\ WakeTurn(c) /\ ~req.abort /\ ~Spared(c) /\ ~DependenciesMet(c)
    /\ visited' = visited \cup {c}
    /\ SetClientState(c, "failed")
    /\ UNCHANGED <<pc, seq, req, stage, task, attempt, mode, probe, nextId, world>>

BeginWake(c) ==
    /\ WakeTurn(c) /\ ~req.abort /\ ~Spared(c) /\ DependenciesMet(c)
    /\ task' = [task EXCEPT ![c] = IF client[c] = "down_unverified" THEN "guard" ELSE "wake"]
    /\ UNCHANGED <<pc, seq, req, stage, visited, attempt, client, mode, probe, nextId,
                   store, world>>

WakeAbandoned ==
    /\ pc = "wake" /\ NoWakeInFlight /\ req.abort
    /\ \E c \in Clients : Awaiting(c)
    /\ seq' = [seq EXCEPT !.aborted = TRUE]
    /\ pc' = "close"
    /\ UNCHANGED <<req, control, client, store, world>>

WakeFinished ==
    /\ pc = "wake" /\ NoWakeInFlight
    /\ \A c \in Clients : ~Awaiting(c)
    /\ pc' = "close"
    /\ UNCHANGED <<seq, req, control, client, store, world>>

------------------------------------------------------------------------------
(* wakeClient *)

WakeStep(c, from, to) ==
    /\ task[c] = from
    /\ task' = [task EXCEPT ![c] = to]
    /\ UNCHANGED <<pc, seq, req, stage, visited, mode, probe, nextId>>

WakeEnds(c, from) ==
    /\ task[c] = from
    /\ task' = [task EXCEPT ![c] = "idle"]
    /\ visited' = visited \cup {c}
    /\ attempt' = 0
    /\ UNCHANGED <<pc, seq, req, stage, mode, probe, nextId>>

GuardPassed(c) ==
    /\ WakeStep(c, "guard", "wake")
    /\ UNCHANGED <<attempt, client, store, world>>

NoWakeTransport(c) ==
    /\ c \in Wakeless
    /\ WakeEnds(c, "wake")
    /\ SetClientState(c, "failed")
    /\ UNCHANGED world

MarkWaking(c) ==
    /\ c \notin Wakeless
    /\ WakeStep(c, "wake", IF mode = "dry_run" THEN "wake_dry" ELSE "wake_execute")
    /\ SetClientState(c, "waking")
    /\ UNCHANGED <<attempt, world>>

DryRunUp(c) ==
    /\ WakeEnds(c, "wake_dry")
    /\ SetClientState(c, "up")
    /\ UNCHANGED world

\* A magic packet starts a host that is off, or is lost.
WakeCommand(c) ==
    /\ woken' = [woken EXCEPT ![seq.id] = @ \cup {c}]
    /\ \/ host' = host
       \/ host[c] = "off" /\ host' = [host EXCEPT ![c] = "on"]
    /\ UNCHANGED <<told, cuts, calledOff>>

ExecuteWake(c) ==
    /\ task[c] = "wake_execute"
    /\ WakeCommand(c)
    /\ \/ /\ c \in Unverifiable
          /\ WakeEnds(c, "wake_execute")
          /\ SetClientState(c, "up")
       \/ /\ c \notin Unverifiable
          /\ WakeStep(c, "wake_execute", "verify")
          /\ UNCHANGED <<attempt, client, store>>

\* A probe already out may confirm the host after an abort was requested.
WakeVerified(c) ==
    /\ "up" \in Reports(c)
    /\ WakeEnds(c, "verify")
    /\ SetClientState(c, "up")
    /\ UNCHANGED world

VerifyAbandoned(c) ==
    /\ req.abort
    /\ WakeEnds(c, "verify")
    /\ UNCHANGED <<client, store, world>>

\* boot_deadline passed: send the command again, or give up.
WakeRetry(c) ==
    /\ attempt < Retries
    /\ WakeStep(c, "verify", "wake_execute")
    /\ attempt' = attempt + 1
    /\ UNCHANGED <<client, store, world>>

WakeFailed(c) ==
    /\ attempt = Retries
    /\ WakeEnds(c, "verify")
    /\ SetClientState(c, "failed")
    /\ UNCHANGED world

WakeClient(c) ==
    \/ GuardPassed(c) \/ NoWakeTransport(c) \/ MarkWaking(c) \/ DryRunUp(c)
    \/ ExecuteWake(c) \/ WakeVerified(c) \/ VerifyAbandoned(c) \/ WakeRetry(c)
    \/ WakeFailed(c)

------------------------------------------------------------------------------
(* completeSequence: record the final state, then release *)

\* Variant: every sequence that ends is reported as completed.
CloseCompleted ==
    /\ pc = "close"
    /\ seq' = [seq EXCEPT !.state = "completed"]
    /\ Commit(SaveSequence(db, seq'))
    /\ pc' = "release"
    /\ UNCHANGED <<req, control, client, world>>

CloseSequence ==
    /\ pc = "close"
    /\ seq' = [seq EXCEPT !.state = IF seq.aborted THEN "aborted" ELSE "completed"]
    /\ Commit(SaveSequence(db, seq'))
    /\ pc' = "release"
    /\ UNCHANGED <<req, control, client, world>>

ReleaseSequence ==
    /\ pc = "release"
    /\ Commit(ReleaseSequenceLocks(db, seq.id))
    /\ seq' = NoSequence
    /\ req' = NoRequest
    /\ stage' = 1
    /\ visited' = {}
    /\ pc' = "idle"
    /\ UNCHANGED <<task, attempt, client, mode, probe, nextId, world>>

------------------------------------------------------------------------------
(* Dying and coming back *)

Dies ==
    /\ pc # "off"
    /\ pc' = "off"
    /\ seq' = NoSequence
    /\ req' = NoRequest
    /\ stage' = 1
    /\ task' = [c \in Clients |-> "idle"]
    /\ visited' = {}
    /\ attempt' = 0
    /\ client' = [c \in Clients |-> "unknown"]
    /\ probe' = NoProbe
    /\ UNCHANGED <<mode, nextId, world>>

\* The process stops, by a crash or on request: nothing it had not committed
\* survives.
Crash == "crash" \in Faults /\ Dies /\ UNCHANGED store

\* Its machine loses power: nor do commits no sync had reached.
PowerLoss == "power" \in Faults /\ Dies /\ db' = disk /\ UNCHANGED disk

\* Start and restoreState.  The mode is the one stored or configured.
Restarting(d) ==
    /\ pc = "off"
    /\ client' = d.client
    /\ mode' \in Modes
    /\ UNCHANGED <<req, stage, task, visited, attempt, probe, nextId, world>>

StartIdle ==
    /\ Restarting(db) /\ ActiveRows(db) = {}
    /\ pc' = "idle"
    /\ UNCHANGED <<seq, store>>

\* The plan has left the configuration (renamed, say).
StartOrphan ==
    /\ Restarting(db) /\ ActiveRows(db) # {}
    /\ Commit(FailOrphanedSequence(db, Newest(ActiveRows(db))))
    /\ pc' = "idle"
    /\ UNCHANGED seq

\* Variant: the persisted state is ignored and the stages are resumed.
StartResumeStages ==
    /\ Restarting(db) /\ ActiveRows(db) # {}
    /\ seq' = db.row[Newest(ActiveRows(db))]
    /\ pc' = "resume"
    /\ UNCHANGED store

\* resumeSequence rejoins by the state that was persisted.
StartResume ==
    /\ Restarting(db) /\ ActiveRows(db) # {}
    /\ seq' = db.row[Newest(ActiveRows(db))]
    /\ pc' = CASE seq'.state = "aborting" -> "settle"
               [] seq'.state \in {"wake_gate", "waking"} -> "gate"
               [] OTHER -> "resume"
    /\ UNCHANGED store

\* Variant: the stage after the one to resume.
ResumeAfter(done) == Cardinality(done) + 2

\* The first stage with no completion record.
ResumeAt(done) ==
    CHOOSE i \in 1..(NumStages + 1) :
        /\ i \notin done
        /\ \A j \in 1..(i - 1) : j \in done

ResumeStages ==
    /\ pc = "resume"
    /\ stage' = ResumeAt(db.done[seq.id])
    /\ seq' = [seq EXCEPT !.stage = stage']
    /\ pc' = "reconcile"
    /\ UNCHANGED <<req, task, visited, attempt, client, mode, probe, nextId, store, world>>

\* reconcileIntents, one pending intent at a time: probe the client and set its
\* state, ...  An inconclusive probe leaves it down_unverified.  (A client with
\* no transport has no intent, so none is passed over.)
Reconcile(c) ==
    /\ pc = "reconcile" /\ c \in PendingIntents(db, seq.id)
    /\ \A d \in Clients : task[d] = "idle"
    /\ \E s \in {"down_unverified"} \cup (IF c \in Blind THEN {} ELSE Reports(c)) :
          SetClientState(c, s)
    /\ task' = [task EXCEPT ![c] = "probed"]
    /\ UNCHANGED <<pc, seq, req, stage, visited, attempt, mode, probe, nextId, world>>

\* ... then close the intent.
RecordReconciled(c) ==
    /\ pc = "reconcile" /\ task[c] = "probed"
    /\ task' = [task EXCEPT ![c] = "idle"]
    /\ Commit(SaveIntent(db, seq.id, c, "reconciled"))
    /\ UNCHANGED <<pc, seq, req, stage, visited, attempt, client, mode, probe, nextId, world>>

Reconciled ==
    /\ pc = "reconcile" /\ PendingIntents(db, seq.id) = {}
    /\ pc' = "enter"
    /\ UNCHANGED <<seq, req, control, client, store, world>>

------------------------------------------------------------------------------
(* probeAllClients: the host answers, the recorded state is read, the new    *)
(* one is written; the sequence may act in between.                          *)

ProbeAnswers(c) ==
    /\ BackgroundProbe /\ pc # "off" /\ probe = NoProbe
    /\ c \notin Transportless \cup Blind
    /\ \E s \in Reports(c) : probe' = [step |-> "seen", who |-> c, saw |-> s]
    /\ UNCHANGED <<pc, seq, req, stage, task, visited, attempt, client, mode, nextId,
                   store, world>>

\* Variant: a probe only ever settles what was not known.
AcceptsUnsettled(current, saw) ==
    current \in {"unknown", "down_unverified"} /\ saw # current

\* While a sequence drives the client only the transition it waits for counts.
Accepts(current, saw) ==
    CASE current = "shutting_down" -> saw = "down"
      [] current = "waking" -> saw = "up"
      [] OTHER -> saw # current

ProbeDecides ==
    /\ probe.step = "seen"
    /\ probe' = IF Accepts(client[probe.who], probe.saw)
                THEN [probe EXCEPT !.step = "write"] ELSE NoProbe
    /\ UNCHANGED <<pc, seq, req, stage, task, visited, attempt, client, mode, nextId,
                   store, world>>

ProbeWrites ==
    /\ probe.step = "write"
    /\ SetClientState(probe.who, probe.saw)
    /\ probe' = NoProbe
    /\ UNCHANGED <<pc, seq, req, stage, task, visited, attempt, mode, nextId, world>>

\* A host told to shut down eventually is off.
HostStops(c) ==
    /\ host[c] = "stopping"
    /\ host' = [host EXCEPT ![c] = "off"]
    /\ UNCHANGED <<memory, store, told, woken, cuts, calledOff>>

------------------------------------------------------------------------------
\* probeLoop sweeps every client as it starts; the first state is the one
\* after that sweep on a new installation.
FirstSweep(c) ==
    CASE c \in Transportless \cup Blind -> "unknown"
      [] host[c] = "on" -> "up"
      [] OTHER -> "down"

Init ==
    /\ pc = "idle"
    /\ seq = NoSequence /\ req = NoRequest /\ stage = 1
    /\ task = [c \in Clients |-> "idle"]
    /\ visited = {} /\ attempt = 0
    /\ mode \in Modes
    /\ probe = NoProbe /\ nextId = 1
    /\ host \in [Clients -> {"on", "off"}]
    /\ client = [c \in Clients |-> FirstSweep(c)]
    /\ db = [EmptyDatabase EXCEPT !.client = client]
    /\ disk = db
    /\ told = [s \in SeqIds |-> {}]
    /\ woken = [s \in SeqIds |-> {}]
    /\ cuts = [s \in SeqIds |-> 0]
    /\ calledOff = {}

\* The sequence goroutine.
SequenceStep ==
    \/ ExecuteSequence \/ EnterStage
    \/ WhenHolds \/ StageForced \/ StageAborted \/ StageSkipped \/ StageHeld
    \/ CrossPonr \/ DispatchStage \/ JoinStage
    \/ ClaimPostShutdown \/ SkipPostShutdown \/ ExecutePostShutdown
    \/ SavePostShutdown \/ ToWakeGate
    \/ HandleAbort \/ AllSettled \/ \E c \in Clients : SettleTimeout(c)
    \/ GateOpens \/ GateAbandoned
    \/ \E c \in Clients : SpareClient(c) \/ DependencyDown(c) \/ BeginWake(c)
    \/ WakeAbandoned \/ WakeFinished
    \/ CloseSequence \/ ReleaseSequence
    \/ ResumeStages \/ Reconciled
    \/ \E c \in Clients : Reconcile(c) \/ RecordReconciled(c)

Next ==
    \/ Trigger
    \/ SequenceStep
    \/ \E c \in Clients : ShutdownClient(c) \/ WakeClient(c)
    \/ \E c \in Clients : ProbeAnswers(c) \/ HostStops(c)
    \/ ProbeDecides \/ ProbeWrites
    \/ \E m \in Modes : SetMode(m)
    \/ RequestAbort \/ RequestProceed
    \/ Crash \/ PowerLoss \/ Checkpoint
    \/ StartIdle \/ StartOrphan \/ StartResume

Spec == Init /\ [][Next]_vars

Faulting == Crash \/ PowerLoss
Starting == StartIdle \/ StartOrphan \/ StartResume

\* Faults stop at some point and the service manager restarts the daemon;
\* goroutines are scheduled; and what a stage or the gate waits for
\* eventually comes (mains power returns).
FairSpec ==
    /\ Spec
    /\ WF_vars(SequenceStep) /\ WF_vars(Starting)
    /\ \A c \in Clients : WF_vars(ShutdownClient(c)) /\ WF_vars(WakeClient(c))
    /\ <>[][~Faulting]_vars

\* The same scheduling with no promise about any condition: `when` and the
\* wake gate may stay false for ever.  Time limits pass all the same.
UnaidedStep ==
    \/ SequenceStep /\ pc \notin {"wait", "gate"}
    \/ StageForced \/ StageAborted \/ StageSkipped \/ StageHeld \/ GateAbandoned

UnaidedSpec ==
    /\ Spec
    /\ WF_vars(UnaidedStep)
    /\ \A c \in Clients : WF_vars(ShutdownClient(c)) /\ WF_vars(WakeClient(c))

\* probeLoop visits the clients in turn.
ProbingSpec ==
    /\ UnaidedSpec
    /\ WF_vars(ProbeDecides) /\ WF_vars(ProbeWrites)
    /\ \A c \in Clients : SF_vars(ProbeAnswers(c)) /\ WF_vars(HostStops(c))

------------------------------------------------------------------------------
(* Safety *)

\* Before any host is told to shut down, an intent for it is in the journal,
\* and on the disk: neither a crash nor a power cut can leave a command
\* nobody recorded (saveIntentDurable before Execute in shutdownClient).
JournalBeforeCommand ==
    \A s \in SeqIds : \A t \in told[s] :
        db.intent[s][t[2]] # "none" /\ disk.intent[s][t[2]] # "none"

\* Once a host of a point-of-no-return stage has been told to shut down, every
\* later view of the sequence, after a power cut too, knows that the point was
\* crossed (saveSequenceDurable in runShutdownStages): no restart can offer an
\* abort again.
PonrDurable ==
    \A s \in SeqIds : \A t \in told[s] :
        t[1] \in PonrStages => db.row[s].ponr /\ disk.row[s].ponr

\* A host is told to shut down only after every earlier stage is recorded as
\* settled, and no fault takes such a record away afterwards: a resumed
\* sequence never goes back behind a stage it has acted on (runShutdownStages,
\* resumeSequence and the upsert in SaveStageRecord).
EarlierStagesSettled ==
    \A s \in SeqIds : \A t \in told[s] :
        1..(t[1] - 1) \subseteq db.done[s] \cap disk.done[s]

\* An announced abort survives a crash: the sequence is never again recorded as
\* shutting down, and never as cleanly completed (handleAbort, resumeSequence,
\* completeSequence).
AbortRecorded ==
    \A s \in calledOff : db.row[s].state \notin {"shutting_down", "completed"}

\* Once a sequence's abort is announced, no host is told to shut down for it
\* and no outlet is cut, by this process or by one that resumes it.
AbortIsFinal ==
    [][\A s \in calledOff : told'[s] = told[s] /\ cuts'[s] = cuts[s]]_vars

\* Once a wake command has gone out for a sequence, that sequence neither
\* shuts a host down nor cuts power to a fleet that is booting.
WakeEndsShutdown ==
    [][\A s \in SeqIds : woken[s] # {} => told'[s] = told[s] /\ cuts'[s] = cuts[s]]_vars

\* As long as a sequence is recorded as unfinished, every host it has told to
\* shut down is locked for it, in the store and on the disk: whatever a crash or
\* a power cut leaves behind, a sequence acts only on clients no other sequence
\* has a claim to (AcquireClientLock before the synced intent, the refusal in
\* shutdownClient, the release after the final state in completeSequence).
ToldIsLocked ==
    \A s \in SeqIds : \A t \in told[s] : \A d \in {db, disk} :
        d.row[s].state \in LiveStates => d.lock[t[2]] = s

\* The sequences table behaves as SequenceLifecycle says, across crashes.
Lifecycle == INSTANCE SequenceLifecycle WITH
    Ids <- SeqIds,
    phase <- [s \in SeqIds |-> db.row[s].state],
    aborted <- [s \in SeqIds |-> db.row[s].aborted]
ImplementsLifecycle == Lifecycle!Spec

(* Liveness *)

\* Every sequence that was ever recorded reaches a final state.
EverySequenceEnds ==
    \A s \in SeqIds :
        db.row[s].state \in LiveStates ~> db.row[s].state \notin LiveStates

\* A stage that holds after the point of no return, where shouldAbort is deaf.
HeldBeyondReturn == seq.ponr /\ stage \in HoldStages /\ pc \in {"enter", "wait"}

\* An accepted abort request ends the sequence even if no condition it waits
\* for ever holds: stages that hold and the wake gate stay interruptible.  The
\* exception: a request accepted before the point of no return and first read
\* after it passes unheard by the stages, and one that holds goes on holding
\* until its condition is true or the operator forces it (shouldAbort).
AbortEndsSequence ==
    \A s \in SeqIds : (seq.id = s /\ req.abort) ~> (seq.id # s \/ HeldBeyondReturn)

Agrees(c) == client[c] = (IF host[c] = "off" THEN "down" ELSE "up")

\* When sequences have ended for good, the background probe has every client it
\* can reach recorded as it is, unless the sequence left it in a transitional
\* state (probeAllClients).
ProbeConverges ==
    <>[](pc = "idle") =>
        <>[](\A c \in Clients \ (Transportless \cup Blind) :
               client[c] \in {"shutting_down", "waking"} \/ Agrees(c))

==============================================================================
