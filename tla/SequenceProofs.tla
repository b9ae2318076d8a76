--------------------------- MODULE SequenceProofs ---------------------------
(***************************************************************************)
(* Proofs that SequenceRun is correctly typed and that what it tells hosts *)
(* is always backed by durable records, for every plan, every set of       *)
(* clients, every fault assumption and any number of sequences.            *)
(***************************************************************************)
EXTENDS SequenceRun, WellFoundedInduction, TLAPS

------------------------------------------------------------------------------
(* The store's operators: what each returns *)

(* Records *)

States == LiveStates \cup FinalStates \cup {"none"}

\* r is q as far as its id and its point of no return go.
SameRun(q, r) == r \in Sequence /\ r.id = q.id /\ r.ponr = q.ponr

LEMMA SequenceUpdates ==
    ASSUME NEW q \in Sequence
    PROVE  /\ \A x \in States : SameRun(q, [q EXCEPT !.state = x])
           /\ \A i \in 1..(NumStages + 1) : SameRun(q, [q EXCEPT !.stage = i])
           /\ SameRun(q, [q EXCEPT !.postRun = TRUE])
           /\ SameRun(q, [q EXCEPT !.aborted = TRUE])
           /\ SameRun(q, [q EXCEPT !.state = "aborting", !.aborted = TRUE])
           /\ [q EXCEPT !.ponr = TRUE] \in Sequence
           /\ [q EXCEPT !.ponr = TRUE].id = q.id
           /\ [q EXCEPT !.ponr = TRUE].ponr
BY DEF Sequence, States, LiveStates, SameRun

LEMMA SequenceMoves ==
    ASSUME seq \in Sequence,
           \/ \E x \in States : seq' = [seq EXCEPT !.state = x]
           \/ \E i \in 1..(NumStages + 1) : seq' = [seq EXCEPT !.stage = i]
           \/ seq' = [seq EXCEPT !.postRun = TRUE]
           \/ seq' = [seq EXCEPT !.aborted = TRUE]
           \/ seq' = [seq EXCEPT !.state = "aborting", !.aborted = TRUE]
    PROVE  SameRun(seq, seq')
BY SequenceUpdates, Zenon

LEMMA SaveSequenceType ==
    ASSUME NEW d \in Database, NEW q \in Sequence
    PROVE  SaveSequence(d, q) \in Database
BY DEF SaveSequence, Database

LEMMA SaveClientStateType ==
    ASSUME NEW d \in Database, NEW c \in Clients, NEW s \in ClientStates
    PROVE  SaveClientState(d, c, s) \in Database
BY DEF SaveClientState, Database

LEMMA SaveIntentType ==
    ASSUME NEW d \in Database, NEW s \in SeqIds, NEW c \in Clients,
           NEW status \in IntentStates
    PROVE  SaveIntent(d, s, c, status) \in Database
BY DEF SaveIntent, Database

LEMMA SaveStageType ==
    ASSUME NEW d \in Database, NEW s \in SeqIds, NEW i \in StageIds
    PROVE  /\ SaveStageStarted(d, s, i) \in Database
           /\ SaveStageCompleted(d, s, i) \in Database
BY DEF SaveStageStarted, SaveStageCompleted, Database

LEMMA AcquireType ==
    ASSUME NEW d \in Database, NEW c \in Clients, NEW s \in SeqIds
    PROVE  AcquireClientLock(d, c, s) \in Database
<1>1. s \in 0..MaxSeq
  BY ConfigAssumption DEF SeqIds
<1> QED
  BY <1>1 DEF AcquireClientLock, Database

LEMMA ReleaseType ==
    ASSUME NEW d \in Database, NEW s \in SeqIds
    PROVE  ReleaseSequenceLocks(d, s) \in Database
<1>1. [c \in Clients |-> IF d.lock[c] = s THEN 0 ELSE d.lock[c]] \in [Clients -> 0..MaxSeq]
  BY ConfigAssumption DEF Database
<1> QED
  BY <1>1 DEF ReleaseSequenceLocks, Database

LEMMA FailOrphanedType ==
    ASSUME NEW d \in Database, NEW s \in SeqIds
    PROVE  FailOrphanedSequence(d, s) \in Database
<1> DEFINE r == ReleaseSequenceLocks(d, s)
<1>1. r \in Database
  BY ReleaseType
<1> HIDE DEF r
<1>2. [r.row[s] EXCEPT !.state = "failed"] \in Sequence
  BY <1>1, r.row[s] \in Sequence, SequenceUpdates DEF Database, States, FinalStates, SameRun
<1>3. [c \in Clients |-> IF r.intent[s][c] = "dispatching" THEN "reconciled"
                          ELSE r.intent[s][c]] \in [Clients -> IntentStates]
  BY <1>1 DEF Database, IntentStates
<1> QED
  BY <1>1, <1>2, <1>3 DEF FailOrphanedSequence, Database, r
\* A row that has been saved stands under its own id.
WellKeyed(d) == \A s \in SeqIds : d.row[s].state # "none" => d.row[s].id = s
Sound(d) == d \in Database /\ WellKeyed(d)

LEMMA SaveSequenceSound ==
    ASSUME NEW d, Sound(d), NEW q \in Sequence
    PROVE  Sound(SaveSequence(d, q))
<1>1. SaveSequence(d, q).row = [d.row EXCEPT ![q.id] = q]
  BY DEF Sound, SaveSequence, Database
<1> QED
  BY <1>1, SaveSequenceType DEF Sound, WellKeyed, Database

LEMMA SaveClientStateSound ==
    ASSUME NEW d, Sound(d), NEW c \in Clients, NEW s \in ClientStates
    PROVE  Sound(SaveClientState(d, c, s))
<1>1. SaveClientState(d, c, s).row = d.row
  BY DEF Sound, SaveClientState, Database
<1> QED
  BY <1>1, SaveClientStateType DEF Sound, WellKeyed

LEMMA SaveIntentSound ==
    ASSUME NEW d, Sound(d), NEW s \in SeqIds, NEW c \in Clients,
           NEW status \in IntentStates
    PROVE  Sound(SaveIntent(d, s, c, status))
<1>1. SaveIntent(d, s, c, status).row = d.row
  BY DEF Sound, SaveIntent, Database
<1> QED
  BY <1>1, SaveIntentType DEF Sound, WellKeyed

LEMMA SaveStageSound ==
    ASSUME NEW d, Sound(d), NEW s \in SeqIds, NEW i \in StageIds
    PROVE  Sound(SaveStageStarted(d, s, i)) /\ Sound(SaveStageCompleted(d, s, i))
<1>1. SaveStageStarted(d, s, i).row = d.row /\ SaveStageCompleted(d, s, i).row = d.row
  BY DEF Sound, SaveStageStarted, SaveStageCompleted, Database
<1> QED
  BY <1>1, SaveStageType DEF Sound, WellKeyed

LEMMA LocksSound ==
    ASSUME NEW d, Sound(d), NEW s \in SeqIds
    PROVE  /\ Sound(ReleaseSequenceLocks(d, s))
           /\ \A c \in Clients : Sound(AcquireClientLock(d, c, s))
<1>1. /\ ReleaseSequenceLocks(d, s).row = d.row
      /\ \A c \in Clients : AcquireClientLock(d, c, s).row = d.row
  BY DEF Sound, ReleaseSequenceLocks, AcquireClientLock, Database
<1> QED
  BY <1>1, AcquireType, ReleaseType DEF Sound, WellKeyed

LEMMA FailOrphanedSound ==
    ASSUME NEW d, Sound(d), NEW s \in SeqIds, d.row[s].state # "none"
    PROVE  Sound(FailOrphanedSequence(d, s))
<1>1. FailOrphanedSequence(d, s).row = [d.row EXCEPT ![s].state = "failed"]
  BY DEF Sound, FailOrphanedSequence, ReleaseSequenceLocks, Database
<1>2. d.row \in [SeqIds -> Sequence]
  BY DEF Sound, Database
<1>3. \A x \in SeqIds : /\ FailOrphanedSequence(d, s).row[x].id = d.row[x].id
                        /\ x # s => FailOrphanedSequence(d, s).row[x] = d.row[x]
  BY <1>1, <1>2 DEF Sequence
<1> QED
  BY <1>3, FailOrphanedType DEF Sound, WellKeyed

LEMMA CommitSound ==
    ASSUME Sound(db), Sound(disk), NEW d, Sound(d), Commit(d)
    PROVE  Sound(db)' /\ Sound(disk)'
BY DEF Commit, Sound, WellKeyed

LEMMA DurablySound ==
    ASSUME NEW d, Sound(d), Durably(d)
    PROVE  Sound(db)' /\ Sound(disk)'
BY DEF Durably, Sound, WellKeyed

LEMMA UnchangedSound ==
    ASSUME Sound(db), Sound(disk), UNCHANGED store
    PROVE  Sound(db)' /\ Sound(disk)'
BY DEF store, Sound, WellKeyed

LEMMA SetClientStateSound ==
    ASSUME TypeOK, Sound(db), Sound(disk),
           NEW c \in Clients, NEW s \in ClientStates, SetClientState(c, s)
    PROVE  /\ client' \in [Clients -> ClientStates]
           /\ Sound(db)' /\ Sound(disk)'
<1>1. Sound(SaveClientState(db, c, s))
  BY SaveClientStateSound
<1> QED
  BY <1>1, CommitSound DEF SetClientState, TypeOK

\* The newest of the active rows is one of them (ids are bounded, so there is
\* a largest).
LEMMA NewestExists ==
    ASSUME NEW S \in SUBSET SeqIds, S # {}
    PROVE  Newest(S) \in S
<1> DEFINE D == {MaxSeq - s : s \in S}
<1>0. S \subseteq 1..MaxSeq /\ MaxSeq \in Nat
  BY ConfigAssumption DEF SeqIds
<1>1. D \in SUBSET Nat /\ D # {}
  <2>1. \A s \in S : MaxSeq - s \in Nat
    BY <1>0
  <2> QED
    BY <2>1, Zenon
<1>2. IsWellFoundedOn(OpToRel(<, Nat), Nat)
  BY NatLessThanWellFounded
<1>3. PICK m \in D : \A n \in D : ~ (<<n, m>> \in OpToRel(<, Nat))
  BY <1>1, <1>2, WFMin
<1>4. PICK s \in S : m = MaxSeq - s
  BY <1>3
<1>5. \A t \in S : t <= s
  <2> SUFFICES ASSUME NEW t \in S PROVE t <= s
    OBVIOUS
  <2>1. ~ (MaxSeq - t < MaxSeq - s)
    BY <1>0, <1>1, <1>3, <1>4 DEF OpToRel
  <2> QED
    BY <2>1, <1>0
<1> QED
  BY <1>5 DEF Newest

\* resumeSequence finds a stage to resume at, whatever records there are: the
\* loop over the stages stops at the first one missing, or after the last.
LEMMA ResumeAtExists ==
    ASSUME NEW done \in SUBSET StageIds
    PROVE  /\ ResumeAt(done) \in 1..(NumStages + 1)
           /\ ResumeAt(done) \notin done
           /\ \A j \in 1..(ResumeAt(done) - 1) : j \in done
<1> DEFINE M == (1..(NumStages + 1)) \ done
<1>0. NumStages \in Nat
  BY ConfigAssumption DEF NumStages
<1>1. M \in SUBSET Nat /\ NumStages + 1 \in M
  BY <1>0 DEF StageIds
<1>2. IsWellFoundedOn(OpToRel(<, Nat), Nat)
  BY NatLessThanWellFounded
<1>3. PICK m \in M : \A n \in M : ~ (<<n, m>> \in OpToRel(<, Nat))
  BY <1>1, <1>2, WFMin
<1>4. \A j \in 1..(m - 1) : j \in done
  <2> SUFFICES ASSUME NEW j \in 1..(m - 1), j \notin done PROVE FALSE
    OBVIOUS
  <2>1. j \in M /\ j < m
    BY <1>0, <1>1
  <2> QED
    BY <2>1, <1>1, <1>3 DEF OpToRel
<1> QED
  BY <1>4 DEF ResumeAt
------------------------------------------------------------------------------
(* Type correctness *)

\* While a sequence holds the slot it has an id; the stage index is in range
\* where the code indexes the stages with it; client tasks run only inside
\* executeStage and the wake loop.
Located ==
    /\ pc \notin {"off", "idle"} => seq.id \in SeqIds
    /\ pc \in {"wait", "cross", "dispatch", "join"} => stage \in StageIds
    /\ \A c \in Clients : /\ task[c] \in ShutdownTasks => pc = "join"
                          /\ task[c] \in WakeTasks => pc = "wake"

TypeInv == TypeOK /\ Located /\ Sound(db) /\ Sound(disk)

LEMMA TypeInvInit == Init => TypeInv
<1> SUFFICES ASSUME Init PROVE TypeInv
  OBVIOUS
<1>1. MaxSeq \in Nat \ {0} /\ Retries \in Nat /\ NumStages \in Nat
  BY ConfigAssumption DEF NumStages
<1>2. client \in [Clients -> ClientStates]
  BY DEF Init, FirstSweep, ClientStates
<1>3. NoSequence \in Sequence
  BY <1>1 DEF NoSequence, Sequence
<1>4. db = [row    |-> [s \in SeqIds |-> NoSequence],
            done   |-> [s \in SeqIds |-> {}],
            intent |-> [s \in SeqIds |-> [c \in Clients |-> "none"]],
            lock   |-> [c \in Clients |-> 0],
            client |-> client]
  BY DEF Init, EmptyDatabase
<1>5. db \in Database
  BY <1>1, <1>2, <1>3, <1>4 DEF Database, IntentStates
<1>6. WellKeyed(db)
  BY <1>4 DEF WellKeyed, NoSequence
<1>7. TypeOK
  BY <1>1, <1>2, <1>3, <1>5, EnvironmentAssumption
     DEF Init, TypeOK, Locations, NoRequest, NoProbe, Tasks, SeqIds
<1> QED
  BY <1>5, <1>6, <1>7
     DEF Init, TypeInv, Sound, WellKeyed, Located, ShutdownTasks, WakeTasks

LEMMA OperatorTyped ==
    ASSUME TypeInv,
           \/ Trigger \/ RequestAbort \/ RequestProceed
           \/ \E m \in Modes : SetMode(m)
    PROVE  TypeInv'
<1> USE DEF TypeInv, TypeOK, Located, Sound, WellKeyed, store, world
<1>1. CASE Trigger
  <2> DEFINE up == {c \in Clients : client[c] = "up"}
  <2>1. seq' = [id |-> nextId, state |-> "shutting_down", stage |-> 1, ponr |-> FALSE,
                postRun |-> FALSE, aborted |-> FALSE, pre |-> up]
    BY <1>1 DEF Trigger, NoSequence
  <2>2. nextId \in 0..MaxSeq /\ 1 \in 1..(NumStages + 1) /\ nextId \in SeqIds
    BY <1>1, ConfigAssumption DEF Trigger, SeqIds, NumStages
  <2>3. up \in SUBSET Clients
    OBVIOUS
  <2>4. seq' \in Sequence /\ seq'.id \in SeqIds
    <3> HIDE DEF up, TypeInv
    <3> QED
      BY <2>1, <2>2, <2>3 DEF Sequence, LiveStates
  <2> QED
    BY <1>1, <2>4, ConfigAssumption, SMTT(40)
       DEF Trigger, NoRequest, Locations, SeqIds, NumStages, ShutdownTasks, WakeTasks
<1>2. CASE RequestAbort
  BY <1>2 DEF RequestAbort, control
<1>3. CASE RequestProceed
  BY <1>3 DEF RequestProceed, control
<1>4. CASE \E m \in Modes : SetMode(m)
  BY <1>4, EnvironmentAssumption DEF SetMode
<1> QED
  BY <1>1, <1>2, <1>3, <1>4

LEMMA StagesTyped ==
    ASSUME TypeInv,
           \/ ExecuteSequence \/ EnterStage
           \/ WhenHolds \/ StageForced \/ StageAborted \/ StageSkipped \/ StageHeld
           \/ CrossPonr \/ DispatchStage \/ JoinStage
    PROVE  TypeInv'
<1> USE DEF TypeInv, TypeOK, Located, Locations
<1>0. /\ NumStages \in Nat /\ StageIds = 1..NumStages
      /\ \A i \in StageIds : i \in 1..(NumStages + 1) /\ i + 1 \in 1..(NumStages + 1)
      /\ Sound(db)' => db' \in Database
      /\ Sound(disk)' => disk' \in Database
  BY ConfigAssumption DEF NumStages, StageIds, Sound
<1>1. CASE ExecuteSequence
  <2>1. Sound(db)' /\ Sound(disk)'
    BY <1>1, SaveSequenceSound, CommitSound DEF ExecuteSequence
  <2> QED
    BY <1>1, <2>1, <1>0 DEF ExecuteSequence, control, world
<1>2. CASE EnterStage
  <2>1. seq' \in Sequence /\ seq'.id = seq.id
    BY <1>2, SequenceMoves, <1>0 DEF EnterStage, SameRun
  <2>2. Sound(db)' /\ Sound(disk)'
    BY <1>2, <2>1, SaveSequenceSound, CommitSound DEF EnterStage
  <2> QED
    BY <1>2, <2>1, <2>2, <1>0 DEF EnterStage, control, world
<1>3. CASE WhenHolds \/ StageForced \/ StageAborted \/ StageHeld
  <2>1. Sound(db)' /\ Sound(disk)'
    BY <1>3, UnchangedSound DEF WhenHolds, StageForced, StageAborted, StageHeld
  <2> QED
    BY <1>3, <2>1, <1>0
       DEF WhenHolds, StageForced, StageAborted, StageHeld, Proceeding, control, world
<1>4. CASE StageSkipped
  <2>1. Sound(db)' /\ Sound(disk)'
    BY <1>4, SaveStageSound, CommitSound DEF StageSkipped
  <2> QED
    BY <1>4, <2>1, <1>0 DEF StageSkipped, world
<1>5. CASE CrossPonr
  <2>1. seq' \in Sequence /\ seq'.id = seq.id
    BY <1>5, SequenceUpdates DEF CrossPonr
  <2>2. Sound(db)' /\ Sound(disk)'
    BY <1>5, <2>1, SaveSequenceSound, DurablySound DEF CrossPonr
  <2> QED
    BY <1>5, <2>1, <2>2, <1>0 DEF CrossPonr, control, world
<1>6. CASE DispatchStage
  <2>1. Sound(db)' /\ Sound(disk)'
    BY <1>6, SaveStageSound, CommitSound DEF DispatchStage
  <2>2. /\ task' \in [Clients -> Tasks]
        /\ \A c \in Clients : task'[c] \notin WakeTasks
    BY <1>6 DEF DispatchStage, Tasks, ShutdownTasks, WakeTasks
  <2> QED
    BY <1>6, <2>1, <2>2, <1>0 DEF DispatchStage, world
<1>7. CASE JoinStage
  <2>1. Sound(db)' /\ Sound(disk)'
    BY <1>7, SaveStageSound, CommitSound DEF JoinStage
  <2>2. /\ task' \in [Clients -> Tasks]
        /\ \A c \in Clients : task'[c] \notin ShutdownTasks \cup WakeTasks
    BY <1>7 DEF JoinStage, Tasks, ShutdownTasks, WakeTasks
  <2> QED
    BY <1>7, <2>1, <2>2, <1>0 DEF JoinStage, world
<1> QED
  BY <1>1, <1>2, <1>3, <1>4, <1>5, <1>6, <1>7

\* A client task moves on without touching the sequence.
LEMMA TaskMoves ==
    ASSUME TypeInv, Sound(db)', Sound(disk)', client' \in [Clients -> ClientStates],
           NEW c \in Clients, NEW from, NEW to \in Tasks,
           \/ /\ ShutdownStep(c, from, to)
              /\ from \in ShutdownTasks /\ to \in ShutdownTasks
           \/ /\ WakeStep(c, from, to) /\ attempt' \in 0..Retries
              /\ from \in WakeTasks /\ to \in WakeTasks
           \/ /\ WakeEnds(c, from) /\ from \in WakeTasks
    PROVE  /\ Located'
           /\ pc' \in Locations /\ seq' \in Sequence
           /\ req' \in [abort : BOOLEAN, proceed : BOOLEAN]
           /\ stage' \in 1..(NumStages + 1) /\ task' \in [Clients -> Tasks]
           /\ visited' \in SUBSET Clients /\ attempt' \in 0..Retries
           /\ mode' \in AllModes /\ nextId' \in 1..(MaxSeq + 1)
           /\ probe' = probe
           /\ db' \in Database /\ disk' \in Database
<1> USE DEF TypeInv, TypeOK, Located
<1>0. db' \in Database /\ disk' \in Database
  BY DEF Sound
<1>1. CASE ShutdownStep(c, from, to) /\ from \in ShutdownTasks /\ to \in ShutdownTasks
  BY <1>0, <1>1 DEF ShutdownStep, ShutdownTasks, WakeTasks
<1>2. CASE WakeStep(c, from, to) /\ attempt' \in 0..Retries
           /\ from \in WakeTasks /\ to \in WakeTasks
  BY <1>0, <1>2 DEF WakeStep, ShutdownTasks, WakeTasks
<1>3. CASE WakeEnds(c, from) /\ from \in WakeTasks
  BY <1>0, <1>3, ConfigAssumption DEF WakeEnds, ShutdownTasks, WakeTasks, Tasks
<1> QED
  BY <1>1, <1>2, <1>3

LEMMA ShutdownClientTyped ==
    ASSUME TypeInv, NEW c \in Clients, ShutdownClient(c)
    PROVE  TypeInv'
<1> USE DEF TypeInv
<1>0. task[c] \in ShutdownTasks => pc = "join" /\ seq.id \in SeqIds /\ stage \in StageIds
  BY DEF Located
<1>1. CASE NoTransport(c)
  <2>1. client' \in [Clients -> ClientStates] /\ Sound(db)' /\ Sound(disk)'
    BY <1>1, SetClientStateSound DEF NoTransport, ClientStates
  <2> QED
    BY <1>1, <2>1, TaskMoves
       DEF NoTransport, TypeOK, Tasks, ShutdownTasks, world
<1>2. CASE LockClient(c)
  <2>1. client' \in [Clients -> ClientStates] /\ Sound(db)' /\ Sound(disk)'
    BY <1>2, <1>0, LocksSound, CommitSound
       DEF LockClient, ShutdownStep, ShutdownTasks, TypeOK
  <2> QED
    BY <1>2, <2>1, TaskMoves DEF LockClient, TypeOK, Tasks, ShutdownTasks, world
<1>3. CASE LockRefused(c)
  <2>1. client' \in [Clients -> ClientStates] /\ Sound(db)' /\ Sound(disk)'
    BY <1>3, UnchangedSound DEF LockRefused, TypeOK
  <2> QED
    BY <1>3, <2>1, TaskMoves DEF LockRefused, TypeOK, Tasks, ShutdownTasks, world
<1>4. CASE JournalIntent(c)
  <2>1. client' \in [Clients -> ClientStates] /\ Sound(db)' /\ Sound(disk)'
    BY <1>4, <1>0, SaveIntentSound, DurablySound
       DEF JournalIntent, ShutdownStep, ShutdownTasks, TypeOK, IntentStates
  <2> QED
    BY <1>4, <2>1, TaskMoves DEF JournalIntent, TypeOK, Tasks, ShutdownTasks, world
<1>5. CASE MarkShuttingDown(c)
  <2>1. client' \in [Clients -> ClientStates] /\ Sound(db)' /\ Sound(disk)'
    BY <1>5, SetClientStateSound DEF MarkShuttingDown, ClientStates
  <2>2. CASE mode = "dry_run"
    BY <1>5, <2>1, <2>2, TaskMoves
       DEF MarkShuttingDown, TypeOK, Tasks, ShutdownTasks, world
  <2>3. CASE mode # "dry_run"
    BY <1>5, <2>1, <2>3, TaskMoves
       DEF MarkShuttingDown, TypeOK, Tasks, ShutdownTasks, world
  <2> QED
    BY <2>2, <2>3
<1>6. CASE ExecuteShutdown(c)
  <2>1. client' \in [Clients -> ClientStates] /\ Sound(db)' /\ Sound(disk)'
    BY <1>6, UnchangedSound DEF ExecuteShutdown, TypeOK
  <2>2. told' \in [SeqIds -> SUBSET (StageIds \X Clients)]
    BY <1>6, <1>0 DEF ExecuteShutdown, ShutdownStep, TypeOK, ShutdownTasks
  <2>3. host' \in [Clients -> {"on", "stopping", "off"}]
    BY <1>6 DEF ExecuteShutdown, TypeOK
  <2> QED
    BY <1>6, <2>1, <2>2, <2>3, TaskMoves
       DEF ExecuteShutdown, TypeOK, Tasks, ShutdownTasks
<1>7. CASE RecordDispatched(c)
  <2>1. client' \in [Clients -> ClientStates] /\ Sound(db)' /\ Sound(disk)'
    BY <1>7, <1>0, SaveIntentSound, CommitSound
       DEF RecordDispatched, ShutdownStep, ShutdownTasks, TypeOK, IntentStates
  <2> QED
    BY <1>7, <2>1, TaskMoves DEF RecordDispatched, TypeOK, Tasks, ShutdownTasks, world
<1>8. CASE DryRunDown(c)
  <2>1. client' \in [Clients -> ClientStates] /\ Sound(db)' /\ Sound(disk)'
    BY <1>8, SetClientStateSound DEF DryRunDown, ClientStates
  <2> QED
    BY <1>8, <2>1, TaskMoves DEF DryRunDown, TypeOK, Tasks, ShutdownTasks, world
<1>9. CASE AwaitClientDown(c)
  <2>1. client' \in [Clients -> ClientStates] /\ Sound(db)' /\ Sound(disk)'
    BY <1>9, SetClientStateSound DEF AwaitClientDown, ClientStates
  <2> QED
    BY <1>9, <2>1, TaskMoves DEF AwaitClientDown, TypeOK, Tasks, ShutdownTasks, world
<1> QED
  BY <1>1, <1>2, <1>3, <1>4, <1>5, <1>6, <1>7, <1>8, <1>9 DEF ShutdownClient

LEMMA WakeClientTyped ==
    ASSUME TypeInv, NEW c \in Clients, WakeClient(c)
    PROVE  TypeInv'
<1> USE DEF TypeInv
<1>0. task[c] \in WakeTasks => pc = "wake" /\ seq.id \in SeqIds
  BY DEF Located
<1>1. CASE GuardPassed(c)
  <2>1. client' \in [Clients -> ClientStates] /\ Sound(db)' /\ Sound(disk)'
    BY <1>1, UnchangedSound DEF GuardPassed, TypeOK
  <2> QED
    BY <1>1, <2>1, TaskMoves DEF GuardPassed, TypeOK, Tasks, WakeTasks, world
<1>2. CASE NoWakeTransport(c) \/ DryRunUp(c) \/ WakeVerified(c) \/ WakeFailed(c)
  <2>1. client' \in [Clients -> ClientStates] /\ Sound(db)' /\ Sound(disk)'
    BY <1>2, SetClientStateSound
       DEF NoWakeTransport, DryRunUp, WakeVerified, WakeFailed, ClientStates
  <2>2. "idle" \in Tasks
    BY DEF Tasks
  <2> QED
    BY <1>2, <2>1, <2>2, TaskMoves
       DEF NoWakeTransport, DryRunUp, WakeVerified, WakeFailed, TypeOK, WakeTasks, world
<1>3. CASE MarkWaking(c)
  <2>1. client' \in [Clients -> ClientStates] /\ Sound(db)' /\ Sound(disk)'
    BY <1>3, SetClientStateSound DEF MarkWaking, ClientStates
  <2>2. CASE mode = "dry_run"
    BY <1>3, <2>1, <2>2, TaskMoves DEF MarkWaking, TypeOK, Tasks, WakeTasks, world
  <2>3. CASE mode # "dry_run"
    BY <1>3, <2>1, <2>3, TaskMoves DEF MarkWaking, TypeOK, Tasks, WakeTasks, world
  <2> QED
    BY <2>2, <2>3
<1>4. CASE ExecuteWake(c)
  <2>1. client' \in [Clients -> ClientStates] /\ Sound(db)' /\ Sound(disk)'
    BY <1>4, SetClientStateSound, UnchangedSound DEF ExecuteWake, ClientStates, TypeOK
  <2>2. /\ woken' \in [SeqIds -> SUBSET Clients]
        /\ host' \in [Clients -> {"on", "stopping", "off"}]
        /\ UNCHANGED <<told, cuts, calledOff>>
    BY <1>4, ZenonT(60) DEF ExecuteWake, WakeCommand, TypeOK
  <2>3. CASE c \in Unverifiable
    BY <1>4, <2>1, <2>2, <2>3, TaskMoves DEF ExecuteWake, TypeOK, Tasks, WakeTasks
  <2>4. CASE c \notin Unverifiable
    BY <1>4, <2>1, <2>2, <2>4, TaskMoves DEF ExecuteWake, TypeOK, Tasks, WakeTasks
  <2> QED
    BY <2>3, <2>4
<1>5. CASE VerifyAbandoned(c)
  <2>1. client' \in [Clients -> ClientStates] /\ Sound(db)' /\ Sound(disk)'
    BY <1>5, UnchangedSound DEF VerifyAbandoned, TypeOK
  <2> QED
    BY <1>5, <2>1, TaskMoves DEF VerifyAbandoned, TypeOK, Tasks, WakeTasks, world
<1>6. CASE WakeRetry(c)
  <2>1. client' \in [Clients -> ClientStates] /\ Sound(db)' /\ Sound(disk)'
    BY <1>6, UnchangedSound DEF WakeRetry, TypeOK
  <2>2. attempt' \in 0..Retries
    BY <1>6, ConfigAssumption DEF WakeRetry, TypeOK
  <2> QED
    BY <1>6, <2>1, <2>2, TaskMoves DEF WakeRetry, TypeOK, Tasks, WakeTasks, world
<1> QED
  BY <1>1, <1>2, <1>3, <1>4, <1>5, <1>6 DEF WakeClient

LEMMA ClosingTyped ==
    ASSUME TypeInv,
           \/ ClaimPostShutdown \/ SkipPostShutdown \/ ExecutePostShutdown
           \/ SavePostShutdown \/ ToWakeGate \/ HandleAbort \/ AllSettled
           \/ \E c \in Clients : SettleTimeout(c)
           \/ CloseSequence \/ ReleaseSequence
    PROVE  TypeInv'
<1> USE DEF TypeInv, TypeOK, Located, Locations
<1>0. /\ Sound(db)' => db' \in Database
      /\ Sound(disk)' => disk' \in Database
  BY DEF Sound
<1>1. CASE ClaimPostShutdown
  <2>1. seq' \in Sequence /\ seq'.id = seq.id
    BY <1>1, SequenceMoves DEF ClaimPostShutdown, SameRun
  <2>2. Sound(db)' /\ Sound(disk)'
    BY <1>1, UnchangedSound DEF ClaimPostShutdown
  <2> QED
    BY <1>0, <1>1, <2>1, <2>2 DEF ClaimPostShutdown, control, world
<1>2. CASE SkipPostShutdown \/ ExecutePostShutdown
  <2>1. Sound(db)' /\ Sound(disk)'
    BY <1>2, UnchangedSound DEF SkipPostShutdown, ExecutePostShutdown
  <2>2. cuts' \in [SeqIds -> 0..2]
    BY <1>2 DEF SkipPostShutdown, ExecutePostShutdown, world
  <2> QED
    BY <1>0, <1>2, <2>1, <2>2 DEF SkipPostShutdown, ExecutePostShutdown, control, world
<1>3. CASE SavePostShutdown
  <2>1. Sound(db)' /\ Sound(disk)'
    BY <1>3, SaveSequenceSound, CommitSound DEF SavePostShutdown
  <2> QED
    BY <1>0, <1>3, <2>1 DEF SavePostShutdown, control, world
<1>4. CASE ToWakeGate \/ AllSettled \/ HandleAbort \/ CloseSequence
  <2>1. seq' \in Sequence /\ seq'.id = seq.id
    BY <1>4, SequenceMoves
       DEF ToWakeGate, AllSettled, HandleAbort, CloseSequence, SameRun, States,
           LiveStates, FinalStates
  <2>2. Sound(db)' /\ Sound(disk)'
    BY <1>4, <2>1, SaveSequenceSound, CommitSound
       DEF ToWakeGate, AllSettled, HandleAbort, CloseSequence
  <2> QED
    BY <1>0, <1>4, <2>1, <2>2
       DEF ToWakeGate, AllSettled, HandleAbort, CloseSequence, control, world
<1>5. ASSUME NEW c \in Clients, SettleTimeout(c) PROVE TypeInv'
  <2>1. client' \in [Clients -> ClientStates] /\ Sound(db)' /\ Sound(disk)'
    BY <1>5, SetClientStateSound DEF SettleTimeout, ClientStates
  <2> QED
    BY <1>0, <1>5, <2>1 DEF SettleTimeout, control, world
<1>6. CASE ReleaseSequence
  <2>1. Sound(db)' /\ Sound(disk)'
    BY <1>6, LocksSound, CommitSound DEF ReleaseSequence
  <2>2. NoSequence \in Sequence /\ 1 \in 1..(NumStages + 1)
    BY ConfigAssumption DEF NoSequence, Sequence, NumStages
  <2> QED
    BY <1>0, <1>6, <2>1, <2>2 DEF ReleaseSequence, NoRequest, world
<1> QED
  BY <1>1, <1>2, <1>3, <1>4, <1>5, <1>6

LEMMA WakeLoopTyped ==
    ASSUME TypeInv,
           \/ GateOpens \/ GateAbandoned \/ WakeAbandoned \/ WakeFinished
           \/ \E c \in Clients : SpareClient(c) \/ DependencyDown(c) \/ BeginWake(c)
    PROVE  TypeInv'
<1> USE DEF TypeInv, TypeOK, Located, Locations
<1>0. /\ Sound(db)' => db' \in Database
      /\ Sound(disk)' => disk' \in Database
  BY DEF Sound
<1>1. CASE GateOpens
  <2>1. seq' \in Sequence /\ seq'.id = seq.id
    BY <1>1, SequenceMoves DEF GateOpens, SameRun, States, LiveStates
  <2>2. Sound(db)' /\ Sound(disk)'
    BY <1>1, <2>1, SaveSequenceSound, CommitSound DEF GateOpens
  <2> QED
    BY <1>0, <1>1, <2>1, <2>2 DEF GateOpens, world
<1>2. CASE GateAbandoned \/ WakeAbandoned
  <2>1. seq' \in Sequence /\ seq'.id = seq.id
    BY <1>2, SequenceMoves DEF GateAbandoned, WakeAbandoned, SameRun
  <2>2. Sound(db)' /\ Sound(disk)'
    BY <1>2, UnchangedSound DEF GateAbandoned, WakeAbandoned
  <2> QED
    BY <1>0, <1>2, <2>1, <2>2
       DEF GateAbandoned, WakeAbandoned, NoWakeInFlight, ShutdownTasks, WakeTasks,
           control, world
<1>3. CASE WakeFinished
  <2>1. Sound(db)' /\ Sound(disk)'
    BY <1>3, UnchangedSound DEF WakeFinished
  <2> QED
    BY <1>0, <1>3, <2>1
       DEF WakeFinished, NoWakeInFlight, ShutdownTasks, WakeTasks, control, world
<1>4. ASSUME NEW c \in Clients, SpareClient(c) \/ DependencyDown(c) \/ BeginWake(c)
      PROVE  TypeInv'
  <2>1. client' \in [Clients -> ClientStates] /\ Sound(db)' /\ Sound(disk)'
    BY <1>4, UnchangedSound, SetClientStateSound
       DEF SpareClient, DependencyDown, BeginWake, ClientStates
  <2>2. CASE SpareClient(c) \/ DependencyDown(c)
    BY <1>0, <2>1, <2>2 DEF SpareClient, DependencyDown, WakeTurn, world
  <2>3. CASE BeginWake(c)
    <3>1. task' \in [Clients -> Tasks]
      BY <2>3 DEF BeginWake, Tasks, WakeTasks
    <3>2. pc = "wake" /\ \A x \in Clients : task'[x] \notin ShutdownTasks
      BY <2>3 DEF BeginWake, WakeTurn, ShutdownTasks
    <3> QED
      BY <1>0, <2>1, <2>3, <3>1, <3>2 DEF BeginWake, world
  <2> QED
    BY <1>4, <2>2, <2>3
<1> QED
  BY <1>1, <1>2, <1>3, <1>4

LEMMA RestartTyped ==
    ASSUME TypeInv,
           \/ Crash \/ PowerLoss \/ Checkpoint
           \/ StartIdle \/ StartOrphan \/ StartResume
           \/ ResumeStages \/ Reconciled
           \/ \E c \in Clients : Reconcile(c) \/ RecordReconciled(c)
    PROVE  TypeInv'
<1> USE DEF TypeInv, TypeOK, Located, Locations
<1>0. /\ Sound(db)' => db' \in Database
      /\ Sound(disk)' => disk' \in Database
      /\ Newest(ActiveRows(db)) \in SeqIds \/ ActiveRows(db) = {}
      /\ ActiveRows(db) # {} => db.row[Newest(ActiveRows(db))].state \in LiveStates
  BY NewestExists, SMTT(40) DEF Sound, ActiveRows
<1>1. CASE Crash \/ PowerLoss
  <2>1. Sound(db)' /\ Sound(disk)'
    BY <1>1 DEF Crash, PowerLoss, store, Sound, WellKeyed
  <2>2. NoSequence \in Sequence /\ 1 \in 1..(NumStages + 1) /\ 0 \in 0..Retries
    BY ConfigAssumption DEF NoSequence, Sequence, NumStages
  <2>3. Dies
    BY <1>1 DEF Crash, PowerLoss
  <2>4. /\ task' \in [Clients -> Tasks] /\ client' \in [Clients -> ClientStates]
        /\ \A c \in Clients : task'[c] \notin ShutdownTasks \cup WakeTasks
    BY <2>3 DEF Dies, Tasks, ClientStates, ShutdownTasks, WakeTasks
  <2> QED
    BY <1>0, <2>1, <2>2, <2>3, <2>4 DEF Dies, NoRequest, world
<1>2. CASE Checkpoint
  <2>1. Sound(db)' /\ Sound(disk)'
    BY <1>2 DEF Checkpoint, Sound, WellKeyed
  <2> QED
    BY <1>0, <1>2, <2>1 DEF Checkpoint, memory, world
<1>3. CASE StartIdle
  <2>1. Sound(db)' /\ Sound(disk)'
    BY <1>3, UnchangedSound DEF StartIdle
  <2>2. client' \in [Clients -> ClientStates]
    BY <1>3 DEF StartIdle, Restarting, Database
  <2> QED
    BY <1>0, <1>3, <2>1, <2>2, EnvironmentAssumption DEF StartIdle, Restarting, world
<1>4. CASE StartOrphan
  <2>1. Sound(db)' /\ Sound(disk)'
    BY <1>0, <1>4, FailOrphanedSound, CommitSound DEF StartOrphan, LiveStates
  <2>2. client' \in [Clients -> ClientStates]
    BY <1>4 DEF StartOrphan, Restarting, Database
  <2> QED
    BY <1>0, <1>4, <2>1, <2>2, EnvironmentAssumption DEF StartOrphan, Restarting, world
<1>5. CASE StartResume
  <2>1. Sound(db)' /\ Sound(disk)'
    BY <1>5, UnchangedSound DEF StartResume
  <2>2. client' \in [Clients -> ClientStates]
    BY <1>5 DEF StartResume, Restarting, Database
  <2>3. seq' \in Sequence /\ seq'.id \in SeqIds
    BY <1>0, <1>5 DEF StartResume, Sound, WellKeyed, Database, LiveStates
  <2>4. pc' \in {"settle", "gate", "resume"}
    BY <1>5 DEF StartResume
  <2> QED
    BY <1>0, <1>5, <2>1, <2>2, <2>3, <2>4, EnvironmentAssumption
       DEF StartResume, Restarting, world
<1>6. CASE ResumeStages
  <2>1. Sound(db)' /\ Sound(disk)'
    BY <1>6, UnchangedSound DEF ResumeStages
  <2>2. db.done[seq.id] \in SUBSET StageIds
    BY <1>6 DEF ResumeStages, Database
  <2>3. stage' \in 1..(NumStages + 1)
    BY <1>6, <2>2, ResumeAtExists DEF ResumeStages
  <2>4. seq' \in Sequence /\ seq'.id = seq.id
    BY <1>6, <2>3, SequenceMoves DEF ResumeStages, SameRun
  <2> QED
    BY <1>0, <1>6, <2>1, <2>3, <2>4 DEF ResumeStages, world
<1>7. CASE Reconciled
  <2>1. Sound(db)' /\ Sound(disk)'
    BY <1>7, UnchangedSound DEF Reconciled
  <2> QED
    BY <1>0, <1>7, <2>1 DEF Reconciled, control, world
<1>8. ASSUME NEW c \in Clients, Reconcile(c) PROVE TypeInv'
  <2>1. PICK s \in {"down_unverified"} \cup (IF c \in Blind THEN {} ELSE Reports(c)) :
          SetClientState(c, s)
    BY <1>8 DEF Reconcile
  <2>2. s \in ClientStates
    BY DEF Reports, ClientStates
  <2>3. client' \in [Clients -> ClientStates] /\ Sound(db)' /\ Sound(disk)'
    BY <2>1, <2>2, SetClientStateSound
  <2>4. task' \in [Clients -> Tasks]
    BY <1>8 DEF Reconcile, Tasks
  <2>5. \A x \in Clients : task'[x] \notin ShutdownTasks \cup WakeTasks
    BY <1>8 DEF Reconcile, ShutdownTasks, WakeTasks
  <2> QED
    BY <1>0, <1>8, <2>3, <2>4, <2>5 DEF Reconcile, world
<1>9. ASSUME NEW c \in Clients, RecordReconciled(c) PROVE TypeInv'
  <2>1. Sound(SaveIntent(db, seq.id, c, "reconciled"))
    BY <1>9, SaveIntentSound DEF RecordReconciled, IntentStates
  <2>2. Sound(db)' /\ Sound(disk)'
    BY <1>9, <2>1, CommitSound DEF RecordReconciled
  <2>3. task' \in [Clients -> Tasks]
    BY <1>9 DEF RecordReconciled, Tasks
  <2>4. \A x \in Clients : task'[x] \notin ShutdownTasks \cup WakeTasks
    BY <1>9 DEF RecordReconciled, ShutdownTasks, WakeTasks
  <2> QED
    BY <1>0, <1>9, <2>2, <2>3, <2>4 DEF RecordReconciled, world
<1> QED
  BY <1>1, <1>2, <1>3, <1>4, <1>5, <1>6, <1>7, <1>8, <1>9

LEMMA ProbeTyped ==
    ASSUME TypeInv,
           \/ ProbeDecides \/ ProbeWrites
           \/ \E c \in Clients : ProbeAnswers(c) \/ HostStops(c)
    PROVE  TypeInv'
<1> USE DEF TypeInv, TypeOK, Located
<1>0. /\ Sound(db)' => db' \in Database
      /\ Sound(disk)' => disk' \in Database
  BY DEF Sound
<1>1. probe.step \in {"seen", "write"} =>
        probe \in [step : {"seen", "write"}, who : Clients, saw : {"up", "down"}]
  BY DEF NoProbe
<1>2. CASE ProbeDecides
  <2>1. Sound(db)' /\ Sound(disk)'
    BY <1>2, UnchangedSound DEF ProbeDecides
  <2>2. probe' \in {NoProbe} \cup
          [step : {"seen", "write"}, who : Clients, saw : {"up", "down"}]
    BY <1>1, <1>2 DEF ProbeDecides
  <2> QED
    BY <1>0, <1>2, <2>1, <2>2 DEF ProbeDecides, world
<1>3. CASE ProbeWrites
  <2>1. client' \in [Clients -> ClientStates] /\ Sound(db)' /\ Sound(disk)'
    BY <1>1, <1>3, SetClientStateSound DEF ProbeWrites, ClientStates
  <2> QED
    BY <1>0, <1>3, <2>1 DEF ProbeWrites, world
<1>4. ASSUME NEW c \in Clients, ProbeAnswers(c) PROVE TypeInv'
  <2>1. Sound(db)' /\ Sound(disk)'
    BY <1>4, UnchangedSound DEF ProbeAnswers
  <2>2. Reports(c) \subseteq {"up", "down"}
    BY DEF Reports
  <2>3. probe' \in [step : {"seen", "write"}, who : Clients, saw : {"up", "down"}]
    BY <1>4, <2>2 DEF ProbeAnswers
  <2> QED
    BY <1>0, <1>4, <2>1, <2>3 DEF ProbeAnswers, world
<1>5. ASSUME NEW c \in Clients, HostStops(c) PROVE TypeInv'
  <2>1. Sound(db)' /\ Sound(disk)'
    BY <1>5, UnchangedSound DEF HostStops
  <2> QED
    BY <1>0, <1>5, <2>1 DEF HostStops, memory
<1> QED
  BY <1>2, <1>3, <1>4, <1>5

LEMMA TypeInvStep == TypeInv /\ [Next]_vars => TypeInv'
<1> SUFFICES ASSUME TypeInv, [Next]_vars PROVE TypeInv'
  OBVIOUS
<1>1. CASE SequenceStep
  BY <1>1, StagesTyped, ClosingTyped, WakeLoopTyped, RestartTyped DEF SequenceStep
<1>2. CASE UNCHANGED vars
  BY <1>2 DEF vars, memory, store, world, TypeInv, TypeOK, Located, Sound, WellKeyed
<1> QED
  BY <1>1, <1>2, OperatorTyped, ShutdownClientTyped, WakeClientTyped, ProbeTyped,
     RestartTyped DEF Next

\* Every reachable state is of the declared types: in particular a resumed
\* sequence finds its own row, and the stage index never leaves the plan where
\* the code indexes with it (runShutdownStages, resumeSequence).
THEOREM TypeCorrect == Spec => []TypeOK
<1>1. TypeInv => TypeOK
  BY DEF TypeInv
<1> QED
  BY <1>1, TypeInvInit, TypeInvStep, PTL DEF Spec

------------------------------------------------------------------------------
(* What the records guarantee.  RecordInv is the inductive strengthening of  *)
(* the three invariants proved below: it says of the committed database and  *)
(* of what a power cut would leave that each backs every command sent and    *)
(* every command about to be sent.                                           *)

Active == pc \notin {"off", "idle"}
InStages == pc \in {"start", "reconcile", "enter", "wait", "cross", "dispatch", "join"}

\* Tasks past the durable write of their intent.
Committed == {"mark", "execute", "record", "await", "dry_record", "dry_down"}

\* Row, stage records and intents in d back what sequence s sends to client c
\* for stage i.
Backs(d, s, i, c) ==
    /\ d.intent[s][c] # "none"
    /\ 1..(i - 1) \subseteq d.done[s]

BacksAll(d) ==
    /\ \A s \in SeqIds : \A t \in told[s] :
          /\ Backs(d, s, t[1], t[2])
          /\ t[1] \in PonrStages => d.row[s].ponr
    /\ \A c \in Clients : task[c] \in Committed => Backs(d, seq.id, stage, c)
    /\ \A s \in SeqIds : s >= nextId => d.row[s] = NoSequence

\* An id not given out yet has no trace; the active one has been given out.
Fresh ==
    /\ \A s \in SeqIds : s >= nextId => told[s] = {}
    /\ Active => seq.id < nextId

\* Memory, database and disk agree on the point of no return at all times.
PonrAgrees ==
    /\ \A s \in SeqIds : db.row[s].ponr = disk.row[s].ponr
    /\ Active => seq.ponr = db.row[seq.id].ponr
    /\ pc \in {"dispatch", "join"} /\ stage \in PonrStages => seq.ponr

\* The stage loop stands behind every stage it has acted on.
LoopPosition ==
    InStages => /\ 1..(stage - 1) \subseteq db.done[seq.id]
                /\ \A t \in told[seq.id] : t[1] <= stage

RecordInv == BacksAll(db) /\ BacksAll(disk) /\ Fresh /\ PonrAgrees /\ LoopPosition

\* e keeps everything of d that a command relies on; rows from n on are as
\* they were.
Keeps(d, e, n) ==
    /\ \A s \in SeqIds : /\ e.row[s].ponr = d.row[s].ponr
                         /\ s >= n => e.row[s] = d.row[s]
                         /\ d.done[s] \subseteq e.done[s]
                         /\ \A c \in Clients :
                              d.intent[s][c] # "none" => e.intent[s][c] # "none"

\* A step that sends nothing, forgets nothing and lets nothing new be sent.
Quiet ==
    /\ UNCHANGED <<told, nextId>>
    /\ Keeps(db, db', nextId)
    /\ disk' = disk \/ disk' = db'
    /\ Active' => Active /\ seq'.id = seq.id /\ seq'.ponr = seq.ponr
    /\ InStages' => InStages /\ stage' = stage
    /\ \A c \in Clients : task'[c] \in Committed => task[c] \in Committed /\ pc' = "join"
    /\ pc' \in {"dispatch", "join"} =>
          pc \in {"dispatch", "join"} \/ stage \notin PonrStages \/ seq.ponr

LEMMA QuietStep ==
    ASSUME TypeInv, TypeInv', RecordInv, Quiet
    PROVE  RecordInv'
<1> USE DEF RecordInv, TypeInv
<1>1. \A c \in Clients : task'[c] \in Committed =>
         task[c] \in Committed /\ seq'.id = seq.id /\ stage' = stage /\ seq.id \in SeqIds
  BY DEF Quiet, Active, InStages, Located
<1>2. \A s \in SeqIds : told[s] \subseteq StageIds \X Clients
  BY DEF TypeOK
<1>3. BacksAll(db)'
  <2>1. ASSUME NEW s \in SeqIds, NEW t \in told'[s]
        PROVE  /\ Backs(db', s, t[1], t[2])
               /\ t[1] \in PonrStages => db'.row[s].ponr
    BY <1>2, <2>1 DEF Quiet, Keeps, BacksAll, Backs
  <2>2. ASSUME NEW c \in Clients, task'[c] \in Committed
        PROVE  Backs(db', seq'.id, stage', c)
    BY <1>1, <2>2 DEF Quiet, Keeps, BacksAll, Backs
  <2>3. \A s \in SeqIds : s >= nextId' => db'.row[s] = NoSequence
    BY DEF Quiet, Keeps, BacksAll
  <2> QED
    BY <2>1, <2>2, <2>3 DEF BacksAll
<1>4. BacksAll(disk)'
  <2>1. CASE disk' = db'
    BY <1>3, <2>1 DEF BacksAll
  <2>2. CASE disk' = disk
    BY <1>1, <2>2 DEF Quiet, BacksAll
  <2> QED
    BY <2>1, <2>2 DEF Quiet
<1>5. Fresh'
  BY DEF Quiet, Fresh
<1>6. PonrAgrees'
  BY DEF Quiet, Keeps, PonrAgrees, Located, InStages, Active
<1>7. LoopPosition'
  BY DEF Quiet, Keeps, LoopPosition, Located, InStages, Active
<1> QED
  BY <1>3, <1>4, <1>5, <1>6, <1>7

LEMMA KeepsSelf ==
    ASSUME NEW d, NEW n PROVE Keeps(d, d, n)
BY DEF Keeps

LEMMA KeepsSaveSequence ==
    ASSUME NEW d \in Database, NEW q \in Sequence, NEW n \in Nat,
           q.id \in SeqIds, q.id < n, q.ponr = d.row[q.id].ponr
    PROVE  Keeps(d, SaveSequence(d, q), n)
<1>1. /\ SaveSequence(d, q).row = [d.row EXCEPT ![q.id] = q]
      /\ SaveSequence(d, q).done = d.done /\ SaveSequence(d, q).intent = d.intent
  BY DEF SaveSequence, Database
<1>2. d.row \in [SeqIds -> Sequence] /\ \A s \in SeqIds : s \in Nat
  BY ConfigAssumption DEF Database, SeqIds
<1> QED
  BY <1>1, <1>2 DEF Keeps

LEMMA KeepsOthers ==
    ASSUME NEW d \in Database, NEW n
    PROVE  /\ \A c \in Clients : \A x \in ClientStates : Keeps(d, SaveClientState(d, c, x), n)
           /\ \A c \in Clients : \A s \in SeqIds : Keeps(d, AcquireClientLock(d, c, s), n)
           /\ \A s \in SeqIds : Keeps(d, ReleaseSequenceLocks(d, s), n)
BY DEF Keeps, SaveClientState, AcquireClientLock, ReleaseSequenceLocks, Database

LEMMA KeepsSaveIntent ==
    ASSUME NEW d \in Database, NEW n, NEW s \in SeqIds, NEW c \in Clients,
           NEW x \in IntentStates \ {"none"}
    PROVE  Keeps(d, SaveIntent(d, s, c, x), n)
<1>1. /\ SaveIntent(d, s, c, x).row = d.row /\ SaveIntent(d, s, c, x).done = d.done
      /\ SaveIntent(d, s, c, x).intent = [d.intent EXCEPT ![s][c] = x]
  BY DEF SaveIntent, Database
<1>2. d.intent \in [SeqIds -> [Clients -> IntentStates]]
  BY DEF Database
<1> QED
  BY <1>1, <1>2 DEF Keeps

LEMMA KeepsFailOrphaned ==
    ASSUME NEW d \in Database, NEW n \in Nat, NEW s \in SeqIds, s < n
    PROVE  Keeps(d, FailOrphanedSequence(d, s), n)
<1> DEFINE e == FailOrphanedSequence(d, s)
<1>1. /\ e.row = [d.row EXCEPT ![s].state = "failed"]
      /\ e.done = d.done
      /\ e.intent = [d.intent EXCEPT ![s] = [c \in Clients |->
                       IF d.intent[s][c] = "dispatching" THEN "reconciled" ELSE d.intent[s][c]]]
  BY DEF FailOrphanedSequence, ReleaseSequenceLocks, Database
<1>2. /\ d.row \in [SeqIds -> Sequence] /\ \A x \in SeqIds : x \in Nat
      /\ d.intent \in [SeqIds -> [Clients -> IntentStates]]
  BY ConfigAssumption DEF Database, SeqIds
<1> HIDE DEF e
<1>3. \A x \in SeqIds : /\ e.row[x].ponr = d.row[x].ponr
                        /\ x # s => e.row[x] = d.row[x]
  BY <1>1, <1>2 DEF Sequence
<1>4. \A x \in SeqIds : \A c \in Clients : d.intent[x][c] # "none" => e.intent[x][c] # "none"
  BY <1>1, <1>2
<1> QED
  BY <1>1, <1>2, <1>3, <1>4 DEF Keeps, e

\* The part of Quiet about the store.
StoreKept == Keeps(db, db', nextId) /\ (disk' = disk \/ disk' = db')

LEMMA CommitKept ==
    ASSUME NEW d, Keeps(db, d, nextId), Commit(d)
    PROVE  StoreKept
BY DEF StoreKept, Commit

LEMMA UnchangedKept ==
    ASSUME UNCHANGED store PROVE StoreKept
BY KeepsSelf DEF StoreKept, store

LEMMA ClientStateKept ==
    ASSUME TypeOK, NEW c \in Clients, NEW x \in ClientStates, SetClientState(c, x)
    PROVE  StoreKept
BY KeepsOthers, CommitKept DEF SetClientState, TypeOK

LEMMA SaveKept ==
    ASSUME TypeInv, RecordInv, Active, seq' \in Sequence, seq'.id = seq.id,
           seq'.ponr = seq.ponr, Commit(SaveSequence(db, seq'))
    PROVE  StoreKept
<1>1. nextId \in Nat /\ seq.id \in SeqIds /\ seq.id < nextId /\ db \in Database
      /\ seq.ponr = db.row[seq.id].ponr
  BY ConfigAssumption DEF TypeInv, TypeOK, Located, Active, RecordInv, Fresh, PonrAgrees
<1> QED
  BY <1>1, KeepsSaveSequence, CommitKept

\* Committed tasks are tasks of executeStage.
LEMMA CommittedInJoin ==
    ASSUME TypeInv, NEW c \in Clients, task[c] \in Committed
    PROVE  pc = "join"
BY DEF TypeInv, Located, Committed, ShutdownTasks

LEMMA OperatorQuiet ==
    ASSUME TypeInv, RecordInv,
           RequestAbort \/ RequestProceed \/ \E m \in Modes : SetMode(m)
    PROVE  Quiet
<1>1. StoreKept
  BY UnchangedKept DEF RequestAbort, RequestProceed, SetMode
<1> QED
  BY <1>1, CommittedInJoin
     DEF RequestAbort, RequestProceed, SetMode, Quiet, StoreKept, Active, InStages,
         control, world

LEMMA StagesQuiet ==
    ASSUME TypeInv, RecordInv,
           \/ ExecuteSequence \/ EnterStage
           \/ WhenHolds \/ StageForced \/ StageAborted \/ StageHeld
    PROVE  Quiet
<1> USE CommittedInJoin DEF Quiet, StoreKept, Active, InStages, control, world
<1>1. CASE ExecuteSequence
  <2>1. StoreKept
    BY <1>1, SaveKept DEF ExecuteSequence, TypeInv, TypeOK
  <2> QED
    BY <1>1, <2>1 DEF ExecuteSequence
<1>2. CASE EnterStage
  <2>1. SameRun(seq, seq')
    BY <1>2, SequenceMoves DEF EnterStage, TypeInv, TypeOK
  <2>2. StoreKept
    BY <1>2, <2>1, SaveKept DEF EnterStage, SameRun
  <2> QED
    BY <1>2, <2>1, <2>2 DEF EnterStage, SameRun
<1>3. CASE WhenHolds \/ StageForced \/ StageAborted \/ StageHeld
  <2>1. StoreKept
    BY <1>3, UnchangedKept DEF WhenHolds, StageForced, StageAborted, StageHeld
  <2> QED
    BY <1>3, <2>1 DEF WhenHolds, StageForced, StageAborted, StageHeld, Proceeding
<1> QED
  BY <1>1, <1>2, <1>3

\* Every step of shutdownClient but the two that matter: the durable write of
\* the intent and the command itself.
LEMMA ShutdownClientQuiet ==
    ASSUME TypeInv, RecordInv, NEW c \in Clients,
           \/ NoTransport(c) \/ LockClient(c) \/ LockRefused(c) \/ MarkShuttingDown(c)
           \/ RecordDispatched(c) \/ DryRunDown(c) \/ AwaitClientDown(c)
    PROVE  Quiet
<1>0. /\ task[c] \in ShutdownTasks => pc = "join" /\ seq.id \in SeqIds
      /\ TypeOK /\ db \in Database
  BY DEF TypeInv, TypeOK, Located
<1>1. StoreKept
  <2>1. CASE NoTransport(c) \/ MarkShuttingDown(c) \/ DryRunDown(c) \/ AwaitClientDown(c)
    BY <1>0, <2>1, ClientStateKept
       DEF NoTransport, MarkShuttingDown, DryRunDown, AwaitClientDown, ClientStates
  <2>2. CASE LockClient(c)
    BY <1>0, <2>2, KeepsOthers, CommitKept DEF LockClient, ShutdownStep, ShutdownTasks
  <2>3. CASE LockRefused(c)
    BY <2>3, UnchangedKept DEF LockRefused
  <2>4. CASE RecordDispatched(c)
    BY <1>0, <2>4, KeepsSaveIntent, CommitKept
       DEF RecordDispatched, ShutdownStep, ShutdownTasks, IntentStates
  <2> QED
    BY <2>1, <2>2, <2>3, <2>4
<1>2. /\ task[c] \in ShutdownTasks /\ UNCHANGED <<pc, seq, stage, nextId, told>>
      /\ \A x \in Clients : task'[x] \in Committed => task[x] \in Committed
  BY DEF NoTransport, LockClient, LockRefused, MarkShuttingDown, RecordDispatched,
         DryRunDown, AwaitClientDown, ShutdownStep, ShutdownTasks, Committed, world,
         TypeInv, TypeOK
<1> QED
  BY <1>0, <1>1, <1>2 DEF Quiet, StoreKept, Active, InStages

LEMMA WakeClientQuiet ==
    ASSUME TypeInv, RecordInv, NEW c \in Clients, WakeClient(c)
    PROVE  Quiet
<1>0. TypeOK
  BY DEF TypeInv
<1>1. StoreKept
  BY <1>0, ClientStateKept, UnchangedKept
     DEF WakeClient, GuardPassed, NoWakeTransport, MarkWaking, DryRunUp, ExecuteWake,
         WakeVerified, VerifyAbandoned, WakeRetry, WakeFailed, ClientStates
<1>2. /\ UNCHANGED <<pc, seq, stage, nextId, told>>
      /\ \A x \in Clients : task'[x] \in Committed => task[x] \in Committed
  BY DEF WakeClient, GuardPassed, NoWakeTransport, MarkWaking, DryRunUp, ExecuteWake,
         WakeVerified, VerifyAbandoned, WakeRetry, WakeFailed, WakeStep, WakeEnds,
         WakeCommand, Committed, world, TypeInv, TypeOK
<1> QED
  BY <1>1, <1>2, CommittedInJoin DEF Quiet, StoreKept, Active, InStages

LEMMA ClosingQuiet ==
    ASSUME TypeInv, RecordInv,
           \/ ClaimPostShutdown \/ SkipPostShutdown \/ ExecutePostShutdown
           \/ SavePostShutdown \/ ToWakeGate \/ HandleAbort \/ AllSettled
           \/ \E c \in Clients : SettleTimeout(c)
           \/ CloseSequence \/ ReleaseSequence
    PROVE  Quiet
<1> USE CommittedInJoin DEF Quiet, StoreKept, Active, InStages, control, world
<1>0. TypeOK /\ seq \in Sequence /\ db \in Database
      /\ (pc \notin {"off", "idle"} => seq.id \in SeqIds)
  BY DEF TypeInv, TypeOK, Located
<1>1. CASE ClaimPostShutdown
  <2>1. SameRun(seq, seq') /\ StoreKept
    BY <1>0, <1>1, SequenceMoves, UnchangedKept DEF ClaimPostShutdown
  <2> QED
    BY <1>1, <2>1 DEF ClaimPostShutdown, SameRun
<1>2. CASE SkipPostShutdown \/ ExecutePostShutdown
  <2>1. StoreKept
    BY <1>2, UnchangedKept DEF SkipPostShutdown, ExecutePostShutdown
  <2> QED
    BY <1>2, <2>1 DEF SkipPostShutdown, ExecutePostShutdown
<1>3. CASE SavePostShutdown
  <2>1. StoreKept
    BY <1>0, <1>3, SaveKept DEF SavePostShutdown
  <2> QED
    BY <1>3, <2>1 DEF SavePostShutdown
<1>4. CASE ToWakeGate \/ AllSettled \/ HandleAbort \/ CloseSequence
  <2>1. SameRun(seq, seq')
    BY <1>0, <1>4, SequenceMoves
       DEF ToWakeGate, AllSettled, HandleAbort, CloseSequence, States, LiveStates,
           FinalStates
  <2>2. StoreKept
    BY <1>4, <2>1, SaveKept
       DEF ToWakeGate, AllSettled, HandleAbort, CloseSequence, SameRun
  <2> QED
    BY <1>4, <2>1, <2>2 DEF ToWakeGate, AllSettled, HandleAbort, CloseSequence, SameRun
<1>5. ASSUME NEW c \in Clients, SettleTimeout(c) PROVE Quiet
  <2>1. StoreKept
    BY <1>0, <1>5, ClientStateKept DEF SettleTimeout, ClientStates
  <2> QED
    BY <1>5, <2>1 DEF SettleTimeout
<1>6. CASE ReleaseSequence
  <2>1. StoreKept
    BY <1>0, <1>6, KeepsOthers, CommitKept DEF ReleaseSequence
  <2> QED
    BY <1>6, <2>1 DEF ReleaseSequence
<1> QED
  BY <1>1, <1>2, <1>3, <1>4, <1>5, <1>6

LEMMA WakeLoopQuiet ==
    ASSUME TypeInv, RecordInv,
           \/ GateOpens \/ GateAbandoned \/ WakeAbandoned \/ WakeFinished
           \/ \E c \in Clients : SpareClient(c) \/ DependencyDown(c) \/ BeginWake(c)
    PROVE  Quiet
<1> USE CommittedInJoin DEF Quiet, StoreKept, Active, InStages, control, world
<1>0. TypeOK /\ seq \in Sequence /\ db \in Database
  BY DEF TypeInv, TypeOK
<1>1. CASE GateOpens
  <2>1. SameRun(seq, seq')
    BY <1>0, <1>1, SequenceMoves DEF GateOpens, States, LiveStates
  <2>2. StoreKept
    BY <1>1, <2>1, SaveKept DEF GateOpens, SameRun
  <2> QED
    BY <1>1, <2>1, <2>2 DEF GateOpens, SameRun
<1>2. CASE GateAbandoned \/ WakeAbandoned
  <2>1. SameRun(seq, seq') /\ StoreKept
    BY <1>0, <1>2, SequenceMoves, UnchangedKept DEF GateAbandoned, WakeAbandoned
  <2> QED
    BY <1>2, <2>1 DEF GateAbandoned, WakeAbandoned, SameRun
<1>3. CASE WakeFinished
  <2>1. StoreKept
    BY <1>3, UnchangedKept DEF WakeFinished
  <2> QED
    BY <1>3, <2>1 DEF WakeFinished
<1>4. ASSUME NEW c \in Clients, SpareClient(c) \/ DependencyDown(c) \/ BeginWake(c)
      PROVE  Quiet
  <2>1. StoreKept
    BY <1>0, <1>4, UnchangedKept, ClientStateKept
       DEF SpareClient, DependencyDown, BeginWake, ClientStates
  <2>2. \A x \in Clients : task'[x] \in Committed => task[x] \in Committed
    BY <1>0, <1>4 DEF SpareClient, DependencyDown, BeginWake, Committed, TypeOK
  <2> QED
    BY <1>4, <2>1, <2>2 DEF SpareClient, DependencyDown, BeginWake
<1> QED
  BY <1>1, <1>2, <1>3, <1>4

LEMMA RestartQuiet ==
    ASSUME TypeInv, RecordInv,
           \/ Crash \/ Checkpoint \/ StartIdle \/ StartOrphan
           \/ Reconciled \/ \E c \in Clients : Reconcile(c) \/ RecordReconciled(c)
    PROVE  Quiet
<1> USE CommittedInJoin DEF Quiet, StoreKept, Active, InStages, control, world
<1>0. TypeOK /\ db \in Database /\ nextId \in Nat
  BY ConfigAssumption DEF TypeInv, TypeOK
<1>1. CASE Crash
  <2>1. StoreKept
    BY <1>1, UnchangedKept DEF Crash
  <2> QED
    BY <1>1, <2>1 DEF Crash, Dies, Committed
<1>2. CASE Checkpoint
  BY <1>2, KeepsSelf DEF Checkpoint, memory
<1>3. CASE StartIdle
  <2>1. StoreKept
    BY <1>3, UnchangedKept DEF StartIdle
  <2> QED
    BY <1>3, <2>1 DEF StartIdle, Restarting
<1>4. CASE StartOrphan
  <2>1. Newest(ActiveRows(db)) \in ActiveRows(db)
    BY <1>4, NewestExists DEF StartOrphan, ActiveRows
  <2>2. /\ Newest(ActiveRows(db)) \in SeqIds
        /\ db.row[Newest(ActiveRows(db))] # NoSequence
    BY <2>1 DEF ActiveRows, LiveStates, NoSequence
  <2>3. Newest(ActiveRows(db)) < nextId
    BY <1>0, <2>2 DEF RecordInv, BacksAll, SeqIds
  <2>4. StoreKept
    BY <1>0, <1>4, <2>2, <2>3, KeepsFailOrphaned, CommitKept DEF StartOrphan
  <2> QED
    BY <1>4, <2>4 DEF StartOrphan, Restarting
<1>5. CASE Reconciled
  <2>1. StoreKept
    BY <1>5, UnchangedKept DEF Reconciled
  <2> QED
    BY <1>5, <2>1 DEF Reconciled
<1>6. ASSUME NEW c \in Clients, Reconcile(c) PROVE Quiet
  <2>1. PICK s \in {"down_unverified"} \cup (IF c \in Blind THEN {} ELSE Reports(c)) :
          SetClientState(c, s)
    BY <1>6 DEF Reconcile
  <2>2. s \in ClientStates
    BY <1>0 DEF Reports, ClientStates, TypeOK
  <2>3. StoreKept
    BY <1>0, <2>1, <2>2, ClientStateKept
  <2>4. \A x \in Clients : task'[x] \notin Committed
    BY <1>0, <1>6 DEF Reconcile, Committed, TypeOK
  <2> QED
    BY <1>6, <2>3, <2>4 DEF Reconcile
<1>7. ASSUME NEW c \in Clients, RecordReconciled(c) PROVE Quiet
  <2>1. seq.id \in SeqIds
    BY <1>7 DEF RecordReconciled, TypeInv, Located
  <2>2. StoreKept
    BY <1>0, <1>7, <2>1, KeepsSaveIntent, CommitKept DEF RecordReconciled, IntentStates
  <2>3. \A x \in Clients : task'[x] \notin Committed
    BY <1>0, <1>7 DEF RecordReconciled, Committed, TypeOK
  <2> QED
    BY <1>7, <2>2, <2>3 DEF RecordReconciled
<1> QED
  BY <1>1, <1>2, <1>3, <1>4, <1>5, <1>6, <1>7

LEMMA ProbeQuiet ==
    ASSUME TypeInv, RecordInv,
           \/ ProbeDecides \/ ProbeWrites
           \/ \E c \in Clients : ProbeAnswers(c) \/ HostStops(c)
    PROVE  Quiet
<1>0. TypeOK
  BY DEF TypeInv
<1>1. StoreKept
  <2>1. CASE ProbeWrites
    <3>1. probe.who \in Clients /\ probe.saw \in ClientStates
      BY <1>0, <2>1 DEF ProbeWrites, TypeOK, NoProbe, ClientStates
    <3> QED
      BY <1>0, <2>1, <3>1, ClientStateKept DEF ProbeWrites
  <2>2. CASE ProbeDecides \/ \E c \in Clients : ProbeAnswers(c) \/ HostStops(c)
    BY <2>2, UnchangedKept DEF ProbeDecides, ProbeAnswers, HostStops
  <2> QED
    BY <2>1, <2>2
<1> QED
  BY <1>1, CommittedInJoin
     DEF ProbeDecides, ProbeWrites, ProbeAnswers, HostStops, Quiet, StoreKept, Active,
         InStages, memory, world

(* The steps that are not quiet. *)

LEMMA TriggerKeeps ==
    ASSUME TypeInv, TypeInv', RecordInv, Trigger PROVE RecordInv'
<1> USE DEF RecordInv, Trigger, store, world
<1>1. nextId \in SeqIds /\ seq'.id = nextId /\ ~seq'.ponr /\ nextId' = nextId + 1
      /\ \A s \in SeqIds : s \in Nat
  BY ConfigAssumption DEF NoSequence, SeqIds
<1>2. db.row[nextId] = NoSequence /\ told[nextId] = {}
  BY <1>1 DEF BacksAll, Fresh, SeqIds
<1>3. \A c \in Clients : task[c] \notin Committed
  BY CommittedInJoin
<1>4. BacksAll(db)' /\ BacksAll(disk)'
  BY <1>1, <1>3 DEF BacksAll
<1>5. Fresh'
  BY <1>1 DEF Fresh
<1>6. PonrAgrees'
  BY <1>1, <1>2 DEF PonrAgrees, NoSequence
<1>7. LoopPosition'
  BY <1>1, <1>2 DEF LoopPosition
<1> QED
  BY <1>4, <1>5, <1>6, <1>7

LEMMA CrossPonrKeeps ==
    ASSUME TypeInv, TypeInv', RecordInv, CrossPonr PROVE RecordInv'
<1> USE DEF RecordInv, CrossPonr, control, world
<1>0. /\ db \in Database /\ seq \in Sequence /\ seq.id \in SeqIds /\ seq.id < nextId
      /\ nextId \in Nat /\ \A s \in SeqIds : s \in Nat
  BY ConfigAssumption DEF TypeInv, TypeOK, Located, Fresh, Active, SeqIds
<1>1. seq' \in Sequence /\ seq'.id = seq.id /\ seq'.ponr
  BY <1>0, SequenceUpdates
<1>2. /\ db' = SaveSequence(db, seq') /\ disk' = db'
      /\ db'.row = [db.row EXCEPT ![seq.id] = seq']
      /\ db'.done = db.done /\ db'.intent = db.intent
      /\ db.row \in [SeqIds -> Sequence]
  BY <1>0, <1>1 DEF Durably, SaveSequence, Database
<1>3. \A c \in Clients : task[c] \notin Committed
  BY CommittedInJoin
<1>4. BacksAll(db)'
  <2>1. \A s \in SeqIds : db.row[s].ponr => db'.row[s].ponr
    BY <1>0, <1>1, <1>2
  <2>2. \A s \in SeqIds : s >= nextId => db'.row[s] = db.row[s]
    BY <1>0, <1>2
  <2>3. UNCHANGED <<told, task, nextId>>
    OBVIOUS
  <2>4. ASSUME NEW s \in SeqIds, NEW t \in told[s]
        PROVE  /\ Backs(db', s, t[1], t[2])
               /\ t[1] \in PonrStages => db'.row[s].ponr
    <3>1. Backs(db, s, t[1], t[2]) /\ (t[1] \in PonrStages => db.row[s].ponr)
      BY <2>4 DEF BacksAll
    <3>2. db'.done = db.done /\ db'.intent = db.intent
      BY <1>2
    <3> HIDE DEF RecordInv, CrossPonr, control, world
    <3> QED
      BY <2>1, <3>1, <3>2 DEF Backs
  <2>5. \A s \in SeqIds : s >= nextId => db'.row[s] = NoSequence
    BY <2>2 DEF BacksAll
  <2> HIDE DEF RecordInv, CrossPonr, control, world
  <2> QED
    BY <1>3, <2>3, <2>4, <2>5 DEF BacksAll
<1>5. BacksAll(disk)'
  BY <1>2, <1>4 DEF BacksAll
<1>6. Fresh'
  BY <1>0, <1>1 DEF Fresh
<1>7. PonrAgrees'
  <2>1. \A s \in SeqIds : db'.row[s].ponr = disk'.row[s].ponr
    BY <1>2
  <2>2. seq'.ponr = db'.row[seq'.id].ponr
    BY <1>0, <1>1, <1>2
  <2>3. seq'.ponr
    BY <1>1
  <2> HIDE DEF RecordInv, CrossPonr, control, world
  <2> QED
    BY <2>1, <2>2, <2>3 DEF PonrAgrees
<1>8. LoopPosition'
  BY <1>1, <1>2 DEF LoopPosition, InStages
<1> QED
  BY <1>4, <1>5, <1>6, <1>7, <1>8

\* Starting a stage takes its own completion record away, never one that a
\* command sent earlier relies on: no command is ahead of the loop.
LEMMA DispatchStageKeeps ==
    ASSUME TypeInv, TypeInv', RecordInv, DispatchStage PROVE RecordInv'
<1> USE DEF RecordInv, DispatchStage, world
<1>0. /\ db \in Database /\ seq.id \in SeqIds /\ stage \in StageIds
      /\ StageIds \subseteq Nat
      /\ \A s \in SeqIds : told[s] \subseteq StageIds \X Clients
      /\ NumStages \in Nat
  BY ConfigAssumption DEF TypeInv, TypeOK, Located, StageIds, NumStages
<1>1. /\ db'.row = db.row /\ db'.intent = db.intent
      /\ db'.done = [db.done EXCEPT ![seq.id] = @ \ {stage}]
      /\ db.done \in [SeqIds -> SUBSET StageIds]
      /\ disk' = disk \/ disk' = db'
  BY <1>0 DEF Commit, SaveStageStarted, Database
<1>2. \A c \in Clients : task'[c] \notin Committed
  BY DEF Committed
<1>3. ASSUME NEW s \in SeqIds, NEW t \in told[s]
      PROVE  1..(t[1] - 1) \subseteq db'.done[s]
  <2>1. t[1] \in Nat /\ 1..(t[1] - 1) \subseteq db.done[s]
    BY <1>0, <1>3 DEF BacksAll, Backs
  <2>2. CASE s = seq.id
    BY <1>0, <1>1, <2>1, <2>2 DEF LoopPosition, InStages
  <2>3. CASE s # seq.id
    BY <1>0, <1>1, <2>1, <2>3
  <2> QED
    BY <2>2, <2>3
<1>4. BacksAll(db)'
  BY <1>1, <1>2, <1>3 DEF BacksAll, Backs
<1>5. BacksAll(disk)'
  <2>1. CASE disk' = db'
    BY <1>4, <2>1 DEF BacksAll
  <2>2. CASE disk' = disk
    BY <1>2, <2>2 DEF BacksAll
  <2> QED
    BY <1>1, <2>1, <2>2
<1>6. Fresh'
  BY DEF Fresh, Active
<1>7. PonrAgrees'
  BY <1>1 DEF PonrAgrees, Active
<1>8. LoopPosition'
  BY <1>0, <1>1 DEF LoopPosition, InStages
<1> QED
  BY <1>4, <1>5, <1>6, <1>7, <1>8

LEMMA StageDoneKeeps ==
    ASSUME TypeInv, TypeInv', RecordInv, StageSkipped \/ JoinStage PROVE RecordInv'
<1> USE DEF RecordInv, world
<1>5. pc \in {"wait", "join"}
  BY DEF StageSkipped, JoinStage
<1>0. /\ db \in Database /\ seq.id \in SeqIds /\ stage \in StageIds
      /\ StageIds \subseteq Nat
      /\ \A s \in SeqIds : told[s] \subseteq StageIds \X Clients
  BY <1>5, ConfigAssumption DEF TypeInv, TypeOK, Located, StageIds, NumStages
<1>1. /\ db'.row = db.row /\ db'.intent = db.intent
      /\ db'.done = [db.done EXCEPT ![seq.id] = @ \cup {stage}]
      /\ db.done \in [SeqIds -> SUBSET StageIds]
      /\ disk' = disk \/ disk' = db'
      /\ stage' = stage + 1 /\ pc' = "enter" /\ UNCHANGED <<seq, told, nextId>>
  BY <1>0 DEF StageSkipped, JoinStage, Commit, SaveStageCompleted, Database
<1>2. \A c \in Clients : task'[c] \notin Committed
  BY CommittedInJoin DEF StageSkipped, JoinStage, Committed
<1>3. BacksAll(db)'
  BY <1>0, <1>1, <1>2 DEF BacksAll, Backs
<1>4. BacksAll(disk)'
  <2>1. CASE disk' = db'
    BY <1>3, <2>1 DEF BacksAll
  <2>2. CASE disk' = disk
    BY <1>1, <1>2, <2>2 DEF BacksAll
  <2> QED
    BY <1>1, <2>1, <2>2
<1>6. Fresh' /\ PonrAgrees'
  BY <1>1, <1>5 DEF Fresh, PonrAgrees, Active
<1>7. LoopPosition'
  <2>1. 1..(stage - 1) \subseteq db.done[seq.id] /\ \A t \in told[seq.id] : t[1] <= stage
    BY <1>5 DEF LoopPosition, InStages
  <2>2. 1..(stage' - 1) \subseteq db'.done[seq'.id]
    BY <1>0, <1>1, <2>1
  <2>3. ASSUME NEW t \in told[seq.id] PROVE t[1] <= stage + 1
    <3>1. t[1] \in Nat /\ t[1] <= stage /\ stage \in Nat
      BY <1>0, <2>1, <2>3
    <3> QED
      BY <3>1
  <2> QED
    BY <1>1, <2>2, <2>3 DEF LoopPosition
<1> QED
  BY <1>3, <1>4, <1>6, <1>7

\* The intent is on the disk before anything is sent, and with it every record
\* committed before.
LEMMA JournalIntentKeeps ==
    ASSUME TypeInv, TypeInv', RecordInv, NEW c \in Clients, JournalIntent(c)
    PROVE  RecordInv'
<1> USE DEF RecordInv, JournalIntent, ShutdownStep, world
<1>0. pc = "join" /\ seq.id \in SeqIds /\ db \in Database /\ task \in [Clients -> Tasks]
  BY DEF TypeInv, TypeOK, Located, ShutdownTasks
<1>1. /\ db'.row = db.row /\ db'.done = db.done
      /\ db'.intent = [db.intent EXCEPT ![seq.id][c] = "dispatching"]
      /\ db.intent \in [SeqIds -> [Clients -> IntentStates]]
      /\ disk' = db'
  BY <1>0 DEF Durably, SaveIntent, Database
<1>2. \A s \in SeqIds : \A x \in Clients :
         db.intent[s][x] # "none" => db'.intent[s][x] # "none"
  BY <1>0, <1>1
<1>3. BacksAll(db)'
  <2>1. ASSUME NEW s \in SeqIds, NEW t \in told[s]
        PROVE  /\ Backs(db', s, t[1], t[2])
               /\ t[1] \in PonrStages => db'.row[s].ponr
    <3>1. t[2] \in Clients
      BY DEF TypeInv, TypeOK
    <3> QED
      BY <1>1, <1>2, <2>1, <3>1 DEF BacksAll, Backs
  <2>2. ASSUME NEW x \in Clients, task'[x] \in Committed
        PROVE  Backs(db', seq.id, stage, x)
    <3>1. 1..(stage - 1) \subseteq db'.done[seq.id]
      BY <1>0, <1>1 DEF LoopPosition, InStages
    <3>2. x = c \/ db.intent[seq.id][x] # "none"
      BY <1>0, <2>2 DEF BacksAll, Backs
    <3> QED
      BY <1>0, <1>1, <1>2, <3>1, <3>2 DEF Backs
  <2>3. \A s \in SeqIds : s >= nextId => db'.row[s] = NoSequence
    BY <1>1 DEF BacksAll
  <2>4. UNCHANGED <<told, nextId, stage, seq>>
    OBVIOUS
  <2> HIDE DEF RecordInv, JournalIntent, ShutdownStep, world
  <2> QED
    BY <2>1, <2>2, <2>3, <2>4 DEF BacksAll
<1>4. BacksAll(disk)'
  BY <1>1, <1>3 DEF BacksAll
<1>5. Fresh' /\ PonrAgrees' /\ LoopPosition'
  BY <1>0, <1>1 DEF Fresh, PonrAgrees, LoopPosition, Active, InStages
<1> QED
  BY <1>3, <1>4, <1>5

LEMMA ExecuteShutdownKeeps ==
    ASSUME TypeInv, TypeInv', RecordInv, NEW c \in Clients, ExecuteShutdown(c)
    PROVE  RecordInv'
<1> USE DEF RecordInv, ExecuteShutdown, ShutdownStep
<1>0. /\ pc = "join" /\ seq.id \in SeqIds /\ stage \in StageIds /\ seq.id < nextId
      /\ nextId \in Nat /\ stage \in Nat /\ \A s \in SeqIds : s \in Nat
      /\ task \in [Clients -> Tasks]
      /\ told \in [SeqIds -> SUBSET (StageIds \X Clients)]
  BY ConfigAssumption
     DEF TypeInv, TypeOK, Located, ShutdownTasks, Fresh, Active, StageIds, SeqIds, NumStages
<1>1. /\ \A s \in SeqIds : told'[s] \subseteq told[s] \cup (IF s = seq.id THEN {<<stage, c>>} ELSE {})
      /\ UNCHANGED <<db, disk, pc, seq, stage, nextId>>
  BY <1>0 DEF store
<1>2. \A x \in Clients : task'[x] \in Committed => task[x] \in Committed
  BY <1>0 DEF Committed
<1>3. task[c] \in Committed
  BY DEF Committed
<1>4. stage \in PonrStages => db.row[seq.id].ponr /\ disk.row[seq.id].ponr
  BY <1>0 DEF PonrAgrees, Active
<1> HIDE DEF ExecuteShutdown, ShutdownStep
<1>5. ASSUME NEW d, BacksAll(d), stage \in PonrStages => d.row[seq.id].ponr,
             NEW s \in SeqIds, NEW t \in told'[s]
      PROVE  /\ Backs(d, s, t[1], t[2])
             /\ t[1] \in PonrStages => d.row[s].ponr
  <2>1. CASE t \in told[s]
    BY <1>5, <2>1 DEF BacksAll
  <2>2. CASE s = seq.id /\ t = <<stage, c>>
    <3>1. Backs(d, seq.id, stage, c)
      BY <1>3, <1>5 DEF BacksAll
    <3> QED
      BY <1>5, <2>2, <3>1
  <2> QED
    BY <1>1, <2>1, <2>2
<1>6. BacksAll(db)' /\ BacksAll(disk)'
  BY <1>1, <1>2, <1>4, <1>5 DEF BacksAll
<1>7. Fresh'
  BY <1>0, <1>1 DEF Fresh, Active
<1>8. PonrAgrees'
  BY <1>1 DEF PonrAgrees, Active
<1>9. LoopPosition'
  BY <1>0, <1>1 DEF LoopPosition, InStages
<1> QED
  BY <1>6, <1>7, <1>8, <1>9

\* Whatever a power cut takes from the database, what is left backs everything
\* that was sent.
LEMMA PowerLossKeeps ==
    ASSUME TypeInv, TypeInv', RecordInv, PowerLoss PROVE RecordInv'
<1>1. /\ db' = disk /\ disk' = disk /\ UNCHANGED <<told, nextId>> /\ pc' = "off"
      /\ \A c \in Clients : task'[c] \notin Committed
  BY DEF PowerLoss, Dies, world, Committed
<1> QED
  BY <1>1 DEF RecordInv, BacksAll, Fresh, PonrAgrees, LoopPosition, Active, InStages

LEMMA StartResumeKeeps ==
    ASSUME TypeInv, TypeInv', RecordInv, StartResume PROVE RecordInv'
<1> DEFINE s == Newest(ActiveRows(db))
<1>1. s \in SeqIds /\ db.row[s].state \in LiveStates /\ nextId \in Nat /\ s \in Nat
  <2>1. s \in ActiveRows(db)
    BY NewestExists DEF StartResume, ActiveRows
  <2> QED
    BY <2>1, ConfigAssumption DEF ActiveRows, TypeInv, TypeOK, SeqIds
<1>2. seq' = db.row[s] /\ seq'.id = s
  BY <1>1 DEF StartResume, TypeInv, Sound, WellKeyed, LiveStates
<1>3. s < nextId
  BY <1>1 DEF RecordInv, BacksAll, LiveStates, NoSequence
<1>4. pc = "off" /\ pc' \in {"settle", "gate", "resume"}
      /\ UNCHANGED <<db, disk, told, nextId, task, stage>>
  BY DEF StartResume, Restarting, store, world
<1>5. \A c \in Clients : task[c] \notin Committed
  BY <1>4, CommittedInJoin
<1> HIDE DEF s
<1>6. BacksAll(db)' /\ BacksAll(disk)'
  BY <1>4, <1>5 DEF RecordInv, BacksAll
<1>7. Fresh' /\ PonrAgrees' /\ LoopPosition'
  BY <1>1, <1>2, <1>3, <1>4
     DEF RecordInv, Fresh, PonrAgrees, LoopPosition, InStages
<1> QED
  BY <1>6, <1>7 DEF RecordInv

\* The loop is re-entered behind every stage that has been acted on.
LEMMA ResumeStagesKeeps ==
    ASSUME TypeInv, TypeInv', RecordInv, ResumeStages PROVE RecordInv'
<1>0. /\ pc = "resume" /\ pc' = "reconcile" /\ seq.id \in SeqIds
      /\ seq'.id = seq.id /\ seq'.ponr = seq.ponr
      /\ stage' = ResumeAt(db.done[seq.id])
      /\ UNCHANGED <<db, disk, told, nextId, task>>
  <2>1. seq.id \in SeqIds /\ stage' \in 1..(NumStages + 1) /\ seq \in Sequence
    BY DEF ResumeStages, TypeInv, TypeOK, Located
  <2>2. SameRun(seq, seq')
    BY <2>1, SequenceMoves DEF ResumeStages
  <2> QED
    BY <2>1, <2>2 DEF ResumeStages, SameRun, store, world
<1>1. db.done[seq.id] \in SUBSET StageIds
  BY <1>0 DEF TypeInv, TypeOK, Database
<1>2. /\ stage' \in 1..(NumStages + 1) /\ stage' \notin db.done[seq.id]
      /\ \A j \in 1..(stage' - 1) : j \in db.done[seq.id]
  BY <1>0, <1>1, ResumeAtExists
<1>3. \A c \in Clients : task[c] \notin Committed
  BY <1>0, CommittedInJoin
<1>4. BacksAll(db)' /\ BacksAll(disk)'
  BY <1>0, <1>3 DEF RecordInv, BacksAll
<1>5. LoopPosition'
  <2>1. ASSUME NEW t \in told[seq.id] PROVE t[1] <= stage'
    <3>1. t[1] \in Nat /\ stage' \in Nat /\ stage' >= 1
      BY <1>0, <1>2, ConfigAssumption DEF TypeInv, TypeOK, StageIds, NumStages
    <3>2. 1..(t[1] - 1) \subseteq db.done[seq.id]
      BY <1>0 DEF RecordInv, BacksAll, Backs
    <3> QED
      BY <1>2, <3>1, <3>2
  <2> QED
    BY <1>0, <1>2, <2>1 DEF LoopPosition
<1>6. Fresh' /\ PonrAgrees'
  BY <1>0 DEF RecordInv, Fresh, PonrAgrees, Active
<1> QED
  BY <1>4, <1>5, <1>6 DEF RecordInv

LEMMA RecordInvInit == Init => RecordInv
<1> SUFFICES ASSUME Init PROVE RecordInv
  OBVIOUS
<1>1. \A s \in SeqIds : db.row[s] = NoSequence /\ disk.row[s] = NoSequence /\ told[s] = {}
  BY DEF Init, EmptyDatabase
<1>2. \A c \in Clients : task[c] \notin Committed
  BY DEF Init, Committed
<1> QED
  BY <1>1, <1>2
     DEF Init, RecordInv, BacksAll, Fresh, PonrAgrees, LoopPosition, Active, InStages

LEMMA RecordInvStep == TypeInv /\ TypeInv' /\ RecordInv /\ [Next]_vars => RecordInv'
<1> SUFFICES ASSUME TypeInv, TypeInv', RecordInv, [Next]_vars PROVE RecordInv'
  OBVIOUS
<1>1. CASE SequenceStep
  BY <1>1, QuietStep, StagesQuiet, ClosingQuiet, WakeLoopQuiet, RestartQuiet,
     StageDoneKeeps, CrossPonrKeeps, DispatchStageKeeps, ResumeStagesKeeps
     DEF SequenceStep
<1>2. ASSUME NEW c \in Clients, ShutdownClient(c) PROVE RecordInv'
  BY <1>2, QuietStep, ShutdownClientQuiet, JournalIntentKeeps, ExecuteShutdownKeeps
     DEF ShutdownClient
<1>3. CASE UNCHANGED vars
  BY <1>3 DEF vars, memory, store, world, RecordInv, BacksAll, Fresh, PonrAgrees,
              LoopPosition, Active, InStages
<1> QED
  BY <1>1, <1>2, <1>3, QuietStep, TriggerKeeps, OperatorQuiet, WakeClientQuiet,
     ProbeQuiet, RestartQuiet, PowerLossKeeps, StartResumeKeeps DEF Next

LEMMA RecordsInvariant == Spec => []RecordInv
BY TypeInvInit, TypeInvStep, RecordInvInit, RecordInvStep, PTL DEF Spec

\* No host is told to shut down before an intent for it is on the disk, and no
\* crash, power cut, resumption or orphaning takes it away.
THEOREM JournalPrecedesCommand == Spec => []JournalBeforeCommand
<1>1. RecordInv => JournalBeforeCommand
  BY DEF RecordInv, BacksAll, Backs, JournalBeforeCommand
<1> QED
  BY <1>1, RecordsInvariant, PTL

\* Once a host of a point-of-no-return stage has been told to shut down, the
\* crossing is on the disk for good.
THEOREM PonrSurvives == Spec => []PonrDurable
<1>1. RecordInv => PonrDurable
  BY DEF RecordInv, BacksAll, PonrDurable
<1> QED
  BY <1>1, RecordsInvariant, PTL

\* A host of a stage is told to shut down only when every earlier stage is
\* recorded as settled, on the disk, and the records stay.
THEOREM StagesInOrder == Spec => []EarlierStagesSettled
<1>1. RecordInv => EarlierStagesSettled
  BY DEF RecordInv, BacksAll, Backs, EarlierStagesSettled
<1> QED
  BY <1>1, RecordsInvariant, PTL
==============================================================================
