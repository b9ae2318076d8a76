--------------------------- MODULE LifecycleProofs ---------------------------
(***************************************************************************)
(* Proofs about the life of a sequence across crashes and restarts, for    *)
(* every plan and any number of sequences: what an abort or a wake command *)
(* rules out from then on, that hosts told to shut down are locked, and    *)
(* that the sequences table implements SequenceLifecycle.                  *)
(*                                                                         *)
(* All but the locks is about a database that keeps what was committed,    *)
(* that is for Faults without "power": the saves involved are ordinary     *)
(* commits, which a power cut may take back.                               *)
(***************************************************************************)
EXTENDS SequenceProofs

------------------------------------------------------------------------------
(* The state and aborted columns of the sequences table. *)

Phase == [s \in SeqIds |-> db.row[s].state]
Flag == [s \in SeqIds |-> db.row[s].aborted]

\* Where the goroutine stands before it has given up or finished shutting down.
Stopping == {"resume", "reconcile", "enter", "wait", "cross", "dispatch", "join",
             "outlet", "postsave", "settled", "abort"}

\* What the place of the goroutine says of the sequence in memory and of its row.
PlaceInv ==
    /\ pc \in {"off", "idle"} => seq.id = 0
    /\ pc = "start" => /\ seq.state = "shutting_down" /\ seq.aborted = FALSE
                       /\ Phase[seq.id] = "none"
    /\ pc \in Stopping => seq.state = "shutting_down"
    /\ pc = "settle" => seq.state = "aborting"
    /\ pc \in {"gate", "close"} => seq.state \in {"wake_gate", "waking"}
    /\ pc = "wake" => seq.state = "waking"
    /\ pc \in Stopping \cup {"settle", "gate", "wake"} =>
          Phase[seq.id] = seq.state /\ Flag[seq.id] = seq.aborted
    /\ pc = "close" => /\ Phase[seq.id] = seq.state
                       /\ Flag[seq.id] = TRUE => seq.aborted = TRUE
                       /\ seq.state = "wake_gate" => seq.aborted = TRUE
    /\ pc = "release" => Phase[seq.id] \in FinalStates

\* At most one row is unfinished, and it is that of the running sequence.
TableInv ==
    /\ \A s, t \in SeqIds : Phase[s] \in LiveStates /\ Phase[t] \in LiveStates => s = t
    /\ pc # "off" => \A s \in SeqIds : Phase[s] \in LiveStates => s = seq.id
    /\ \A s \in SeqIds : Phase[s] = "none" => Flag[s] = FALSE

\* What the row of a sequence that was called off, or has woken a host, says.
HistoryInv ==
    /\ \A s \in calledOff : /\ Phase[s] \notin {"none", "shutting_down", "completed"}
                            /\ Flag[s] = TRUE
    /\ \A s \in SeqIds : woken[s] # {} => Phase[s] \in {"waking"} \cup FinalStates

PhaseInv == PlaceInv /\ TableInv /\ HistoryInv

------------------------------------------------------------------------------
(* The turns a sequence's life can take in one step. *)

Columns == <<Phase, Flag>>
Commands == <<told, cuts, woken>>

\* Memory keeps the sequence's id, state and aborted flag.
SameSequence == seq'.id = seq.id /\ seq'.state = seq.state /\ seq'.aborted = seq.aborted

\* The row of the running sequence is written as the sequence now is.
Recorded ==
    /\ seq.id \in SeqIds /\ seq'.id = seq.id
    /\ Phase' = [Phase EXCEPT ![seq.id] = seq'.state]
    /\ Flag' = [Flag EXCEPT ![seq.id] = seq'.aborted]

\* Nothing of the life cycle changes; commands are those of the place.
Inside ==
    /\ pc' = pc \/ {pc, pc'} \subseteq Stopping
    /\ SameSequence
    /\ UNCHANGED <<Columns, calledOff>>
    /\ \A s \in SeqIds : told'[s] # told[s] \/ cuts'[s] # cuts[s] =>
          s = seq.id /\ pc \in Stopping
    /\ \A s \in SeqIds : woken'[s] # woken[s] => s = seq.id /\ pc = "wake"

Claims ==
    /\ pc = "idle" /\ pc' = "start"
    /\ seq'.id \in SeqIds /\ Phase[seq'.id] = "none"
    /\ seq'.state = "shutting_down" /\ seq'.aborted = FALSE
    /\ UNCHANGED <<Columns, calledOff, Commands>>

Begins ==
    /\ pc = "start" /\ pc' = "enter"
    /\ SameSequence /\ Recorded
    /\ UNCHANGED <<calledOff, Commands>>

CalledOff ==
    /\ pc = "abort" /\ pc' = "settle"
    /\ seq'.state = "aborting" /\ seq'.aborted = TRUE
    /\ Recorded
    /\ calledOff' = calledOff \cup {seq.id}
    /\ UNCHANGED Commands

ReachesGate ==
    /\ pc \in {"settled", "settle"} /\ pc' = "gate"
    /\ seq'.state = "wake_gate" /\ seq'.aborted = seq.aborted
    /\ Recorded
    /\ UNCHANGED <<calledOff, Commands>>

Wakes ==
    /\ pc = "gate" /\ pc' = "wake"
    /\ seq'.state = "waking" /\ seq'.aborted = seq.aborted
    /\ Recorded
    /\ UNCHANGED <<calledOff, Commands>>

StopsWaking ==
    /\ pc \in {"gate", "wake"} /\ pc' = "close"
    /\ seq'.id = seq.id /\ seq'.state = seq.state
    /\ seq'.aborted = TRUE \/ (pc = "wake" /\ seq'.aborted = seq.aborted)
    /\ UNCHANGED <<Columns, calledOff, Commands>>

Closes ==
    /\ pc = "close" /\ pc' = "release"
    /\ seq'.state = (IF seq.aborted THEN "aborted" ELSE "completed")
    /\ seq'.aborted = seq.aborted
    /\ Recorded
    /\ UNCHANGED <<calledOff, Commands>>

Leaves ==
    /\ (pc = "release" /\ pc' = "idle") \/ pc' = "off"
    /\ seq'.id = 0
    /\ UNCHANGED <<Columns, calledOff, Commands>>

ComesBackIdle ==
    /\ pc = "off" /\ pc' = "idle" /\ seq'.id = seq.id
    /\ \/ /\ \A s \in SeqIds : Phase[s] \notin LiveStates
          /\ UNCHANGED Columns
       \/ \E s \in SeqIds : /\ Phase[s] \in LiveStates
                            /\ Phase' = [Phase EXCEPT ![s] = "failed"]
                            /\ UNCHANGED Flag
    /\ UNCHANGED <<calledOff, Commands>>

ComesBackRunning ==
    /\ pc = "off"
    /\ seq'.id \in SeqIds /\ Phase[seq'.id] \in LiveStates
    /\ seq'.state = Phase[seq'.id] /\ seq'.aborted = Flag[seq'.id]
    /\ pc' = CASE seq'.state = "aborting" -> "settle"
               [] seq'.state \in {"wake_gate", "waking"} -> "gate"
               [] OTHER -> "resume"
    /\ UNCHANGED <<Columns, calledOff, Commands>>

Turn ==
    \/ Inside \/ Claims \/ Begins \/ CalledOff \/ ReachesGate \/ Wakes \/ StopsWaking
    \/ Closes \/ Leaves \/ ComesBackIdle \/ ComesBackRunning

------------------------------------------------------------------------------
(* Every turn keeps the invariant. *)

LEMMA ColumnTypes ==
    ASSUME TypeInv
    PROVE  /\ Phase \in [SeqIds -> States] /\ Flag \in [SeqIds -> BOOLEAN]
           /\ seq.id \in 0..MaxSeq /\ seq.state \in States /\ seq.aborted \in BOOLEAN
           /\ pc \in Locations /\ 0 \notin SeqIds /\ calledOff \subseteq SeqIds
           /\ pc \notin {"off", "idle"} => seq.id \in SeqIds
<1>1. seq \in Sequence /\ db \in Database /\ MaxSeq \in Nat
  BY ConfigAssumption DEF TypeInv, TypeOK
<1>2. seq.id \in 0..MaxSeq /\ seq.state \in States /\ seq.aborted \in BOOLEAN
  BY <1>1 DEF Sequence, States
<1>3. \A s \in SeqIds : db.row[s].state \in States /\ db.row[s].aborted \in BOOLEAN
  BY <1>1 DEF Database, Sequence, States
<1>4. Phase \in [SeqIds -> States] /\ Flag \in [SeqIds -> BOOLEAN]
  BY <1>3 DEF Phase, Flag
<1> QED
  BY <1>1, <1>2, <1>4 DEF TypeInv, TypeOK, Located, SeqIds

LEMMA InsideKeeps ==
    ASSUME TypeInv, PhaseInv, Inside
    PROVE  PhaseInv'
<1>0. /\ UNCHANGED <<Phase, Flag, calledOff>> /\ SameSequence
      /\ pc' = pc \/ {pc, pc'} \subseteq Stopping
  BY DEF Inside, Columns
<1>1. PlaceInv'
  BY <1>0 DEF PhaseInv, PlaceInv, SameSequence, Stopping
<1>2. TableInv'
  BY <1>0 DEF PhaseInv, TableInv, SameSequence, Stopping
<1>3. HistoryInv'
  BY <1>0, ColumnTypes DEF PhaseInv, HistoryInv, PlaceInv, Inside
<1> QED
  BY <1>1, <1>2, <1>3 DEF PhaseInv

LEMMA RecordedColumns ==
    ASSUME TypeInv, Recorded
    PROVE  /\ Phase'[seq.id] = seq'.state /\ Flag'[seq.id] = seq'.aborted
           /\ \A s \in SeqIds \ {seq.id} : Phase'[s] = Phase[s] /\ Flag'[s] = Flag[s]
           /\ seq.id \in SeqIds /\ seq'.id = seq.id
BY ColumnTypes DEF Recorded

LEMMA RecordingKeeps ==
    ASSUME TypeInv, TypeInv', PhaseInv,
           Begins \/ CalledOff \/ ReachesGate \/ Wakes \/ Closes
    PROVE  PhaseInv'
<1>0. Recorded /\ UNCHANGED woken
  BY DEF Begins, CalledOff, ReachesGate, Wakes, Closes, Commands
<1>1. pc # "off" /\ pc' # "off"
  BY DEF Begins, CalledOff, ReachesGate, Wakes, Closes
<1>2. TableInv'
  <2>1. \A s \in SeqIds : Phase'[s] \in LiveStates => s = seq.id
    BY <1>0, <1>1, RecordedColumns DEF PhaseInv, TableInv
  <2>2. seq'.state # "none"
    BY DEF Begins, CalledOff, ReachesGate, Wakes, Closes, SameSequence, PhaseInv, PlaceInv
  <2> QED
    BY <1>0, <1>1, <2>1, <2>2, RecordedColumns DEF PhaseInv, TableInv
<1>3. PlaceInv'
  <2> USE <1>0, RecordedColumns, ColumnTypes DEF PhaseInv, PlaceInv, Stopping
  <2>1. CASE Begins
    BY <2>1 DEF Begins, SameSequence
  <2>2. CASE CalledOff
    BY <2>2 DEF CalledOff
  <2>3. CASE ReachesGate
    BY <2>3 DEF ReachesGate
  <2>4. CASE Wakes
    BY <2>4 DEF Wakes
  <2>5. CASE Closes
    BY <2>5 DEF Closes, FinalStates
  <2> QED
    BY <2>1, <2>2, <2>3, <2>4, <2>5
<1>4. HistoryInv'
  <2>1. ASSUME NEW s \in calledOff'
        PROVE  Phase'[s] \notin {"none", "shutting_down", "completed"} /\ Flag'[s] = TRUE
    <3>1. CASE s # seq.id
      BY <1>0, <2>1, <3>1, RecordedColumns, ColumnTypes
         DEF PhaseInv, HistoryInv, Begins, CalledOff, ReachesGate, Wakes, Closes
    <3>2. CASE s = seq.id
      <4> USE <1>0, <2>1, <3>2, RecordedColumns, ColumnTypes
          DEF PhaseInv, HistoryInv, PlaceInv, Stopping
      <4>1. CASE Begins
        BY <4>1 DEF Begins
      <4>2. CASE CalledOff
        BY <4>2 DEF CalledOff
      <4>3. CASE ReachesGate
        BY <4>3 DEF ReachesGate
      <4>4. CASE Wakes
        BY <4>4 DEF Wakes
      <4>5. CASE Closes
        BY <4>5 DEF Closes
      <4> QED
        BY <4>1, <4>2, <4>3, <4>4, <4>5
    <3> QED
      BY <3>1, <3>2
  <2>2. ASSUME NEW s \in SeqIds, woken'[s] # {}
        PROVE  Phase'[s] \in {"waking"} \cup FinalStates
    <3>1. CASE s # seq.id
      BY <1>0, <2>2, <3>1, RecordedColumns DEF PhaseInv, HistoryInv
    <3>2. CASE s = seq.id
      BY <1>0, <2>2, <3>2, RecordedColumns
         DEF PhaseInv, HistoryInv, PlaceInv, Stopping, FinalStates, Begins, CalledOff,
             ReachesGate, Wakes, Closes
    <3> QED
      BY <3>1, <3>2
  <2> QED
    BY <2>1, <2>2 DEF HistoryInv
<1> QED
  BY <1>2, <1>3, <1>4 DEF PhaseInv

LEMMA StandingKeeps ==
    ASSUME TypeInv, TypeInv', PhaseInv,
           Claims \/ StopsWaking \/ Leaves \/ ComesBackRunning
    PROVE  PhaseInv'
<1>0. UNCHANGED <<Phase, Flag, calledOff, woken>>
  BY DEF Claims, StopsWaking, Leaves, ComesBackRunning, Columns, Commands
<1>1. HistoryInv'
  BY <1>0 DEF PhaseInv, HistoryInv
<1>2. TableInv'
  <2>1. CASE Claims
    BY <1>0, <2>1, ColumnTypes DEF PhaseInv, TableInv, PlaceInv, Claims
  <2>2. CASE StopsWaking
    BY <1>0, <2>2 DEF PhaseInv, TableInv, StopsWaking
  <2>3. CASE Leaves
    BY <1>0, <2>3, ColumnTypes
       DEF PhaseInv, TableInv, PlaceInv, Leaves, LiveStates, FinalStates
  <2>4. CASE ComesBackRunning
    BY <1>0, <2>4 DEF PhaseInv, TableInv, ComesBackRunning
  <2> QED
    BY <2>1, <2>2, <2>3, <2>4
<1>3. PlaceInv'
  <2> USE <1>0, ColumnTypes DEF PhaseInv, PlaceInv, Stopping
  <2>1. CASE Claims
    BY <2>1 DEF Claims
  <2>2. CASE StopsWaking
    BY <2>2 DEF StopsWaking
  <2>3. CASE Leaves
    BY <2>3 DEF Leaves
  <2>4. CASE ComesBackRunning
    BY <2>4 DEF ComesBackRunning, LiveStates
  <2> QED
    BY <2>1, <2>2, <2>3, <2>4
<1> QED
  BY <1>1, <1>2, <1>3 DEF PhaseInv

LEMMA ComesBackIdleKeeps ==
    ASSUME TypeInv, TypeInv', PhaseInv, ComesBackIdle
    PROVE  PhaseInv'
<1>0. /\ pc = "off" /\ pc' = "idle" /\ seq'.id = 0
      /\ UNCHANGED <<Flag, calledOff, woken>>
      /\ \A s \in SeqIds : Phase'[s] \notin LiveStates
      /\ \A s \in SeqIds : Phase'[s] = Phase[s] \/ Phase'[s] = "failed"
  <2>1. /\ pc = "off" /\ pc' = "idle" /\ seq'.id = 0
        /\ UNCHANGED <<Flag, calledOff, woken>>
    BY DEF ComesBackIdle, PhaseInv, PlaceInv, Columns, Commands
  <2>2. CASE (\A s \in SeqIds : Phase[s] \notin LiveStates) /\ UNCHANGED Columns
    BY <2>1, <2>2 DEF Columns
  <2>3. ASSUME NEW s \in SeqIds, Phase[s] \in LiveStates,
               Phase' = [Phase EXCEPT ![s] = "failed"]
        PROVE  /\ \A t \in SeqIds : Phase'[t] \notin LiveStates
               /\ \A t \in SeqIds : Phase'[t] = Phase[t] \/ Phase'[t] = "failed"
    BY <2>3, ColumnTypes DEF PhaseInv, TableInv, LiveStates
  <2> QED
    BY <2>1, <2>2, <2>3 DEF ComesBackIdle
<1>1. PlaceInv'
  BY <1>0 DEF PlaceInv, Stopping
<1>2. TableInv'
  BY <1>0 DEF PhaseInv, TableInv
<1>3. HistoryInv'
  BY <1>0, ColumnTypes DEF PhaseInv, HistoryInv, FinalStates
<1> QED
  BY <1>1, <1>2, <1>3 DEF PhaseInv

LEMMA TurnKeeps ==
    ASSUME TypeInv, TypeInv', PhaseInv, Turn
    PROVE  PhaseInv'
BY InsideKeeps, RecordingKeeps, StandingKeeps, ComesBackIdleKeeps DEF Turn

LEMMA PhaseInvInit == Init => PhaseInv
<1> SUFFICES ASSUME Init PROVE PhaseInv
  OBVIOUS
<1>1. \A s \in SeqIds : db.row[s] = NoSequence
  BY DEF Init, EmptyDatabase
<1>2. \A s \in SeqIds : Phase[s] = "none" /\ Flag[s] = FALSE
  BY <1>1 DEF Phase, Flag, NoSequence
<1> QED
  BY <1>2 DEF Init, PhaseInv, PlaceInv, TableInv, HistoryInv, Stopping, LiveStates, NoSequence

------------------------------------------------------------------------------
(* Every step is a turn. *)

\* Only SaveSequence and FailOrphanedSequence write the sequences table.
LEMMA RowsKept ==
    ASSUME NEW d \in Database
    PROVE  /\ \A c \in Clients : \A x \in ClientStates : SaveClientState(d, c, x).row = d.row
           /\ \A s \in SeqIds : \A c \in Clients : \A x \in IntentStates :
                 SaveIntent(d, s, c, x).row = d.row
           /\ \A s \in SeqIds : \A i \in StageIds :
                 /\ SaveStageStarted(d, s, i).row = d.row
                 /\ SaveStageCompleted(d, s, i).row = d.row
           /\ \A c \in Clients : \A s \in SeqIds : AcquireClientLock(d, c, s).row = d.row
           /\ \A s \in SeqIds : ReleaseSequenceLocks(d, s).row = d.row
BY DEF SaveClientState, SaveIntent, SaveStageStarted, SaveStageCompleted,
       AcquireClientLock, ReleaseSequenceLocks, Database

LEMMA CommitRow ==
    ASSUME NEW d, Commit(d) \/ Durably(d)
    PROVE  db' = d
BY DEF Commit, Durably

LEMMA ClientStateRow ==
    ASSUME TypeOK, NEW c \in Clients, NEW x \in ClientStates, SetClientState(c, x)
    PROVE  db'.row = db.row
BY RowsKept, CommitRow DEF SetClientState, TypeOK

LEMMA ColumnsKept ==
    ASSUME db'.row = db.row
    PROVE  UNCHANGED <<Phase, Flag>>
BY DEF Phase, Flag

\* What the updates of a sequence do to the fields the life cycle is about.
LEMMA LifeUpdates ==
    ASSUME NEW q \in Sequence
    PROVE  /\ \A x \in States : /\ [q EXCEPT !.state = x].state = x
                               /\ [q EXCEPT !.state = x].aborted = q.aborted
           /\ \A i \in 1..(NumStages + 1) : /\ [q EXCEPT !.stage = i].state = q.state
                                            /\ [q EXCEPT !.stage = i].aborted = q.aborted
           /\ [q EXCEPT !.postRun = TRUE].state = q.state
           /\ [q EXCEPT !.postRun = TRUE].aborted = q.aborted
           /\ [q EXCEPT !.ponr = TRUE].state = q.state
           /\ [q EXCEPT !.ponr = TRUE].aborted = q.aborted
           /\ [q EXCEPT !.aborted = TRUE].state = q.state
           /\ [q EXCEPT !.aborted = TRUE].aborted = TRUE
           /\ [q EXCEPT !.state = "aborting", !.aborted = TRUE].state = "aborting"
           /\ [q EXCEPT !.state = "aborting", !.aborted = TRUE].aborted = TRUE
BY DEF Sequence

\* The sequence in memory is now in state x with aborted flag a.
Becomes(x, a) == seq' \in Sequence /\ seq'.id = seq.id /\ seq'.state = x /\ seq'.aborted = a

LEMMA LifeMoves ==
    ASSUME seq \in Sequence
    PROVE  /\ \A x \in States : seq' = [seq EXCEPT !.state = x] => Becomes(x, seq.aborted)
           /\ \A i \in 1..(NumStages + 1) :
                 seq' = [seq EXCEPT !.stage = i] => Becomes(seq.state, seq.aborted)
           /\ seq' = [seq EXCEPT !.postRun = TRUE] => Becomes(seq.state, seq.aborted)
           /\ seq' = [seq EXCEPT !.ponr = TRUE] => Becomes(seq.state, seq.aborted)
           /\ seq' = [seq EXCEPT !.aborted = TRUE] => Becomes(seq.state, TRUE)
           /\ seq' = [seq EXCEPT !.state = "aborting", !.aborted = TRUE] =>
                 Becomes("aborting", TRUE)
<1>1. ASSUME NEW x \in States, seq' = [seq EXCEPT !.state = x]
      PROVE  Becomes(x, seq.aborted)
  BY <1>1, SequenceUpdates, LifeUpdates, Zenon DEF Becomes, SameRun
<1>2. ASSUME NEW i \in 1..(NumStages + 1), seq' = [seq EXCEPT !.stage = i]
      PROVE  Becomes(seq.state, seq.aborted)
  BY <1>2, SequenceUpdates, LifeUpdates, Zenon DEF Becomes, SameRun
<1>3. ASSUME seq' = [seq EXCEPT !.postRun = TRUE] \/ seq' = [seq EXCEPT !.ponr = TRUE]
      PROVE  Becomes(seq.state, seq.aborted)
  <2>1. CASE seq' = [seq EXCEPT !.postRun = TRUE]
    BY <2>1, SequenceUpdates, LifeUpdates, Zenon DEF Becomes, SameRun
  <2>2. CASE seq' = [seq EXCEPT !.ponr = TRUE]
    BY <2>2, SequenceUpdates, LifeUpdates, Zenon DEF Becomes
  <2> QED
    BY <1>3, <2>1, <2>2
<1>4. ASSUME seq' = [seq EXCEPT !.aborted = TRUE]
      PROVE  Becomes(seq.state, TRUE)
  BY <1>4, SequenceUpdates, LifeUpdates, Zenon DEF Becomes, SameRun
<1>5. ASSUME seq' = [seq EXCEPT !.state = "aborting", !.aborted = TRUE]
      PROVE  Becomes("aborting", TRUE)
  BY <1>5, SequenceUpdates, LifeUpdates, Zenon DEF Becomes, SameRun
<1> QED
  BY <1>1, <1>2, <1>3, <1>4, <1>5

LEMMA SavedIsRecorded ==
    ASSUME TypeInv, pc \notin {"off", "idle"}, seq' \in Sequence, seq'.id = seq.id,
           \/ Commit(SaveSequence(db, seq')) \/ Durably(SaveSequence(db, seq'))
    PROVE  Recorded
<1>1. db \in Database /\ seq.id \in SeqIds
  BY DEF TypeInv, TypeOK, Located
<1>2. db'.row = [db.row EXCEPT ![seq.id] = seq']
  <2>1. db' = SaveSequence(db, seq')
    BY CommitRow
  <2>2. SaveSequence(db, seq').row = [db.row EXCEPT ![seq'.id] = seq']
    BY <1>1 DEF SaveSequence, Database
  <2> QED
    BY <2>1, <2>2
<1>3. db.row \in [SeqIds -> Sequence]
  BY <1>1 DEF Database
<1>4. Phase' = [Phase EXCEPT ![seq.id] = seq'.state]
  BY <1>1, <1>2, <1>3 DEF Phase
<1>5. Flag' = [Flag EXCEPT ![seq.id] = seq'.aborted]
  BY <1>1, <1>2, <1>3 DEF Flag
<1> QED
  BY <1>1, <1>4, <1>5 DEF Recorded

\* Saving a sequence whose state and flag are those of its row changes neither column.
LEMMA RecordedAgain ==
    ASSUME TypeInv, PhaseInv, pc \in Stopping, Recorded, SameSequence
    PROVE  UNCHANGED <<Phase, Flag>>
BY ColumnTypes DEF Recorded, SameSequence, PhaseInv, PlaceInv

\* A step that sends no command, writes no sequence and leaves the place and
\* the sequence in memory as they are, or moves within the shutdown stages.
LEMMA Uneventful ==
    ASSUME pc' = pc \/ {pc, pc'} \subseteq Stopping, SameSequence,
           UNCHANGED <<Phase, Flag>>, UNCHANGED <<told, cuts, woken, calledOff>>
    PROVE  Turn
BY DEF Turn, Inside, Columns

LEMMA BesideTurns ==
    ASSUME TypeInv,
           \/ RequestAbort \/ RequestProceed \/ \E m \in Modes : SetMode(m)
           \/ ProbeDecides \/ ProbeWrites
           \/ \E c \in Clients : ProbeAnswers(c) \/ HostStops(c)
    PROVE  Turn
<1>0. TypeOK
  BY DEF TypeInv
<1>1. UNCHANGED <<pc, seq, told, cuts, woken, calledOff>>
  BY DEF RequestAbort, RequestProceed, SetMode, ProbeDecides, ProbeWrites, ProbeAnswers,
         HostStops, world, memory
<1>2. db'.row = db.row
  <2>1. CASE ProbeWrites
    <3>1. probe.who \in Clients /\ probe.saw \in ClientStates
      BY <1>0, <2>1 DEF ProbeWrites, TypeOK, NoProbe, ClientStates
    <3> QED
      BY <1>0, <2>1, <3>1, ClientStateRow DEF ProbeWrites
  <2> QED
    BY <2>1 DEF RequestAbort, RequestProceed, SetMode, ProbeDecides, ProbeAnswers,
                HostStops, store
<1> QED
  BY <1>1, <1>2, ColumnsKept, Uneventful DEF SameSequence

LEMMA ShutdownClientTurns ==
    ASSUME TypeInv, NEW c \in Clients, ShutdownClient(c)
    PROVE  Turn
<1>0. /\ TypeOK /\ db \in Database
      /\ task[c] \in ShutdownTasks => pc = "join" /\ seq.id \in SeqIds
  BY DEF TypeInv, TypeOK, Located
<1>1. /\ UNCHANGED <<pc, seq, cuts, woken, calledOff>>
      /\ task[c] \in ShutdownTasks
  BY DEF ShutdownClient, NoTransport, LockClient, LockRefused, JournalIntent,
         MarkShuttingDown, ExecuteShutdown, RecordDispatched, DryRunDown, AwaitClientDown,
         ShutdownStep, ShutdownTasks, world
<1>2. db'.row = db.row
  <2>1. CASE NoTransport(c) \/ MarkShuttingDown(c) \/ DryRunDown(c) \/ AwaitClientDown(c)
    BY <1>0, <2>1, ClientStateRow
       DEF NoTransport, MarkShuttingDown, DryRunDown, AwaitClientDown, ClientStates
  <2>2. CASE LockClient(c) \/ JournalIntent(c) \/ RecordDispatched(c)
    BY <1>0, <1>1, <2>2, RowsKept, CommitRow
       DEF LockClient, JournalIntent, RecordDispatched, IntentStates
  <2>3. CASE LockRefused(c) \/ ExecuteShutdown(c)
    BY <2>3 DEF LockRefused, ExecuteShutdown, store
  <2> QED
    BY <2>1, <2>2, <2>3 DEF ShutdownClient
<1>3. \A s \in SeqIds : told'[s] # told[s] => s = seq.id
  <2>1. CASE ExecuteShutdown(c)
    BY <1>0, <2>1 DEF ExecuteShutdown, TypeOK
  <2> QED
    BY <2>1 DEF ShutdownClient, NoTransport, LockClient, LockRefused, JournalIntent,
                MarkShuttingDown, RecordDispatched, DryRunDown, AwaitClientDown, world
<1> QED
  BY <1>0, <1>1, <1>2, <1>3, ColumnsKept DEF Turn, Inside, SameSequence, Columns, Stopping

LEMMA WakeClientTurns ==
    ASSUME TypeInv, NEW c \in Clients, WakeClient(c)
    PROVE  Turn
<1>0. /\ TypeOK
      /\ task[c] \in WakeTasks => pc = "wake"
  BY DEF TypeInv, Located
<1>1. /\ UNCHANGED <<pc, seq, told, cuts, calledOff>>
      /\ task[c] \in WakeTasks
  BY DEF WakeClient, GuardPassed, NoWakeTransport, MarkWaking, DryRunUp, ExecuteWake,
         WakeVerified, VerifyAbandoned, WakeRetry, WakeFailed, WakeStep, WakeEnds,
         WakeCommand, WakeTasks, world
<1>2. db'.row = db.row
  BY <1>0, ClientStateRow
     DEF WakeClient, GuardPassed, NoWakeTransport, MarkWaking, DryRunUp, ExecuteWake,
         WakeVerified, VerifyAbandoned, WakeRetry, WakeFailed, ClientStates, store
<1>3. \A s \in SeqIds : woken'[s] # woken[s] => s = seq.id
  BY <1>0 DEF WakeClient, GuardPassed, NoWakeTransport, MarkWaking, DryRunUp, ExecuteWake,
         WakeVerified, VerifyAbandoned, WakeRetry, WakeFailed, WakeCommand, TypeOK, world
<1> QED
  BY <1>0, <1>1, <1>2, <1>3, ColumnsKept DEF Turn, Inside, SameSequence, Columns

LEMMA StageTurns ==
    ASSUME TypeInv, PhaseInv,
           \/ ExecuteSequence \/ EnterStage
           \/ WhenHolds \/ StageForced \/ StageAborted \/ StageSkipped \/ StageHeld
           \/ CrossPonr \/ DispatchStage \/ JoinStage
    PROVE  Turn
<1>0. /\ seq \in Sequence /\ db \in Database
      /\ pc \notin {"off", "idle"} => seq.id \in SeqIds
      /\ pc \in {"wait", "dispatch", "join"} => stage \in StageIds
      /\ \A i \in StageIds : i \in 1..(NumStages + 1)
  BY ConfigAssumption DEF TypeInv, TypeOK, Located, StageIds, NumStages
<1>1. CASE ExecuteSequence
  <2>1. seq' = seq /\ Commit(SaveSequence(db, seq')) /\ pc = "start" /\ pc' = "enter"
        /\ UNCHANGED <<told, cuts, woken, calledOff>>
    BY <1>1 DEF ExecuteSequence, world
  <2>2. Recorded
    BY <1>0, <2>1, SavedIsRecorded
  <2> QED
    BY <2>1, <2>2 DEF Turn, Begins, SameSequence, Commands
<1>2. CASE EnterStage
  <2>1. seq' \in Sequence /\ SameSequence
    BY <1>0, <1>2, LifeMoves DEF EnterStage, Becomes, SameSequence
  <2>2. UNCHANGED <<Phase, Flag>>
    BY <1>2, <2>1, SavedIsRecorded, RecordedAgain DEF EnterStage, SameSequence, Stopping
  <2> QED
    BY <1>2, <2>1, <2>2, Uneventful DEF EnterStage, world, Stopping
<1>3. CASE WhenHolds \/ StageForced \/ StageAborted \/ StageHeld
  <2>1. UNCHANGED <<Phase, Flag>>
    BY <1>3, ColumnsKept DEF WhenHolds, StageForced, StageAborted, StageHeld, store
  <2> QED
    BY <1>3, <2>1, Uneventful
       DEF WhenHolds, StageForced, StageAborted, StageHeld, Proceeding, world, Stopping,
           SameSequence
<1>4. CASE StageSkipped \/ DispatchStage \/ JoinStage
  <2>1. /\ seq.id \in SeqIds /\ stage \in StageIds
        /\ \/ Commit(SaveStageCompleted(db, seq.id, stage))
           \/ Commit(SaveStageStarted(db, seq.id, stage))
    BY <1>0, <1>4 DEF StageSkipped, DispatchStage, JoinStage
  <2>2. db'.row = db.row
    BY <1>0, <2>1, RowsKept, CommitRow
  <2> QED
    BY <1>4, <2>2, ColumnsKept, Uneventful
       DEF StageSkipped, DispatchStage, JoinStage, world, Stopping, SameSequence
<1>5. CASE CrossPonr
  <2>1. seq' \in Sequence /\ SameSequence
    BY <1>0, <1>5, LifeMoves DEF CrossPonr, Becomes, SameSequence
  <2>2. UNCHANGED <<Phase, Flag>>
    BY <1>5, <2>1, SavedIsRecorded, RecordedAgain DEF CrossPonr, SameSequence, Stopping
  <2> QED
    BY <1>5, <2>1, <2>2, Uneventful DEF CrossPonr, world, Stopping
<1> QED
  BY <1>1, <1>2, <1>3, <1>4, <1>5

LEMMA ClosingTurns ==
    ASSUME TypeInv, PhaseInv,
           \/ ClaimPostShutdown \/ SkipPostShutdown \/ ExecutePostShutdown
           \/ SavePostShutdown \/ ToWakeGate \/ HandleAbort \/ AllSettled
           \/ \E c \in Clients : SettleTimeout(c)
           \/ CloseSequence \/ ReleaseSequence
    PROVE  Turn
<1>0. /\ TypeOK /\ seq \in Sequence /\ db \in Database
      /\ pc \notin {"off", "idle"} => seq.id \in SeqIds
  BY DEF TypeInv, TypeOK, Located
<1>1. CASE ClaimPostShutdown \/ SkipPostShutdown
  <2>1. SameSequence
    BY <1>0, <1>1, LifeMoves DEF ClaimPostShutdown, SkipPostShutdown, Becomes, SameSequence
  <2>2. UNCHANGED <<Phase, Flag>>
    BY <1>1, ColumnsKept DEF ClaimPostShutdown, SkipPostShutdown, store
  <2> QED
    BY <1>1, <2>1, <2>2, Uneventful DEF ClaimPostShutdown, SkipPostShutdown, world, Stopping
<1>2. CASE ExecutePostShutdown
  <2>1. \A s \in SeqIds : cuts'[s] # cuts[s] => s = seq.id
    BY <1>0, <1>2 DEF ExecutePostShutdown, TypeOK
  <2>2. UNCHANGED <<Phase, Flag>>
    BY <1>2, ColumnsKept DEF ExecutePostShutdown, store
  <2> QED
    BY <1>2, <2>1, <2>2 DEF ExecutePostShutdown, Turn, Inside, SameSequence, Columns, Stopping
<1>3. CASE SavePostShutdown
  <2>1. seq' = seq /\ SameSequence
    BY <1>3 DEF SavePostShutdown, SameSequence
  <2>2. UNCHANGED <<Phase, Flag>>
    BY <1>0, <1>3, <2>1, SavedIsRecorded, RecordedAgain DEF SavePostShutdown, Stopping
  <2> QED
    BY <1>3, <2>1, <2>2, Uneventful DEF SavePostShutdown, world, Stopping
<1>4. CASE ToWakeGate \/ AllSettled
  <2>1. /\ seq' \in Sequence /\ seq'.id = seq.id
        /\ seq'.state = "wake_gate" /\ seq'.aborted = seq.aborted
    BY <1>0, <1>4, LifeMoves DEF ToWakeGate, AllSettled, Becomes, States, LiveStates
  <2>2. Recorded
    BY <1>4, <2>1, SavedIsRecorded DEF ToWakeGate, AllSettled
  <2> QED
    BY <1>4, <2>1, <2>2 DEF ToWakeGate, AllSettled, Turn, ReachesGate, Commands, world
<1>5. CASE HandleAbort
  <2>1. /\ seq' \in Sequence /\ seq'.id = seq.id
        /\ seq'.state = "aborting" /\ seq'.aborted = TRUE
    BY <1>0, <1>5, LifeMoves DEF HandleAbort, Becomes
  <2>2. Recorded
    BY <1>5, <2>1, SavedIsRecorded DEF HandleAbort
  <2> QED
    BY <1>5, <2>1, <2>2 DEF HandleAbort, Turn, CalledOff, Commands
<1>6. ASSUME NEW c \in Clients, SettleTimeout(c) PROVE Turn
  <2>1. db'.row = db.row
    BY <1>0, <1>6, ClientStateRow DEF SettleTimeout, ClientStates
  <2> QED
    BY <1>6, <2>1, ColumnsKept, Uneventful DEF SettleTimeout, world, SameSequence
<1>7. CASE CloseSequence
  <2> DEFINE x == IF seq.aborted THEN "aborted" ELSE "completed"
  <2>0. x \in States /\ seq' = [seq EXCEPT !.state = x]
    BY <1>7 DEF CloseSequence, States, FinalStates
  <2> HIDE DEF x
  <2>1. /\ seq' \in Sequence /\ seq'.id = seq.id
        /\ seq'.state = x /\ seq'.aborted = seq.aborted
    BY <1>0, <2>0, LifeMoves DEF Becomes
  <2>2. Recorded
    BY <1>7, <2>1, SavedIsRecorded DEF CloseSequence
  <2> QED
    BY <1>7, <2>1, <2>2 DEF CloseSequence, Turn, Closes, Commands, world, x
<1>8. CASE ReleaseSequence
  <2>1. db'.row = db.row
    BY <1>0, <1>8, RowsKept, CommitRow DEF ReleaseSequence
  <2> QED
    BY <1>8, <2>1, ColumnsKept
       DEF ReleaseSequence, Turn, Leaves, Columns, Commands, world, NoSequence
<1> QED
  BY <1>1, <1>2, <1>3, <1>4, <1>5, <1>6, <1>7, <1>8

LEMMA WakeLoopTurns ==
    ASSUME TypeInv, PhaseInv,
           \/ GateOpens \/ GateAbandoned \/ WakeAbandoned \/ WakeFinished
           \/ \E c \in Clients : SpareClient(c) \/ DependencyDown(c) \/ BeginWake(c)
    PROVE  Turn
<1>0. TypeOK /\ seq \in Sequence
  BY DEF TypeInv, TypeOK
<1>1. CASE GateOpens
  <2>1. /\ seq' \in Sequence /\ seq'.id = seq.id
        /\ seq'.state = "waking" /\ seq'.aborted = seq.aborted
    BY <1>0, <1>1, LifeMoves DEF GateOpens, Becomes, States, LiveStates
  <2>2. Recorded
    BY <1>1, <2>1, SavedIsRecorded DEF GateOpens
  <2> QED
    BY <1>1, <2>1, <2>2 DEF GateOpens, Turn, Wakes, Commands, world
<1>2. CASE GateAbandoned \/ WakeAbandoned \/ WakeFinished
  <2>1. /\ seq'.id = seq.id /\ seq'.state = seq.state
        /\ seq'.aborted = TRUE \/ (pc = "wake" /\ seq'.aborted = seq.aborted)
    BY <1>0, <1>2, LifeMoves DEF GateAbandoned, WakeAbandoned, WakeFinished, Becomes
  <2>2. UNCHANGED <<Phase, Flag>>
    BY <1>2, ColumnsKept DEF GateAbandoned, WakeAbandoned, WakeFinished, store
  <2> QED
    BY <1>2, <2>1, <2>2
       DEF GateAbandoned, WakeAbandoned, WakeFinished, Turn, StopsWaking, Columns, Commands,
           world
<1>3. ASSUME NEW c \in Clients, SpareClient(c) \/ DependencyDown(c) \/ BeginWake(c)
      PROVE  Turn
  <2>1. db'.row = db.row
    BY <1>0, <1>3, ClientStateRow
       DEF SpareClient, DependencyDown, BeginWake, ClientStates, store
  <2> QED
    BY <1>3, <2>1, ColumnsKept, Uneventful
       DEF SpareClient, DependencyDown, BeginWake, world, SameSequence
<1> QED
  BY <1>1, <1>2, <1>3

LEMMA TriggerTurns ==
    ASSUME TypeInv, RecordInv, Trigger
    PROVE  Turn
<1>1. nextId \in SeqIds /\ nextId \in Nat /\ db.row[nextId] = NoSequence
  BY ConfigAssumption DEF Trigger, RecordInv, BacksAll, SeqIds
<1>2. Phase[nextId] = "none"
  BY <1>1 DEF Phase, NoSequence
<1>3. seq'.id = nextId /\ seq'.state = "shutting_down" /\ seq'.aborted = FALSE
  BY DEF Trigger, NoSequence
<1> QED
  BY <1>1, <1>2, <1>3, ColumnsKept
     DEF Trigger, Turn, Claims, Columns, Commands, store, world

LEMMA RestartTurns ==
    ASSUME TypeInv, PhaseInv,
           \/ Crash \/ StartIdle \/ StartOrphan \/ StartResume
           \/ ResumeStages \/ Reconciled
           \/ \E c \in Clients : Reconcile(c) \/ RecordReconciled(c)
    PROVE  Turn
<1>0. TypeOK /\ db \in Database /\ seq \in Sequence /\ Sound(db)
  BY DEF TypeInv, TypeOK
<1>1. CASE Crash
  <2>1. UNCHANGED <<Phase, Flag>>
    BY <1>1, ColumnsKept DEF Crash, store
  <2> QED
    BY <1>1, <2>1 DEF Crash, Dies, Turn, Leaves, Columns, Commands, NoSequence, world
<1>2. CASE StartIdle
  <2>1. UNCHANGED <<Phase, Flag>>
    BY <1>2, ColumnsKept DEF StartIdle, store
  <2>2. \A s \in SeqIds : Phase[s] \notin LiveStates
    BY <1>2 DEF StartIdle, ActiveRows, Phase
  <2> QED
    BY <1>2, <2>1, <2>2
       DEF StartIdle, Restarting, Turn, ComesBackIdle, Columns, Commands, world
<1>3. CASE StartOrphan
  <2> DEFINE n == Newest(ActiveRows(db))
  <2>1. n \in SeqIds /\ Phase[n] \in LiveStates
    BY <1>3, NewestExists DEF StartOrphan, ActiveRows, Phase
  <2>2. db' = FailOrphanedSequence(db, n)
    BY <1>3, CommitRow DEF StartOrphan
  <2> HIDE DEF n
  <2>3. db'.row = [db.row EXCEPT ![n].state = "failed"]
    BY <1>0, <2>2 DEF FailOrphanedSequence, ReleaseSequenceLocks, Database
  <2>4. db.row \in [SeqIds -> Sequence]
    BY <1>0 DEF Database
  <2>5. \A s \in SeqIds :
           /\ db'.row[s].state = IF s = n THEN "failed" ELSE db.row[s].state
           /\ db'.row[s].aborted = db.row[s].aborted
    BY <2>1, <2>3, <2>4 DEF Sequence
  <2>6. Phase' = [Phase EXCEPT ![n] = "failed"] /\ Flag' = Flag
    BY <2>5 DEF Phase, Flag
  <2> QED
    BY <1>3, <2>1, <2>6
       DEF StartOrphan, Restarting, Turn, ComesBackIdle, Columns, Commands, world
<1>4. CASE StartResume
  <2> DEFINE n == Newest(ActiveRows(db))
  <2>1. n \in SeqIds /\ Phase[n] \in LiveStates /\ db.row[n].state = Phase[n]
        /\ db.row[n].aborted = Flag[n]
    BY <1>4, NewestExists DEF StartResume, ActiveRows, Phase, Flag
  <2>2. seq' = db.row[n]
    BY <1>4 DEF StartResume
  <2> HIDE DEF n
  <2>3. seq'.id = n
    BY <1>0, <2>1, <2>2 DEF Sound, WellKeyed, LiveStates
  <2>4. UNCHANGED <<Phase, Flag>>
    BY <1>4, ColumnsKept DEF StartResume, store
  <2> QED
    BY <1>4, <2>1, <2>2, <2>3, <2>4
       DEF StartResume, Restarting, Turn, ComesBackRunning, Columns, Commands, world
<1>5. CASE ResumeStages
  <2>1. stage' \in 1..(NumStages + 1)
    BY <1>0, <1>5, ResumeAtExists DEF ResumeStages, Database, TypeInv, Located
  <2>2. SameSequence
    BY <1>0, <1>5, <2>1, LifeMoves DEF ResumeStages, Becomes, SameSequence
  <2> QED
    BY <1>5, <2>2, ColumnsKept, Uneventful DEF ResumeStages, Stopping, store, world
<1>6. CASE Reconciled
  BY <1>6, ColumnsKept, Uneventful DEF Reconciled, Stopping, store, world, SameSequence
<1>7. ASSUME NEW c \in Clients, Reconcile(c) PROVE Turn
  <2>1. PICK s \in {"down_unverified"} \cup (IF c \in Blind THEN {} ELSE Reports(c)) :
          SetClientState(c, s)
    BY <1>7 DEF Reconcile
  <2>2. s \in ClientStates
    BY <1>0 DEF Reports, ClientStates, TypeOK
  <2>3. db'.row = db.row
    BY <1>0, <2>1, <2>2, ClientStateRow
  <2> QED
    BY <1>7, <2>3, ColumnsKept, Uneventful DEF Reconcile, Stopping, world, SameSequence
<1>8. ASSUME NEW c \in Clients, RecordReconciled(c) PROVE Turn
  <2>1. seq.id \in SeqIds
    BY <1>8 DEF RecordReconciled, TypeInv, Located
  <2>2. db'.row = db.row
    BY <1>0, <1>8, <2>1, RowsKept, CommitRow DEF RecordReconciled, IntentStates
  <2> QED
    BY <1>8, <2>2, ColumnsKept, Uneventful
       DEF RecordReconciled, Stopping, world, SameSequence
<1> QED
  BY <1>1, <1>2, <1>3, <1>4, <1>5, <1>6, <1>7, <1>8

LEMMA EveryStepTurns ==
    ASSUME "power" \notin Faults, TypeInv, RecordInv, PhaseInv, [Next]_vars
    PROVE  Turn
<1>1. CASE SequenceStep
  BY <1>1, StageTurns, ClosingTurns, WakeLoopTurns, RestartTurns DEF SequenceStep
<1>2. CASE UNCHANGED vars
  <2>1. UNCHANGED <<Phase, Flag>>
    BY <1>2, ColumnsKept DEF vars, store
  <2> QED
    BY <1>2, <2>1, Uneventful DEF vars, memory, world, SameSequence
<1>3. ~PowerLoss /\ ~Checkpoint
  BY DEF PowerLoss, Checkpoint
<1> QED
  BY <1>1, <1>2, <1>3, TriggerTurns, ShutdownClientTurns, WakeClientTurns, BesideTurns,
     RestartTurns DEF Next

LEMMA PhaseInvStep ==
    ASSUME "power" \notin Faults
    PROVE  TypeInv /\ TypeInv' /\ RecordInv /\ PhaseInv /\ [Next]_vars => PhaseInv'
BY EveryStepTurns, TurnKeeps

LifeInv == TypeInv /\ RecordInv /\ PhaseInv

LEMMA LifeInvInit == Init => LifeInv
BY TypeInvInit, RecordInvInit, PhaseInvInit DEF LifeInv

LEMMA LifeInvStep ==
    ASSUME "power" \notin Faults
    PROVE  LifeInv /\ [Next]_vars => LifeInv'
BY TypeInvStep, RecordInvStep, PhaseInvStep DEF LifeInv

LEMMA LifeInvariant ==
    ASSUME "power" \notin Faults
    PROVE  Spec => []LifeInv
BY LifeInvInit, LifeInvStep, PTL DEF Spec

------------------------------------------------------------------------------
(* What an abort and a wake command rule out. *)

\* Once handleAbort has announced an abort, the row of the sequence never again
\* says shutting_down, nor completed, whatever crashes and restarts follow.
THEOREM AbortSurvivesCrashes ==
    ASSUME "power" \notin Faults
    PROVE  Spec => []AbortRecorded
<1>1. LifeInv => AbortRecorded
  BY ColumnTypes DEF LifeInv, PhaseInv, HistoryInv, AbortRecorded, Phase
<1> QED
  BY <1>1, LifeInvariant, PTL

\* A sequence that is sending commands has neither been called off nor woken
\* a host.
LEMMA CommandsBelong ==
    ASSUME LifeInv, Turn, NEW s \in SeqIds, told'[s] # told[s] \/ cuts'[s] # cuts[s]
    PROVE  s \notin calledOff /\ woken[s] = {}
<1>1. s = seq.id /\ pc \in Stopping
  BY DEF Turn, Inside, Claims, Begins, CalledOff, ReachesGate, Wakes, StopsWaking, Closes,
         Leaves, ComesBackIdle, ComesBackRunning, Commands
<1>2. Phase[s] = "shutting_down"
  BY <1>1 DEF LifeInv, PhaseInv, PlaceInv
<1> QED
  BY <1>2 DEF LifeInv, PhaseInv, HistoryInv, FinalStates

\* After the announcement no host is told to shut down for the sequence and no
\* outlet is cut, by the process that announced it or by one that resumes it.
THEOREM AbortStopsCommands ==
    ASSUME "power" \notin Faults
    PROVE  Spec => AbortIsFinal
<1>1. LifeInv /\ [Next]_vars =>
         [\A s \in calledOff : told'[s] = told[s] /\ cuts'[s] = cuts[s]]_vars
  BY EveryStepTurns, CommandsBelong, ColumnTypes DEF LifeInv
<1> QED
  BY <1>1, LifeInvariant, PTL DEF Spec, AbortIsFinal

\* After its first wake command a sequence shuts no host down and cuts no
\* outlet, even if the wake was interrupted and resumed.
THEOREM WakingEndsCommands ==
    ASSUME "power" \notin Faults
    PROVE  Spec => WakeEndsShutdown
<1>1. LifeInv /\ [Next]_vars =>
         [\A s \in SeqIds : woken[s] # {} => told'[s] = told[s] /\ cuts'[s] = cuts[s]]_vars
  BY EveryStepTurns, CommandsBelong DEF LifeInv
<1> QED
  BY <1>1, LifeInvariant, PTL DEF Spec, WakeEndsShutdown

------------------------------------------------------------------------------
(* The sequences table implements SequenceLifecycle. *)

LEMMA LifecycleInit == Init => Lifecycle!Init
<1> SUFFICES ASSUME Init PROVE Lifecycle!Init
  OBVIOUS
<1>1. \A s \in SeqIds : db.row[s] = NoSequence
  BY DEF Init, EmptyDatabase
<1>2. \A s \in SeqIds : db.row[s].state = "none" /\ db.row[s].aborted = FALSE
  BY <1>1 DEF NoSequence
<1> QED
  BY <1>2 DEF Lifecycle!Init

\* A row is created when no other is unfinished.
LEMMA BeginsImplements ==
    ASSUME LifeInv, Begins, NEW s \in SeqIds, s = seq.id
    PROVE  Lifecycle!Begin(s)
<1>1. /\ Phase[seq.id] = "none" /\ seq'.state = "shutting_down" /\ seq'.aborted = FALSE
      /\ seq.id \in SeqIds
  BY ColumnTypes DEF LifeInv, PhaseInv, PlaceInv, Begins, SameSequence
<1>2. \A t \in SeqIds : Phase[t] \notin LiveStates
  BY <1>1 DEF LifeInv, PhaseInv, TableInv, Begins, LiveStates
<1>3. Phase' = [Phase EXCEPT ![seq.id] = "shutting_down"]
  BY <1>1 DEF Begins, Recorded
<1>4. Flag' = Flag
  BY <1>1, ColumnTypes DEF Begins, Recorded, LifeInv, PhaseInv, TableInv
<1> QED
  BY <1>1, <1>2, <1>3, <1>4
     DEF Lifecycle!Begin, Lifecycle!Unfinished, LiveStates, Phase, Flag

\* A save that moves the row of the running sequence to p, setting the flag
\* exactly when p announces or records an abort.
LEMMA AdvanceImplements ==
    ASSUME NEW s \in SeqIds, NEW p, p \in Lifecycle!Successors(Phase[s]),
           Phase' = [Phase EXCEPT ![s] = p],
           p = "completed" => Flag[s] = FALSE,
           Flag' = [Flag EXCEPT ![s] = Flag[s] \/ p \in {"aborting", "aborted"}]
    PROVE  Lifecycle!Advance(s)
BY DEF Lifecycle!Advance, Phase, Flag

LEMMA StillImplements ==
    ASSUME UNCHANGED Columns
    PROVE  UNCHANGED Lifecycle!vars
BY DEF Columns, Phase, Flag, Lifecycle!vars

\* Each save of a running sequence is an advance of its row, or changes nothing:
\* a wake resumed after a crash saves the waking state again.
LEMMA RecordingImplements ==
    ASSUME LifeInv, CalledOff \/ ReachesGate \/ Wakes \/ Closes,
           NEW s \in SeqIds, s = seq.id
    PROVE  Lifecycle!Advance(s) \/ UNCHANGED Lifecycle!vars
<1>0. /\ Phase[s] = seq.state
      /\ Phase \in [SeqIds -> States] /\ Flag \in [SeqIds -> BOOLEAN]
      /\ seq.aborted \in BOOLEAN
      /\ Phase' = [Phase EXCEPT ![s] = seq'.state]
      /\ Flag' = [Flag EXCEPT ![s] = seq'.aborted]
  BY ColumnTypes
     DEF LifeInv, PhaseInv, PlaceInv, CalledOff, ReachesGate, Wakes, Closes, Recorded, Stopping
<1>1. CASE CalledOff
  <2>1. seq.state = "shutting_down" /\ seq'.state = "aborting" /\ seq'.aborted = TRUE
    BY <1>1 DEF CalledOff, LifeInv, PhaseInv, PlaceInv, Stopping
  <2>2. "aborting" \in Lifecycle!Successors(Phase[s])
    BY <1>0, <2>1 DEF Lifecycle!Successors
  <2>3. Flag' = [Flag EXCEPT ![s] =
                   Flag[s] \/ "aborting" \in {"aborting", "aborted"}]
    BY <1>0, <2>1
  <2> QED
    BY <1>0, <2>1, <2>2, <2>3, AdvanceImplements
<1>2. CASE ReachesGate
  <2>1. /\ seq.state \in {"shutting_down", "aborting"} /\ seq'.state = "wake_gate"
        /\ seq'.aborted = Flag[s]
    BY <1>2 DEF ReachesGate, LifeInv, PhaseInv, PlaceInv, Stopping
  <2>2. "wake_gate" \in Lifecycle!Successors(Phase[s])
    BY <1>0, <2>1 DEF Lifecycle!Successors
  <2>3. Flag' = [Flag EXCEPT ![s] =
                   Flag[s] \/ "wake_gate" \in {"aborting", "aborted"}]
    BY <1>0, <2>1
  <2> QED
    BY <1>0, <2>1, <2>2, <2>3, AdvanceImplements
<1>3. CASE Wakes
  <2>1. /\ seq.state \in {"wake_gate", "waking"} /\ seq'.state = "waking"
        /\ seq'.aborted = Flag[s]
    BY <1>3 DEF Wakes, LifeInv, PhaseInv, PlaceInv
  <2>2. CASE seq.state = "waking"
    BY <1>0, <2>1, <2>2, StillImplements DEF Columns
  <2>3. CASE seq.state = "wake_gate"
    <3>1. "waking" \in Lifecycle!Successors(Phase[s])
      BY <1>0, <2>3 DEF Lifecycle!Successors
    <3>2. Flag' = [Flag EXCEPT ![s] =
                     Flag[s] \/ "waking" \in {"aborting", "aborted"}]
      BY <1>0, <2>1
    <3> QED
      BY <1>0, <2>1, <3>1, <3>2, AdvanceImplements
  <2> QED
    BY <2>1, <2>2, <2>3
<1>4. CASE Closes
  <2>1. /\ seq.state \in {"wake_gate", "waking"} /\ seq'.aborted = seq.aborted
        /\ Flag[s] = TRUE => seq.aborted = TRUE
        /\ seq.state = "wake_gate" => seq.aborted = TRUE
    BY <1>4 DEF Closes, LifeInv, PhaseInv, PlaceInv
  <2>2. CASE seq.aborted = TRUE
    <3>1. seq'.state = "aborted"
      BY <1>4, <2>2 DEF Closes
    <3>2. "aborted" \in Lifecycle!Successors(Phase[s])
      BY <1>0, <2>1 DEF Lifecycle!Successors
    <3>3. Flag' = [Flag EXCEPT ![s] =
                     Flag[s] \/ "aborted" \in {"aborting", "aborted"}]
      BY <1>0, <2>1, <2>2
    <3> QED
      BY <1>0, <3>1, <3>2, <3>3, AdvanceImplements
  <2>3. CASE seq.aborted = FALSE
    <3>1. seq'.state = "completed" /\ seq.state = "waking" /\ Flag[s] = FALSE
      BY <1>0, <1>4, <2>1, <2>3 DEF Closes
    <3>2. "completed" \in Lifecycle!Successors(Phase[s])
      BY <1>0, <3>1 DEF Lifecycle!Successors
    <3>3. Flag' = [Flag EXCEPT ![s] =
                     Flag[s] \/ "completed" \in {"aborting", "aborted"}]
      BY <1>0, <2>1, <2>3, <3>1
    <3> QED
      BY <1>0, <3>1, <3>2, <3>3, AdvanceImplements
  <2> QED
    BY <1>0, <2>2, <2>3
<1> QED
  BY <1>1, <1>2, <1>3, <1>4

\* An orphaned sequence is failed from whatever unfinished phase it was in.
LEMMA ComesBackIdleImplements ==
    ASSUME LifeInv, ComesBackIdle
    PROVE  (\E s \in SeqIds : Lifecycle!Advance(s)) \/ UNCHANGED Lifecycle!vars
<1>0. Phase \in [SeqIds -> States] /\ Flag \in [SeqIds -> BOOLEAN]
  BY ColumnTypes DEF LifeInv
<1>1. ASSUME NEW s \in SeqIds, Phase[s] \in LiveStates,
             Phase' = [Phase EXCEPT ![s] = "failed"], UNCHANGED Flag
      PROVE  Lifecycle!Advance(s)
  <2>1. "failed" \in Lifecycle!Successors(Phase[s])
    BY <1>1 DEF Lifecycle!Successors, LiveStates
  <2>2. Flag' = [Flag EXCEPT ![s] = Flag[s] \/ "failed" \in {"aborting", "aborted"}]
    BY <1>0, <1>1
  <2> QED
    BY <1>1, <2>1, <2>2, AdvanceImplements
<1> QED
  BY <1>1, StillImplements DEF ComesBackIdle

LEMMA TurnImplements ==
    ASSUME LifeInv, Turn
    PROVE  Lifecycle!Next \/ UNCHANGED Lifecycle!vars
<1>1. CASE Begins
  <2>1. PICK s \in SeqIds : s = seq.id
    BY <1>1 DEF Begins, Recorded
  <2>2. Lifecycle!Begin(s)
    BY <1>1, <2>1, BeginsImplements
  <2> QED
    BY <2>2 DEF Lifecycle!Next
<1>2. CASE CalledOff \/ ReachesGate \/ Wakes \/ Closes
  <2>1. PICK s \in SeqIds : s = seq.id
    BY <1>2 DEF CalledOff, ReachesGate, Wakes, Closes, Recorded
  <2> QED
    BY <1>2, <2>1, RecordingImplements DEF Lifecycle!Next
<1>3. CASE ComesBackIdle
  BY <1>3, ComesBackIdleImplements DEF Lifecycle!Next
<1>4. CASE Inside \/ Claims \/ StopsWaking \/ Leaves \/ ComesBackRunning
  <2>1. UNCHANGED Columns
    BY <1>4 DEF Inside, Claims, StopsWaking, Leaves, ComesBackRunning
  <2> QED
    BY <2>1, StillImplements
<1> QED
  BY <1>1, <1>2, <1>3, <1>4 DEF Turn

\* The sequences table behaves as SequenceLifecycle says: one direction, one
\* final state, no clean completion of a called-off sequence, and one
\* unfinished sequence at a time, across crashes, resumptions and orphans.
THEOREM RefinesLifecycle ==
    ASSUME "power" \notin Faults
    PROVE  Spec => ImplementsLifecycle
<1>1. LifeInv /\ [Next]_vars => [Lifecycle!Next]_(Lifecycle!vars)
  BY EveryStepTurns, TurnImplements DEF LifeInv
<1> QED
  BY <1>1, LifecycleInit, LifeInvariant, PTL DEF Spec, ImplementsLifecycle, Lifecycle!Spec

------------------------------------------------------------------------------
(* What the locks guarantee, with or without power cuts.  Told hosts are      *)
(* locked because the lock is committed before the intent and the intent is   *)
(* synced before the command; LockInv says of each of these moments where     *)
(* the lock stands, and that locks are let go only under a final row.         *)

Holding == pc \notin {"off", "idle", "release"}

\* Tasks that hold their client's lock, and those whose lock is on the disk.
Claimed == {"intent", "mark", "execute"}
Journaled == {"mark", "execute"}

LocksBack(d) ==
    \A s \in SeqIds : \A t \in told[s] :
        d.row[s].state \in LiveStates => d.lock[t[2]] = s

LocksStand ==
    /\ Holding => \A t \in told[seq.id] : db.lock[t[2]] = seq.id
    /\ pc = "release" => db.row[seq.id].state \notin LiveStates
    /\ \A c \in Clients : /\ task[c] \in Claimed => db.lock[c] = seq.id
                          /\ task[c] \in Journaled => disk.lock[c] = seq.id

LockInv == LocksBack(db) /\ LocksBack(disk) /\ LocksStand

\* The store as steps that take and release no lock leave it: at most the row
\* of the sequence that holds the slot comes (back) to life.
StoreStill ==
    /\ db'.lock = db.lock
    /\ disk' = disk \/ disk' = db'
    /\ \A s \in SeqIds : db'.row[s].state \in LiveStates =>
          db.row[s].state \in LiveStates \/ (Holding /\ s = seq.id)

\* Such a step, sending no command.
Still ==
    /\ StoreStill
    /\ UNCHANGED told
    /\ Holding' => Holding /\ seq'.id = seq.id
    /\ pc' = "release" => \/ pc = "release" /\ seq'.id = seq.id
                          \/ db'.row[seq'.id].state \notin LiveStates
    /\ \A c \in Clients : /\ task'[c] \in Claimed => task[c] \in Claimed
                          /\ task'[c] \in Journaled => task[c] \in Journaled

\* A task with a lock is a task of executeStage, under the sequence's id.
LEMMA ClaimedInJoin ==
    ASSUME TypeInv, NEW c \in Clients, task[c] \in Claimed \cup Journaled
    PROVE  pc = "join" /\ seq.id \in SeqIds /\ Holding
BY DEF TypeInv, Located, Claimed, Journaled, ShutdownTasks, Holding

LEMMA StillStep ==
    ASSUME TypeInv, TypeInv', LockInv, Still
    PROVE  LockInv'
<1> USE DEF LockInv
<1>1. LocksBack(db)'
  <2> SUFFICES ASSUME NEW s \in SeqIds, NEW t \in told[s],
                      db'.row[s].state \in LiveStates
               PROVE  db'.lock[t[2]] = s
    BY DEF LocksBack, Still
  <2>1. CASE db.row[s].state \in LiveStates
    BY <2>1 DEF LocksBack, Still, StoreStill
  <2>2. CASE Holding /\ s = seq.id
    BY <2>2 DEF LocksStand, Still, StoreStill
  <2> QED
    BY <2>1, <2>2 DEF Still, StoreStill
<1>2. LocksBack(disk)'
  BY <1>1 DEF LocksBack, Still, StoreStill
<1>3. Holding' => \A t \in told'[seq'.id] : db'.lock[t[2]] = seq'.id
  BY DEF LocksStand, Still, StoreStill
<1>4. pc' = "release" => db'.row[seq'.id].state \notin LiveStates
  <2> SUFFICES ASSUME pc' = "release", pc = "release", seq'.id = seq.id
               PROVE  db'.row[seq'.id].state \notin LiveStates
    BY DEF Still
  <2>1. seq.id \in SeqIds
    BY DEF TypeInv, Located
  <2> QED
    BY <2>1 DEF LocksStand, Still, StoreStill, Holding
<1>5. ASSUME NEW c \in Clients
      PROVE  /\ task'[c] \in Claimed => db'.lock[c] = seq'.id
             /\ task'[c] \in Journaled => disk'.lock[c] = seq'.id
  <2>1. Journaled \subseteq Claimed
    BY DEF Journaled, Claimed
  <2>2. task'[c] \in Claimed => Holding'
    BY ClaimedInJoin, TypeInv' DEF TypeInv, Located, Claimed, ShutdownTasks, Holding
  <2>3. task'[c] \in Claimed => db'.lock[c] = seq'.id
    BY <2>2 DEF LocksStand, Still, StoreStill
  <2>4. task'[c] \in Journaled => disk'.lock[c] = seq'.id
    BY <2>1, <2>2, <2>3 DEF LocksStand, Still, StoreStill
  <2> QED
    BY <2>3, <2>4
<1> QED
  BY <1>1, <1>2, <1>3, <1>4, <1>5 DEF LocksStand

(* The store. *)

\* Of the writes that are not about locks none touches one.
LEMMA LocksUntouched ==
    ASSUME NEW d \in Database
    PROVE  /\ \A q \in Sequence : SaveSequence(d, q).lock = d.lock
           /\ \A c \in Clients : \A x \in ClientStates : SaveClientState(d, c, x).lock = d.lock
           /\ \A s \in SeqIds : \A c \in Clients : \A x \in IntentStates :
                 SaveIntent(d, s, c, x).lock = d.lock
           /\ \A s \in SeqIds : \A i \in StageIds :
                 /\ SaveStageStarted(d, s, i).lock = d.lock
                 /\ SaveStageCompleted(d, s, i).lock = d.lock
BY DEF SaveSequence, SaveClientState, SaveIntent, SaveStageStarted, SaveStageCompleted,
       Database

\* Releasing, alone or with a sequence given up, frees that sequence's locks.
LEMMA LocksReleased ==
    ASSUME NEW d \in Database, NEW s \in SeqIds
    PROVE  /\ ReleaseSequenceLocks(d, s).lock =
                 [c \in Clients |-> IF d.lock[c] = s THEN 0 ELSE d.lock[c]]
           /\ FailOrphanedSequence(d, s).lock = ReleaseSequenceLocks(d, s).lock
<1>1. FailOrphanedSequence(d, s).lock = ReleaseSequenceLocks(d, s).lock
  BY ReleaseType DEF FailOrphanedSequence, Database
<1> QED
  BY <1>1 DEF ReleaseSequenceLocks, Database

LEMMA CommitDisk ==
    ASSUME NEW d, Commit(d) \/ Durably(d)
    PROVE  disk' = disk \/ disk' = db'
BY DEF Commit, Durably

\* A commit that leaves rows and locks alone.
LEMMA CommitStill ==
    ASSUME NEW d, d.row = db.row, d.lock = db.lock, Commit(d) \/ Durably(d)
    PROVE  StoreStill
BY CommitRow, CommitDisk DEF StoreStill

LEMMA UnchangedStill ==
    ASSUME UNCHANGED store PROVE StoreStill
BY DEF StoreStill, store

LEMMA ClientStateStill ==
    ASSUME TypeOK, NEW c \in Clients, NEW x \in ClientStates, SetClientState(c, x)
    PROVE  StoreStill
<1>1. /\ SaveClientState(db, c, x).row = db.row
      /\ SaveClientState(db, c, x).lock = db.lock
  BY RowsKept, LocksUntouched DEF TypeOK
<1> QED
  BY <1>1, CommitStill DEF SetClientState

LEMMA IntentStill ==
    ASSUME TypeOK, NEW c \in Clients, NEW x \in IntentStates, seq.id \in SeqIds,
           Commit(SaveIntent(db, seq.id, c, x))
    PROVE  StoreStill
<1>1. /\ SaveIntent(db, seq.id, c, x).row = db.row
      /\ SaveIntent(db, seq.id, c, x).lock = db.lock
  BY RowsKept, LocksUntouched DEF TypeOK
<1> QED
  BY <1>1, CommitStill

LEMMA SaveStill ==
    ASSUME TypeInv, TypeInv', Holding, seq'.id = seq.id,
           Commit(SaveSequence(db, seq')) \/ Durably(SaveSequence(db, seq'))
    PROVE  StoreStill /\ db'.row[seq.id] = seq'
<1>0. db \in Database /\ seq' \in Sequence /\ seq.id \in SeqIds
  BY DEF TypeInv, TypeOK, Located, Holding
<1>1. db' = SaveSequence(db, seq')
  BY CommitRow
<1>2. db'.lock = db.lock /\ db'.row = [db.row EXCEPT ![seq.id] = seq']
  BY <1>0, <1>1, LocksUntouched DEF SaveSequence, Database
<1>3. db.row \in [SeqIds -> Sequence]
  BY <1>0 DEF Database
<1> QED
  BY <1>0, <1>2, <1>3, CommitDisk DEF StoreStill

(* The steps that are still. *)

LEMMA BesideStill ==
    ASSUME TypeInv,
           \/ RequestAbort \/ RequestProceed \/ Checkpoint \/ UNCHANGED vars
           \/ ProbeDecides \/ ProbeWrites \/ \E m \in Modes : SetMode(m)
           \/ \E c \in Clients : ProbeAnswers(c) \/ HostStops(c)
    PROVE  Still
<1>0. TypeOK
  BY DEF TypeInv
<1>1. StoreStill
  <2>1. CASE ProbeWrites
    <3>1. probe.who \in Clients /\ probe.saw \in ClientStates
      BY <1>0, <2>1 DEF ProbeWrites, TypeOK, NoProbe, ClientStates
    <3> QED
      BY <1>0, <2>1, <3>1, ClientStateStill DEF ProbeWrites
  <2>2. CASE Checkpoint
    BY <2>2 DEF Checkpoint, StoreStill
  <2>3. CASE \/ RequestAbort \/ RequestProceed \/ ProbeDecides \/ UNCHANGED vars
             \/ \E m \in Modes : SetMode(m)
             \/ \E c \in Clients : ProbeAnswers(c) \/ HostStops(c)
    BY <2>3, UnchangedStill
       DEF RequestAbort, RequestProceed, ProbeDecides, SetMode, ProbeAnswers, HostStops,
           vars
  <2> QED
    BY <2>1, <2>2, <2>3
<1>2. UNCHANGED <<pc, seq, task, told>>
  BY DEF RequestAbort, RequestProceed, ProbeDecides, ProbeWrites, SetMode, ProbeAnswers,
         HostStops, Checkpoint, vars, memory, control, world
<1> QED
  BY <1>1, <1>2 DEF Still, Holding

LEMMA ShutdownClientStill ==
    ASSUME TypeInv, NEW c \in Clients,
           \/ NoTransport(c) \/ LockRefused(c) \/ MarkShuttingDown(c)
           \/ RecordDispatched(c) \/ DryRunDown(c) \/ AwaitClientDown(c)
    PROVE  Still
<1>0. /\ TypeOK
      /\ task[c] \in ShutdownTasks => pc = "join" /\ seq.id \in SeqIds
  BY DEF TypeInv, Located
<1>1. StoreStill
  <2>1. CASE NoTransport(c) \/ MarkShuttingDown(c) \/ DryRunDown(c) \/ AwaitClientDown(c)
    BY <1>0, <2>1, ClientStateStill
       DEF NoTransport, MarkShuttingDown, DryRunDown, AwaitClientDown, ClientStates
  <2>2. CASE LockRefused(c)
    BY <2>2, UnchangedStill DEF LockRefused
  <2>3. CASE RecordDispatched(c)
    BY <1>0, <2>3, IntentStill
       DEF RecordDispatched, ShutdownStep, ShutdownTasks, IntentStates
  <2> QED
    BY <2>1, <2>2, <2>3
<1>2. /\ UNCHANGED <<pc, seq, told>>
      /\ \A x \in Clients : /\ task'[x] \in Claimed => task[x] \in Claimed
                            /\ task'[x] \in Journaled => task[x] \in Journaled
  BY <1>0
     DEF NoTransport, LockRefused, MarkShuttingDown, RecordDispatched, DryRunDown,
         AwaitClientDown, ShutdownStep, Claimed, Journaled, world, TypeOK
<1> QED
  BY <1>1, <1>2 DEF Still, Holding

LEMMA WakeClientStill ==
    ASSUME TypeInv, NEW c \in Clients, WakeClient(c)
    PROVE  Still
<1>0. TypeOK
  BY DEF TypeInv
<1>1. StoreStill
  BY <1>0, ClientStateStill, UnchangedStill
     DEF WakeClient, GuardPassed, NoWakeTransport, MarkWaking, DryRunUp, ExecuteWake,
         WakeVerified, VerifyAbandoned, WakeRetry, WakeFailed, ClientStates
<1>2. /\ UNCHANGED <<pc, seq, told>>
      /\ \A x \in Clients : task'[x] \in Claimed \cup Journaled => task'[x] = task[x]
  BY <1>0
     DEF WakeClient, GuardPassed, NoWakeTransport, MarkWaking, DryRunUp, ExecuteWake,
         WakeVerified, VerifyAbandoned, WakeRetry, WakeFailed, WakeStep, WakeEnds,
         WakeCommand, Claimed, Journaled, world, TypeOK
<1> QED
  BY <1>1, <1>2 DEF Still, Holding

\* Steps of the sequence that save it.
LEMMA SavingStill ==
    ASSUME TypeInv, TypeInv',
           \/ ExecuteSequence \/ EnterStage \/ CrossPonr \/ SavePostShutdown
           \/ ToWakeGate \/ HandleAbort \/ AllSettled \/ GateOpens \/ CloseSequence
    PROVE  Still
<1> USE DEF ExecuteSequence, EnterStage, CrossPonr, SavePostShutdown, ToWakeGate,
            HandleAbort, AllSettled, GateOpens, CloseSequence
<1>0. seq \in Sequence
  BY DEF TypeInv, TypeOK
<1>1. seq'.id = seq.id
  BY <1>0 DEF Sequence
<1>2. /\ Holding /\ UNCHANGED <<told, task>>
      /\ Commit(SaveSequence(db, seq')) \/ Durably(SaveSequence(db, seq'))
  BY DEF Holding, control, world
<1>3. StoreStill /\ db'.row[seq.id] = seq'
  BY <1>1, <1>2, SaveStill
<1>4. pc' = "release" => seq'.state \notin LiveStates
  <2>1. pc' = "release" => CloseSequence
    OBVIOUS
  <2>2. CloseSequence => seq'.state \in FinalStates
    BY <1>0 DEF Sequence, FinalStates
  <2> QED
    BY <2>1, <2>2 DEF FinalStates, LiveStates
<1> QED
  BY <1>1, <1>2, <1>3, <1>4 DEF Still

\* Steps of the sequence that write nothing.
LEMMA MovingStill ==
    ASSUME TypeInv,
           \/ WhenHolds \/ StageForced \/ StageAborted \/ StageHeld \/ ClaimPostShutdown
           \/ SkipPostShutdown \/ ExecutePostShutdown \/ GateAbandoned \/ WakeAbandoned
           \/ WakeFinished \/ ResumeStages \/ Reconciled
           \/ \E c \in Clients : SpareClient(c) \/ BeginWake(c)
    PROVE  Still
<1> USE DEF WhenHolds, StageForced, StageAborted, StageHeld, ClaimPostShutdown,
            SkipPostShutdown, ExecutePostShutdown, GateAbandoned, WakeAbandoned,
            WakeFinished, ResumeStages, Reconciled, SpareClient, BeginWake
<1>0. seq \in Sequence /\ task \in [Clients -> Tasks]
  BY DEF TypeInv, TypeOK
<1>1. StoreStill
  BY UnchangedStill
<1>2. seq'.id = seq.id
  BY <1>0 DEF Sequence
<1>3. Holding /\ pc' # "release" /\ UNCHANGED told
  BY DEF Holding, Proceeding, WakeTurn, world
<1>4. \A x \in Clients : task'[x] \in Claimed \cup Journaled => task'[x] = task[x]
  BY <1>0 DEF control, Claimed, Journaled
<1> QED
  BY <1>1, <1>2, <1>3, <1>4 DEF Still

\* Steps of the sequence that write records other than its row.
LEMMA RecordingStill ==
    ASSUME TypeInv,
           \/ StageSkipped \/ DispatchStage \/ JoinStage
           \/ \E c \in Clients : \/ SettleTimeout(c) \/ DependencyDown(c)
                                 \/ Reconcile(c) \/ RecordReconciled(c)
    PROVE  Still
<1>0. /\ TypeOK /\ db \in Database /\ task \in [Clients -> Tasks]
      /\ pc \notin {"off", "idle"} => seq.id \in SeqIds
      /\ pc \in {"wait", "dispatch", "join"} => stage \in StageIds
  BY DEF TypeInv, TypeOK, Located
<1>1. CASE StageSkipped \/ DispatchStage \/ JoinStage
  <2>1. /\ seq.id \in SeqIds /\ stage \in StageIds
        /\ \/ Commit(SaveStageCompleted(db, seq.id, stage))
           \/ Commit(SaveStageStarted(db, seq.id, stage))
    BY <1>0, <1>1 DEF StageSkipped, DispatchStage, JoinStage
  <2>2. StoreStill
    BY <1>0, <2>1, RowsKept, LocksUntouched, CommitStill
  <2>3. \A x \in Clients : task'[x] \in Claimed \cup Journaled => task'[x] = task[x]
    BY <1>0, <1>1 DEF StageSkipped, DispatchStage, JoinStage, Claimed, Journaled
  <2> QED
    BY <1>1, <2>2, <2>3 DEF StageSkipped, DispatchStage, JoinStage, Still, Holding, world
<1>2. ASSUME NEW c \in Clients, SettleTimeout(c) \/ DependencyDown(c) PROVE Still
  <2>1. StoreStill
    BY <1>0, <1>2, ClientStateStill DEF SettleTimeout, DependencyDown, ClientStates
  <2> QED
    BY <1>2, <2>1 DEF SettleTimeout, DependencyDown, WakeTurn, Still, Holding, control, world
<1>3. ASSUME NEW c \in Clients, Reconcile(c) PROVE Still
  <2>1. PICK s \in {"down_unverified"} \cup (IF c \in Blind THEN {} ELSE Reports(c)) :
          SetClientState(c, s)
    BY <1>3 DEF Reconcile
  <2>2. s \in ClientStates
    BY <1>0 DEF Reports, ClientStates, TypeOK
  <2>3. StoreStill
    BY <1>0, <2>1, <2>2, ClientStateStill
  <2>4. \A x \in Clients : task'[x] \in Claimed \cup Journaled => task'[x] = task[x]
    BY <1>0, <1>3 DEF Reconcile, Claimed, Journaled
  <2> QED
    BY <1>3, <2>3, <2>4 DEF Reconcile, Still, Holding, world
<1>4. ASSUME NEW c \in Clients, RecordReconciled(c) PROVE Still
  <2>1. StoreStill
    BY <1>0, <1>4, IntentStill DEF RecordReconciled, IntentStates
  <2>2. \A x \in Clients : task'[x] \in Claimed \cup Journaled => task'[x] = task[x]
    BY <1>0, <1>4 DEF RecordReconciled, Claimed, Journaled
  <2> QED
    BY <1>4, <2>1, <2>2 DEF RecordReconciled, Still, Holding, world
<1> QED
  BY <1>1, <1>2, <1>3, <1>4

LEMMA LeavingStill ==
    ASSUME TypeInv, Crash \/ StartIdle
    PROVE  Still
<1>1. StoreStill
  BY UnchangedStill DEF Crash, StartIdle
<1>2. pc' \in {"off", "idle"} /\ UNCHANGED told
  BY DEF Crash, Dies, StartIdle, Restarting, world
<1>3. \A c \in Clients : task'[c] \in Claimed \cup Journaled => task'[c] = task[c]
  BY DEF Crash, Dies, StartIdle, Restarting, Claimed, Journaled
<1> QED
  BY <1>1, <1>2, <1>3 DEF Still, Holding

(* The steps that are not. *)

\* A new sequence has told nobody.
LEMMA TriggerLocks ==
    ASSUME TypeInv, RecordInv, LockInv, Trigger PROVE LockInv'
<1> USE DEF Trigger, store, world
<1>1. seq'.id = nextId /\ nextId \in SeqIds /\ pc = "idle" /\ pc' = "start"
  BY DEF NoSequence
<1>2. told'[seq'.id] = {}
  BY <1>1, ConfigAssumption DEF RecordInv, Fresh, SeqIds
<1>3. \A c \in Clients : task'[c] \notin Claimed \cup Journaled
  BY <1>1, ClaimedInJoin
<1>4. LocksBack(db)' /\ LocksBack(disk)'
  BY DEF LockInv, LocksBack
<1> QED
  BY <1>1, <1>2, <1>3, <1>4 DEF LockInv, LocksStand

LEMMA LockClientLocks ==
    ASSUME TypeInv, LockInv, NEW c \in Clients, LockClient(c) PROVE LockInv'
<1> USE DEF LockClient, ShutdownStep, world
<1>0. /\ db \in Database /\ task \in [Clients -> Tasks] /\ pc = "join"
      /\ seq.id \in SeqIds /\ \A s \in SeqIds : s # 0
      /\ \A s \in SeqIds : told[s] \subseteq StageIds \X Clients
  BY ConfigAssumption DEF TypeInv, TypeOK, Located, ShutdownTasks, SeqIds
<1>1. db' = AcquireClientLock(db, c, seq.id) /\ (disk' = disk \/ disk' = db')
  BY CommitRow, CommitDisk
<1>2. db'.lock = [db.lock EXCEPT ![c] = seq.id] /\ db'.row = db.row
  <2>1. AcquireClientLock(db, c, seq.id).lock = [db.lock EXCEPT ![c] = seq.id]
    BY <1>0 DEF AcquireClientLock, Database
  <2>2. AcquireClientLock(db, c, seq.id).row = db.row
    BY <1>0, RowsKept, Zenon
  <2> QED
    BY <1>1, <2>1, <2>2, Zenon
<1>3. db.lock \in [Clients -> 0..MaxSeq] /\ db.lock[c] \in {0, seq.id}
  BY <1>0 DEF Database, CanLock
<1>4. \A x \in Clients : \A s \in SeqIds : db.lock[x] = s => db'.lock[x] = s
  BY <1>0, <1>2, <1>3
<1>5. LocksBack(db)'
  BY <1>0, <1>2, <1>4 DEF LockInv, LocksBack
<1>6. LocksBack(disk)'
  BY <1>1, <1>5 DEF LockInv, LocksBack
<1>7. \A t \in told'[seq'.id] : db'.lock[t[2]] = seq'.id
  BY <1>0, <1>4 DEF LockInv, LocksStand, Holding
<1>8. ASSUME NEW x \in Clients
      PROVE  /\ task'[x] \in Claimed => db'.lock[x] = seq'.id
             /\ task'[x] \in Journaled => disk'.lock[x] = seq'.id
  <2>1. CASE x = c
    BY <1>0, <1>2, <1>3, <2>1 DEF Claimed, Journaled
  <2>2. CASE x # c
    <3>1. task'[x] = task[x] /\ db'.lock[x] = db.lock[x]
      BY <1>0, <1>2, <1>3, <2>2
    <3>2. Journaled \subseteq Claimed
      BY DEF Journaled, Claimed
    <3> QED
      BY <1>1, <3>1, <3>2 DEF LockInv, LocksStand
  <2> QED
    BY <2>1, <2>2
<1> QED
  BY <1>0, <1>5, <1>6, <1>7, <1>8 DEF LockInv, LocksStand

\* The sync of the intent takes the lock to the disk with it.
LEMMA JournalIntentLocks ==
    ASSUME TypeInv, LockInv, NEW c \in Clients, JournalIntent(c) PROVE LockInv'
<1> USE DEF JournalIntent, ShutdownStep, world
<1>0. /\ db \in Database /\ task \in [Clients -> Tasks] /\ pc = "join"
      /\ seq.id \in SeqIds
  BY DEF TypeInv, TypeOK, Located, ShutdownTasks
<1>1. db' = SaveIntent(db, seq.id, c, "dispatching") /\ disk' = db'
  BY DEF Durably
<1>2. db'.lock = db.lock /\ db'.row = db.row
  BY <1>0, <1>1, LocksUntouched, RowsKept DEF IntentStates
<1>3. LocksBack(db)' /\ LocksBack(disk)'
  BY <1>1, <1>2 DEF LockInv, LocksBack
<1>4. \A x \in Clients : task'[x] \in Claimed => task[x] \in Claimed
  BY <1>0 DEF Claimed
<1>5. Journaled \subseteq Claimed
  BY DEF Journaled, Claimed
<1> QED
  BY <1>0, <1>1, <1>2, <1>3, <1>4, <1>5 DEF LockInv, LocksStand, Holding

\* The command goes to a host whose lock is on the disk.
LEMMA ExecuteShutdownLocks ==
    ASSUME TypeInv, LockInv, NEW c \in Clients, ExecuteShutdown(c) PROVE LockInv'
<1> USE DEF ExecuteShutdown, ShutdownStep, store
<1>0. /\ task \in [Clients -> Tasks] /\ pc = "join" /\ seq.id \in SeqIds
      /\ told \in [SeqIds -> SUBSET (StageIds \X Clients)]
  BY DEF TypeInv, TypeOK, Located, ShutdownTasks
<1>1. db.lock[c] = seq.id /\ disk.lock[c] = seq.id
  BY DEF LockInv, LocksStand, Claimed, Journaled
<1>2. \A s \in SeqIds : \A t \in told'[s] :
         t \in told[s] \/ (s = seq.id /\ t[2] = c)
  BY <1>0
<1>3. LocksBack(db)' /\ LocksBack(disk)'
  BY <1>1, <1>2 DEF LockInv, LocksBack
<1>4. \A t \in told'[seq'.id] : db'.lock[t[2]] = seq'.id
  BY <1>0, <1>1, <1>2 DEF LockInv, LocksStand, Holding
<1>5. \A x \in Clients : /\ task'[x] \in Claimed => task[x] \in Claimed
                         /\ task'[x] \in Journaled => task[x] \in Journaled
  BY <1>0 DEF Claimed, Journaled
<1> QED
  BY <1>0, <1>3, <1>4, <1>5 DEF LockInv, LocksStand

\* Locks are let go under a final row.
LEMMA LettingGo ==
    ASSUME TypeInv, LockInv, NEW n \in SeqIds, disk' = disk \/ disk' = db',
           UNCHANGED told, pc' = "idle", \A c \in Clients : task'[c] \notin Claimed \cup Journaled,
           db'.lock = ReleaseSequenceLocks(db, n).lock,
           db'.row[n].state \notin LiveStates,
           \A s \in SeqIds \ {n} : db'.row[s] = db.row[s]
    PROVE  LockInv'
<1>0. db \in Database /\ told \in [SeqIds -> SUBSET (StageIds \X Clients)]
  BY DEF TypeInv, TypeOK
<1>1. db'.lock = [c \in Clients |-> IF db.lock[c] = n THEN 0 ELSE db.lock[c]]
  BY <1>0, LocksReleased
<1>2. LocksBack(db)'
  BY <1>0, <1>1 DEF LockInv, LocksBack
<1>3. LocksBack(disk)'
  BY <1>2 DEF LockInv, LocksBack
<1> QED
  BY <1>2, <1>3 DEF LockInv, LocksStand, Holding

LEMMA ReleaseLocks ==
    ASSUME TypeInv, LockInv, ReleaseSequence PROVE LockInv'
<1> USE DEF ReleaseSequence, world
<1>0. db \in Database /\ seq.id \in SeqIds
  BY DEF TypeInv, TypeOK, Located
<1>1. db' = ReleaseSequenceLocks(db, seq.id) /\ (disk' = disk \/ disk' = db')
  BY CommitRow, CommitDisk
<1>2. db'.row = db.row
  BY <1>0, <1>1, RowsKept
<1>3. \A c \in Clients : task'[c] \notin Claimed \cup Journaled
  BY ClaimedInJoin
<1>4. db.row[seq.id].state \notin LiveStates
  BY DEF LockInv, LocksStand
<1> QED
  BY <1>0, <1>1, <1>2, <1>3, <1>4, LettingGo

LEMMA OrphanLocks ==
    ASSUME TypeInv, LockInv, StartOrphan PROVE LockInv'
<1> USE DEF StartOrphan, Restarting, world
<1> DEFINE n == Newest(ActiveRows(db))
<1>0. db \in Database /\ n \in SeqIds
  BY NewestExists DEF TypeInv, TypeOK, ActiveRows
<1>1. db' = FailOrphanedSequence(db, n) /\ (disk' = disk \/ disk' = db')
  BY CommitRow, CommitDisk
<1> HIDE DEF n
<1>2. db'.lock = ReleaseSequenceLocks(db, n).lock
  BY <1>0, <1>1, LocksReleased
<1>3. db'.row = [db.row EXCEPT ![n].state = "failed"]
  BY <1>0, <1>1 DEF FailOrphanedSequence, ReleaseSequenceLocks, Database
<1>4. db.row \in [SeqIds -> Sequence]
  BY <1>0 DEF Database
<1>5. /\ db'.row[n].state \notin LiveStates
      /\ \A s \in SeqIds \ {n} : db'.row[s] = db.row[s]
  BY <1>0, <1>3, <1>4 DEF Sequence, LiveStates
<1>6. \A c \in Clients : task'[c] \notin Claimed \cup Journaled
  BY ClaimedInJoin
<1> QED
  BY <1>0, <1>1, <1>2, <1>5, <1>6, LettingGo

\* A resumed sequence finds its locks, since its row is unfinished.
LEMMA ResumeLocks ==
    ASSUME TypeInv, LockInv, StartResume PROVE LockInv'
<1> USE DEF StartResume, Restarting, store, world
<1>1. Newest(ActiveRows(db)) \in SeqIds /\ seq'.state \in LiveStates
  BY NewestExists DEF ActiveRows
<1>2. seq'.id = Newest(ActiveRows(db)) /\ db.row[seq'.id].state \in LiveStates
  BY <1>1 DEF TypeInv, Sound, WellKeyed, LiveStates
<1>3. \A c \in Clients : task'[c] \notin Claimed \cup Journaled
  BY ClaimedInJoin
<1>4. LocksBack(db)' /\ LocksBack(disk)'
  BY DEF LockInv, LocksBack
<1>5. \A t \in told'[seq'.id] : db'.lock[t[2]] = seq'.id
  BY <1>1, <1>2 DEF LockInv, LocksBack
<1>6. pc' # "release"
  OBVIOUS
<1> QED
  BY <1>3, <1>4, <1>5, <1>6 DEF LockInv, LocksStand

LEMMA PowerLossLocks ==
    ASSUME LockInv, PowerLoss PROVE LockInv'
<1> USE DEF PowerLoss, Dies, world
<1>1. LocksBack(db)' /\ LocksBack(disk)'
  BY DEF LockInv, LocksBack
<1> QED
  BY <1>1 DEF LockInv, LocksStand, Holding, Claimed, Journaled

LEMMA LockInvInit == Init => LockInv
BY DEF Init, LockInv, LocksBack, LocksStand, Holding, Claimed, Journaled

LEMMA LockInvStep ==
    ASSUME TypeInv, TypeInv', RecordInv, LockInv, [Next]_vars
    PROVE  LockInv'
<1>1. CASE SequenceStep
  BY <1>1, SavingStill, MovingStill, RecordingStill, StillStep, ReleaseLocks DEF SequenceStep
<1>2. ASSUME NEW c \in Clients, ShutdownClient(c) PROVE LockInv'
  BY <1>2, ShutdownClientStill, StillStep, LockClientLocks, JournalIntentLocks,
     ExecuteShutdownLocks DEF ShutdownClient
<1> QED
  BY <1>1, <1>2, WakeClientStill, BesideStill, LeavingStill, StillStep, TriggerLocks,
     OrphanLocks, ResumeLocks, PowerLossLocks DEF Next

\* As long as a sequence is unfinished, in the database or on the disk a power
\* cut would leave, every host it has told to shut down is locked for it:
\* whatever plan, faults and number of sequences (shutdownClient,
\* completeSequence, failOrphanedSequence).
THEOREM ToldHostsAreLocked == Spec => []ToldIsLocked
<1>1. LockInv => ToldIsLocked
  BY DEF LockInv, LocksBack, ToldIsLocked
<1>2. RecordInv /\ LockInv /\ TypeInv /\ [Next]_vars => LockInv'
  BY LockInvStep, TypeInvStep
<1>3. TypeInv /\ RecordInv /\ [Next]_vars => RecordInv'
  BY RecordInvStep, TypeInvStep
<1> QED
  BY <1>1, <1>2, <1>3, TypeInvInit, TypeInvStep, RecordInvInit, LockInvInit, PTL DEF Spec
==============================================================================
