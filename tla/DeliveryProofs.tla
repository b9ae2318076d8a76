--------------------------- MODULE DeliveryProofs ---------------------------
(***************************************************************************)
(* Proofs that runDaemon takes down what it has started, and that every    *)
(* notification accepted was tried by then, for any number of goroutines,  *)
(* webhooks, workers and browsers, any depth of the queue and any moment   *)
(* of a failed start or a stop.                                            *)
(***************************************************************************)
EXTENDS Delivery, SequenceTheorems, TLAPS

------------------------------------------------------------------------------
(* The inductive invariant *)

\* What runDaemon has deferred, as far as it got.
OpenOnly == <<"db">>
WithSources == <<"sources", "db">>
WithNotifier == <<"notifier", "sources", "db">>
Calls == {"db", "sources", "notifier"}
Stacks == {<<>>, OpenOnly, WithSources, WithNotifier}

Starting == {"config", "open", "build", "sources", "notifier"}
Living == {"executor", "up", "stop server", "close sockets"}
Leaving == {"unwind", "returned"}

DeferredInv ==
    /\ main \in Starting \cup Living \cup Leaving
    /\ deferred \in Stacks
    /\ main \in {"config", "open", "returned"} => deferred = <<>>
    /\ main \in {"build", "sources"} => deferred = OpenOnly
    /\ main = "notifier" => deferred = WithSources
    /\ main \in Living => deferred = (IF Hooks = <<>> THEN WithSources ELSE WithNotifier)
    /\ db => deferred # <<>>
    /\ forwarder = "runs" => deferred \in {WithSources, WithNotifier}

\* Nothing has been queued and nobody is about to queue anything.
Quiet ==
    /\ queue = <<>> /\ accepted = {}
    /\ \A w \in Workers : worker[w].at = "none"
    /\ \A e \in Emitters : \/ emitter[e].at = "none"
                           \/ Hooks = <<>> /\ (emitter[e].at = "hooks" => emitter[e].left = <<>>)

\* The notifier was closed and its workers have ended.
Drained == closed /\ \A w \in Workers : worker[w].at = "gone"

\* The notifier was never started, or is still to be closed, or is done.
NotifierInv ==
    /\ main \in Starting \/ Hooks = <<>> => Quiet
    /\ main \in Leaving => Quiet \/ deferred = WithNotifier \/ Drained

\* A notification is in the queue, with a worker, or tried.
Sending(d) == \E w \in Workers : worker[w].at = "sends" /\ worker[w].delivery = d
Queued(d) == \E i \in 1..Len(queue) : queue[i] = d

QueueInv ==
    /\ DOMAIN worker = Workers /\ DOMAIN emitter = Emitters
    /\ queue \in Seq(accepted)
    /\ \A d \in accepted : d \in attempted \/ Queued(d) \/ Sending(d)
    /\ attempted \subseteq accepted
    /\ \A w \in Workers : worker[w].at = "sends" => worker[w].delivery \in accepted
    /\ \A w \in Workers : worker[w].at = "gone" => closed /\ queue = <<>>

Inv == DeferredInv /\ NotifierInv /\ QueueInv /\ PanicOnlyAfterClose

------------------------------------------------------------------------------
(* The deferred calls *)

LEMMA PushOne ==
    ASSUME NEW s \in Seq(Calls), NEW u \in Seq(Calls), NEW t \in Seq(Calls),
           Len(s) = 1, Len(t) = Len(u) + 1, t[1] = s[1],
           \A i \in 1..Len(u) : t[i + 1] = u[i]
    PROVE  s \o u = t
<1> DEFINE v == s \o u
<1>1. /\ v \in Seq(Calls) /\ Len(v) = Len(s) + Len(u)
      /\ \A i \in 1..Len(s) + Len(u) : v[i] = IF i <= Len(s) THEN s[i] ELSE u[i - Len(s)]
  BY ConcatProperties
<1> HIDE DEF v
<1>2. Len(u) \in Nat /\ Len(v) = Len(t)
  BY <1>1, LenProperties
<1>3. ASSUME NEW i \in 1..Len(v)
      PROVE  v[i] = t[i]
  <2>1. CASE i = 1
    BY <1>1, <1>2, <2>1
  <2>2. CASE i # 1
    <3>1. i - 1 \in 1..Len(u) /\ (i - 1) + 1 = i
      BY <1>1, <1>2, <1>3, <2>2
    <3>2. t[i] = u[i - 1]
      BY <3>1
    <3> QED
      BY <1>1, <1>2, <1>3, <2>2, <3>2
  <2> QED
    BY <2>1, <2>2
<1> QED
  BY <1>1, <1>2, <1>3, SeqEqual DEF v

LEMMA StackSteps ==
    /\ <<>> \o <<>> = <<>> /\ <<"db">> \o <<>> = OpenOnly
    /\ <<>> \o OpenOnly = OpenOnly /\ <<"sources">> \o OpenOnly = WithSources
    /\ <<>> \o WithSources = WithSources /\ <<"notifier">> \o WithSources = WithNotifier
    /\ <<>> \o WithNotifier = WithNotifier
<1>1. /\ <<>> \in Seq(Calls) /\ OpenOnly \in Seq(Calls)
      /\ WithSources \in Seq(Calls) /\ WithNotifier \in Seq(Calls)
  BY DEF OpenOnly, WithSources, WithNotifier, Calls
<1>2. \A q \in Seq(Calls) : <<>> \o q = q /\ q \o <<>> = q
  BY ConcatEmptySeq
<1>3. <<"db">> \o <<>> = OpenOnly
  BY <1>1, <1>2 DEF OpenOnly
<1>4. <<"sources">> \o OpenOnly = WithSources
  <2> DEFINE s == <<"sources">>
  <2>1. /\ s \in Seq(Calls) /\ Len(s) = 1 /\ Len(OpenOnly) = 1
        /\ Len(WithSources) = 2 /\ WithSources[1] = s[1]
    BY DEF Calls, OpenOnly, WithSources
  <2>2. \A i \in 1..1 : WithSources[i + 1] = OpenOnly[i]
    BY DEF OpenOnly, WithSources
  <2>3. s \o OpenOnly = WithSources
    <3> HIDE DEF s
    <3>1. Len(WithSources) = Len(OpenOnly) + 1 /\ \A i \in 1..Len(OpenOnly) : WithSources[i + 1] = OpenOnly[i]
      BY <2>1, <2>2
    <3> QED
      BY <1>1, <2>1, <3>1, PushOne, Zenon
  <2> QED
    BY <2>3
<1>5. <<"notifier">> \o WithSources = WithNotifier
  <2> DEFINE s == <<"notifier">>
  <2>1. /\ s \in Seq(Calls) /\ Len(s) = 1 /\ Len(WithSources) = 2
        /\ Len(WithNotifier) = 3 /\ WithNotifier[1] = s[1]
    BY DEF Calls, WithSources, WithNotifier
  <2>2. \A i \in 1..2 : WithNotifier[i + 1] = WithSources[i]
    <3>1. WithNotifier[2] = WithSources[1] /\ WithNotifier[3] = WithSources[2]
      BY DEF WithSources, WithNotifier
    <3>2. \A i \in 1..2 : i = 1 \/ i = 2
      OBVIOUS
    <3> QED
      BY <3>1, <3>2
  <2>3. s \o WithSources = WithNotifier
    <3> HIDE DEF s
    <3>1. Len(WithNotifier) = Len(WithSources) + 1 /\ \A i \in 1..Len(WithSources) : WithNotifier[i + 1] = WithSources[i]
      BY <2>1, <2>2
    <3> QED
      BY <1>1, <2>1, <3>1, PushOne, Zenon
  <2> QED
    BY <2>3
<1> QED
  BY <1>1, <1>2, <1>3, <1>4, <1>5

LEMMA StackTops ==
    /\ Head(OpenOnly) = "db" /\ Tail(OpenOnly) = <<>>
    /\ Head(WithSources) = "sources" /\ Tail(WithSources) = OpenOnly
    /\ Head(WithNotifier) = "notifier" /\ Tail(WithNotifier) = WithSources
    /\ OpenOnly # <<>> /\ WithSources # <<>> /\ WithNotifier # <<>>
    /\ OpenOnly # WithSources /\ OpenOnly # WithNotifier /\ WithSources # WithNotifier
BY DEF OpenOnly, WithSources, WithNotifier

\* The call that is unwound tells what is left to unwind.
LEMMA UnwindsTo ==
    ASSUME DeferredInv, NEW c, Unwinds(c), deferred' = Tail(deferred)
    PROVE  /\ main = "unwind"
           /\ c = "db" => deferred = OpenOnly /\ deferred' = <<>>
           /\ c = "sources" => deferred = WithSources /\ deferred' = OpenOnly
           /\ c = "notifier" => deferred = WithNotifier /\ deferred' = WithSources
BY StackTops DEF Unwinds, DeferredInv, Stacks

------------------------------------------------------------------------------
(* The steps of runDaemon *)

LEMMA HooksUnchanged ==
    ASSUME QueueInv, PanicOnlyAfterClose, UNCHANGED <<hookVars, emitter, panicked>>
    PROVE  QueueInv' /\ PanicOnlyAfterClose' /\ Quiet' = Quiet /\ Drained' = Drained
BY DEF hookVars, QueueInv, Queued, Sending, PanicOnlyAfterClose, Quiet, Drained

\* Where a step of runDaemon takes it, apart from the ones that start the
\* notifier and the executor or close the queue.
LEMMA PlaceSteps ==
    ASSUME DeferredInv,
           \/ StartFails \/ LoadConfig \/ OpenDatabase \/ BuildSources \/ StartSources
           \/ StopExecutor \/ StopServer \/ Shutdown \/ StopSources \/ CloseDatabase \/ Return
           \/ AwaitWorkers
    PROVE  /\ DeferredInv'
           /\ UNCHANGED <<hookVars, emitter, panicked>>
           /\ \/ main \in Starting /\ main' \in Starting \cup {"unwind"}
              \/ main \in Living /\ main' \in Living
              \/ main \in Living /\ main' = "unwind" /\ deferred' = deferred
              \/ /\ main = "unwind" /\ main' \in Leaving
                 /\ deferred = WithNotifier => AwaitWorkers
<1> USE DEF Starting, Living, Leaving
<1>1. CASE StartFails
  BY <1>1 DEF StartFails, DeferredInv, emitVars
<1>2. CASE LoadConfig
  BY <1>2, StackSteps DEF LoadConfig, StartStep, DeferredInv, emitVars, Stacks
<1>3. CASE OpenDatabase
  BY <1>3, StackSteps, StackTops DEF OpenDatabase, StartStep, DeferredInv, emitVars, Stacks
<1>4. CASE BuildSources
  BY <1>4, StackSteps, StackTops DEF BuildSources, StartStep, DeferredInv, emitVars, Stacks
<1>5. CASE StartSources
  BY <1>5, StackSteps, StackTops DEF StartSources, StartStep, DeferredInv, emitVars, Stacks
<1>6. CASE StopExecutor \/ StopServer \/ Shutdown
  <2>1. /\ UNCHANGED <<deferred, db, forwarder, hookVars, emitter, panicked>>
        /\ main \in Living /\ main' \in Living \cup {"unwind"} /\ main' # "executor"
    BY <1>6 DEF StopExecutor, StopServer, Shutdown, emitVars
  <2>2. deferred = IF Hooks = <<>> THEN WithSources ELSE WithNotifier
    BY <2>1 DEF DeferredInv
  <2> QED
    BY <2>1, <2>2 DEF DeferredInv
<1>7. CASE AwaitWorkers
  <2>1. /\ main = "unwind" /\ main' = main /\ deferred' = WithSources
        /\ UNCHANGED <<db, forwarder, hookVars, emitter, panicked>>
    BY <1>7, UnwindsTo DEF AwaitWorkers, emitVars
  <2> QED
    BY <1>7, <2>1, StackTops DEF DeferredInv, Stacks
<1>8. CASE StopSources
  <2>1. /\ main = "unwind" /\ main' = main /\ deferred = WithSources /\ deferred' = OpenOnly
        /\ forwarder' = "gone" /\ UNCHANGED <<db, hookVars, emitter, panicked>>
    BY <1>8, UnwindsTo DEF StopSources, emitVars
  <2> QED
    BY <2>1, StackTops DEF DeferredInv, Stacks
<1>9. CASE CloseDatabase
  <2>1. /\ main = "unwind" /\ main' = main /\ deferred = OpenOnly /\ deferred' = <<>>
        /\ ~db' /\ UNCHANGED <<forwarder, hookVars, emitter, panicked>>
    BY <1>9, UnwindsTo DEF CloseDatabase, emitVars
  <2> QED
    BY <2>1, StackTops DEF DeferredInv, Stacks
<1>10. CASE Return
  BY <1>10, StackTops DEF Return, DeferredInv, emitVars
<1> QED
  BY <1>1, <1>2, <1>3, <1>4, <1>5, <1>6, <1>7, <1>8, <1>9, <1>10

LEMMA PlaceInv ==
    ASSUME Inv,
           \/ StartFails \/ LoadConfig \/ OpenDatabase \/ BuildSources \/ StartSources
           \/ StopExecutor \/ StopServer \/ Shutdown \/ StopSources \/ CloseDatabase \/ Return
           \/ AwaitWorkers
    PROVE  Inv'
<1>1. /\ DeferredInv' /\ UNCHANGED <<hookVars, emitter, panicked>>
      /\ \/ main \in Starting /\ main' \in Starting \cup {"unwind"}
         \/ main \in Living /\ main' \in Living
         \/ main \in Living /\ main' = "unwind" /\ deferred' = deferred
         \/ /\ main = "unwind" /\ main' \in Leaving
            /\ deferred = WithNotifier => AwaitWorkers
  BY PlaceSteps DEF Inv
<1>2. QueueInv' /\ PanicOnlyAfterClose' /\ Quiet' = Quiet /\ Drained' = Drained
  BY <1>1, HooksUnchanged DEF Inv
<1>3. AwaitWorkers => Drained
  BY DEF AwaitWorkers, Drained
<1>4. NotifierInv'
  <2>1. Starting \cap Living = {} /\ Starting \cap Leaving = {} /\ Living \cap Leaving = {}
    BY DEF Starting, Living, Leaving
  <2>2. CASE main \in Starting
    <3>1. Quiet
      BY <2>2 DEF Inv, NotifierInv
    <3> QED
      BY <1>2, <3>1 DEF NotifierInv
  <2>3. CASE Hooks = <<>>
    <3>1. Quiet
      BY <2>3 DEF Inv, NotifierInv
    <3> QED
      BY <1>2, <3>1 DEF NotifierInv
  <2>4. CASE main \in Living /\ main' \in Living /\ Hooks # <<>>
    BY <2>1, <2>4 DEF NotifierInv
  <2>5. CASE main \in Living /\ main' = "unwind" /\ deferred' = deferred /\ Hooks # <<>>
    <3>1. deferred' = WithNotifier
      BY <2>5 DEF Inv, DeferredInv
    <3> QED
      BY <2>5, <3>1 DEF NotifierInv, Starting
  <2>6. CASE main = "unwind" /\ main' \in Leaving /\ (deferred = WithNotifier => AwaitWorkers)
             /\ Hooks # <<>>
    <3>1. Quiet \/ Drained
      BY <1>3, <2>6 DEF Inv, NotifierInv, Leaving
    <3> QED
      BY <1>2, <2>1, <2>6, <3>1 DEF NotifierInv
  <2> QED
    BY <1>1, <2>2, <2>3, <2>4, <2>5, <2>6
<1> QED
  BY <1>1, <1>2, <1>4 DEF Inv

LEMMA StartNotifierStep ==
    ASSUME Inv, StartNotifier
    PROVE  Inv'
<1> USE DEF Starting, Living, Leaving
<1> DEFINE state == IF Hooks = <<>> THEN [at |-> "none"] ELSE Idle
<1>1. /\ main = "notifier" /\ main' = "executor"
      /\ deferred' = (IF Hooks = <<>> THEN <<>> ELSE <<"notifier">>) \o deferred
      /\ worker' = [w \in Workers |-> state]
      /\ UNCHANGED <<db, forwarder, queue, closed, accepted, attempted, emitter, panicked>>
  BY DEF StartNotifier, StartStep, emitVars
<1>2. state.at \in {"none", "idle"} /\ (Hooks = <<>> => state.at = "none")
  BY DEF Idle
<1>3. deferred = WithSources
  BY <1>1 DEF Inv, DeferredInv
<1>4. deferred' = IF Hooks = <<>> THEN WithSources ELSE WithNotifier
  BY <1>1, <1>3, StackSteps
<1>5. DeferredInv'
  BY <1>1, <1>4, StackTops DEF Inv, DeferredInv, Stacks
<1>6. Quiet
  BY <1>1 DEF Inv, NotifierInv
<1> HIDE DEF state
<1>7. DOMAIN worker' = Workers /\ \A w \in Workers : worker'[w] = state
  BY <1>1
<1>8. NotifierInv'
  BY <1>1, <1>2, <1>6, <1>7 DEF NotifierInv, Quiet
<1>9. QueueInv'
  <2>1. accepted' = {} /\ attempted' = {} /\ queue' = <<>>
    BY <1>1, <1>6 DEF Quiet, Inv, QueueInv
  <2>2. queue' \in Seq(accepted')
    BY <2>1, EmptySeq
  <2> QED
    BY <1>1, <1>2, <1>7, <2>1, <2>2 DEF Inv, QueueInv
<1> QED
  BY <1>1, <1>5, <1>8, <1>9 DEF Inv, PanicOnlyAfterClose

LEMMA StartExecutorStep ==
    ASSUME Inv, StartExecutor
    PROVE  Inv'
<1> USE DEF Starting, Living, Leaving
<1>1. /\ main = "executor" /\ main' = "up" /\ deferred' = <<>> \o deferred
      /\ emitter' = [e \in Emitters |-> Idle]
      /\ UNCHANGED <<db, forwarder, hookVars, panicked>>
  BY DEF StartExecutor, StartStep
<1>2. deferred \in {WithSources, WithNotifier}
  BY <1>1 DEF Inv, DeferredInv
<1>3. deferred' = deferred
  BY <1>1, <1>2, StackSteps
<1>4. DeferredInv'
  BY <1>1, <1>3 DEF Inv, DeferredInv
<1>5. \A e \in Emitters : emitter'[e].at = "idle"
  BY <1>1 DEF Idle
<1>6. NotifierInv'
  BY <1>1, <1>5 DEF Inv, NotifierInv, Quiet, hookVars
<1>7. QueueInv' /\ PanicOnlyAfterClose'
  BY <1>1 DEF Inv, QueueInv, Queued, Sending, PanicOnlyAfterClose, hookVars
<1> QED
  BY <1>4, <1>6, <1>7 DEF Inv

LEMMA CloseQueueStep ==
    ASSUME Inv, CloseQueue
    PROVE  Inv'
<1>1. /\ main = "unwind" /\ closed' = TRUE
      /\ UNCHANGED <<main, deferred, db, forwarder, emitter, queue, worker, accepted, attempted>>
  BY DEF CloseQueue, Unwinds, daemonVars, emitVars
<1>2. DeferredInv'
  BY <1>1 DEF Inv, DeferredInv
<1>3. Quiet' = Quiet /\ (Drained => Drained')
  BY <1>1 DEF Quiet, Drained
<1>4. NotifierInv'
  BY <1>1, <1>3 DEF Inv, NotifierInv
<1>5. QueueInv' /\ PanicOnlyAfterClose'
  BY <1>1 DEF Inv, QueueInv, Queued, Sending, PanicOnlyAfterClose
<1> QED
  BY <1>2, <1>4, <1>5 DEF Inv

\* Signals, connections and their pumps, and the closing of connections.
LEMMA ElsewhereInv ==
    ASSUME Inv, UNCHANGED <<main, deferred, db, forwarder, hookVars, emitter, panicked>>
    PROVE  Inv'
<1>1. QueueInv' /\ PanicOnlyAfterClose' /\ Quiet' = Quiet /\ Drained' = Drained
  BY HooksUnchanged DEF Inv
<1> QED
  BY <1>1 DEF Inv, DeferredInv, NotifierInv

------------------------------------------------------------------------------
(* Emission *)

LEMMA NobodyMatches ==
    ASSUME Hooks = <<>>, NEW t
    PROVE  Matching(t) = <<>>
BY DEF Matching

\* An emitter that moves on without offering anything.
LEMMA EmitterInv ==
    ASSUME Inv, NEW e \in Emitters, NEW next,
           emitter[e].at # "none",
           emitter' = [emitter EXCEPT ![e] = next],
           Hooks = <<>> => (next.at = "hooks" => next.left = <<>>),
           UNCHANGED <<main, deferred, db, forwarder, hookVars, panicked>>
    PROVE  Inv'
<1>1. DOMAIN emitter = Emitters
  BY DEF Inv, QueueInv
<1>2. DOMAIN emitter' = Emitters
      /\ \A o \in Emitters : emitter'[o] = IF o = e THEN next ELSE emitter[o]
  BY <1>1
<1>3. Quiet => Quiet'
  <2> SUFFICES ASSUME Quiet PROVE Quiet'
    OBVIOUS
  <2>1. Hooks = <<>>
    BY DEF Quiet
  <2>2. \A o \in Emitters : emitter'[o].at = "hooks" => emitter'[o].left = <<>>
    BY <1>2, <2>1 DEF Quiet
  <2> QED
    BY <2>1, <2>2 DEF Quiet, hookVars
<1>4. Drained' = Drained
  BY DEF Drained, hookVars
<1>5. DeferredInv' /\ NotifierInv'
  BY <1>3, <1>4 DEF Inv, DeferredInv, NotifierInv
<1>6. QueueInv' /\ PanicOnlyAfterClose'
  BY <1>2 DEF Inv, QueueInv, Queued, Sending, PanicOnlyAfterClose, hookVars
<1> QED
  BY <1>5, <1>6 DEF Inv

LEMMA EmitStep ==
    ASSUME Inv, NEW e \in Emitters, NEW t \in Types, Emit(e, t)
    PROVE  Inv'
<1> DEFINE next == [at |-> "hooks", event |-> count + 1, left |-> Matching(t)]
<1>1. emitter' = [emitter EXCEPT ![e] = next] /\ emitter[e].at = "idle"
      /\ UNCHANGED <<main, deferred, db, forwarder, hookVars, panicked>>
  BY DEF Emit, daemonVars
<1>2. next.left = Matching(t)
  OBVIOUS
<1>3. Hooks = <<>> => next.left = <<>>
  BY <1>2, NobodyMatches
<1> HIDE DEF next
<1> QED
  BY <1>1, <1>3, EmitterInv

LEMMA PushingAt ==
    ASSUME NEW left
    PROVE  Pushing(left).at # "hooks"
BY DEF Pushing, Idle

LEMMA BroadcastStep ==
    ASSUME Inv, NEW e \in Emitters,
           BeginBroadcast(e) \/ \E s \in Sockets : Broadcast(e, s)
    PROVE  Inv'
<1>1. /\ emitter[e].at # "none" /\ UNCHANGED <<main, deferred, db, forwarder, hookVars, panicked>>
      /\ \E left : emitter' = [emitter EXCEPT ![e] = Pushing(left)]
  BY DEF BeginBroadcast, Broadcast, PushTo, daemonVars
<1>2. PICK left : emitter' = [emitter EXCEPT ![e] = Pushing(left)]
  BY <1>1
<1> QED
  BY <1>1, <1>2, PushingAt, EmitterInv

\* A notification that is accepted is queued, and those before it stay.
LEMMA AppendQueue ==
    ASSUME QueueInv, NEW d, queue' = Append(queue, d), accepted' = accepted \cup {d},
           ~closed, UNCHANGED <<closed, worker, attempted>>, DOMAIN emitter' = Emitters
    PROVE  QueueInv'
<1>1. queue \in Seq(accepted') /\ d \in accepted'
  BY SeqMonotonic DEF QueueInv
<1>2. /\ queue' \in Seq(accepted')
      /\ Len(queue) \in Nat /\ Len(queue') = Len(queue) + 1
      /\ \A i \in 1..Len(queue) : queue'[i] = queue[i]
      /\ queue'[Len(queue) + 1] = d
  BY <1>1, AppendProperties, LenProperties
<1>3. \A c : Queued(c) => Queued(c)'
  <2> SUFFICES ASSUME NEW c, Queued(c) PROVE Queued(c)'
    OBVIOUS
  <2>1. PICK i \in 1..Len(queue) : queue[i] = c
    BY DEF Queued
  <2>2. i \in 1..Len(queue') /\ queue'[i] = c
    BY <1>2, <2>1
  <2> QED
    BY <2>2 DEF Queued
<1>4. Queued(d)'
  <2>1. Len(queue) + 1 \in 1..Len(queue')
    BY <1>2
  <2> QED
    BY <1>2, <2>1 DEF Queued
<1>5. \A c : Sending(c)' = Sending(c)
  BY DEF Sending
<1>6. \A c \in accepted' : c \in attempted' \/ Queued(c)' \/ Sending(c)'
  BY <1>3, <1>4, <1>5 DEF QueueInv
<1>7. /\ \A w \in Workers : worker'[w].at = "sends" => worker'[w].delivery \in accepted'
      /\ \A w \in Workers : worker'[w].at # "gone"
      /\ attempted' \subseteq accepted' /\ DOMAIN worker' = Workers
  BY DEF QueueInv
<1> QED
  BY <1>2, <1>6, <1>7 DEF QueueInv

LEMMA HandleEventStep ==
    ASSUME Inv, NEW e \in Emitters, HandleEvent(e)
    PROVE  Inv'
<1> DEFINE d == <<Head(emitter[e].left), emitter[e].event>>
<1>1. /\ emitter[e].at = "hooks" /\ emitter[e].left # <<>> /\ Offer(d)
      /\ UNCHANGED <<main, deferred, db, forwarder, closed, worker, attempted>>
  BY DEF HandleEvent, daemonVars
<1>2. DOMAIN emitter' = Emitters
  BY DEF HandleEvent, Inv, QueueInv
<1>3. ~Quiet
  BY <1>1 DEF Quiet
<1>4. Drained' = Drained
  BY <1>1 DEF Drained
<1>5. DeferredInv' /\ NotifierInv'
  BY <1>1, <1>3, <1>4 DEF Inv, DeferredInv, NotifierInv
<1> HIDE DEF d
<1>6. QueueInv'
  <2>1. CASE ~closed /\ queue' = Append(queue, d) /\ accepted' = accepted \cup {d}
    BY <1>1, <1>2, <2>1, AppendQueue DEF Inv
  <2>2. CASE UNCHANGED <<queue, accepted>>
    BY <1>1, <1>2, <2>2 DEF Inv, QueueInv, Queued, Sending
  <2> QED
    BY <1>1, <2>1, <2>2 DEF Offer
<1>7. PanicOnlyAfterClose'
  BY <1>1 DEF Inv, PanicOnlyAfterClose, Offer
<1> QED
  BY <1>5, <1>6, <1>7 DEF Inv

------------------------------------------------------------------------------
(* The workers *)

\* A worker that has been started, and what its steps leave alone.
WorkerFrame(w) ==
    /\ worker[w].at # "none"
    /\ UNCHANGED <<main, deferred, db, forwarder, emitter, closed, accepted, panicked>>

LEMMA WorkerInv ==
    ASSUME Inv, NEW w \in Workers, WorkerFrame(w), QueueInv',
           Drained => Drained'
    PROVE  Inv'
<1>1. ~Quiet
  BY DEF WorkerFrame, Quiet
<1>2. DeferredInv' /\ NotifierInv'
  BY <1>1 DEF WorkerFrame, Inv, DeferredInv, NotifierInv
<1>3. PanicOnlyAfterClose'
  BY DEF WorkerFrame, Inv, PanicOnlyAfterClose
<1> QED
  BY <1>2, <1>3 DEF Inv

LEMMA WorkerTakesStep ==
    ASSUME Inv, NEW w \in Workers, WorkerTakes(w)
    PROVE  Inv'
<1> DEFINE next == [at |-> "sends", delivery |-> Head(queue)]
<1>1. /\ worker[w].at = "idle" /\ queue # <<>> /\ queue' = Tail(queue)
      /\ worker' = [worker EXCEPT ![w] = next]
      /\ WorkerFrame(w) /\ attempted' = attempted
  BY DEF WorkerTakes, daemonVars, emitVars, WorkerFrame
<1>2. next.at = "sends" /\ next.delivery = Head(queue)
  OBVIOUS
<1> HIDE DEF next
<1>3. /\ DOMAIN worker' = Workers
      /\ \A v \in Workers : worker'[v] = IF v = w THEN next ELSE worker[v]
  BY <1>1 DEF Inv, QueueInv
<1>4. queue \in Seq(accepted) /\ Head(queue) \in accepted /\ queue' \in Seq(accepted)
      /\ Len(queue) \in Nat \ {0} /\ Len(queue') = Len(queue) - 1 /\ Head(queue) = queue[1]
      /\ \A i \in 1..Len(queue') : queue'[i] = queue[i + 1]
  BY <1>1, HeadTailProperties, EmptySeq, LenProperties DEF Inv, QueueInv
<1>5. \A c : Queued(c) => c = Head(queue) \/ Queued(c)'
  <2> SUFFICES ASSUME NEW c, Queued(c), c # Head(queue) PROVE Queued(c)'
    OBVIOUS
  <2>1. PICK i \in 1..Len(queue) : queue[i] = c
    BY DEF Queued
  <2>2. i # 1
    BY <1>4, <2>1
  <2>3. i - 1 \in 1..Len(queue') /\ (i - 1) + 1 = i
    BY <1>4, <2>2
  <2>4. queue'[i - 1] = c
    BY <1>4, <2>1, <2>3
  <2> QED
    BY <2>3, <2>4 DEF Queued
<1>6. \A c : Sending(c) => Sending(c)'
  BY <1>1, <1>3 DEF Sending
<1>7. \A c : c = Head(queue) => Sending(c)'
  BY <1>2, <1>3 DEF Sending
<1>8. \A c \in accepted : c \in attempted \/ Queued(c)' \/ Sending(c)'
  BY <1>5, <1>6, <1>7 DEF Inv, QueueInv
<1>9. /\ accepted' = accepted /\ closed' = closed /\ emitter' = emitter
  BY <1>1 DEF WorkerFrame
<1>10. \A v \in Workers : worker[v].at # "gone"
  BY <1>1 DEF Inv, QueueInv
<1>11. QueueInv'
  BY <1>1, <1>2, <1>3, <1>4, <1>8, <1>9, <1>10 DEF Inv, QueueInv
<1>12. ~Drained
  BY <1>1 DEF Drained
<1> QED
  BY <1>1, <1>11, <1>12, WorkerInv

LEMMA WorkerSentStep ==
    ASSUME Inv, NEW w \in Workers, WorkerSent(w)
    PROVE  Inv'
<1>1. /\ worker[w].at = "sends" /\ attempted' = attempted \cup {worker[w].delivery}
      /\ worker' = [worker EXCEPT ![w] = Idle]
      /\ WorkerFrame(w) /\ queue' = queue
  BY DEF WorkerSent, daemonVars, emitVars, WorkerFrame
<1>2. /\ DOMAIN worker' = Workers
      /\ \A v \in Workers : worker'[v] = IF v = w THEN Idle ELSE worker[v]
  BY <1>1 DEF Inv, QueueInv
<1>3. Idle.at = "idle"
  BY DEF Idle
<1>4. \A c : Sending(c) => c = worker[w].delivery \/ Sending(c)'
  BY <1>2 DEF Sending
<1>5. \A c : Queued(c)' = Queued(c)
  BY <1>1 DEF Queued
<1>6. \A c \in accepted : c \in attempted' \/ Queued(c)' \/ Sending(c)'
  BY <1>1, <1>4, <1>5 DEF Inv, QueueInv
<1>7. accepted' = accepted /\ closed' = closed /\ emitter' = emitter
  BY <1>1 DEF WorkerFrame
<1>8. QueueInv'
  BY <1>1, <1>2, <1>3, <1>6, <1>7 DEF Inv, QueueInv
<1>9. ~Drained
  BY <1>1 DEF Drained
<1> QED
  BY <1>1, <1>8, <1>9, WorkerInv

LEMMA WorkerEndsStep ==
    ASSUME Inv, NEW w \in Workers, WorkerEnds(w)
    PROVE  Inv'
<1> DEFINE next == [at |-> "gone"]
<1>1. /\ worker[w].at = "idle" /\ closed /\ queue = <<>>
      /\ worker' = [worker EXCEPT ![w] = next]
      /\ WorkerFrame(w) /\ queue' = queue /\ attempted' = attempted
  BY DEF WorkerEnds, daemonVars, emitVars, WorkerFrame
<1>2. next.at = "gone"
  OBVIOUS
<1> HIDE DEF next
<1>3. /\ DOMAIN worker' = Workers
      /\ \A v \in Workers : worker'[v] = IF v = w THEN next ELSE worker[v]
  BY <1>1 DEF Inv, QueueInv
<1>4. \A c : (Sending(c) => Sending(c)') /\ Queued(c)' = Queued(c)
  BY <1>1, <1>3 DEF Sending, Queued
<1>5. accepted' = accepted /\ closed' = closed /\ emitter' = emitter
  BY <1>1 DEF WorkerFrame
<1>6. QueueInv'
  BY <1>1, <1>2, <1>3, <1>4, <1>5 DEF Inv, QueueInv
<1>7. ~Drained
  BY <1>1 DEF Drained
<1> QED
  BY <1>1, <1>6, <1>7, WorkerInv

------------------------------------------------------------------------------
(* The theorems *)

LEMMA InitInv == Init => Inv
<1> SUFFICES ASSUME Init PROVE Inv
  OBVIOUS
<1>1. \A w \in Workers : worker[w].at = "none"
  BY DEF Init
<1>2. \A e \in Emitters : emitter[e].at = "none"
  BY DEF Init
<1>3. DeferredInv
  BY DEF Init, DeferredInv, Stacks, Starting, Living
<1>4. NotifierInv
  BY <1>1, <1>2 DEF Init, NotifierInv, Quiet, Leaving
<1>5. QueueInv
  <2>1. queue \in Seq(accepted)
    BY EmptySeq DEF Init
  <2> QED
    BY <1>1, <2>1 DEF Init, QueueInv
<1> QED
  BY <1>3, <1>4, <1>5 DEF Init, Inv, PanicOnlyAfterClose

LEMMA InvStep == Inv /\ [Next]_vars => Inv'
<1> SUFFICES ASSUME Inv, [Next]_vars PROVE Inv'
  OBVIOUS
<1>1. CASE Daemon
  <2>1. ASSUME NEW s \in Sockets, CloseSocket(s)
        PROVE  Inv'
    BY <2>1, ElsewhereInv DEF CloseSocket, emitVars
  <2> QED
    BY <1>1, <2>1, PlaceInv, StartNotifierStep, StartExecutorStep, CloseQueueStep DEF Daemon
<1>2. CASE Signal
  BY <1>2, ElsewhereInv DEF Signal, emitVars
<1>3. ASSUME NEW e \in Emitters, NEW t \in Types, Emit(e, t)
      PROVE  Inv'
  BY <1>3, EmitStep
<1>4. ASSUME NEW e \in Emitters, Emission(e)
      PROVE  Inv'
  BY <1>4, HandleEventStep, BroadcastStep DEF Emission
<1>5. ASSUME NEW w \in Workers, Worker(w)
      PROVE  Inv'
  BY <1>5, WorkerTakesStep, WorkerSentStep, WorkerEndsStep DEF Worker
<1>6. ASSUME NEW s \in Sockets,
             \/ Upgrade(s) \/ Handler(s) \/ WriteMessage(s) \/ WriteFails(s)
             \/ ReadFails(s) \/ Unregister(s)
      PROVE  Inv'
  <2>1. UNCHANGED <<daemonVars, hookVars, emitVars, panicked>>
    BY <1>6 DEF Upgrade, Handler, Register, StartPumps, WriteMessage, WriteFails, ReadFails,
       Unregister
  <2> QED
    BY <2>1, ElsewhereInv DEF daemonVars, emitVars
<1>7. CASE UNCHANGED vars
  BY <1>7, ElsewhereInv DEF vars, daemonVars, emitVars
<1> QED
  BY <1>1, <1>2, <1>3, <1>4, <1>5, <1>6, <1>7 DEF Next

LEMMA AlwaysInv == Spec => []Inv
BY InitInv, InvStep, PTL DEF Spec

\* However runDaemon comes to return, what it had started is taken down and no
\* notification is lost between the queue and the workers: the notifier's
\* Close waits for them, and they end only on an empty queue (main.go, Close).
THEOREM NothingIsLeftBehind == Spec => []ExitClean
<1>1. Inv => ExitClean
  <2> SUFFICES ASSUME Inv, main = "returned"
               PROVE  ~db /\ forwarder # "runs" /\ queue = <<>> /\ accepted = attempted
    BY DEF ExitClean
  <2>1. deferred = <<>>
    BY DEF Inv, DeferredInv
  <2>2. ~db /\ forwarder # "runs"
    BY <2>1, StackTops DEF Inv, DeferredInv
  <2>3. Quiet \/ Drained
    BY <2>1, StackTops DEF Inv, NotifierInv, Leaving
  <2>4. CASE Quiet
    BY <2>2, <2>4 DEF Quiet, Inv, QueueInv
  <2>5. CASE Drained
    <3>1. queue = <<>>
      BY <2>5, DeliveryAssumption DEF Drained, Inv, QueueInv
    <3>2. \A d : ~Queued(d) /\ ~Sending(d)
      BY <2>5, <3>1 DEF Drained, Queued, Sending
    <3>3. accepted \subseteq attempted
      BY <3>2 DEF Inv, QueueInv
    <3> QED
      BY <2>2, <3>1, <3>3 DEF Inv, QueueInv
  <2> QED
    BY <2>3, <2>4, <2>5
<1> QED
  BY <1>1, AlwaysInv, PTL

\* Only an emission after the notifier's Close can panic (HandleEvent sends on
\* a closed channel then); connecting, leaving and broadcasting never do.
THEOREM OnlyTheClosedQueuePanics == Spec => []PanicOnlyAfterClose
<1>1. Inv => PanicOnlyAfterClose
  BY DEF Inv
<1> QED
  BY <1>1, AlwaysInv, PTL
=============================================================================
