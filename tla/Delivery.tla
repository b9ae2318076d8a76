------------------------------ MODULE Delivery ------------------------------
(***************************************************************************)
(* The life of the daemon and of the events it sends out.  runDaemon       *)
(* (cmd/canarium/main.go) opens the database, the sources, the notifier,   *)
(* the API server and the executor, waits for a signal and takes them down *)
(* again, the deferred calls last in first out.  Meanwhile the goroutines  *)
(* of the executor emit events (executor.go emit): each goes to the        *)
(* webhook queue (internal/notify) and then to every WebSocket client      *)
(* (internal/api/websocket.go).                                            *)
(*                                                                         *)
(* A step is one channel operation, one critical section or one call that  *)
(* blocks.  A panic in any goroutine, or the return of runDaemon, ends the *)
(* process.                                                                *)
(***************************************************************************)
EXTENDS Naturals, Sequences, FiniteSets

CONSTANTS
    Emitters,    \* goroutines that emit: the sequence, the loops, handlers
    Hooks,       \* cfg.Canarium.Notifications.Webhooks, in order
    Wants,       \* events: of each webhook; empty for all
    Types,       \* event types
    Workers,     \* webhookWorkers, as a set of workers
    QueueDepth,  \* webhookQueueDepth
    Sockets,     \* WebSocket connections
    SendBuffer,  \* wsSendBuffer
    MaxEvents    \* bound: the events emitted

ASSUME DeliveryAssumption ==
    /\ Hooks \in Seq(STRING)
    /\ \A i \in 1..Len(Hooks) : Wants[i] \subseteq Types
    /\ {QueueDepth, SendBuffer} \subseteq Nat \ {0}
    /\ Workers # {}

VARIABLES
    main,       \* where runDaemon is
    deferred,   \* its deferred calls, the last one first
    cancelled,  \* the contexts that are cancelled
    db,         \* the database handle is open
    forwarder,  \* the goroutine of SourceManager.Start
    emitter,    \* what each emitting goroutine is doing
    count,      \* events emitted
    queue,      \* WebhookNotifier.queue
    closed,     \* it is closed
    worker,     \* what each delivery worker is doing
    socket,     \* the WebSocket connections
    clients,    \* Server.wsClients
    closing,    \* what closeWebSockets has still to close
    panicked,   \* a goroutine has panicked
    accepted,   \* notifications that entered the queue
    attempted   \* notifications a worker has tried to send

daemonVars == <<main, deferred, cancelled, db, forwarder, closing>>
hookVars == <<queue, closed, worker, accepted, attempted>>
hubVars == <<socket, clients>>
emitVars == <<emitter, count>>
vars == <<daemonVars, hookVars, hubVars, emitVars, panicked>>

Running == main # "returned" /\ ~panicked
HookIds == 1..Len(Hooks)
Idle == [at |-> "idle"]
Deliveries == HookIds \X (1..MaxEvents)

------------------------------------------------------------------------------
(* runDaemon *)

\* One step of the start, from place p to place q, that leaves d deferred.
StartStep(p, q, d) ==
    /\ Running
    /\ main = p
    /\ main' = q
    /\ deferred' = d \o deferred

\* Any of the calls that return an error makes runDaemon return it.
StartFails ==
    /\ Running
    /\ main \in {"config", "open", "build", "sources"}
    /\ main' = "unwind"
    /\ UNCHANGED <<deferred, cancelled, db, forwarder, closing>>
    /\ UNCHANGED <<hookVars, hubVars, emitVars, panicked>>

\* loadAndValidate succeeds, and signals are wired.
LoadConfig ==
    /\ StartStep("config", "open", <<>>)
    /\ UNCHANGED <<cancelled, db, forwarder, closing>>
    /\ UNCHANGED <<hookVars, hubVars, emitVars, panicked>>

\* state.Open; the dwell timers are restored and the executor is built.
OpenDatabase ==
    /\ StartStep("open", "build", <<"db">>)
    /\ db' = TRUE
    /\ UNCHANGED <<cancelled, forwarder, closing>>
    /\ UNCHANGED <<hookVars, hubVars, emitVars, panicked>>

BuildSources ==
    /\ StartStep("build", "sources", <<>>)
    /\ UNCHANGED <<cancelled, db, forwarder, closing>>
    /\ UNCHANGED <<hookVars, hubVars, emitVars, panicked>>

\* SourceManager.Start, and its goroutine.
StartSources ==
    /\ StartStep("sources", "notifier", <<"sources">>)
    /\ forwarder' = "runs"
    /\ UNCHANGED <<cancelled, db, closing>>
    /\ UNCHANGED <<hookVars, hubVars, emitVars, panicked>>

\* NewWebhookNotifier, if there are webhooks, and its workers.
StartNotifier ==
    /\ StartStep("notifier", "executor", IF Hooks = <<>> THEN <<>> ELSE <<"notifier">>)
    /\ worker' = [w \in Workers |-> IF Hooks = <<>> THEN [at |-> "none"] ELSE Idle]
    /\ UNCHANGED <<cancelled, db, forwarder, closing>>
    /\ UNCHANGED <<queue, closed, accepted, attempted, hubVars, emitVars, panicked>>

\* executor.Start and, on its own goroutine, server.Start.
StartExecutor ==
    /\ StartStep("executor", "up", <<>>)
    /\ emitter' = [e \in Emitters |-> Idle]
    /\ UNCHANGED <<cancelled, db, forwarder, closing>>
    /\ UNCHANGED <<hookVars, hubVars, count, panicked>>

\* SIGINT or SIGTERM cancels the context that runDaemon waits on and that
\* the sources run under.
Signal ==
    /\ Running
    /\ main # "config"
    /\ "signal" \notin cancelled
    /\ cancelled' = cancelled \cup {"signal"}
    /\ UNCHANGED <<main, deferred, db, forwarder, closing>>
    /\ UNCHANGED <<hookVars, hubVars, emitVars, panicked>>

\* <-ctx.Done(), then executor.Stop: the executor's context is cancelled and
\* nobody is waited for.
StopExecutor ==
    /\ Running
    /\ main = "up"
    /\ "signal" \in cancelled
    /\ cancelled' = cancelled \cup {"executor"}
    /\ main' = "stop server"
    /\ UNCHANGED <<deferred, db, forwarder, closing>>
    /\ UNCHANGED <<hookVars, hubVars, emitVars, panicked>>

\* Server.Stop: cancel, and closeWebSockets reads the connections.
StopServer ==
    /\ Running
    /\ main = "stop server"
    /\ cancelled' = cancelled \cup {"server"}
    /\ closing' = clients
    /\ main' = "close sockets"
    /\ UNCHANGED <<deferred, db, forwarder>>
    /\ UNCHANGED <<hookVars, hubVars, emitVars, panicked>>

\* wsClient.close: once, it closes done and the connection.
CloseClient(s) == [socket EXCEPT ![s].done = TRUE]

CloseSocket(s) ==
    /\ Running
    /\ main = "close sockets"
    /\ s \in closing
    /\ socket' = CloseClient(s)
    /\ closing' = closing \ {s}
    /\ UNCHANGED <<main, deferred, cancelled, db, forwarder>>
    /\ UNCHANGED <<hookVars, clients, emitVars, panicked>>

\* http.Server.Shutdown returns when the handlers have, or after
\* shutdownGrace, whichever is first; runDaemon returns.
Shutdown ==
    /\ Running
    /\ main = "close sockets"
    /\ closing = {}
    /\ main' = "unwind"
    /\ UNCHANGED <<deferred, cancelled, db, forwarder, closing>>
    /\ UNCHANGED <<hookVars, hubVars, emitVars, panicked>>

\* The next deferred call is c.
Unwinds(c) ==
    /\ Running
    /\ main = "unwind"
    /\ deferred # <<>>
    /\ Head(deferred) = c

\* Mutant of CloseQueue: the workers are waited for before the close.
CloseQueueLast ==
    /\ Unwinds("notifier")
    /\ ~closed
    /\ \A w \in Workers : worker[w].at = "gone"
    /\ closed' = TRUE
    /\ UNCHANGED <<daemonVars, hubVars, emitVars, panicked>>
    /\ UNCHANGED <<queue, worker, accepted, attempted>>

\* Mutant of AwaitWorkers: they are not waited for.
AwaitNobody ==
    /\ Unwinds("notifier")
    /\ closed
    /\ deferred' = Tail(deferred)
    /\ UNCHANGED <<main, cancelled, db, forwarder, closing>>
    /\ UNCHANGED <<hookVars, hubVars, emitVars, panicked>>

\* WebhookNotifier.Close closes the queue ...
CloseQueue ==
    /\ Unwinds("notifier")
    /\ ~closed
    /\ closed' = TRUE
    /\ UNCHANGED <<daemonVars, hubVars, emitVars, panicked>>
    /\ UNCHANGED <<queue, worker, accepted, attempted>>

\* ... and waits for the workers.
AwaitWorkers ==
    /\ Unwinds("notifier")
    /\ closed
    /\ \A w \in Workers : worker[w].at = "gone"
    /\ deferred' = Tail(deferred)
    /\ UNCHANGED <<main, cancelled, db, forwarder, closing>>
    /\ UNCHANGED <<hookVars, hubVars, emitVars, panicked>>

\* SourceManager.Stop cancels, stops the sources and waits for the forwarding
\* goroutine, which waits for nothing but its context and the next update.
StopSources ==
    /\ Unwinds("sources")
    /\ forwarder' = "gone"
    /\ deferred' = Tail(deferred)
    /\ UNCHANGED <<main, cancelled, db, closing>>
    /\ UNCHANGED <<hookVars, hubVars, emitVars, panicked>>

CloseDatabase ==
    /\ Unwinds("db")
    /\ db' = FALSE
    /\ deferred' = Tail(deferred)
    /\ UNCHANGED <<main, cancelled, forwarder, closing>>
    /\ UNCHANGED <<hookVars, hubVars, emitVars, panicked>>

Return ==
    /\ Running
    /\ main = "unwind"
    /\ deferred = <<>>
    /\ main' = "returned"
    /\ UNCHANGED <<deferred, cancelled, db, forwarder, closing>>
    /\ UNCHANGED <<hookVars, hubVars, emitVars, panicked>>

------------------------------------------------------------------------------
(* Events and webhooks *)

\* The webhooks an event of type t is for; without webhooks there is no
\* notifier to ask.
Matching(t) ==
    IF Hooks = <<>> THEN <<>>
    ELSE SelectSeq([i \in HookIds |-> i], LAMBDA i : Wants[i] = {} \/ t \in Wants[i])

\* A goroutine of the executor calls emit.  Cancelling the executor's context
\* does not keep it from that: a probe or a dispatch that the cancellation
\* interrupts returns an error, which becomes a client state and an event.
\* A goroutine that has ended is one that emits no more.
Emit(e, t) ==
    /\ Running
    /\ emitter[e].at = "idle"
    /\ count < MaxEvents
    /\ count' = count + 1
    /\ emitter' = [emitter EXCEPT ![e] =
                       [at |-> "hooks", event |-> count + 1, left |-> Matching(t)]]
    /\ UNCHANGED <<daemonVars, hookVars, hubVars, panicked>>

\* What HandleEvent does with the queue for one webhook: a send that does not
\* block, drops the notification when the queue is full, and panics when it
\* is closed.
Offer(d) ==
    \/ /\ closed
       /\ panicked' = TRUE
       /\ UNCHANGED <<queue, accepted>>
    \/ /\ ~closed
       /\ Len(queue) < QueueDepth
       /\ queue' = Append(queue, d)
       /\ accepted' = accepted \cup {d}
       /\ UNCHANGED panicked
    \/ /\ ~closed
       /\ Len(queue) = QueueDepth
       /\ UNCHANGED <<queue, accepted, panicked>>

\* HandleEvent, for the next webhook that wants the event.
HandleEvent(e) ==
    /\ Running
    /\ emitter[e].at = "hooks"
    /\ emitter[e].left # <<>>
    /\ Offer(<<Head(emitter[e].left), emitter[e].event>>)
    /\ emitter' = [emitter EXCEPT ![e].left = Tail(@)]
    /\ UNCHANGED <<daemonVars, hubVars, count, closed, worker, attempted>>

WorkerTakes(w) ==
    /\ Running
    /\ worker[w].at = "idle"
    /\ queue # <<>>
    /\ worker' = [worker EXCEPT ![w] = [at |-> "sends", delivery |-> Head(queue)]]
    /\ queue' = Tail(queue)
    /\ UNCHANGED <<daemonVars, hubVars, emitVars, closed, accepted, attempted, panicked>>

\* send returns: delivered, refused, or given up after webhookTimeout.
WorkerSent(w) ==
    /\ Running
    /\ worker[w].at = "sends"
    /\ attempted' = attempted \cup {worker[w].delivery}
    /\ worker' = [worker EXCEPT ![w] = Idle]
    /\ UNCHANGED <<daemonVars, hubVars, emitVars, queue, closed, accepted, panicked>>

\* range ends: the queue is closed and empty.
WorkerEnds(w) ==
    /\ Running
    /\ worker[w].at = "idle"
    /\ closed
    /\ queue = <<>>
    /\ worker' = [worker EXCEPT ![w] = [at |-> "gone"]]
    /\ UNCHANGED <<daemonVars, hubVars, emitVars, queue, closed, accepted, attempted, panicked>>

------------------------------------------------------------------------------
(* The WebSocket hub *)

\* An emitter with the clients in left still to push to.
Pushing(left) == IF left = {} THEN Idle ELSE [at |-> "sockets", left |-> left]

\* BroadcastEvent reads the connections there are.
BeginBroadcast(e) ==
    /\ Running
    /\ emitter[e].at = "hooks"
    /\ emitter[e].left = <<>>
    /\ emitter' = [emitter EXCEPT ![e] = Pushing(clients)]
    /\ UNCHANGED <<daemonVars, hookVars, hubVars, count, panicked>>

\* Mutants of PushTo: a send that waits for room, and one into a channel
\* that close() has closed as well.
PushToBlocks(s) ==
    /\ socket[s].pending < SendBuffer
    /\ socket' = [socket EXCEPT ![s].pending = @ + 1]
    /\ UNCHANGED panicked
PushToClosed(s) ==
    \/ /\ socket[s].pending < SendBuffer
       /\ ~socket[s].done
       /\ socket' = [socket EXCEPT ![s].pending = @ + 1]
       /\ UNCHANGED panicked
    \/ /\ panicked' = socket[s].done
       /\ UNCHANGED socket

\* The select of BroadcastEvent: into the buffer, or nothing for a client
\* that is going away or not keeping up.
PushTo(s) ==
    \/ /\ socket[s].pending < SendBuffer
       /\ socket' = [socket EXCEPT ![s].pending = @ + 1]
       /\ UNCHANGED panicked
    \/ /\ socket[s].done \/ socket[s].pending = SendBuffer
       /\ UNCHANGED <<socket, panicked>>

\* emit returns after the last of them.
Broadcast(e, s) ==
    /\ Running
    /\ emitter[e].at = "sockets"
    /\ s \in emitter[e].left
    /\ PushTo(s)
    /\ emitter' = [emitter EXCEPT ![e] = Pushing(emitter[e].left \ {s})]
    /\ UNCHANGED <<daemonVars, hookVars, clients, count>>

\* handleWebSocket: a request that checkOrigin lets through is upgraded ...
Upgrade(s) ==
    /\ Running
    /\ main \in {"up", "stop server", "close sockets"}
    /\ socket[s].handler = "none"
    /\ socket' = [socket EXCEPT ![s].handler = "upgraded"]
    /\ UNCHANGED <<daemonVars, hookVars, clients, emitVars, panicked>>

\* Mutant of Register: the pumps are started before.
RegisterLast(s) ==
    /\ Running
    /\ \/ /\ socket[s].handler = "upgraded"
          /\ socket' = [socket EXCEPT ![s].handler = "pumping", ![s].writer = "runs",
                                      ![s].reader = "runs"]
          /\ UNCHANGED clients
       \/ /\ socket[s].handler = "pumping"
          /\ socket' = [socket EXCEPT ![s].handler = "served"]
          /\ clients' = clients \cup {s}
    /\ UNCHANGED <<daemonVars, hookVars, emitVars, panicked>>

\* ... registered, which has it receive events ...
Register(s) ==
    /\ Running
    /\ socket[s].handler = "upgraded"
    /\ socket' = [socket EXCEPT ![s].handler = "registered"]
    /\ clients' = clients \cup {s}
    /\ UNCHANGED <<daemonVars, hookVars, emitVars, panicked>>

\* ... and given its two pumps.
StartPumps(s) ==
    /\ Running
    /\ socket[s].handler = "registered"
    /\ socket' = [socket EXCEPT ![s].handler = "served", ![s].writer = "runs",
                                ![s].reader = "runs"]
    /\ UNCHANGED <<daemonVars, hookVars, clients, emitVars, panicked>>

\* writePump takes a message and writes it ...
WriteMessage(s) ==
    /\ Running
    /\ socket[s].writer = "runs"
    /\ socket[s].pending > 0
    /\ ~socket[s].done
    /\ socket' = [socket EXCEPT ![s].pending = @ - 1]
    /\ UNCHANGED <<daemonVars, hookVars, clients, emitVars, panicked>>

\* ... until a write or a ping fails or times out; its defer closes.
WriteFails(s) ==
    /\ Running
    /\ socket[s].writer = "runs"
    /\ socket' = [CloseClient(s) EXCEPT ![s].writer = "gone"]
    /\ UNCHANGED <<daemonVars, hookVars, clients, emitVars, panicked>>

\* The server is stopping, or the client was closed.
WriterEnds(s) ==
    /\ socket[s].done \/ "server" \in cancelled
    /\ WriteFails(s)

\* ReadMessage fails: the peer left, was silent for wsPongTimeout, or the
\* connection is closed.  readPump's defer closes ...
ReadFails(s) ==
    /\ Running
    /\ socket[s].reader = "runs"
    /\ socket' = [CloseClient(s) EXCEPT ![s].reader = "leaving"]
    /\ UNCHANGED <<daemonVars, hookVars, clients, emitVars, panicked>>

\* ... and unregisters.
Unregister(s) ==
    /\ Running
    /\ socket[s].reader = "leaving"
    /\ socket' = [socket EXCEPT ![s].reader = "gone"]
    /\ clients' = clients \ {s}
    /\ UNCHANGED <<daemonVars, hookVars, emitVars, panicked>>

------------------------------------------------------------------------------
(* The specification *)

Init ==
    /\ main = "config"
    /\ deferred = <<>>
    /\ cancelled = {}
    /\ db = FALSE
    /\ forwarder = "none"
    /\ emitter = [e \in Emitters |-> [at |-> "none"]]
    /\ count = 0
    /\ queue = <<>>
    /\ closed = FALSE
    /\ worker = [w \in Workers |-> [at |-> "none"]]
    /\ socket = [s \in Sockets |-> [handler |-> "none", writer |-> "none",
                                    reader |-> "none", done |-> FALSE, pending |-> 0]]
    /\ clients = {}
    /\ closing = {}
    /\ panicked = FALSE
    /\ accepted = {}
    /\ attempted = {}

Daemon ==
    \/ StartFails \/ LoadConfig \/ OpenDatabase \/ BuildSources \/ StartSources
    \/ StartNotifier \/ StartExecutor \/ StopExecutor \/ StopServer
    \/ \E s \in Sockets : CloseSocket(s)
    \/ Shutdown \/ CloseQueue \/ AwaitWorkers \/ StopSources \/ CloseDatabase \/ Return
Emission(e) ==
    \/ HandleEvent(e) \/ BeginBroadcast(e)
    \/ \E s \in Sockets : Broadcast(e, s)
Worker(w) == WorkerTakes(w) \/ WorkerSent(w) \/ WorkerEnds(w)
Handler(s) == Register(s) \/ StartPumps(s)
Writer(s) == WriteMessage(s) \/ WriterEnds(s)
Reader(s) == (socket[s].done /\ ReadFails(s)) \/ Unregister(s)

Next ==
    \/ Daemon \/ Signal
    \/ \E e \in Emitters, t \in Types : Emit(e, t)
    \/ \E e \in Emitters : Emission(e)
    \/ \E w \in Workers : Worker(w)
    \/ \E s \in Sockets : Upgrade(s) \/ Handler(s)
    \/ \E s \in Sockets : WriteMessage(s) \/ WriteFails(s) \/ ReadFails(s) \/ Unregister(s)

Spec == Init /\ [][Next]_vars

\* Every goroutine that can take a step takes one: a delivery and a write
\* have timeouts, a closed connection fails its read, and no step waits for a
\* peer.  Peers, signals and the events themselves are under no obligation.
FairSpec ==
    /\ Spec
    /\ WF_vars(Daemon)
    /\ \A e \in Emitters : WF_vars(Emission(e))
    /\ \A w \in Workers : WF_vars(Worker(w))
    /\ \A s \in Sockets : WF_vars(Handler(s)) /\ WF_vars(Writer(s)) /\ WF_vars(Reader(s))

------------------------------------------------------------------------------
(* Properties *)

\* When runDaemon returns, after a failed start or a stop, everything it
\* started has been taken down in an order that loses nothing: the database is
\* closed, no update is being forwarded, and every notification that entered
\* the queue was tried ("Drain queued notifications before exiting", main.go).
ExitClean ==
    main = "returned" =>
        /\ ~db
        /\ forwarder # "runs"
        /\ queue = <<>>
        /\ accepted = attempted

\* Until the notifier is closed no order of connecting, leaving, broadcasting
\* and delivering kills the daemon: BroadcastEvent runs on the executor's
\* goroutine and must survive a client that goes away under it.
PanicOnlyAfterClose == panicked => closed

\* A sequence is never held up by those who listen to it: emit returns,
\* however slow the webhooks and however stuck the browsers.
EmitReturns ==
    \A e \in Emitters :
        emitter[e].at \in {"hooks", "sockets"} ~> (emitter[e].at = "idle" \/ ~Running)

\* The daemon stops when it is told to, at whatever moment of its start or
\* its life, with deliveries under way and clients connecting.
StopTerminates == "signal" \in cancelled ~> ~Running

\* A connection that was closed, by whichever pump, by its peer or by the
\* server, leaves the hub for good.
SocketsForgotten ==
    \A s \in Sockets : socket[s].done ~> [](s \notin clients \/ ~Running)
=============================================================================
