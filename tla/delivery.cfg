SPECIFICATION FairSpec
CONSTANTS
    Emitters = {"sequence", "probes"}
    Hooks <- MCHooks
    Wants <- MCWants
    Types = {"trigger", "client_state_changed"}
    Workers = {"w1", "w2"}
    QueueDepth = 1
    Sockets = {"s1"}
    SendBuffer = 1
    MaxEvents = 2
INVARIANTS ExitClean PanicOnlyAfterClose
PROPERTIES EmitReturns StopTerminates SocketsForgotten
CHECK_DEADLOCK FALSE
