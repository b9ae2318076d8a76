------------------------------ MODULE FactFlow ------------------------------
(***************************************************************************)
(* From devices to facts: the poll loops of the sources (modules/nut, snmp *)
(* and gpio), the channel and the goroutine that carry their readings into *)
(* the fact store (cmd/canarium/wiring.go), the store (internal/facts),    *)
(* and the loop that keeps each fact's quality and the derived fact        *)
(* client.<name>.threatened current (internal/engine).                     *)
(*                                                                         *)
(* Time is counted in ticks.  A poll may take some; everything else is     *)
(* computation, interleaves freely and is done before the next tick.  A    *)
(* timestamp is an age.  A key is the sequence of its dotted segments, so  *)
(* that cutting one at its first dot is what the code does.                *)
(***************************************************************************)
EXTENDS Naturals, Sequences, FiniteSets, SequencesExt, FiniteSetsExt, ThreeValued

CONSTANTS
    Pollers,        \* poll loops: a NUT or SNMP instance, or a GPIO pin
    Kind,           \* "nut", "snmp" or "gpio"
    Name,           \* the instance name its facts are filed under
    Reports,        \* the facts one poll publishes, in order
    Readings,       \* what its device may answer: values for some of them
    Interval,       \* its poll interval, in ticks
    MaxLatency,     \* the longest a poll takes: dial, i/o or SNMP timeouts
    UpdateBuffer,   \* sourceUpdateBuffer
    MinPoll,        \* minPollInterval
    QualityRefresh, \* timings.QualityRefresh
    Policy,         \* timings.Policy
    ClientNames,    \* cfg.Clients, in order
    Feeds,          \* feeds: of each, instance names; empty for every UPS
    NeedsAll,       \* clients with feed_policy "all"
    AssumeThreat,   \* clients with comms_loss_assumes "threatened"
    Oldest          \* bound: ages are counted up to this

NumClients == Len(ClientNames)
Clients == 1..NumClients

ASSUME FactAssumption ==
    /\ Kind \in [Pollers -> {"nut", "snmp", "gpio"}]
    /\ \A p \in Pollers : Kind[p] = "gpio" => Name[p] = <<"gpio">>
    /\ \A p, q \in Pollers : Name[p] = Name[q] => p = q \/ "gpio" = Kind[p]
    /\ \A p \in Pollers : Interval[p] \in Nat \ {0}
    /\ {UpdateBuffer, MinPoll, QualityRefresh, Policy} \subseteq Nat \ {0}
    /\ NeedsAll \subseteq Clients /\ AssumeThreat \subseteq Clients /\ Oldest \in Nat

\* A segment of a dotted name.
Segment == STRING

\* validateClients refuses two clients of one name.
ASSUME NameAssumption ==
    /\ IsFiniteSet(Pollers)
    /\ \A p \in Pollers : /\ Name[p] \in Seq(Segment)
                          /\ Reports[p] \in Seq(Seq(Segment))
    /\ ClientNames \in Seq(Segment)
    /\ \A c, d \in Clients : ClientNames[c] = ClientNames[d] => c = d
    /\ Feeds \in [Clients -> Seq(Seq(Segment))]

VARIABLES
    \* The sources.
    poller,     \* the poll loops
    updates,    \* the channel they share
    \* The store and the quality loop.
    fact,
    loop

vars == <<poller, updates, fact, loop>>

------------------------------------------------------------------------------
(* Keys and registration *)

Status == <<"status">>
Derived(c) == <<"client", ClientNames[c], "threatened">>
DerivedKeys == {Derived(c) : c \in Clients}
SourceKeys == UNION {{Name[p] \o f : f \in Range(Reports[p])} : p \in Pollers}
Keys == SourceKeys \cup DerivedKeys

\* s.polls: RegisterSource by instance.  All pins share one declaration, which
\* carries the shortest of their intervals.
Declared(n) == Min({Interval[p] : p \in {q \in Pollers : Name[q] = n}})
Polls(n) == IF n = <<"client">> THEN Policy ELSE Declared(n)
Sources == {Name[p] : p \in Pollers} \cup {<<"client">>}

\* Up to the first dot.
SourceFromKey(k) == <<Head(k)>>

StalenessFactor == 2
Window(n) == StalenessFactor * Max({Polls(n), MinPoll})

\* upsSources: the instances that declare a status, the derived source aside.
UpsSources == {<<Head(k)>> : k \in {j \in SourceKeys : Tail(j) = Status /\ Head(j) # "client"}}

ClientFeeds(c) == IF Feeds[c] # <<>> THEN Feeds[c] ELSE SetToSeq(UpsSources)

------------------------------------------------------------------------------
(* Values: what type the source gave it, and the flags it holds *)

NoValue == [type |-> "none", flags |-> {}]
Bool(b) == [type |-> "bool", flags |-> IF b THEN {"true"} ELSE {}]
ThreatFlags == {"OB", "LB", "DISCHRG", "ALARM", "RB"}
IsThreat(v) == v.type \in {"set", "text"} /\ v.flags \cap ThreatFlags # {}

\* Variant: the last known status is good enough.
FeedThreatenedByLastStatus(n) ==
    LET k == n \o Status IN
    IF k \notin Keys \/ fact[k].quality = "unknown" THEN "unavailable"
    ELSE BoolToTrilean(IsThreat(fact[k].value))

FeedThreatened(n) ==
    LET k == n \o Status IN
    IF k \notin Keys \/ fact[k].quality # "good" THEN "unavailable"
    ELSE IF fact[k].value.type \notin {"set", "text"} THEN "unavailable"
    ELSE BoolToTrilean(IsThreat(fact[k].value))

\* What clientThreatened makes of the accumulated answer.
Resolved(c, answer) ==
    IF answer = "unavailable" THEN c \in AssumeThreat ELSE answer = "true"

Unit(c) == IF c \in NeedsAll THEN "true" ELSE "false"
Combine(c, a, b) == IF c \in NeedsAll THEN And(a, b) ELSE Or(a, b)
Decided(c, a) == a = (IF c \in NeedsAll THEN "false" ELSE "true")

------------------------------------------------------------------------------
(* The poll loops *)

Set(k, v) == fact' = [fact EXCEPT ![k] = [quality |-> "good", value |-> v, age |-> 0]]

\* Between two polls: the select on the context and the ticker.
BeginPoll(p) ==
    /\ poller[p].pc = "idle" /\ poller[p].tick
    /\ poller' = [poller EXCEPT ![p].pc = "query", ![p].tick = FALSE, ![p].took = 0]
    /\ UNCHANGED <<updates, fact, loop>>

PollFails(p) ==
    /\ poller[p].pc = "query"
    /\ poller' = [poller EXCEPT ![p].pc = "idle", ![p].took = 0]
    /\ UNCHANGED <<updates, fact, loop>>

\* The whole answer has been read.
PollAnswered(p, reading) ==
    /\ poller[p].pc = "query"
    /\ poller' = [poller EXCEPT
           ![p].pc = IF Reports[p] = <<>> THEN "idle" ELSE "emit", ![p].took = 0,
           ![p].pending = [i \in DOMAIN Reports[p] |->
               LET f == Reports[p][i] IN
               [key |-> Name[p] \o f,
                value |-> IF f \in DOMAIN reading THEN reading[f] ELSE NoValue]]]
    /\ UNCHANGED <<updates, fact, loop>>

AfterEmit(p) == IF Len(poller[p].pending) = 1 THEN "idle" ELSE "emit"

\* One fact; what the device did not report, or reported unreadably, is passed over.
Emit(p) ==
    LET u == Head(poller[p].pending) IN
    /\ poller[p].pc = "emit"
    /\ \/ u.value = NoValue /\ UNCHANGED updates
       \/ u.value # NoValue /\ Len(updates) < UpdateBuffer /\ updates' = Append(updates, u)
    /\ poller' = [poller EXCEPT ![p].pc = AfterEmit(p), ![p].pending = Tail(@)]
    /\ UNCHANGED <<fact, loop>>

PollerStep(p) ==
    \/ BeginPoll(p) \/ PollFails(p) \/ Emit(p)
    \/ \E reading \in Readings[p] : PollAnswered(p, reading)

------------------------------------------------------------------------------
(* The forwarding goroutine of SourceManager.Start *)

\* The forwarding goroutine: store.Update.
Forward ==
    /\ updates # <<>>
    /\ updates' = Tail(updates)
    /\ Set(Head(updates).key, Head(updates).value)
    /\ UNCHANGED <<poller, loop>>

------------------------------------------------------------------------------
(* qualityLoop: refreshFacts *)

\* One RefreshQuality over a copy of the store's map, in any order.
Assessing(pass) == [loop EXCEPT !.pc = "assess", !.pass = pass, !.todo = Keys]

Deriving(c) ==
    [loop EXCEPT !.pc = "derive", !.client = c, !.feeds = ClientFeeds(c),
                 !.answer = IF ClientFeeds(c) = <<>> THEN "false" ELSE Unit(c)]

Resting == [loop EXCEPT !.pc = "idle", !.pass = 0]

BeginRefresh ==
    /\ loop.pc = "idle" /\ loop.tick
    /\ loop' = [Assessing(1) EXCEPT !.tick = FALSE]
    /\ UNCHANGED <<poller, updates, fact>>

\* Variant: stale at the window's very end.
VerdictAtEnd(k) == IF fact[k].age >= Window(SourceFromKey(k)) THEN "stale" ELSE "good"

\* Variant: the factor twice.
VerdictLate(k) ==
    IF fact[k].age > StalenessFactor * Window(SourceFromKey(k)) THEN "stale" ELSE "good"

Verdict(k) == IF fact[k].age > Window(SourceFromKey(k)) THEN "stale" ELSE "good"

\* f.Get, for one fact of the copy.  A source without a poll interval, or a
\* fact that never had a value, is passed over.
Assess ==
    /\ loop.pc = "assess" /\ loop.todo # {}
    /\ \E k \in loop.todo :
           IF SourceFromKey(k) \in Sources /\ fact[k].quality # "unknown"
           THEN loop' = [loop EXCEPT !.todo = @ \ {k}, !.pc = "mark", !.key = k,
                                     !.verdict = Verdict(k)]
           ELSE loop' = [loop EXCEPT !.todo = @ \ {k}]
    /\ UNCHANGED <<poller, updates, fact>>

\* Variant: only ever marks down; a fact is good again when next updated.
MarkStaleOnly ==
    /\ loop.pc = "mark"
    /\ fact' = IF loop.verdict = "stale" THEN [fact EXCEPT ![loop.key].quality = "stale"]
               ELSE fact
    /\ loop' = [loop EXCEPT !.pc = "assess", !.key = <<>>, !.verdict = "none"]
    /\ UNCHANGED <<poller, updates>>

\* f.SetQuality, after f.Get has let the fact's lock go.
Mark ==
    /\ loop.pc = "mark"
    /\ fact' = [fact EXCEPT ![loop.key].quality = loop.verdict]
    /\ loop' = [loop EXCEPT !.pc = "assess", !.key = <<>>, !.verdict = "none"]
    /\ UNCHANGED <<poller, updates>>

EndAssess ==
    /\ loop.pc = "assess" /\ loop.todo = {}
    /\ loop' = IF loop.pass = 2 THEN Resting
               ELSE IF NumClients = 0 THEN Assessing(2) ELSE Deriving(1)
    /\ UNCHANGED <<poller, updates, fact>>

Feeding == loop.feeds # <<>> /\ ~Decided(loop.client, loop.answer)

ReadFeed ==
    /\ loop.pc = "derive" /\ Feeding
    /\ loop' = [loop EXCEPT !.feeds = Tail(@),
                    !.answer = Combine(loop.client, @, FeedThreatened(Head(loop.feeds)))]
    /\ UNCHANGED <<poller, updates, fact>>

UpdateDerived ==
    /\ loop.pc = "derive" /\ ~Feeding
    /\ Set(Derived(loop.client), Bool(Resolved(loop.client, loop.answer)))
    /\ LET done == [loop EXCEPT !.client = 0, !.feeds = <<>>, !.answer = "none"] IN
       loop' = IF loop.client < NumClients THEN Deriving(loop.client + 1)
               ELSE [done EXCEPT !.pc = "assess", !.pass = 2, !.todo = Keys]
    /\ UNCHANGED <<poller, updates>>

LoopStep == BeginRefresh \/ Assess \/ Mark \/ EndAssess \/ ReadFeed \/ UpdateDerived

------------------------------------------------------------------------------
(* Time *)

Aged(n) == IF n < Oldest THEN n + 1 ELSE Oldest

\* time.Ticker: fires every period, and drops a tick nobody has taken.
TickerFires(t, period) == [t EXCEPT !.next = IF @ = 1 THEN period ELSE @ - 1,
                                    !.tick = @ \/ t.next = 1]

Settled(p) ==
    \/ poller[p].pc = "gone"
    \/ poller[p].pc = "idle" /\ ~poller[p].tick
    \/ poller[p].pc = "query" /\ poller[p].took < MaxLatency

Tick ==
    /\ \A p \in Pollers : Settled(p)
    /\ updates = <<>>
    /\ loop.pc = "idle" /\ ~loop.tick
    /\ poller' = [p \in Pollers |->
           CASE poller[p].pc = "gone" -> poller[p]
             [] poller[p].pc = "query" ->
                    [TickerFires(poller[p], Interval[p]) EXCEPT !.took = @ + 1]
             [] OTHER -> TickerFires(poller[p], Interval[p])]
    /\ loop' = TickerFires(loop, QualityRefresh)
    /\ fact' = [k \in Keys |-> IF fact[k].quality = "unknown" THEN fact[k]
                               ELSE [fact[k] EXCEPT !.age = Aged(@)]]
    /\ UNCHANGED <<updates>>

\* Start: the sources poll at once, a pin without its chip never does; the
\* derived facts are computed once before the quality loop's first pass.
Init ==
    /\ \E absent \in SUBSET {p \in Pollers : Kind[p] = "gpio"} :
           poller = [p \in Pollers |->
               [pc |-> IF p \in absent THEN "gone" ELSE "query", tick |-> FALSE,
                next |-> Interval[p], took |-> 0, pending |-> <<>>]]
    /\ updates = <<>>
    /\ fact = [k \in Keys |->
           IF k \in SourceKeys THEN [quality |-> "unknown", value |-> NoValue, age |-> 0]
           ELSE LET c == CHOOSE d \in Clients : Derived(d) = k IN
                [quality |-> "good", age |-> 0,
                 value |-> Bool(ClientFeeds(c) # <<>> /\ c \in AssumeThreat)]]
    /\ loop = [pc |-> "idle", tick |-> TRUE, next |-> QualityRefresh, pass |-> 0,
               todo |-> {}, key |-> <<>>, verdict |-> "none", client |-> 0,
               feeds |-> <<>>, answer |-> "none"]

Next ==
    \/ \E p \in Pollers : PollerStep(p)
    \/ Forward \/ LoopStep \/ Tick

Spec == Init /\ [][Next]_vars

\* Goroutines that can run do run, and time passes.
FairSpec ==
    /\ Spec
    /\ \A p \in Pollers : WF_vars(PollerStep(p))
    /\ WF_vars(Forward) /\ WF_vars(LoopStep) /\ WF_vars(Tick)

------------------------------------------------------------------------------
(* Properties *)

\* The source a key was registered under.
Owner(k) == CHOOSE n \in Sources : SubSeq(k, 1, Len(n)) = n

\* README: "stale or unknown facts never satisfy a condition, so losing contact
\* with a sensor cannot trigger a shutdown".  A fact the evaluator would trust
\* was updated within two poll intervals of its source, plus the time to the
\* next quality refresh (RefreshQuality, qualityLoop).
GoodIsRecent ==
    \A k \in Keys : fact[k].quality = "good" =>
        fact[k].age <= Window(Owner(k)) + QualityRefresh

\* RefreshQuality reads a fact and marks it in two steps, so an update between
\* them is marked stale.  The mistake does not outlive the next refresh: a fact
\* inside its window reads stale only just after an update.
StaleIsOldOrRaced ==
    \A k \in SourceKeys : fact[k].quality = "stale" =>
        \/ fact[k].age > Window(Owner(k))
        \/ fact[k].age <= QualityRefresh

ThreatKnown(c) == fact[Derived(c)].value = Bool(TRUE)
FeedSet(c) == Range(ClientFeeds(c))

\* The last refresh could take feed n to be threatened: it is still so marked,
\* or its status was stored after that refresh.
ThreatSeen(n) ==
    LET f == fact[n \o Status] IN
    /\ n \o Status \in Keys
    /\ \/ IsThreat(f.value) /\ f.age <= Window(n) + QualityRefresh
       \/ f.quality # "unknown" /\ f.age <= QualityRefresh

\* clientThreatened: unless comms_loss_assumes says otherwise a client is
\* threatened only on flags its feeds did report, all of them for a client that
\* needs all, within their window of the last refresh.  Silence is no threat,
\* and the order in refreshFacts matters.
ThreatIsReported ==
    \A c \in Clients \ AssumeThreat : ThreatKnown(c) =>
        IF c \in NeedsAll THEN \A n \in FeedSet(c) : ThreatSeen(n)
        ELSE \E n \in FeedSet(c) : ThreatSeen(n)

PollersOf(n) == {p \in Pollers : Name[p] = n}
ReportsThreat(reading) == Status \in DOMAIN reading /\ IsThreat(reading[Status])
OnlyThreats(p) ==
    ~PollFails(p) /\ \A r \in Readings[p] : PollAnswered(p, r) => ReportsThreat(r)

\* An outage that every feed of a client goes on reporting becomes, and stays,
\* its derived fact, however polls, updates and refreshes interleave.
OutageSeen ==
    \A c \in Clients :
        <>[][\A n \in FeedSet(c) : \A p \in PollersOf(n) : OnlyThreats(p)]_vars
        => <>[](FeedSet(c) # {} => ThreatKnown(c))
=============================================================================
