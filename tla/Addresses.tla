----------------------------- MODULE Addresses -----------------------------
(***************************************************************************)
(* Where a command for a client is sent: its address, pinned when the      *)
(* sequence starts because DNS may not outlive the outage                  *)
(* (internal/engine/resolve.go), and its hardware address, which the probe *)
(* loop learns while the client is up because a client that is off cannot  *)
(* be asked (internal/engine/macs.go, internal/state/macs.go).             *)
(*                                                                         *)
(* The probe loop and the sequence look addresses up and record them at    *)
(* the same time, and the daemon may crash after any step.  The clients    *)
(* are numbered in the order of the configuration.  "" is no address; time *)
(* is counted in ticks of the probe loop.  Failing writes of the sequence  *)
(* row are left out, as are clients without an address, which are not      *)
(* pinned, and the times a MAC was learned and confirmed, which are for    *)
(* display.                                                                *)
(***************************************************************************)
EXTENDS Naturals, FiniteSets

CONSTANTS
    NumClients,    \* len(cfg.Clients)
    Configured,    \* clients with `mac:` in the configuration
    Literal,       \* clients whose `address:` is an IP; the others have a name
    Discoverers,   \* clients whose transport can be asked for the MAC
    Ips, Macs,     \* what DNS, devices and the neighbour table may answer
    Retry, Refresh \* macRetryInterval, macRefreshInterval

Clients == 1..NumClients

ASSUME AddressAssumption ==
    /\ NumClients \in Nat
    /\ Configured \subseteq Clients /\ Literal \subseteq Clients
    /\ {Retry, Refresh} \subseteq Nat \ {0} /\ Retry <= Refresh
    /\ "" \notin Macs /\ Ips \cap {"", "name", "literal"} = {}

VARIABLES
    proc,      \* "down", "restoring", "resuming" or "running"
    state,     \* the recorded state of each client: up or not
    known,     \* learnedMACs, in memory
    table,     \* table learned_macs
    since,     \* ticks since the last lookup, Refresh for long ago or never
    learner,   \* the probe loop in learnMACs
    seq,       \* the sequence goroutine
    row,       \* the row of the unfinished sequence: the pinned addresses
    sent,      \* the targets of the commands of this sequence
    unread     \* the table could not be read at the last start

vars == <<proc, state, known, table, since, learner, seq, row, sent, unread>>

NoMac == ""
NoIp == ""
NoPin == [ip |-> NoIp, mac |-> NoMac]
NoPins == [c \in Clients |-> NoPin]
Rest == [at |-> "idle", client |-> 0, mac |-> NoMac]
NoSequence == [at |-> "none", client |-> 0, mac |-> NoMac, pins |-> NoPins]
NoRow == [live |-> FALSE, pins |-> NoPins]

Active == seq.at # "none"

------------------------------------------------------------------------------
(* What the configuration, the kernel and the devices say *)

ClientMAC(c) == IF c \in Configured THEN "configured" ELSE NoMac
Address(c) == IF c \in Literal THEN "literal" ELSE "name"

\* lookUpMAC: what the device reports, if it can be asked and the answer is
\* usable (NormaliseMAC); then what the kernel has cached for an IP, for which
\* a name does not do.
LookUpMAC(c, ip, device, cached) ==
    IF c \in Discoverers /\ device \in Macs THEN device
    ELSE IF ip \notin {NoIp, "name"} /\ cached \in Macs THEN cached
    ELSE NoMac

\* The outcomes of a lookup: a report may be missing or unusable.
Answers(c, ip) ==
    {LookUpMAC(c, ip, device, cached) : device \in Macs \cup {"unusable"}, cached \in Macs \cup {NoMac}}

------------------------------------------------------------------------------
(* Where a command goes *)

AddressFor(c) == IF seq.pins[c].ip = NoIp THEN Address(c) ELSE seq.pins[c].ip

\* Mutant of MacFor: the newest address first.
MacForNewest(c) ==
    IF ClientMAC(c) # NoMac THEN ClientMAC(c)
    ELSE IF known[c] # NoMac THEN known[c]
    ELSE seq.pins[c].mac

\* Mutant of MacFor: only what was pinned.
MacForPinned(c) == IF ClientMAC(c) # NoMac THEN ClientMAC(c) ELSE seq.pins[c].mac

\* macFor: configured, then pinned, then learned.
MacFor(c) ==
    IF ClientMAC(c) # NoMac THEN ClientMAC(c)
    ELSE IF seq.pins[c].mac # NoMac THEN seq.pins[c].mac
    ELSE known[c]

Target(c) == [ip |-> AddressFor(c), mac |-> MacFor(c)]

------------------------------------------------------------------------------
(* recordLearnedMAC: memory, then the table *)

Remember(c, mac) == known' = [known EXCEPT ![c] = mac]

\* A failed write is logged; the address is still good for this run.
Store(c, mac) ==
    \/ table' = [table EXCEPT ![c] = mac]
    \/ UNCHANGED table

------------------------------------------------------------------------------
(* learnMACs, on the probe loop *)

\* Mutant of ShouldLookUpMAC: a client that was asked is not asked again
\* until its address would have to be confirmed, and it has none.
ShouldLookUpOnce(c) == since[c] >= Refresh /\ known[c] # NoMac

ShouldLookUpMAC(c) == since[c] >= (IF known[c] = NoMac THEN Retry ELSE Refresh)

LearnerGoesOn(c) == IF c < NumClients THEN [Rest EXCEPT !.at = "consider", !.client = c + 1] ELSE Rest

\* Not during a sequence; what follows does not look again.
BeginLearning ==
    /\ proc = "running"
    /\ learner.at = "due"
    /\ learner' = IF Active \/ NumClients = 0 THEN Rest ELSE [Rest EXCEPT !.at = "consider", !.client = 1]
    /\ UNCHANGED <<proc, state, known, table, since, seq, row, sent, unread>>

\* Only a client without a configured address, due, and up; the attempt is
\* noted before it is made.
Consider ==
    /\ proc = "running"
    /\ learner.at = "consider"
    /\ LET c == learner.client IN
       IF c \notin Configured /\ ShouldLookUpMAC(c) /\ state[c] = "up"
       THEN learner' = [learner EXCEPT !.at = "ask"] /\ since' = [since EXCEPT ![c] = 0]
       ELSE learner' = LearnerGoesOn(c) /\ UNCHANGED since
    /\ UNCHANGED <<proc, state, known, table, seq, row, sent, unread>>

LearnerHears(mac) ==
    /\ proc = "running"
    /\ learner.at = "ask"
    /\ mac \in Answers(learner.client, Address(learner.client))
    /\ learner' = IF mac = NoMac THEN LearnerGoesOn(learner.client)
                  ELSE [learner EXCEPT !.at = "remember", !.mac = mac]
    /\ UNCHANGED <<proc, state, known, table, since, seq, row, sent, unread>>

LearnerRemembers ==
    /\ proc = "running"
    /\ learner.at = "remember"
    /\ Remember(learner.client, learner.mac)
    /\ learner' = [learner EXCEPT !.at = "store"]
    /\ UNCHANGED <<proc, state, table, since, seq, row, sent, unread>>

LearnerStores ==
    /\ proc = "running"
    /\ learner.at = "store"
    /\ Store(learner.client, learner.mac)
    /\ learner' = LearnerGoesOn(learner.client)
    /\ UNCHANGED <<proc, state, known, since, seq, row, sent, unread>>

Learn ==
    \/ BeginLearning \/ Consider \/ LearnerRemembers \/ LearnerStores
    \/ \E mac \in Macs \cup {NoMac} : LearnerHears(mac)

------------------------------------------------------------------------------
(* The sequence *)

\* A plan has triggered and claimed the slot.
Trigger ==
    /\ proc = "running"
    /\ ~Active /\ NumClients > 0
    /\ seq' = [NoSequence EXCEPT !.at = "resolve", !.client = 1]
    /\ sent' = [c \in Clients |-> {}]
    /\ UNCHANGED <<proc, state, known, table, since, learner, row, unread>>

SequenceGoesOn(s, c, pin) ==
    [s EXCEPT !.pins[c] = pin, !.mac = NoMac,
              !.at = IF c < NumClients THEN "resolve" ELSE "save",
              !.client = IF c < NumClients THEN c + 1 ELSE 0]

\* resolveClientAddresses, for one client: a name that does not resolve is
\* left to be resolved at use.  discoverMAC takes a learned address, and asks
\* when there is none.
Resolve(ip) ==
    LET c == seq.client
        mac == IF ClientMAC(c) # NoMac THEN ClientMAC(c) ELSE known[c]
        pin == [ip |-> ip, mac |-> mac] IN
    /\ proc = "running"
    /\ seq.at = "resolve"
    /\ ip \in (IF c \in Literal THEN {"literal"} ELSE Ips \cup {NoIp})
    /\ seq' = IF mac # NoMac THEN SequenceGoesOn(seq, c, pin)
              ELSE [seq EXCEPT !.at = "ask", !.pins[c] = pin]
    /\ UNCHANGED <<proc, state, known, table, since, learner, row, sent, unread>>

SequenceHears(mac) ==
    LET c == seq.client IN
    /\ proc = "running"
    /\ seq.at = "ask"
    /\ mac \in Answers(c, seq.pins[c].ip)
    /\ seq' = IF mac = NoMac THEN SequenceGoesOn(seq, c, seq.pins[c])
              ELSE [seq EXCEPT !.at = "remember", !.mac = mac]
    /\ UNCHANGED <<proc, state, known, table, since, learner, row, sent, unread>>

SequenceRemembers ==
    /\ proc = "running"
    /\ seq.at = "remember"
    /\ Remember(seq.client, seq.mac)
    /\ seq' = [seq EXCEPT !.at = "store"]
    /\ UNCHANGED <<proc, state, table, since, learner, row, sent, unread>>

SequenceStores ==
    LET c == seq.client IN
    /\ proc = "running"
    /\ seq.at = "store"
    /\ Store(c, seq.mac)
    /\ seq' = SequenceGoesOn(seq, c, [seq.pins[c] EXCEPT !.mac = seq.mac])
    /\ UNCHANGED <<proc, state, known, since, learner, row, sent, unread>>

\* saveSequence: from here on a restart resumes it.
SaveSequence ==
    /\ proc = "running"
    /\ seq.at = "save"
    /\ row' = [live |-> TRUE, pins |-> seq.pins]
    /\ seq' = [seq EXCEPT !.at = "act"]
    /\ UNCHANGED <<proc, state, known, table, since, learner, sent, unread>>

\* shutdownClient and wakeClient, for the target buildClientFor gives.
Act(c) ==
    /\ proc = "running"
    /\ seq.at = "act"
    /\ sent' = [sent EXCEPT ![c] = @ \cup {Target(c)}]
    /\ UNCHANGED <<proc, state, known, table, since, learner, seq, row, unread>>

EndSequence ==
    /\ proc = "running"
    /\ seq.at = "act"
    /\ seq' = NoSequence
    /\ row' = NoRow
    /\ sent' = [c \in Clients |-> {}]
    /\ UNCHANGED <<proc, state, known, table, since, learner, unread>>

Sequence ==
    \/ Trigger \/ SequenceRemembers \/ SequenceStores \/ SaveSequence \/ EndSequence
    \/ \E ip \in Ips \cup {NoIp, "literal"} : Resolve(ip)
    \/ \E mac \in Macs \cup {NoMac} : SequenceHears(mac)
    \/ \E c \in Clients : Act(c)

------------------------------------------------------------------------------
(* The probe loop's clock, the clients, crashes and restarts *)

\* The ticker of the probe loop: another round of probes, then learnMACs.
Tick ==
    /\ proc = "running"
    /\ learner = Rest
    /\ learner' = [Rest EXCEPT !.at = "due"]
    /\ since' = [c \in Clients |-> IF since[c] < Refresh THEN since[c] + 1 ELSE Refresh]
    /\ UNCHANGED <<proc, state, known, table, seq, row, sent, unread>>

\* A probe, or the sequence, records another state.
StateChanges(c) ==
    /\ proc = "running"
    /\ state' = [state EXCEPT ![c] = IF @ = "up" THEN "down" ELSE "up"]
    /\ UNCHANGED <<proc, known, table, since, learner, seq, row, sent, unread>>

Crash ==
    /\ proc # "down"
    /\ proc' = "down"
    /\ known' = [c \in Clients |-> NoMac]
    /\ since' = [c \in Clients |-> Refresh]
    /\ learner' = Rest
    /\ seq' = NoSequence
    /\ UNCHANGED <<state, table, row, sent, unread>>

Start ==
    /\ proc = "down"
    /\ proc' = "restoring"
    /\ UNCHANGED <<state, known, table, since, learner, seq, row, sent, unread>>

\* restoreLearnedMACs; an error is logged and passed over.
RestoreLearnedMACs ==
    /\ proc = "restoring"
    /\ \/ known' = table /\ unread' = FALSE
       \/ UNCHANGED known /\ unread' = TRUE
    /\ proc' = "resuming"
    /\ UNCHANGED <<state, table, since, learner, seq, row, sent>>

\* The unfinished sequence goes on with the addresses in its row.
Resume ==
    /\ proc = "resuming"
    /\ proc' = "running"
    /\ seq' = IF row.live THEN [NoSequence EXCEPT !.at = "act", !.pins = row.pins] ELSE NoSequence
    /\ UNCHANGED <<state, known, table, since, learner, row, sent, unread>>

Init ==
    /\ proc = "down"
    /\ state = [c \in Clients |-> "up"]
    /\ known = [c \in Clients |-> NoMac]
    /\ table = [c \in Clients |-> NoMac]
    /\ since = [c \in Clients |-> Refresh]
    /\ learner = Rest
    /\ seq = NoSequence
    /\ row = NoRow
    /\ sent = [c \in Clients |-> {}]
    /\ unread = FALSE

Boot == Start \/ RestoreLearnedMACs \/ Resume

Next ==
    \/ Learn \/ Sequence \/ Tick \/ Boot \/ Crash
    \/ \E c \in Clients : StateChanges(c)

\* The service manager restarts the daemon, the ticker ticks and the probe
\* loop runs.  Sequences and clients are under no obligation.
Spec ==
    /\ Init /\ [][Next]_vars
    /\ WF_vars(Boot) /\ WF_vars(Tick) /\ WF_vars(Learn)

------------------------------------------------------------------------------
(* Properties *)

\* "preferring the address pinned when the sequence started" (addressFor,
\* macFor): whatever is learned meanwhile, and across crashes and resumes, all
\* commands of a sequence for one client go to one address, and to the MAC in
\* the sequence's row if it has one.
OneTarget ==
    \A c \in Clients : \A a, b \in sent[c] :
        a.ip = b.ip /\ (row.pins[c].mac # NoMac => a.mac = row.pins[c].mac)

\* The MAC on record for a client: the configured one, the one in the row of
\* the sequence, or the one in the table, if the table could be read when the
\* daemon started.
OnRecord(c) ==
    IF c \in Configured THEN "configured"
    ELSE IF row.pins[c].mac # NoMac THEN row.pins[c].mac
    ELSE IF unread THEN NoMac ELSE table[c]

\* "The only way to have the answer then is to have kept asking" (learnMACs):
\* while a sequence acts, resumed or not, a client that has a MAC on record is
\* sent to that MAC, whatever the probe loop remembers and stores meanwhile.
KnownMacIsUsed ==
    proc = "running" /\ seq.at = "act" =>
        \A c \in Clients : OnRecord(c) # NoMac => Target(c).mac = OnRecord(c)

Reachable(c) == proc = "running" /\ ~Active /\ state[c] = "up"

\* A client that stays up is learned in the end once it answers, however often
\* lookups failed before: attempts are limited in rate, never in number.
LearnedInTheEnd ==
    \A c \in Clients \ Configured :
        /\ <>[]Reachable(c)
        /\ <>[][learner.at = "ask" /\ learner.client = c => ~LearnerHears(NoMac)]_vars
        => <>[](known[c] # NoMac)
=============================================================================
