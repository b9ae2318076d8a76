--------------------------- MODULE AddressProofs ---------------------------
(***************************************************************************)
(* Proofs that all commands of a sequence for one client go to one target, *)
(* and that a client with a MAC on record is sent to that MAC, for every   *)
(* configuration and whatever DNS, the devices and the kernel answer,      *)
(* across crashes.                                                         *)
(***************************************************************************)
EXTENDS Addresses, TLAPS

------------------------------------------------------------------------------
(* The inductive invariant *)

Pin == [ip : Ips \cup {NoIp, "literal"}, mac : Macs \cup {NoMac, "configured"}]
LearnerStates == {"idle", "due", "consider", "ask", "remember", "store"}
SequenceStates == {"none", "resolve", "ask", "remember", "store", "save", "act"}
AtClient == {"consider", "resolve", "ask", "remember", "store"}
Learner == [at : LearnerStates, client : Nat, mac : Macs \cup {NoMac}]
SequenceType ==
    [at : SequenceStates, client : Nat, mac : Macs \cup {NoMac}, pins : [Clients -> Pin]]
Row == [live : BOOLEAN, pins : [Clients -> Pin]]

\* Both that look addresses up are at a client, and have an answer when they
\* go on to record it.
LookupOK(l) ==
    /\ l.at \in AtClient => l.client \in Clients
    /\ l.at \in {"remember", "store"} => l.mac \in Macs
    /\ l.at = "store" => known[l.client] # NoMac

TypeInv ==
    /\ proc \in {"down", "restoring", "resuming", "running"}
    /\ known \in [Clients -> Macs \cup {NoMac}]
    /\ table \in [Clients -> Macs \cup {NoMac}]
    /\ learner \in Learner /\ LookupOK(learner)
    /\ seq \in SequenceType /\ LookupOK(seq)
    /\ row \in Row
    /\ DOMAIN sent = Clients
    /\ unread \in BOOLEAN
    /\ proc # "running" => learner = Rest /\ seq = NoSequence

\* A configured MAC is the one that is pinned; the clients are pinned in
\* their order.
ConfiguredIsPinned(pins, c) == c \in Configured => pins[c].mac = "configured"

SequenceInv ==
    /\ seq.at \in {"ask", "remember", "store"} => seq.client \notin Configured
    /\ seq.at \in AtClient => \A c \in Clients : c < seq.client => ConfiguredIsPinned(seq.pins, c)
    /\ seq.at \in {"save", "act"} => \A c \in Clients : ConfiguredIsPinned(seq.pins, c)

\* The row is what an acting sequence goes by, now and after a crash.
RowInv ==
    /\ row.live = TRUE => \A c \in Clients : ConfiguredIsPinned(row.pins, c)
    /\ seq.at = "act" => row.live = TRUE /\ row.pins = seq.pins
    /\ proc = "running" /\ row.live = TRUE => seq.at = "act"

PinnedIp(c) == IF row.pins[c].ip = NoIp THEN Address(c) ELSE row.pins[c].ip

SentInv ==
    \A c \in Clients : \A a \in sent[c] :
        /\ row.live = TRUE
        /\ a.ip = PinnedIp(c)
        /\ row.pins[c].mac # NoMac => a.mac = row.pins[c].mac

\* What the table has, memory has.
TableInMemory ==
    proc \in {"resuming", "running"} /\ ~unread =>
        \A c \in Clients : table[c] # NoMac => known[c] # NoMac

Inv == TypeInv /\ SequenceInv /\ RowInv /\ SentInv /\ TableInMemory

------------------------------------------------------------------------------
(* The operators *)

LEMMA Macless == NoMac \notin Macs /\ NoMac # "configured" /\ NumClients \in Nat
BY AddressAssumption DEF NoMac

LEMMA AnswersAreMacs ==
    ASSUME NEW c, NEW ip
    PROVE  Answers(c, ip) \subseteq Macs \cup {NoMac}
BY DEF Answers, LookUpMAC

LEMMA RestOK == Rest \in Learner /\ LookupOK(Rest) /\ Rest.at = "idle"
BY DEF Rest, Learner, LookupOK, LearnerStates, AtClient

LEMMA NoSequenceOK ==
    /\ NoSequence \in SequenceType /\ LookupOK(NoSequence) /\ NoSequence.at = "none"
    /\ NoRow \in Row /\ NoRow.live = FALSE
<1>1. NoPins \in [Clients -> Pin]
  BY DEF NoPins, NoPin, Pin
<1> QED
  BY <1>1 DEF NoSequence, NoRow, Row, SequenceType, LookupOK, SequenceStates, AtClient

\* The loop over the clients goes to the next one, or is done.
LEMMA LearnerGoesOnOK ==
    ASSUME NEW c \in Clients
    PROVE  /\ LearnerGoesOn(c) \in Learner
           /\ LearnerGoesOn(c).at \in {"idle", "consider"}
           /\ LearnerGoesOn(c).at = "consider" => LearnerGoesOn(c).client \in Clients
<1>1. \A l \in Learner, d \in Nat :
          LET m == [l EXCEPT !.at = "consider", !.client = d]
          IN m \in Learner /\ m.at = "consider" /\ m.client = d
  BY DEF Learner, LearnerStates
<1>2. c < NumClients => c + 1 \in Clients /\ c + 1 \in Nat
  BY Macless DEF Clients
<1>3. CASE c < NumClients
  BY <1>1, <1>2, <1>3, RestOK DEF LearnerGoesOn
<1>4. CASE ~(c < NumClients)
  BY <1>4, RestOK DEF LearnerGoesOn
<1> QED
  BY <1>3, <1>4

LEMMA SequenceGoesOnOK ==
    ASSUME NEW s \in SequenceType, NEW c \in Clients, NEW pin \in Pin
    PROVE  LET t == SequenceGoesOn(s, c, pin) IN
           /\ t \in SequenceType
           /\ t.pins = [s.pins EXCEPT ![c] = pin]
           /\ t.at \in {"resolve", "save"}
           /\ t.at = "resolve" => t.client \in Clients /\ t.client = c + 1
           /\ t.at = "save" => c = NumClients
<1> DEFINE at == IF c < NumClients THEN "resolve" ELSE "save"
           d == IF c < NumClients THEN c + 1 ELSE 0
           ps == [s.pins EXCEPT ![c] = pin]
           t == [s EXCEPT !.pins = ps, !.mac = NoMac, !.at = at, !.client = d]
<1>1. ps \in [Clients -> Pin]
  BY DEF SequenceType
<1>2. /\ at \in {"resolve", "save"} /\ d \in Nat
      /\ at = "resolve" => d \in Clients /\ d = c + 1
      /\ at = "save" => c = NumClients
  BY Macless DEF Clients
<1>3. t \in SequenceType /\ t.pins = ps /\ t.at = at /\ t.client = d
  <2> HIDE DEF ps, at, d
  <2> QED
    BY <1>1, <1>2 DEF SequenceType, SequenceStates
<1>4. SequenceGoesOn(s, c, pin) = t
  BY DEF SequenceGoesOn, SequenceType
<1> QED
  <2> HIDE DEF t, at, d
  <2> QED
    BY <1>2, <1>3, <1>4

------------------------------------------------------------------------------
(* Recording an address *)

\* An address that memory has is replaced, never lost, while the daemon runs.
Kept == \A c \in Clients : known[c] # NoMac => known'[c] # NoMac

LEMMA RememberKeeps ==
    ASSUME TypeInv, NEW c \in Clients, NEW mac \in Macs, Remember(c, mac)
    PROVE  /\ known' \in [Clients -> Macs \cup {NoMac}]
           /\ known'[c] # NoMac
           /\ Kept
BY Macless DEF TypeInv, Remember, Kept

\* The table gets what memory has.
LEMMA StoreKeeps ==
    ASSUME TypeInv, NEW c \in Clients, NEW mac \in Macs, Store(c, mac), known[c] # NoMac,
           NEW d \in Clients
    PROVE  /\ table' \in [Clients -> Macs \cup {NoMac}]
           /\ table'[d] # NoMac => table[d] # NoMac \/ known[d] # NoMac
BY DEF TypeInv, Store

LEMMA StoreTypes ==
    ASSUME TypeInv, NEW c \in Clients, NEW mac \in Macs, Store(c, mac)
    PROVE  table' \in [Clients -> Macs \cup {NoMac}]
BY DEF TypeInv, Store

------------------------------------------------------------------------------
(* The probe loop *)

\* What every step of learnMACs leaves alone.
LearnerFrame == UNCHANGED <<proc, state, seq, row, sent, unread>> /\ proc = "running"

LEMMA LearnerInv ==
    ASSUME Inv, LearnerFrame,
           known' \in [Clients -> Macs \cup {NoMac}], Kept,
           table' \in [Clients -> Macs \cup {NoMac}],
           \A c \in Clients : table'[c] # NoMac => table[c] # NoMac \/ known[c] # NoMac,
           learner' \in Learner,
           learner'.at \in AtClient => learner'.client \in Clients,
           learner'.at \in {"remember", "store"} => learner'.mac \in Macs,
           learner'.at = "store" => known'[learner'.client] # NoMac
    PROVE  Inv'
<1>1. /\ proc' = proc /\ proc = "running" /\ seq' = seq /\ row' = row /\ sent' = sent
      /\ unread' = unread
  BY DEF LearnerFrame
<1>2. LookupOK(learner)'
  BY DEF LookupOK
<1>3. LookupOK(seq)'
  BY <1>1 DEF Inv, TypeInv, LookupOK, Kept, AtClient
<1>4. TypeInv'
  BY <1>1, <1>2, <1>3 DEF Inv, TypeInv
<1>5. SequenceInv' /\ RowInv' /\ SentInv'
  BY <1>1 DEF Inv, SequenceInv, RowInv, SentInv, PinnedIp
<1>6. TableInMemory'
  BY <1>1 DEF Inv, TableInMemory, Kept
<1> QED
  BY <1>4, <1>5, <1>6 DEF Inv

\* Fields of a learner that only moves on.
LEMMA LearnerMoves ==
    /\ \A l \in Learner, at \in LearnerStates :
           LET k == [l EXCEPT !.at = at]
           IN k \in Learner /\ k.at = at /\ k.client = l.client /\ k.mac = l.mac
    /\ \A l \in Learner, at \in LearnerStates, c \in Nat :
           LET k == [l EXCEPT !.at = at, !.client = c]
           IN k \in Learner /\ k.at = at /\ k.client = c
BY DEF Learner

LEMMA LearnStep ==
    ASSUME Inv, Learn
    PROVE  Inv'
<1>1. LearnerFrame
  BY DEF Learn, BeginLearning, Consider, LearnerHears, LearnerRemembers, LearnerStores,
     LearnerFrame
<1>2. /\ learner \in Learner /\ LookupOK(learner) /\ TypeInv
      /\ known \in [Clients -> Macs \cup {NoMac}] /\ table \in [Clients -> Macs \cup {NoMac}]
  BY DEF Inv, TypeInv
<1>4. CASE UNCHANGED <<known, table>> /\ learner' \in Learner
           /\ (learner'.at \in AtClient => learner'.client \in Clients)
           /\ (learner'.at = "remember" => learner'.mac \in Macs) /\ learner'.at # "store"
  BY <1>1, <1>2, <1>4, LearnerInv DEF Kept
<1>5. CASE BeginLearning
  <2>1. Rest \in Learner /\ Rest.at = "idle"
    BY RestOK
  <2> DEFINE l == [Rest EXCEPT !.at = "consider", !.client = 1]
  <2>2. l \in Learner /\ l.at = "consider" /\ l.client = 1
    <3>1. "consider" \in LearnerStates /\ 1 \in Nat
      BY DEF LearnerStates
    <3> QED
      BY <2>1, <3>1, LearnerMoves, ZenonT(60)
  <2>3. learner' = Rest \/ (learner' = l /\ NumClients # 0)
    BY <1>5 DEF BeginLearning
  <2>4. NumClients # 0 => 1 \in Clients
    BY Macless DEF Clients
  <2> HIDE DEF l
  <2> QED
    BY <1>4, <1>5, <2>1, <2>2, <2>3, <2>4 DEF BeginLearning, AtClient
<1>6. CASE Consider
  <2>1. learner.client \in Clients
    BY <1>2, <1>6 DEF Consider, LookupOK, AtClient
  <2> DEFINE l == [learner EXCEPT !.at = "ask"]
             g == LearnerGoesOn(learner.client)
  <2>2. l \in Learner /\ l.at = "ask" /\ l.client = learner.client
    BY <1>2 DEF Learner, LearnerStates
  <2>3. g \in Learner /\ g.at \in {"idle", "consider"} /\ (g.at = "consider" => g.client \in Clients)
    BY <2>1, LearnerGoesOnOK
  <2>4. learner' = l \/ learner' = g
    BY <1>6 DEF Consider
  <2> HIDE DEF l, g
  <2> QED
    BY <1>4, <1>6, <2>1, <2>2, <2>3, <2>4 DEF Consider, AtClient
<1>7. ASSUME NEW mac \in Macs \cup {NoMac}, LearnerHears(mac)
      PROVE  Inv'
  <2>1. learner.client \in Clients
    BY <1>2, <1>7 DEF LearnerHears, LookupOK, AtClient
  <2> DEFINE l == [learner EXCEPT !.at = "remember", !.mac = mac]
             g == LearnerGoesOn(learner.client)
  <2>2. l \in Learner /\ l.at = "remember" /\ l.client = learner.client /\ l.mac = mac
    BY <1>2 DEF Learner, LearnerStates
  <2>3. g \in Learner /\ g.at \in {"idle", "consider"} /\ (g.at = "consider" => g.client \in Clients)
    BY <2>1, LearnerGoesOnOK
  <2>4. (learner' = l /\ mac # NoMac) \/ learner' = g
    BY <1>7 DEF LearnerHears
  <2> HIDE DEF l, g
  <2> QED
    BY <1>4, <1>7, <2>1, <2>2, <2>3, <2>4 DEF LearnerHears, AtClient
<1>8. CASE LearnerRemembers
  <2>1. learner.client \in Clients /\ learner.mac \in Macs
    BY <1>2, <1>8 DEF LearnerRemembers, LookupOK, AtClient
  <2>2. known' \in [Clients -> Macs \cup {NoMac}] /\ known'[learner.client] # NoMac /\ Kept
    BY <1>2, <1>8, <2>1, RememberKeeps DEF LearnerRemembers
  <2> DEFINE l == [learner EXCEPT !.at = "store"]
  <2>3. l \in Learner /\ l.at = "store" /\ l.client = learner.client /\ l.mac = learner.mac
    BY <1>2 DEF Learner, LearnerStates
  <2>4. learner' = l /\ table' = table
    BY <1>8 DEF LearnerRemembers
  <2> HIDE DEF l
  <2> QED
    BY <1>1, <1>2, <2>1, <2>2, <2>3, <2>4, LearnerInv
<1>9. CASE LearnerStores
  <2>1. learner.client \in Clients /\ learner.mac \in Macs /\ known[learner.client] # NoMac
    BY <1>2, <1>9 DEF LearnerStores, LookupOK, AtClient
  <2>2. /\ table' \in [Clients -> Macs \cup {NoMac}]
        /\ \A c \in Clients : table'[c] # NoMac => table[c] # NoMac \/ known[c] # NoMac
    BY <1>2, <1>9, <2>1, StoreKeeps, StoreTypes DEF LearnerStores
  <2> DEFINE g == LearnerGoesOn(learner.client)
  <2>3. g \in Learner /\ g.at \in {"idle", "consider"} /\ (g.at = "consider" => g.client \in Clients)
    BY <2>1, LearnerGoesOnOK
  <2>4. learner' = g /\ known' = known /\ Kept
    BY <1>9 DEF LearnerStores, Kept
  <2> HIDE DEF g
  <2> QED
    BY <1>1, <1>2, <2>2, <2>3, <2>4, LearnerInv DEF AtClient
<1> QED
  BY <1>5, <1>6, <1>7, <1>8, <1>9 DEF Learn

LEMMA TickStep ==
    ASSUME Inv, Tick
    PROVE  Inv'
<1> DEFINE l == [Rest EXCEPT !.at = "due"]
<1>1. l \in Learner /\ l.at = "due"
  <2>1. "due" \in LearnerStates
    BY DEF LearnerStates
  <2> QED
    BY <2>1, RestOK, LearnerMoves, ZenonT(60)
<1>2. LearnerFrame /\ learner' = l /\ UNCHANGED <<known, table>> /\ Kept
  BY DEF Tick, LearnerFrame, Kept
<1>3. known \in [Clients -> Macs \cup {NoMac}] /\ table \in [Clients -> Macs \cup {NoMac}]
  BY DEF Inv, TypeInv
<1> HIDE DEF l
<1> QED
  BY <1>1, <1>2, <1>3, LearnerInv DEF AtClient

------------------------------------------------------------------------------
(* The sequence *)

\* While a sequence pins its addresses there is no row yet, and no command.
LEMMA PinningInv ==
    ASSUME Inv, proc = "running", UNCHANGED <<proc, learner, row, unread>>,
           seq.at # "act", seq'.at # "act",
           known' \in [Clients -> Macs \cup {NoMac}], Kept,
           table' \in [Clients -> Macs \cup {NoMac}],
           \A c \in Clients : table'[c] # NoMac => table[c] # NoMac \/ known[c] # NoMac,
           seq' \in SequenceType, LookupOK(seq)', SequenceInv',
           sent' = sent \/ sent' = [c \in Clients |-> {}]
    PROVE  Inv'
<1>1. row.live # TRUE
  BY DEF Inv, RowInv
<1>2. LookupOK(learner)'
  BY DEF Inv, TypeInv, LookupOK, Kept, AtClient
<1>3. TypeInv'
  BY <1>2 DEF Inv, TypeInv
<1>4. RowInv' /\ SentInv'
  BY <1>1 DEF Inv, RowInv, SentInv
<1>5. TableInMemory'
  BY DEF Inv, TableInMemory, Kept
<1> QED
  BY <1>3, <1>4, <1>5 DEF Inv

\* On to the next client, with this one pinned.
LEMMA GoesOnInv ==
    ASSUME Inv, NEW pin \in Pin, seq.at \in AtClient,
           seq.client \in Configured => pin.mac = "configured",
           seq' = SequenceGoesOn(seq, seq.client, pin)
    PROVE  seq' \in SequenceType /\ LookupOK(seq)' /\ SequenceInv' /\ seq'.at # "act"
<1> DEFINE c == seq.client
<1>1. seq \in SequenceType /\ c \in Clients
  BY DEF Inv, TypeInv, LookupOK
<1>2. /\ seq' \in SequenceType /\ seq'.at \in {"resolve", "save"}
      /\ seq'.pins = [seq.pins EXCEPT ![c] = pin]
      /\ seq'.at = "resolve" => seq'.client \in Clients /\ seq'.client = c + 1
      /\ seq'.at = "save" => c = NumClients
  BY <1>1, SequenceGoesOnOK
<1>3. ASSUME NEW d \in Clients, d <= c
      PROVE  ConfiguredIsPinned(seq'.pins, d)
  <2>1. CASE d = c
    BY <1>1, <1>2, <2>1 DEF ConfiguredIsPinned, SequenceType
  <2>2. CASE d # c
    <3>1. d < c
      BY <1>1, <1>3, <2>2 DEF Clients
    <3>2. ConfiguredIsPinned(seq.pins, d)
      BY <3>1 DEF Inv, SequenceInv
    <3> QED
      BY <1>1, <1>2, <2>2, <3>2 DEF ConfiguredIsPinned, SequenceType
  <2> QED
    BY <2>1, <2>2
<1>4. LookupOK(seq)'
  BY <1>2 DEF LookupOK, AtClient
<1>5. CASE seq'.at = "resolve"
  <2>1. \A d \in Clients : d < seq'.client => d <= c
    BY <1>1, <1>2, <1>5 DEF Clients
  <2> QED
    BY <1>2, <1>3, <1>4, <1>5, <2>1 DEF SequenceInv
<1>6. CASE seq'.at = "save"
  <2>1. \A d \in Clients : d <= c
    BY <1>1, <1>2, <1>6, Macless DEF Clients
  <2> QED
    BY <1>2, <1>3, <1>4, <1>6, <2>1 DEF SequenceInv, AtClient
<1> QED
  BY <1>2, <1>5, <1>6

LEMMA TriggerStep ==
    ASSUME Inv, Trigger
    PROVE  Inv'
<1> DEFINE s == [NoSequence EXCEPT !.at = "resolve", !.client = 1]
<1>1. s \in SequenceType /\ s.at = "resolve" /\ s.client = 1
  <2>1. \A t \in SequenceType : LET u == [t EXCEPT !.at = "resolve", !.client = 1]
                                IN u \in SequenceType /\ u.at = "resolve" /\ u.client = 1
    BY DEF SequenceType, SequenceStates
  <2> QED
    BY <2>1, NoSequenceOK, Zenon
<1>2. seq' = s /\ seq.at = "none" /\ NumClients > 0
  BY DEF Trigger, Active
<1> HIDE DEF s
<1>3. 1 \in Clients /\ \A c \in Clients : ~(c < 1)
  BY <1>2, Macless DEF Clients
<1>4. LookupOK(seq)' /\ SequenceInv'
  BY <1>1, <1>2, <1>3 DEF LookupOK, AtClient, SequenceInv
<1>5. known \in [Clients -> Macs \cup {NoMac}] /\ table \in [Clients -> Macs \cup {NoMac}]
  BY DEF Inv, TypeInv
<1> QED
  BY <1>1, <1>2, <1>4, <1>5, PinningInv DEF Trigger, Kept

LEMMA ResolveStep ==
    ASSUME Inv, NEW ip \in Ips \cup {NoIp, "literal"}, Resolve(ip)
    PROVE  Inv'
<1> DEFINE c == seq.client
           mac == IF ClientMAC(c) # NoMac THEN ClientMAC(c) ELSE known[c]
           pin == [ip |-> ip, mac |-> mac]
           s == [seq EXCEPT !.at = "ask", !.pins[c] = pin]
<1>1. /\ seq.at = "resolve" /\ seq \in SequenceType /\ c \in Clients
      /\ known \in [Clients -> Macs \cup {NoMac}] /\ table \in [Clients -> Macs \cup {NoMac}]
  BY DEF Resolve, Inv, TypeInv, LookupOK, AtClient
<1>2. /\ mac \in Macs \cup {NoMac, "configured"}
      /\ c \in Configured => mac = "configured" /\ mac # NoMac
  BY <1>1, Macless DEF ClientMAC
<1>3. pin \in Pin /\ pin.mac = mac
  <2> HIDE DEF mac
  <2> QED
    BY <1>2 DEF Pin
<1>4. seq' = IF mac # NoMac THEN SequenceGoesOn(seq, c, pin) ELSE s
  BY DEF Resolve
<1>5. seq' \in SequenceType /\ LookupOK(seq)' /\ SequenceInv' /\ seq'.at # "act"
  <2>1. CASE mac # NoMac
    <3>1. seq' = SequenceGoesOn(seq, c, pin)
      BY <1>4, <2>1
    <3> HIDE DEF pin, mac
    <3> QED
      BY <1>1, <1>2, <1>3, <3>1, GoesOnInv DEF AtClient
  <2>2. CASE mac = NoMac
    <3> DEFINE ps == [seq.pins EXCEPT ![c] = pin]
               t == [seq EXCEPT !.at = "ask", !.pins = ps]
    <3>1. ps \in [Clients -> Pin]
      BY <1>1, <1>3 DEF SequenceType
    <3>2. t \in SequenceType /\ t.at = "ask" /\ t.client = c /\ t.pins = ps
      <4> HIDE DEF ps
      <4> QED
        BY <1>1, <3>1 DEF SequenceType, SequenceStates
    <3>3. seq' = t
      BY <1>1, <1>4, <2>2 DEF SequenceType
    <3>4. \A d \in Clients : d < c => ps[d] = seq.pins[d]
      BY <1>1 DEF SequenceType, Clients
    <3>5. c \notin Configured
      BY <1>2, <2>2
    <3> HIDE DEF t, ps
    <3>6. SequenceInv'
      BY <1>1, <3>2, <3>3, <3>4, <3>5 DEF Inv, SequenceInv, ConfiguredIsPinned, AtClient
    <3> QED
      BY <1>1, <3>2, <3>3, <3>6 DEF LookupOK, AtClient
  <2> QED
    BY <2>1, <2>2
<1> QED
  BY <1>1, <1>5, PinningInv DEF Resolve, Kept

LEMMA SequenceHearsStep ==
    ASSUME Inv, NEW mac \in Macs \cup {NoMac}, SequenceHears(mac)
    PROVE  Inv'
<1> DEFINE c == seq.client
           s == [seq EXCEPT !.at = "remember", !.mac = mac]
<1>1. /\ seq.at = "ask" /\ seq \in SequenceType /\ c \in Clients /\ c \notin Configured
      /\ known \in [Clients -> Macs \cup {NoMac}] /\ table \in [Clients -> Macs \cup {NoMac}]
  BY DEF SequenceHears, Inv, TypeInv, LookupOK, AtClient, SequenceInv
<1>2. seq.pins[c] \in Pin
  BY <1>1 DEF SequenceType
<1>3. seq' \in SequenceType /\ LookupOK(seq)' /\ SequenceInv' /\ seq'.at # "act"
  <2>1. CASE mac = NoMac
    BY <1>1, <1>2, <2>1, GoesOnInv DEF SequenceHears, AtClient
  <2>2. CASE mac # NoMac
    <3>1. s \in SequenceType /\ s.at = "remember" /\ s.client = c /\ s.pins = seq.pins /\ s.mac = mac
      BY <1>1 DEF SequenceType, SequenceStates
    <3>2. seq' = s
      BY <2>2 DEF SequenceHears
    <3> HIDE DEF s
    <3>3. SequenceInv'
      BY <1>1, <3>1, <3>2 DEF Inv, SequenceInv, AtClient
    <3> QED
      BY <1>1, <2>2, <3>1, <3>2, <3>3 DEF LookupOK, AtClient
  <2> QED
    BY <2>1, <2>2
<1> QED
  BY <1>1, <1>3, PinningInv DEF SequenceHears, Kept

LEMMA SequenceRemembersStep ==
    ASSUME Inv, SequenceRemembers
    PROVE  Inv'
<1> DEFINE s == [seq EXCEPT !.at = "store"]
<1>1. /\ seq.at = "remember" /\ seq \in SequenceType /\ seq.client \in Clients /\ seq.mac \in Macs
      /\ TypeInv /\ table \in [Clients -> Macs \cup {NoMac}]
  BY DEF SequenceRemembers, Inv, TypeInv, LookupOK, AtClient
<1>2. known' \in [Clients -> Macs \cup {NoMac}] /\ known'[seq.client] # NoMac /\ Kept
  BY <1>1, RememberKeeps DEF SequenceRemembers
<1>3. s \in SequenceType /\ s.at = "store" /\ s.client = seq.client /\ s.pins = seq.pins
      /\ s.mac = seq.mac
  BY <1>1 DEF SequenceType, SequenceStates
<1>4. seq' = s
  BY DEF SequenceRemembers
<1> HIDE DEF s
<1>5. SequenceInv' /\ LookupOK(seq)'
  BY <1>1, <1>2, <1>3, <1>4 DEF Inv, SequenceInv, LookupOK, AtClient
<1> QED
  BY <1>1, <1>2, <1>3, <1>4, <1>5, PinningInv DEF SequenceRemembers

LEMMA SequenceStoresStep ==
    ASSUME Inv, SequenceStores
    PROVE  Inv'
<1> DEFINE c == seq.client
           pin == [seq.pins[c] EXCEPT !.mac = seq.mac]
<1>1. /\ seq.at = "store" /\ seq \in SequenceType /\ c \in Clients /\ seq.mac \in Macs
      /\ known[c] # NoMac /\ c \notin Configured /\ TypeInv
      /\ known \in [Clients -> Macs \cup {NoMac}]
  BY DEF SequenceStores, Inv, TypeInv, LookupOK, AtClient, SequenceInv
<1>2. seq.pins[c] \in Pin
  BY <1>1 DEF SequenceType
<1>3. pin \in Pin
  BY <1>1, <1>2 DEF Pin
<1>4. /\ table' \in [Clients -> Macs \cup {NoMac}]
      /\ \A d \in Clients : table'[d] # NoMac => table[d] # NoMac \/ known[d] # NoMac
  BY <1>1, StoreKeeps, StoreTypes DEF SequenceStores
<1>5. seq' = SequenceGoesOn(seq, c, pin)
  BY DEF SequenceStores
<1> HIDE DEF pin
<1>6. seq' \in SequenceType /\ LookupOK(seq)' /\ SequenceInv' /\ seq'.at # "act"
  BY <1>1, <1>3, <1>5, GoesOnInv DEF AtClient
<1> QED
  BY <1>1, <1>4, <1>6, PinningInv DEF SequenceStores, Kept

\* The row and the sequence agree from here on.
LEMMA SaveSequenceStep ==
    ASSUME Inv, SaveSequence
    PROVE  Inv'
<1> DEFINE s == [seq EXCEPT !.at = "act"]
<1>1. seq.at = "save" /\ seq \in SequenceType /\ proc = "running" /\ proc' = proc
      /\ UNCHANGED <<known, table, learner, sent, unread>>
  BY DEF SaveSequence, Inv, TypeInv
<1>2. s \in SequenceType /\ s.at = "act" /\ s.pins = seq.pins
  BY <1>1 DEF SequenceType, SequenceStates
<1>3. seq' = s /\ row' = [live |-> TRUE, pins |-> seq.pins]
  BY DEF SaveSequence
<1>4. row' \in Row /\ row'.live = TRUE /\ row'.pins = seq.pins
  BY <1>1, <1>3 DEF Row, SequenceType
<1> HIDE DEF s
<1>5. SequenceInv' /\ RowInv'
  BY <1>1, <1>2, <1>3, <1>4 DEF Inv, SequenceInv, RowInv, AtClient
<1>6. SentInv'
  <2>1. row.live # TRUE
    BY <1>1 DEF Inv, RowInv
  <2>2. \A c \in Clients : sent[c] = {}
    BY <2>1 DEF Inv, SentInv
  <2> QED
    BY <1>1, <2>2 DEF SentInv
<1>7. TypeInv'
  BY <1>1, <1>2, <1>3, <1>4 DEF Inv, TypeInv, LookupOK, AtClient
<1>8. TableInMemory'
  BY <1>1 DEF Inv, TableInMemory
<1> QED
  BY <1>5, <1>6, <1>7, <1>8 DEF Inv

\* Where a command of an acting sequence goes.
LEMMA TargetIsPinned ==
    ASSUME Inv, seq.at = "act", NEW c \in Clients
    PROVE  /\ Target(c).ip = PinnedIp(c)
           /\ row.pins[c].mac # NoMac => Target(c).mac = row.pins[c].mac
           /\ row.pins[c].mac = NoMac => Target(c).mac = known[c]
<1>1. row.pins = seq.pins /\ ConfiguredIsPinned(seq.pins, c)
  BY DEF Inv, RowInv, SequenceInv
<1>2. Target(c).ip = AddressFor(c) /\ Target(c).mac = MacFor(c)
  BY DEF Target
<1>3. AddressFor(c) = PinnedIp(c)
  BY <1>1 DEF AddressFor, PinnedIp
<1>4. MacFor(c) = IF row.pins[c].mac # NoMac THEN row.pins[c].mac ELSE known[c]
  BY <1>1, Macless DEF MacFor, ClientMAC, ConfiguredIsPinned
<1> QED
  BY <1>2, <1>3, <1>4

LEMMA ActStep ==
    ASSUME Inv, NEW c \in Clients, Act(c)
    PROVE  Inv'
<1>1. /\ seq.at = "act" /\ DOMAIN sent = Clients /\ row.live = TRUE
      /\ UNCHANGED <<proc, state, known, table, since, learner, seq, row, unread>>
  BY DEF Act, Inv, TypeInv, RowInv
<1>2. DOMAIN sent' = Clients
      /\ \A d \in Clients : sent'[d] = IF d = c THEN sent[d] \cup {Target(c)} ELSE sent[d]
  BY <1>1 DEF Act
<1>3. SentInv'
  <2> SUFFICES ASSUME NEW d \in Clients, NEW a \in sent'[d]
               PROVE  /\ a.ip = PinnedIp(d)
                      /\ row.pins[d].mac # NoMac => a.mac = row.pins[d].mac
    BY <1>1 DEF SentInv, PinnedIp
  <2>1. CASE a \in sent[d]
    BY <2>1 DEF Inv, SentInv
  <2>2. CASE a \notin sent[d]
    <3>1. a = Target(d)
      BY <1>2, <2>2
    <3> QED
      BY <1>1, <3>1, TargetIsPinned
  <2> QED
    BY <2>1, <2>2
<1>4. TypeInv'
  BY <1>1, <1>2 DEF Inv, TypeInv, LookupOK
<1> QED
  BY <1>1, <1>3, <1>4 DEF Inv, SequenceInv, RowInv, TableInMemory

LEMMA EndSequenceStep ==
    ASSUME Inv, EndSequence
    PROVE  Inv'
<1>1. /\ seq' = NoSequence /\ row' = NoRow /\ sent' = [c \in Clients |-> {}]
      /\ proc = "running" /\ UNCHANGED <<proc, known, table, learner, unread>>
  BY DEF EndSequence
<1>2. TypeInv'
  BY <1>1, NoSequenceOK DEF Inv, TypeInv, LookupOK, AtClient
<1>3. SequenceInv' /\ RowInv' /\ SentInv' /\ TableInMemory'
  BY <1>1, NoSequenceOK DEF Inv, SequenceInv, RowInv, SentInv, TableInMemory, AtClient
<1> QED
  BY <1>2, <1>3 DEF Inv

------------------------------------------------------------------------------
(* Crashes and restarts *)

LEMMA CrashStep ==
    ASSUME Inv, Crash
    PROVE  Inv'
<1>1. /\ seq' = NoSequence /\ learner' = Rest /\ proc' = "down"
      /\ known' = [c \in Clients |-> NoMac] /\ UNCHANGED <<table, row, sent, unread>>
  BY DEF Crash
<1>2. TypeInv'
  BY <1>1, NoSequenceOK, RestOK DEF Inv, TypeInv, LookupOK, AtClient
<1>3. SequenceInv' /\ RowInv' /\ SentInv' /\ TableInMemory'
  BY <1>1, NoSequenceOK DEF Inv, SequenceInv, RowInv, SentInv, PinnedIp, TableInMemory, AtClient
<1> QED
  BY <1>2, <1>3 DEF Inv

LEMMA BootStep ==
    ASSUME Inv, Boot
    PROVE  Inv'
<1>1. CASE Start
  BY <1>1 DEF Start, Inv, TypeInv, LookupOK, SequenceInv, RowInv, SentInv, PinnedIp, TableInMemory
<1>2. CASE RestoreLearnedMACs
  <2>1. /\ seq = NoSequence /\ learner = Rest /\ proc' = "resuming"
        /\ UNCHANGED <<table, learner, seq, row, sent>>
        /\ \/ known' = table /\ unread' = FALSE
           \/ known' = known /\ unread' = TRUE
    BY <1>2 DEF RestoreLearnedMACs, Inv, TypeInv
  <2>2. TypeInv'
    BY <2>1, NoSequenceOK, RestOK DEF Inv, TypeInv, LookupOK, AtClient
  <2>3. SequenceInv' /\ RowInv' /\ SentInv' /\ TableInMemory'
    BY <2>1, NoSequenceOK DEF Inv, SequenceInv, RowInv, SentInv, PinnedIp, TableInMemory
  <2> QED
    BY <2>2, <2>3 DEF Inv
<1>3. CASE Resume
  <2> DEFINE s == [NoSequence EXCEPT !.at = "act", !.pins = row.pins]
  <2>1. row.pins \in [Clients -> Pin] /\ row.live \in BOOLEAN
    BY DEF Inv, TypeInv, Row
  <2>2. s \in SequenceType /\ s.at = "act" /\ s.pins = row.pins
    <3>1. \A t \in SequenceType, ps \in [Clients -> Pin] :
              LET u == [t EXCEPT !.at = "act", !.pins = ps]
              IN u \in SequenceType /\ u.at = "act" /\ u.pins = ps
      BY DEF SequenceType, SequenceStates
    <3> QED
      BY <2>1, <3>1, NoSequenceOK, Zenon
  <2>3. /\ proc' = "running" /\ proc = "resuming" /\ learner = Rest /\ seq = NoSequence
        /\ UNCHANGED <<known, table, learner, row, sent, unread>>
    BY <1>3 DEF Resume, Inv, TypeInv
  <2>4. seq' = IF row.live THEN s ELSE NoSequence
    BY <1>3 DEF Resume
  <2> HIDE DEF s
  <2>5. TypeInv'
    BY <2>2, <2>3, <2>4, NoSequenceOK DEF Inv, TypeInv, LookupOK, AtClient
  <2>6. SequenceInv' /\ RowInv'
    <3>1. CASE row.live = TRUE
      BY <2>2, <2>3, <2>4, <3>1 DEF Inv, SequenceInv, RowInv, AtClient
    <3>2. CASE row.live = FALSE
      BY <2>3, <2>4, <3>2, NoSequenceOK DEF Inv, SequenceInv, RowInv, AtClient
    <3> QED
      BY <2>1, <3>1, <3>2
  <2>7. SentInv' /\ TableInMemory'
    BY <2>3 DEF Inv, SentInv, PinnedIp, TableInMemory
  <2> QED
    BY <2>5, <2>6, <2>7 DEF Inv
<1> QED
  BY <1>1, <1>2, <1>3 DEF Boot

------------------------------------------------------------------------------
(* The theorems *)

LEMMA InitInv == Init => Inv
<1> SUFFICES ASSUME Init PROVE Inv
  OBVIOUS
<1>1. TypeInv
  BY NoSequenceOK, RestOK DEF Init, TypeInv
<1>2. SequenceInv /\ RowInv /\ SentInv /\ TableInMemory
  BY NoSequenceOK DEF Init, SequenceInv, RowInv, SentInv, TableInMemory, AtClient
<1> QED
  BY <1>1, <1>2 DEF Inv

LEMMA InvStep == Inv /\ [Next]_vars => Inv'
<1> SUFFICES ASSUME Inv, [Next]_vars PROVE Inv'
  OBVIOUS
<1>1. CASE Learn
  BY <1>1, LearnStep
<1>2. CASE Sequence
  BY <1>2, TriggerStep, ResolveStep, SequenceHearsStep, SequenceRemembersStep,
     SequenceStoresStep, SaveSequenceStep, ActStep, EndSequenceStep DEF Sequence
<1>3. CASE Tick
  BY <1>3, TickStep
<1>4. CASE Boot
  BY <1>4, BootStep
<1>5. CASE Crash
  BY <1>5, CrashStep
<1>6. CASE UNCHANGED vars \/ \E c \in Clients : StateChanges(c)
  <2>1. UNCHANGED <<proc, known, table, learner, seq, row, sent, unread>>
    BY <1>6 DEF vars, StateChanges
  <2> QED
    BY <2>1 DEF Inv, TypeInv, LookupOK, SequenceInv, RowInv, SentInv, PinnedIp, TableInMemory
<1> QED
  BY <1>1, <1>2, <1>3, <1>4, <1>5, <1>6 DEF Next

LEMMA AlwaysInv == Spec => []Inv
BY InitInv, InvStep, PTL DEF Spec

\* All commands of a sequence for a client, before and after any number of
\* crashes, go to the address pinned when it started, whatever DNS and the
\* probe loop have come up with since (addressFor, macFor).
THEOREM OneTargetPerSequence == Spec => []OneTarget
<1>1. Inv => OneTarget
  BY DEF Inv, SentInv, OneTarget
<1> QED
  BY <1>1, AlwaysInv, PTL

------------------------------------------------------------------------------
(* Clients that were pinned without a MAC *)

\* The sequence is done with the client, or has found memory empty for it.
Passed(c) ==
    \/ seq.at \in {"save", "act"}
    \/ seq.at \in AtClient /\ c < seq.client
    \/ seq.at = "ask" /\ c = seq.client

Unpinned(c) == c \notin Configured /\ Passed(c) /\ seq.pins[c].mac = NoMac /\ unread = FALSE

\* What the table gets for such a client is what memory has just got.  The
\* pass of the probe loop that is under way comes to the client once, and the
\* next one is after the sequence.
UnpinnedOK(c) ==
    /\ table[c] # NoMac => known[c] = table[c]
    /\ learner.at \in AtClient /\ learner.client <= c => table[c] = NoMac
    /\ learner.at = "store" /\ learner.client = c => known[c] = learner.mac

UnpinnedInv ==
    /\ \A c \in Clients : Unpinned(c) => UnpinnedOK(c)
    /\ proc = "resuming" /\ unread = FALSE => known = table

\* While the probe loop learns, the sequence stays where it is.
LEMMA UnpinnedLearn ==
    ASSUME Inv, UnpinnedInv, Learn
    PROVE  UnpinnedInv'
<1>1. /\ proc' = "running" /\ seq' = seq /\ unread' = unread
  BY DEF Learn, BeginLearning, Consider, LearnerHears, LearnerRemembers, LearnerStores
<1> SUFFICES ASSUME NEW c \in Clients, Unpinned(c), UnpinnedOK(c)
             PROVE  UnpinnedOK(c)'
  BY <1>1 DEF UnpinnedInv, Unpinned, Passed
<1>2. /\ learner \in Learner /\ LookupOK(learner)
      /\ known \in [Clients -> Macs \cup {NoMac}] /\ table \in [Clients -> Macs \cup {NoMac}]
      /\ Active /\ c \in Nat
  BY DEF Inv, TypeInv, Unpinned, Passed, Active, AtClient, Clients
<1> DEFINE d == learner.client
           g == LearnerGoesOn(d)
<1>3. ASSUME d \in Clients
      PROVE  g.at \notin {"store"} /\ (g.at \in AtClient => g.client = d + 1 /\ d \in Nat)
  <2>1. \A l \in Learner, n \in Nat :
            LET m == [l EXCEPT !.at = "consider", !.client = n]
            IN m.at = "consider" /\ m.client = n
    BY DEF Learner
  <2>2. d \in Nat /\ d + 1 \in Nat
    BY <1>3 DEF Clients
  <2>3. CASE d < NumClients
    BY <2>1, <2>2, <2>3, RestOK DEF LearnerGoesOn
  <2>4. CASE ~(d < NumClients)
    BY <2>2, <2>4, RestOK DEF LearnerGoesOn, AtClient
  <2> QED
    BY <2>3, <2>4
<1>4. CASE BeginLearning
  <2>1. learner' = Rest /\ UNCHANGED <<known, table>>
    BY <1>2, <1>4 DEF BeginLearning
  <2> QED
    BY <2>1, RestOK DEF UnpinnedOK, AtClient
<1>5. ASSUME d \in Clients, learner.at \in AtClient, learner' = g, UNCHANGED known,
             table'[c] # table[c] => d = c /\ known[c] = table'[c]
      PROVE  UnpinnedOK(c)'
  <2>1. g.at \notin {"store"} /\ (g.at \in AtClient => g.client = d + 1 /\ d \in Nat)
    BY <1>3, <1>5
  <2> HIDE DEF g
  <2> QED
    BY <1>2, <1>5, <2>1 DEF UnpinnedOK
<1>6. ASSUME learner.at \in AtClient, UNCHANGED <<known, table>>,
             learner'.at # "store", learner'.client = d
      PROVE  UnpinnedOK(c)'
  BY <1>6 DEF UnpinnedOK
<1>7. CASE Consider
  <2>1. d \in Clients /\ learner.at \in AtClient /\ UNCHANGED <<known, table>>
    BY <1>2, <1>7 DEF Consider, LookupOK, AtClient
  <2>2. CASE learner' = [learner EXCEPT !.at = "ask"]
    <3>1. learner'.at # "store" /\ learner'.client = d
      BY <1>2, <2>2 DEF Learner
    <3> QED
      BY <1>6, <2>1, <3>1
  <2>3. CASE learner' = g
    BY <1>5, <2>1, <2>3
  <2> QED
    BY <1>7, <2>2, <2>3 DEF Consider
<1>8. ASSUME NEW mac \in Macs \cup {NoMac}, LearnerHears(mac)
      PROVE  UnpinnedOK(c)'
  <2>1. d \in Clients /\ learner.at \in AtClient /\ UNCHANGED <<known, table>>
    BY <1>2, <1>8 DEF LearnerHears, LookupOK, AtClient
  <2>2. CASE learner' = [learner EXCEPT !.at = "remember", !.mac = mac]
    <3>1. learner'.at # "store" /\ learner'.client = d
      BY <1>2, <2>2 DEF Learner
    <3> QED
      BY <1>6, <2>1, <3>1
  <2>3. CASE learner' = g
    BY <1>5, <2>1, <2>3
  <2> QED
    BY <1>8, <2>2, <2>3 DEF LearnerHears
<1>9. CASE LearnerRemembers
  <2>1. d \in Clients /\ learner.at \in AtClient /\ table' = table
    BY <1>2, <1>9 DEF LearnerRemembers, LookupOK, AtClient
  <2>2. learner'.at = "store" /\ learner'.client = d /\ learner'.mac = learner.mac
    BY <1>2, <1>9 DEF LearnerRemembers, Learner
  <2>3. known'[c] = IF c = d THEN learner.mac ELSE known[c]
    BY <1>2, <1>9 DEF LearnerRemembers, Remember
  <2>4. c = d => table[c] = NoMac
    BY <1>2, <2>1 DEF UnpinnedOK
  <2> QED
    BY <2>1, <2>2, <2>3, <2>4 DEF UnpinnedOK
<1>10. CASE LearnerStores
  <2>1. d \in Clients /\ learner.at \in AtClient /\ learner' = g /\ known' = known
    BY <1>2, <1>10 DEF LearnerStores, LookupOK, AtClient
  <2>2. table'[c] # table[c] => d = c /\ table'[c] = learner.mac
    BY <1>2, <1>10 DEF LearnerStores, Store
  <2>3. d = c => known[c] = learner.mac
    BY <1>10 DEF UnpinnedOK, LearnerStores
  <2> QED
    BY <1>5, <2>1, <2>2, <2>3
<1> QED
  BY <1>4, <1>7, <1>8, <1>9, <1>10 DEF Learn

\* A step that leaves alone the clients that stay unpinned.
LEMMA UnpinnedFrame ==
    ASSUME UnpinnedInv, UNCHANGED <<learner, unread>>, proc' = "running",
           \A c \in Clients : Unpinned(c)' =>
               Unpinned(c) /\ known'[c] = known[c] /\ table'[c] = table[c]
    PROVE  UnpinnedInv'
BY DEF UnpinnedInv, UnpinnedOK

\* The clients before the one the sequence is at keep their pins when it goes
\* on, and this one is pinned.
LEMMA UnpinnedGoesOn ==
    ASSUME Inv, NEW pin \in Pin, seq.at \in AtClient, unread' = unread,
           seq' = SequenceGoesOn(seq, seq.client, pin), NEW c \in Clients, Unpinned(c)'
    PROVE  \/ c = seq.client /\ pin.mac = NoMac
           \/ c # seq.client /\ Unpinned(c)
<1> DEFINE e == seq.client
<1>1. seq \in SequenceType /\ e \in Clients
  BY DEF Inv, TypeInv, LookupOK
<1>2. /\ seq'.pins = [seq.pins EXCEPT ![e] = pin]
      /\ seq'.at \in {"resolve", "save"}
      /\ seq'.at = "resolve" => seq'.client = e + 1
      /\ seq'.at = "save" => e = NumClients
  BY <1>1, SequenceGoesOnOK
<1>3. c <= e
  BY <1>1, <1>2, Macless DEF Unpinned, Passed, Clients, AtClient
<1>4. CASE c = e
  BY <1>1, <1>2, <1>4 DEF Unpinned, SequenceType
<1>5. CASE c # e
  <2>1. c < e /\ seq'.pins[c] = seq.pins[c]
    BY <1>1, <1>2, <1>3, <1>5 DEF Clients, SequenceType
  <2> QED
    BY <1>5, <2>1 DEF Unpinned, Passed
<1> QED
  BY <1>4, <1>5

LEMMA UnpinnedResolve ==
    ASSUME Inv, UnpinnedInv, NEW ip \in Ips \cup {NoIp, "literal"}, Resolve(ip)
    PROVE  UnpinnedInv'
<1> DEFINE e == seq.client
           mac == IF ClientMAC(e) # NoMac THEN ClientMAC(e) ELSE known[e]
           pin == [ip |-> ip, mac |-> mac]
<1>1. /\ seq.at = "resolve" /\ seq \in SequenceType /\ e \in Clients /\ seq.at \in AtClient
      /\ known \in [Clients -> Macs \cup {NoMac}] /\ LookupOK(learner)
      /\ proc = "running" /\ UNCHANGED <<proc, learner, unread, known, table>>
  BY DEF Resolve, Inv, TypeInv, LookupOK, AtClient
<1>2. mac \in Macs \cup {NoMac, "configured"}
  BY <1>1 DEF ClientMAC
<1>3. pin \in Pin /\ pin.mac = mac
  <2> HIDE DEF mac
  <2> QED
    BY <1>2 DEF Pin
<1>4. CASE mac # NoMac
  <2>1. seq' = SequenceGoesOn(seq, e, pin)
    BY <1>4 DEF Resolve
  <2> HIDE DEF pin, mac
  <2>2. \A c \in Clients : Unpinned(c)' => Unpinned(c)
    BY <1>1, <1>3, <1>4, <2>1, UnpinnedGoesOn
  <2> QED
    BY <1>1, <2>2, UnpinnedFrame
<1>5. CASE mac = NoMac
  <2>1. known[e] = NoMac
    BY <1>5, Macless DEF ClientMAC
  <2>2. /\ seq'.at = "ask" /\ seq'.client = e
        /\ \A c \in Clients : c # e => seq'.pins[c] = seq.pins[c]
    BY <1>1, <1>5 DEF Resolve, SequenceType
  <2>3. \A c \in Clients : c # e /\ Unpinned(c)' => Unpinned(c)
    BY <1>1, <2>2 DEF Unpinned, Passed, AtClient
  <2>4. unread = FALSE => table[e] = NoMac
    BY <1>1, <2>1 DEF Inv, TableInMemory
  <2>5. ~(learner.at = "store" /\ learner.client = e)
    BY <1>1, <2>1 DEF LookupOK
  <2> HIDE DEF e
  <2>6. ASSUME NEW c \in Clients, Unpinned(c)'
        PROVE  UnpinnedOK(c)'
    <3>1. CASE c = e
      <4>1. unread = FALSE
        BY <1>1, <2>6 DEF Unpinned
      <4> QED
        BY <1>1, <2>4, <2>5, <3>1, <4>1 DEF UnpinnedOK
    <3>2. CASE c # e
      BY <1>1, <2>3, <2>6, <3>2 DEF UnpinnedInv, UnpinnedOK
    <3> QED
      BY <3>1, <3>2
  <2> QED
    BY <1>1, <2>6 DEF UnpinnedInv
<1> QED
  BY <1>4, <1>5

LEMMA UnpinnedSequence ==
    ASSUME Inv, UnpinnedInv, Sequence
    PROVE  UnpinnedInv'
<1>1. /\ proc = "running" /\ proc' = proc /\ UNCHANGED <<learner, unread>>
      /\ seq \in SequenceType /\ LookupOK(seq)
      /\ known \in [Clients -> Macs \cup {NoMac}] /\ table \in [Clients -> Macs \cup {NoMac}]
  BY DEF Inv, TypeInv, Sequence, Trigger, Resolve, SequenceHears, SequenceRemembers,
     SequenceStores, SaveSequence, Act, EndSequence
<1>2. CASE Trigger
  <2>1. \A t \in SequenceType : LET u == [t EXCEPT !.at = "resolve", !.client = 1]
                                IN u.at = "resolve" /\ u.client = 1
    BY DEF SequenceType
  <2>2. seq'.at = "resolve" /\ seq'.client = 1
    BY <1>2, <2>1, NoSequenceOK DEF Trigger
  <2>3. \A c \in Clients : ~Unpinned(c)'
    BY <2>2 DEF Unpinned, Passed, Clients
  <2> QED
    BY <1>1, <2>3, UnpinnedFrame
<1>3. ASSUME NEW ip \in Ips \cup {NoIp, "literal"}, Resolve(ip)
      PROVE  UnpinnedInv'
  BY <1>3, UnpinnedResolve
<1>4. ASSUME NEW mac \in Macs \cup {NoMac}, SequenceHears(mac)
      PROVE  UnpinnedInv'
  <2>1. /\ seq.at = "ask" /\ seq.client \in Clients /\ seq.client \notin Configured
        /\ seq.pins[seq.client] \in Pin /\ UNCHANGED <<known, table>>
    BY <1>1, <1>4 DEF SequenceHears, LookupOK, AtClient, Inv, SequenceInv, SequenceType
  <2>2. CASE mac = NoMac
    <3>1. seq' = SequenceGoesOn(seq, seq.client, seq.pins[seq.client])
      BY <1>4, <2>2 DEF SequenceHears
    <3>2. \A c \in Clients : Unpinned(c)' => Unpinned(c)
      <4> SUFFICES ASSUME NEW c \in Clients, Unpinned(c)' PROVE Unpinned(c)
        OBVIOUS
      <4>1. \/ c = seq.client /\ seq.pins[seq.client].mac = NoMac
            \/ c # seq.client /\ Unpinned(c)
        BY <1>1, <2>1, <3>1, UnpinnedGoesOn DEF AtClient
      <4> QED
        BY <1>1, <2>1, <4>1 DEF Unpinned, Passed
    <3> QED
      BY <1>1, <2>1, <3>2, UnpinnedFrame
  <2>3. CASE mac # NoMac
    <3>1. seq'.at = "remember" /\ seq'.client = seq.client /\ seq'.pins = seq.pins
      BY <1>1, <1>4, <2>3 DEF SequenceHears, SequenceType
    <3>2. \A c \in Clients : Unpinned(c)' => Unpinned(c)
      BY <1>1, <2>1, <3>1 DEF Unpinned, Passed, AtClient
    <3> QED
      BY <1>1, <2>1, <3>2, UnpinnedFrame
  <2> QED
    BY <2>2, <2>3
<1>5. CASE SequenceRemembers
  <2>1. /\ seq.at = "remember" /\ seq.client \in Clients /\ table' = table
        /\ seq'.at = "store" /\ seq'.client = seq.client /\ seq'.pins = seq.pins
    BY <1>1, <1>5 DEF SequenceRemembers, LookupOK, AtClient, SequenceType
  <2>2. \A c \in Clients : c # seq.client => known'[c] = known[c]
    BY <1>1, <1>5 DEF SequenceRemembers, Remember
  <2>3. \A c \in Clients : Unpinned(c)' => Unpinned(c) /\ c # seq.client
    BY <1>1, <2>1 DEF Unpinned, Passed, AtClient, Clients
  <2> QED
    BY <1>1, <2>1, <2>2, <2>3, UnpinnedFrame
<1>6. CASE SequenceStores
  <2> DEFINE pin == [seq.pins[seq.client] EXCEPT !.mac = seq.mac]
  <2>1. seq.at = "store" /\ seq.client \in Clients /\ seq.mac \in Macs /\ known' = known
        /\ seq' = SequenceGoesOn(seq, seq.client, pin)
    BY <1>1, <1>6 DEF SequenceStores, LookupOK, AtClient
  <2>2. pin \in Pin /\ pin.mac # NoMac
    <3>1. seq.pins[seq.client] \in Pin
      BY <1>1, <2>1 DEF SequenceType
    <3> QED
      BY <2>1, <3>1, Macless DEF Pin
  <2>3. \A c \in Clients : c # seq.client => table'[c] = table[c]
    BY <1>1, <1>6 DEF SequenceStores, Store
  <2> HIDE DEF pin
  <2>4. \A c \in Clients : Unpinned(c)' => Unpinned(c) /\ c # seq.client
    BY <1>1, <2>1, <2>2, UnpinnedGoesOn DEF AtClient
  <2> QED
    BY <1>1, <2>1, <2>3, <2>4, UnpinnedFrame
<1>7. CASE SaveSequence
  <2>1. seq.at = "save" /\ seq'.pins = seq.pins /\ UNCHANGED <<known, table>>
    BY <1>1, <1>7 DEF SaveSequence, SequenceType
  <2>2. \A c \in Clients : Unpinned(c)' => Unpinned(c)
    BY <1>1, <2>1 DEF Unpinned, Passed
  <2> QED
    BY <1>1, <2>1, <2>2, UnpinnedFrame
<1>8. ASSUME NEW c \in Clients, Act(c)
      PROVE  UnpinnedInv'
  BY <1>1, <1>8, UnpinnedFrame DEF Act, Unpinned, Passed
<1>9. CASE EndSequence
  <2>1. \A c \in Clients : ~Unpinned(c)'
    BY <1>9, NoSequenceOK DEF EndSequence, Unpinned, Passed, AtClient
  <2> QED
    BY <1>1, <2>1, UnpinnedFrame
<1> QED
  BY <1>2, <1>3, <1>4, <1>5, <1>6, <1>7, <1>8, <1>9 DEF Sequence

LEMMA UnpinnedStep == Inv /\ UnpinnedInv /\ [Next]_vars => UnpinnedInv'
<1> SUFFICES ASSUME Inv, UnpinnedInv, [Next]_vars PROVE UnpinnedInv'
  OBVIOUS
<1>1. CASE Tick
  <2>1. learner'.at = "due"
    <3>1. "due" \in LearnerStates
      BY DEF LearnerStates
    <3> QED
      BY <1>1, <3>1, RestOK, LearnerMoves, ZenonT(60) DEF Tick
  <2> QED
    BY <1>1, <2>1 DEF Tick, UnpinnedInv, UnpinnedOK, Unpinned, Passed, AtClient
<1>2. CASE Crash \/ Start
  <2>1. seq'.at = "none" /\ proc' # "resuming"
    BY <1>2, NoSequenceOK DEF Crash, Start, Inv, TypeInv
  <2> QED
    BY <2>1 DEF UnpinnedInv, Unpinned, Passed, AtClient
<1>3. CASE RestoreLearnedMACs
  <2>1. seq'.at = "none" /\ (unread' = FALSE => known' = table')
    BY <1>3, NoSequenceOK DEF RestoreLearnedMACs, Inv, TypeInv
  <2> QED
    BY <2>1 DEF UnpinnedInv, Unpinned, Passed, AtClient
<1>4. CASE Resume
  <2>1. /\ learner'.at = "idle" /\ proc = "resuming" /\ proc' = "running"
        /\ UNCHANGED <<known, table, unread>>
    BY <1>4, RestOK DEF Resume, Inv, TypeInv
  <2> QED
    BY <2>1 DEF UnpinnedInv, UnpinnedOK, Unpinned, AtClient
<1>5. CASE UNCHANGED vars \/ \E c \in Clients : StateChanges(c)
  <2>1. UNCHANGED <<proc, known, table, learner, seq, unread>>
    BY <1>5 DEF vars, StateChanges
  <2> QED
    BY <2>1 DEF UnpinnedInv, UnpinnedOK, Unpinned, Passed
<1> QED
  BY <1>1, <1>2, <1>3, <1>4, <1>5, UnpinnedLearn, UnpinnedSequence DEF Next, Boot

\* The MAC on record for a client is the one its commands carry: the pinned
\* one whatever is learned later, and for a client pinned without one the one
\* the table has, because memory has the same (macFor, learnMACs,
\* recordLearnedMAC, restoreLearnedMACs).
THEOREM LearnedMacsAreUsed == Spec => []KnownMacIsUsed
<1>1. Init => UnpinnedInv
  BY NoSequenceOK DEF Init, UnpinnedInv, Unpinned, Passed, AtClient
<1>2. Inv /\ UnpinnedInv => KnownMacIsUsed
  <2> SUFFICES ASSUME Inv, UnpinnedInv, seq.at = "act", NEW c \in Clients, OnRecord(c) # NoMac
               PROVE  Target(c).mac = OnRecord(c)
    BY DEF KnownMacIsUsed
  <2>1. /\ row.pins = seq.pins /\ ConfiguredIsPinned(row.pins, c) /\ unread \in BOOLEAN
    BY DEF Inv, TypeInv, RowInv, SequenceInv
  <2>2. CASE row.pins[c].mac # NoMac
    BY <2>1, <2>2, TargetIsPinned DEF OnRecord, ConfiguredIsPinned
  <2>3. CASE row.pins[c].mac = NoMac
    <3>1. c \notin Configured /\ unread = FALSE /\ OnRecord(c) = table[c]
      BY <2>1, <2>3, Macless DEF OnRecord, ConfiguredIsPinned
    <3>2. Unpinned(c)
      BY <2>1, <2>3, <3>1 DEF Unpinned, Passed
    <3>3. known[c] = table[c]
      BY <3>1, <3>2 DEF UnpinnedInv, UnpinnedOK
    <3> QED
      BY <2>3, <3>1, <3>3, TargetIsPinned
  <2> QED
    BY <2>2, <2>3
<1> QED
  BY <1>1, <1>2, AlwaysInv, UnpinnedStep, PTL DEF Spec
=============================================================================
