---------------------------- MODULE PolicyProofs ----------------------------
(***************************************************************************)
(* Proofs that PolicyLoop starts a plan only on a trigger that has been    *)
(* proven for its whole `for:`, before and after crashes, and not on       *)
(* credit from before an arming, for every set of plans, every `for:` and  *)
(* any number of concurrent set-mode requests.                             *)
(***************************************************************************)
EXTENDS PolicyLoop, TLAPS

------------------------------------------------------------------------------
(* The timers' operators *)

LEMMA CapToType ==
    ASSUME NEW n \in Nat, NEW top \in Nat
    PROVE  /\ CapTo(n, top) \in 0..top
           /\ CapTo(n, top) <= n
           /\ n <= top => CapTo(n, top) = n
BY DEF CapTo

LEMMA NewTimerType ==
    /\ NewTimer \in Timer
    /\ NoRecord \in Record
    /\ NewTimer.running = FALSE /\ NewTimer.credited = 0 /\ NewTimer.unsaved = PersistEvery
    /\ NoRecord.elapsed = 0
BY PolicyAssumption DEF NewTimer, NoRecord, Timer, Record

LEMMA ElapsedType ==
    ASSUME NEW t \in Timer, NEW p \in Plans
    PROVE  /\ Elapsed(t, p) \in Nat
           /\ Elapsed(t, p) \in 0..Longest
           /\ Elapsed(t, p) <= Required[p]
           /\ t.credited > Required[p] \/ t.credited <= Elapsed(t, p)
           /\ ~t.running /\ t.credited = 0 => Elapsed(t, p) = 0
BY PolicyAssumption DEF Elapsed, CapTo, Timer

\* A lapse leaves nothing.
LEMMA LapsedTimer ==
    ASSUME NEW t \in Timer
    PROVE  /\ Lapsed(t) \in Timer
           /\ Lapsed(t).running = FALSE /\ Lapsed(t).credited = 0
           /\ Lapsed(t).satisfied = FALSE
           /\ Lapsed(t).unsaved = t.unsaved
<1>1. 0 \in 0..Longest
  BY PolicyAssumption
<1> QED
  BY <1>1 DEF Lapsed, Timer

LEMMA StartedTimer ==
    ASSUME NEW t \in Timer, NEW p \in Plans
    PROVE  LET u == Started(t) IN
           /\ u \in Timer /\ u.running = TRUE /\ u.credited = t.credited
           /\ u.unsaved = t.unsaved
           /\ u.since = IF t.running THEN t.since ELSE 0
<1>1. 0 \in 0..Longest
  BY PolicyAssumption
<1> QED
  BY <1>1 DEF Started, Timer

\* An evaluation earns nothing by itself.
LEMMA ContinuedTimer ==
    ASSUME NEW t \in Timer, NEW p \in Plans
    PROVE  LET u == Continued(t, p) IN
           /\ u \in Timer /\ u.running = TRUE /\ u.credited = t.credited
           /\ u.unsaved = t.unsaved
           /\ Elapsed(u, p) = Elapsed(t, p)
           /\ u.satisfied = (Elapsed(u, p) >= Required[p])
<1> DEFINE s == Started(t)
           enough == Elapsed(s, p) >= Required[p]
           u == [s EXCEPT !.satisfied = enough]
<1>1. s \in Timer /\ s.running = TRUE /\ s.credited = t.credited /\ s.unsaved = t.unsaved
  BY StartedTimer
<1>2. Elapsed(s, p) = Elapsed(t, p)
  <2>1. s.since = IF t.running THEN t.since ELSE 0
    BY StartedTimer
  <2> QED
    BY <1>1, <2>1, PolicyAssumption DEF Elapsed, CapTo, Timer
<1>3. enough \in BOOLEAN
  OBVIOUS
<1>4. u \in Timer /\ u.running = s.running /\ u.credited = s.credited
      /\ u.unsaved = s.unsaved /\ u.since = s.since /\ u.satisfied = enough
  <2> HIDE DEF s, enough
  <2> QED
    BY <1>1, <1>3 DEF Timer
<1>5. Elapsed(u, p) = Elapsed(s, p)
  BY <1>4 DEF Elapsed
<1> QED
  BY <1>1, <1>2, <1>4, <1>5 DEF Continued

LEMMA SavedTimer ==
    ASSUME NEW t \in Timer, NEW p \in Plans
    PROVE  LET u == Saved(t) IN
           /\ u \in Timer /\ u.running = t.running /\ u.credited = t.credited
           /\ u.satisfied = t.satisfied /\ u.unsaved = 0
           /\ Elapsed(u, p) = Elapsed(t, p)
BY PolicyAssumption DEF Saved, Elapsed, CapTo, Timer

\* A tick earns at most a tick, and none at rest.
LEMMA AgedTimer ==
    ASSUME NEW t \in Timer, NEW p \in Plans
    PROVE  LET u == Aged(t, p) IN
           /\ u \in Timer /\ u.running = t.running /\ u.credited = t.credited
           /\ u.unsaved = CapTo(t.unsaved + 1, PersistEvery)
           /\ Elapsed(u, p) <= Elapsed(t, p) + 1
           /\ ~t.running => Elapsed(u, p) = Elapsed(t, p)
<1> DEFINE n == IF t.running THEN CapTo(t.since + 1, Required[p]) ELSE t.since
           m == CapTo(t.unsaved + 1, PersistEvery)
           u == [t EXCEPT !.since = n, !.unsaved = m]
<1>1. n \in 0..Longest /\ m \in 0..PersistEvery
  BY PolicyAssumption DEF Timer, CapTo
<1>2. u \in Timer /\ u.running = t.running /\ u.credited = t.credited
      /\ u.unsaved = m /\ u.since = n
  <2> HIDE DEF n, m
  <2> QED
    BY <1>1 DEF Timer
<1>3. Elapsed(u, p) <= Elapsed(t, p) + 1 /\ (~t.running => Elapsed(u, p) = Elapsed(t, p))
  <2>1. t.since \in Nat /\ t.credited \in Nat /\ Required[p] \in Nat
    BY PolicyAssumption DEF Timer
  <2> HIDE DEF u
  <2> QED
    BY <1>2, <2>1 DEF Elapsed, CapTo
<1> QED
  BY <1>2, <1>3 DEF Aged

\* A restart gives back what was written.
LEMMA RestoredTimer ==
    ASSUME NEW r \in Record, NEW p \in Plans
    PROVE  LET u == Restored(r) IN
           /\ u \in Timer /\ u.running = FALSE /\ u.credited = r.elapsed
           /\ u.unsaved = PersistEvery
           /\ Elapsed(u, p) <= r.elapsed
<1>1. r.elapsed \in 0..Longest /\ r.satisfied \in BOOLEAN
  BY DEF Record
<1>2. /\ Restored(r) \in Timer /\ Restored(r).running = FALSE
      /\ Restored(r).credited = r.elapsed /\ Restored(r).unsaved = PersistEvery
  <2>1. NewTimer \in Timer /\ NewTimer.running = FALSE /\ NewTimer.unsaved = PersistEvery
    BY NewTimerType
  <2> QED
    BY <1>1, <2>1 DEF Restored, Timer
<1>3. Elapsed(Restored(r), p) <= r.elapsed
  BY <1>1, <1>2, PolicyAssumption DEF Elapsed, CapTo
<1> QED
  BY <1>2, <1>3

------------------------------------------------------------------------------
(* The inductive invariant *)

\* No timer and no row holds credit that was not observed, and credit is
\* forgotten by both together.
Earned(p) ==
    /\ Elapsed(timer[p], p) <= proven[p]
    /\ record[p].elapsed <= proven[p] /\ record[p].elapsed <= Required[p]
    /\ timer[p].running => watch[p] = "on"
    /\ timer[p].credited > 0 \/ record[p].elapsed > 0 => watch[p] # "none"
    /\ record[p].elapsed > 0 /\ pc # "off" => timer[p].running \/ timer[p].credited > 0
    /\ Required[p] = 0 => ~timer[p].running /\ timer[p].credited = 0

\* A row lags its timer by what has passed since it was written.
Written(p) ==
    timer[p].unsaved < PersistEvery
    => Elapsed(timer[p], p) <= record[p].elapsed + timer[p].unsaved

\* A timer holds credit from before the last arming only while that arming
\* has not come to it.
Restarted(p) ==
    \/ p \in Guarded
    \/ Elapsed(timer[p], p) <= armedFor
    \/ \E h \in Handlers : handler[h].step = "reset" /\ handler[h].plan <= p

\* What a pass of the loop knows.
InPass ==
    /\ pc \in {"scan", "claim"} <=> loopMode # "none"
    /\ settled /\ loopMode # "none" => \A h \in Handlers : handler[h].step # "reset"
    /\ pc = "claim" => /\ proven[at] >= Required[at]
                       /\ settled /\ at \notin Guarded => armedFor >= Required[at]
    /\ pc = "off" => armedFor = Longest

Inv ==
    /\ TypeOK
    /\ \A p \in Plans : Earned(p) /\ Written(p) /\ Restarted(p)
    /\ InPass

------------------------------------------------------------------------------
(* One evaluation, one plan *)

Backed(t, r, p, n) ==
    /\ Elapsed(t, p) <= n
    /\ r.elapsed <= n /\ r.elapsed <= Required[p]

\* What ApplyDwell and Watch make of the timer, row and observations of the
\* plan they are about.
LEMMA DwellStep ==
    ASSUME Inv, pc = "scan", NEW p \in Plans, ApplyDwell(p), Watch(p)
    PROVE  /\ timer' \in [Plans -> Timer] /\ record' \in [Plans -> Record]
           /\ watch' \in [Plans -> {"none", "on", "paused"}]
           /\ proven' \in [Plans -> 0..Longest]
           /\ \A q \in Plans \ {p} : /\ timer'[q] = timer[q] /\ record'[q] = record[q]
                                     /\ watch'[q] = watch[q] /\ proven'[q] = proven[q]
           /\ Backed(timer'[p], record'[p], p, proven'[p])
           /\ timer'[p].running => watch'[p] = "on"
           /\ timer'[p].credited > 0 \/ record'[p].elapsed > 0 => watch'[p] # "none"
           /\ record'[p].elapsed > 0 => timer'[p].running \/ timer'[p].credited > 0
           /\ Required[p] = 0 => ~timer'[p].running /\ timer'[p].credited = 0
           /\ timer'[p].unsaved < PersistEvery
              => Elapsed(timer'[p], p) <= record'[p].elapsed + timer'[p].unsaved
           /\ Elapsed(timer'[p], p) <= Elapsed(timer[p], p)
           /\ value[p] /\ timer'[p].satisfied /\ Required[p] > 0
              => Elapsed(timer'[p], p) >= Required[p]
           /\ timer'[p].running
              => Elapsed(timer'[p], p) < record'[p].elapsed + PersistEvery
<1> DEFINE t == timer[p]
           r == record[p]
           u == Applied(t, p)
           w == [elapsed |-> Elapsed(u, p), satisfied |-> u.satisfied]
           n == proven[p]
<1>0. /\ t \in Timer /\ r \in Record /\ n \in 0..Longest /\ Required[p] \in Nat
      /\ watch[p] \in {"none", "on", "paused"} /\ value[p] \in BOOLEAN
      /\ PersistEvery \in Nat \ {0} /\ Longest \in Nat
      /\ timer \in [Plans -> Timer] /\ record \in [Plans -> Record]
      /\ watch \in [Plans -> {"none", "on", "paused"}]
      /\ proven \in [Plans -> 0..Longest]
  BY PolicyAssumption DEF Inv, TypeOK
<1>1. /\ Elapsed(t, p) <= n /\ r.elapsed <= n /\ r.elapsed <= Required[p]
      /\ t.running => watch[p] = "on"
      /\ t.credited > 0 \/ r.elapsed > 0 => watch[p] # "none"
      /\ r.elapsed > 0 => t.running \/ t.credited > 0
      /\ Required[p] = 0 => ~t.running /\ t.credited = 0
      /\ t.unsaved < PersistEvery => Elapsed(t, p) <= r.elapsed + t.unsaved
  BY DEF Inv, Earned, Written
<1>2. /\ t.running \in BOOLEAN /\ t.credited \in Nat /\ t.unsaved \in 0..PersistEvery
      /\ t.satisfied \in BOOLEAN /\ r.elapsed \in Nat
      /\ Elapsed(t, p) \in Nat
  BY <1>0, ElapsedType DEF Timer, Record
<1>3. /\ watch' = [watch EXCEPT ![p] = IF value[p] THEN "on" ELSE "none"]
      /\ proven' = [proven EXCEPT ![p] = IF value[p] /\ watch[p] # "none" THEN n ELSE 0]
  BY DEF Watch
<1>4. /\ watch' \in [Plans -> {"none", "on", "paused"}]
      /\ proven' \in [Plans -> 0..Longest]
      /\ watch'[p] = (IF value[p] THEN "on" ELSE "none")
      /\ proven'[p] = (IF value[p] /\ watch[p] # "none" THEN n ELSE 0)
      /\ \A q \in Plans \ {p} : watch'[q] = watch[q] /\ proven'[q] = proven[q]
  BY <1>0, <1>3
<1>5. /\ u \in Timer /\ u.unsaved = t.unsaved /\ Elapsed(u, p) \in 0..Longest
      /\ Elapsed(u, p) <= Required[p] /\ u.satisfied \in BOOLEAN
      /\ value[p] => /\ u.running = TRUE /\ u.credited = t.credited
                     /\ Elapsed(u, p) = Elapsed(t, p)
                     /\ u.satisfied = (Elapsed(u, p) >= Required[p])
      /\ ~value[p] => u.running = FALSE /\ u.credited = 0 /\ Elapsed(u, p) = 0
  <2>1. CASE value[p]
    <3>1. u = Continued(t, p)
      BY <2>1 DEF Applied
    <3> HIDE DEF u
    <3>2. /\ u \in Timer /\ u.unsaved = t.unsaved /\ u.running = TRUE
          /\ u.credited = t.credited /\ Elapsed(u, p) = Elapsed(t, p)
          /\ u.satisfied = (Elapsed(u, p) >= Required[p])
      BY <1>0, <3>1, ContinuedTimer
    <3> QED
      BY <2>1, <3>2, ElapsedType DEF Timer
  <2>2. CASE ~value[p]
    <3>1. u = Lapsed(t)
      BY <2>2 DEF Applied
    <3> HIDE DEF u
    <3>2. u \in Timer /\ u.unsaved = t.unsaved /\ u.running = FALSE /\ u.credited = 0
      BY <1>0, <3>1, LapsedTimer
    <3> QED
      BY <2>2, <3>2, ElapsedType DEF Timer
  <2> QED
    BY <2>1, <2>2
<1>6. w \in Record /\ w.elapsed = Elapsed(u, p)
  <2> HIDE DEF u
  <2> QED
    BY <1>5 DEF Record
<1>7. t.running = FALSE /\ t.credited = 0 => Elapsed(t, p) = 0 /\ r.elapsed = 0
  <2>1. t.running = FALSE /\ t.credited = 0 => Elapsed(t, p) = 0
    BY <1>0, ElapsedType
  <2> QED
    BY <1>1, <1>2, <2>1
<1>8. CASE Required[p] = 0
  <2>1. timer' = timer /\ record' = record
    BY <1>8 DEF ApplyDwell
  <2>2. Elapsed(t, p) = 0 /\ r.elapsed = 0
    BY <1>0, <1>1, <1>2, <1>8, ElapsedType
  <2> QED
    BY <1>0, <1>1, <1>2, <1>4, <1>8, <2>1, <2>2 DEF Backed
<1>9. CASE Required[p] # 0 /\ WriteDue(t, u)
  <2>1. /\ timer' = [timer EXCEPT ![p] = Saved(u)]
        /\ record' = [record EXCEPT ![p] = w]
    BY <1>9 DEF ApplyDwell
  <2>2. /\ Saved(u) \in Timer /\ Saved(u).running = u.running
        /\ Saved(u).credited = u.credited /\ Saved(u).satisfied = u.satisfied
        /\ Saved(u).unsaved = 0 /\ Elapsed(Saved(u), p) = Elapsed(u, p)
    BY <1>5, SavedTimer
  <2> HIDE DEF u, w
  <2>3. /\ timer' \in [Plans -> Timer] /\ record' \in [Plans -> Record]
        /\ timer'[p] = Saved(u) /\ record'[p] = w
        /\ \A q \in Plans \ {p} : timer'[q] = timer[q] /\ record'[q] = record[q]
    BY <1>0, <1>6, <2>1, <2>2
  <2> QED
    BY <1>0, <1>1, <1>2, <1>4, <1>5, <1>6, <1>7, <1>9, <2>2, <2>3 DEF Backed
<1>10. CASE Required[p] # 0 /\ ~WriteDue(t, u)
  <2>1. timer' = [timer EXCEPT ![p] = u] /\ record' = record
    BY <1>10 DEF ApplyDwell
  <2>2. ~value[p] => t.running = FALSE /\ t.credited = 0
    BY <1>2, <1>5, <1>10 DEF WriteDue
  <2>3. value[p] => t.unsaved < PersistEvery
    BY <1>0, <1>2, <1>5, <1>10 DEF WriteDue
  <2> HIDE DEF u
  <2>4. /\ timer' \in [Plans -> Timer] /\ record' \in [Plans -> Record]
        /\ timer'[p] = u /\ record'[p] = r
        /\ \A q \in Plans \ {p} : timer'[q] = timer[q] /\ record'[q] = record[q]
    BY <1>0, <1>5, <2>1
  <2> QED
    BY <1>0, <1>1, <1>2, <1>4, <1>5, <1>7, <1>10, <2>2, <2>3, <2>4 DEF Backed
<1> QED
  BY <1>8, <1>9, <1>10

------------------------------------------------------------------------------
(* The invariant is inductive *)

LEMMA InvInit == Init => Inv
<1> SUFFICES ASSUME Init PROVE Inv
  OBVIOUS
<1>1. TypeOK
  <2>1. NewTimer \in Timer /\ NoRecord \in Record
    BY NewTimerType
  <2>2. 1 \in Plans /\ 0 \in 0..NumPlans
    BY PolicyAssumption DEF Plans
  <2>3. 0 \in 0..Longest /\ Longest \in 0..Longest
    BY PolicyAssumption
  <2> QED
    BY <2>1, <2>2, <2>3, PolicyAssumption DEF Init, TypeOK, Modes
<1>2. ASSUME NEW p \in Plans PROVE Earned(p) /\ Written(p) /\ Restarted(p)
  <2>1. timer[p] = NewTimer /\ record[p] = NoRecord /\ proven[p] = 0 /\ armedFor = Longest
    BY DEF Init
  <2>2. Elapsed(NewTimer, p) = 0
    BY NewTimerType, ElapsedType
  <2> QED
    BY <2>1, <2>2, NewTimerType, PolicyAssumption DEF Earned, Written, Restarted
<1>3. InPass
  BY DEF Init, InPass
<1> QED
  BY <1>1, <1>2, <1>3 DEF Inv

\* A step that leaves timers, rows and observations alone.
LEMMA TimersAlone ==
    ASSUME Inv, pc # "off", UNCHANGED <<timer, record, watch, proven>>
    PROVE  \A p \in Plans : Earned(p)' /\ Written(p)'
BY DEF Inv, Earned, Written

LEMMA PlanIds ==
    /\ 1 \in Plans
    /\ \A p \in Plans : p \in 1..NumPlans /\ p \in 0..NumPlans
    /\ \A p \in Plans : p < NumPlans => p + 1 \in Plans
BY PolicyAssumption DEF Plans

LEMMA Counters ==
    ASSUME TypeOK
    PROVE  /\ Longest \in Nat /\ PersistEvery \in Nat /\ PersistEvery > 0
           /\ armedFor \in Nat /\ armedFor <= Longest
           /\ \A p \in Plans : /\ proven[p] \in Nat /\ proven[p] <= Longest
                                /\ Required[p] \in Nat /\ Required[p] <= Longest
<1>1. armedFor \in 0..Longest /\ \A p \in Plans : proven[p] \in 0..Longest
  BY DEF TypeOK
<1>2. /\ Longest \in Nat /\ PersistEvery \in Nat \ {0}
      /\ \A p \in Plans : Required[p] \in Nat /\ Required[p] <= Longest
  BY PolicyAssumption
<1> QED
  BY <1>1, <1>2

LEMMA BeginPassInv == Inv /\ BeginPass => Inv'
<1> SUFFICES ASSUME Inv, BeginPass PROVE Inv'
  OBVIOUS
<1>1. TypeOK'
  <2>1. settled' \in BOOLEAN
    BY DEF BeginPass
  <2>2. UNCHANGED <<value, guard, timer, mode, handler, active, record, stored, watch, proven, armedFor>>
        /\ pc' = "scan" /\ at' = 1 /\ loopMode' = mode
    BY DEF BeginPass, facts
  <2> QED
    BY <2>1, <2>2, PlanIds DEF Inv, TypeOK
<1>2. \A p \in Plans : Earned(p)' /\ Written(p)'
  BY TimersAlone DEF BeginPass
<1>3. \A p \in Plans : Restarted(p)'
  BY DEF Inv, Restarted, BeginPass
<1>4. InPass'
  <2>1. loopMode' # "none"
    BY DEF Inv, TypeOK, BeginPass, Modes
  <2> QED
    BY <2>1 DEF Inv, InPass, BeginPass
<1> QED
  BY <1>1, <1>2, <1>3, <1>4 DEF Inv

LEMMA BusyInv == Inv /\ Busy => Inv'
<1> SUFFICES ASSUME Inv, Busy PROVE Inv'
  OBVIOUS
<1>1. TypeOK'
  BY PlanIds DEF Inv, TypeOK, Busy, Rest, facts
<1>2. \A p \in Plans : Earned(p)' /\ Written(p)'
  BY TimersAlone DEF Busy, Rest
<1>3. \A p \in Plans : Restarted(p)'
  BY DEF Inv, Restarted, Busy
<1>4. InPass'
  BY DEF Inv, InPass, Busy, Rest
<1> QED
  BY <1>1, <1>2, <1>3, <1>4 DEF Inv

\* Where NextPlan leads.
LEMMA NextPlanMoves ==
    ASSUME TypeOK, InPass, pc \in {"scan", "claim"}, NextPlan, UNCHANGED handler
    PROVE  /\ at' \in Plans /\ loopMode' \in Modes \cup {"none"} /\ settled' \in BOOLEAN
           /\ pc' \in {"scan", "rested"}
           /\ pc' = "scan" <=> loopMode' # "none"
           /\ settled' /\ loopMode' # "none"
              => \A h \in Handlers : handler'[h].step # "reset"
<1>1. CASE at < NumPlans
  BY <1>1, PlanIds DEF TypeOK, InPass, NextPlan
<1>2. CASE ~(at < NumPlans)
  BY <1>2, PlanIds DEF TypeOK, NextPlan, Rest
<1> QED
  BY <1>1, <1>2

LEMMA EvaluateTriggerInv == Inv /\ EvaluateTrigger => Inv'
<1> SUFFICES ASSUME Inv, EvaluateTrigger PROVE Inv'
  OBVIOUS
<1>0. /\ pc = "scan" /\ at \in Plans
      /\ UNCHANGED <<value, guard, mode, handler, active, stored, armedFor>>
      /\ armedFor \in 0..Longest /\ Longest \in Nat /\ Required[at] \in Nat
      /\ TypeOK /\ InPass
  BY PolicyAssumption DEF Inv, TypeOK, EvaluateTrigger, facts
<1>1. /\ timer' \in [Plans -> Timer] /\ record' \in [Plans -> Record]
      /\ watch' \in [Plans -> {"none", "on", "paused"}]
      /\ proven' \in [Plans -> 0..Longest]
      /\ \A p \in Plans :
            /\ pc' # "off" => Earned(p)'
            /\ Written(p)'
            /\ Elapsed(timer'[p], p) <= Elapsed(timer[p], p)
  <2>1. CASE ~Sampled(at)
    <3>1. UNCHANGED <<timer, record, watch, proven>>
      BY <2>1 DEF EvaluateTrigger
    <3>2. \A p \in Plans : Elapsed(timer[p], p) \in Nat
      BY <1>0, ElapsedType DEF TypeOK
    <3>3. \A p \in Plans : Earned(p)' /\ Written(p)'
      BY <1>0, <3>1, TimersAlone
    <3>4. \A p \in Plans : Elapsed(timer'[p], p) <= Elapsed(timer[p], p)
      BY <3>1, <3>2
    <3> QED
      BY <1>0, <3>1, <3>3, <3>4 DEF TypeOK
  <2>2. CASE Sampled(at)
    <3>1. ApplyDwell(at) /\ Watch(at)
      BY <2>2 DEF EvaluateTrigger
    <3>2. ASSUME NEW p \in Plans, p # at
          PROVE  Earned(p)' /\ Written(p)' /\ Elapsed(timer'[p], p) <= Elapsed(timer[p], p)
      <4>1. /\ timer'[p] = timer[p] /\ record'[p] = record[p]
            /\ watch'[p] = watch[p] /\ proven'[p] = proven[p]
        BY <1>0, <3>1, <3>2, DwellStep
      <4>2. Elapsed(timer[p], p) \in Nat
        BY <1>0, ElapsedType DEF TypeOK
      <4>3. Earned(p) /\ Written(p)
        BY DEF Inv
      <4> QED
        BY <1>0, <4>1, <4>2, <4>3 DEF Earned, Written
    <3>4. /\ Backed(timer'[at], record'[at], at, proven'[at])
          /\ timer'[at].running => watch'[at] = "on"
          /\ timer'[at].credited > 0 \/ record'[at].elapsed > 0 => watch'[at] # "none"
          /\ record'[at].elapsed > 0 => timer'[at].running \/ timer'[at].credited > 0
          /\ Required[at] = 0 => ~timer'[at].running /\ timer'[at].credited = 0
          /\ timer'[at].unsaved < PersistEvery
             => Elapsed(timer'[at], at) <= record'[at].elapsed + timer'[at].unsaved
          /\ Elapsed(timer'[at], at) <= Elapsed(timer[at], at)
      BY <1>0, <3>1, DwellStep
    <3>5. ASSUME NEW p \in Plans, p = at
          PROVE  Earned(p)' /\ Written(p)'
      BY <3>4, <3>5 DEF Earned, Written, Backed
    <3>6. /\ timer' \in [Plans -> Timer] /\ record' \in [Plans -> Record]
          /\ watch' \in [Plans -> {"none", "on", "paused"}]
          /\ proven' \in [Plans -> 0..Longest]
      BY <1>0, <3>1, DwellStep
    <3> QED
      BY <3>2, <3>4, <3>5, <3>6
  <2> QED
    BY <2>1, <2>2
<1>2. \A p \in Plans : Restarted(p)'
  <2> SUFFICES ASSUME NEW p \in Plans PROVE Restarted(p)'
    OBVIOUS
  <2>1. Elapsed(timer'[p], p) \in Nat /\ Elapsed(timer[p], p) \in Nat
    BY <1>0, <1>1, ElapsedType DEF TypeOK
  <2>2. Restarted(p)
    BY DEF Inv
  <2> QED
    BY <1>0, <1>1, <2>1, <2>2 DEF Restarted
<1>3. CASE Fires(at) /\ loopMode # "disarmed"
  <2>1. pc' = "claim" /\ UNCHANGED <<at, loopMode, settled>>
    BY <1>3 DEF EvaluateTrigger
  <2>2. TypeOK'
    BY <1>0, <1>1, <2>1 DEF TypeOK
  <2>3. ApplyDwell(at) /\ Watch(at) /\ value[at]
    BY <1>3 DEF EvaluateTrigger, Fires, Sampled
  <2>4. Elapsed(timer'[at], at) >= Required[at] \/ Required[at] = 0
    <3>1. Required[at] > 0 => timer'[at].satisfied
      BY <1>3 DEF Fires
    <3>2. value[at] /\ timer'[at].satisfied /\ Required[at] > 0
          => Elapsed(timer'[at], at) >= Required[at]
      BY <1>0, <2>3, DwellStep
    <3> QED
      BY <1>0, <2>3, <3>1, <3>2
  <2>5. /\ Elapsed(timer'[at], at) \in Nat /\ Elapsed(timer[at], at) \in Nat
        /\ proven'[at] \in Nat
    <3>1. timer'[at] \in Timer /\ timer[at] \in Timer /\ proven'[at] \in 0..Longest
      BY <1>0, <1>1 DEF TypeOK
    <3> QED
      BY <1>0, <3>1, ElapsedType
  <2>6. Elapsed(timer'[at], at) <= proven'[at]
    BY <1>0, <2>3, DwellStep DEF Backed
  <2>7. proven'[at] >= Required[at]
    BY <1>0, <2>4, <2>5, <2>6
  <2>8. settled /\ at \notin Guarded => armedFor >= Required[at]
    <3>1. settled => \A h \in Handlers : handler[h].step # "reset"
      BY <1>0 DEF InPass
    <3>2. Restarted(at)
      BY <1>0 DEF Inv
    <3>3. Elapsed(timer'[at], at) <= Elapsed(timer[at], at)
      BY <1>0, <1>1
    <3> QED
      BY <1>0, <2>4, <2>5, <3>1, <3>2, <3>3 DEF Restarted
  <2>9. InPass'
    BY <1>0, <2>1, <2>7, <2>8 DEF InPass
  <2> QED
    BY <1>1, <1>2, <2>1, <2>2, <2>9 DEF Inv
<1>4. CASE ~(Fires(at) /\ loopMode # "disarmed")
  <2>1. NextPlan
    BY <1>4 DEF EvaluateTrigger
  <2>2. /\ at' \in Plans /\ loopMode' \in Modes \cup {"none"} /\ settled' \in BOOLEAN
        /\ pc' \in {"scan", "rested"}
        /\ pc' = "scan" <=> loopMode' # "none"
        /\ settled' /\ loopMode' # "none"
           => \A h \in Handlers : handler'[h].step # "reset"
    BY <1>0, <2>1, NextPlanMoves
  <2>3. TypeOK'
    BY <1>0, <1>1, <2>2 DEF TypeOK
  <2>4. InPass'
    BY <2>2 DEF InPass
  <2> QED
    BY <1>1, <1>2, <2>2, <2>3, <2>4 DEF Inv
<1> QED
  BY <1>3, <1>4

LEMMA ClaimSlotInv == Inv /\ ClaimSlot => Inv'
<1> SUFFICES ASSUME Inv, ClaimSlot PROVE Inv'
  OBVIOUS
<1>0. /\ TypeOK /\ InPass /\ pc = "claim" /\ NextPlan /\ active' = at
      /\ UNCHANGED <<value, guard, timer, mode, handler, record, stored, watch, proven, armedFor>>
  BY DEF Inv, ClaimSlot, facts
<1>1. /\ at' \in Plans /\ loopMode' \in Modes \cup {"none"} /\ settled' \in BOOLEAN
      /\ pc' \in {"scan", "rested"}
      /\ pc' = "scan" <=> loopMode' # "none"
      /\ settled' /\ loopMode' # "none"
         => \A h \in Handlers : handler'[h].step # "reset"
  BY <1>0, NextPlanMoves
<1>2. TypeOK'
  BY <1>0, <1>1, PlanIds DEF TypeOK
<1>3. \A p \in Plans : Earned(p)' /\ Written(p)'
  BY <1>0, TimersAlone
<1>4. \A p \in Plans : Restarted(p)'
  BY <1>0 DEF Inv, Restarted
<1>5. InPass'
  BY <1>1 DEF InPass
<1> QED
  BY <1>2, <1>3, <1>4, <1>5 DEF Inv

LEMMA EndSequenceInv == Inv /\ EndSequence => Inv'
<1> SUFFICES ASSUME Inv, EndSequence PROVE Inv'
  OBVIOUS
<1>0. /\ TypeOK /\ InPass /\ pc # "off" /\ active' = 0
      /\ UNCHANGED <<value, guard, pc, at, loopMode, timer, mode, handler, record, stored,
                     watch, proven, armedFor, settled>>
  BY DEF Inv, EndSequence, facts, loop, seen
<1>1. TypeOK'
  <2>1. 0 \in 0..NumPlans
    BY PolicyAssumption
  <2> QED
    BY <1>0, <2>1 DEF TypeOK
<1>2. \A p \in Plans : Earned(p)' /\ Written(p)'
  BY <1>0, TimersAlone
<1>3. \A p \in Plans : Restarted(p)'
  BY <1>0 DEF Inv, Restarted
<1>4. InPass'
  BY <1>0 DEF InPass
<1> QED
  BY <1>1, <1>2, <1>3, <1>4 DEF Inv

\* What a request under way holds.
LEMMA HandlerFields ==
    ASSUME TypeOK, NEW h \in Handlers, handler[h].step \in {"reset", "save"}
    PROVE  handler[h] \in Handling
<1>1. handler[h] \in {Idle} \cup Handling
  BY DEF TypeOK
<1>2. handler[h] # Idle
  BY DEF Idle
<1> QED
  BY <1>1, <1>2

LEMMA SetModeInv ==
    ASSUME NEW h \in Handlers, NEW m \in Requested
    PROVE  Inv /\ SetMode(h, m) => Inv'
<1> SUFFICES ASSUME Inv, SetMode(h, m) PROVE Inv'
  OBVIOUS
<1> DEFINE arming == mode = "disarmed" /\ m # "disarmed"
           new == [step |-> NextStep(mode, m), want |-> m, plan |-> 1]
<1>0. /\ TypeOK /\ InPass /\ pc # "off" /\ mode' = m /\ m \in Modes
      /\ handler[h] = Idle /\ handler' = [handler EXCEPT ![h] = new]
      /\ UNCHANGED <<value, guard, pc, at, loopMode, timer, active, record, stored,
                     watch, proven>>
      /\ handler \in [Handlers -> {Idle} \cup Handling]
  BY PolicyAssumption DEF Inv, TypeOK, SetMode, facts, loop
<1>1. /\ arming => armedFor' = 0 /\ settled' = (loopMode = "none")
      /\ ~arming => UNCHANGED <<armedFor, settled>>
  BY DEF SetMode
<1>2. /\ new \in Handling /\ new.step = (IF arming THEN "reset" ELSE "save")
      /\ new.plan = 1
  <2>1. NextStep(mode, m) = (IF arming THEN "reset" ELSE "save")
    BY DEF NextStep
  <2>2. NextStep(mode, m) \in {"reset", "save"}
    BY <2>1
  <2> HIDE DEF arming
  <2> QED
    BY <1>0, <2>1, <2>2, PlanIds DEF Handling
<1> HIDE DEF new
<1>3. /\ handler' \in [Handlers -> {Idle} \cup Handling]
      /\ handler'[h] = new
      /\ \A k \in Handlers \ {h} : handler'[k] = handler[k]
  BY <1>0, <1>2
<1>4. TypeOK'
  <2>1. 0 \in 0..Longest
    BY PolicyAssumption
  <2>2. armedFor' \in 0..Longest
    BY <1>0, <1>1, <2>1 DEF TypeOK
  <2>3. settled' \in BOOLEAN
    BY <1>0, <1>1 DEF TypeOK
  <2> QED
    BY <1>0, <1>3, <2>2, <2>3 DEF TypeOK
<1>5. \A p \in Plans : Earned(p)' /\ Written(p)'
  BY <1>0, TimersAlone
<1>6. ASSUME NEW p \in Plans PROVE Restarted(p)'
  <2>1. CASE arming
    <3>1. handler'[h].step = "reset" /\ handler'[h].plan <= p
      BY <1>2, <1>3, <2>1, PlanIds, PolicyAssumption
    <3> QED
      BY <3>1 DEF Restarted
  <2>2. CASE ~arming
    <3>1. \A k \in Handlers : handler[k].step = "reset" => k # h
      BY <1>0 DEF Idle
    <3>2. UNCHANGED <<timer, armedFor>>
      BY <1>0, <1>1, <2>2
    <3>3. Restarted(p)
      BY DEF Inv
    <3> QED
      BY <1>3, <3>1, <3>2, <3>3 DEF Restarted
  <2> QED
    BY <2>1, <2>2
<1>7. InPass'
  <2>1. CASE arming
    BY <1>0, <1>1, <2>1 DEF InPass
  <2>2. CASE ~arming
    <3>1. handler'[h].step # "reset"
      BY <1>2, <1>3, <2>2
    <3>2. UNCHANGED <<armedFor, settled>>
      BY <1>1, <2>2
    <3> QED
      BY <1>0, <1>3, <3>1, <3>2 DEF InPass
  <2> QED
    BY <2>1, <2>2
<1> QED
  BY <1>4, <1>5, <1>6, <1>7 DEF Inv

LEMMA SaveModeInv ==
    ASSUME NEW h \in Handlers
    PROVE  Inv /\ SaveMode(h) => Inv'
<1> SUFFICES ASSUME Inv, SaveMode(h) PROVE Inv'
  OBVIOUS
<1>0. /\ TypeOK /\ InPass /\ handler[h].step = "save"
      /\ stored' \in {stored, handler[h].want}
      /\ handler' = [handler EXCEPT ![h] = Idle]
      /\ UNCHANGED <<value, guard, pc, at, loopMode, timer, mode, active, record,
                     watch, proven, armedFor, settled>>
  BY DEF Inv, SaveMode, facts, loop, seen
<1>1. handler[h].want \in Modes
  BY <1>0, HandlerFields DEF Handling
<1>2. /\ handler' \in [Handlers -> {Idle} \cup Handling]
      /\ handler'[h].step = "idle"
      /\ \A k \in Handlers \ {h} : handler'[k] = handler[k]
  <2>1. Idle.step = "idle"
    BY DEF Idle
  <2> QED
    BY <1>0, <2>1 DEF TypeOK
<1>3. TypeOK'
  BY <1>0, <1>1, <1>2 DEF TypeOK
<1>4. \A p \in Plans : Earned(p)' /\ Written(p)'
  BY <1>0 DEF Inv, Earned, Written
<1>5. \A p \in Plans : Restarted(p)'
  BY <1>0, <1>2 DEF Inv, Restarted
<1>6. InPass'
  BY <1>0, <1>2 DEF InPass
<1> QED
  BY <1>3, <1>4, <1>5, <1>6 DEF Inv

LEMMA ResetDwellInv ==
    ASSUME NEW h \in Handlers
    PROVE  Inv /\ ResetDwell(h) => Inv'
<1> SUFFICES ASSUME Inv, ResetDwell(h) PROVE Inv'
  OBVIOUS
<1> DEFINE p == handler[h].plan
           new == IF p < NumPlans THEN [handler[h] EXCEPT !.plan = p + 1]
                  ELSE [handler[h] EXCEPT !.step = "save"]
<1>0. /\ TypeOK /\ InPass /\ handler[h].step = "reset"
      /\ handler' = [handler EXCEPT ![h] = new]
      /\ UNCHANGED <<value, guard, pc, at, loopMode, mode, active, stored,
                     watch, proven, armedFor, settled>>
  BY DEF Inv, ResetDwell, facts, loop, seen
<1>1. handler[h] \in Handling
  BY <1>0, HandlerFields
<1>2. p \in Plans
  BY <1>1 DEF Handling
<1>3. /\ new \in Handling
      /\ p < NumPlans => new.step = "reset" /\ new.plan = p + 1
      /\ ~(p < NumPlans) => new.step = "save"
  BY <1>0, <1>1, <1>2, PlanIds DEF Handling
<1> HIDE DEF new
<1>4. /\ handler' \in [Handlers -> {Idle} \cup Handling]
      /\ handler'[h] = new
      /\ \A k \in Handlers \ {h} : handler'[k] = handler[k]
  BY <1>0, <1>3 DEF TypeOK
<1>5. /\ timer' \in [Plans -> Timer] /\ record' \in [Plans -> Record]
      /\ \A q \in Plans : \/ timer'[q] = timer[q] /\ record'[q] = record[q]
                          \/ timer'[q] = NewTimer /\ record'[q] = NoRecord
      /\ p \in Guarded \/ timer'[p] = NewTimer
  <2>1. CASE p \in Guarded
    BY <1>0, <2>1 DEF ResetDwell, TypeOK
  <2>2. CASE p \notin Guarded
    <3>1. /\ timer' = [timer EXCEPT ![p] = NewTimer]
          /\ record' = [record EXCEPT ![p] = NoRecord]
      BY <2>2 DEF ResetDwell
    <3> QED
      BY <1>0, <1>2, <3>1, NewTimerType DEF TypeOK
  <2> QED
    BY <2>1, <2>2
<1>6. TypeOK'
  BY <1>0, <1>4, <1>5 DEF TypeOK
<1>7. ASSUME NEW q \in Plans
      PROVE  /\ Elapsed(NewTimer, q) = 0
             /\ Elapsed(timer[q], q) \in Nat /\ Elapsed(timer'[q], q) \in Nat
             /\ Elapsed(timer'[q], q) <= Elapsed(timer[q], q)
  <2>1. Elapsed(NewTimer, q) = 0
    BY NewTimerType, ElapsedType
  <2>2. Elapsed(timer[q], q) \in Nat /\ Elapsed(timer'[q], q) \in Nat
    BY <1>0, <1>5, ElapsedType DEF TypeOK
  <2> QED
    BY <1>5, <2>1, <2>2
<1>8. ASSUME NEW q \in Plans PROVE Earned(q)' /\ Written(q)'
  <2>1. CASE timer'[q] = timer[q] /\ record'[q] = record[q]
    BY <1>0, <2>1 DEF Inv, Earned, Written
  <2>2. CASE timer'[q] = NewTimer /\ record'[q] = NoRecord
    <3>1. proven'[q] \in Nat /\ Required[q] \in Nat /\ PersistEvery \in Nat
      BY <1>0, Counters
    <3> QED
      BY <1>7, <2>2, <3>1, NewTimerType DEF Earned, Written
  <2> QED
    BY <1>5, <2>1, <2>2
<1>9. ASSUME NEW q \in Plans PROVE Restarted(q)'
  <2>0. q \in Nat /\ p \in Nat /\ NumPlans \in Nat /\ q <= NumPlans
    BY <1>2, PlanIds, PolicyAssumption
  <2>1. armedFor \in Nat
    BY <1>0, Counters
  <2>2. CASE q \in Guarded
    BY <2>2 DEF Restarted
  <2>3. CASE Elapsed(timer[q], q) <= armedFor
    BY <1>0, <1>7, <2>1, <2>3 DEF Restarted
  <2>4. CASE \E k \in Handlers : handler[k].step = "reset" /\ handler[k].plan <= q
    <3>1. PICK k \in Handlers : handler[k].step = "reset" /\ handler[k].plan <= q
      BY <2>4
    <3>2. CASE k # h
      BY <1>4, <3>1, <3>2 DEF Restarted
    <3>3. CASE k = h /\ p = q
      BY <1>0, <1>5, <1>7, <2>1, <3>3 DEF Restarted
    <3>4. CASE k = h /\ p # q
      <4>1. p < q
        BY <2>0, <3>1, <3>4
      <4>2. new.step = "reset" /\ new.plan <= q
        BY <1>3, <2>0, <4>1
      <4> QED
        BY <1>4, <4>2 DEF Restarted
    <3> QED
      BY <3>2, <3>3, <3>4
  <2> QED
    BY <2>2, <2>3, <2>4 DEF Inv, Restarted
<1>10. InPass'
  BY <1>0 DEF InPass
<1> QED
  BY <1>6, <1>8, <1>9, <1>10 DEF Inv

\* A pruned row is one that its timer does not count on.
LEMMA PruneInv ==
    ASSUME NEW p \in Plans
    PROVE  Inv /\ PruneDwellTracker(p) => Inv'
<1> SUFFICES ASSUME Inv, PruneDwellTracker(p) PROVE Inv'
  OBVIOUS
<1>0. /\ TypeOK /\ InPass /\ timer[p].unsaved = PersistEvery
      /\ record' = [record EXCEPT ![p] = NoRecord]
      /\ UNCHANGED <<value, guard, pc, at, loopMode, timer, mode, handler, active, stored,
                     watch, proven, armedFor, settled>>
  BY DEF Inv, PruneDwellTracker, facts, loop, seen
<1>1. TypeOK'
  BY <1>0, NewTimerType DEF TypeOK
<1>2. ASSUME NEW q \in Plans PROVE Earned(q)' /\ Written(q)' /\ Restarted(q)'
  <2>1. Earned(q) /\ Written(q) /\ Restarted(q)
    BY DEF Inv
  <2>2. CASE q = p
    <3>1. record'[q].elapsed = 0
      BY <1>0, <2>2, NewTimerType DEF TypeOK
    <3>2. proven[q] \in Nat /\ Required[q] \in Nat
      BY <1>0, Counters, PolicyAssumption
    <3>3. PersistEvery \in Nat
      BY PolicyAssumption
    <3> QED
      BY <1>0, <2>1, <2>2, <3>1, <3>2, <3>3 DEF Earned, Written, Restarted
  <2>3. CASE q # p
    <3>1. record'[q] = record[q]
      BY <1>0, <2>3 DEF TypeOK
    <3> QED
      BY <1>0, <2>1, <3>1 DEF Earned, Written, Restarted
  <2> QED
    BY <2>2, <2>3
<1>3. InPass'
  BY <1>0 DEF InPass
<1> QED
  BY <1>1, <1>2, <1>3 DEF Inv

LEMMA TickInv == Inv /\ Tick => Inv'
<1> SUFFICES ASSUME Inv, Tick PROVE Inv'
  OBVIOUS
<1>0. /\ TypeOK /\ InPass /\ pc = "rested" /\ pc' = "idle"
      /\ timer' = [p \in Plans |-> Aged(timer[p], p)]
      /\ proven' = [p \in Plans |-> IF watch[p] = "on" THEN CapTo(proven[p] + 1, Required[p])
                                    ELSE proven[p]]
      /\ armedFor' = CapTo(armedFor + 1, Longest)
      /\ UNCHANGED <<at, loopMode, mode, handler, active, record, stored, watch, settled>>
  BY DEF Inv, Tick
<1>1. Longest \in Nat /\ armedFor \in Nat /\ PersistEvery \in Nat
  BY <1>0, Counters
<1>2. armedFor' \in 0..Longest /\ (armedFor' = Longest \/ armedFor' = armedFor + 1)
  <2>1. armedFor' = CapTo(armedFor + 1, Longest)
    BY <1>0
  <2> QED
    BY <1>1, <2>1 DEF CapTo
<1>3. ASSUME NEW p \in Plans
      PROVE  /\ timer[p] \in Timer /\ timer'[p] = Aged(timer[p], p)
             /\ timer'[p] \in Timer /\ timer'[p].running = timer[p].running
             /\ timer'[p].credited = timer[p].credited
             /\ timer'[p].unsaved = CapTo(timer[p].unsaved + 1, PersistEvery)
             /\ timer[p].unsaved \in Nat
             /\ Elapsed(timer[p], p) \in Nat /\ Elapsed(timer'[p], p) \in Nat
             /\ Elapsed(timer'[p], p) <= Elapsed(timer[p], p) + 1
             /\ Elapsed(timer'[p], p) <= Required[p]
             /\ ~timer[p].running => Elapsed(timer'[p], p) = Elapsed(timer[p], p)
  <2>1. timer[p] \in Timer /\ timer'[p] = Aged(timer[p], p)
    BY <1>0 DEF TypeOK
  <2>2. Aged(timer[p], p) \in Timer
    BY <2>1, AgedTimer
  <2>3. timer[p].unsaved \in Nat
    BY <1>1, <2>1 DEF Timer
  <2> QED
    BY <2>1, <2>2, <2>3, AgedTimer, ElapsedType
<1>4. ASSUME NEW p \in Plans
      PROVE  /\ proven[p] \in Nat /\ Required[p] \in Nat /\ Required[p] <= Longest
             /\ record[p].elapsed \in Nat
             /\ proven'[p] = IF watch[p] = "on" THEN CapTo(proven[p] + 1, Required[p])
                             ELSE proven[p]
             /\ proven'[p] \in 0..Longest
  <2>1. /\ proven[p] \in 0..Longest /\ Required[p] \in Nat /\ Required[p] <= Longest
        /\ record[p] \in Record
    BY <1>0, PolicyAssumption DEF TypeOK
  <2>2. proven'[p] = IF watch[p] = "on" THEN CapTo(proven[p] + 1, Required[p]) ELSE proven[p]
    BY <1>0
  <2> QED
    BY <1>1, <2>1, <2>2 DEF CapTo, Record
<1>5. TypeOK'
  <2>1. timer' \in [Plans -> Timer]
    BY <1>0, <1>3
  <2>2. proven' \in [Plans -> 0..Longest]
    BY <1>0, <1>4
  <2>3. value' \in [Plans -> BOOLEAN] /\ guard' \in [Plans -> Trilean]
    BY DEF Tick, Passes
  <2> QED
    BY <1>0, <1>2, <2>1, <2>2, <2>3 DEF TypeOK
<1>6. ASSUME NEW p \in Plans PROVE Earned(p)' /\ Written(p)'
  <2>1. Earned(p) /\ Written(p) /\ watch'[p] = watch[p] /\ record'[p] = record[p]
    BY <1>0 DEF Inv
  <2>2. Earned(p)'
    BY <1>0, <1>3, <1>4, <2>1 DEF Earned, CapTo
  <2>3. Written(p)'
    BY <1>1, <1>3, <1>4, <2>1 DEF Written, CapTo
  <2> QED
    BY <2>2, <2>3
<1>7. ASSUME NEW p \in Plans PROVE Restarted(p)'
  <2>1. Restarted(p)
    BY DEF Inv
  <2> QED
    BY <1>0, <1>1, <1>2, <1>3, <1>4, <2>1 DEF Restarted
<1>8. InPass'
  BY <1>0 DEF InPass
<1> QED
  BY <1>5, <1>6, <1>7, <1>8 DEF Inv

LEMMA TickWhileDownInv == Inv /\ TickWhileDown => Inv'
<1> SUFFICES ASSUME Inv, TickWhileDown PROVE Inv'
  OBVIOUS
<1>0. /\ TypeOK /\ InPass
      /\ value' \in [Plans -> BOOLEAN] /\ guard' \in [Plans -> Trilean]
      /\ UNCHANGED <<pc, at, loopMode, timer, mode, handler, active, record, stored,
                     watch, proven, armedFor, settled>>
  BY DEF Inv, TickWhileDown, Passes, loop, seen
<1>1. TypeOK'
  BY <1>0 DEF TypeOK
<1>2. \A p \in Plans : Earned(p)' /\ Written(p)' /\ Restarted(p)'
  BY <1>0 DEF Inv, Earned, Written, Restarted
<1>3. InPass'
  BY <1>0 DEF InPass
<1> QED
  BY <1>1, <1>2, <1>3 DEF Inv

LEMMA CrashInv == Inv /\ Crash => Inv'
<1> SUFFICES ASSUME Inv, Crash PROVE Inv'
  OBVIOUS
<1>0. /\ TypeOK /\ pc' = "off" /\ at' = 1 /\ loopMode' = "none" /\ settled' = TRUE
      /\ mode' = Configured /\ armedFor' = Longest
      /\ handler' = [h \in Handlers |-> Idle]
      /\ timer' = [p \in Plans |-> NewTimer]
      /\ watch' = [p \in Plans |-> IF watch[p] = "on" THEN "paused" ELSE watch[p]]
      /\ UNCHANGED <<value, guard, active, record, stored, proven>>
  BY DEF Inv, Crash, Rest, facts
<1>1. TypeOK'
  <2>1. Longest \in 0..Longest /\ Configured \in Modes
    BY PolicyAssumption
  <2>2. watch' \in [Plans -> {"none", "on", "paused"}]
    BY <1>0 DEF TypeOK
  <2>3. timer' \in [Plans -> Timer]
    BY <1>0, NewTimerType
  <2> QED
    BY <1>0, <2>1, <2>2, <2>3, PlanIds DEF TypeOK
<1>2. ASSUME NEW p \in Plans PROVE Earned(p)' /\ Written(p)' /\ Restarted(p)'
  <2>1. /\ Elapsed(NewTimer, p) = 0 /\ timer'[p] = NewTimer
        /\ record'[p] = record[p] /\ proven'[p] = proven[p]
        /\ watch'[p] = IF watch[p] = "on" THEN "paused" ELSE watch[p]
    BY <1>0, NewTimerType, ElapsedType
  <2>2. proven[p] \in Nat /\ Longest \in Nat /\ PersistEvery \in Nat
    BY <1>0, Counters
  <2>3. Earned(p)
    BY DEF Inv
  <2> QED
    BY <1>0, <2>1, <2>2, <2>3, NewTimerType DEF Earned, Written, Restarted
<1>3. InPass'
  BY <1>0 DEF InPass
<1> QED
  BY <1>1, <1>2, <1>3 DEF Inv

LEMMA RestartInv == Inv /\ Restart => Inv'
<1> SUFFICES ASSUME Inv, Restart PROVE Inv'
  OBVIOUS
<1>0. /\ TypeOK /\ InPass /\ pc = "off" /\ pc' = "idle"
      /\ timer' = [p \in Plans |-> Restored(record[p])]
      /\ mode' = RestoredMode /\ active' \in {0, active}
      /\ UNCHANGED <<value, guard, at, loopMode, handler, record, stored,
                     watch, proven, armedFor, settled>>
  BY DEF Inv, Restart, facts, seen
<1>1. ASSUME NEW p \in Plans
      PROVE  /\ timer'[p] = Restored(record[p]) /\ timer'[p] \in Timer
             /\ timer'[p].running = FALSE /\ timer'[p].credited = record[p].elapsed
             /\ timer'[p].unsaved = PersistEvery
             /\ Elapsed(timer'[p], p) \in Nat /\ record[p].elapsed \in Nat
             /\ Elapsed(timer'[p], p) <= record[p].elapsed
  <2>1. record[p] \in Record /\ timer'[p] = Restored(record[p])
    BY <1>0 DEF TypeOK
  <2>2. record[p].elapsed \in Nat
    BY <2>1, PolicyAssumption DEF Record
  <2>3. Restored(record[p]) \in Timer
    BY <2>1, RestoredTimer
  <2> QED
    BY <2>1, <2>2, <2>3, RestoredTimer, ElapsedType
<1>2. TypeOK'
  <2>1. timer' \in [Plans -> Timer]
    BY <1>0, <1>1
  <2>2. mode' \in Modes
    BY <1>0, PolicyAssumption DEF RestoredMode, TypeOK
  <2>3. active' \in 0..NumPlans
    <3>1. 0 \in 0..NumPlans
      BY PolicyAssumption
    <3> QED
      BY <1>0, <3>1 DEF TypeOK
  <2> QED
    BY <1>0, <2>1, <2>2, <2>3 DEF TypeOK
<1>3. ASSUME NEW p \in Plans PROVE Earned(p)' /\ Written(p)' /\ Restarted(p)'
  <2>0. /\ ~timer'[p].running /\ timer'[p].credited = record[p].elapsed
        /\ timer'[p].unsaved = PersistEvery
        /\ Elapsed(timer'[p], p) \in Nat /\ record[p].elapsed \in Nat
        /\ Elapsed(timer'[p], p) <= record[p].elapsed
    BY <1>1, Zenon
  <2>1. /\ proven[p] \in Nat /\ Longest \in Nat /\ PersistEvery \in Nat
        /\ Required[p] \in Nat /\ Required[p] <= Longest /\ armedFor = Longest
    BY <1>0, Counters DEF InPass
  <2>2. Earned(p)
    BY DEF Inv
  <2>3. /\ record'[p] = record[p] /\ proven'[p] = proven[p] /\ watch'[p] = watch[p]
        /\ armedFor' = armedFor
    BY <1>0
  <2>4. /\ record[p].elapsed <= proven[p] /\ record[p].elapsed <= Required[p]
        /\ record[p].elapsed > 0 => watch[p] # "none"
    BY <2>2 DEF Earned
  <2>5. Earned(p)'
    BY <1>0, <2>0, <2>1, <2>3, <2>4 DEF Earned
  <2>6. Written(p)'
    BY <2>0, <2>1 DEF Written
  <2>7. Elapsed(timer'[p], p) <= armedFor'
    BY <2>0, <2>1, <2>3, <2>4
  <2> QED
    BY <2>5, <2>6, <2>7 DEF Restarted
<1>4. InPass'
  BY <1>0 DEF InPass
<1> QED
  BY <1>2, <1>3, <1>4 DEF Inv

LEMMA InvNext == Inv /\ [Next]_vars => Inv'
<1> SUFFICES ASSUME Inv, [Next]_vars PROVE Inv'
  OBVIOUS
<1>1. CASE PolicyStep
  BY <1>1, BeginPassInv, BusyInv, EvaluateTriggerInv, ClaimSlotInv DEF PolicyStep
<1>2. ASSUME NEW h \in Handlers, Request(h) PROVE Inv'
  BY <1>2, SetModeInv, ResetDwellInv, SaveModeInv DEF Request
<1>3. CASE UNCHANGED vars
  <2>1. UNCHANGED <<value, guard, pc, at, loopMode, timer, mode, handler, active, record,
                    stored, watch, proven, armedFor, settled>>
    BY <1>3 DEF vars, facts, loop, seen
  <2> QED
    BY <2>1 DEF Inv, TypeOK, InPass, Earned, Written, Restarted
<1> QED
  BY <1>1, <1>2, <1>3, EndSequenceInv, PruneInv, TickInv, TickWhileDownInv, CrashInv, RestartInv
     DEF Next

------------------------------------------------------------------------------
(* The theorems *)

\* Credit is backed by observation, rows follow timers and armings reach every
\* timer, in every reachable state of the loop, the requests and the store.
THEOREM InvAlways == Spec => []Inv
BY InvInit, InvNext, PTL DEF Spec

\* Every reachable state of the policy loop, its timers, its rows and its
\* requests is well typed: no counter outruns its bound.
THEOREM PolicyTypeCorrect == Spec => []TypeOK
<1>1. Inv => TypeOK
  BY DEF Inv
<1> QED
  BY <1>1, InvAlways, PTL

\* Only ClaimSlot starts a plan, and it starts the one the loop is at.
LEMMA OnlyClaims ==
    ASSUME Inv, [Next]_vars, active = 0, active' # 0
    PROVE  pc = "claim" /\ active' = at
BY DEF Next, PolicyStep, Request, BeginPass, Busy, EvaluateTrigger, ClaimSlot, EndSequence,
       SetMode, ResetDwell, SaveMode, PruneDwellTracker, Tick, TickWhileDown, Crash, Restart, vars

\* A plan is started only on a trigger the daemon has seen true, evaluation by
\* evaluation, for its whole `for:`, whatever crashes, lapses and persisted
\* rows lie in between (applyDwell, persistLocked, SetDwellStore).
THEOREM TriggerIsProven == Spec => TriggerProven
<1>1. Inv /\ [Next]_vars
      => [active = 0 /\ active' # 0 => proven[active'] >= Required[active']]_vars
  BY OnlyClaims DEF Inv, InPass
<1> QED
  BY <1>1, InvAlways, PTL DEF Spec, TriggerProven

\* A pass that began after an arming had restarted the timers starts a plan
\* only when the mode has been armed for its whole `for:`, with any number of
\* set-mode requests overlapping (handleSetMode, SetMode, ResetDwell).
THEOREM ArmingDoesRestart == Spec => ArmingRestarts
<1>1. Inv /\ [Next]_vars
      => [active = 0 /\ active' # 0 /\ settled /\ active' \notin Guarded
          => armedFor >= Required[active']]_vars
  BY OnlyClaims DEF Inv, InPass
<1> QED
  BY <1>1, InvAlways, PTL DEF Spec, ArmingRestarts

LEMMA CreditStep ==
    ASSUME Inv, EvaluateTrigger, Sampled(at), timer'[at].running
    PROVE  Elapsed(timer'[at], at) < record'[at].elapsed + PersistEvery
<1>1. at \in Plans /\ pc = "scan"
  BY DEF Inv, TypeOK, EvaluateTrigger
<1>2. ApplyDwell(at) /\ Watch(at)
  BY DEF EvaluateTrigger
<1> QED
  BY <1>1, <1>2, DwellStep

\* An evaluation that samples a timer leaves less than one persist interval of
\* its credit unwritten (persistThrottledLocked).
THEOREM CreditIsKept == Spec => CreditKept
<1>1. Inv /\ [Next]_vars
      => [EvaluateTrigger /\ Sampled(at) /\ timer'[at].running
          => Elapsed(timer'[at], at) < record'[at].elapsed + PersistEvery]_vars
  BY CreditStep
<1> QED
  BY <1>1, InvAlways, PTL DEF Spec, CreditKept
==============================================================================
