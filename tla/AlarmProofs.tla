------------------------------ MODULE AlarmProofs ------------------------------
(***************************************************************************)
(* Proofs about osi/src/alarm.cc for any number of alarms, threads, calls  *)
(* of alarm_set and any intervals and wakelock threshold, up to the first  *)
(* time that a thread sets or cancels a message loop alarm in the message  *)
(* loop's hand (raced).  The argument: an alarm is pending in at most one  *)
(* way (a periodic one in the list and waiting for its thread),            *)
(* an alarm that waits for its thread is still set, due and, if it is a    *)
(* one-time alarm, before everything in the list; and the timers look only *)
(* at the head of the list, which no critical section changes without      *)
(* reschedule_root_alarm.                                                  *)
(***************************************************************************)
EXTENDS Alarm, ListLemmas, FiniteSetTheorems

-----------------------------------------------------------------------------
\* An alarm that is set: it has the parameters of alarm_set or of
\* alarm_set_on_mloop, as its kind says.
SetRight(r) ==
  r.callback # NULL =>
    /\ r.period \in Intervals
    /\ r.for_msg_loop <=> OnMloop(r.kind)
    /\ ~OnMloop(r.kind) => r.queued_on = "default"

\* The alarm of the closure that the message loop has begun to run.
Entered == IF tpc["mloop"] = "entered" THEN {running["mloop"].alarm} ELSE {}

\* The alarms that wait for their thread.
Waiting == Range(mon.queue) \cup Range(mon.tasks) \cup Entered

\* Where an alarm can be.
Places ==
  /\ NoRepeat(mon.alarms) /\ NoRepeat(mon.queue) /\ NoRepeat(mon.tasks)
  /\ \A a \in Alarms : SetRight(mon.alarm[a])
  /\ Waiting \subseteq Alarms
  /\ \A a \in Range(mon.alarms) \cup Waiting : mon.alarm[a].callback # NULL
  /\ \A a \in Waiting : ~IsPeriodic(mon.alarm[a].kind) => a \notin Range(mon.alarms)
  /\ \A a \in Range(mon.queue) : ~OnMloop(mon.alarm[a].kind)
  /\ \A a \in Range(mon.tasks) \cup Entered : OnMloop(mon.alarm[a].kind)
  /\ \A a \in Entered : ~IsPeriodic(mon.alarm[a].kind) => a \notin Range(mon.tasks)

Due(r) == r.creation_time + r.period

\* No alarm is early: not in the list, not waiting, not called.
Punctual ==
  /\ \A a \in Range(mon.alarms) : mon.alarm[a].deadline >= Due(mon.alarm[a])
  /\ \A a \in Waiting : now >= Due(mon.alarm[a])
  /\ \A c \in Callers : tpc[c] \in {"cb_lock", "calling"} => ~running[c].early

\* The calls of alarm_set that an alarm_cancel undoes are over: an alarm that is
\* set was set after them ...
SetSince ==
  /\ \A a \in Alarms : mon.alarm[a].callback <= sets /\ canceled[a] <= sets
  /\ \A t \in Threads : canceling[t].upto <= sets
  /\ \A a \in Alarms : mon.alarm[a].callback # NULL =>
       /\ mon.alarm[a].callback > canceled[a]
       /\ \A t \in Threads : canceling[t].alarm = a => mon.alarm[a].callback > canceling[t].upto

\* ... and so was a callback that is called.  An alarm_cancel that has released
\* alarms_mutex waits for a callback that is being called, not for one that is
\* about to be.
CalledSince(c) ==
  tpc[c] \in {"cb_lock", "calling"} =>
    /\ running[c].alarm \in Alarms
    /\ running[c].callback > canceled[running[c].alarm]
    /\ tpc[c] = "cb_lock" => \A t \in Threads :
         canceling[t].alarm = running[c].alarm => running[c].callback > canceling[t].upto

Undone == SetSince /\ \A c \in Callers : CalledSince(c)

\* The phases of alarm_cleanup.
Stopping ==
  /\ cpc = "none" => active
  /\ cpc \in {"lock", "unregister", "join_default", "done"} => dpc = "exited"
  /\ cpc \in {"join_default", "done"} => tpc["default"] = "idle"

\* The pairs of alarms, under f, that are in the order of their deadlines, and
\* those that are in the order one-time alarms are served in.
ByDeadline(f) == {p \in Alarms \X Alarms : f[p[1]].deadline <= f[p[2]].deadline}

Served(f) ==
  {p \in Alarms \X Alarms :
     f[p[1]].kind = "once" /\ f[p[2]].kind = "once" =>
       \/ f[p[1]].deadline < f[p[2]].deadline
       \/ f[p[1]].deadline = f[p[2]].deadline /\ f[p[1]].callback < f[p[2]].callback}

\* The one-time alarms stand in one line: waiting for the default thread, then
\* in the list.
Line ==
  /\ InOrder(ByDeadline(mon.alarm), mon.alarms)
  /\ InOrder(Served(mon.alarm), mon.alarms)
  /\ InOrder(Served(mon.alarm), mon.queue)
  /\ AllBefore(Served(mon.alarm), Range(mon.queue), Range(mon.alarms))
  /\ \A a \in Range(mon.queue) : mon.alarm[a].kind = "once" => mon.alarm[a].deadline <= now

\* The inductive invariant.  Nothing that the timers depend on is assumed of an
\* attempt to take the wakelock that fails.
IInv == /\ raced = {} /\ TypeOK /\ Places /\ Punctual /\ Undone /\ Stopping
        /\ Line /\ PeriodicOnGrid /\ WakelockBalanced
        /\ ~WakelockFails => WakeupPending

-----------------------------------------------------------------------------
LEMMA LeastOf ==
  ASSUME NEW T, T \subseteq Nat, T # {}
  PROVE  Min(T) \in T /\ \A y \in T : Min(T) <= y
<1>1. PICK x \in T : \A y \in T : ~(<<y, x>> \in OpToRel(<, Nat))
  BY NatLessThanWellFounded, WFMin, Zenon
<1>2. \A y \in T : x <= y
  <2> SUFFICES ASSUME NEW y \in T PROVE x <= y
    OBVIOUS
  <2>1. x \in Nat /\ y \in Nat
    OBVIOUS
  <2>2. ~(<<y, x>> \in {ss \in Nat \X Nat : ss[1] < ss[2]})
    BY <1>1 DEF OpToRel
  <2> QED
    BY <2>1, <2>2
<1>3. \E z \in T : \A y \in T : z <= y
  BY <1>2
<1> QED
  BY <1>3, Zenon DEF Min

LEMMA GreaterOf ==
  ASSUME NEW x \in Nat, NEW y \in Nat
  PROVE  Max({x, y}) \in {x, y} /\ Max({x, y}) >= x /\ Max({x, y}) >= y
<1>1. \E z \in {x, y} : \A w \in {x, y} : z >= w
  <2>1. CASE x >= y
    BY <2>1
  <2>2. CASE ~(x >= y)
    BY <2>2
  <2> QED
    BY <2>1, <2>2
<1>2. Max({x, y}) \in {x, y} /\ \A w \in {x, y} : Max({x, y}) >= w
  BY <1>1, Zenon DEF Max
<1> QED
  BY <1>2

\* The next multiple of p after x.
LEMMA OnGrid ==
  ASSUME NEW x \in Int, NEW p \in Nat \ {0}
  PROVE  x % p \in 0..(p - 1) /\ ((x + p) - (x % p)) % p = 0
<1>1. x % p \in 0..(p - 1)
  OBVIOUS
<1>2. ((x + p) - (x % p)) % p = 0
  OBVIOUS
<1> QED
  BY <1>1, <1>2

\* Without an element that is in the list at most once.
LEMMA DroppedAll ==
  ASSUME NEW s \in Seq(Alarms), NoRepeat(s), NEW a
  PROVE  Dropped(Alarms, Without(s, a), s, a)
<1> DEFINE n == Len(s)
           kept == {i \in DOMAIN s : s[i] # a}
           nth(k) == CHOOSE i \in kept : Cardinality({j \in kept : j < i}) = k - 1
<1>1. Listed(Alarms, s)
  BY ElementsOf
<1>2. n \in Nat /\ DOMAIN s = 1..n /\ \A i \in 1..n : s[i] \in Alarms
  BY <1>1 DEF Listed
<1>3. Without(s, a) = [k \in 1..Cardinality(kept) |-> s[nth(k)]]
  BY DEF Without
<1>4. \A i \in 0..n : Cardinality(1..i) = i /\ IsFiniteSet(1..i)
  BY <1>2, FS_Interval
<1> HIDE DEF n
<1>5. CASE a \notin Range(s)
  <2>1. kept = 1..n
    BY <1>1, <1>2, <1>5 DEF Listed, n
  <2>2. ASSUME NEW i \in 1..n PROVE {j \in kept : j < i} = 1..(i - 1) /\ i - 1 \in 0..n
    <3>1. \A j : j \in {k \in kept : k < i} <=> j \in 1..(i - 1)
      BY <1>2, <2>1
    <3>2. {j \in kept : j < i} = 1..(i - 1)
      BY <3>1
    <3> QED
      BY <1>2, <3>2
  <2>3. \A i \in 1..n : Cardinality({j \in kept : j < i}) = i - 1
    BY <1>4, <2>2
  <2>4. ASSUME NEW k \in 1..n PROVE nth(k) = k
    <3>1. \A i \in kept : Cardinality({j \in kept : j < i}) = k - 1 <=> i = k
      BY <1>2, <2>1, <2>3
    <3> HIDE DEF kept
    <3>2. k \in kept
      BY <2>1
    <3> QED
      BY <3>1, <3>2
  <2>5. Cardinality(kept) = n
    <3>1. n \in 0..n
      BY <1>2
    <3>2. Cardinality(1..n) = n
      BY <1>4, <3>1
    <3> HIDE DEF kept
    <3> QED
      BY <2>1, <3>2
  <2>6. Without(s, a) = [k \in 1..n |-> s[nth(k)]]
    BY <1>3, <2>5
  <2> HIDE DEF nth
  <2>7. Without(s, a) = [k \in 1..n |-> s[k]]
    BY <2>4, <2>6
  <2>8. s = [k \in 1..n |-> s[k]]
    BY <1>2
  <2> QED
    BY <1>5, <2>7, <2>8 DEF Dropped
<1>6. CASE a \in Range(s)
  <2>1. PICK p \in 1..n : s[p] = a
    BY <1>1, <1>6 DEF Listed, n
  <2>2. kept = (1..n) \ {p}
    BY <1>1, <1>2, <2>1 DEF Listed, n
  <2>3. p \in Int /\ 1 <= p /\ p <= n
    BY <1>2
  <2>4. \A i \in 1..n : i < p => {j \in kept : j < i} = 1..(i - 1) /\ i - 1 \in 0..n
    BY <1>2, <2>2, <2>3
  <2>5. \A i \in 1..n : i > p => {j \in kept : j < i} = (1..(i - 1)) \ {p}
    BY <1>2, <2>2, <2>3
  <2>6. \A i \in 1..n : i > p => i - 1 \in 0..n /\ p \in 1..(i - 1)
    BY <1>2, <2>3
  <2>7. \A i \in 0..n : p \in 1..i => Cardinality((1..i) \ {p}) = i - 1
    BY <1>4, FS_RemoveElement
  <2>8. \A i \in kept : Cardinality({j \in kept : j < i}) = IF i < p THEN i - 1 ELSE i - 2
    <3> SUFFICES ASSUME NEW i \in kept
                 PROVE  Cardinality({j \in kept : j < i}) = IF i < p THEN i - 1 ELSE i - 2
      OBVIOUS
    <3>1. i \in 1..n /\ (i < p \/ i > p) /\ ~(i < p /\ i > p)
      BY <2>2, <2>3
    <3>2. CASE i < p
      BY <1>4, <2>4, <3>1, <3>2
    <3>3. CASE i > p
      <4>1. Cardinality({j \in kept : j < i}) = (i - 1) - 1
        BY <2>5, <2>6, <2>7, <3>1, <3>3
      <4> QED
        BY <3>1, <3>3, <4>1
    <3> QED
      BY <3>1, <3>2, <3>3
  <2>9. Cardinality(kept) = n - 1
    BY <1>2, <2>1, <2>2, <2>7, <2>3
  <2>10. ASSUME NEW k \in 1..(n - 1) PROVE nth(k) = IF k < p THEN k ELSE k + 1
    <3> DEFINE i0 == IF k < p THEN k ELSE k + 1
    <3>1. i0 \in kept
      BY <1>2, <2>2, <2>3
    <3>2. \A i \in kept : Cardinality({j \in kept : j < i}) = k - 1 <=> i = i0
      <4>1. \A i \in kept : (IF i < p THEN i - 1 ELSE i - 2) = k - 1 <=> i = i0
        BY <1>2, <2>2, <2>3
      <4> QED
        BY <2>8, <4>1
    <3> HIDE DEF kept, i0
    <3>3. nth(k) = i0
      BY <3>1, <3>2
    <3> QED
      BY <3>3 DEF i0
  <2>11. Without(s, a) = [k \in 1..(n - 1) |-> s[nth(k)]]
    BY <1>3, <2>9
  <2> HIDE DEF nth, kept
  <2>12. Without(s, a) = [k \in 1..(n - 1) |-> s[IF k < p THEN k ELSE k + 1]]
    BY <2>10, <2>11
  <2> DEFINE r == RemoveAt(s, p)
  <2>13. RemovedFrom(Alarms, r, s, p) /\ Dropped(Alarms, r, s, a)
    BY <2>1, Removed, DroppedAt DEF n
  <2> HIDE DEF r
  <2>14. r \in Seq(Alarms) /\ Len(r) = n - 1
    BY <2>13 DEF RemovedFrom, n
  <2>15. \A k \in 1..(n - 1) : r[k] = s[IF k < p THEN k ELSE k + 1]
    <3> SUFFICES ASSUME NEW k \in 1..(n - 1)
                 PROVE  r[k] = s[IF k < p THEN k ELSE k + 1]
      OBVIOUS
    <3>1. \/ k < p /\ r[k] = s[k]
          \/ k >= p /\ r[k] = s[k + 1]
      BY <2>13, <2>14 DEF RemovedFrom
    <3>2. ~(k < p /\ k >= p)
      BY <2>3
    <3> QED
      BY <3>1, <3>2
  <2>16. r = [k \in 1..(n - 1) |-> s[IF k < p THEN k ELSE k + 1]]
    BY <2>14, <2>15
  <2> QED
    BY <2>12, <2>13, <2>16
<1> QED
  BY <1>5, <1>6

-----------------------------------------------------------------------------
\* The timers of s: the wakelock is held while timer_set, that only with an
\* alarm in the list, and something will wake the dispatcher in time.
Balanced(s) == s.timers.wakelock = IF s.timers.timer_set THEN 1 ELSE 0

Held(s) == s.timers.timer_set => s.alarms # <<>>

Vigilant(s) ==
  s.alarms # <<>> =>
    LET first == s.alarm[Head(s.alarms)].deadline
        t == s.timers
    IN \/ t.alarm_expired > 0
       \/ t.timer # Off /\ t.timer <= first
       \/ t.wakeup_timer # Off /\ t.wakeup_timer <= first

\* r is s after reschedule_root_alarm.
Rescheduled(r, s) ==
  /\ r \in Monitor
  /\ r.alarms = s.alarms /\ r.queue = s.queue /\ r.tasks = s.tasks /\ r.alarm = s.alarm
  /\ Balanced(r) /\ Held(r)
  /\ ~WakelockFails => Vigilant(r)

LEMMA Rescheduling ==
  ASSUME NEW s \in Monitor, Balanced(s), NEW c \in Outcomes, now \in Nat \ {0}
  PROVE  Rescheduled(RescheduleRoot(s, c), s)
<1> DEFINE empty == s.alarms = <<>>
           next == IF empty THEN Off ELSE s.alarm[Head(s.alarms)].deadline
           t == s.timers
           near == ~empty /\ next - now < Threshold
           armed == near /\ (t.timer_set \/ c.acquired)
           r == Rearmed(s, c)
           m == RescheduleRoot(s, c)
<1>1. /\ s.alarms \in Seq(Alarms) /\ s.queue \in Seq(Alarms) /\ s.tasks \in Seq(Alarms)
      /\ s.alarm \in [Alarms -> AlarmT] /\ t \in Timers
  BY DEF Monitor
<1>2. /\ t.timer \in Nat /\ t.wakeup_timer \in Nat /\ t.timer_set \in BOOLEAN
      /\ t.wakelock \in 0..1 /\ t.alarm_expired \in Nat
  BY <1>1 DEF Timers
<1>3. next \in Nat
  <2>1. ~empty => Head(s.alarms) \in Alarms
    BY <1>1
  <2> QED
    BY <1>1, <2>1 DEF AlarmT, Off
<1>4. c.fires \in 0..1 /\ c.acquired \in BOOLEAN /\ (~WakelockFails => c.acquired)
  BY DEF Outcomes
<1>5. r = [timer |-> IF armed /\ next > now THEN next ELSE Off,
           wakeup_timer |-> IF empty THEN t.wakeup_timer
                            ELSE IF ~near THEN next
                            ELSE IF armed THEN Off ELSE t.wakeup_timer,
           timer_set |-> armed,
           wakelock |-> t.wakelock + (IF armed /\ ~t.timer_set THEN 1 ELSE 0)
                                   - (IF t.timer_set /\ ~armed THEN 1 ELSE 0),
           alarm_expired |-> t.alarm_expired + (IF armed /\ next <= now THEN 1 + c.fires ELSE 0)]
  BY DEF Rearmed
<1>6. Threshold \in Nat
  BY AlarmAssumption DEF AlarmAssumption
<1>7. t.wakelock = IF t.timer_set THEN 1 ELSE 0
  BY DEF Balanced
<1> HIDE DEF next, r, t, m, near, armed, empty
<1>8. near \in BOOLEAN /\ armed \in BOOLEAN /\ empty \in BOOLEAN /\ (near => ~empty) /\ (armed => near)
  BY <1>2, <1>4 DEF near, armed, empty
<1>9. r.wakelock = IF armed THEN 1 ELSE 0
  BY <1>2, <1>5, <1>7, <1>8
<1>10. r \in Timers
  <2>1. r.timer \in Nat /\ r.wakeup_timer \in Nat /\ r.timer_set \in BOOLEAN /\ r.alarm_expired \in Nat
    BY <1>2, <1>3, <1>4, <1>5, <1>8 DEF Off
  <2>2. r.wakelock \in 0..1
    BY <1>8, <1>9
  <2> QED
    BY <1>5, <2>1, <2>2 DEF Timers
<1>11. m = [s EXCEPT !.timers = r]
  BY DEF m, r, RescheduleRoot
<1>12. /\ m \in Monitor /\ m.timers = r
       /\ m.alarms = s.alarms /\ m.queue = s.queue /\ m.tasks = s.tasks /\ m.alarm = s.alarm
  BY <1>10, <1>11 DEF Monitor
<1>13. Balanced(m) /\ Held(m)
  BY <1>5, <1>8, <1>9, <1>12 DEF Balanced, Held, empty
<1>14. ASSUME ~WakelockFails PROVE Vigilant(m)
  <2> SUFFICES ASSUME ~empty
               PROVE  \/ r.alarm_expired > 0
                      \/ r.timer # Off /\ r.timer <= next
                      \/ r.wakeup_timer # Off /\ r.wakeup_timer <= next
    BY <1>12 DEF Vigilant, next, empty
  <2>1. CASE ~near
    <3>1. r.wakeup_timer = next
      BY <1>5, <2>1
    <3>2. next >= now
      BY <1>3, <1>6, <2>1 DEF near
    <3> QED
      BY <1>3, <3>1, <3>2 DEF Off
  <2>2. CASE near
    <3>1. armed
      BY <1>4, <1>14, <2>2 DEF armed
    <3>2. CASE next > now
      <4>1. r.timer = next
        BY <1>5, <3>1, <3>2
      <4> QED
        BY <1>3, <3>2, <4>1 DEF Off
    <3>3. CASE next <= now
      <4>1. r.alarm_expired = t.alarm_expired + (1 + c.fires)
        BY <1>5, <3>1, <3>3
      <4> QED
        BY <1>2, <1>4, <4>1
    <3> QED
      BY <1>3, <3>2, <3>3
  <2> QED
    BY <2>1, <2>2
<1> QED
  BY <1>12, <1>13, <1>14 DEF m, Rescheduled

\* remove_pending_alarm looks for the alarm where it is.
Fits(s, a) ==
  /\ a \in Range(s.queue) => ~s.alarm[a].for_msg_loop /\ s.alarm[a].queued_on = "default"
  /\ a \in Range(s.tasks) => s.alarm[a].for_msg_loop

Unrepeated(s) == NoRepeat(s.alarms) /\ NoRepeat(s.queue) /\ NoRepeat(s.tasks)

\* r is s after remove_pending_alarm.
Unpended(r, s, a) ==
  /\ r \in Monitor /\ r.alarm = s.alarm /\ r.timers = s.timers
  /\ Dropped(Alarms, r.alarms, s.alarms, a)
  /\ Dropped(Alarms, r.queue, s.queue, a)
  /\ Dropped(Alarms, r.tasks, s.tasks, a)

LEMMA NothingToDrop ==
  ASSUME NEW q \in Seq(Alarms), NoRepeat(q), NEW a, a \notin Range(q)
  PROVE  Dropped(Alarms, q, q, a)
  BY DEF Dropped

LEMMA Unpending ==
  ASSUME NEW s \in Monitor, NEW a \in Alarms, Unrepeated(s), Fits(s, a)
  PROVE  Unpended(RemovePending(s, a), s, a)
<1> DEFINE r == RemovePending(s, a)
           u == RemoveFirst(s.alarms, a)
           v == IF ~s.alarm[a].for_msg_loop /\ s.alarm[a].queued_on = "default"
                THEN Without(s.queue, a) ELSE s.queue
           w == IF s.alarm[a].for_msg_loop THEN Without(s.tasks, a) ELSE s.tasks
<1>1. r = [s EXCEPT !.alarms = u, !.tasks = w, !.queue = v]
  BY DEF RemovePending
<1>2. /\ s.alarms \in Seq(Alarms) /\ s.queue \in Seq(Alarms) /\ s.tasks \in Seq(Alarms)
      /\ s.alarm \in [Alarms -> AlarmT] /\ s.timers \in Timers
      /\ NoRepeat(s.alarms) /\ NoRepeat(s.queue) /\ NoRepeat(s.tasks)
  BY DEF Monitor, Unrepeated
<1>3. Dropped(Alarms, u, s.alarms, a)
  BY <1>2, DroppedFirst
<1>4. Dropped(Alarms, v, s.queue, a)
  BY <1>2, DroppedAll, NothingToDrop DEF Fits
<1>5. Dropped(Alarms, w, s.tasks, a)
  BY <1>2, DroppedAll, NothingToDrop DEF Fits
<1> HIDE DEF r, u, v, w
<1>6. u \in Seq(Alarms) /\ v \in Seq(Alarms) /\ w \in Seq(Alarms)
  BY <1>3, <1>4, <1>5 DEF Dropped
<1>7. /\ r \in Monitor /\ r.alarm = s.alarm /\ r.timers = s.timers
      /\ r.alarms = u /\ r.queue = v /\ r.tasks = w
  BY <1>1, <1>2, <1>6 DEF Monitor
<1> QED
  BY <1>3, <1>4, <1>5, <1>7, Zenon DEF Unpended, r

-----------------------------------------------------------------------------
\* r is the list of s with a put in by schedule_next_instance.
PutInto(r, s, a) ==
  /\ r \in Seq(Alarms) /\ NoRepeat(r) /\ r # <<>>
  /\ Range(r) = Range(s.alarms) \cup {a}
  /\ Head(r) = a \/ (s.alarms # <<>> /\ Head(r) = Head(s.alarms))
  /\ InOrder(ByDeadline(s.alarm), s.alarms) => InOrder(ByDeadline(s.alarm), r)
  /\ InOrder(ByDeadline(s.alarm), s.alarms) /\ InOrder(Served(s.alarm), s.alarms)
       /\ (s.alarm[a].kind = "once" =>
             \A b \in Range(s.alarms) : s.alarm[b].callback < s.alarm[a].callback)
     => InOrder(Served(s.alarm), r)

LEMMA Inserting ==
  ASSUME NEW s \in Monitor, NEW a \in Alarms, a \notin Range(s.alarms), NoRepeat(s.alarms)
  PROVE  PutInto(InsertSorted(s, a), s, a)
<1> DEFINE q == s.alarms
           f == s.alarm
           n == Len(q)
           later == {i \in DOMAIN q : f[q[i]].deadline > f[a].deadline}
           k == Min(later \cup {n + 1})
           r == InsertAt(q, k, a)
<1>1. q \in Seq(Alarms) /\ f \in [Alarms -> AlarmT]
  BY DEF Monitor
<1>2. InsertSorted(s, a) = r
  BY DEF InsertSorted
<1>3. Listed(Alarms, q)
  BY <1>1, ElementsOf
<1> HIDE DEF q, f
<1>4. n \in Nat /\ DOMAIN q = 1..n /\ \A i \in 1..n : q[i] \in Alarms
  BY <1>3 DEF Listed
<1>5. \A b \in Alarms : f[b].deadline \in Nat /\ f[b].callback \in Nat
  BY <1>1 DEF AlarmT
<1> HIDE DEF n
<1>6. k \in later \cup {n + 1} /\ \A i \in later : k <= i
  <2>1. later \cup {n + 1} \subseteq Nat /\ later \cup {n + 1} # {}
    BY <1>4
  <2> HIDE DEF later
  <2> QED
    BY <2>1, LeastOf
<1> HIDE DEF k
<1>7. k \in 1..(n + 1)
  BY <1>4, <1>6
<1>8. \A i \in 1..n : i < k => f[q[i]].deadline <= f[a].deadline
  <2> SUFFICES ASSUME NEW i \in 1..n, i < k PROVE f[q[i]].deadline <= f[a].deadline
    OBVIOUS
  <2>1. i \notin later
    BY <1>4, <1>6, <1>7
  <2>2. ~(f[q[i]].deadline > f[a].deadline)
    BY <1>4, <2>1
  <2> QED
    BY <1>4, <1>5, <2>2
<1>9. ASSUME InOrder(ByDeadline(f), q), NEW i \in 1..n, i >= k
      PROVE  f[q[i]].deadline > f[a].deadline
  <2>1. k \in 1..n /\ k \in later
    BY <1>4, <1>6, <1>7, <1>9
  <2>2. f[q[k]].deadline > f[a].deadline
    BY <2>1
  <2>3. CASE i = k
    BY <2>2, <2>3
  <2>4. CASE i > k
    <3>1. <<q[k], q[i]>> \in ByDeadline(f)
      BY <1>4, <1>9, <2>1, <2>4 DEF InOrder
    <3>2. f[q[k]].deadline <= f[q[i]].deadline
      BY <3>1 DEF ByDeadline
    <3> QED
      BY <1>4, <1>5, <2>1, <2>2, <3>2
  <2> QED
    BY <1>4, <1>7, <1>9, <2>3, <2>4
<1> HIDE DEF later, r
<1>10. InsertedInto(Alarms, r, q, k, a)
  BY <1>1, <1>7, Inserted DEF n, r
<1>11. Head(r) = a \/ (q # <<>> /\ Head(r) = Head(q))
  <2>1. CASE k = 1
    BY <1>10, <2>1 DEF InsertedInto
  <2>2. CASE k # 1
    <3>1. n # 0
      BY <1>7, <2>2
    <3>2. q # <<>>
      BY <1>3, <3>1 DEF Listed, n
    <3> QED
      BY <1>10, <2>2, <3>2 DEF InsertedInto
  <2> QED
    BY <2>1, <2>2
<1>12. ASSUME InOrder(ByDeadline(f), q) PROVE InOrder(ByDeadline(f), r)
  <2>1. \A i \in 1..n : i < k => <<q[i], a>> \in ByDeadline(f)
    BY <1>4, <1>8 DEF ByDeadline
  <2>2. \A i \in 1..n : i >= k => <<a, q[i]>> \in ByDeadline(f)
    <3> SUFFICES ASSUME NEW i \in 1..n, i >= k PROVE <<a, q[i]>> \in ByDeadline(f)
      OBVIOUS
    <3>1. f[q[i]].deadline > f[a].deadline
      BY <1>9, <1>12
    <3> QED
      BY <1>4, <1>5, <3>1 DEF ByDeadline
  <2> QED
    BY <1>1, <1>7, <1>12, <2>1, <2>2, InsertedInOrder DEF n, r
<1>13. ASSUME InOrder(ByDeadline(f), q), InOrder(Served(f), q),
              f[a].kind = "once" => \A b \in Range(q) : f[b].callback < f[a].callback
       PROVE  InOrder(Served(f), r)
  <2>1. \A i \in 1..n : i < k => <<q[i], a>> \in Served(f)
    <3> SUFFICES ASSUME NEW i \in 1..n, i < k PROVE <<q[i], a>> \in Served(f)
      OBVIOUS
    <3>1. f[q[i]].deadline <= f[a].deadline /\ q[i] \in Range(q) /\ q[i] \in Alarms
      BY <1>3, <1>4, <1>8 DEF Listed, n
    <3>2. f[q[i]].deadline < f[a].deadline \/ f[q[i]].deadline = f[a].deadline
      BY <1>5, <3>1
    <3>3. f[a].kind = "once" => f[q[i]].callback < f[a].callback
      BY <1>13, <3>1
    <3> QED
      BY <3>1, <3>2, <3>3 DEF Served
  <2>2. \A i \in 1..n : i >= k => <<a, q[i]>> \in Served(f)
    <3> SUFFICES ASSUME NEW i \in 1..n, i >= k PROVE <<a, q[i]>> \in Served(f)
      OBVIOUS
    <3>1. f[q[i]].deadline > f[a].deadline
      BY <1>9, <1>13
    <3>2. f[a].deadline < f[q[i]].deadline
      BY <1>4, <1>5, <3>1
    <3> QED
      BY <1>4, <3>2 DEF Served
  <2> QED
    BY <1>1, <1>7, <1>13, <2>1, <2>2, InsertedInOrder DEF n, r
<1>14. r \in Seq(Alarms) /\ NoRepeat(r) /\ r # <<>> /\ Range(r) = Range(q) \cup {a}
  BY <1>10 DEF InsertedInto, q
<1> QED
  BY <1>2, <1>11, <1>12, <1>13, <1>14, Zenon DEF PutInto, q, f

\* The timers after a critical section that took s to r: set anew, or left
\* alone, and then the head of the list is the same.
Attended(r, s) ==
  /\ Balanced(r)
  /\ \/ Held(r) /\ (~WakelockFails => Vigilant(r))
     \/ /\ r.timers = s.timers /\ r.alarms # <<>> /\ s.alarms # <<>>
        /\ Head(r.alarms) = Head(s.alarms)
        /\ r.alarm[Head(r.alarms)].deadline = s.alarm[Head(s.alarms)].deadline
     \/ r.timers = s.timers /\ r.alarms = <<>> /\ s.alarms = <<>>

\* r is s after schedule_next_instance.
Scheduled(r, s, a) ==
  /\ r \in Monitor
  /\ r.alarm = [s.alarm EXCEPT ![a] = [@ EXCEPT !.deadline = NextDeadline(s.alarm[a])]]
  /\ Dropped(Alarms, r.queue, s.queue, a) /\ Dropped(Alarms, r.tasks, s.tasks, a)
  /\ NoRepeat(r.alarms) /\ Range(r.alarms) = Range(s.alarms) \cup {a}
  /\ Attended(r, s)
  /\ \E q : /\ Dropped(Alarms, q, s.alarms, a)
            /\ InOrder(ByDeadline(r.alarm), q) => InOrder(ByDeadline(r.alarm), r.alarms)
            /\ InOrder(ByDeadline(r.alarm), q) /\ InOrder(Served(r.alarm), q)
                 /\ (r.alarm[a].kind = "once" =>
                       \A b \in Range(q) : r.alarm[b].callback < r.alarm[a].callback)
               => InOrder(Served(r.alarm), r.alarms)

LEMMA Scheduling ==
  ASSUME NEW s \in Monitor, NEW a \in Alarms, NEW c \in Outcomes, now \in Nat \ {0},
         Unrepeated(s), Fits(s, a), Balanced(s),
         s.alarm[a].callback # NULL, s.alarm[a].period \in Nat
  PROVE  Scheduled(ScheduleNext(s, a, c), s, a)
<1> DEFINE s1 == RemovePending(s, a)
           s2 == [s1 EXCEPT !.alarm[a].deadline = NextDeadline(s1.alarm[a])]
           s3 == [s2 EXCEPT !.alarms = InsertSorted(s2, a)]
           r == IF IsFront(s, a) \/ IsFront(s3, a) THEN RescheduleRoot(s3, c) ELSE s3
<1>1. ScheduleNext(s, a, c) = r
  BY DEF ScheduleNext
<1>2. Unpended(s1, s, a)
  BY Unpending
<1> HIDE DEF s1
<1>3. NextDeadline(s1.alarm[a]) \in Nat /\ s1.alarm = s.alarm
  <2>1. s1.alarm = s.alarm /\ s.alarm \in [Alarms -> AlarmT]
    BY <1>2 DEF Unpended, Monitor
  <2>2. s.alarm[a].creation_time \in Nat /\ s.alarm[a].period \in Nat
    BY <2>1 DEF AlarmT
  <2> DEFINE x == now - s.alarm[a].creation_time
             p == s.alarm[a].period
  <2>3. x \in Int /\ p \in Nat
    BY <2>2
  <2>4. p # 0 => x % p \in 0..(p - 1)
    BY <2>3, OnGrid
  <2>5. NextDeadline(s.alarm[a]) =
          now + p - (IF IsPeriodic(s.alarm[a].kind) /\ p # 0 THEN x % p ELSE 0)
    BY DEF NextDeadline
  <2> HIDE DEF x, p
  <2>6. NextDeadline(s.alarm[a]) \in Nat
    BY <2>3, <2>4, <2>5
  <2> QED
    BY <2>1, <2>6
<1>4. /\ s2 \in Monitor /\ s2.timers = s.timers /\ s2.alarms = s1.alarms
      /\ s2.queue = s1.queue /\ s2.tasks = s1.tasks
      /\ s2.alarm = [s.alarm EXCEPT ![a] = [@ EXCEPT !.deadline = NextDeadline(s.alarm[a])]]
  <2> DEFINE d == NextDeadline(s.alarm[a])
             g == [s.alarm EXCEPT ![a] = [@ EXCEPT !.deadline = d]]
  <2>1. s1 \in Monitor /\ s1.alarm = s.alarm /\ s1.timers = s.timers /\ d \in Nat
    BY <1>2, <1>3 DEF Unpended
  <2>2. s2 = [s1 EXCEPT !.alarm = g]
    BY <2>1 DEF Monitor
  <2> HIDE DEF d, s2
  <2>3. g \in [Alarms -> AlarmT]
    <3>1. s.alarm \in [Alarms -> AlarmT]
      BY <2>1 DEF Monitor
    <3>2. [s.alarm[a] EXCEPT !.deadline = d] \in AlarmT
      BY <2>1, <3>1 DEF AlarmT
    <3> QED
      BY <3>1, <3>2
  <2> HIDE DEF g
  <2>4. s2 \in Monitor /\ s2.timers = s.timers /\ s2.alarms = s1.alarms
        /\ s2.queue = s1.queue /\ s2.tasks = s1.tasks /\ s2.alarm = g
    BY <2>1, <2>2, <2>3 DEF Monitor
  <2> QED
    BY <2>4 DEF g, d
<1> HIDE DEF s2
<1>5. a \notin Range(s2.alarms) /\ NoRepeat(s2.alarms)
  BY <1>2, <1>4 DEF Unpended, Dropped
<1>6. PutInto(InsertSorted(s2, a), s2, a)
  BY <1>4, <1>5, Inserting
<1>7. /\ s3 \in Monitor /\ s3.timers = s.timers /\ s3.alarms = InsertSorted(s2, a)
      /\ s3.queue = s2.queue /\ s3.tasks = s2.tasks /\ s3.alarm = s2.alarm
  BY <1>4, <1>6 DEF PutInto, Monitor
<1> HIDE DEF s3
<1>8. Balanced(s3)
  BY <1>7 DEF Balanced
<1>9. /\ r \in Monitor /\ r.alarms = s3.alarms /\ r.queue = s3.queue /\ r.tasks = s3.tasks
      /\ r.alarm = s3.alarm
  BY <1>7, <1>8, Rescheduling DEF Rescheduled
<1>10. Attended(r, s)
  <2>1. CASE IsFront(s, a) \/ IsFront(s3, a)
    <3>1. Rescheduled(r, s3)
      BY <1>7, <1>8, <2>1, Rescheduling
    <3> QED
      BY <3>1, Zenon DEF Rescheduled, Attended
  <2>2. CASE ~(IsFront(s, a) \/ IsFront(s3, a))
    <3>1. r = s3
      BY <2>2
    <3>2. s3.alarms # <<>> /\ Head(s3.alarms) # a
      BY <1>6, <1>7, <2>2 DEF IsFront, PutInto
    <3>3. s2.alarms # <<>> /\ Head(s3.alarms) = Head(s2.alarms)
      BY <1>6, <1>7, <3>2 DEF PutInto
    <3>4. s.alarms # <<>>
      <4>1. CASE s.alarms = <<>>
        <5>1. Range(s.alarms) = {}
          BY <4>1, ElementsOf DEF Monitor, Listed
        <5>2. a \notin Range(s.alarms)
          BY <5>1
        <5>3. s1.alarms = s.alarms
          BY <1>2, <5>2 DEF Unpended, Dropped
        <5> QED
          BY <1>4, <3>3, <4>1, <5>3
      <4> QED
        BY <4>1
    <3>5. Head(s.alarms) # a
      BY <2>2, <3>4 DEF IsFront
    <3>6. Head(s1.alarms) = Head(s.alarms)
      BY <1>2, <3>4, <3>5 DEF Unpended, Dropped
    <3>7. Head(r.alarms) = Head(s.alarms)
      BY <1>4, <3>1, <3>3, <3>6
    <3>8. r.alarm[Head(r.alarms)] = s.alarm[Head(s.alarms)]
      <4>1. Head(s.alarms) \in Alarms /\ s.alarm \in [Alarms -> AlarmT]
        BY <3>4 DEF Monitor
      <4> QED
        BY <1>4, <1>7, <1>9, <3>5, <3>7, <4>1
    <3> HIDE DEF r
    <3> QED
      BY <1>7, <1>8, <3>1, <3>2, <3>4, <3>7, <3>8 DEF Attended
  <2> QED
    BY <2>1, <2>2
<1> HIDE DEF r
<1>11. Dropped(Alarms, r.queue, s.queue, a) /\ Dropped(Alarms, r.tasks, s.tasks, a)
  BY <1>2, <1>4, <1>7, <1>9 DEF Unpended
<1>12. Dropped(Alarms, s2.alarms, s.alarms, a)
  BY <1>2, <1>4 DEF Unpended
<1>13. NoRepeat(r.alarms) /\ Range(r.alarms) = Range(s.alarms) \cup {a}
  BY <1>6, <1>7, <1>9, <1>12 DEF PutInto, Dropped
<1>14. /\ InOrder(ByDeadline(r.alarm), s2.alarms) => InOrder(ByDeadline(r.alarm), r.alarms)
       /\ InOrder(ByDeadline(r.alarm), s2.alarms) /\ InOrder(Served(r.alarm), s2.alarms)
            /\ (r.alarm[a].kind = "once" =>
                  \A b \in Range(s2.alarms) : r.alarm[b].callback < r.alarm[a].callback)
          => InOrder(Served(r.alarm), r.alarms)
  <2>1. r.alarm = s2.alarm /\ r.alarms = InsertSorted(s2, a)
    BY <1>7, <1>9
  <2> QED
    BY <1>6, <2>1, Zenon DEF PutInto
<1>15. r.alarm = [s.alarm EXCEPT ![a] = [@ EXCEPT !.deadline = NextDeadline(s.alarm[a])]]
  BY <1>4, <1>7, <1>9
<1> QED
  BY <1>1, <1>9, <1>10, <1>11, <1>12, <1>13, <1>14, <1>15, Zenon DEF Scheduled

-----------------------------------------------------------------------------
\* Order depends on the alarms that are in the list only.
LEMMA SameOrder ==
  ASSUME NEW f, NEW g, NEW q \in Seq(Alarms), \A b \in Range(q) : g[b] = f[b]
  PROVE  /\ InOrder(ByDeadline(f), q) => InOrder(ByDeadline(g), q)
         /\ InOrder(Served(f), q) => InOrder(Served(g), q)
<1>1. Listed(Alarms, q)
  BY ElementsOf
<1>2. \A i \in DOMAIN q : q[i] \in Alarms /\ g[q[i]] = f[q[i]]
  BY <1>1 DEF Listed
<1>3. ASSUME InOrder(ByDeadline(f), q) PROVE InOrder(ByDeadline(g), q)
  BY <1>2, <1>3 DEF InOrder, ByDeadline
<1>4. ASSUME InOrder(Served(f), q) PROVE InOrder(Served(g), q)
  BY <1>2, <1>4 DEF InOrder, Served
<1> QED
  BY <1>3, <1>4

\* What a critical section finds.
LEMMA Entering ==
  ASSUME IInv
  PROVE  /\ now \in Nat \ {0} /\ mon \in Monitor /\ Unrepeated(mon) /\ Balanced(mon)
         /\ mon.alarm \in [Alarms -> AlarmT]
         /\ mon.alarms \in Seq(Alarms) /\ mon.queue \in Seq(Alarms) /\ mon.tasks \in Seq(Alarms)
         /\ \A a \in Alarms : Fits(mon, a)
         /\ \A a \in Range(mon.alarms) : a \in Alarms /\ mon.alarm[a].period \in Nat
<1>1. now \in 1..MaxTime /\ mon \in Monitor /\ Places /\ MaxTime \in Nat
  BY AlarmAssumption DEF IInv, TypeOK, AlarmAssumption
<1>2. /\ mon.alarms \in Seq(Alarms) /\ mon.queue \in Seq(Alarms) /\ mon.tasks \in Seq(Alarms)
      /\ mon.alarm \in [Alarms -> AlarmT]
  BY <1>1 DEF Monitor
<1>3. Unrepeated(mon)
  BY <1>1 DEF Places, Unrepeated
<1>4. Balanced(mon)
  BY DEF IInv, WakelockBalanced, Balanced
<1>5. Range(mon.alarms) \subseteq Alarms
  BY <1>2, ElementsOf DEF Listed
<1>6. ASSUME NEW a \in Alarms PROVE Fits(mon, a)
  <2>1. CASE a \in Range(mon.queue)
    <3>1. mon.alarm[a].callback # NULL /\ ~OnMloop(mon.alarm[a].kind) /\ SetRight(mon.alarm[a])
      BY <1>1, <2>1 DEF Places, Waiting
    <3>2. ~(a \in Range(mon.tasks))
      BY <1>1, <3>1 DEF Places
    <3> QED
      BY <3>1, <3>2 DEF Fits, SetRight
  <2>2. CASE a \in Range(mon.tasks)
    <3>1. mon.alarm[a].callback # NULL /\ OnMloop(mon.alarm[a].kind) /\ SetRight(mon.alarm[a])
      BY <1>1, <2>2 DEF Places, Waiting
    <3>2. ~(a \in Range(mon.queue))
      BY <1>1, <3>1 DEF Places
    <3> QED
      BY <3>1, <3>2 DEF Fits, SetRight
  <2> QED
    BY <2>1, <2>2 DEF Fits
<1>7. ASSUME NEW a \in Range(mon.alarms) PROVE mon.alarm[a].period \in Nat
  <2>1. mon.alarm[a].callback # NULL /\ SetRight(mon.alarm[a])
    BY <1>1, <1>5 DEF Places
  <2> QED
    BY <2>1, AlarmAssumption DEF SetRight, AlarmAssumption
<1>8. now \in Nat \ {0}
  BY <1>1
<1> QED
  BY <1>1, <1>2, <1>3, <1>4, <1>5, <1>6, <1>7, <1>8

\* The alarm a after alarm_set, and after alarm_cancel or its one-time call.
Fresh(r, interval, mloop, cb) ==
  [kind |-> r.kind, deadline |-> now + interval, creation_time |-> now, period |-> interval,
   callback |-> cb, queued_on |-> IF mloop THEN "none" ELSE "default", for_msg_loop |-> mloop]

Idled(r) == [r EXCEPT !.deadline = 0, !.callback = NULL, !.queued_on = "none"]

\* r is mon after alarm_set_internal.
SetDone(r, a, interval, mloop, cb) ==
  /\ r \in Monitor
  /\ r.alarm = [mon.alarm EXCEPT ![a] = Fresh(@, interval, mloop, cb)]
  /\ Dropped(Alarms, r.queue, mon.queue, a) /\ Dropped(Alarms, r.tasks, mon.tasks, a)
  /\ NoRepeat(r.alarms) /\ Range(r.alarms) = Range(mon.alarms) \cup {a}
  /\ Attended(r, mon)
  /\ InOrder(ByDeadline(r.alarm), r.alarms) /\ InOrder(Served(r.alarm), r.alarms)

LEMMA Setting ==
  ASSUME IInv, NEW a \in Alarms, NEW interval \in Intervals, NEW mloop \in BOOLEAN,
         NEW c \in Outcomes, sets < MaxSets,
         mloop <=> OnMloop(mon.alarm[a].kind)
  PROVE  SetDone(SetInternal(mon, a, interval, mloop, sets + 1, c), a, interval, mloop, sets + 1)
<1> DEFINE v == [mon.alarm[a] EXCEPT !.creation_time = now, !.period = interval,
                   !.callback = sets + 1,
                   !.queued_on = IF mloop THEN "none" ELSE "default", !.for_msg_loop = mloop]
           s == [mon EXCEPT !.alarm[a] = v]
           r == ScheduleNext(s, a, c)
<1>1. SetInternal(mon, a, interval, mloop, sets + 1, c) = r
  BY DEF SetInternal
<1>2. /\ now \in Nat \ {0} /\ mon \in Monitor /\ Unrepeated(mon) /\ Balanced(mon) /\ Fits(mon, a)
      /\ mon.alarm \in [Alarms -> AlarmT] /\ mon.alarms \in Seq(Alarms)
  BY Entering
<1>3. /\ interval \in Nat /\ sets + 1 \in 0..MaxSets /\ sets + 1 # 0 /\ sets \in Nat
  BY AlarmAssumption DEF AlarmAssumption, IInv, TypeOK
<1>4. /\ v \in AlarmT /\ v.kind = mon.alarm[a].kind /\ v.deadline = mon.alarm[a].deadline
      /\ v.callback = sets + 1 /\ v.period = interval /\ v.creation_time = now
      /\ v.for_msg_loop = mloop /\ v.queued_on = IF mloop THEN "none" ELSE "default"
  BY <1>2, <1>3 DEF AlarmT
<1> HIDE DEF v
<1>5. /\ s \in Monitor /\ s.alarms = mon.alarms /\ s.queue = mon.queue /\ s.tasks = mon.tasks
      /\ s.timers = mon.timers /\ s.alarm = [mon.alarm EXCEPT ![a] = v]
  BY <1>2, <1>4 DEF Monitor
<1> HIDE DEF s
<1>6. s.alarm[a] = v /\ \A b \in Alarms : b # a => s.alarm[b] = mon.alarm[b]
  BY <1>2, <1>5
<1>7. Unrepeated(s) /\ Balanced(s)
  BY <1>2, <1>5 DEF Unrepeated, Balanced
<1>8. Fits(s, a)
  <2>1. a \in Range(mon.queue) => ~OnMloop(mon.alarm[a].kind)
    BY DEF IInv, Places
  <2>2. a \in Range(mon.tasks) => OnMloop(mon.alarm[a].kind)
    BY DEF IInv, Places
  <2> QED
    BY <1>4, <1>5, <1>6, <2>1, <2>2 DEF Fits
<1>9. Scheduled(r, s, a)
  BY <1>2, <1>3, <1>4, <1>5, <1>6, <1>7, <1>8, Scheduling DEF NULL
<1> HIDE DEF r
<1>10. NextDeadline(v) = now + interval
  <2>1. interval # 0 => (now - now) % interval = 0
    BY <1>2, <1>3
  <2> QED
    BY <1>2, <1>3, <1>4, <2>1 DEF NextDeadline
<1>11. r.alarm = [mon.alarm EXCEPT ![a] = Fresh(@, interval, mloop, sets + 1)]
  <2>1. [v EXCEPT !.deadline = now + interval] = Fresh(mon.alarm[a], interval, mloop, sets + 1)
    BY <1>4 DEF Fresh, AlarmT
  <2>2. r.alarm = [s.alarm EXCEPT ![a] = [v EXCEPT !.deadline = now + interval]]
    BY <1>6, <1>9, <1>10 DEF Scheduled
  <2> QED
    BY <1>2, <1>5, <2>1, <2>2
<1>12. /\ \A b \in Alarms : b # a => r.alarm[b] = mon.alarm[b]
       /\ r.alarm[a].callback = sets + 1
  BY <1>2, <1>11 DEF Fresh
<1>13. PICK q : /\ Dropped(Alarms, q, mon.alarms, a)
                /\ InOrder(ByDeadline(r.alarm), q) => InOrder(ByDeadline(r.alarm), r.alarms)
                /\ InOrder(ByDeadline(r.alarm), q) /\ InOrder(Served(r.alarm), q)
                     /\ (r.alarm[a].kind = "once" =>
                           \A b \in Range(q) : r.alarm[b].callback < r.alarm[a].callback)
                   => InOrder(Served(r.alarm), r.alarms)
  BY <1>5, <1>9, Zenon DEF Scheduled
<1>14. q \in Seq(Alarms) /\ Range(q) \subseteq Alarms /\ a \notin Range(q)
  <2>1. q \in Seq(Alarms) /\ a \notin Range(q)
    BY <1>13 DEF Dropped
  <2> QED
    BY <2>1, ElementsOf DEF Listed
<1>15. InOrder(ByDeadline(mon.alarm), q) /\ InOrder(Served(mon.alarm), q)
  BY <1>13, Zenon DEF IInv, Line, Dropped
<1>16. \A b \in Range(q) : r.alarm[b] = mon.alarm[b]
  BY <1>12, <1>14
<1>17. InOrder(ByDeadline(r.alarm), q) /\ InOrder(Served(r.alarm), q)
  BY <1>14, <1>15, <1>16, SameOrder
<1>18. \A b \in Range(q) : r.alarm[b].callback < r.alarm[a].callback
  <2> SUFFICES ASSUME NEW b \in Range(q) PROVE r.alarm[b].callback < r.alarm[a].callback
    OBVIOUS
  <2>1. mon.alarm[b].callback <= sets /\ mon.alarm[b].callback \in Nat
    BY <1>2, <1>14 DEF IInv, Undone, SetSince, AlarmT
  <2> QED
    BY <1>3, <1>12, <1>16, <2>1
<1>19. InOrder(ByDeadline(r.alarm), r.alarms) /\ InOrder(Served(r.alarm), r.alarms)
  BY <1>13, <1>17, <1>18, Zenon
<1>20. Attended(r, mon)
  <2>1. Attended(r, s)
    BY <1>9 DEF Scheduled
  <2>2. s.alarms # <<>> => s.alarm[Head(s.alarms)].deadline = mon.alarm[Head(mon.alarms)].deadline
    <3>1. s.alarms # <<>> => Head(s.alarms) \in Alarms
      BY <1>2, <1>5
    <3> QED
      BY <1>4, <1>5, <1>6, <3>1
  <2> QED
    BY <1>5, <2>1, <2>2 DEF Attended
<1>21. /\ r \in Monitor /\ NoRepeat(r.alarms) /\ Range(r.alarms) = Range(mon.alarms) \cup {a}
       /\ Dropped(Alarms, r.queue, mon.queue, a) /\ Dropped(Alarms, r.tasks, mon.tasks, a)
  BY <1>5, <1>9 DEF Scheduled
<1> QED
  BY <1>1, <1>11, <1>19, <1>20, <1>21, Zenon DEF SetDone

\* r is mon after alarm_cancel_internal.
CancelDone(r, a) ==
  /\ r \in Monitor
  /\ r.alarm = [mon.alarm EXCEPT ![a] = Idled(@)]
  /\ Dropped(Alarms, r.alarms, mon.alarms, a)
  /\ Dropped(Alarms, r.queue, mon.queue, a) /\ Dropped(Alarms, r.tasks, mon.tasks, a)
  /\ Attended(r, mon)

LEMMA Canceling ==
  ASSUME IInv, NEW a \in Alarms, NEW c \in Outcomes
  PROVE  CancelDone(CancelInternal(mon, a, c), a)
<1> DEFINE s == RemovePending(mon, a)
           s1 == [s EXCEPT !.alarm[a] = Idled(@)]
           r == IF IsFront(mon, a) THEN RescheduleRoot(s1, c) ELSE s1
<1>1. CancelInternal(mon, a, c) = r
  BY DEF CancelInternal, Idled
<1>2. /\ now \in Nat \ {0} /\ mon \in Monitor /\ Unrepeated(mon) /\ Balanced(mon) /\ Fits(mon, a)
      /\ mon.alarm \in [Alarms -> AlarmT] /\ mon.alarms \in Seq(Alarms)
  BY Entering
<1>3. Unpended(s, mon, a)
  BY <1>2, Unpending
<1> HIDE DEF s
<1>4. /\ s1 \in Monitor /\ s1.timers = mon.timers /\ s1.alarms = s.alarms
      /\ s1.queue = s.queue /\ s1.tasks = s.tasks
      /\ s1.alarm = [mon.alarm EXCEPT ![a] = Idled(@)]
  <2>1. s \in Monitor /\ s.alarm = mon.alarm /\ s.timers = mon.timers
    BY <1>3 DEF Unpended
  <2>2. Idled(mon.alarm[a]) \in AlarmT
    <3>1. 0 \in 0..MaxSets
      BY AlarmAssumption DEF AlarmAssumption
    <3> QED
      BY <1>2, <3>1 DEF Idled, AlarmT, NULL
  <2> DEFINE g == [mon.alarm EXCEPT ![a] = Idled(@)]
  <2>3. s1 = [s EXCEPT !.alarm = g]
    BY <2>1 DEF Monitor
  <2>4. g \in [Alarms -> AlarmT]
    BY <1>2, <2>2
  <2> HIDE DEF g, s1
  <2>5. s1 \in Monitor /\ s1.timers = s.timers /\ s1.alarms = s.alarms
        /\ s1.queue = s.queue /\ s1.tasks = s.tasks /\ s1.alarm = g
    BY <2>1, <2>3, <2>4 DEF Monitor
  <2> QED
    BY <2>1, <2>5 DEF g
<1> HIDE DEF s1
<1>5. Balanced(s1)
  BY <1>2, <1>4 DEF Balanced
<1>6. /\ r \in Monitor /\ r.alarms = s1.alarms /\ r.queue = s1.queue /\ r.tasks = s1.tasks
      /\ r.alarm = s1.alarm
  BY <1>2, <1>4, <1>5, Rescheduling DEF Rescheduled
<1>7. Attended(r, mon)
  <2>1. CASE IsFront(mon, a)
    <3>1. Rescheduled(r, s1)
      BY <1>2, <1>4, <1>5, <2>1, Rescheduling
    <3> QED
      BY <3>1, Zenon DEF Rescheduled, Attended
  <2>2. CASE ~IsFront(mon, a)
    <3>1. r = s1
      BY <2>2
    <3>2. CASE mon.alarms = <<>>
      <4>1. a \notin Range(mon.alarms)
        <5>1. Listed(Alarms, mon.alarms)
          BY <1>2, ElementsOf
        <5>2. Range(mon.alarms) = {}
          BY <3>2, <5>1, Zenon DEF Listed
        <5> QED
          BY <5>2
      <4>2. s.alarms = mon.alarms
        BY <1>3, <4>1 DEF Unpended, Dropped
      <4> QED
        BY <1>4, <1>5, <3>1, <3>2, <4>2 DEF Attended
    <3>3. CASE mon.alarms # <<>>
      <4>1. Head(mon.alarms) # a /\ Head(mon.alarms) \in Alarms
        BY <1>2, <2>2, <3>3 DEF IsFront
      <4>2. s.alarms # <<>> /\ Head(s.alarms) = Head(mon.alarms)
        BY <1>3, <3>3, <4>1 DEF Unpended, Dropped
      <4>3. s1.alarm[Head(mon.alarms)] = mon.alarm[Head(mon.alarms)]
        BY <1>2, <1>4, <4>1
      <4> QED
        BY <1>4, <1>5, <3>1, <3>3, <4>2, <4>3 DEF Attended
    <3> QED
      BY <3>2, <3>3
  <2> QED
    BY <2>1, <2>2
<1> HIDE DEF r
<1> QED
  BY <1>1, <1>3, <1>4, <1>6, <1>7 DEF CancelDone, Unpended

\* a after callback_dispatch took it from the list.
Onward(r) == [r EXCEPT !.deadline = IF IsPeriodic(r.kind) THEN NextDeadline(r) ELSE r.deadline]

\* r is mon after the locked part of callback_dispatch moved a.
DispatchDone(r, a) ==
  /\ mon.alarms # <<>> /\ a = Head(mon.alarms) /\ a \in Alarms
  /\ a \in Range(mon.alarms) /\ mon.alarm[a].deadline <= now
  /\ r \in Monitor
  /\ r.alarm = [mon.alarm EXCEPT ![a] = Onward(mon.alarm[a])]
  /\ NoRepeat(r.alarms)
  /\ Range(r.alarms) = (Range(mon.alarms) \ {a})
                         \cup IF IsPeriodic(mon.alarm[a].kind) THEN {a} ELSE {}
  /\ Balanced(r) /\ Held(r) /\ (~WakelockFails => Vigilant(r))
  /\ InOrder(ByDeadline(r.alarm), r.alarms) /\ InOrder(Served(r.alarm), r.alarms)
  /\ AllBefore(Served(mon.alarm), {a}, Range(mon.alarms) \ {a})
  /\ \E q : \/ /\ OnMloop(mon.alarm[a].kind)
               /\ Dropped(Alarms, q, mon.tasks, a) /\ r.tasks = Append(q, a) /\ r.queue = mon.queue
            \/ /\ ~OnMloop(mon.alarm[a].kind)
               /\ Dropped(Alarms, q, mon.queue, a) /\ r.queue = Append(q, a) /\ r.tasks = mon.tasks

LEMMA Dispatching ==
  ASSUME IInv, NEW c1 \in Outcomes, NEW c2 \in Outcomes
  PROVE  LET r == DispatchFront(mon, c1, c2)
         IN Rescheduled(r, mon) \/ \E a : DispatchDone(r, a)
<1> DEFINE r == DispatchFront(mon, c1, c2)
<1>1. /\ now \in Nat \ {0} /\ mon \in Monitor /\ Unrepeated(mon) /\ Balanced(mon)
      /\ mon.alarm \in [Alarms -> AlarmT]
      /\ mon.alarms \in Seq(Alarms) /\ mon.queue \in Seq(Alarms) /\ mon.tasks \in Seq(Alarms)
      /\ NoRepeat(mon.alarms) /\ NoRepeat(mon.queue) /\ NoRepeat(mon.tasks)
  BY Entering DEF Unrepeated
<1>2. CASE mon.alarms = <<>> \/ mon.alarm[Head(mon.alarms)].deadline > now
  <2>1. r = RescheduleRoot(mon, c1)
    BY <1>2 DEF DispatchFront
  <2> QED
    BY <1>1, <2>1, Rescheduling
<1>3. CASE mon.alarms # <<>> /\ ~(mon.alarm[Head(mon.alarms)].deadline > now)
  <2> DEFINE a == Head(mon.alarms)
             s1 == [mon EXCEPT !.alarms = Tail(@)]
             s2 == IF IsPeriodic(mon.alarm[a].kind) THEN ScheduleNext(s1, a, c1) ELSE s1
             s3 == RescheduleRoot(s2, c2)
             f == [mon.alarm EXCEPT ![a] = Onward(mon.alarm[a])]
  <2>1. r = IF s3.alarm[a].for_msg_loop
            THEN [s3 EXCEPT !.tasks = Append(Without(@, a), a)]
            ELSE [s3 EXCEPT !.queue = Append(@, a)]
    BY <1>3 DEF DispatchFront
  <2>2. TailOf(Alarms, Tail(mon.alarms), mon.alarms)
    BY <1>1, <1>3, Tailed
  <2>3. /\ a \in Alarms /\ Range(mon.alarms) = Range(Tail(mon.alarms)) \cup {a}
        /\ NoRepeat(Tail(mon.alarms)) /\ a \notin Range(Tail(mon.alarms))
        /\ Tail(mon.alarms) \in Seq(Alarms)
    BY <1>1, <2>2 DEF TailOf
  <2>4. /\ a \in Range(mon.alarms) /\ Range(Tail(mon.alarms)) = Range(mon.alarms) \ {a}
        /\ Range(Tail(mon.alarms)) \subseteq Alarms
    <3>1. Range(mon.alarms) \subseteq Alarms
      BY <1>1, ElementsOf DEF Listed
    <3> QED
      BY <2>3, <3>1
  <2>5. /\ mon.alarm[a].deadline <= now /\ mon.alarm[a].period \in Nat /\ Fits(mon, a)
        /\ mon.alarm[a].callback # NULL /\ SetRight(mon.alarm[a])
    <3>1. mon.alarm[a].deadline \in Nat
      BY <1>1, <2>3 DEF AlarmT
    <3>2. mon.alarm[a].callback # NULL /\ SetRight(mon.alarm[a])
      BY <2>3, <2>4 DEF IInv, Places
    <3> QED
      BY <1>1, <1>3, <2>3, <2>4, <3>1, <3>2, Entering
  <2>6. /\ InOrder(ByDeadline(mon.alarm), Tail(mon.alarms))
        /\ InOrder(Served(mon.alarm), Tail(mon.alarms))
        /\ AllBefore(Served(mon.alarm), {a}, Range(mon.alarms) \ {a})
    <3>1. InOrder(ByDeadline(mon.alarm), mon.alarms) /\ InOrder(Served(mon.alarm), mon.alarms)
      BY DEF IInv, Line
    <3>2. InOrder(ByDeadline(mon.alarm), Tail(mon.alarms))
      BY <1>1, <1>3, <3>1, TailInOrder
    <3>3. /\ InOrder(Served(mon.alarm), Tail(mon.alarms))
          /\ AllBefore(Served(mon.alarm), {a}, Range(Tail(mon.alarms)))
      BY <1>1, <1>3, <3>1, TailInOrder
    <3> HIDE DEF a
    <3> QED
      BY <2>4, <3>2, <3>3, Zenon
  <2> HIDE DEF a
  <2>7. /\ s1 \in Monitor /\ s1.alarms = Tail(mon.alarms) /\ s1.queue = mon.queue
        /\ s1.tasks = mon.tasks /\ s1.alarm = mon.alarm /\ s1.timers = mon.timers
    BY <1>1, <2>3 DEF Monitor
  <2> HIDE DEF s1
  <2>8. Unrepeated(s1) /\ Fits(s1, a) /\ Balanced(s1)
    BY <1>1, <2>3, <2>5, <2>7 DEF Unrepeated, Fits, Balanced
  <2>9. /\ s2 \in Monitor /\ Balanced(s2) /\ s2.alarm = f
        /\ NoRepeat(s2.alarms)
        /\ Range(s2.alarms) = (Range(mon.alarms) \ {a})
                                \cup IF IsPeriodic(mon.alarm[a].kind) THEN {a} ELSE {}
        /\ InOrder(ByDeadline(f), s2.alarms) /\ InOrder(Served(f), s2.alarms)
        /\ \/ IsPeriodic(mon.alarm[a].kind) /\ Dropped(Alarms, s2.queue, mon.queue, a)
           \/ ~IsPeriodic(mon.alarm[a].kind) /\ s2.queue = mon.queue
        /\ \/ IsPeriodic(mon.alarm[a].kind) /\ Dropped(Alarms, s2.tasks, mon.tasks, a)
           \/ ~IsPeriodic(mon.alarm[a].kind) /\ s2.tasks = mon.tasks
    <3>1. CASE IsPeriodic(mon.alarm[a].kind)
      <4>1. s2 = ScheduleNext(s1, a, c1)
        BY <3>1
      <4>2. Scheduled(s2, s1, a)
        BY <1>1, <2>3, <2>5, <2>7, <2>8, <4>1, Scheduling
      <4> HIDE DEF s2
      <4>3. s2.alarm = f
        BY <1>1, <2>3, <2>7, <3>1, <4>2 DEF Scheduled, Onward
      <4>4. PICK q : /\ Dropped(Alarms, q, s1.alarms, a)
                     /\ InOrder(ByDeadline(s2.alarm), q) => InOrder(ByDeadline(s2.alarm), s2.alarms)
                     /\ InOrder(ByDeadline(s2.alarm), q) /\ InOrder(Served(s2.alarm), q)
                          /\ (s2.alarm[a].kind = "once" =>
                                \A b \in Range(q) : s2.alarm[b].callback < s2.alarm[a].callback)
                        => InOrder(Served(s2.alarm), s2.alarms)
        BY <4>2, Zenon DEF Scheduled
      <4>5. q = Tail(mon.alarms)
        BY <2>3, <2>7, <4>4 DEF Dropped
      <4>6. \A b \in Range(q) : s2.alarm[b] = mon.alarm[b]
        BY <1>1, <2>3, <2>4, <4>3, <4>5
      <4>7. InOrder(ByDeadline(s2.alarm), q) /\ InOrder(Served(s2.alarm), q)
        BY <2>3, <2>6, <4>5, <4>6, SameOrder
      <4>8. s2.alarm[a].kind # "once"
        BY <1>1, <2>3, <3>1, <4>3 DEF Onward, AlarmT, IsPeriodic
      <4>9. InOrder(ByDeadline(s2.alarm), s2.alarms) /\ InOrder(Served(s2.alarm), s2.alarms)
        BY <4>4, <4>7, <4>8, Zenon
      <4>10. /\ s2 \in Monitor /\ Balanced(s2) /\ NoRepeat(s2.alarms)
             /\ Range(s2.alarms) = (Range(mon.alarms) \ {a}) \cup {a}
             /\ Dropped(Alarms, s2.queue, mon.queue, a) /\ Dropped(Alarms, s2.tasks, mon.tasks, a)
        BY <2>4, <2>7, <4>2 DEF Scheduled, Attended
      <4> QED
        BY <3>1, <4>3, <4>9, <4>10
    <3>2. CASE ~IsPeriodic(mon.alarm[a].kind)
      <4>1. s2 = s1
        BY <3>2
      <4>2. f = mon.alarm
        BY <1>1, <2>3, <3>2 DEF Onward, AlarmT
      <4>3. Range(s2.alarms) = (Range(mon.alarms) \ {a}) \cup {}
        BY <2>4, <2>7, <4>1
      <4> HIDE DEF s2, f
      <4> QED
        BY <2>3, <2>6, <2>7, <2>8, <3>2, <4>1, <4>2, <4>3
    <3> QED
      BY <3>1, <3>2
  <2> HIDE DEF s2
  <2>10. Rescheduled(s3, s2)
    BY <1>1, <2>9, Rescheduling
  <2> HIDE DEF s3
  <2>11. /\ s3 \in Monitor /\ s3.alarms = s2.alarms /\ s3.alarm = f
         /\ s3.queue = s2.queue /\ s3.tasks = s2.tasks
         /\ Balanced(s3) /\ Held(s3) /\ (~WakelockFails => Vigilant(s3))
         /\ s3.queue \in Seq(Alarms) /\ s3.tasks \in Seq(Alarms)
    BY <2>9, <2>10 DEF Rescheduled, Monitor
  <2>12. s3.alarm[a].for_msg_loop <=> OnMloop(mon.alarm[a].kind)
    BY <1>1, <2>3, <2>5, <2>11 DEF SetRight, Onward, AlarmT
  <2>13. ~IsPeriodic(mon.alarm[a].kind) => a \notin Range(mon.queue) /\ a \notin Range(mon.tasks)
    BY <2>4 DEF IInv, Places, Waiting
  <2> DEFINE Rest(m) == /\ m \in Monitor /\ m.alarms = s3.alarms /\ m.alarm = s3.alarm
                        /\ m.timers = s3.timers
  <2>14. /\ Rest(r)
         /\ \E q : \/ /\ OnMloop(mon.alarm[a].kind)
                      /\ Dropped(Alarms, q, mon.tasks, a) /\ r.tasks = Append(q, a)
                      /\ r.queue = mon.queue
                   \/ /\ ~OnMloop(mon.alarm[a].kind)
                      /\ Dropped(Alarms, q, mon.queue, a) /\ r.queue = Append(q, a)
                      /\ r.tasks = mon.tasks
    <3>1. CASE OnMloop(mon.alarm[a].kind)
      <4> DEFINE q == Without(s3.tasks, a)
      <4>1. s3.queue = mon.queue
        <5>1. a \notin Range(mon.queue)
          BY <3>1 DEF IInv, Places
        <5> QED
          BY <2>9, <2>11, <5>1 DEF Dropped
      <4>2. Dropped(Alarms, q, mon.tasks, a)
        <5>1. CASE s3.tasks = mon.tasks
          BY <1>1, <5>1, DroppedAll
        <5>2. CASE Dropped(Alarms, s3.tasks, mon.tasks, a)
          <6>1. NoRepeat(s3.tasks) /\ a \notin Range(s3.tasks)
            BY <5>2 DEF Dropped
          <6>2. Dropped(Alarms, q, s3.tasks, a)
            BY <2>11, <6>1, DroppedAll
          <6>3. q = s3.tasks
            BY <6>1, <6>2 DEF Dropped
          <6> QED
            BY <5>2, <6>3
        <5> QED
          BY <2>9, <2>11, <5>1, <5>2
      <4> HIDE DEF q
      <4>3. Append(q, a) \in Seq(Alarms)
        BY <2>3, <4>2 DEF Dropped
      <4>4. r = [s3 EXCEPT !.tasks = Append(q, a)]
        BY <2>1, <2>12, <3>1 DEF q
      <4> HIDE DEF r
      <4>5. Rest(r) /\ r.tasks = Append(q, a) /\ r.queue = mon.queue
        BY <2>11, <4>1, <4>3, <4>4 DEF Monitor
      <4> QED
        BY <3>1, <4>2, <4>5, Zenon
    <3>2. CASE ~OnMloop(mon.alarm[a].kind)
      <4> DEFINE q == s3.queue
      <4>1. Dropped(Alarms, q, mon.queue, a)
        BY <1>1, <2>9, <2>11, <2>13, NothingToDrop
      <4>2. s3.tasks = mon.tasks
        <5>1. a \notin Range(mon.tasks)
          BY <3>2 DEF IInv, Places
        <5> QED
          BY <2>9, <2>11, <5>1 DEF Dropped
      <4>3. Append(q, a) \in Seq(Alarms)
        BY <2>3, <2>11
      <4>4. r = [s3 EXCEPT !.queue = Append(q, a)]
        BY <2>1, <2>12, <3>2
      <4> HIDE DEF r, q
      <4>5. Rest(r) /\ r.queue = Append(q, a) /\ r.tasks = mon.tasks
        BY <2>11, <4>2, <4>3, <4>4 DEF Monitor
      <4> QED
        BY <3>2, <4>1, <4>5, Zenon
    <3> QED
      BY <3>1, <3>2
  <2> HIDE DEF r
  <2>15. Balanced(r) /\ Held(r) /\ (~WakelockFails => Vigilant(r))
    BY <2>11, <2>14 DEF Balanced, Held, Vigilant
  <2> HIDE DEF f
  <2>16. /\ r \in Monitor /\ r.alarm = f /\ NoRepeat(r.alarms)
         /\ Range(r.alarms) = (Range(mon.alarms) \ {a})
                                \cup IF IsPeriodic(mon.alarm[a].kind) THEN {a} ELSE {}
         /\ InOrder(ByDeadline(r.alarm), r.alarms) /\ InOrder(Served(r.alarm), r.alarms)
    BY <2>9, <2>11, <2>14
  <2>17. DispatchDone(r, a)
    BY <1>3, <2>3, <2>4, <2>5, <2>6, <2>14, <2>15, <2>16, Zenon DEF DispatchDone, f, a
  <2> QED
    BY <2>17, Zenon DEF r
<1> QED
  BY <1>2, <1>3

-----------------------------------------------------------------------------
\* The steps, one per operation.
LEMMA Steps ==
  ASSUME [Next]_vars
  PROVE  \/ Tick \/ DispatcherTakes \/ DispatcherDispatches \/ NothingReady
         \/ CleanupSignal \/ CleanupStep
         \/ \E c \in Callers : Enter(c)
         \/ \E c \in Callers : Ready(c)
         \/ \E c \in Callers : Call(c)
         \/ \E c \in Callers : CallReturns(c)
         \/ \E t \in Threads : CancelReturns(t)
         \/ \E t \in Threads, a \in Alarms : Cancel(t, a)
         \/ \E t \in Threads, a \in Alarms, interval \in Intervals, mloop \in BOOLEAN :
              Set(t, a, interval, mloop)
         \/ UNCHANGED vars
  BY Zenon DEF Next, DispatcherStep, CallerStep

\* What a step does to the lists and to the alarms: nothing;
ListsRest == /\ mon'.alarms = mon.alarms /\ mon'.queue = mon.queue /\ mon'.tasks = mon.tasks
             /\ mon'.alarm = mon.alarm

Rests == ListsRest /\ Entered' = Entered

\* the message loop begins to run its first closure;
Enters ==
  /\ mon.tasks # <<>> /\ mon'.tasks = Tail(mon.tasks)
  /\ Entered = {} /\ Entered' = {Head(mon.tasks)}
  /\ mon'.alarms = mon.alarms /\ mon'.queue = mon.queue /\ mon'.alarm = mon.alarm

\* an alarm is about to be called;
Readies(a) ==
  /\ \/ /\ mon.queue # <<>> /\ a = Head(mon.queue) /\ mon'.queue = Tail(mon.queue)
        /\ Entered' = Entered
     \/ Entered = {a} /\ Entered' = {} /\ mon'.queue = mon.queue
  /\ a \in Alarms
  /\ mon'.alarms = mon.alarms /\ mon'.tasks = mon.tasks
  /\ mon'.alarm = [mon.alarm EXCEPT ![a] = IF IsPeriodic(@.kind) THEN @ ELSE Idled(@)]

\* it is canceled, set, or moved from the list to the ones that wait;
Cancels(a) == a \in Alarms /\ a \notin Entered /\ CancelDone(mon', a) /\ Entered' = Entered

Sets(a, interval, mloop) ==
  /\ a \in Alarms /\ a \notin Entered /\ interval \in Intervals /\ mloop \in BOOLEAN
  /\ mloop <=> OnMloop(mon.alarm[a].kind)
  /\ SetDone(mon', a, interval, mloop, sets + 1) /\ Entered' = Entered

Dispatches(a) == DispatchDone(mon', a) /\ Entered' = Entered

\* alarm_cleanup clears a list.
Clears ==
  /\ \/ mon'.queue = <<>> /\ mon'.alarms = mon.alarms
     \/ mon'.alarms = <<>> /\ mon'.queue = mon.queue
  /\ mon'.tasks = mon.tasks /\ mon'.alarm = mon.alarm /\ Entered' = Entered

SomeEffect ==
  \/ Rests \/ Enters \/ Clears
  \/ \E a : Readies(a) \/ Cancels(a) \/ Dispatches(a)
  \/ \E a, interval, mloop : Sets(a, interval, mloop)

\* Where no alarm is raced, the alarm of the closure that runs is left alone.
LEMMA NotEntered ==
  ASSUME NEW a, Racing(a), raced' = {}
  PROVE  a \notin Entered
  BY DEF Racing, InHand, Entered

LEMMA Effects ==
  ASSUME IInv, [Next]_vars, raced' = {}
  PROVE  SomeEffect
<1>1. /\ tpc \in [Callers -> {"idle", "entered", "cb_lock", "calling"}]
      /\ running \in [Callers -> [alarm: Alarms \cup {None}, callback: 0..MaxSets, early: BOOLEAN]]
      /\ mon \in Monitor
  BY DEF IInv, TypeOK
<1>2. "mloop" \in Callers /\ "default" \in Callers /\ \A c \in Callers : c = "mloop" \/ c = "default"
  BY DEF Callers
<1>3. CASE tpc' = tpc /\ running' = running /\ ListsRest
  BY <1>3 DEF Entered, Rests, SomeEffect
<1>4. CASE Tick
  BY <1>1, <1>3, <1>4 DEF Tick, ListsRest, Monitor
<1>5. CASE DispatcherTakes
  BY <1>1, <1>3, <1>5 DEF DispatcherTakes, ListsRest, Monitor
<1>6. CASE DispatcherDispatches
  <2>1. PICK c1 \in Outcomes, c2 \in Outcomes : mon' = DispatchFront(mon, c1, c2)
    BY <1>6 DEF DispatcherDispatches
  <2>2. tpc' = tpc /\ running' = running
    BY <1>6 DEF DispatcherDispatches
  <2>3. Entered' = Entered
    BY <2>2 DEF Entered
  <2>4. Rescheduled(mon', mon) \/ \E a : DispatchDone(mon', a)
    BY <2>1, Dispatching
  <2>5. CASE Rescheduled(mon', mon)
    BY <1>3, <2>2, <2>5 DEF Rescheduled, ListsRest
  <2>6. CASE \E a : DispatchDone(mon', a)
    BY <2>3, <2>6, Zenon DEF SomeEffect, Dispatches
  <2> QED
    BY <2>4, <2>5, <2>6
<1>7. CASE NothingReady
  <2>1. mon' = mon /\ running' = running /\ tpc'["mloop"] = tpc["mloop"]
    BY <1>1, <1>2, <1>7 DEF NothingReady
  <2> QED
    BY <2>1 DEF Entered, Rests, ListsRest, SomeEffect
<1>8. CASE CleanupSignal
  BY <1>1, <1>3, <1>8 DEF CleanupSignal, ListsRest, Monitor
<1>9. CASE CleanupStep
  <2>1. tpc' = tpc /\ running' = running
    BY <1>9 DEF CleanupStep
  <2>2. Entered' = Entered
    BY <2>1 DEF Entered
  <2>3. CASE UNCHANGED mon
    BY <1>3, <2>1, <2>3 DEF ListsRest
  <2>4. CASE mon' = [mon EXCEPT !.queue = <<>>]
    <3>1. /\ mon'.queue = <<>> /\ mon'.alarms = mon.alarms /\ mon'.tasks = mon.tasks
          /\ mon'.alarm = mon.alarm
      BY <1>1, <2>4 DEF Monitor
    <3> QED
      BY <2>2, <3>1, Zenon DEF Clears, SomeEffect
  <2>5. CASE mon' = [mon EXCEPT !.timers.timer = Off, !.timers.wakeup_timer = Off,
                                !.timers.alarm_expired = 0, !.alarms = <<>>]
    <3>1. /\ mon'.queue = mon.queue /\ mon'.alarms = <<>> /\ mon'.tasks = mon.tasks
          /\ mon'.alarm = mon.alarm
      BY <1>1, <2>5 DEF Monitor
    <3> QED
      BY <2>2, <3>1, Zenon DEF Clears, SomeEffect
  <2> QED
    BY <1>9, <2>3, <2>4, <2>5, Zenon DEF CleanupStep
<1>10. ASSUME NEW c \in Callers, Enter(c) PROVE SomeEffect
  <2>1. CASE c = "default"
    <3>1. mon' = mon /\ running' = running /\ tpc'["mloop"] = tpc["mloop"]
      BY <1>1, <1>2, <1>10, <2>1 DEF Enter
    <3> QED
      BY <3>1 DEF Entered, Rests, ListsRest, SomeEffect
  <2>2. CASE c = "mloop"
    <3>1. /\ mon.tasks # <<>> /\ mon' = [mon EXCEPT !.tasks = Tail(@)]
          /\ running' = [running EXCEPT ![c].alarm = Head(mon.tasks)]
          /\ tpc' = [tpc EXCEPT ![c] = "entered"] /\ tpc[c] = "idle"
      BY <1>10, <2>2 DEF Enter
    <3>2. /\ mon'.tasks = Tail(mon.tasks) /\ mon'.alarms = mon.alarms /\ mon'.queue = mon.queue
          /\ mon'.alarm = mon.alarm
      BY <1>1, <3>1 DEF Monitor
    <3>3. tpc'["mloop"] = "entered" /\ running'["mloop"].alarm = Head(mon.tasks)
      BY <1>1, <1>2, <2>2, <3>1
    <3>4. Entered = {} /\ Entered' = {Head(mon.tasks)}
      BY <2>2, <3>1, <3>3 DEF Entered
    <3> QED
      BY <3>1, <3>2, <3>4, Zenon DEF Enters, SomeEffect
  <2> QED
    BY <1>2, <2>1, <2>2
<1>11. ASSUME NEW c \in Callers, Ready(c) PROVE SomeEffect
  <2> DEFINE a == IF c = "default" THEN Head(mon.queue) ELSE running[c].alarm
             r == mon.alarm[a]
  <2>1. /\ mon' = [mon EXCEPT
                     !.queue = IF c = "default" THEN Tail(@) ELSE @,
                     !.alarm[a] = IF IsPeriodic(r.kind) THEN @
                                  ELSE [@ EXCEPT !.deadline = 0, !.callback = NULL,
                                                 !.queued_on = "none"]]
        /\ tpc[c] = "entered" /\ tpc' = [tpc EXCEPT ![c] = "cb_lock"]
        /\ c = "default" => mon.queue # <<>>
        /\ running' = [running EXCEPT ![c] =
                         [alarm |-> a, callback |-> r.callback,
                          early |-> r.callback # NULL /\ now < r.creation_time + r.period]]
    BY <1>11 DEF Ready
  <2>2. a \in Alarms
    <3>1. CASE c = "default"
      BY <1>1, <2>1, <3>1 DEF Monitor
    <3>2. CASE c = "mloop"
      <4>1. a \in Entered
        BY <2>1, <3>2 DEF Entered
      <4> QED
        BY <4>1 DEF IInv, Places, Waiting
    <3> QED
      BY <1>2, <3>1, <3>2
  <2> HIDE DEF a
  <2>3. /\ mon'.queue = IF c = "default" THEN Tail(mon.queue) ELSE mon.queue
        /\ mon'.alarms = mon.alarms /\ mon'.tasks = mon.tasks
    BY <1>1, <2>1 DEF Monitor
  <2>4. mon'.alarm = [mon.alarm EXCEPT ![a] = IF IsPeriodic(@.kind) THEN @ ELSE Idled(@)]
    BY <1>1, <2>1 DEF Monitor, Idled
  <2>5. CASE c = "default"
    <3>1. tpc'["mloop"] = tpc["mloop"] /\ running'["mloop"] = running["mloop"]
      BY <1>1, <1>2, <2>1, <2>5
    <3>2. Entered' = Entered
      BY <3>1 DEF Entered
    <3>3. mon.queue # <<>> /\ a = Head(mon.queue) /\ mon'.queue = Tail(mon.queue)
      BY <2>1, <2>3, <2>5 DEF a
    <3> QED
      BY <2>2, <2>3, <2>4, <3>2, <3>3, Zenon DEF Readies, SomeEffect
  <2>6. CASE c = "mloop"
    <3>1. tpc'["mloop"] = "cb_lock" /\ a = running["mloop"].alarm /\ tpc["mloop"] = "entered"
      BY <1>1, <1>2, <2>1, <2>6 DEF a
    <3>2. Entered = {a} /\ Entered' = {}
      BY <3>1 DEF Entered
    <3>3. mon'.queue = mon.queue
      BY <2>3, <2>6
    <3> QED
      BY <2>2, <2>3, <2>4, <3>2, <3>3, Zenon DEF Readies, SomeEffect
  <2> QED
    BY <1>2, <2>5, <2>6
<1>12. ASSUME NEW c \in Callers, Call(c) PROVE SomeEffect
  <2>1. /\ mon' = mon /\ running' = running
        /\ tpc'["mloop"] = tpc["mloop"] \/ (tpc'["mloop"] = "calling" /\ tpc["mloop"] = "cb_lock")
    BY <1>1, <1>2, <1>12 DEF Call
  <2>2. Entered' = Entered
    BY <2>1 DEF Entered
  <2> QED
    BY <2>1, <2>2 DEF Rests, ListsRest, SomeEffect
<1>13. ASSUME NEW c \in Callers, CallReturns(c) PROVE SomeEffect
  <2>1. /\ mon' = mon
        /\ \/ tpc'["mloop"] = tpc["mloop"] /\ running'["mloop"] = running["mloop"]
           \/ tpc'["mloop"] = "idle" /\ tpc["mloop"] = "calling"
    BY <1>1, <1>2, <1>13 DEF CallReturns
  <2>2. Entered' = Entered
    BY <2>1 DEF Entered
  <2> QED
    BY <2>1, <2>2 DEF Rests, ListsRest, SomeEffect
<1>14. ASSUME NEW t \in Threads, CancelReturns(t) PROVE SomeEffect
  BY <1>3, <1>14 DEF CancelReturns, ListsRest
<1>15. ASSUME NEW t \in Threads, NEW a \in Alarms, Cancel(t, a) PROVE SomeEffect
  <2>1. PICK c \in Outcomes : mon' = CancelInternal(mon, a, c)
    BY <1>15 DEF Cancel
  <2>2. CancelDone(mon', a)
    BY <2>1, Canceling
  <2>3. tpc' = tpc /\ running' = running /\ Racing(a)
    BY <1>15 DEF Cancel
  <2>4. Entered' = Entered
    BY <2>3 DEF Entered
  <2>5. a \notin Entered
    BY <2>3, NotEntered
  <2> QED
    BY <2>2, <2>4, <2>5, Zenon DEF Cancels, SomeEffect
<1>16. ASSUME NEW t \in Threads, NEW a \in Alarms, NEW interval \in Intervals,
              NEW mloop \in BOOLEAN, Set(t, a, interval, mloop)
       PROVE  SomeEffect
  <2>1. PICK c \in Outcomes : mon' = SetInternal(mon, a, interval, mloop, sets + 1, c)
    BY <1>16 DEF Set
  <2>2. /\ mloop <=> OnMloop(mon.alarm[a].kind)
        /\ sets < MaxSets /\ tpc' = tpc /\ running' = running /\ Racing(a)
    BY <1>16 DEF Set
  <2>3. SetDone(mon', a, interval, mloop, sets + 1)
    BY <2>1, <2>2, Setting
  <2>4. Entered' = Entered
    BY <2>2 DEF Entered
  <2>5. a \notin Entered
    BY <2>2, NotEntered
  <2> QED
    BY <2>2, <2>3, <2>4, <2>5, Zenon DEF Sets, SomeEffect
<1>17. CASE UNCHANGED vars
  BY <1>3, <1>17 DEF vars, ListsRest
<1> QED
  BY <1>4, <1>5, <1>6, <1>7, <1>8, <1>9, <1>10, <1>11, <1>12, <1>13, <1>14, <1>15, <1>16, <1>17,
     Steps, Zenon

-----------------------------------------------------------------------------
\* What the clock does to the timers.
Ticked(r, s) ==
  /\ r \in Timers /\ r.timer_set = s.timer_set /\ r.wakelock = s.wakelock
  /\ r.alarm_expired >= s.alarm_expired
  /\ r.timer = s.timer \/ r.alarm_expired > 0
  /\ r.wakeup_timer = s.wakeup_timer \/ r.alarm_expired > 0

LEMMA Ticking ==
  ASSUME IInv, Tick
  PROVE  mon' \in Monitor /\ ListsRest /\ Ticked(mon'.timers, mon.timers)
<1> DEFINE s == mon.timers
           due(f) == s[f] = now + 1
           left(f) == IF due(f) THEN Off ELSE s[f]
           D == {f \in {"timer", "wakeup_timer"} : due(f)}
           n == Cardinality(D)
           r == [s EXCEPT !.timer = left("timer"), !.wakeup_timer = left("wakeup_timer"),
                          !.alarm_expired = s.alarm_expired + n]
<1>1. mon \in Monitor /\ s \in Timers
  BY DEF IInv, TypeOK, Monitor
<1>2. mon' = [mon EXCEPT !.timers = r]
  BY Zenon DEF Tick
<1>3. n \in Nat /\ (D # {} => n > 0)
  <2>1. IsFiniteSet({"timer", "wakeup_timer"})
    <3>1. IsFiniteSet({"timer"})
      BY FS_Singleton
    <3>2. IsFiniteSet({"timer"} \cup {"wakeup_timer"})
      BY <3>1, FS_AddElement
    <3>3. {"timer", "wakeup_timer"} = {"timer"} \cup {"wakeup_timer"}
      OBVIOUS
    <3> QED
      BY <3>2, <3>3
  <2>2. IsFiniteSet(D)
    BY <2>1, FS_Subset
  <2> HIDE DEF D
  <2>3. n \in Nat /\ (n = 0 <=> D = {})
    BY <2>2, FS_CardinalityType, FS_EmptySet
  <2> QED
    BY <2>3
<1>4. (due("timer") => D # {}) /\ (due("wakeup_timer") => D # {})
  <2>1. due("timer") => "timer" \in D
    OBVIOUS
  <2>2. due("wakeup_timer") => "wakeup_timer" \in D
    OBVIOUS
  <2> HIDE DEF D
  <2> QED
    BY <2>1, <2>2
<1> HIDE DEF n, D, s
<1>5. /\ s.timer \in Nat /\ s.wakeup_timer \in Nat /\ s.timer_set \in BOOLEAN
      /\ s.wakelock \in 0..1 /\ s.alarm_expired \in Nat
  BY <1>1 DEF Timers
<1>6. /\ r \in Timers /\ r.timer_set = s.timer_set /\ r.wakelock = s.wakelock
      /\ r.alarm_expired = s.alarm_expired + n
      /\ r.timer = IF due("timer") THEN Off ELSE s.timer
      /\ r.wakeup_timer = IF due("wakeup_timer") THEN Off ELSE s.wakeup_timer
  <2>1. left("timer") \in Nat /\ left("wakeup_timer") \in Nat /\ s.alarm_expired + n \in Nat
    BY <1>3, <1>5 DEF Off
  <2>2. /\ left("timer") = IF due("timer") THEN Off ELSE s.timer
        /\ left("wakeup_timer") = IF due("wakeup_timer") THEN Off ELSE s.wakeup_timer
    OBVIOUS
  <2> HIDE DEF left, due
  <2>3. /\ r \in Timers /\ r.timer_set = s.timer_set /\ r.wakelock = s.wakelock
        /\ r.alarm_expired = s.alarm_expired + n
        /\ r.timer = left("timer") /\ r.wakeup_timer = left("wakeup_timer")
    BY <1>1, <2>1 DEF Timers
  <2> QED
    BY <2>2, <2>3
<1> HIDE DEF r
<1>7. Ticked(r, s)
  <2>1. r.alarm_expired >= s.alarm_expired
    BY <1>3, <1>5, <1>6
  <2>2. n > 0 => r.alarm_expired > 0
    BY <1>3, <1>5, <1>6
  <2> QED
    BY <1>3, <1>4, <1>6, <2>1, <2>2 DEF Ticked
<1>8. mon' \in Monitor /\ ListsRest /\ mon'.timers = r
  BY <1>1, <1>2, <1>6 DEF Monitor, ListsRest
<1> QED
  BY <1>7, <1>8 DEF s

LEMMA MonitorStep ==
  ASSUME IInv, [Next]_vars, raced' = {}
  PROVE  mon' \in Monitor
<1>1. /\ mon \in Monitor /\ mon.timers \in Timers /\ mon.alarm \in [Alarms -> AlarmT]
      /\ mon.alarms \in Seq(Alarms) /\ mon.queue \in Seq(Alarms) /\ mon.tasks \in Seq(Alarms)
      /\ 0 \in 0..MaxSets
  BY AlarmAssumption DEF AlarmAssumption, IInv, TypeOK, Monitor
<1>2. CASE Tick
  BY <1>2, Ticking
<1>3. CASE DispatcherTakes
  <2>1. /\ mon' = [mon EXCEPT !.timers = [mon.timers EXCEPT !.alarm_expired = mon.timers.alarm_expired - 1]]
        /\ mon.timers.alarm_expired > 0
    BY <1>1, <1>3 DEF DispatcherTakes, Monitor
  <2>2. [mon.timers EXCEPT !.alarm_expired = mon.timers.alarm_expired - 1] \in Timers
    <3>1. mon.timers.alarm_expired - 1 \in Nat
      BY <1>1, <2>1 DEF Timers
    <3> QED
      BY <1>1, <3>1 DEF Timers
  <2> QED
    BY <1>1, <2>1, <2>2 DEF Monitor
<1>4. CASE DispatcherDispatches
  <2>1. PICK c1 \in Outcomes, c2 \in Outcomes : mon' = DispatchFront(mon, c1, c2)
    BY <1>4 DEF DispatcherDispatches
  <2>2. Rescheduled(mon', mon) \/ \E a : DispatchDone(mon', a)
    BY <2>1, Dispatching
  <2> QED
    BY <2>2, Zenon DEF Rescheduled, DispatchDone
<1>5. CASE mon' = mon
  BY <1>1, <1>5
<1>6. CASE CleanupSignal
  <2>1. mon' = [mon EXCEPT !.timers = [mon.timers EXCEPT !.alarm_expired = mon.timers.alarm_expired + 1]]
    BY <1>1, <1>6 DEF CleanupSignal, Monitor
  <2>2. mon.timers.alarm_expired + 1 \in Nat
    BY <1>1 DEF Timers
  <2>3. [mon.timers EXCEPT !.alarm_expired = mon.timers.alarm_expired + 1] \in Timers
    BY <1>1, <2>2 DEF Timers
  <2> QED
    BY <1>1, <2>1, <2>3 DEF Monitor
<1>7. CASE CleanupStep
  <2> DEFINE e == <<>>
  <2>0. e \in Seq(Alarms)
    OBVIOUS
  <2> HIDE DEF e
  <2>1. CASE mon' = [mon EXCEPT !.queue = <<>>]
    <3>1. mon' = [mon EXCEPT !.queue = e]
      BY <2>1 DEF e
    <3> QED
      BY <1>1, <2>0, <3>1 DEF Monitor
  <2>2. CASE mon' = [mon EXCEPT !.timers.timer = Off, !.timers.wakeup_timer = Off,
                                !.timers.alarm_expired = 0, !.alarms = <<>>]
    <3> DEFINE r == [mon.timers EXCEPT !.timer = Off, !.wakeup_timer = Off, !.alarm_expired = 0]
    <3>1. r \in Timers
      BY <1>1 DEF Timers, Off
    <3>2. mon' = [mon EXCEPT !.timers = r, !.alarms = e]
      BY <1>1, <2>2 DEF Monitor, e
    <3> HIDE DEF r
    <3> QED
      BY <1>1, <2>0, <3>1, <3>2 DEF Monitor
  <2> QED
    BY <1>5, <1>7, <2>1, <2>2, Zenon DEF CleanupStep
<1>8. ASSUME NEW c \in Callers, Enter(c) PROVE mon' \in Monitor
  <2>1. CASE mon' = [mon EXCEPT !.tasks = Tail(@)] /\ mon.tasks # <<>>
    <3> DEFINE q == Tail(mon.tasks)
    <3>1. q \in Seq(Alarms) /\ mon' = [mon EXCEPT !.tasks = q]
      BY <1>1, <2>1
    <3> HIDE DEF q
    <3> QED
      BY <1>1, <3>1 DEF Monitor
  <2> QED
    BY <1>5, <1>8, <2>1 DEF Enter
<1>9. ASSUME NEW c \in Callers, Ready(c) PROVE mon' \in Monitor
  <2> DEFINE a == IF c = "default" THEN Head(mon.queue) ELSE running[c].alarm
             r == mon.alarm[a]
             q == IF c = "default" THEN Tail(mon.queue) ELSE mon.queue
             g == [mon.alarm EXCEPT ![a] = IF IsPeriodic(r.kind) THEN @ ELSE Idled(@)]
  <2>1. /\ mon' = [mon EXCEPT
                     !.queue = IF c = "default" THEN Tail(@) ELSE @,
                     !.alarm[a] = IF IsPeriodic(r.kind) THEN @
                                  ELSE [@ EXCEPT !.deadline = 0, !.callback = NULL,
                                                 !.queued_on = "none"]]
        /\ (c = "default" => mon.queue # <<>>)
    BY <1>9 DEF Ready
  <2> HIDE DEF a
  <2>2. mon' = [mon EXCEPT !.queue = q, !.alarm = g]
    BY <1>1, <2>1 DEF Monitor, Idled
  <2>3. q \in Seq(Alarms)
    BY <1>1, <2>1
  <2>4. g \in [Alarms -> AlarmT]
    <3>1. a \in Alarms => Idled(mon.alarm[a]) \in AlarmT
      BY <1>1 DEF Idled, AlarmT, NULL
    <3> QED
      BY <1>1, <3>1
  <2> HIDE DEF q, g
  <2> QED
    BY <1>1, <2>2, <2>3, <2>4 DEF Monitor
<1>10. ASSUME NEW t \in Threads, NEW a \in Alarms, Cancel(t, a) PROVE mon' \in Monitor
  BY <1>10, Canceling DEF Cancel, CancelDone
<1>11. ASSUME NEW t \in Threads, NEW a \in Alarms, NEW interval \in Intervals,
              NEW mloop \in BOOLEAN, Set(t, a, interval, mloop)
       PROVE  mon' \in Monitor
  <2>1. PICK c \in Outcomes : mon' = SetInternal(mon, a, interval, mloop, sets + 1, c)
    BY <1>11 DEF Set
  <2>2. /\ mloop <=> OnMloop(mon.alarm[a].kind)
        /\ sets < MaxSets
    BY <1>11 DEF Set
  <2>3. SetDone(mon', a, interval, mloop, sets + 1)
    BY <2>1, <2>2, Setting
  <2> QED
    BY <2>3 DEF SetDone
<1>12. ASSUME NothingReady \/ (\E c \in Callers : Call(c) \/ CallReturns(c))
                \/ (\E t \in Threads : CancelReturns(t)) \/ UNCHANGED vars
       PROVE  mon' \in Monitor
  BY <1>5, <1>12 DEF NothingReady, Call, CallReturns, CancelReturns, vars
<1> QED
  BY <1>2, <1>3, <1>4, <1>6, <1>7, <1>8, <1>9, <1>10, <1>11, <1>12, Steps, Zenon

LEMMA TypeStep ==
  ASSUME IInv, [Next]_vars, raced' = {}
  PROVE  TypeOK'
<1>1. /\ TypeOK /\ mon' \in Monitor /\ MaxSets \in Nat
  BY AlarmAssumption, MonitorStep DEF AlarmAssumption, IInv
<1>2. now' \in 1..MaxTime
  <2>1. now \in 1..MaxTime /\ MaxTime \in Nat
    BY <1>1, AlarmAssumption DEF TypeOK, AlarmAssumption
  <2>2. now' = now \/ (now < MaxTime /\ now' = now + 1)
    BY Steps DEF Tick, DispatcherTakes, DispatcherDispatches, NothingReady, CleanupSignal,
                 CleanupStep, Enter, Ready, Call, CallReturns, CancelReturns, Cancel, Set, vars
  <2> QED
    BY <2>1, <2>2
<1>3. (dpc \in {"wait", "taken", "exited"} /\ active \in BOOLEAN)'
  BY <1>1, Steps
  DEF TypeOK, Tick, DispatcherTakes, DispatcherDispatches, NothingReady, CleanupSignal,
      CleanupStep, Enter, Ready, Call, CallReturns, CancelReturns, Cancel, Set, vars
<1>4. (tpc \in [Callers -> {"idle", "entered", "cb_lock", "calling"}])'
  BY <1>1, Steps
  DEF TypeOK, Tick, DispatcherTakes, DispatcherDispatches, NothingReady, CleanupSignal,
      CleanupStep, Enter, Ready, Call, CallReturns, CancelReturns, Cancel, Set, vars
<1>5. (cpc \in {"none", "join_dispatcher", "lock", "unregister", "join_default", "done"})'
  BY <1>1, Steps
  DEF TypeOK, Tick, DispatcherTakes, DispatcherDispatches, NothingReady, CleanupSignal,
      CleanupStep, Enter, Ready, Call, CallReturns, CancelReturns, Cancel, Set, vars
<1>6. (sets \in 0..MaxSets)'
  <2>1. sets' = sets \/ (sets < MaxSets /\ sets' = sets + 1)
    BY Steps DEF Tick, DispatcherTakes, DispatcherDispatches, NothingReady, CleanupSignal,
                 CleanupStep, Enter, Ready, Call, CallReturns, CancelReturns, Cancel, Set, vars
  <2>2. sets \in 0..MaxSets
    BY <1>1 DEF TypeOK
  <2> QED
    BY <1>1, <2>1, <2>2
<1>7. (canceling \in [Threads -> [alarm: Alarms \cup {None}, upto: 0..MaxSets]])'
  <2>1. /\ canceling \in [Threads -> [alarm: Alarms \cup {None}, upto: 0..MaxSets]]
        /\ NotCanceling \in [alarm: Alarms \cup {None}, upto: 0..MaxSets]
        /\ \A a \in Alarms : [alarm |-> a, upto |-> sets] \in [alarm: Alarms \cup {None}, upto: 0..MaxSets]
    BY <1>1 DEF TypeOK, NotCanceling
  <2>2. \/ canceling' = canceling
        \/ \E t \in Threads : canceling' = [canceling EXCEPT ![t] = NotCanceling]
        \/ \E t \in Threads, a \in Alarms :
             canceling' = [canceling EXCEPT ![t] = [alarm |-> a, upto |-> sets]]
    BY Steps DEF Tick, DispatcherTakes, DispatcherDispatches, NothingReady, CleanupSignal,
                 CleanupStep, Enter, Ready, Call, CallReturns, CancelReturns, Cancel, Set, vars
  <2> QED
    BY <2>1, <2>2
<1>8. (canceled \in [Alarms -> 0..MaxSets])'
  <2>1. CASE canceled' = canceled
    BY <1>1, <2>1 DEF TypeOK
  <2>2. ASSUME NEW t \in Threads, CancelReturns(t) PROVE canceled' \in [Alarms -> 0..MaxSets]
    <3> DEFINE a == canceling[t].alarm
               m == Max({canceled[a], canceling[t].upto})
    <3>1. canceled' = canceled \/ canceled' = [canceled EXCEPT ![a] = m]
      BY <2>2 DEF CancelReturns
    <3>2. a \in Alarms => m \in 0..MaxSets
      <4>1. canceled \in [Alarms -> 0..MaxSets] /\ canceling[t].upto \in 0..MaxSets
        BY <1>1 DEF TypeOK
      <4> HIDE DEF a
      <4>2. a \in Alarms => canceled[a] \in 0..MaxSets
        BY <4>1
      <4> QED
        BY <1>1, <4>1, <4>2, GreaterOf
    <3> HIDE DEF m, a
    <3> QED
      BY <1>1, <3>1, <3>2 DEF TypeOK
  <2>3. canceled' = canceled \/ \E t \in Threads : CancelReturns(t)
    BY Steps DEF Tick, DispatcherTakes, DispatcherDispatches, NothingReady, CleanupSignal,
                 CleanupStep, Enter, Ready, Call, CallReturns, Cancel, Set, vars
  <2> QED
    BY <2>1, <2>2, <2>3
<1>9. (running \in [Callers -> [alarm: Alarms \cup {None}, callback: 0..MaxSets, early: BOOLEAN]])'
  <2> DEFINE Locals == [alarm: Alarms \cup {None}, callback: 0..MaxSets, early: BOOLEAN]
  <2>1. running \in [Callers -> Locals] /\ NoCallback \in Locals
    BY <1>1 DEF TypeOK, NoCallback, NULL
  <2>2. /\ mon.tasks \in Seq(Alarms) /\ mon.queue \in Seq(Alarms)
        /\ mon.alarm \in [Alarms -> AlarmT]
    BY <1>1 DEF TypeOK, Monitor
  <2>3. ASSUME NEW c \in Callers, Enter(c) PROVE running' \in [Callers -> Locals]
    <3>1. running' = running \/ (mon.tasks # <<>> /\ running' = [running EXCEPT ![c].alarm = Head(mon.tasks)])
      BY <2>3 DEF Enter
    <3> QED
      BY <2>1, <2>2, <3>1
  <2>4. ASSUME NEW c \in Callers, Ready(c) PROVE running' \in [Callers -> Locals]
    <3> DEFINE a == IF c = "default" THEN Head(mon.queue) ELSE running[c].alarm
               r == mon.alarm[a]
               e == r.callback # NULL /\ now < r.creation_time + r.period
    <3>1. /\ running' = [running EXCEPT ![c] =
                           [alarm |-> a, callback |-> r.callback, early |-> e]]
          /\ tpc[c] = "entered" /\ (c = "default" => mon.queue # <<>>)
      BY <2>4 DEF Ready
    <3>2. a \in Alarms
      <4>1. CASE c = "default"
        BY <2>2, <3>1, <4>1
      <4>2. CASE c = "mloop"
        <5>1. a \in Entered
          BY <3>1, <4>2 DEF Entered
        <5> QED
          BY <5>1 DEF IInv, Places, Waiting
      <4> QED
        BY <4>1, <4>2 DEF Callers
    <3> HIDE DEF a
    <3>3. r.callback \in 0..MaxSets
      BY <2>2, <3>2 DEF AlarmT
    <3> HIDE DEF r
    <3>4. [alarm |-> a, callback |-> r.callback, early |-> e] \in Locals
      BY <3>2, <3>3
    <3> QED
      BY <2>1, <3>1, <3>4
  <2>5. ASSUME NEW c \in Callers, CallReturns(c) PROVE running' \in [Callers -> Locals]
    BY <2>1, <2>5 DEF CallReturns
  <2>6. \/ running' = running
        \/ \E c \in Callers : Enter(c)
        \/ \E c \in Callers : Ready(c)
        \/ \E c \in Callers : CallReturns(c)
    BY Steps DEF Tick, DispatcherTakes, DispatcherDispatches, NothingReady, CleanupSignal,
                 CleanupStep, Call, CancelReturns, Cancel, Set, vars
  <2> QED
    BY <2>1, <2>3, <2>4, <2>5, <2>6
<1> QED
  BY <1>1, <1>2, <1>3, <1>4, <1>5, <1>6, <1>7, <1>8, <1>9 DEF TypeOK

-----------------------------------------------------------------------------
\* The effects as changes of the sets of alarms in the list (L), in the queue
\* (Q), in the message loop (T) and entered (E).
L == Range(mon.alarms)
Q == Range(mon.queue)
T == Range(mon.tasks)
E == Entered

StillUnrepeated == NoRepeat(mon'.alarms) /\ NoRepeat(mon'.queue) /\ NoRepeat(mon'.tasks)

LEMMA EntersSets ==
  ASSUME IInv, Enters
  PROVE  \E a : /\ a \in T /\ T' = T \ {a} /\ E = {} /\ E' = {a}
                /\ L' = L /\ Q' = Q /\ mon'.alarm = mon.alarm /\ StillUnrepeated
<1>1. mon.tasks \in Seq(Alarms) /\ Unrepeated(mon)
  BY Entering
<1>2. TailOf(Alarms, Tail(mon.tasks), mon.tasks)
  BY <1>1, Tailed DEF Enters
<1>3. /\ Range(mon.tasks) = Range(Tail(mon.tasks)) \cup {Head(mon.tasks)}
      /\ NoRepeat(Tail(mon.tasks)) /\ Head(mon.tasks) \notin Range(Tail(mon.tasks))
  BY <1>1, <1>2 DEF TailOf, Unrepeated
<1>4. /\ Head(mon.tasks) \in T /\ T' = T \ {Head(mon.tasks)} /\ StillUnrepeated
      /\ L' = L /\ Q' = Q
  BY <1>1, <1>3 DEF Enters, T, L, Q, StillUnrepeated, Unrepeated
<1> QED
  BY <1>4, Zenon DEF Enters, E

LEMMA ReadiesSets ==
  ASSUME IInv, NEW a, Readies(a)
  PROVE  /\ \/ a \in Q /\ Q' = Q \ {a} /\ E' = E
            \/ E = {a} /\ E' = {} /\ Q' = Q
         /\ a \in Alarms /\ T' = T /\ L' = L /\ StillUnrepeated
         /\ mon'.alarm = [mon.alarm EXCEPT ![a] = IF IsPeriodic(@.kind) THEN @ ELSE Idled(@)]
<1>1. mon.queue \in Seq(Alarms) /\ Unrepeated(mon)
  BY Entering
<1>2. T' = T /\ L' = L /\ NoRepeat(mon'.alarms) /\ NoRepeat(mon'.tasks)
  BY <1>1 DEF Readies, T, L, Unrepeated
<1>3. CASE mon.queue # <<>> /\ a = Head(mon.queue) /\ mon'.queue = Tail(mon.queue) /\ Entered' = Entered
  <2>1. TailOf(Alarms, Tail(mon.queue), mon.queue)
    BY <1>1, <1>3, Tailed
  <2>2. a \in Q /\ Q' = Q \ {a} /\ NoRepeat(mon'.queue)
    BY <1>1, <1>3, <2>1 DEF TailOf, Unrepeated, Q
  <2> QED
    BY <1>2, <1>3, <2>2, Zenon DEF Readies, E, StillUnrepeated
<1>4. CASE Entered = {a} /\ Entered' = {} /\ mon'.queue = mon.queue
  BY <1>1, <1>2, <1>4, Zenon DEF Readies, E, Q, StillUnrepeated, Unrepeated
<1> QED
  BY <1>3, <1>4, Zenon DEF Readies

LEMMA CancelsSets ==
  ASSUME NEW a, Cancels(a)
  PROVE  /\ L' = L \ {a} /\ Q' = Q \ {a} /\ T' = T \ {a} /\ a \notin E /\ E' = E
         /\ a \in Alarms /\ StillUnrepeated
         /\ mon'.alarm = [mon.alarm EXCEPT ![a] = Idled(@)]
  BY Zenon DEF Cancels, CancelDone, Dropped, L, Q, T, E, StillUnrepeated

LEMMA SetsSets ==
  ASSUME NEW a, NEW interval, NEW mloop, Sets(a, interval, mloop)
  PROVE  /\ L' = L \cup {a} /\ Q' = Q \ {a} /\ T' = T \ {a} /\ a \notin E /\ E' = E
         /\ a \in Alarms /\ StillUnrepeated
         /\ mon'.alarm = [mon.alarm EXCEPT ![a] = Fresh(@, interval, mloop, sets + 1)]
  BY Zenon DEF Sets, SetDone, Dropped, L, Q, T, E, StillUnrepeated

LEMMA DispatchesSets ==
  ASSUME IInv, NEW a, Dispatches(a)
  PROVE  /\ a \in L /\ a \in Alarms /\ E' = E /\ StillUnrepeated
         /\ L' = (L \ {a}) \cup IF IsPeriodic(mon.alarm[a].kind) THEN {a} ELSE {}
         /\ \/ OnMloop(mon.alarm[a].kind) /\ T' = T \cup {a} /\ Q' = Q
            \/ ~OnMloop(mon.alarm[a].kind) /\ Q' = Q \cup {a} /\ T' = T
         /\ mon'.alarm = [mon.alarm EXCEPT ![a] = Onward(mon.alarm[a])]
<1>1. /\ a \in L /\ a \in Alarms /\ E' = E /\ NoRepeat(mon'.alarms)
      /\ L' = (L \ {a}) \cup IF IsPeriodic(mon.alarm[a].kind) THEN {a} ELSE {}
      /\ mon'.alarm = [mon.alarm EXCEPT ![a] = Onward(mon.alarm[a])]
  BY Zenon DEF Dispatches, DispatchDone, L, E
<1>2. Unrepeated(mon)
  BY Entering
<1>3. PICK q : \/ /\ OnMloop(mon.alarm[a].kind)
                  /\ Dropped(Alarms, q, mon.tasks, a) /\ mon'.tasks = Append(q, a)
                  /\ mon'.queue = mon.queue
               \/ /\ ~OnMloop(mon.alarm[a].kind)
                  /\ Dropped(Alarms, q, mon.queue, a) /\ mon'.queue = Append(q, a)
                  /\ mon'.tasks = mon.tasks
  BY Zenon DEF Dispatches, DispatchDone
<1>4. q \in Seq(Alarms) /\ NoRepeat(q) /\ a \notin Range(q)
  BY <1>3 DEF Dropped
<1>5. AppendedTo(Alarms, Append(q, a), q, a)
  BY <1>1, <1>4, Appended
<1>6. Range(Append(q, a)) = Range(q) \cup {a} /\ NoRepeat(Append(q, a))
  BY <1>4, <1>5 DEF AppendedTo
<1>7. CASE /\ OnMloop(mon.alarm[a].kind)
           /\ Dropped(Alarms, q, mon.tasks, a) /\ mon'.tasks = Append(q, a)
           /\ mon'.queue = mon.queue
  <2>1. T' = T \cup {a} /\ Q' = Q
    BY <1>6, <1>7 DEF Dropped, T, Q
  <2>2. StillUnrepeated
    BY <1>1, <1>2, <1>6, <1>7, Zenon DEF StillUnrepeated, Unrepeated
  <2> QED
    BY <1>1, <1>7, <2>1, <2>2, Zenon
<1>8. CASE /\ ~OnMloop(mon.alarm[a].kind)
           /\ Dropped(Alarms, q, mon.queue, a) /\ mon'.queue = Append(q, a)
           /\ mon'.tasks = mon.tasks
  <2>1. Q' = Q \cup {a} /\ T' = T
    BY <1>6, <1>8 DEF Dropped, T, Q
  <2>2. StillUnrepeated
    BY <1>1, <1>2, <1>6, <1>8, Zenon DEF StillUnrepeated, Unrepeated
  <2> QED
    BY <1>1, <1>8, <2>1, <2>2, Zenon
<1> QED
  BY <1>3, <1>7, <1>8, Zenon

LEMMA ClearsSets ==
  ASSUME IInv, Clears
  PROVE  /\ L' \subseteq L /\ Q' \subseteq Q /\ T' = T /\ E' = E /\ StillUnrepeated
         /\ mon'.alarm = mon.alarm
<1>1. Unrepeated(mon)
  BY Entering
<1> DEFINE e == <<>>
<1>2. NoRepeat(e) /\ Range(e) = {}
  <2>1. e \in Seq(Alarms) /\ Len(e) = 0
    OBVIOUS
  <2> HIDE DEF e
  <2>2. Listed(Alarms, e)
    BY <2>1, ElementsOf
  <2> QED
    BY <2>1, <2>2 DEF Listed
<1> HIDE DEF e
<1>3. CASE mon'.queue = e /\ mon'.alarms = mon.alarms
  BY <1>1, <1>2, <1>3 DEF Clears, L, Q, T, E, StillUnrepeated, Unrepeated
<1>4. CASE mon'.alarms = e /\ mon'.queue = mon.queue
  BY <1>1, <1>2, <1>4 DEF Clears, L, Q, T, E, StillUnrepeated, Unrepeated
<1> QED
  BY <1>3, <1>4 DEF Clears, e

LEMMA RestsSets ==
  ASSUME IInv, Rests
  PROVE  L' = L /\ Q' = Q /\ T' = T /\ E' = E /\ StillUnrepeated /\ mon'.alarm = mon.alarm
<1>1. Unrepeated(mon)
  BY Entering
<1> QED
  BY <1>1 DEF Rests, ListsRest, L, Q, T, E, StillUnrepeated, Unrepeated

-----------------------------------------------------------------------------
\* Places, of the sets: f are the alarms, l those in the list, q in the queue,
\* t in the message loop, e entered.
PlacesOf(f, l, q, t, e) ==
  /\ \A a \in Alarms : SetRight(f[a])
  /\ q \cup t \cup e \subseteq Alarms
  /\ \A a \in l \cup q \cup t \cup e : f[a].callback # NULL
  /\ \A a \in q \cup t \cup e : ~IsPeriodic(f[a].kind) => a \notin l
  /\ \A a \in q : ~OnMloop(f[a].kind)
  /\ \A a \in t \cup e : OnMloop(f[a].kind)
  /\ \A a \in e : ~IsPeriodic(f[a].kind) => a \notin t

\* Every alarm but a stays where it is, or leaves.
Stay(a, l, q, t, e, l2, q2, t2, e2) ==
  \A b : b # a => /\ b \in l2 => b \in l
                  /\ b \in q2 => b \in q
                  /\ b \in t2 => b \in t
                  /\ b \in e2 => b \in e

\* Alarm a, which is now r, is where it may be.
RightPlace(a, r, l, q, t, e) ==
  /\ SetRight(r)
  /\ a \in l \cup q \cup t \cup e => r.callback # NULL
  /\ a \in q \cup t \cup e /\ ~IsPeriodic(r.kind) => a \notin l
  /\ a \in q => ~OnMloop(r.kind)
  /\ a \in t \cup e => OnMloop(r.kind)
  /\ a \in t /\ a \in e => IsPeriodic(r.kind)

LEMMA Placing ==
  ASSUME NEW f, NEW l, NEW q, NEW t, NEW e, PlacesOf(f, l, q, t, e), NEW g,
         NEW l2, NEW q2, NEW t2, NEW e2, NEW a \in Alarms,
         Stay(a, l, q, t, e, l2, q2, t2, e2), RightPlace(a, g[a], l2, q2, t2, e2),
         \A b \in Alarms : b # a => g[b] = f[b], l \subseteq Alarms
  PROVE  PlacesOf(g, l2, q2, t2, e2)
<1>1. \A b \in Alarms : SetRight(g[b])
  BY Zenon DEF PlacesOf, RightPlace
<1>2. q2 \cup t2 \cup e2 \subseteq Alarms
  BY DEF PlacesOf, Stay
<1>3. l2 \subseteq Alarms
  BY DEF Stay
<1>4. ASSUME NEW b \in l2 \cup q2 \cup t2 \cup e2 PROVE g[b].callback # NULL
  <2>1. CASE b = a
    BY <1>4, <2>1 DEF RightPlace
  <2>2. CASE b # a
    <3>1. b \in l \cup q \cup t \cup e /\ g[b] = f[b]
      BY <1>2, <1>3, <1>4, <2>2 DEF Stay
    <3> QED
      BY <3>1 DEF PlacesOf
  <2> QED
    BY <2>1, <2>2
<1>5. ASSUME NEW b \in q2 \cup t2 \cup e2, ~IsPeriodic(g[b].kind) PROVE b \notin l2
  <2>1. CASE b = a
    BY <1>5, <2>1 DEF RightPlace
  <2>2. CASE b # a
    <3>1. b \in q \cup t \cup e /\ g[b] = f[b] /\ (b \in l2 => b \in l)
      BY <1>2, <1>5, <2>2 DEF Stay
    <3> QED
      BY <1>5, <3>1 DEF PlacesOf
  <2> QED
    BY <2>1, <2>2
<1>6. ASSUME NEW b \in q2 PROVE ~OnMloop(g[b].kind)
  <2>1. CASE b = a
    BY <1>6, <2>1 DEF RightPlace
  <2>2. CASE b # a
    BY <1>2, <1>6, <2>2 DEF Stay, PlacesOf
  <2> QED
    BY <2>1, <2>2
<1>7. ASSUME NEW b \in t2 \cup e2 PROVE OnMloop(g[b].kind)
  <2>1. CASE b = a
    BY <1>7, <2>1 DEF RightPlace
  <2>2. CASE b # a
    BY <1>2, <1>7, <2>2 DEF Stay, PlacesOf
  <2> QED
    BY <2>1, <2>2
<1>8. ASSUME NEW b \in e2, ~IsPeriodic(g[b].kind) PROVE b \notin t2
  <2>1. CASE b = a
    BY <1>8, <2>1 DEF RightPlace
  <2>2. CASE b # a
    <3>1. b \in e /\ g[b] = f[b] /\ (b \in t2 => b \in t)
      BY <1>2, <1>8, <2>2 DEF Stay
    <3> QED
      BY <1>8, <3>1 DEF PlacesOf
  <2> QED
    BY <2>1, <2>2
<1> QED
  BY <1>1, <1>2, <1>4, <1>5, <1>6, <1>7, <1>8 DEF PlacesOf

LEMMA PlacedAt ==
  /\ Places <=> PlacesOf(mon.alarm, L, Q, T, E) /\ Unrepeated(mon)
  /\ Places' <=> PlacesOf(mon'.alarm, L', Q', T', E') /\ StillUnrepeated
<1>1. Places <=> PlacesOf(mon.alarm, L, Q, T, E) /\ Unrepeated(mon)
  BY Zenon DEF Places, PlacesOf, L, Q, T, E, Waiting, Unrepeated
<1>2. Places' <=> PlacesOf(mon'.alarm, L', Q', T', E') /\ StillUnrepeated
  BY Zenon DEF Places, PlacesOf, L, Q, T, E, Waiting, StillUnrepeated
<1> QED
  BY <1>1, <1>2

LEMMA Records ==
  ASSUME NEW r \in AlarmT
  PROVE  /\ Idled(r).kind = r.kind /\ Idled(r).callback = NULL
         /\ Idled(r).creation_time = r.creation_time /\ Idled(r).period = r.period
         /\ Onward(r).kind = r.kind /\ Onward(r).callback = r.callback
         /\ Onward(r).creation_time = r.creation_time /\ Onward(r).period = r.period
         /\ Onward(r).queued_on = r.queued_on /\ Onward(r).for_msg_loop = r.for_msg_loop
         /\ Onward(r).deadline = IF IsPeriodic(r.kind) THEN NextDeadline(r) ELSE r.deadline
  BY DEF AlarmT, Idled, Onward

LEMMA PlacesStep ==
  ASSUME IInv, [Next]_vars, raced' = {}
  PROVE  Places'
<1> DEFINE f == mon.alarm
           g == mon'.alarm
           After == PlacesOf(g, L', Q', T', E') /\ StillUnrepeated
<1>1. PlacesOf(f, L, Q, T, E) /\ f \in [Alarms -> AlarmT] /\ L \subseteq Alarms
  <2>1. Places /\ f \in [Alarms -> AlarmT] /\ mon.alarms \in Seq(Alarms)
    BY Entering DEF IInv
  <2>2. Listed(Alarms, mon.alarms)
    BY <2>1, ElementsOf
  <2> QED
    BY <2>1, <2>2, PlacedAt DEF Listed, L
<1>2. \A a \in Alarms : f[a] \in AlarmT
  BY <1>1
<1> SUFFICES After
  BY PlacedAt, Zenon
<1>3. ASSUME NEW a \in Alarms, NEW r, g = [f EXCEPT ![a] = r]
      PROVE  g[a] = r /\ \A b \in Alarms : b # a => g[b] = f[b]
  BY <1>1, <1>3
<1>4. ASSUME NEW a, Cancels(a) PROVE After
  <2>1. /\ L' = L \ {a} /\ Q' = Q \ {a} /\ T' = T \ {a} /\ a \notin E /\ E' = E
        /\ a \in Alarms /\ StillUnrepeated /\ g = [f EXCEPT ![a] = Idled(f[a])]
    BY <1>4, CancelsSets, Zenon
  <2>2. g[a] = Idled(f[a]) /\ \A b \in Alarms : b # a => g[b] = f[b]
    BY <1>3, <2>1
  <2>3. g[a].callback = NULL
    BY <1>2, <2>1, <2>2, Records
  <2> HIDE DEF f, g
  <2>4. Stay(a, L, Q, T, E, L', Q', T', E')
    BY <2>1 DEF Stay
  <2>5. RightPlace(a, g[a], L', Q', T', E')
    BY <2>1, <2>3 DEF RightPlace, SetRight
  <2> QED
    BY <1>1, <2>1, <2>2, <2>4, <2>5, Placing
<1>5. ASSUME NEW a, Readies(a) PROVE After
  <2>1. /\ \/ a \in Q /\ Q' = Q \ {a} /\ E' = E
           \/ E = {a} /\ E' = {} /\ Q' = Q
        /\ a \in Alarms /\ T' = T /\ L' = L /\ StillUnrepeated
        /\ g = [f EXCEPT ![a] = IF IsPeriodic(f[a].kind) THEN f[a] ELSE Idled(f[a])]
    BY <1>5, ReadiesSets, Zenon
  <2>2. /\ g[a] = IF IsPeriodic(f[a].kind) THEN f[a] ELSE Idled(f[a])
        /\ \A b \in Alarms : b # a => g[b] = f[b]
    BY <1>3, <2>1
  <2>3. ~IsPeriodic(f[a].kind) => g[a].callback = NULL /\ g[a].kind = f[a].kind
    BY <1>2, <2>1, <2>2, Records
  <2> HIDE DEF f, g
  <2>4. Stay(a, L, Q, T, E, L', Q', T', E')
    BY <2>1 DEF Stay
  <2>5. RightPlace(a, g[a], L', Q', T', E')
    <3>1. CASE IsPeriodic(f[a].kind)
      <4>1. g[a] = f[a] /\ a \in Q \cup E /\ Q' \subseteq Q /\ E' \subseteq E
        BY <2>1, <2>2, <3>1
      <4>2. SetRight(f[a]) /\ f[a].callback # NULL
        BY <1>1, <2>1, <4>1, Zenon DEF PlacesOf
      <4> QED
        BY <1>1, <2>1, <3>1, <4>1, <4>2 DEF PlacesOf, RightPlace
    <3>2. CASE ~IsPeriodic(f[a].kind)
      <4>1. a \notin L /\ a \notin Q' /\ a \notin T /\ a \notin E'
        BY <1>1, <2>1, <3>2 DEF PlacesOf
      <4> QED
        BY <2>1, <2>3, <3>2, <4>1 DEF RightPlace, SetRight
    <3> QED
      BY <3>1, <3>2
  <2> QED
    BY <1>1, <2>1, <2>2, <2>4, <2>5, Placing
<1>6. ASSUME NEW a, NEW interval, NEW mloop, Sets(a, interval, mloop) PROVE After
  <2>1. /\ L' = L \cup {a} /\ Q' = Q \ {a} /\ T' = T \ {a} /\ a \notin E /\ E' = E
        /\ a \in Alarms /\ StillUnrepeated
        /\ g = [f EXCEPT ![a] = Fresh(f[a], interval, mloop, sets + 1)]
    BY <1>6, SetsSets, Zenon
  <2>2. g[a] = Fresh(f[a], interval, mloop, sets + 1) /\ \A b \in Alarms : b # a => g[b] = f[b]
    BY <1>3, <2>1
  <2>3. interval \in Intervals /\ mloop \in BOOLEAN /\ (mloop <=> OnMloop(f[a].kind))
    BY <1>6 DEF Sets
  <2>4. sets + 1 # NULL
    BY DEF IInv, TypeOK, NULL
  <2>5. /\ g[a].callback # NULL /\ g[a].period \in Intervals
        /\ g[a].kind = f[a].kind /\ g[a].for_msg_loop = mloop
        /\ g[a].queued_on = IF mloop THEN "none" ELSE "default"
    BY <2>2, <2>3, <2>4 DEF Fresh
  <2> HIDE DEF f, g
  <2>6. Stay(a, L, Q, T, E, L', Q', T', E')
    BY <2>1 DEF Stay
  <2>7. SetRight(g[a])
    BY <2>3, <2>5, Zenon DEF SetRight
  <2>8. RightPlace(a, g[a], L', Q', T', E')
    BY <2>1, <2>5, <2>7 DEF RightPlace
  <2> QED
    BY <1>1, <2>1, <2>2, <2>6, <2>8, Placing
<1>7. ASSUME NEW a, Dispatches(a) PROVE After
  <2>1. /\ a \in L /\ a \in Alarms /\ E' = E /\ StillUnrepeated
        /\ L' = (L \ {a}) \cup IF IsPeriodic(f[a].kind) THEN {a} ELSE {}
        /\ \/ OnMloop(f[a].kind) /\ T' = T \cup {a} /\ Q' = Q
           \/ ~OnMloop(f[a].kind) /\ Q' = Q \cup {a} /\ T' = T
        /\ g = [f EXCEPT ![a] = Onward(f[a])]
    BY <1>7, DispatchesSets, Zenon
  <2>2. g[a] = Onward(f[a]) /\ \A b \in Alarms : b # a => g[b] = f[b]
    BY <1>3, <2>1
  <2>3. /\ g[a].callback = f[a].callback /\ g[a].kind = f[a].kind /\ g[a].period = f[a].period
        /\ g[a].for_msg_loop = f[a].for_msg_loop /\ g[a].queued_on = f[a].queued_on
    BY <1>2, <2>1, <2>2, Records
  <2> HIDE DEF f, g
  <2>4. Stay(a, L, Q, T, E, L', Q', T', E')
    BY <2>1 DEF Stay
  <2>5. SetRight(g[a]) /\ f[a].callback # NULL
    BY <1>1, <2>1, <2>3, Zenon DEF SetRight, PlacesOf
  <2>6. ~IsPeriodic(f[a].kind) => a \notin Q /\ a \notin T /\ a \notin E
    BY <1>1, <2>1 DEF PlacesOf
  <2>7. /\ a \in Q => ~OnMloop(f[a].kind)
        /\ a \in T \cup E => OnMloop(f[a].kind)
    BY <1>1 DEF PlacesOf
  <2>8. RightPlace(a, g[a], L', Q', T', E')
    <3>1. CASE OnMloop(f[a].kind)
      BY <2>1, <2>3, <2>5, <2>6, <2>7, <3>1 DEF RightPlace
    <3>2. CASE ~OnMloop(f[a].kind)
      BY <2>1, <2>3, <2>5, <2>6, <2>7, <3>2 DEF RightPlace
    <3> QED
      BY <3>1, <3>2
  <2> QED
    BY <1>1, <2>1, <2>2, <2>4, <2>8, Placing
<1>8. CASE Clears
  <2>1. /\ L' \subseteq L /\ Q' \subseteq Q /\ T' = T /\ E' = E /\ StillUnrepeated /\ g = f
    BY <1>8, ClearsSets
  <2> HIDE DEF f, g
  <2> QED
    BY <1>1, <2>1 DEF PlacesOf
<1>9. CASE Rests
  <2>1. L' = L /\ Q' = Q /\ T' = T /\ E' = E /\ StillUnrepeated /\ g = f
    BY <1>9, RestsSets
  <2> QED
    BY <1>1, <2>1
<1>10. CASE Enters
  <2>1. PICK a : /\ a \in T /\ T' = T \ {a} /\ E = {} /\ E' = {a}
                 /\ L' = L /\ Q' = Q /\ g = f /\ StillUnrepeated
    BY <1>10, EntersSets, Zenon
  <2> HIDE DEF f, g
  <2> QED
    BY <1>1, <2>1 DEF PlacesOf
<1> QED
  BY Effects, <1>4, <1>5, <1>6, <1>7, <1>8, <1>9, <1>10, Zenon DEF SomeEffect

-----------------------------------------------------------------------------
LEMMA ClockStep ==
  ASSUME IInv, [Next]_vars, raced' = {}
  PROVE  now \in Nat \ {0} /\ now' \in Nat \ {0} /\ now <= now'
<1>1. now \in Nat \ {0}
  BY Entering
<1>2. now' = now \/ now' = now + 1
  BY Steps DEF Tick, DispatcherTakes, DispatcherDispatches, NothingReady, CleanupSignal,
               CleanupStep, Enter, Ready, Call, CallReturns, CancelReturns, Cancel, Set, vars
<1> QED
  BY <1>1, <1>2

\* The next deadline of a periodic alarm is after now.
LEMMA LaterDeadline ==
  ASSUME now \in Nat, NEW r \in AlarmT, r.period \in Nat
  PROVE  NextDeadline(r) \in Int /\ NextDeadline(r) >= now
<1> DEFINE p == r.period
           x == now - r.creation_time
           m == x % p
<1>1. p \in Nat /\ r.creation_time \in Nat
  BY DEF AlarmT
<1>2. x \in Int
  BY <1>1
<1>3. NextDeadline(r) = now + p - (IF IsPeriodic(r.kind) /\ p # 0 THEN m ELSE 0)
  BY DEF NextDeadline
<1> HIDE DEF p, x
<1>4. p # 0 => m \in 0..(p - 1)
  BY <1>1, <1>2, OnGrid
<1> HIDE DEF m
<1> QED
  BY <1>1, <1>3, <1>4

\* The alarms in l and the alarms in w are not early at time n.
Timely(n, f, l, w) ==
  /\ \A a \in l : f[a].deadline >= Due(f[a])
  /\ \A a \in w : n >= Due(f[a])

LEMMA StillTimely ==
  ASSUME NEW n \in Nat, NEW m \in Nat, n <= m, NEW f \in [Alarms -> AlarmT], NEW g,
         NEW l, NEW w, NEW l2, NEW w2, l \subseteq Alarms, w \subseteq Alarms,
         Timely(n, f, l, w), NEW a,
         \A b : b # a => (b \in l2 => b \in l) /\ (b \in w2 => b \in w),
         \A b \in Alarms : b # a => g[b] = f[b],
         a \in l2 => g[a].deadline >= Due(g[a]),
         a \in w2 => m >= Due(g[a])
  PROVE  Timely(m, g, l2, w2)
<1>1. ASSUME NEW b \in l2 PROVE g[b].deadline >= Due(g[b])
  BY <1>1 DEF Timely
<1>2. ASSUME NEW b \in w2 PROVE m >= Due(g[b])
  <2>1. CASE b # a
    <3>1. b \in w /\ b \in Alarms /\ g[b] = f[b]
      BY <1>2, <2>1
    <3>2. n >= Due(f[b]) /\ f[b] \in AlarmT
      BY <3>1 DEF Timely
    <3>3. Due(f[b]) \in Nat
      BY <3>2 DEF Due, AlarmT
    <3> QED
      BY <3>1, <3>2, <3>3
  <2> QED
    BY <1>2, <2>1
<1> QED
  BY <1>1, <1>2 DEF Timely

\* The lists: every effect but Rests, Clears and Enters is about one alarm.
LEMMA TimelyStep ==
  ASSUME IInv, [Next]_vars, raced' = {}
  PROVE  Timely(now', mon'.alarm, L', Waiting')
<1> DEFINE f == mon.alarm
           g == mon'.alarm
           After == Timely(now', g, L', Waiting')
<1>1. now \in Nat /\ now' \in Nat /\ now <= now'
  BY ClockStep
<1>2. f \in [Alarms -> AlarmT] /\ L \subseteq Alarms /\ Timely(now, f, L, Waiting) /\ Waiting \subseteq Alarms
  <2>1. f \in [Alarms -> AlarmT] /\ mon.alarms \in Seq(Alarms)
    BY Entering
  <2>2. Listed(Alarms, mon.alarms)
    BY <2>1, ElementsOf
  <2>3. Timely(now, f, L, Waiting) /\ Waiting \subseteq Alarms
    BY DEF IInv, Punctual, Places, Timely, L
  <2> QED
    BY <2>1, <2>2, <2>3 DEF Listed, L
<1>3. \A a \in Alarms : f[a] \in AlarmT
  BY <1>2
<1>4. Waiting = Q \cup T \cup E /\ Waiting' = Q' \cup T' \cup E'
  BY Zenon DEF Waiting, Q, T, E
<1>5. /\ \A a \in L' \cup Waiting' : g[a].callback # NULL
      /\ \A a \in Waiting' : ~IsPeriodic(g[a].kind) => a \notin L'
  BY PlacesStep DEF Places, L
<1>6. ASSUME NEW a \in Alarms, NEW r, g = [f EXCEPT ![a] = r]
      PROVE  g[a] = r /\ \A b \in Alarms : b # a => g[b] = f[b]
  BY <1>2, <1>6
<1>7. ASSUME NEW a \in Alarms, \A b \in Alarms : b # a => g[b] = f[b],
             \A b : b # a => (b \in L' => b \in L) /\ (b \in Waiting' => b \in Waiting),
             a \in L' => g[a].deadline >= Due(g[a]), a \in Waiting' => now' >= Due(g[a])
      PROVE  After
  <2> HIDE DEF f, g
  <2> QED
    BY <1>1, <1>2, <1>7, StillTimely
<1>8. ASSUME NEW a, Cancels(a) PROVE After
  <2>1. /\ L' = L \ {a} /\ Q' = Q \ {a} /\ T' = T \ {a} /\ a \notin E /\ E' = E
        /\ a \in Alarms /\ g = [f EXCEPT ![a] = Idled(f[a])]
    BY <1>8, CancelsSets, Zenon
  <2>2. \A b \in Alarms : b # a => g[b] = f[b]
    BY <1>6, <2>1
  <2> HIDE DEF f, g
  <2>3. /\ \A b : b # a => (b \in L' => b \in L) /\ (b \in Waiting' => b \in Waiting)
        /\ a \notin L' /\ a \notin Waiting'
    BY <1>4, <2>1
  <2> QED
    BY <1>7, <2>1, <2>2, <2>3
<1>9. ASSUME NEW a, Readies(a) PROVE After
  <2>1. /\ \/ a \in Q /\ Q' = Q \ {a} /\ E' = E
           \/ E = {a} /\ E' = {} /\ Q' = Q
        /\ a \in Alarms /\ T' = T /\ L' = L
        /\ g = [f EXCEPT ![a] = IF IsPeriodic(f[a].kind) THEN f[a] ELSE Idled(f[a])]
    BY <1>9, ReadiesSets, Zenon
  <2>2. /\ g[a] = IF IsPeriodic(f[a].kind) THEN f[a] ELSE Idled(f[a])
        /\ \A b \in Alarms : b # a => g[b] = f[b]
    BY <1>6, <2>1
  <2>3. ~IsPeriodic(f[a].kind) => g[a].callback = NULL
    BY <1>3, <2>1, <2>2, Records
  <2> HIDE DEF f, g
  <2>4. /\ \A b : b # a => (b \in L' => b \in L) /\ (b \in Waiting' => b \in Waiting)
        /\ (a \in L' => a \in L) /\ (a \in Waiting' => a \in Waiting)
    BY <1>4, <2>1
  <2>5. CASE IsPeriodic(f[a].kind)
    <3>1. a \in L' => g[a].deadline >= Due(g[a])
      BY <1>2, <2>2, <2>4, <2>5 DEF Timely
    <3>2. Due(f[a]) \in Nat
      BY <1>3, <2>1 DEF Due, AlarmT
    <3>3. a \in Waiting' => now' >= Due(g[a])
      BY <1>1, <1>2, <2>2, <2>4, <2>5, <3>2 DEF Timely
    <3> QED
      BY <1>7, <2>1, <2>2, <2>4, <3>1, <3>3
  <2>6. CASE ~IsPeriodic(f[a].kind)
    <3>1. a \notin L' /\ a \notin Waiting'
      BY <1>5, <2>3, <2>6
    <3> QED
      BY <1>7, <2>1, <2>2, <2>4, <3>1
  <2> QED
    BY <2>5, <2>6
<1>10. ASSUME NEW a, NEW interval, NEW mloop, Sets(a, interval, mloop) PROVE After
  <2>1. /\ L' = L \cup {a} /\ Q' = Q \ {a} /\ T' = T \ {a} /\ a \notin E /\ E' = E
        /\ a \in Alarms /\ g = [f EXCEPT ![a] = Fresh(f[a], interval, mloop, sets + 1)]
    BY <1>10, SetsSets, Zenon
  <2>2. g[a] = Fresh(f[a], interval, mloop, sets + 1) /\ \A b \in Alarms : b # a => g[b] = f[b]
    BY <1>6, <2>1
  <2>3. interval \in Nat
    BY <1>10, AlarmAssumption DEF Sets
  <2>4. g[a].deadline = now + interval /\ g[a].creation_time = now /\ g[a].period = interval
    BY <2>2 DEF Fresh
  <2> HIDE DEF f, g
  <2>5. g[a].deadline >= Due(g[a])
    BY <1>1, <2>3, <2>4 DEF Due
  <2>6. /\ \A b : b # a => (b \in L' => b \in L) /\ (b \in Waiting' => b \in Waiting)
        /\ a \notin Waiting'
    BY <1>4, <2>1
  <2> QED
    BY <1>7, <2>1, <2>2, <2>5, <2>6
<1>11. ASSUME NEW a, Dispatches(a) PROVE After
  <2>1. /\ a \in L /\ a \in Alarms /\ E' = E
        /\ L' = (L \ {a}) \cup IF IsPeriodic(f[a].kind) THEN {a} ELSE {}
        /\ \/ OnMloop(f[a].kind) /\ T' = T \cup {a} /\ Q' = Q
           \/ ~OnMloop(f[a].kind) /\ Q' = Q \cup {a} /\ T' = T
        /\ g = [f EXCEPT ![a] = Onward(f[a])]
    BY <1>11, DispatchesSets, Zenon
  <2>2. g[a] = Onward(f[a]) /\ \A b \in Alarms : b # a => g[b] = f[b]
    BY <1>6, <2>1
  <2>3. /\ g[a].creation_time = f[a].creation_time /\ g[a].period = f[a].period
        /\ g[a].deadline = IF IsPeriodic(f[a].kind) THEN NextDeadline(f[a]) ELSE f[a].deadline
    BY <1>3, <2>1, <2>2, Records
  <2>4. f[a].period \in Nat /\ f[a].deadline <= now
    BY <1>11, <2>1, Entering DEF Dispatches, DispatchDone, L
  <2>5. f[a].deadline >= Due(f[a]) /\ f[a].deadline \in Nat /\ Due(f[a]) \in Nat
    BY <1>2, <1>3, <2>1 DEF Timely, AlarmT, Due
  <2>6. NextDeadline(f[a]) \in Int /\ NextDeadline(f[a]) >= now
    BY <1>1, <1>3, <2>1, <2>4, LaterDeadline
  <2> HIDE DEF f, g
  <2>7. Due(g[a]) = Due(f[a])
    BY <2>3 DEF Due
  <2>8. g[a].deadline >= Due(g[a]) /\ now' >= Due(g[a])
    BY <1>1, <2>3, <2>4, <2>5, <2>6, <2>7
  <2>9. \A b : b # a => (b \in L' => b \in L) /\ (b \in Waiting' => b \in Waiting)
    BY <1>4, <2>1
  <2> QED
    BY <1>7, <2>1, <2>2, <2>8, <2>9
<1>12. CASE L' \subseteq L /\ Waiting' \subseteq Waiting /\ g = f
  <2> HIDE DEF f, g
  <2>1. \A b \in Waiting' : b \in Alarms /\ f[b] \in AlarmT
    BY <1>2, <1>3, <1>12
  <2>2. \A b \in Waiting' : Due(f[b]) \in Nat
    BY <2>1 DEF Due, AlarmT
  <2>3. \A b \in L' : f[b].deadline >= Due(f[b])
    BY <1>2, <1>12 DEF Timely
  <2>4. ASSUME NEW b \in Waiting' PROVE now' >= Due(f[b])
    <3>1. now >= Due(f[b]) /\ Due(f[b]) \in Nat
      BY <1>2, <1>12, <2>2, <2>4 DEF Timely
    <3> QED
      BY <1>1, <3>1
  <2> QED
    BY <1>12, <2>3, <2>4 DEF Timely, f, g
<1>13. CASE Clears
  BY <1>4, <1>12, <1>13, ClearsSets
<1>14. CASE Rests
  BY <1>4, <1>12, <1>14, RestsSets
<1>15. CASE Enters
  <2>1. PICK a : /\ a \in T /\ T' = T \ {a} /\ E = {} /\ E' = {a} /\ L' = L /\ Q' = Q /\ g = f
    BY <1>15, EntersSets, Zenon
  <2> HIDE DEF f, g
  <2> QED
    BY <1>4, <1>12, <2>1
<1> QED
  BY Effects, <1>8, <1>9, <1>10, <1>11, <1>13, <1>14, <1>15, Zenon DEF SomeEffect

\* A callback thread takes its alarm from those that wait for it.
LEMMA Taking ==
  ASSUME IInv, NEW c \in Callers, Ready(c)
  PROVE  \E a \in Waiting : running'[c] = [alarm |-> a, callback |-> mon.alarm[a].callback,
                                           early |-> FALSE]
<1> DEFINE a == IF c = "default" THEN Head(mon.queue) ELSE running[c].alarm
           r == mon.alarm[a]
           e == r.callback # NULL /\ now < r.creation_time + r.period
<1>1. /\ running' = [running EXCEPT ![c] = [alarm |-> a, callback |-> r.callback, early |-> e]]
      /\ tpc[c] = "entered" /\ (c = "default" => mon.queue # <<>>)
  BY DEF Ready
<1>2. running \in [Callers -> [alarm: Alarms \cup {None}, callback: 0..MaxSets, early: BOOLEAN]]
  BY DEF IInv, TypeOK
<1>3. a \in Waiting
  <2>1. CASE c = "default"
    <3>1. TailOf(Alarms, Tail(mon.queue), mon.queue)
      BY <1>1, <2>1, Entering, Tailed
    <3> QED
      BY <2>1, <3>1 DEF TailOf, Waiting
  <2>2. CASE c = "mloop"
    BY <1>1, <2>2 DEF Waiting, Entered
  <2> QED
    BY <2>1, <2>2 DEF Callers
<1> HIDE DEF a
<1>4. now >= Due(r) /\ r \in AlarmT /\ now \in Nat
  <2>1. a \in Alarms /\ now >= Due(r)
    BY <1>3 DEF IInv, Punctual, Places
  <2> QED
    BY <2>1, Entering
<1>5. e = FALSE
  BY <1>4 DEF Due, AlarmT
<1>6. running'[c] = [alarm |-> a, callback |-> r.callback, early |-> e]
  BY <1>1, <1>2
<1> HIDE DEF e
<1> QED
  BY <1>3, <1>5, <1>6

LEMMA PunctualStep ==
  ASSUME IInv, [Next]_vars, raced' = {}
  PROVE  Punctual'
<1>1. Timely(now', mon'.alarm, L', Waiting')
  BY TimelyStep
<1>2. /\ running \in [Callers -> [alarm: Alarms \cup {None}, callback: 0..MaxSets, early: BOOLEAN]]
      /\ tpc \in [Callers -> {"idle", "entered", "cb_lock", "calling"}]
      /\ \A c \in Callers : tpc[c] \in {"cb_lock", "calling"} => ~running[c].early
  BY DEF IInv, TypeOK, Punctual
<1>3. (\A c \in Callers : tpc[c] \in {"cb_lock", "calling"} => ~running[c].early)'
  <2> SUFFICES ASSUME NEW c \in Callers, tpc'[c] \in {"cb_lock", "calling"}
               PROVE  ~running'[c].early
    OBVIOUS
  <2>1. CASE tpc' = tpc /\ running' = running
    BY <1>2, <2>1
  <2>2. ASSUME NEW u \in Callers, Enter(u) PROVE ~running'[c].early
    <3>1. tpc' = [tpc EXCEPT ![u] = "entered"]
      BY <2>2 DEF Enter
    <3>2. c # u /\ tpc[c] \in {"cb_lock", "calling"}
      BY <1>2, <3>1
    <3>3. running'[c] = running[c]
      BY <1>2, <2>2, <3>2 DEF Enter
    <3> QED
      BY <1>2, <3>2, <3>3
  <2>3. ASSUME NEW u \in Callers, Ready(u) PROVE ~running'[c].early
    <3>1. CASE c = u
      <4>1. PICK a \in Waiting : running'[u] = [alarm |-> a, callback |-> mon.alarm[a].callback,
                                                early |-> FALSE]
        BY <2>3, Taking
      <4> QED
        BY <3>1, <4>1
    <3>2. CASE c # u
      <4>1. tpc'[c] = tpc[c] /\ running'[c] = running[c]
        BY <1>2, <2>3, <3>2 DEF Ready
      <4> QED
        BY <1>2, <4>1
    <3> QED
      BY <3>1, <3>2
  <2>4. ASSUME NEW u \in Callers, Call(u) PROVE ~running'[c].early
    <3>1. running' = running /\ tpc[u] = "cb_lock" /\ tpc' = [tpc EXCEPT ![u] = "calling"]
      BY <2>4 DEF Call
    <3>2. tpc[c] \in {"cb_lock", "calling"}
      BY <1>2, <3>1
    <3> QED
      BY <1>2, <3>1, <3>2
  <2>5. ASSUME NEW u \in Callers, CallReturns(u) PROVE ~running'[c].early
    <3>1. tpc' = [tpc EXCEPT ![u] = "idle"] /\ running' = [running EXCEPT ![u] = NoCallback]
      BY <2>5 DEF CallReturns
    <3>2. c # u /\ tpc[c] \in {"cb_lock", "calling"} /\ running'[c] = running[c]
      BY <1>2, <3>1
    <3> QED
      BY <1>2, <3>2
  <2>6. NothingReady => ~running'[c].early
    BY <1>2 DEF NothingReady, Callers
  <2>7. \/ tpc' = tpc /\ running' = running
        \/ NothingReady
        \/ \E u \in Callers : Enter(u)
        \/ \E u \in Callers : Ready(u)
        \/ \E u \in Callers : Call(u)
        \/ \E u \in Callers : CallReturns(u)
    BY Steps DEF Tick, DispatcherTakes, DispatcherDispatches, CleanupSignal,
                 CleanupStep, CancelReturns, Cancel, Set, vars
  <2> QED
    BY <2>1, <2>2, <2>3, <2>4, <2>5, <2>6, <2>7
<1> QED
  BY <1>1, <1>3, Zenon DEF Punctual, Timely, L

-----------------------------------------------------------------------------
\* The alarms in l are on their grids.
Gridded(f, l) ==
  \A a \in l : IsPeriodic(f[a].kind) /\ f[a].period # 0 =>
    (f[a].deadline - f[a].creation_time) % f[a].period = 0

\* Alarms enter the list in two ways.
LEMMA Listing ==
  ASSUME IInv, [Next]_vars, raced' = {}, NEW b \in L'
  PROVE  \/ b \in L /\ mon'.alarm[b] = mon.alarm[b]
         \/ \E interval, mloop :
              /\ Sets(b, interval, mloop)
              /\ mon'.alarm[b] = Fresh(mon.alarm[b], interval, mloop, sets + 1)
         \/ /\ Dispatches(b) /\ IsPeriodic(mon.alarm[b].kind)
            /\ mon'.alarm[b] = Onward(mon.alarm[b])
<1> DEFINE f == mon.alarm
           g == mon'.alarm
<1>1. f \in [Alarms -> AlarmT] /\ L \subseteq Alarms
  <2>1. f \in [Alarms -> AlarmT] /\ mon.alarms \in Seq(Alarms)
    BY Entering
  <2>2. Listed(Alarms, mon.alarms)
    BY <2>1, ElementsOf
  <2> QED
    BY <2>1, <2>2 DEF Listed, L
<1>2. g[b].callback # NULL
  BY PlacesStep DEF Places, L
<1>3. ASSUME NEW a \in Alarms, NEW r, g = [f EXCEPT ![a] = r]
      PROVE  g[a] = r /\ \A x \in Alarms : x # a => g[x] = f[x]
  BY <1>1, <1>3
<1>4. ASSUME NEW a, Cancels(a) PROVE b \in L /\ g[b] = f[b]
  <2>1. L' = L \ {a} /\ a \in Alarms /\ g = [f EXCEPT ![a] = Idled(f[a])]
    BY <1>4, CancelsSets, Zenon
  <2> QED
    BY <1>1, <1>3, <2>1
<1>5. ASSUME NEW a, Readies(a) PROVE b \in L /\ g[b] = f[b]
  <2>1. /\ L' = L /\ a \in Alarms
        /\ g = [f EXCEPT ![a] = IF IsPeriodic(f[a].kind) THEN f[a] ELSE Idled(f[a])]
    BY <1>5, ReadiesSets, Zenon
  <2>2. /\ g[a] = IF IsPeriodic(f[a].kind) THEN f[a] ELSE Idled(f[a])
        /\ \A x \in Alarms : x # a => g[x] = f[x]
    BY <1>3, <2>1
  <2>3. ~IsPeriodic(f[a].kind) => g[a].callback = NULL
    <3>1. f[a] \in AlarmT
      BY <1>1, <2>1
    <3> QED
      BY <2>2, <3>1, Records
  <2>4. b \in L /\ b \in Alarms
    BY <1>1, <2>1
  <2> HIDE DEF f, g
  <2>5. CASE b = a
    BY <1>2, <2>2, <2>3, <2>4, <2>5, Zenon DEF g
  <2>6. CASE b # a
    BY <2>2, <2>4, <2>6, Zenon
  <2> QED
    BY <2>5, <2>6
<1>6. ASSUME NEW a, NEW interval, NEW mloop, Sets(a, interval, mloop)
      PROVE  \/ b \in L /\ g[b] = f[b]
             \/ b = a /\ g[b] = Fresh(f[b], interval, mloop, sets + 1)
  <2>1. /\ L' = L \cup {a} /\ a \in Alarms
        /\ g = [f EXCEPT ![a] = Fresh(f[a], interval, mloop, sets + 1)]
    BY <1>6, SetsSets, Zenon
  <2>2. g[a] = Fresh(f[a], interval, mloop, sets + 1) /\ \A x \in Alarms : x # a => g[x] = f[x]
    BY <1>3, <2>1
  <2> HIDE DEF f, g
  <2>3. CASE b = a
    BY <2>2, <2>3, Zenon
  <2>4. CASE b # a
    BY <1>1, <2>1, <2>2, <2>4
  <2> QED
    BY <2>3, <2>4
<1>7. ASSUME NEW a, Dispatches(a)
      PROVE  \/ b \in L /\ g[b] = f[b]
             \/ b = a /\ IsPeriodic(f[b].kind) /\ g[b] = Onward(f[b])
  <2>1. /\ L' = (L \ {a}) \cup IF IsPeriodic(f[a].kind) THEN {a} ELSE {}
        /\ a \in Alarms /\ g = [f EXCEPT ![a] = Onward(f[a])]
    BY <1>7, DispatchesSets, Zenon
  <2>2. g[a] = Onward(f[a]) /\ \A x \in Alarms : x # a => g[x] = f[x]
    BY <1>3, <2>1
  <2> HIDE DEF f, g
  <2> QED
    BY <1>1, <2>1, <2>2
<1>8. Clears \/ Rests \/ Enters => b \in L /\ g[b] = f[b]
  BY ClearsSets, RestsSets, EntersSets
<1> QED
  BY Effects, <1>4, <1>5, <1>6, <1>7, <1>8, Zenon DEF SomeEffect

LEMMA GridStep ==
  ASSUME IInv, [Next]_vars, raced' = {}
  PROVE  PeriodicOnGrid'
<1> DEFINE f == mon.alarm
           g == mon'.alarm
<1>1. /\ f \in [Alarms -> AlarmT] /\ mon.alarms \in Seq(Alarms) /\ now \in Nat \ {0}
  BY Entering
<1>2. mon'.alarms \in Seq(Alarms)
  BY TypeStep DEF TypeOK, Monitor
<1>3. Listed(Alarms, mon.alarms) /\ Listed(Alarms, mon'.alarms)
  BY <1>1, <1>2, ElementsOf
<1>4. Gridded(f, L)
  <2> SUFFICES ASSUME NEW b \in L
               PROVE  IsPeriodic(f[b].kind) /\ f[b].period # 0 =>
                        (f[b].deadline - f[b].creation_time) % f[b].period = 0
    BY DEF Gridded
  <2>1. PICK i \in DOMAIN mon.alarms : mon.alarms[i] = b
    BY <1>3 DEF Listed, L
  <2> QED
    BY <2>1 DEF IInv, PeriodicOnGrid
<1>5. Gridded(g, L')
  <2> SUFFICES ASSUME NEW b \in L', IsPeriodic(g[b].kind), g[b].period # 0
               PROVE  (g[b].deadline - g[b].creation_time) % g[b].period = 0
    BY DEF Gridded
  <2>1. CASE b \in L /\ g[b] = f[b]
    BY <1>4, <2>1 DEF Gridded
  <2>2. ASSUME NEW interval, NEW mloop, Sets(b, interval, mloop),
               g[b] = Fresh(f[b], interval, mloop, sets + 1)
        PROVE  (g[b].deadline - g[b].creation_time) % g[b].period = 0
    <3>2. g[b].deadline = now + interval /\ g[b].creation_time = now /\ g[b].period = interval
      BY <2>2 DEF Fresh
    <3>1. interval \in Nat \ {0}
      BY <2>2, <3>2, AlarmAssumption DEF Sets, AlarmAssumption
    <3>3. (now + interval) - now = interval /\ interval % interval = 0
      BY <1>1, <3>1
    <3> QED
      BY <3>2, <3>3
  <2>3. CASE Dispatches(b) /\ IsPeriodic(f[b].kind) /\ g[b] = Onward(f[b])
    <3> DEFINE ct == f[b].creation_time
               p == f[b].period
               x == now - ct
               m == x % p
    <3>0. f[b] \in AlarmT /\ p \in Nat
      BY <1>1, <2>3, Entering DEF Dispatches, DispatchDone
    <3>3. g[b].deadline = NextDeadline(f[b]) /\ g[b].creation_time = ct /\ g[b].period = p
      BY <2>3, <3>0, Records
    <3>1. f[b] \in AlarmT /\ p \in Nat \ {0}
      BY <3>0, <3>3
    <3>2. ct \in Nat /\ x \in Int
      BY <1>1, <3>1 DEF AlarmT
    <3>4. NextDeadline(f[b]) = now + p - m
      BY <2>3, <3>1 DEF NextDeadline
    <3>5. m \in 0..(p - 1) /\ ((x + p) - m) % p = 0
      BY <3>1, <3>2, OnGrid
    <3>6. (now + p - m) - ct = (x + p) - m
      <4>1. x = now - ct /\ now \in Nat
        BY <1>1
      <4>2. p \in Nat /\ m \in Int
        BY <3>1, <3>5
      <4> HIDE DEF x, p, m, ct
      <4> QED
        BY <3>2, <4>1, <4>2
    <3> HIDE DEF x, p, m, ct
    <3> QED
      BY <3>3, <3>4, <3>5, <3>6
  <2> QED
    BY <2>1, <2>2, <2>3, Listing, Zenon
<1> QED
  <2> SUFFICES ASSUME NEW i \in DOMAIN mon'.alarms, IsPeriodic(g[mon'.alarms[i]].kind),
                      g[mon'.alarms[i]].period # 0
               PROVE  LET r == g[mon'.alarms[i]] IN (r.deadline - r.creation_time) % r.period = 0
    BY Zenon DEF PeriodicOnGrid
  <2>1. mon'.alarms[i] \in L'
    BY <1>3 DEF Listed, L
  <2> QED
    BY <1>5, <2>1 DEF Gridded

-----------------------------------------------------------------------------
\* Who is served before whom depends on the one-time alarms only.
LEMMA SameServed ==
  ASSUME NEW f, NEW g,
         \A b \in Alarms : /\ g[b].kind = f[b].kind
                           /\ f[b].kind = "once" => /\ g[b].deadline = f[b].deadline
                                                    /\ g[b].callback = f[b].callback
  PROVE  Served(g) = Served(f)
  BY DEF Served

LEMMA SameBefore ==
  ASSUME NEW f, NEW g, NEW X, NEW Y, X \subseteq Alarms, Y \subseteq Alarms,
         AllBefore(Served(f), X, Y), \A b \in X \cup Y : g[b] = f[b]
  PROVE  AllBefore(Served(g), X, Y)
<1> SUFFICES ASSUME NEW x \in X, NEW y \in Y PROVE <<x, y>> \in Served(g)
  BY DEF AllBefore
<1>1. x \in Alarms /\ y \in Alarms /\ g[x] = f[x] /\ g[y] = f[y] /\ <<x, y>> \in Served(f)
  BY DEF AllBefore
<1> QED
  BY <1>1 DEF Served

\* Line, of lists s and q, where the clock is n.
LineOf(n, f, s, q) ==
  /\ InOrder(ByDeadline(f), s) /\ InOrder(Served(f), s) /\ InOrder(Served(f), q)
  /\ AllBefore(Served(f), Range(q), Range(s))
  /\ \A a \in Range(q) : f[a].kind = "once" => f[a].deadline <= n

\* Alarms leave, and those that stay keep their order and do not change.
LEMMA StillInLine ==
  ASSUME NEW n \in Nat, NEW m \in Nat, n <= m, NEW f \in [Alarms -> AlarmT], NEW g,
         NEW s, NEW q, LineOf(n, f, s, q),
         NEW s2 \in Seq(Alarms), NEW q2 \in Seq(Alarms),
         \A R : InOrder(R, s) => InOrder(R, s2), \A R : InOrder(R, q) => InOrder(R, q2),
         Range(s2) \subseteq Range(s), Range(q2) \subseteq Range(q),
         \A b \in Range(s2) \cup Range(q2) : g[b] = f[b]
  PROVE  LineOf(m, g, s2, q2)
<1>1. Range(s2) \subseteq Alarms /\ Range(q2) \subseteq Alarms
  <2>1. Listed(Alarms, s2) /\ Listed(Alarms, q2)
    BY ElementsOf
  <2> QED
    BY <2>1 DEF Listed
<1>2. InOrder(ByDeadline(g), s2) /\ InOrder(Served(g), s2)
  <2>1. InOrder(ByDeadline(f), s2) /\ InOrder(Served(f), s2)
    BY Zenon DEF LineOf
  <2> QED
    BY <2>1, SameOrder
<1>3. InOrder(Served(g), q2)
  <2>1. InOrder(Served(f), q2)
    BY Zenon DEF LineOf
  <2> QED
    BY <2>1, SameOrder
<1>4. AllBefore(Served(f), Range(q2), Range(s2))
  BY DEF LineOf, AllBefore
<1>5. AllBefore(Served(g), Range(q2), Range(s2))
  BY <1>1, <1>4, SameBefore
<1>6. ASSUME NEW a \in Range(q2), g[a].kind = "once" PROVE g[a].deadline <= m
  <2>1. a \in Range(q) /\ a \in Alarms /\ g[a] = f[a]
    BY <1>1, <1>6
  <2>2. f[a].deadline <= n /\ f[a].deadline \in Nat
    BY <1>6, <2>1 DEF LineOf, AlarmT
  <2> QED
    BY <2>1, <2>2
<1> QED
  BY <1>2, <1>3, <1>5, <1>6 DEF LineOf

LEMMA LineStep ==
  ASSUME IInv, [Next]_vars, raced' = {}
  PROVE  Line'
<1> DEFINE f == mon.alarm
           g == mon'.alarm
           s == mon.alarms
           q == mon.queue
           s2 == mon'.alarms
           q2 == mon'.queue
           After == LineOf(now', g, s2, q2)
<1>1. now \in Nat /\ now' \in Nat /\ now <= now'
  BY ClockStep
<1>2. f \in [Alarms -> AlarmT] /\ s \in Seq(Alarms) /\ q \in Seq(Alarms) /\ NoRepeat(q)
  BY Entering DEF Unrepeated
<1>3. LineOf(now, f, s, q)
  BY DEF IInv, Line, LineOf
<1>4. s2 \in Seq(Alarms) /\ q2 \in Seq(Alarms)
  BY TypeStep DEF TypeOK, Monitor
<1>5. /\ \A a \in L' \cup Q' : g[a].callback # NULL
      /\ L' = Range(s2) /\ Q' = Range(q2) /\ L = Range(s) /\ Q = Range(q)
  BY PlacesStep DEF Places, Waiting, L, Q
<1>6. L \subseteq Alarms /\ Q \subseteq Alarms /\ L' \subseteq Alarms /\ Q' \subseteq Alarms
  <2>1. Listed(Alarms, s) /\ Listed(Alarms, q) /\ Listed(Alarms, s2) /\ Listed(Alarms, q2)
    BY <1>2, <1>4, ElementsOf
  <2> QED
    BY <1>5, <2>1 DEF Listed
<1>7. ASSUME \A R : InOrder(R, s) => InOrder(R, s2), \A R : InOrder(R, q) => InOrder(R, q2),
             L' \subseteq L, Q' \subseteq Q, \A b \in L' \cup Q' : g[b] = f[b]
      PROVE  After
  <2> HIDE DEF f, g, s, q, s2, q2
  <2> QED
    BY <1>1, <1>2, <1>3, <1>4, <1>5, <1>7, StillInLine
<1>8. ASSUME NEW a \in Alarms, NEW r, g = [f EXCEPT ![a] = r]
      PROVE  g[a] = r /\ \A b \in Alarms : b # a => g[b] = f[b]
  BY <1>2, <1>8
<1>9. ASSUME NEW a, Cancels(a) PROVE After
  <2>1. L' = L \ {a} /\ Q' = Q \ {a} /\ a \in Alarms /\ g = [f EXCEPT ![a] = Idled(f[a])]
    BY <1>9, CancelsSets, Zenon
  <2>2. \A b \in Alarms : b # a => g[b] = f[b]
    BY <1>8, <2>1
  <2>3. /\ \A R : InOrder(R, s) => InOrder(R, s2)
        /\ \A R : InOrder(R, q) => InOrder(R, q2)
    BY <1>9, Zenon DEF Cancels, CancelDone, Dropped
  <2> HIDE DEF f, g, s, q, s2, q2
  <2>4. L' \subseteq L /\ Q' \subseteq Q /\ \A b \in L' \cup Q' : g[b] = f[b]
    BY <1>6, <2>1, <2>2
  <2> QED
    BY <1>7, <2>3, <2>4, Zenon
<1>10. ASSUME NEW a, Readies(a) PROVE After
  <2>1. /\ a \in Alarms /\ L' = L /\ Q' \subseteq Q
        /\ g = [f EXCEPT ![a] = IF IsPeriodic(f[a].kind) THEN f[a] ELSE Idled(f[a])]
    BY <1>10, ReadiesSets
  <2>2. /\ g[a] = IF IsPeriodic(f[a].kind) THEN f[a] ELSE Idled(f[a])
        /\ \A b \in Alarms : b # a => g[b] = f[b]
    BY <1>8, <2>1
  <2>3. ~IsPeriodic(f[a].kind) => g[a].callback = NULL
    <3>1. f[a] \in AlarmT
      BY <1>2, <2>1
    <3> QED
      BY <2>2, <3>1, Records
  <2>4. s2 = s /\ (q2 = q \/ (q # <<>> /\ q2 = Tail(q)))
    BY <1>10 DEF Readies
  <2> HIDE DEF f, g, s, q, s2, q2
  <2>5. ASSUME NEW R, InOrder(R, q) PROVE InOrder(R, q2)
    <3>1. CASE q2 = q
      BY <2>5, <3>1
    <3>2. CASE q # <<>> /\ q2 = Tail(q)
      BY <1>2, <2>5, <3>2, TailInOrder
    <3> QED
      BY <2>4, <3>1, <3>2
  <2>6. \A b \in L' \cup Q' : g[b] = f[b]
    BY <1>5, <1>6, <2>2, <2>3
  <2> QED
    BY <1>7, <2>1, <2>4, <2>5, <2>6
<1>11. ASSUME NEW a, NEW interval, NEW mloop, Sets(a, interval, mloop) PROVE After
  <2>1. /\ L' = L \cup {a} /\ Q' = Q \ {a} /\ a \in Alarms
        /\ g = [f EXCEPT ![a] = Fresh(f[a], interval, mloop, sets + 1)]
    BY <1>11, SetsSets, Zenon
  <2>2. g[a] = Fresh(f[a], interval, mloop, sets + 1) /\ \A b \in Alarms : b # a => g[b] = f[b]
    BY <1>8, <2>1
  <2>3. interval \in Nat /\ g[a].deadline = now + interval /\ g[a].callback = sets + 1
    BY <1>11, <2>2, AlarmAssumption DEF Sets, Fresh, AlarmAssumption
  <2>4. /\ InOrder(ByDeadline(g), s2) /\ InOrder(Served(g), s2)
        /\ \A R : InOrder(R, q) => InOrder(R, q2)
    BY <1>11, Zenon DEF Sets, SetDone, Dropped
  <2> HIDE DEF f, g, s, q, s2, q2
  <2>5. \A b \in Q' : b \in Q /\ b # a /\ g[b] = f[b]
    BY <1>6, <2>1, <2>2
  <2>6. InOrder(Served(g), q2)
    BY <1>3, <1>4, <1>5, <2>4, <2>5, SameOrder DEF LineOf
  <2>7. \A b \in Q' : f[b].kind = "once" => f[b].deadline <= now /\ f[b].deadline \in Nat
    BY <1>2, <1>3, <1>5, <1>6, <2>5 DEF LineOf, AlarmT
  <2>8. \A b \in Q' : g[b].kind = "once" => g[b].deadline <= now'
    BY <1>1, <2>5, <2>7
  <2>9. AllBefore(Served(g), Q', L')
    <3> SUFFICES ASSUME NEW b \in Q', NEW d \in L' PROVE <<b, d>> \in Served(g)
      BY DEF AllBefore
    <3>1. CASE d = a
      <4>1. f[b].callback <= sets /\ f[b].callback \in Nat /\ sets \in Nat
        BY <1>2, <1>6, <2>5 DEF IInv, Undone, SetSince, AlarmT, TypeOK, f
      <4>2. g[b].kind = "once" =>
              \/ g[b].deadline < g[d].deadline
              \/ g[b].deadline = g[d].deadline /\ g[b].callback < g[d].callback
        BY <1>1, <2>3, <2>5, <2>7, <3>1, <4>1
      <4> QED
        BY <1>6, <4>2 DEF Served
    <3>2. CASE d # a
      <4>1. d \in L /\ b \in Q /\ b \in Alarms /\ d \in Alarms /\ g[b] = f[b] /\ g[d] = f[d]
        BY <1>6, <2>1, <2>2, <2>5, <3>2
      <4>2. <<b, d>> \in Served(f)
        BY <1>3, <1>5, <4>1 DEF LineOf, AllBefore
      <4> QED
        BY <4>1, <4>2 DEF Served
    <3> QED
      BY <3>1, <3>2
  <2> QED
    BY <1>5, <2>4, <2>6, <2>8, <2>9, Zenon DEF LineOf, f, g, s, q, s2, q2
<1>12. ASSUME NEW a, Dispatches(a) PROVE After
  <2>1. /\ a \in L /\ a \in Alarms
        /\ L' = (L \ {a}) \cup IF IsPeriodic(f[a].kind) THEN {a} ELSE {}
        /\ \/ OnMloop(f[a].kind) /\ Q' = Q
           \/ ~OnMloop(f[a].kind) /\ Q' = Q \cup {a}
        /\ g = [f EXCEPT ![a] = Onward(f[a])]
    BY <1>12, DispatchesSets
  <2>2. g[a] = Onward(f[a]) /\ \A b \in Alarms : b # a => g[b] = f[b]
    BY <1>8, <2>1
  <2>3. f[a] \in AlarmT /\ f[a].deadline \in Nat
    BY <1>2, <2>1 DEF AlarmT
  <2>4. /\ g[a].kind = f[a].kind /\ g[a].callback = f[a].callback
        /\ ~IsPeriodic(f[a].kind) => g[a].deadline = f[a].deadline
    BY <2>2, <2>3, Records
  <2>5. /\ InOrder(ByDeadline(g), s2) /\ InOrder(Served(g), s2)
        /\ f[a].deadline <= now /\ AllBefore(Served(f), {a}, L \ {a})
    BY <1>12 DEF Dispatches, DispatchDone, L
  <2>6. PICK d : \/ OnMloop(f[a].kind) /\ q2 = q
                 \/ ~OnMloop(f[a].kind) /\ Dropped(Alarms, d, q, a) /\ q2 = Append(d, a)
    BY <1>12, Zenon DEF Dispatches, DispatchDone
  <2>7. ~IsPeriodic(f[a].kind) => a \notin Q
    BY <2>1 DEF IInv, Places, Waiting, Q, L
  <2> HIDE DEF f, g, s, q, s2, q2
  <2>8. Served(g) = Served(f)
    <3>1. \A b \in Alarms : /\ g[b].kind = f[b].kind
                            /\ f[b].kind = "once" => /\ g[b].deadline = f[b].deadline
                                                     /\ g[b].callback = f[b].callback
      BY <2>2, <2>4 DEF IsPeriodic
    <3> QED
      BY <3>1, SameServed
  <2>9. AllBefore(Served(f), Q, {a})
    BY <1>3, <1>5, <2>1 DEF LineOf, AllBefore
  <2>10. InOrder(Served(f), q2)
    <3>1. CASE q2 = q
      BY <1>3, <3>1 DEF LineOf
    <3>2. CASE Dropped(Alarms, d, q, a) /\ q2 = Append(d, a)
      <4>1. d \in Seq(Alarms) /\ InOrder(Served(f), d) /\ Range(d) = Q \ {a}
        BY <1>3, <1>5, <3>2, Zenon DEF Dropped, LineOf
      <4>2. AllBefore(Served(f), Range(d), {a})
        BY <2>9, <4>1 DEF AllBefore
      <4> QED
        BY <2>1, <3>2, <4>1, <4>2, AppendedInOrder
    <3> QED
      BY <2>6, <3>1, <3>2
  <2>11. AllBefore(Served(f), Q', L')
    <3> SUFFICES ASSUME NEW b \in Q', NEW e \in L' PROVE <<b, e>> \in Served(f)
      BY DEF AllBefore
    <3>1. e \in L /\ (b = a \/ b \in Q) /\ b \in Alarms /\ e \in Alarms
      BY <1>6, <2>1
    <3>2. CASE b = a /\ e # a
      BY <2>5, <3>1, <3>2 DEF AllBefore
    <3>3. CASE b = a /\ e = a
      <4>1. IsPeriodic(f[a].kind)
        BY <2>1, <3>3
      <4> QED
        BY <3>1, <3>3, <4>1 DEF Served, IsPeriodic
    <3>4. CASE b \in Q
      BY <1>3, <1>5, <3>1, <3>4 DEF LineOf, AllBefore
    <3> QED
      BY <3>1, <3>2, <3>3, <3>4
  <2>12. ASSUME NEW b \in Q', g[b].kind = "once" PROVE g[b].deadline <= now'
    <3>1. CASE b = a
      BY <1>1, <2>3, <2>4, <2>5, <2>12, <3>1 DEF IsPeriodic
    <3>2. CASE b # a
      <4>1. b \in Q /\ b \in Alarms /\ g[b] = f[b]
        BY <1>6, <2>1, <2>2, <2>12, <3>2
      <4>2. f[b].deadline <= now /\ f[b].deadline \in Nat
        BY <1>2, <1>3, <1>5, <2>12, <4>1 DEF LineOf, AlarmT
      <4> QED
        BY <1>1, <4>1, <4>2
    <3> QED
      BY <3>1, <3>2
  <2>13. LineOf(now', g, s2, q2)
    BY <1>5, <2>5, <2>8, <2>10, <2>11, <2>12 DEF LineOf
  <2> QED
    BY <2>13 DEF g, s2, q2
<1>13. ASSUME Rests \/ Enters PROVE After
  <2>1. s2 = s /\ q2 = q /\ g = f
    BY <1>13 DEF Rests, ListsRest, Enters
  <2> QED
    BY <1>5, <1>7, <2>1
<1>14. ASSUME Clears PROVE After
  <2>1. L' \subseteq L /\ Q' \subseteq Q /\ g = f /\ (s2 = s \/ s2 = <<>>) /\ (q2 = q \/ q2 = <<>>)
    BY <1>14, ClearsSets DEF Clears
  <2>2. \A R : InOrder(R, <<>>)
    BY DEF InOrder
  <2> QED
    BY <1>7, <2>1, <2>2
<1>15. LineOf(now', g, s2, q2)
  BY Effects, <1>9, <1>10, <1>11, <1>12, <1>13, <1>14, Zenon DEF SomeEffect
<1> QED
  BY <1>15, Zenon DEF LineOf, Line

-----------------------------------------------------------------------------
\* alarm_cancel_internal clears the callback.
LEMMA Cleared ==
  ASSUME IInv, NEW t, NEW a \in Alarms, Cancel(t, a)
  PROVE  mon'.alarm[a].callback = NULL /\ \A b \in Alarms : b # a => mon'.alarm[b] = mon.alarm[b]
<1>1. PICK c \in Outcomes : mon' = CancelInternal(mon, a, c)
  BY DEF Cancel
<1>2. CancelDone(mon', a)
  BY <1>1, Canceling
<1>3. mon.alarm \in [Alarms -> AlarmT] /\ mon'.alarm = [mon.alarm EXCEPT ![a] = Idled(@)]
  BY <1>2, Entering DEF CancelDone
<1>4. mon'.alarm[a] = Idled(mon.alarm[a]) /\ mon.alarm[a] \in AlarmT
  BY <1>3
<1> QED
  BY <1>3, <1>4, Records

\* Only alarm_set installs a callback, the one of that call.
LEMMA Callbacks ==
  ASSUME IInv, [Next]_vars, raced' = {}, NEW b \in Alarms
  PROVE  \/ mon'.alarm[b].callback = mon.alarm[b].callback
         \/ mon'.alarm[b].callback = NULL
         \/ /\ mon'.alarm[b].callback = sets + 1 /\ sets' = sets + 1
            /\ canceled' = canceled /\ canceling' = canceling
<1> DEFINE f == mon.alarm
           g == mon'.alarm
           Same == g[b].callback = f[b].callback
<1>1. f \in [Alarms -> AlarmT] /\ f[b] \in AlarmT /\ mon \in Monitor
  BY Entering
<1>2. CASE mon'.alarm = mon.alarm
  BY <1>2
<1>3. Tick \/ DispatcherTakes \/ CleanupSignal => g = f
  BY <1>1 DEF Tick, DispatcherTakes, CleanupSignal, Monitor
<1>4. CleanupStep => g = f
  BY <1>1 DEF CleanupStep, Monitor
<1>5. ASSUME NEW c \in Callers, Enter(c) PROVE g = f
  BY <1>1, <1>5 DEF Enter, Monitor
<1>6. ASSUME DispatcherDispatches PROVE Same
  <2>1. PICK c1 \in Outcomes, c2 \in Outcomes : mon' = DispatchFront(mon, c1, c2)
    BY <1>6 DEF DispatcherDispatches
  <2>2. Rescheduled(mon', mon) \/ \E a : DispatchDone(mon', a)
    BY <2>1, Dispatching
  <2>3. CASE Rescheduled(mon', mon)
    BY <2>3 DEF Rescheduled
  <2>4. ASSUME NEW a, DispatchDone(mon', a) PROVE Same
    <3>1. a \in Alarms /\ g = [f EXCEPT ![a] = Onward(f[a])]
      BY <2>4, Zenon DEF DispatchDone
    <3>2. g[b] = f[b] \/ (g[b] = Onward(f[b]))
      BY <1>1, <3>1
    <3> QED
      BY <1>1, <3>2, Records
  <2> QED
    BY <2>2, <2>3, <2>4
<1>7. ASSUME NEW c \in Callers, Ready(c) PROVE Same \/ g[b].callback = NULL
  <2> DEFINE a == IF c = "default" THEN Head(mon.queue) ELSE running[c].alarm
  <2>1. g = [f EXCEPT ![a] = IF IsPeriodic(f[a].kind) THEN f[a] ELSE Idled(f[a])]
    BY <1>1, <1>7 DEF Ready, Monitor, Idled
  <2> HIDE DEF a
  <2>2. g[b] = f[b] \/ g[b] = Idled(f[b])
    BY <1>1, <2>1
  <2> QED
    BY <1>1, <2>2, Records
<1>8. ASSUME NEW t \in Threads, NEW a \in Alarms, Cancel(t, a) PROVE Same \/ g[b].callback = NULL
  BY <1>8, Cleared
<1>9. ASSUME NEW t \in Threads, NEW a \in Alarms, NEW interval \in Intervals,
             NEW mloop \in BOOLEAN, Set(t, a, interval, mloop)
      PROVE  \/ Same
             \/ /\ g[b].callback = sets + 1 /\ sets' = sets + 1
                /\ canceled' = canceled /\ canceling' = canceling
  <2>1. PICK c \in Outcomes : mon' = SetInternal(mon, a, interval, mloop, sets + 1, c)
    BY <1>9 DEF Set
  <2>2. /\ mloop <=> OnMloop(mon.alarm[a].kind)
        /\ sets < MaxSets /\ sets' = sets + 1 /\ canceled' = canceled /\ canceling' = canceling
    BY <1>9 DEF Set
  <2>3. SetDone(mon', a, interval, mloop, sets + 1)
    BY <2>1, <2>2, Setting
  <2>4. g = [f EXCEPT ![a] = Fresh(@, interval, mloop, sets + 1)]
    BY <2>3 DEF SetDone
  <2>5. g[b] = f[b] \/ g[b] = Fresh(f[b], interval, mloop, sets + 1)
    BY <1>1, <2>4
  <2>6. Fresh(f[b], interval, mloop, sets + 1).callback = sets + 1
    BY DEF Fresh
  <2> HIDE DEF f, g
  <2> QED
    BY <2>2, <2>5, <2>6
<1>10. \/ g = f
       \/ DispatcherDispatches
       \/ \E c \in Callers : Ready(c)
       \/ \E t \in Threads, a \in Alarms : Cancel(t, a)
       \/ \E t \in Threads, a \in Alarms, interval \in Intervals, mloop \in BOOLEAN :
            Set(t, a, interval, mloop)
  <2>1. \/ NothingReady
        \/ \E c \in Callers : Call(c)
        \/ \E c \in Callers : CallReturns(c)
        \/ \E t \in Threads : CancelReturns(t)
        \/ UNCHANGED vars
        => g = f
    BY DEF NothingReady, Call, CallReturns, CancelReturns, vars
  <2> HIDE DEF f, g
  <2> QED
    BY <1>3, <1>4, <1>5, <2>1, Steps, Zenon
<1> QED
  BY <1>2, <1>6, <1>7, <1>8, <1>9, <1>10, Zenon

\* What a step does to what alarm_cancel has undone and will undo.
LEMMA Undoing ==
  ASSUME IInv, [Next]_vars, raced' = {}
  PROVE  \/ canceled' = canceled /\ canceling' = canceling
         \/ \E t \in Threads : CancelReturns(t)
         \/ \E t \in Threads, a \in Alarms : Cancel(t, a)
  BY Steps DEF Tick, DispatcherTakes, DispatcherDispatches, NothingReady, CleanupSignal,
               CleanupStep, Enter, Ready, Call, CallReturns, Set, vars

LEMMA Counts ==
  ASSUME IInv, [Next]_vars, raced' = {}
  PROVE  /\ sets \in Nat /\ sets' \in Nat /\ sets <= sets'
         /\ canceled \in [Alarms -> Nat] /\ canceled' \in [Alarms -> Nat]
         /\ canceling \in [Threads -> [alarm: Alarms \cup {None}, upto: Nat]]
         /\ canceling' \in [Threads -> [alarm: Alarms \cup {None}, upto: Nat]]
         /\ \A a \in Alarms : mon.alarm[a].callback \in Nat /\ mon'.alarm[a].callback \in Nat
         /\ running \in [Callers -> [alarm: Alarms \cup {None}, callback: Nat, early: BOOLEAN]]
<1>1. MaxSets \in Nat /\ TypeOK /\ TypeOK'
  BY TypeStep, AlarmAssumption DEF IInv
<1>2. /\ sets \in Nat /\ sets' \in Nat
      /\ canceled \in [Alarms -> Nat] /\ canceled' \in [Alarms -> Nat]
      /\ canceling \in [Threads -> [alarm: Alarms \cup {None}, upto: Nat]]
      /\ canceling' \in [Threads -> [alarm: Alarms \cup {None}, upto: Nat]]
      /\ running \in [Callers -> [alarm: Alarms \cup {None}, callback: Nat, early: BOOLEAN]]
  BY <1>1 DEF TypeOK
<1>3. ASSUME NEW a \in Alarms PROVE mon.alarm[a].callback \in Nat /\ mon'.alarm[a].callback \in Nat
  <2>1. mon.alarm[a] \in AlarmT /\ mon'.alarm[a] \in AlarmT
    BY <1>1 DEF TypeOK, Monitor
  <2> QED
    BY <1>1, <2>1 DEF AlarmT
<1>4. sets' = sets \/ sets' = sets + 1
  BY Steps DEF Tick, DispatcherTakes, DispatcherDispatches, NothingReady, CleanupSignal,
               CleanupStep, Enter, Ready, Call, CallReturns, CancelReturns, Cancel, Set, vars
<1>5. sets <= sets'
  BY <1>2, <1>4
<1> QED
  BY <1>2, <1>3, <1>5

\* alarm_cancel returns: what it undoes is undone, and it holds nothing.
LEMMA Returning ==
  ASSUME IInv, [Next]_vars, raced' = {}, NEW t \in Threads, CancelReturns(t)
  PROVE  /\ \A b \in Alarms :
              \/ canceled'[b] = canceled[b]
              \/ /\ b = canceling[t].alarm /\ ~HoldsCallbackMutex(t, b)
                 /\ canceled'[b] \in {canceled[b], canceling[t].upto}
         /\ \A u \in Threads : canceling'[u] = canceling[u] \/ canceling'[u].upto = 0
         /\ \A u \in Callers \ {t} : ~HoldsCallbackMutex(u, canceling[t].alarm)
         /\ mon' = mon /\ tpc' = tpc /\ running' = running /\ sets' = sets
<1> DEFINE a == canceling[t].alarm
           m == Max({canceled[a], canceling[t].upto})
<1>1. /\ canceled' = canceled \/ (canceled' = [canceled EXCEPT ![a] = m] /\ ~HoldsCallbackMutex(t, a))
      /\ \A u \in Callers \ {t} : ~HoldsCallbackMutex(u, a)
      /\ canceling' = [canceling EXCEPT ![t] = NotCanceling]
      /\ mon' = mon /\ tpc' = tpc /\ running' = running /\ sets' = sets
  BY DEF CancelReturns
<1>2. /\ canceled \in [Alarms -> Nat]
      /\ canceling \in [Threads -> [alarm: Alarms \cup {None}, upto: Nat]]
  BY Counts
<1>3. canceling[t].upto \in Nat
  BY <1>2
<1>4. ASSUME NEW u \in Threads PROVE canceling'[u] = canceling[u] \/ canceling'[u].upto = 0
  BY <1>1, <1>2 DEF NotCanceling
<1> HIDE DEF a
<1>5. a \in Alarms => m \in {canceled[a], canceling[t].upto}
  BY <1>2, <1>3, GreaterOf
<1> HIDE DEF m
<1>6. ASSUME NEW b \in Alarms
      PROVE  \/ canceled'[b] = canceled[b]
             \/ b = a /\ ~HoldsCallbackMutex(t, b) /\ canceled'[b] \in {canceled[b], canceling[t].upto}
  <2>1. CASE canceled' = [canceled EXCEPT ![a] = m] /\ ~HoldsCallbackMutex(t, a) /\ b = a
    BY <1>2, <1>5, <2>1
  <2>2. CASE canceled' = [canceled EXCEPT ![a] = m] /\ b # a
    BY <1>2, <2>2
  <2> QED
    BY <1>1, <2>1, <2>2
<1> QED
  BY <1>1, <1>4, <1>6, Zenon DEF a

LEMMA SetSinceStep ==
  ASSUME IInv, [Next]_vars, raced' = {}
  PROVE  SetSince'
<1> DEFINE cb(a) == mon.alarm[a].callback
           cb2(a) == mon'.alarm[a].callback
<1>1. /\ sets \in Nat /\ sets' \in Nat /\ sets <= sets'
      /\ canceled \in [Alarms -> Nat] /\ canceled' \in [Alarms -> Nat]
      /\ \A t \in Threads : canceling[t].upto \in Nat /\ canceling'[t].upto \in Nat
      /\ canceling \in [Threads -> [alarm: Alarms \cup {None}, upto: Nat]]
      /\ \A a \in Alarms : cb(a) \in Nat /\ cb2(a) \in Nat
  BY Counts
<1>2. /\ \A a \in Alarms : cb(a) <= sets /\ canceled[a] <= sets
      /\ \A t \in Threads : canceling[t].upto <= sets
      /\ \A a \in Alarms : cb(a) # NULL =>
           /\ cb(a) > canceled[a]
           /\ \A t \in Threads : canceling[t].alarm = a => cb(a) > canceling[t].upto
  BY DEF IInv, Undone, SetSince
<1>3. \A a \in Alarms :
        \/ cb2(a) = cb(a)
        \/ cb2(a) = NULL
        \/ cb2(a) = sets + 1 /\ sets' = sets + 1 /\ canceled' = canceled /\ canceling' = canceling
  BY Callbacks
<1>4. SetSince' <=>
        /\ \A a \in Alarms : cb2(a) <= sets' /\ canceled'[a] <= sets'
        /\ \A t \in Threads : canceling'[t].upto <= sets'
        /\ \A a \in Alarms : cb2(a) # NULL =>
             /\ cb2(a) > canceled'[a]
             /\ \A t \in Threads : canceling'[t].alarm = a => cb2(a) > canceling'[t].upto
  BY Zenon DEF SetSince
<1>5. \A t \in Threads, a \in Alarms : Cancel(t, a) =>
        /\ cb2(a) = NULL /\ \A b \in Alarms : b # a => cb2(b) = cb(b)
        /\ canceled' = canceled /\ sets' = sets
        /\ canceling' = [canceling EXCEPT ![t] = [alarm |-> a, upto |-> sets]]
  BY Cleared DEF Cancel
<1>6. \A t \in Threads : CancelReturns(t) =>
        /\ \A b \in Alarms : \/ canceled'[b] = canceled[b]
                             \/ b = canceling[t].alarm /\ canceled'[b] = canceling[t].upto
        /\ \A u \in Threads : canceling'[u] = canceling[u] \/ canceling'[u].upto = 0
        /\ \A b \in Alarms : cb2(b) = cb(b)
        /\ sets' = sets
  BY Returning
<1> HIDE DEF cb, cb2
<1>7. NULL = 0
  BY DEF NULL
<1>8. CASE canceled' = canceled /\ canceling' = canceling
  <2>1. ASSUME NEW a \in Alarms PROVE cb2(a) <= sets' /\ canceled'[a] <= sets'
    BY <1>1, <1>2, <1>3, <1>7, <1>8
  <2>2. ASSUME NEW t \in Threads PROVE canceling'[t].upto <= sets'
    BY <1>1, <1>2, <1>8
  <2>3. ASSUME NEW a \in Alarms, cb2(a) # NULL PROVE cb2(a) > canceled'[a]
    BY <1>1, <1>2, <1>3, <1>8, <2>3
  <2>4. ASSUME NEW a \in Alarms, cb2(a) # NULL, NEW t \in Threads, canceling'[t].alarm = a
        PROVE  cb2(a) > canceling'[t].upto
    BY <1>1, <1>2, <1>3, <1>8, <2>4
  <2> QED
    BY <1>4, <2>1, <2>2, <2>3, <2>4
<1>9. ASSUME NEW t \in Threads, CancelReturns(t) PROVE SetSince'
  <2>1. ASSUME NEW a \in Alarms PROVE cb2(a) <= sets' /\ canceled'[a] <= sets'
    BY <1>1, <1>2, <1>6, <1>9
  <2>2. ASSUME NEW u \in Threads PROVE canceling'[u].upto <= sets'
    BY <1>1, <1>2, <1>6, <1>9
  <2>3. ASSUME NEW a \in Alarms, cb2(a) # NULL PROVE cb2(a) > canceled'[a]
    BY <1>1, <1>2, <1>6, <1>9, <2>3
  <2>4. ASSUME NEW a \in Alarms, cb2(a) # NULL, NEW u \in Threads, canceling'[u].alarm = a
        PROVE  cb2(a) > canceling'[u].upto
    <3>1. CASE canceling'[u] = canceling[u]
      BY <1>2, <1>6, <1>9, <2>4, <3>1
    <3>2. CASE canceling'[u].upto = 0
      BY <1>1, <1>7, <2>4, <3>2
    <3> QED
      BY <1>6, <1>9, <3>1, <3>2
  <2> QED
    BY <1>4, <2>1, <2>2, <2>3, <2>4
<1>10. ASSUME NEW t \in Threads, NEW x \in Alarms, Cancel(t, x) PROVE SetSince'
  <2>1. ASSUME NEW a \in Alarms PROVE cb2(a) <= sets' /\ canceled'[a] <= sets'
    BY <1>1, <1>2, <1>5, <1>7, <1>10
  <2>2. \A u \in Threads : \/ u = t /\ canceling'[u] = [alarm |-> x, upto |-> sets]
                           \/ canceling'[u] = canceling[u]
    BY <1>1, <1>5, <1>10
  <2>3. ASSUME NEW u \in Threads PROVE canceling'[u].upto <= sets'
    BY <1>1, <1>2, <1>5, <1>10, <2>2
  <2>4. ASSUME NEW a \in Alarms, cb2(a) # NULL PROVE cb2(a) > canceled'[a]
    BY <1>1, <1>2, <1>5, <1>10, <2>4
  <2>5. ASSUME NEW a \in Alarms, cb2(a) # NULL, NEW u \in Threads, canceling'[u].alarm = a
        PROVE  cb2(a) > canceling'[u].upto
    <3>1. a # x /\ cb2(a) = cb(a)
      BY <1>5, <1>10, <2>5
    <3>2. canceling'[u] = canceling[u]
      BY <2>2, <2>5, <3>1
    <3> QED
      BY <1>2, <2>5, <3>1, <3>2
  <2> QED
    BY <1>4, <2>1, <2>3, <2>4, <2>5
<1> QED
  BY <1>8, <1>9, <1>10, Undoing

LEMMA CalledSinceStep ==
  ASSUME IInv, [Next]_vars, raced' = {}, NEW c \in Callers
  PROVE  CalledSince(c)'
<1>1. /\ canceled \in [Alarms -> Nat] /\ canceled' \in [Alarms -> Nat]
      /\ canceling \in [Threads -> [alarm: Alarms \cup {None}, upto: Nat]]
      /\ canceling' \in [Threads -> [alarm: Alarms \cup {None}, upto: Nat]]
      /\ running \in [Callers -> [alarm: Alarms \cup {None}, callback: Nat, early: BOOLEAN]]
      /\ \A a \in Alarms : mon.alarm[a].callback \in Nat
  BY Counts
<1>2. tpc \in [Callers -> {"idle", "entered", "cb_lock", "calling"}]
  BY DEF IInv, TypeOK
<1>3. /\ CalledSince(c)
      /\ \A a \in Alarms : mon.alarm[a].callback # NULL =>
           /\ mon.alarm[a].callback > canceled[a]
           /\ \A t \in Threads : canceling[t].alarm = a => mon.alarm[a].callback > canceling[t].upto
  BY DEF IInv, Undone, SetSince
<1>4. CASE tpc' = tpc /\ running' = running /\ canceled' = canceled /\ canceling' = canceling
  BY <1>3, <1>4 DEF CalledSince
<1>5. CASE tpc'[c] \notin {"cb_lock", "calling"}
  BY <1>5 DEF CalledSince
<1>6. ASSUME tpc'[c] = tpc[c], running'[c] = running[c], canceled' = canceled, canceling' = canceling
      PROVE  CalledSince(c)'
  BY <1>3, <1>6 DEF CalledSince
<1>7. ASSUME NEW u \in Callers, Enter(u) PROVE CalledSince(c)'
  <2>1. CASE u = c
    BY <1>2, <1>5, <1>7, <2>1 DEF Enter
  <2>2. CASE u # c
    BY <1>1, <1>2, <1>6, <1>7, <2>2 DEF Enter
  <2> QED
    BY <2>1, <2>2
<1>8. ASSUME NEW u \in Callers, Ready(u) PROVE CalledSince(c)'
  <2>1. CASE u = c
    <3>1. PICK a \in Waiting : running'[u] = [alarm |-> a, callback |-> mon.alarm[a].callback,
                                              early |-> FALSE]
      BY <1>8, Taking
    <3>2. a \in Alarms /\ mon.alarm[a].callback # NULL
      BY DEF IInv, Places
    <3>3. running'[c].alarm = a /\ running'[c].callback = mon.alarm[a].callback
      BY <2>1, <3>1
    <3>4. canceled' = canceled /\ canceling' = canceling
      BY <1>8 DEF Ready
    <3> QED
      BY <1>3, <3>2, <3>3, <3>4 DEF CalledSince
  <2>2. CASE u # c
    <3>1. tpc'[c] = tpc[c] /\ running'[c] = running[c] /\ canceled' = canceled /\ canceling' = canceling
      BY <1>1, <1>2, <1>8, <2>2 DEF Ready
    <3> QED
      BY <1>6, <3>1
  <2> QED
    BY <2>1, <2>2
<1>9. ASSUME NEW u \in Callers, Call(u) PROVE CalledSince(c)'
  <2>1. /\ running' = running /\ canceled' = canceled /\ canceling' = canceling
        /\ tpc[u] = "cb_lock" /\ tpc' = [tpc EXCEPT ![u] = "calling"]
    BY <1>9 DEF Call
  <2>2. CASE u = c
    <3>1. tpc[c] = "cb_lock" /\ tpc'[c] = "calling"
      BY <1>2, <2>1, <2>2
    <3> QED
      BY <1>3, <2>1, <3>1 DEF CalledSince
  <2>3. CASE u # c
    BY <1>2, <1>6, <2>1, <2>3
  <2> QED
    BY <2>2, <2>3
<1>10. ASSUME NEW u \in Callers, CallReturns(u) PROVE CalledSince(c)'
  <2>1. CASE u = c
    BY <1>2, <1>5, <1>10, <2>1 DEF CallReturns
  <2>2. CASE u # c
    BY <1>1, <1>2, <1>6, <1>10, <2>2 DEF CallReturns
  <2> QED
    BY <2>1, <2>2
<1>11. CASE NothingReady
  <2>1. CASE c = "default"
    BY <1>2, <1>5, <1>11, <2>1 DEF NothingReady
  <2>2. CASE c # "default"
    BY <1>2, <1>6, <1>11, <2>2 DEF NothingReady
  <2> QED
    BY <2>1, <2>2
<1>12. ASSUME NEW t \in Threads, NEW a \in Alarms, Cancel(t, a) PROVE CalledSince(c)'
  <2>1. tpc' = tpc /\ running' = running /\ canceled' = canceled /\ tpc[c] # "cb_lock"
    BY <1>12 DEF Cancel, MayCall, AlarmsMutexFree
  <2> QED
    BY <1>3, <2>1 DEF CalledSince
<1>13. ASSUME NEW t \in Threads, CancelReturns(t) PROVE CalledSince(c)'
  <2> DEFINE a == running[c].alarm
             k == running[c].callback
  <2>1. /\ \A b \in Alarms :
              \/ canceled'[b] = canceled[b]
              \/ /\ b = canceling[t].alarm /\ ~HoldsCallbackMutex(t, b)
                 /\ canceled'[b] \in {canceled[b], canceling[t].upto}
        /\ \A u \in Threads : canceling'[u] = canceling[u] \/ canceling'[u].upto = 0
        /\ \A u \in Callers \ {t} : ~HoldsCallbackMutex(u, canceling[t].alarm)
        /\ tpc' = tpc /\ running' = running
    BY <1>13, Returning
  <2> SUFFICES ASSUME tpc[c] \in {"cb_lock", "calling"}
               PROVE  /\ a \in Alarms /\ k > canceled'[a]
                      /\ tpc[c] = "cb_lock" => \A u \in Threads :
                           canceling'[u].alarm = a => k > canceling'[u].upto
    BY <2>1, Zenon DEF CalledSince
  <2>2. /\ a \in Alarms /\ k > canceled[a]
        /\ tpc[c] = "cb_lock" => \A u \in Threads : canceling[u].alarm = a => k > canceling[u].upto
    BY <1>3 DEF CalledSince
  <2>3. canceled[a] \in Nat /\ k \in Nat
    BY <1>1, <2>2
  <2>4. tpc[c] = "calling" => HoldsCallbackMutex(c, a)
    BY DEF HoldsCallbackMutex
  <2> HIDE DEF a, k
  <2>5. k > canceled'[a]
    <3>1. CASE canceled'[a] = canceled[a]
      BY <2>2, <3>1
    <3>2. CASE a = canceling[t].alarm /\ ~HoldsCallbackMutex(t, a) /\ canceled'[a] = canceling[t].upto
      <4>1. tpc[c] = "cb_lock"
        BY <2>1, <2>4, <3>2
      <4> QED
        BY <2>2, <3>2, <4>1
    <3> QED
      BY <2>1, <2>2, <3>1, <3>2
  <2>6. ASSUME tpc[c] = "cb_lock", NEW u \in Threads, canceling'[u].alarm = a
        PROVE  k > canceling'[u].upto
    <3>1. CASE canceling'[u] = canceling[u]
      BY <2>2, <2>6, <3>1
    <3>2. CASE canceling'[u].upto = 0
      BY <2>2, <2>3, <3>2
    <3> QED
      BY <2>1, <3>1, <3>2
  <2> QED
    BY <2>2, <2>5, <2>6
<1>14. \/ tpc' = tpc /\ running' = running /\ canceled' = canceled /\ canceling' = canceling
       \/ NothingReady
       \/ \E u \in Callers : Enter(u)
       \/ \E u \in Callers : Ready(u)
       \/ \E u \in Callers : Call(u)
       \/ \E u \in Callers : CallReturns(u)
       \/ \E t \in Threads : CancelReturns(t)
       \/ \E t \in Threads, a \in Alarms : Cancel(t, a)
  BY Steps DEF Tick, DispatcherTakes, DispatcherDispatches, CleanupSignal, CleanupStep, Set, vars
<1> QED
  BY <1>4, <1>7, <1>8, <1>9, <1>10, <1>11, <1>12, <1>13, <1>14

LEMMA StoppingStep ==
  ASSUME IInv, [Next]_vars, raced' = {}
  PROVE  Stopping'
<1>1. /\ Stopping /\ tpc \in [Callers -> {"idle", "entered", "cb_lock", "calling"}]
      /\ "default" \in Callers
  BY DEF IInv, TypeOK, Callers
<1>2. CASE Tick \/ DispatcherTakes \/ DispatcherDispatches
  BY <1>1, <1>2 DEF Stopping, Tick, DispatcherTakes, DispatcherDispatches
<1>3. CASE CleanupSignal \/ CleanupStep
  BY <1>1, <1>3 DEF Stopping, CleanupSignal, CleanupStep
<1>4. ASSUME NEW c \in Callers, Enter(c) PROVE Stopping'
  <2>1. CASE c = "default"
    BY <1>1, <1>4, <2>1 DEF Stopping, Enter
  <2>2. CASE c # "default"
    BY <1>1, <1>4, <2>2 DEF Stopping, Enter
  <2> QED
    BY <2>1, <2>2
<1>5. ASSUME NEW c \in Callers, Ready(c) \/ Call(c) PROVE Stopping'
  BY <1>1, <1>5 DEF Stopping, Ready, Call
<1>6. ASSUME NEW c \in Callers, CallReturns(c) PROVE Stopping'
  BY <1>1, <1>6 DEF Stopping, CallReturns
<1>7. NothingReady => Stopping'
  BY <1>1 DEF Stopping, NothingReady
<1>8. CASE UNCHANGED <<cpc, active, dpc, tpc>>
  BY <1>1, <1>8 DEF Stopping
<1>9. \/ UNCHANGED <<cpc, active, dpc, tpc>>
      \/ Tick \/ DispatcherTakes \/ DispatcherDispatches \/ CleanupSignal \/ CleanupStep
      \/ NothingReady
      \/ \E u \in Callers : Enter(u)
      \/ \E u \in Callers : Ready(u)
      \/ \E u \in Callers : Call(u)
      \/ \E u \in Callers : CallReturns(u)
  BY Steps DEF CancelReturns, Cancel, Set, vars
<1> QED
  BY <1>2, <1>3, <1>4, <1>5, <1>6, <1>7, <1>8, <1>9

-----------------------------------------------------------------------------
\* The timers and the list that they are for.
Guarded == WakelockBalanced /\ (~WakelockFails => WakeupPending)

\* Nothing that the timers depend on changes.
LEMMA StillGuarded ==
  ASSUME Guarded, cpc' = cpc, dpc' = dpc, mon'.timers = mon.timers,
         \/ mon'.alarms = <<>> /\ mon.alarms = <<>>
         \/ /\ mon'.alarms # <<>> /\ mon.alarms # <<>> /\ Head(mon'.alarms) = Head(mon.alarms)
            /\ mon'.alarm[Head(mon'.alarms)].deadline = mon.alarm[Head(mon.alarms)].deadline
  PROVE  Guarded'
<1> DEFINE d == mon.alarm[Head(mon.alarms)].deadline
           d2 == mon'.alarm[Head(mon'.alarms)].deadline
           t == mon.timers
           t2 == mon'.timers
           e == mon.alarms # <<>>
           e2 == mon'.alarms # <<>>
<1>1. t2 = t /\ (e2 <=> e) /\ (e => d2 = d)
  OBVIOUS
<1>2. Guarded' <=>
        /\ t2.wakelock = IF t2.timer_set THEN 1 ELSE 0
        /\ t2.timer_set /\ cpc' = "none" => e2
        /\ ~WakelockFails =>
             (e2 /\ cpc' = "none" =>
                \/ t2.alarm_expired > 0 \/ dpc' = "taken"
                \/ t2.timer # Off /\ t2.timer <= d2
                \/ t2.wakeup_timer # Off /\ t2.wakeup_timer <= d2)
  BY Zenon DEF Guarded, WakelockBalanced, WakeupPending, Off
<1>3. /\ t.wakelock = IF t.timer_set THEN 1 ELSE 0
      /\ t.timer_set /\ cpc = "none" => e
      /\ ~WakelockFails =>
           (e /\ cpc = "none" =>
              \/ t.alarm_expired > 0 \/ dpc = "taken"
              \/ t.timer # Off /\ t.timer <= d
              \/ t.wakeup_timer # Off /\ t.wakeup_timer <= d)
  BY Zenon DEF Guarded, WakelockBalanced, WakeupPending, Off
<1> HIDE DEF d, d2, t, t2, e, e2
<1> QED
  BY <1>1, <1>2, <1>3, Zenon

\* A critical section that ends with reschedule_root_alarm.
LEMMA GuardedAnew ==
  ASSUME Balanced(mon'), Held(mon'), ~WakelockFails => Vigilant(mon')
  PROVE  Guarded'
<1>1. WakelockBalanced'
  BY DEF Balanced, Held, WakelockBalanced
<1>2. ASSUME ~WakelockFails PROVE WakeupPending'
  <2>1. Vigilant(mon')
    BY <1>2
  <2> QED
    BY <2>1, Zenon DEF Vigilant, WakeupPending, Off
<1> QED
  BY <1>1, <1>2 DEF Guarded

LEMMA GuardedStep ==
  ASSUME IInv, [Next]_vars, raced' = {}
  PROVE  Guarded'
<1>1. Guarded /\ mon \in Monitor /\ mon.alarm \in [Alarms -> AlarmT] /\ mon.timers \in Timers
  BY DEF IInv, Guarded, TypeOK, Monitor
<1>2. ASSUME cpc' = cpc, dpc' = dpc, mon'.timers = mon.timers, mon'.alarms = mon.alarms,
             mon'.alarm = mon.alarm
      PROVE  Guarded'
  BY <1>1, <1>2, StillGuarded
<1>3. ASSUME Attended(mon', mon), cpc' = cpc, dpc' = dpc PROVE Guarded'
  <2>1. CASE Held(mon') /\ (~WakelockFails => Vigilant(mon'))
    BY <1>3, <2>1, GuardedAnew DEF Attended
  <2>2. CASE /\ mon'.timers = mon.timers /\ mon'.alarms # <<>> /\ mon.alarms # <<>>
             /\ Head(mon'.alarms) = Head(mon.alarms)
             /\ mon'.alarm[Head(mon'.alarms)].deadline = mon.alarm[Head(mon.alarms)].deadline
    BY <1>1, <1>3, <2>2, StillGuarded, Zenon
  <2>3. CASE mon'.timers = mon.timers /\ mon'.alarms = <<>> /\ mon.alarms = <<>>
    BY <1>1, <1>3, <2>3, StillGuarded, Zenon
  <2> QED
    BY <1>3, <2>1, <2>2, <2>3, Zenon DEF Attended
<1>4. CASE Tick
  <2>1. ListsRest /\ Ticked(mon'.timers, mon.timers) /\ cpc' = cpc /\ dpc' = dpc
    BY <1>4, Ticking DEF Tick
  <2> QED
    BY <1>1, <2>1 DEF ListsRest, Ticked, Guarded, WakelockBalanced, WakeupPending, Timers
<1>5. CASE DispatcherTakes
  <2>1. /\ mon'.alarms = mon.alarms /\ mon'.alarm = mon.alarm /\ cpc' = cpc
        /\ mon'.timers.wakelock = mon.timers.wakelock /\ mon'.timers.timer_set = mon.timers.timer_set
        /\ dpc' = IF active THEN "taken" ELSE "exited"
    BY <1>1, <1>5 DEF DispatcherTakes, Monitor, Timers
  <2>2. cpc = "none" => active
    BY DEF IInv, Stopping
  <2> QED
    BY <1>1, <2>1, <2>2 DEF Guarded, WakelockBalanced, WakeupPending
<1>6. CASE DispatcherDispatches
  <2>1. PICK c1 \in Outcomes, c2 \in Outcomes : mon' = DispatchFront(mon, c1, c2)
    BY <1>6 DEF DispatcherDispatches
  <2>2. Rescheduled(mon', mon) \/ \E a : DispatchDone(mon', a)
    BY <2>1, Dispatching
  <2>3. Balanced(mon') /\ Held(mon') /\ (~WakelockFails => Vigilant(mon'))
    BY <2>2, Zenon DEF Rescheduled, DispatchDone
  <2> QED
    BY <2>3, GuardedAnew
<1>7. CASE CleanupSignal \/ CleanupStep
  <2>1. /\ mon'.timers.wakelock = mon.timers.wakelock
        /\ mon'.timers.timer_set = mon.timers.timer_set /\ cpc' # "none"
    <3>1. CASE CleanupSignal
      BY <1>1, <3>1 DEF CleanupSignal, Monitor, Timers
    <3>2. CASE CleanupStep
      <4>1. cpc' # "none"
        BY <3>2 DEF CleanupStep
      <4>2. \/ mon'.timers = mon.timers
            \/ mon' = [mon EXCEPT !.timers.timer = Off, !.timers.wakeup_timer = Off,
                                  !.timers.alarm_expired = 0, !.alarms = <<>>]
        BY <1>1, <3>2 DEF CleanupStep, Monitor
      <4>3. CASE mon' = [mon EXCEPT !.timers.timer = Off, !.timers.wakeup_timer = Off,
                                    !.timers.alarm_expired = 0, !.alarms = <<>>]
        BY <1>1, <4>1, <4>3 DEF Monitor, Timers
      <4> QED
        BY <4>1, <4>2, <4>3
    <3> QED
      BY <1>7, <3>1, <3>2
  <2> QED
    BY <1>1, <2>1 DEF Guarded, WakelockBalanced, WakeupPending
<1>8. ASSUME NEW c \in Callers, Enter(c) PROVE Guarded'
  <2>1. /\ mon'.timers = mon.timers /\ mon'.alarms = mon.alarms /\ mon'.alarm = mon.alarm
        /\ cpc' = cpc /\ dpc' = dpc
    BY <1>1, <1>8 DEF Enter, Monitor
  <2> QED
    BY <1>2, <2>1
<1>9. ASSUME NEW c \in Callers, Ready(c) PROVE Guarded'
  <2> DEFINE a == IF c = "default" THEN Head(mon.queue) ELSE running[c].alarm
             h == Head(mon.alarms)
             f == mon.alarm
             g == mon'.alarm
  <2>1. /\ mon'.timers = mon.timers /\ mon'.alarms = mon.alarms /\ cpc' = cpc /\ dpc' = dpc
    BY <1>1, <1>9 DEF Ready, Monitor
  <2>2. g = [f EXCEPT ![a] = IF IsPeriodic(f[a].kind) THEN f[a] ELSE Idled(f[a])]
    BY <1>1, <1>9 DEF Ready, Monitor, Idled
  <2>3. a \in Waiting
    <3>1. PICK b \in Waiting : running'[c] = [alarm |-> b, callback |-> mon.alarm[b].callback,
                                              early |-> FALSE]
      BY <1>9, Taking
    <3>2. running'[c].alarm = a
      BY <1>9 DEF Ready, IInv, TypeOK
    <3> QED
      BY <3>1, <3>2
  <2>4. a \in Alarms /\ (~IsPeriodic(f[a].kind) => a \notin Range(mon.alarms))
    BY <2>3 DEF IInv, Places
  <2>5. mon.alarms # <<>> => h \in Range(mon.alarms) /\ h \in Alarms
    <3>1. ASSUME mon.alarms # <<>> PROVE TailOf(Alarms, Tail(mon.alarms), mon.alarms)
      BY <3>1, Entering, Tailed
    <3>2. mon.alarms # <<>> => h \in Range(mon.alarms)
      BY <3>1 DEF TailOf
    <3> QED
      BY <3>2, Entering
  <2> HIDE DEF a
  <2>6. mon.alarms # <<>> => g[h] = f[h]
    BY <1>1, <2>2, <2>4, <2>5
  <2> QED
    BY <1>1, <2>1, <2>6, StillGuarded
<1>10. ASSUME NEW t \in Threads, NEW a \in Alarms, Cancel(t, a) PROVE Guarded'
  <2>1. PICK c \in Outcomes : mon' = CancelInternal(mon, a, c)
    BY <1>10 DEF Cancel
  <2>2. CancelDone(mon', a)
    BY <2>1, Canceling
  <2>3. cpc' = cpc /\ dpc' = dpc
    BY <1>10 DEF Cancel
  <2> QED
    BY <1>3, <2>2, <2>3, Zenon DEF CancelDone
<1>11. ASSUME NEW t \in Threads, NEW a \in Alarms, NEW interval \in Intervals,
              NEW mloop \in BOOLEAN, Set(t, a, interval, mloop)
       PROVE  Guarded'
  <2>1. PICK c \in Outcomes : mon' = SetInternal(mon, a, interval, mloop, sets + 1, c)
    BY <1>11 DEF Set
  <2>2. /\ mloop <=> OnMloop(mon.alarm[a].kind)
        /\ sets < MaxSets /\ cpc' = cpc /\ dpc' = dpc
    BY <1>11 DEF Set
  <2>3. SetDone(mon', a, interval, mloop, sets + 1)
    BY <2>1, <2>2, Setting
  <2> QED
    BY <1>3, <2>2, <2>3, Zenon DEF SetDone
<1>12. CASE \/ NothingReady \/ (\E c \in Callers : Call(c) \/ CallReturns(c))
            \/ (\E t \in Threads : CancelReturns(t)) \/ UNCHANGED vars
  BY <1>2, <1>12 DEF NothingReady, Call, CallReturns, CancelReturns, vars
<1> QED
  BY <1>4, <1>5, <1>6, <1>7, <1>8, <1>9, <1>10, <1>11, <1>12, Steps, Zenon

-----------------------------------------------------------------------------
LEMMA InitIInv ==
  ASSUME Init
  PROVE  IInv
<1>1. PICK kind \in [Alarms -> Kinds] :
        mon = [alarms |-> <<>>, queue |-> <<>>, tasks |-> <<>>,
               alarm |-> [a \in Alarms |->
                           [kind |-> kind[a], deadline |-> 0, creation_time |-> 0,
                            period |-> 0, callback |-> NULL, queued_on |-> "none",
                            for_msg_loop |-> FALSE]],
               timers |-> [timer |-> Off, wakeup_timer |-> Off, timer_set |-> FALSE,
                           wakelock |-> 0, alarm_expired |-> 0]]
  BY DEF Init
<1>2. /\ mon.alarms = <<>> /\ mon.queue = <<>> /\ mon.tasks = <<>>
      /\ mon.timers = [timer |-> Off, wakeup_timer |-> Off, timer_set |-> FALSE,
                       wakelock |-> 0, alarm_expired |-> 0]
      /\ mon.alarm \in [Alarms -> AlarmT] /\ \A a \in Alarms : mon.alarm[a].callback = NULL
  BY <1>1, AlarmAssumption DEF AlarmT, NULL
<1>3. mon \in Monitor
  <2>1. mon.timers \in Timers
    BY <1>2 DEF Timers, Off
  <2>2. <<>> \in Seq(Alarms)
    OBVIOUS
  <2>3. mon = [alarms |-> mon.alarms, queue |-> mon.queue, tasks |-> mon.tasks,
               alarm |-> mon.alarm, timers |-> mon.timers]
    BY <1>1
  <2> QED
    BY <1>2, <2>1, <2>2, <2>3 DEF Monitor
<1>4. TypeOK
  BY <1>3, AlarmAssumption DEF Init, TypeOK, NoCallback, NotCanceling, NULL
<1>5. Range(<<>>) = {} /\ NoRepeat(<<>>) /\ \A R : InOrder(R, <<>>)
  BY DEF Range, NoRepeat, InOrder
<1>6. Entered = {} /\ Waiting = {}
  BY <1>2, <1>5 DEF Init, Entered, Waiting, Callers
<1>7. Places
  BY <1>2, <1>5, <1>6 DEF Places, SetRight
<1>8. Punctual /\ Undone /\ Stopping
  BY <1>2, <1>5, <1>6 DEF Init, Punctual, Undone, SetSince, CalledSince, Stopping, NULL,
                          NotCanceling, Callers
<1>9. Line /\ PeriodicOnGrid
  BY <1>2, <1>5 DEF Line, AllBefore, PeriodicOnGrid
<1>10. WakelockBalanced /\ WakeupPending
  BY <1>2 DEF WakelockBalanced, WakeupPending
<1>11. raced = {}
  BY DEF Init
<1> QED
  BY <1>4, <1>7, <1>8, <1>9, <1>10, <1>11 DEF IInv

LEMMA IInvStep ==
  ASSUME IInv, [Next]_vars, raced' = {}
  PROVE  IInv'
<1>1. TypeOK' /\ Places' /\ Punctual' /\ Stopping' /\ Line' /\ PeriodicOnGrid' /\ Guarded'
  BY TypeStep, PlacesStep, PunctualStep, StoppingStep, LineStep, GridStep, GuardedStep
<1>2. Undone'
  BY SetSinceStep, CalledSinceStep, Zenon DEF Undone
<1> QED
  BY <1>1, <1>2, Zenon DEF IInv, Guarded

\* What was raced stays raced.
LEMMA RacedGrows ==
  ASSUME [Next]_vars, raced' = {}
  PROVE  raced = {}
<1>1. ASSUME NEW a, Racing(a) PROVE raced = {}
  BY <1>1 DEF Racing
<1>2. CASE raced' = raced
  BY <1>2
<1>3. ASSUME NEW c \in Callers, Enter(c) \/ Ready(c) \/ Call(c) \/ CallReturns(c)
      PROVE  raced' = raced
  BY <1>3 DEF Enter, Ready, Call, CallReturns
<1>4. ASSUME NEW t \in Threads, CancelReturns(t) PROVE raced' = raced
  BY <1>4 DEF CancelReturns
<1>5. ASSUME NEW t \in Threads, NEW a \in Alarms, Cancel(t, a) PROVE Racing(a)
  BY <1>5 DEF Cancel
<1>6. ASSUME NEW t \in Threads, NEW a \in Alarms, NEW interval \in Intervals,
             NEW mloop \in BOOLEAN, Set(t, a, interval, mloop)
      PROVE  Racing(a)
  BY <1>6 DEF Set
<1>7. Tick \/ DispatcherTakes \/ DispatcherDispatches \/ NothingReady
        \/ CleanupSignal \/ CleanupStep \/ UNCHANGED vars => raced' = raced
  BY DEF Tick, DispatcherTakes, DispatcherDispatches, NothingReady, CleanupSignal, CleanupStep, vars
<1> QED
  BY <1>1, <1>2, <1>3, <1>4, <1>5, <1>6, <1>7, Steps, Zenon

-----------------------------------------------------------------------------
\* The invariant of the alarms: any number of alarms of any kind, set and canceled
\* by any threads, with or without alarm_cleanup, whether or not
\* wakelock_acquire may fail, as long as no alarm is set or canceled between the
\* moment the message loop begins to run its closure and alarm_ready_mloop has
\* alarms_mutex.
THEOREM AlarmInvariant ==
  Spec => [](raced = {} => IInv)
<1> DEFINE J == raced = {} => IInv
<1>1. Init => J
  BY InitIInv
<1>2. J /\ [Next]_vars => J'
  <2> SUFFICES ASSUME J, [Next]_vars, raced' = {} PROVE IInv'
    OBVIOUS
  <2>1. raced = {}
    BY RacedGrows
  <2> QED
    BY <2>1, IInvStep
<1> HIDE DEF J
<1>3. Spec => []J
  BY <1>1, <1>2, PTL DEF Spec
<1> QED
  BY <1>3 DEF J

\* When alarm_cancel has returned, on whatever thread, no callback of a set that
\* it undid is running or will be called, as long as no alarm was set or canceled
\* in the message loop's hand; and alarm_cleanup returns with the dispatcher gone
\* and the default callback thread idle.
THEOREM AlarmCancelGuarantee ==
  Spec => []CancelGuarantee
<1>1. (raced = {} => IInv) => CancelGuarantee
  BY DEF IInv, Undone, CalledSince, Stopping, CancelGuarantee, CancelPromise
<1> QED
  BY <1>1, AlarmInvariant, PTL

\* alarm_ready_generic calls no callback before its interval is over, and
\* schedule_next_instance keeps a periodic alarm on the grid of its period.
THEOREM AlarmCalledOnTime ==
  Spec => []CalledOnTime
<1>1. (raced = {} => IInv) => CalledOnTime
  BY DEF IInv, Punctual, CalledOnTime, NotEarly
<1> QED
  BY <1>1, AlarmInvariant, PTL

LEMMA Once ==
  ASSUME NEW s \in Seq(Alarms), NoRepeat(s), NEW a
  PROVE  Occurrences(s, a) \in {0, 1} /\ (a \notin Range(s) => Occurrences(s, a) = 0)
<1> DEFINE I == {i \in DOMAIN s : s[i] = a}
<1>1. Listed(Alarms, s)
  BY ElementsOf
<1>2. CASE a \in Range(s)
  <2>1. PICK k \in DOMAIN s : s[k] = a
    BY <1>1, <1>2 DEF Listed
  <2>2. I = {k}
    BY <2>1 DEF NoRepeat
  <2> QED
    BY <1>2, <2>2, FS_Singleton DEF Occurrences
<1>3. CASE a \notin Range(s)
  <2>1. I = {}
    BY <1>1, <1>3 DEF Listed
  <2> QED
    BY <2>1, FS_EmptySet DEF Occurrences
<1> QED
  BY <1>2, <1>3

\* An alarm is in the list at most once and waits for its thread at most once
\* (remove_pending_alarm need not be defensive), and the one-time alarms of the
\* default thread are served in the order of their deadlines and calls.
THEOREM AlarmPendingInOrder ==
  Spec => []PendingInOrder
<1>1. IInv => OneInstance
  <2> SUFFICES ASSUME IInv, NEW a \in Alarms
               PROVE  /\ Occurrences(mon.alarms, a) <= 1
                      /\ Occurrences(mon.queue, a) + Occurrences(mon.tasks, a) <= 1
    BY DEF OneInstance
  <2>1. /\ mon.alarms \in Seq(Alarms) /\ mon.queue \in Seq(Alarms) /\ mon.tasks \in Seq(Alarms)
        /\ NoRepeat(mon.alarms) /\ NoRepeat(mon.queue) /\ NoRepeat(mon.tasks)
    BY Entering DEF Unrepeated
  <2>2. ~(a \in Range(mon.queue) /\ a \in Range(mon.tasks))
    BY DEF IInv, Places
  <2>3. /\ Occurrences(mon.alarms, a) \in {0, 1}
        /\ Occurrences(mon.queue, a) \in {0, 1} /\ Occurrences(mon.tasks, a) \in {0, 1}
        /\ Occurrences(mon.queue, a) = 0 \/ Occurrences(mon.tasks, a) = 0
    BY <2>1, <2>2, Once
  <2> QED
    BY <2>3
<1>2. IInv => ServedInOrder
  <2> DEFINE w == mon.queue \o mon.alarms
             f == mon.alarm
  <2> SUFFICES ASSUME IInv, NEW i \in DOMAIN w, NEW j \in DOMAIN w, i < j,
                      {f[w[i]].kind, f[w[j]].kind} = {"once"}
               PROVE  \/ f[w[i]].deadline < f[w[j]].deadline
                      \/ f[w[i]].deadline = f[w[j]].deadline /\ f[w[i]].callback < f[w[j]].callback
    BY DEF ServedInOrder
  <2>1. mon.alarms \in Seq(Alarms) /\ mon.queue \in Seq(Alarms)
    BY Entering
  <2>2. InOrder(Served(f), w)
    BY <2>1, ConcatInOrder DEF IInv, Line
  <2>3. <<w[i], w[j]>> \in Served(f)
    BY <2>2 DEF InOrder
  <2>4. f[w[i]].kind = "once" /\ f[w[j]].kind = "once"
    OBVIOUS
  <2> HIDE DEF w, f
  <2> QED
    BY <2>3, <2>4 DEF Served
<1>3. (raced = {} => IInv) => PendingInOrder
  BY <1>1, <1>2 DEF PendingInOrder
<1> QED
  BY <1>3, AlarmInvariant, PTL

\* If wakelock_acquire does not fail, then while alarms are in the list the
\* dispatcher looks at it no later than the first deadline, and the wakelock is
\* held exactly while the timer is set, once.
THEOREM AlarmTimersRight ==
  ASSUME ~WakelockFails
  PROVE  Spec => []TimersRight
<1>1. (raced = {} => IInv) => TimersRight
  BY DEF IInv, TimersRight
<1> QED
  BY <1>1, AlarmInvariant, PTL

\* Also if wakelock_acquire fails, reschedule_root_alarm releases the wakelock
\* as often as it has taken it, and holds it for nothing but pending alarms.
THEOREM AlarmWakelock ==
  Spec => [](raced = {} => TypeOK /\ WakelockBalanced)
<1>1. (raced = {} => IInv) => (raced = {} => TypeOK /\ WakelockBalanced)
  BY DEF IInv
<1> QED
  BY <1>1, AlarmInvariant, PTL

===============================================================================
