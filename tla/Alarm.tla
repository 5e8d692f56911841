------------------------------- MODULE Alarm -------------------------------
(***************************************************************************)
(* osi/src/alarm.cc: all alarms of the stack share one sorted list, one    *)
(* posix timer for the near future (armed only under a wakelock), one      *)
(* wake-up timer for the far future, a semaphore that the timers post and  *)
(* a dispatcher thread that moves expired alarms to the queue of the       *)
(* default callback thread or, as a cancelable closure, to the message     *)
(* loop.                                                                   *)
(*                                                                         *)
(* Everything that alarms_mutex protects is the record mon, and a critical *)
(* section is one step; the mutex is held across steps only where the code *)
(* blocks while holding it: at "cb_lock", where alarm_ready_generic waits  *)
(* for the alarm's callback_mutex, and inside alarm_cleanup.  The clock    *)
(* does not advance inside a critical section.  A canceled closure is      *)
(* taken out of the message loop, where it would run as a no-op.           *)
(***************************************************************************)
EXTENDS Integers, Sequences, FiniteSets, FiniteSetsExt, SequencesExt, TLC

CONSTANTS Alarms,            \* the alarm_t objects
          Kinds,             \* what an alarm may be made for: "once", "periodic"
                             \* with alarm_set; "mloop", "mloop_periodic" with
                             \* alarm_set_on_mloop
          Users,             \* threads other than the two callback threads
          Intervals,         \* values of interval_ms
          Threshold,         \* TIMER_INTERVAL_FOR_WAKELOCK_IN_MS
          MaxTime,           \* bound on the clock
          MaxSets,           \* bound on the calls of alarm_set(_on_mloop)
          WakelockFails,     \* TRUE: wakelock_acquire may fail
          WithCleanup,       \* TRUE: alarm_cleanup may be called
          None

ASSUME AlarmAssumption ==
  /\ Kinds \subseteq {"once", "periodic", "mloop", "mloop_periodic"}
  /\ Intervals \subseteq Nat
  /\ Threshold \in Nat /\ MaxTime \in Nat \ {0} /\ MaxSets \in Nat
  /\ {WakelockFails, WithCleanup} \subseteq BOOLEAN

VARIABLES now,        \* the clock, in ms
          mon,        \* what alarms_mutex protects, see Monitor
          dpc,        \* where callback_dispatch is
          active,     \* dispatcher_thread_active
          tpc,        \* tpc[c]: where callback thread c is
          running,    \* running[c]: the locals of its alarm_ready_generic
          canceling,  \* canceling[t]: the alarm_cancel that t is inside of
          cpc,        \* where alarm_cleanup is
          sets,       \* number of alarm_set calls
          canceled,   \* canceled[a]: the last set that a returned cancel undid
          raced       \* history: the alarms set or canceled in the message loop's hand

vars == <<now, mon, dpc, active, tpc, running, canceling, cpc, sets, canceled, raced>>

Callers == {"default", "mloop"}      \* the two callback threads
Threads == Users \cup Callers
Off == 0                             \* a timer that is not armed
NULL == 0                            \* no callback

IsPeriodic(kind) == kind \in {"periodic", "mloop_periodic"}
OnMloop(kind) == kind \in {"mloop", "mloop_periodic"}

\* alarm_t.  The callback is the number of the alarm_set call that installed it;
\* kind stands for is_periodic and for the function the alarm is set with.
AlarmT == [kind: Kinds, deadline: Nat, creation_time: Nat, period: Nat, callback: 0..MaxSets,
           queued_on: {"none", "default"}, for_msg_loop: BOOLEAN]

\* timer and wakeup_timer hold the time they fire at.
Timers == [timer: Nat, wakeup_timer: Nat, timer_set: BOOLEAN, wakelock: 0..1,
           alarm_expired: Nat]

\* What alarms_mutex protects: the list of pending alarms, the processing queue
\* of the default callback thread, the closures in the message loop, the alarms.
Monitor == [alarms: Seq(Alarms), queue: Seq(Alarms), tasks: Seq(Alarms),
            alarm: [Alarms -> AlarmT], timers: Timers]

\* The types: in particular the wakelock is never taken twice.
TypeOK ==
  /\ now \in 1..MaxTime
  /\ mon \in Monitor
  /\ dpc \in {"wait", "taken", "exited"} /\ active \in BOOLEAN
  /\ tpc \in [Callers -> {"idle", "entered", "cb_lock", "calling"}]
  /\ running \in [Callers -> [alarm: Alarms \cup {None}, callback: 0..MaxSets, early: BOOLEAN]]
  /\ canceling \in [Threads -> [alarm: Alarms \cup {None}, upto: 0..MaxSets]]
  /\ cpc \in {"none", "join_dispatcher", "lock", "unregister", "join_default", "done"}
  /\ sets \in 0..MaxSets /\ canceled \in [Alarms -> 0..MaxSets]
  /\ raced \subseteq Alarms

NoCallback == [alarm |-> None, callback |-> NULL, early |-> FALSE]
NotCanceling == [alarm |-> None, upto |-> 0]

\* After lazy_initialize, with every alarm created (alarm_new_internal).
Init ==
  /\ now \in 1..MaxTime
  /\ \E kind \in [Alarms -> Kinds] :
     mon = [alarms |-> <<>>, queue |-> <<>>, tasks |-> <<>>,
            alarm |-> [a \in Alarms |->
                        [kind |-> kind[a], deadline |-> 0, creation_time |-> 0,
                         period |-> 0, callback |-> NULL, queued_on |-> "none",
                         for_msg_loop |-> FALSE]],
            timers |-> [timer |-> Off, wakeup_timer |-> Off, timer_set |-> FALSE,
                        wakelock |-> 0, alarm_expired |-> 0]]
  /\ dpc = "wait" /\ active = TRUE
  /\ tpc = [c \in Callers |-> "idle"] /\ running = [c \in Callers |-> NoCallback]
  /\ canceling = [t \in Threads |-> NotCanceling]
  /\ cpc = "none"
  /\ sets = 0 /\ canceled = [a \in Alarms |-> 0] /\ raced = {}


AlarmsMutexFree ==
  /\ \A c \in Callers : tpc[c] # "cb_lock"
  /\ cpc \notin {"unregister", "join_default", "done"}

HoldsCallbackMutex(t, a) == t \in Callers /\ tpc[t] = "calling" /\ running[t].alarm = a

-----------------------------------------------------------------------------
\* The functions that run under alarms_mutex map mon to its next value.  What
\* they cannot know is the choice c: whether wakelock_acquire succeeds, and
\* whether a timer that is set to a time in the past also fires itself.
Outcomes == [acquired: IF WakelockFails THEN BOOLEAN ELSE {TRUE}, fires: 0..1]

\* s without any of its elements a; the others keep their order.
Without(s, a) ==
  LET kept == {i \in DOMAIN s : s[i] # a}
      nth(k) == CHOOSE i \in kept : Cardinality({j \in kept : j < i}) = k - 1
  IN [k \in 1..Cardinality(kept) |-> s[nth(k)]]

IsFront(s, a) == s.alarms # <<>> /\ Head(s.alarms) = a

\* The timers as reschedule_root_alarm leaves them.  A timer armed for a time
\* that has passed is disarmed at once and alarm_expired is posted "manually".
Rearmed(s, c) ==
  LET next == IF s.alarms = <<>> THEN Off ELSE s.alarm[Head(s.alarms)].deadline
      t    == s.timers
      near == s.alarms # <<>> /\ next - now < Threshold
      armed == near /\ (t.timer_set \/ c.acquired)
  IN [timer |-> IF armed /\ next > now THEN next ELSE Off,
      wakeup_timer |-> IF s.alarms = <<>> THEN t.wakeup_timer
                       ELSE IF ~near THEN next
                       ELSE IF armed THEN Off ELSE t.wakeup_timer,
      timer_set |-> armed,
      wakelock |-> t.wakelock + (IF armed /\ ~t.timer_set THEN 1 ELSE 0)
                              - (IF t.timer_set /\ ~armed THEN 1 ELSE 0),
      alarm_expired |-> t.alarm_expired + (IF armed /\ next <= now THEN 1 + c.fires ELSE 0)]

\* Mutant of RescheduleRoot: a deadline in the past is left to the timer.
RescheduleNoGuns(s, c) ==
  LET r == Rearmed(s, c)
  IN [s EXCEPT !.timers =
        [r EXCEPT !.alarm_expired = IF @ > s.timers.alarm_expired THEN @ - 1 ELSE @]]

\* reschedule_root_alarm
RescheduleRoot(s, c) == [s EXCEPT !.timers = Rearmed(s, c)]

\* remove_pending_alarm: goes by the alarm's present for_msg_loop and queue.
\* list_remove takes out one instance, the loop over the queue every one.
RemovePending(s, a) ==
  [s EXCEPT !.alarms = RemoveFirst(@, a),
            !.tasks = IF s.alarm[a].for_msg_loop THEN Without(@, a) ELSE @,
            !.queue = IF ~s.alarm[a].for_msg_loop /\ s.alarm[a].queued_on = "default"
                      THEN Without(@, a) ELSE @]

\* Mutant of NextDeadline: the time the alarm was late is not taken off.
NextDeadlineDrifts(r) == now + r.period

\* The deadline computed by schedule_next_instance: the next multiple of the
\* period after creation_time for a periodic alarm.
NextDeadline(r) ==
  now + r.period - IF IsPeriodic(r.kind) /\ r.period # 0
                   THEN (now - r.creation_time) % r.period ELSE 0

\* Mutant of InsertSorted: goes before the alarms with the same deadline.
InsertBeforeEquals(s, a) ==
  LET later == {i \in DOMAIN s.alarms :
                  s.alarm[s.alarms[i]].deadline >= s.alarm[a].deadline}
  IN InsertAt(s.alarms, Min(later \cup {Len(s.alarms) + 1}), a)

\* The list insertion of schedule_next_instance, after every alarm that is not
\* later.
InsertSorted(s, a) ==
  LET later == {i \in DOMAIN s.alarms :
                  s.alarm[s.alarms[i]].deadline > s.alarm[a].deadline}
  IN InsertAt(s.alarms, Min(later \cup {Len(s.alarms) + 1}), a)

\* schedule_next_instance
ScheduleNext(s, a, c) ==
  LET s1 == IF s.alarm[a].callback # NULL THEN RemovePending(s, a) ELSE s
      s2 == [s1 EXCEPT !.alarm[a].deadline = NextDeadline(s1.alarm[a])]
      s3 == [s2 EXCEPT !.alarms = InsertSorted(s2, a)]
  IN IF IsFront(s, a) \/ IsFront(s3, a) THEN RescheduleRoot(s3, c) ELSE s3

\* The body of alarm_set_internal.
SetInternal(s, a, interval, mloop, cb, c) ==
  ScheduleNext([s EXCEPT !.alarm[a] =
                  [@ EXCEPT !.creation_time = now, !.period = interval, !.callback = cb,
                            !.queued_on = IF mloop THEN "none" ELSE "default",
                            !.for_msg_loop = mloop]], a, c)

\* Mutant of CancelInternal: the root alarm is not re-evaluated.
CancelNoReschedule(s, a, c) ==
  [RemovePending(s, a) EXCEPT !.alarm[a] =
     [@ EXCEPT !.deadline = 0, !.callback = NULL, !.queued_on = "none"]]

\* alarm_cancel_internal
CancelInternal(s, a, c) ==
  LET s1 == [RemovePending(s, a) EXCEPT !.alarm[a] =
               [@ EXCEPT !.deadline = 0, !.callback = NULL, !.queued_on = "none"]]
  IN IF IsFront(s, a) THEN RescheduleRoot(s1, c) ELSE s1

\* The locked part of callback_dispatch: nothing has expired, or the front
\* alarm is moved to its queue or posted to the message loop (closure.Reset
\* invalidates what was posted before).
DispatchFront(s, c1, c2) ==
  IF s.alarms = <<>> \/ s.alarm[Head(s.alarms)].deadline > now
  THEN RescheduleRoot(s, c1)
  ELSE LET a  == Head(s.alarms)
           s1 == [s EXCEPT !.alarms = Tail(@)]
           s2 == IF IsPeriodic(s.alarm[a].kind) THEN ScheduleNext(s1, a, c1) ELSE s1
           s3 == RescheduleRoot(s2, c2)
       IN IF s3.alarm[a].for_msg_loop
          THEN [s3 EXCEPT !.tasks = Append(Without(@, a), a)]
          ELSE [s3 EXCEPT !.queue = Append(@, a)]

-----------------------------------------------------------------------------
\* The clock advances and the timers that are due fire: timer_callback posts
\* alarm_expired.
Tick ==
  /\ now < MaxTime
  /\ now' = now + 1
  /\ LET t == mon.timers
         due(f) == t[f] = now + 1
         left(f) == IF due(f) THEN Off ELSE t[f]
         posts == Cardinality({f \in {"timer", "wakeup_timer"} : due(f)})
     IN mon' = [mon EXCEPT !.timers =
          [t EXCEPT !.timer = left("timer"), !.wakeup_timer = left("wakeup_timer"),
                    !.alarm_expired = t.alarm_expired + posts]]
  /\ UNCHANGED <<dpc, active, tpc, running, canceling, cpc, sets, canceled, raced>>

\* Threads that may call the alarm functions, for any alarm: users, a callback,
\* and the message loop between two alarms.
MayCall(t) ==
  /\ canceling[t] = NotCanceling
  /\ cpc = "none"
  /\ AlarmsMutexFree
  /\ t \in Callers => tpc[t] = "calling" \/ (t = "mloop" /\ tpc[t] = "idle")

\* The message loop has begun to run the closure of a, and alarm_ready_mloop does
\* not have alarms_mutex yet: whoever sets or cancels a now comes too late to
\* take the closure back.
InHand(a) == tpc["mloop"] = "entered" /\ running["mloop"].alarm = a

Racing(a) == raced' = IF InHand(a) THEN raced \cup {a} ELSE raced

\* alarm_set, alarm_set_on_mloop.  The bound keeps the deadline within MaxTime.
Set(t, a, interval, mloop) ==
  /\ MayCall(t)
  /\ mloop <=> OnMloop(mon.alarm[a].kind)
  /\ sets < MaxSets
  /\ now + interval <= MaxTime
  /\ sets' = sets + 1
  /\ \E c \in Outcomes : mon' = SetInternal(mon, a, interval, mloop, sets + 1, c)
  /\ Racing(a)
  /\ UNCHANGED <<now, dpc, active, tpc, running, canceling, cpc, canceled>>

\* alarm_cancel up to the release of alarms_mutex.
Cancel(t, a) ==
  /\ MayCall(t)
  /\ \E c \in Outcomes : mon' = CancelInternal(mon, a, c)
  /\ canceling' = [canceling EXCEPT ![t] = [alarm |-> a, upto |-> sets]]
  /\ Racing(a)
  /\ UNCHANGED <<now, dpc, active, tpc, running, cpc, sets, canceled>>

\* Mutant of CancelReturns: does not wait for the callback.
CancelReturnsAtOnce(t) ==
  /\ canceling[t] # NotCanceling
  /\ LET a == canceling[t].alarm
     IN canceled' = IF HoldsCallbackMutex(t, a) THEN canceled
                    ELSE [canceled EXCEPT ![a] = Max({@, canceling[t].upto})]
  /\ canceling' = [canceling EXCEPT ![t] = NotCanceling]
  /\ UNCHANGED <<now, mon, dpc, active, tpc, running, cpc, sets, raced>>

\* Mutant of CancelReturns: a callback_mutex that is not recursive.
CancelReturnsNotRecursive(t) ==
  /\ canceling[t] # NotCanceling
  /\ LET a == canceling[t].alarm
     IN /\ \A u \in Callers : ~HoldsCallbackMutex(u, a)
        /\ canceled' = [canceled EXCEPT ![a] = Max({@, canceling[t].upto})]
  /\ canceling' = [canceling EXCEPT ![t] = NotCanceling]
  /\ UNCHANGED <<now, mon, dpc, active, tpc, running, cpc, sets, raced>>

\* alarm_cancel gets the callback_mutex, which is recursive, and returns.
CancelReturns(t) ==
  /\ canceling[t] # NotCanceling
  /\ LET a == canceling[t].alarm
     IN /\ \A u \in Callers \ {t} : ~HoldsCallbackMutex(u, a)
        /\ canceled' = IF HoldsCallbackMutex(t, a) THEN canceled
                       ELSE [canceled EXCEPT ![a] = Max({@, canceling[t].upto})]
  /\ canceling' = [canceling EXCEPT ![t] = NotCanceling]
  /\ UNCHANGED <<now, mon, dpc, active, tpc, running, cpc, sets, raced>>

-----------------------------------------------------------------------------
\* callback_dispatch: semaphore_wait(alarm_expired)
DispatcherTakes ==
  /\ dpc = "wait"
  /\ mon.timers.alarm_expired > 0
  /\ mon' = [mon EXCEPT !.timers.alarm_expired = @ - 1]
  /\ dpc' = IF active THEN "taken" ELSE "exited"
  /\ UNCHANGED <<now, active, tpc, running, canceling, cpc, sets, canceled, raced>>

DispatcherDispatches ==
  /\ dpc = "taken"
  /\ AlarmsMutexFree
  /\ \E c1, c2 \in Outcomes : mon' = DispatchFront(mon, c1, c2)
  /\ dpc' = "wait"
  /\ UNCHANGED <<now, active, tpc, running, canceling, cpc, sets, canceled, raced>>

\* The reactor of the default callback thread calls alarm_queue_ready; the
\* message loop runs a closure that has not been canceled.
Enter(c) ==
  /\ tpc[c] = "idle" /\ canceling[c] = NotCanceling
  /\ \/ /\ c = "default" /\ mon.queue # <<>>
        /\ cpc \notin {"join_default", "done"}
        /\ UNCHANGED <<mon, running>>
     \/ /\ c = "mloop" /\ mon.tasks # <<>>
        /\ running' = [running EXCEPT ![c].alarm = Head(mon.tasks)]
        /\ mon' = [mon EXCEPT !.tasks = Tail(@)]
  /\ tpc' = [tpc EXCEPT ![c] = "entered"]
  /\ UNCHANGED <<now, dpc, active, canceling, cpc, sets, canceled, raced>>

\* alarm_queue_ready finds that the alarm was canceled.
NothingReady ==
  /\ tpc["default"] = "entered"
  /\ AlarmsMutexFree
  /\ mon.queue = <<>>
  /\ tpc' = [tpc EXCEPT !["default"] = "idle"]
  /\ UNCHANGED <<now, mon, dpc, active, running, canceling, cpc, sets, canceled, raced>>

\* alarm_queue_ready or alarm_ready_mloop has alarms_mutex: the callback is
\* read and a one-time alarm is reset.
Ready(c) ==
  /\ tpc[c] = "entered"
  /\ AlarmsMutexFree
  /\ c = "default" => mon.queue # <<>>
  /\ LET a == IF c = "default" THEN Head(mon.queue) ELSE running[c].alarm
         r == mon.alarm[a]
     IN /\ running' = [running EXCEPT ![c] =
                         [alarm |-> a, callback |-> r.callback,
                          early |-> r.callback # NULL /\ now < r.creation_time + r.period]]
        /\ mon' = [mon EXCEPT
                     !.queue = IF c = "default" THEN Tail(@) ELSE @,
                     !.alarm[a] = IF IsPeriodic(r.kind) THEN @
                                  ELSE [@ EXCEPT !.deadline = 0, !.callback = NULL,
                                                 !.queued_on = "none"]]
  /\ tpc' = [tpc EXCEPT ![c] = "cb_lock"]
  /\ UNCHANGED <<now, dpc, active, canceling, cpc, sets, canceled, raced>>

\* callback_mutex is taken, alarms_mutex released, the callback called.
Call(c) ==
  /\ tpc[c] = "cb_lock"
  /\ \A u \in Callers \ {c} : ~HoldsCallbackMutex(u, running[c].alarm)
  /\ tpc' = [tpc EXCEPT ![c] = "calling"]
  /\ UNCHANGED <<now, mon, dpc, active, running, canceling, cpc, sets, canceled, raced>>

CallReturns(c) ==
  /\ tpc[c] = "calling" /\ canceling[c] = NotCanceling
  /\ tpc' = [tpc EXCEPT ![c] = "idle"]
  /\ running' = [running EXCEPT ![c] = NoCallback]
  /\ UNCHANGED <<now, mon, dpc, active, canceling, cpc, sets, canceled, raced>>

-----------------------------------------------------------------------------
\* alarm_cleanup: stop and join the dispatcher, then, with alarms_mutex held,
\* take the queue out of the reactor (waiting for alarm_queue_ready) and join
\* the default callback thread.
CleanupSignal ==
  /\ WithCleanup /\ cpc = "none"
  /\ active' = FALSE
  /\ mon' = [mon EXCEPT !.timers.alarm_expired = @ + 1]
  /\ cpc' = "join_dispatcher"
  /\ UNCHANGED <<now, dpc, tpc, running, canceling, sets, canceled, raced>>

CleanupStep ==
  /\ \/ cpc = "join_dispatcher" /\ dpc = "exited" /\ cpc' = "lock" /\ UNCHANGED mon
     \/ cpc = "lock" /\ AlarmsMutexFree /\ cpc' = "unregister" /\ UNCHANGED mon
     \/ /\ cpc = "unregister" /\ tpc["default"] = "idle" /\ cpc' = "join_default"
        /\ mon' = [mon EXCEPT !.queue = <<>>]
     \/ /\ cpc = "join_default" /\ tpc["default"] = "idle" /\ cpc' = "done"
        /\ mon' = [mon EXCEPT !.timers.timer = Off, !.timers.wakeup_timer = Off,
                              !.timers.alarm_expired = 0, !.alarms = <<>>]
  /\ UNCHANGED <<now, dpc, active, tpc, running, canceling, sets, canceled, raced>>

CallerStep(c) == Enter(c) \/ Ready(c) \/ Call(c) \/ CallReturns(c)
DispatcherStep == DispatcherTakes \/ DispatcherDispatches

Next ==
  \/ Tick \/ DispatcherStep \/ NothingReady \/ CleanupSignal \/ CleanupStep
  \/ \E c \in Callers : CallerStep(c)
  \/ \E t \in Threads :
       \/ CancelReturns(t)
       \/ \E a \in Alarms :
            \/ Cancel(t, a)
            \/ \E interval \in Intervals, mloop \in BOOLEAN : Set(t, a, interval, mloop)

Spec == Init /\ [][Next]_vars

\* Time passes, every thread that can run does, callbacks return; nobody has to
\* set or cancel alarms.  A thread that waits for alarms_mutex is served.
\* (The fairness of the dispatcher is SF_vars(DispatcherStep) with ENABLED written
\* out, which spares TLC a costly evaluation.)
DispatcherCanStep ==
  \/ dpc = "wait" /\ mon.timers.alarm_expired > 0
  \/ dpc = "taken" /\ AlarmsMutexFree

FairSpec ==
  /\ Spec
  /\ WF_vars(Tick) /\ WF_vars(NothingReady) /\ WF_vars(CleanupStep)
  /\ []<>DispatcherCanStep => []<><<DispatcherStep>>_vars
  /\ \A c \in Callers : SF_vars(CallerStep(c))
  /\ \A t \in Threads : SF_vars(CancelReturns(t))

-----------------------------------------------------------------------------
\* alarm.h, alarm_cancel: "When this call returns, the caller has a guarantee
\* that the callback is not in progress and will not be called if it hasn't
\* already been called."  A callback that runs was installed by a later set;
\* in particular it is not NULL, which is below every set.
CancelPromise ==
  \A c \in Callers : tpc[c] = "calling" => running[c].callback > canceled[running[c].alarm]

\* The promise is kept, whichever threads set and cancel, as long as no alarm is
\* set or canceled in the message loop's hand.  And alarm_cleanup, which cancels
\* everything, returns when the dispatcher has exited and no callback is running
\* on the default thread.
CancelGuarantee ==
  raced = {} => /\ CancelPromise
                /\ cpc = "done" => tpc["default"] = "idle" /\ dpc = "exited"

\* alarm.h, alarm_set: "The |cb| callback is called after the given
\* |interval_ms|, where |interval_ms| is the number of milliseconds relative to
\* the current time."
NotEarly == \A c \in Callers : tpc[c] = "calling" => ~running[c].early

\* Where an alarm's next call is waiting: in the queue or the loop, then in the
\* list.
Occurrences(s, a) == Cardinality({i \in DOMAIN s : s[i] = a})

\* remove_pending_alarm: "We are defensive here - we shouldn't have repeated
\* alarm instances."  Neither in the list nor waiting for its thread.
OneInstance ==
  \A a \in Alarms :
    /\ Occurrences(mon.alarms, a) <= 1
    /\ Occurrences(mon.queue, a) + Occurrences(mon.tasks, a) <= 1

\* alarm.h: "If two (or more) alarms are set back-to-back with the same
\* |interval_ms|, the callbacks will be called in the order the alarms are
\* set."  More generally, one-time alarms of the default thread are served by
\* deadline and, for equal deadlines, in the order they were set.
ServedInOrder ==
  LET waiting == mon.queue \o mon.alarms
      key(a) == mon.alarm[a]
  IN \A i, j \in DOMAIN waiting :
       LET a == waiting[i]
           b == waiting[j]
       IN i < j /\ {key(a).kind, key(b).kind} = {"once"}
          => \/ key(a).deadline < key(b).deadline
             \/ key(a).deadline = key(b).deadline /\ key(a).callback < key(b).callback

\* While alarms are in the list, something will make the dispatcher look at it
\* no later than the first deadline: a timer, a post, or the dispatcher itself.
WakeupPending ==
  mon.alarms # <<>> /\ cpc = "none" =>
    LET first == mon.alarm[Head(mon.alarms)].deadline
        t == mon.timers
    IN \/ t.alarm_expired > 0 \/ dpc = "taken"
       \/ t.timer # Off /\ t.timer <= first
       \/ t.wakeup_timer # Off /\ t.wakeup_timer <= first

\* The wakelock is held exactly while timer_set says so, and only while there
\* is an alarm to wait for.
WakelockBalanced ==
  /\ mon.timers.wakelock = IF mon.timers.timer_set THEN 1 ELSE 0
  /\ mon.timers.timer_set /\ cpc = "none" => mon.alarms # <<>>

\* A periodic alarm keeps to the grid of its period however late it was served.
PeriodicOnGrid ==
  \A i \in DOMAIN mon.alarms :
    LET r == mon.alarm[mon.alarms[i]]
    IN IsPeriodic(r.kind) /\ r.period # 0 => (r.deadline - r.creation_time) % r.period = 0

\* A callback is called when it is due: not early, and not off its period, as
\* long as no alarm is set or canceled in the message loop's hand.
CalledOnTime == raced = {} => NotEarly /\ PeriodicOnGrid

\* What is pending is pending once, and in the order it is to be served in,
\* under the same condition.
PendingInOrder == raced = {} => OneInstance /\ ServedInOrder

\* The timers wake the dispatcher for every alarm, and the phone for no more,
\* under the same condition.
TimersRight == raced = {} => TypeOK /\ WakeupPending /\ WakelockBalanced

\* The callbacks that the two callback threads are running cancel each other's
\* alarm: neither alarm_cancel can return.
MutualCancel ==
  \A c \in Callers : tpc[c] = "calling"
    /\ \E u \in Callers \ {c} : canceling[c].alarm = running[u].alarm

\* A one-time alarm that is set is called, unless it is canceled, the callback
\* threads wait for each other, or alarm_cleanup begins.
AlarmFires ==
  \A a \in Alarms :
    mon.alarm[a].callback # NULL /\ ~IsPeriodic(mon.alarm[a].kind)
      ~> mon.alarm[a].callback = NULL \/ MutualCancel \/ cpc # "none"

\* alarm_cancel returns, also when called from a callback of the alarm itself and
\* from any other thread, unless two callbacks cancel each other's alarm.
CancelCompletes ==
  \A t \in Threads :
    canceling[t] # NotCanceling ~> canceling[t] = NotCanceling \/ MutualCancel

\* alarm.h, alarm_cleanup: "This function should be called by the OSI module
\* cleanup during graceful shutdown."  It returns.
CleanupCompletes == cpc # "none" ~> cpc = "done"

=============================================================================
