------------------------------ MODULE MCAlarm ------------------------------
(***************************************************************************)
(* Two alarms for model checking, of some pairs of kinds, each set with an *)
(* interval of its own: the one that is set later may be due earlier, or   *)
(* at once.                                                                *)
(***************************************************************************)
EXTENDS Alarm

CONSTANTS a1, a2,
          MaxPosts          \* bound on the value of alarm_expired

MCAlarms == {a1, a2}

Pairs == {<<"once", "once">>, <<"once", "mloop">>, <<"periodic", "mloop_periodic">>}

IntervalOf(a, kind) ==
  IF a = a1 \/ IsPeriodic(kind) THEN 2 ELSE IF kind = "mloop" THEN 0 ELSE 1

\* A periodic alarm can be late within MaxTime; the other pairs, and a cleanup,
\* need one tick less.
Bounded ==
  /\ IF IsPeriodic(mon.alarm[a1].kind) THEN now = MaxTime => cpc = "none" ELSE now # 1
  /\ mon.timers.alarm_expired <= MaxPosts
  /\ <<mon.alarm[a1].kind, mon.alarm[a2].kind>> \in Pairs
  /\ \A a \in Alarms : LET r == mon.alarm[a]
                       IN r.callback # NULL => r.period = IntervalOf(a, r.kind)

=============================================================================
