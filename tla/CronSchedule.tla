---------------------------- MODULE CronSchedule ----------------------------
(***************************************************************************)
(* When the cron thread fires next: the two helpers of engine.py that turn *)
(* the wall clock into a delay for sched.  Times are whole seconds counted *)
(* from the midnight (UTC) that began the day of now, as the code's        *)
(* now.replace(hour=...) does; what sched is given is the time minus now.  *)
(* sched itself waits on the monotonic clock: when the event fires, the    *)
(* wall clock may show any time.                                           *)
(***************************************************************************)
EXTENDS Integers

CONSTANTS Day,    \* the seconds of a day
          Soon    \* the head start of a window that is already open, 10 s

TimeOfDay == 0..(Day - 1)

\* _seconds_until_next_run: today at the hour, unless it has come, else tomorrow.
NextRun(target, now) == IF target <= now THEN target + Day ELSE target

\* _seconds_until_random_window: the window of today, what is left of it, or tomorrow's.
Over(end, now)        == end <= now
Open(start, end, now)  == start <= now /\ now < end
WindowStart(start, end, now) ==
    IF Over(end, now) THEN start + Day
    ELSE IF Open(start, end, now) THEN now + Soon ELSE start
WindowEnd(end, now) == IF Over(end, now) THEN end + Day ELSE end

\* Its width, at least a second, also when nothing or less than nothing is left.
Width(start, end, now) ==
    LET left == WindowEnd(end, now) - WindowStart(start, end, now) IN IF left <= 0 THEN 1 ELSE left

\* randint includes both ends.  The floor of 0.1 s on the delay is below a second.
Fires(start, end, now) ==
    WindowStart(start, end, now)..(WindowStart(start, end, now) + Width(start, end, now))
=============================================================================
