---------------------------- MODULE UpdateSchedule ----------------------------
(***************************************************************************)
(* When the daemon checks for updates: the loop of update.Checker sleeps   *)
(* for the check frequency or until the next maintenance window, whichever *)
(* is shorter, and checks only while a window is active.                   *)
(*                                                                         *)
(* A day has Day minutes (1440 in reality) and a week seven days, counted  *)
(* from Sunday. A window repeats every day, or every week from one day and *)
(* time to another.                                                        *)
(***************************************************************************)
EXTENDS Integers, FiniteSets, FiniteSetsExt

CONSTANTS
    Day,          \* minutes of a day
    Schedules,    \* configurations: frequency (a number or Never) and windows
    Never,        \* the frequency "never"
    Hour,         \* how long the loop sleeps while checks are disabled
    SixHours,     \* the frequency that replaces Never without a primary application
    Requests,     \* how many requests of a user: other configurations and manual checks
    WrapWeek      \* whether windows may span the end of the week

NONE == -1
Week == 7 * Day
Time == 0 .. Week - 1
Long == 2 * Week  \* longer than any frequency; times are counted up to it
Weekday(t) == t \div Day
Daily(w) == w.startDay = NONE /\ w.endDay = NONE
WrapsWeek(w) == w.startDay > w.endDay

\* SystemUpdateConfig.Validate
ValidWindow(w) ==
    /\ w.startDay # NONE /\ w.startDay = w.endDay => w.end >= w.start
    /\ (w.startDay = NONE) = (w.endDay = NONE)
Allowed ==
    {c \in Schedules : \A w \in c.windows : ValidWindow(w) /\ (WrapsWeek(w) => WrapWeek)}

ASSUME ScheduleAssumption ==
    /\ Day \in Nat \ {0} /\ Hour \in Nat \ {0} /\ SixHours \in 0 .. Long - 2 /\ Requests \in Nat /\ WrapWeek \in BOOLEAN
    /\ \A c \in Schedules :
        /\ c.frequency \in 0 .. Long - 2 \cup {Never}
        /\ c.windows \subseteq [startDay : NONE .. 6, start : 0 .. Day - 1, endDay : NONE .. 6, end : 0 .. Day - 1]

VARIABLES
    now,        \* minute of the week
    since,      \* minutes since LastCheck
    sleep,      \* minutes the loop still sleeps
    at,         \* where the loop is: "top" or "due"
    schedule,   \* state.System.Update.Config
    primary,    \* a primary application is installed
    asked,      \* requests so far
    stale,      \* history: the configuration changed since the loop read it
    rest,       \* history: minutes since a check that was not skipped, or a new configuration
    entered,    \* history: windows the loop slept into with their configuration, not used yet
    missed,     \* history: some window passed without the check that was due
    strayed     \* history: some check ran outside of the windows

scheduleVars == <<now, since, sleep, at, schedule, primary, asked, stale, rest, entered, missed, strayed>>
---------------------------------------------------------------------------
(* Windows as the code computes them *)

\* Mutant: a daily window that ends on the next day always started today.
DailyOffsetsToday(w, t) ==
    LET today == Weekday(t) * Day
    IN  <<today + w.start, today + w.end + IF w.end < w.start THEN Day ELSE 0>>

\* Start and end of a daily window, around the given time.
DailyOffsets(w, t) ==
    LET today == Weekday(t) * Day
        early == t % Day < w.start
    IN  IF w.end >= w.start THEN <<today + w.start, today + w.end>>
        ELSE IF early THEN <<today - Day + w.start, today + w.end>>
        ELSE <<today + w.start, today + Day + w.end>>

\* ... and of a weekly one; an end in the next week is counted from this one.
WeeklyOffsets(w) ==
    <<w.startDay * Day + w.start, (w.endDay + IF WrapsWeek(w) THEN 7 ELSE 0) * Day + w.end>>

TimeUntilActive(w, t) ==
    LET offsets == IF Daily(w) THEN DailyOffsets(w, t) ELSE WeeklyOffsets(w)
        position == t + IF offsets[2] >= Week /\ Weekday(t) <= w.endDay THEN Week ELSE 0
        wait == offsets[1] - position
        dayDiff == w.endDay - w.startDay
    IN  IF wait <= 0 /\ position <= offsets[2] THEN 0
        ELSE IF wait > 0 THEN wait
        ELSE IF Daily(w) THEN wait + Day
        ELSE IF dayDiff > 0 THEN wait + Week
        ELSE wait + (dayDiff + 7) * Day

IsActive(w, t) == TimeUntilActive(w, t) = 0

(* Windows as they are meant *)

Inside(w, t) ==
    IF Daily(w) THEN (t - w.start) % Day <= (w.end - w.start) % Day
    ELSE LET start == w.startDay * Day + w.start
             end == w.endDay * Day + w.end
         IN  (t - start) % Week <= (end - start) % Week

\* The loop wakes up one minute after the start, which a window of one minute does not see.
LongEnough(w) == w.end # w.start \/ w.startDay # w.endDay
---------------------------------------------------------------------------
(* The loop *)

\* A startup check comes first, unless checks are disabled or it is delayed.
ScheduleInit ==
    /\ now = 0 /\ schedule \in Allowed /\ primary \in BOOLEAN
    /\ since \in (IF schedule.frequency = Never /\ primary THEN {Long} ELSE {0, Long}) /\ rest = since
    /\ sleep = 0 /\ at = "top" /\ asked = 0
    /\ stale = TRUE /\ entered = {} /\ missed = FALSE /\ strayed = FALSE

Disabled == schedule.frequency = Never /\ primary

SkipHour ==
    /\ at = "top" /\ sleep = 0 /\ Disabled
    /\ sleep' = Hour /\ stale' = TRUE
    /\ UNCHANGED <<now, since, at, schedule, primary, asked, rest, entered, missed, strayed>>

Configured == IF schedule.frequency = Never THEN SixHours ELSE schedule.frequency

\* The frequency, or the time until the next window if that is shorter.
Frequency ==
    Min({Configured} \cup {n \in {TimeUntilActive(w, now) : w \in schedule.windows} : n > 0})

\* One minute is added, so that the window has started.
FallAsleep ==
    /\ at = "top" /\ sleep = 0 /\ ~Disabled
    /\ sleep' = IF since < Frequency THEN Frequency - since + 1 ELSE 0
    /\ at' = "due" /\ stale' = FALSE
    /\ UNCHANGED <<now, since, schedule, primary, asked, rest, entered, missed, strayed>>

\* A check, which may install the primary application, or none outside of the windows.
CheckWindows ==
    /\ at = "due" /\ sleep = 0
    /\ since' = 0 /\ at' = "top"
    /\ IF schedule.windows = {} \/ \E w \in schedule.windows : IsActive(w, now)
       THEN /\ primary' \in {primary, TRUE} /\ rest' = 0
            /\ entered' = {w \in entered : ~Inside(w, now)}
            /\ strayed' = (strayed \/ (schedule.windows # {} /\ \A w \in schedule.windows : ~Inside(w, now)))
       ELSE UNCHANGED <<primary, rest, entered, strayed>>
    /\ UNCHANGED <<now, sleep, schedule, asked, stale, missed>>

Minute ==
    /\ sleep > 0
    /\ sleep' = sleep - 1
    /\ now' = (now + 1) % Week
    /\ since' = Min({since + 1, Long}) /\ rest' = Min({rest + 1, Long})
    /\ LET left == {w \in entered : ~Inside(w, now')}
           begun == {w \in schedule.windows : ~stale /\ Inside(w, now') /\ ~Inside(w, now) /\ LongEnough(w)}
       IN  entered' = (entered \ left) \cup begun /\ missed' = (missed \/ (left # {} /\ rest' > Configured + 1))
    /\ UNCHANGED <<at, schedule, primary, asked, stale, strayed>>

\* A manual check of another goroutine also sets LastCheck.
ManualCheck ==
    /\ asked < Requests
    /\ since' = 0 /\ rest' = 0 /\ asked' = asked + 1 /\ primary' \in {primary, TRUE}
    /\ UNCHANGED <<now, sleep, at, schedule, stale, entered, missed, strayed>>

\* PUT of the update configuration: a loop that sleeps goes on sleeping.
PutSchedule ==
    /\ asked < Requests
    /\ \E c \in Allowed : schedule' = c
    /\ asked' = asked + 1 /\ stale' = TRUE /\ rest' = 0 /\ entered' = {}
    /\ UNCHANGED <<now, since, sleep, at, primary, missed, strayed>>

ScheduleNext == SkipHour \/ FallAsleep \/ CheckWindows \/ Minute \/ ManualCheck \/ PutSchedule
ScheduleSpec == ScheduleInit /\ [][ScheduleNext]_scheduleVars
---------------------------------------------------------------------------
(* Properties *)

\* The clock, the sleep and the configuration are well formed: a wait that the code computes
\* never makes the loop sleep for a negative time.
ScheduleTypeOK ==
    /\ now \in Time /\ since \in 0 .. Long /\ rest \in 0 .. Long /\ sleep \in Nat /\ at \in {"top", "due"}
    /\ schedule \in Allowed /\ entered \subseteq schedule.windows
    /\ asked \in 0 .. Requests /\ {primary, stale, missed, strayed} \subseteq BOOLEAN

\* Maintenance windows are honoured: no periodic check runs outside of all of them, and no
\* window that the loop slept into passes without the check that is due, however rare checks
\* are, with several windows, windows over midnight, manual checks and configurations that
\* change. Windows that span the end of the week (WrapWeek) break it: see the last case of
\* TimeUntilActive.
WindowsHonoured == ~missed /\ ~strayed
=============================================================================
