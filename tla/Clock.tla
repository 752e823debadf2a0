------------------------------- MODULE Clock -------------------------------
(***************************************************************************)
(* How the kernel learns the time (sys/system/time.c, cmos.h).  Until the  *)
(* boot time is known the timer interrupt reads the date, one register     *)
(* after the other, from the real time clock of the CMOS, which goes on    *)
(* meanwhile; a reading counts when the one before gave the same time.     *)
(* From then on the timer interrupt counts milliseconds.                   *)
(***************************************************************************)
EXTENDS Integers, Sequences, FiniteSetsExt

CONSTANTS
    Dates,       \* dates at which the machine may be switched on
    Frequency,   \* TIME_FREQUENCY, interrupts per second
    MaxSeconds,  \* bound: how often the CMOS clock moves on
    MaxTicks     \* bound: interrupts counted after the boot time is known

(* date_components_t, in the order in which time_readCMOS() fills it in.   *)
Fields == <<"year", "month", "day", "hour", "minute", "second">>

VARIABLES
    rtc,               \* date that the CMOS clock shows
    seconds,           \* seconds since the machine was switched on
    at,                \* register the handler reads next, 0 outside of it
    components,        \* date_components_t of time_readCMOS()
    temp,              \* static in time_prepare()
    time_unixBoot, time_gotBootTime, time_current,
    before, during     \* history: dates shown since the last two readings began

vars == <<rtc, seconds, at, components, temp, time_unixBoot, time_gotBootTime,
          time_current, before, during>>

-----------------------------------------------------------------------------
time_daysOfMonth == <<31, 28, 31, 30, 31, 30, 31, 31, 30, 31, 30, 31>>

IsLeap(y) == (y % 4 = 0 /\ y % 100 # 0) \/ y % 400 = 0

DaysIn(y, m) == IF m = 2 /\ IsLeap(y) THEN 29 ELSE time_daysOfMonth[m]

(* The CMOS clock, a second later.                                         *)
NextSecond(c) ==
    LET s == (c.second + 1) % 60
        mi == IF s = 0 THEN (c.minute + 1) % 60 ELSE c.minute
        h == IF s = 0 /\ mi = 0 THEN (c.hour + 1) % 24 ELSE c.hour
        midnight == s = 0 /\ mi = 0 /\ h = 0
        last == c.day = DaysIn(c.year, c.month)
        d == IF midnight THEN (IF last THEN 1 ELSE c.day + 1) ELSE c.day
        mo == IF midnight /\ last THEN (c.month % 12) + 1 ELSE c.month
        y == IF midnight /\ last /\ mo = 1 THEN c.year + 1 ELSE c.year
    IN  [year |-> y, month |-> mo, day |-> d, hour |-> h, minute |-> mi, second |-> s]

(* time_isLeapYear() looks at the year after the one it is asked about.    *)
time_isLeapYear(year) ==
    LET y == (year + 1) % 400
    IN  y % 4 = 0 /\ y \notin {100, 200, 300}

time_daysOfYear(year) == IF time_isLeapYear(year) THEN 366 ELSE 365

time_daysBeforeMonth == <<0, 31, 59, 90, 120, 151, 181, 212, 243, 273, 304, 334>>

YearsToDate(year) == MapThenSumSet(time_daysOfYear, 1971..year)

time_create(c) ==
    LET days == c.day - 1
                + (IF c.month = 1 THEN 0
                   ELSE time_daysBeforeMonth[c.month - 1] + time_daysOfMonth[c.month - 1])
                + YearsToDate(c.year)
    IN  c.second + c.minute * 60 + c.hour * 3600 + days * 24 * 3600

-----------------------------------------------------------------------------
Init ==
    /\ rtc \in Dates
    /\ seconds = 0
    /\ at = 0
    /\ components = [f \in {} |-> 0]
    /\ temp = 0
    /\ time_unixBoot = 0
    /\ time_gotBootTime = FALSE
    /\ time_current = 0
    /\ before = {}
    /\ during = {rtc}

(* The CMOS clock goes on whatever the CPU does.                           *)
SecondPasses ==
    /\ seconds < MaxSeconds
    /\ seconds' = seconds + 1
    /\ rtc' = NextSecond(rtc)
    /\ during' = during \cup {rtc'}
    /\ UNCHANGED <<at, components, temp, time_unixBoot, time_gotBootTime, time_current, before>>

(* A mutant: the clock is read only once. *)
ReadOnce == temp = 0 /\ time_unixBoot = 0

(* The last reading differs from the one before, or there is none yet.     *)
ReadAgain == temp # time_unixBoot \/ temp = 0

(* time_prepare(), which begins a reading.                                 *)
PrepareReads ==
    /\ at = 0 /\ ~time_gotBootTime
    /\ ReadAgain
    /\ temp' = time_unixBoot
    /\ at' = 1
    /\ before' = during
    /\ during' = {rtc}
    /\ UNCHANGED <<rtc, seconds, components, time_unixBoot, time_gotBootTime, time_current>>

(* cmos_readData() of one register.                                        *)
ReadRegister ==
    /\ at \in 1..Len(Fields)
    /\ components' = [f \in DOMAIN components \cup {Fields[at]} |->
                        IF f = Fields[at] THEN rtc[f] ELSE components[f]]
    /\ at' = at + 1
    /\ UNCHANGED <<rtc, seconds, temp, time_unixBoot, time_gotBootTime, time_current, before, during>>

(* The end of time_readCMOS().                                             *)
ReadingDone ==
    /\ at = Len(Fields) + 1
    /\ time_unixBoot' = time_create(components)
    /\ components' = [f \in {} |-> 0]
    /\ at' = 0
    /\ UNCHANGED <<rtc, seconds, temp, time_gotBootTime, time_current, before, during>>

(* time_prepare(), which takes the reading and hands over to time_tick().  *)
PrepareAccepts ==
    /\ at = 0 /\ ~time_gotBootTime
    /\ ~ReadAgain
    /\ time_gotBootTime' = TRUE
    /\ UNCHANGED <<rtc, seconds, at, components, temp, time_unixBoot, time_current, before, during>>

Tick ==
    /\ time_gotBootTime
    /\ time_current < MaxTicks
    /\ time_current' = time_current + 1
    /\ UNCHANGED <<rtc, seconds, at, components, temp, time_unixBoot, time_gotBootTime, before, during>>

time_getUnixTime == time_unixBoot + time_current \div Frequency

Next == SecondPasses \/ PrepareReads \/ ReadRegister \/ ReadingDone \/ PrepareAccepts \/ Tick

Spec == Init /\ [][Next]_vars

-----------------------------------------------------------------------------
(* Seconds since 1970 by the calendar.                                     *)
UnixTime(c) ==
    LET YearLength(y) == IF IsLeap(y) THEN 366 ELSE 365
        MonthLength(m) == DaysIn(c.year, m)
        days == MapThenSumSet(YearLength, 1970..c.year - 1)
                + MapThenSumSet(MonthLength, 1..c.month - 1) + c.day - 1
    IN  ((days * 24 + c.hour) * 60 + c.minute) * 60 + c.second

(* The dates whose leap day time_create() counts too early: the year       *)
(* before a leap year, and a leap year until its leap day has passed.      *)
CountsLeapDayEarly(c) == IsLeap(c.year + 1) \/ (IsLeap(c.year) /\ c.month <= 2)

(* A reading that the CMOS clock interrupts never becomes the boot time:   *)
(* the time that time_prepare() takes is one that the clock showed while   *)
(* it was read, a day later where time_create() counts the leap day early. *)
BootTimeWasShown ==
    time_gotBootTime =>
        \E c \in before \cup during :
            time_unixBoot = UnixTime(c) + IF CountsLeapDayEarly(c) THEN 86400 ELSE 0
=============================================================================
