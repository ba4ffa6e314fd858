----------------------------- MODULE ClockTools -----------------------------
(***************************************************************************)
(* The tools that wait for a time, or set it: csky_rtc_example with        *)
(* `alarm` and `write`, csky_wdt_example and csky_timer_example.  The      *)
(* real-time clock, the watchdog and the POSIX timers are external.        *)
(*                                                                         *)
(* The clock counts seconds; a day has Day of them, and time begins at the *)
(* midnight before the tool is started.  When `prompt`, it stands still    *)
(* unless the tool sleeps or waits; otherwise any step may take any time.  *)
(***************************************************************************)
EXTENDS BoardTool, Integers, Sequences

CONSTANTS Day,        \* seconds of a day
          Horizon,    \* bound: the last second that is looked at
          Timeouts,   \* the time-outs of watchdog and timers
          Sleeps,     \* bound: seconds between two feedings
          Times       \* bound: feedings, and timers

ASSUME ClockAssumption ==
    /\ Day \in Nat \ {0} /\ Horizon \in Nat
    /\ Timeouts \subseteq Nat \ {0}
    /\ Sleeps \in Nat /\ Times \in Nat

VARIABLES clock, prompt, wake,           \* `wake` is when the tool's last sleep ends
          given, now, ring, armed,       \* the alarm: the time of day asked for and the one
                                         \* read, when it rings, its interrupt is on
          timeout, pause, times,         \* the arguments of the other two
          fed, count, running,           \* the watchdog: last fed, how often, it runs
          started                        \* when each timer was started

alarm     == <<given, now, ring, armed>>
arguments == <<timeout, pause, times>>
dog       == <<fed, count, running>>
time      == <<clock, prompt>>
clockVars == <<time, wake, alarm, arguments, dog, started>>

(* Nothing of the tools has happened yet. *)
ClockRest ==
    /\ wake = 0 /\ now = 0 /\ ring = 0 /\ armed = FALSE
    /\ fed = 0 /\ count = 0 /\ running = FALSE /\ started = <<>>

(* The arguments; check_datetime accepts every time of a day.  The date is
   not looked at again: the device takes the time for one of the next 24
   hours. *)
ClockInit ==
    /\ ClockRest
    /\ prompt \in BOOLEAN
    /\ \/ /\ tool = "alarm" /\ place = "now"
          /\ clock \in 0..Day - 1 /\ given \in 0..Day - 1
          /\ timeout = 0 /\ pause = 0 /\ times = 0
       \/ /\ tool = "write" /\ place = "set"
          /\ clock = 0 /\ given \in 0..Horizon
          /\ timeout = 0 /\ pause = 0 /\ times = 0
       \/ /\ tool = "watchdog" /\ place = "open"
          /\ clock = 0 /\ given = 0
          /\ timeout \in Timeouts /\ pause \in 0..Sleeps /\ times \in 0..Times
       \/ /\ tool = "timer" /\ place = "create"
          /\ clock = 0 /\ given = 0
          /\ timeout \in Timeouts /\ pause = 0 /\ times \in 1..Times

(* The step after a sleep waits for its end. *)
Sleep(seconds) == wake' = clock + seconds

Awake == clock >= wake

-----------------------------------------------------------------------------
(* Faulty variants of the actions below, caught by the properties at the
   end of this module. *)

(* a time that has passed is slept for all the same *)
AlarmCompareNot ==
    /\ At("alarm", "compare")
    /\ Sleep(0) /\ Go("read")
    /\ UNCHANGED <<tool, mayFail, time, alarm, arguments, dog, started>>

(* the watchdog is fed only once *)
DogFeedOnce ==
    /\ At("watchdog", "feed") /\ Awake
    /\ fed' = (IF count = 0 THEN clock ELSE fed)
    /\ count' = count + 1
    /\ Go("loop")
    /\ UNCHANGED <<tool, mayFail, time, wake, alarm, arguments, running, started>>

-----------------------------------------------------------------------------
(* alarm_rtc.  Whether RTC_RD_TIME failed is not looked at: `now` is then
   what was there before. *)
AlarmNow ==
    /\ At("alarm", "now")
    /\ \/ now' = clock % Day
       \/ mayFail /\ now' \in 0..Day - 1
    /\ Go("set")
    /\ UNCHANGED <<tool, mayFail, time, wake, given, ring, armed, arguments, dog, started>>

(* RTC_ALM_SET: today, or tomorrow when that time has passed *)
AlarmSet ==
    /\ At("alarm", "set")
    /\ ring' = (clock - (clock % Day)) + given + (IF given < clock % Day THEN Day ELSE 0)
    /\ Go("on")
    /\ UNCHANGED <<tool, mayFail, time, wake, given, now, armed, arguments, dog, started>>

(* RTC_AIE_ON *)
AlarmOn ==
    /\ At("alarm", "on")
    /\ armed' = TRUE
    /\ Go("compare")
    /\ UNCHANGED <<tool, mayFail, time, wake, given, now, ring, arguments, dog, started>>

(* compare_datetime: of two times of day, whatever the dates *)
Compare(time0, time1) == time0 - time1

(* A time of day that has passed is refused, and the alarm stays on; for
   others the tool sleeps, a second too long. *)
AlarmCompare ==
    /\ At("alarm", "compare")
    /\ IF Compare(given, now) < 0
       THEN Go("refused") /\ UNCHANGED wake
       ELSE Go("read") /\ Sleep(Compare(given, now) + 1)
    /\ UNCHANGED <<tool, mayFail, time, alarm, arguments, dog, started>>

(* read blocks until the interrupt has come: "Alarm rang!" *)
AlarmRead ==
    /\ At("alarm", "read") /\ Awake /\ armed /\ clock >= ring
    /\ Go("rang")
    /\ UNCHANGED <<tool, mayFail, clockVars>>

(* RTC_AIE_OFF *)
AlarmOff ==
    /\ At("alarm", "rang")
    /\ armed' = FALSE
    /\ Go("done")
    /\ UNCHANGED <<tool, mayFail, time, wake, given, now, ring, arguments, dog, started>>

AlarmFails ==
    /\ Fails("alarm", {"set", "on", "read", "rang"}) /\ Awake
    /\ UNCHANGED <<tool, mayFail, clockVars>>

-----------------------------------------------------------------------------
(* write_rtc: RTC_SET_TIME *)
WriteRtc ==
    /\ At("write", "set")
    /\ clock' = given
    /\ Go("done")
    /\ UNCHANGED <<tool, mayFail, prompt, wake, alarm, arguments, dog, started>>

WriteRtcFails ==
    /\ Fails("write", {"set"})
    /\ UNCHANGED <<tool, mayFail, clockVars>>

-----------------------------------------------------------------------------
(* main of csky_wdt_example: the watchdog runs from open on. *)
DogOpen ==
    /\ At("watchdog", "open")
    /\ running' = TRUE /\ fed' = clock
    /\ Go("set")
    /\ UNCHANGED <<tool, mayFail, time, wake, alarm, arguments, count, started>>

(* WDIOC_SETTIMEOUT feeds it too; the driver may grant another time. *)
DogSet ==
    /\ At("watchdog", "set")
    /\ timeout' \in Timeouts /\ fed' = clock
    /\ Go("get")
    /\ UNCHANGED <<tool, mayFail, time, wake, alarm, pause, times, count, running, started>>

(* WDIOC_GETTIMEOUT, for the user to see *)
DogGet ==
    /\ At("watchdog", "get")
    /\ Go("loop")
    /\ UNCHANGED <<tool, mayFail, clockVars>>

DogLoop ==
    /\ At("watchdog", "loop")
    /\ IF count < times
       THEN Go("feed") /\ Sleep(pause)
       ELSE Go("close") /\ UNCHANGED wake
    /\ UNCHANGED <<tool, mayFail, time, alarm, arguments, dog, started>>

(* feed_watchdog: an ioctl or a write, which do the same *)
DogFeed ==
    /\ At("watchdog", "feed") /\ Awake
    /\ fed' = clock /\ count' = count + 1
    /\ Go("loop")
    /\ UNCHANGED <<tool, mayFail, time, wake, alarm, arguments, running, started>>

(* Whatever fails, the device is closed. *)
DogFails ==
    /\ mayFail /\ tool = "watchdog" /\ place \in {"set", "get", "feed"} /\ Awake
    /\ Go("close")
    /\ UNCHANGED <<tool, mayFail, clockVars>>

DogOpenFails ==
    /\ Fails("watchdog", {"open"})
    /\ UNCHANGED <<tool, mayFail, clockVars>>

(* The magic 'V' was not written: most drivers feed it once more and let it
   run. *)
DogClose ==
    /\ At("watchdog", "close")
    /\ fed' = clock /\ running' \in BOOLEAN
    /\ Go("closed")
    /\ UNCHANGED <<tool, mayFail, time, wake, alarm, arguments, count, started>>

(* The watchdog, external: it resets the board when it is not fed in time. *)
Due == running /\ clock >= fed + timeout

Reset ==
    /\ Due /\ place # "reset"
    /\ running' = FALSE
    /\ Go("reset")
    /\ UNCHANGED <<tool, mayFail, time, wake, alarm, arguments, fed, count, started>>

-----------------------------------------------------------------------------
(* main of csky_timer_example: timer_create and timer_settime, each timer
   expires after `timeout`, and again and again. *)
TimerCreate ==
    /\ At("timer", "create") /\ Len(started) < times
    /\ started' = Append(started, clock)
    /\ UNCHANGED <<tool, place, mayFail, time, wake, alarm, arguments, dog>>

TimerHalf ==
    /\ At("timer", "create") /\ Len(started) = times
    /\ Sleep(timeout \div 2)
    /\ Go("left")
    /\ UNCHANGED <<tool, mayFail, time, alarm, arguments, dog, started>>

(* What is left of the time-out; half a second of it is not slept away. *)
Rest == IF timeout % 2 = 0 THEN timeout \div 2 ELSE timeout \div 2 + 1

TimerLeft ==
    /\ At("timer", "left") /\ Awake
    /\ Sleep(Rest)
    /\ Go("all")
    /\ UNCHANGED <<tool, mayFail, time, alarm, arguments, dog, started>>

(* "All the timers should timeout" *)
TimerAll ==
    /\ At("timer", "all") /\ Awake
    /\ Sleep(2)
    /\ Go("delete")
    /\ UNCHANGED <<tool, mayFail, time, alarm, arguments, dog, started>>

(* timer_delete, one after the other *)
TimerDelete ==
    /\ At("timer", "delete") /\ Awake
    /\ IF started = <<>> THEN Go("done") /\ UNCHANGED started
       ELSE started' = Tail(started) /\ UNCHANGED place
    /\ UNCHANGED <<tool, mayFail, time, wake, alarm, arguments, dog>>

(* The timers that are left go with the process. *)
TimerFails ==
    /\ Fails("timer", {"create", "delete"}) /\ Awake
    /\ IF place = "create" THEN Len(started) < times ELSE started # <<>>
    /\ UNCHANGED <<tool, mayFail, clockVars>>

-----------------------------------------------------------------------------
Waiting ==
    \/ ~Awake
    \/ At("alarm", "read") /\ clock < ring
    \/ At("watchdog", "closed")

Tick ==
    /\ clock < Horizon /\ ~Over /\ ~Due
    /\ prompt => Waiting
    /\ clock' = clock + 1
    /\ UNCHANGED <<tool, place, mayFail, prompt, wake, alarm, arguments, dog, started>>

Alarm == AlarmNow \/ AlarmSet \/ AlarmOn \/ AlarmCompare \/ AlarmRead \/ AlarmOff \/ AlarmFails
Dog   == DogOpen \/ DogSet \/ DogGet \/ DogLoop \/ DogFeed \/ DogFails \/ DogOpenFails \/ DogClose
           \/ Reset
Timer == TimerCreate \/ TimerHalf \/ TimerLeft \/ TimerAll \/ TimerDelete \/ TimerFails

ClockNext == Alarm \/ WriteRtc \/ WriteRtcFails \/ Dog \/ Timer \/ Tick

ClockSpec ==
    mayFail \in BOOLEAN /\ ClockInit /\ [][ClockNext]_<<tool, place, mayFail, clockVars>>
-----------------------------------------------------------------------------
(* A tool that waits for a time waits until it has come, and no longer.  The
   alarm is reported at the time of day asked for, a second late at most and
   on the same day, although the device would ring tomorrow for a time that
   has passed: refusing it is what keeps the tool from a day in read.  When
   the timer tool says so all timers have expired, odd time-outs included,
   and just once.  The upper bounds are for steps that take no time. *)
AlarmOnTime ==
    At("alarm", "rang") =>
        /\ \E t \in 0..clock : t % Day = given
        /\ prompt /\ ~mayFail => clock - given \in 0..1

Expired(i) == (clock - started[i]) \div timeout

TimersOnTime ==
    At("timer", "all") /\ Awake =>
        \A i \in 1..times : Expired(i) >= 1 /\ (prompt => Expired(i) = 1)

OnTime == AlarmOnTime /\ TimersOnTime

(* As long as the tool has the watchdog open it feeds it in time, if the
   driver granted more time than the tool sleeps: setting the time-out, each
   feeding and the close start the time anew.  For steps that take no time. *)
FedInTime ==
    tool = "watchdog" /\ place \notin {"closed", "reset"} /\ prompt /\ pause < timeout => ~Due
=============================================================================
