------------------------------- MODULE Watchdog -------------------------------
(***************************************************************************)
(* Who notices that the gateway has stopped working, and when.             *)
(*                                                                         *)
(* The daemon asks the MCU for the temperature every POLL; a report clears *)
(* g_get_temp, and writes the file watchtemp when that is CAT old.  Its    *)
(* P2P listener clears g_get_temp2 whenever it returns.  The daemon        *)
(* reboots the board when one of the two counters grows.  A second         *)
(* process, gateway_wdt, looks for the daemon's process every PROC and for *)
(* the age of watchtemp every CHECK, by the wall clock, which others set.  *)
(*                                                                         *)
(* Time passes in Ticks; what is due is done before the next one, in any   *)
(* order.  The wall clock appears as the age of watchtemp, which every     *)
(* setting of the clock changes.  A report goes through the command queue  *)
(* (RfTx) and may be lost.  A clock is legal between 1400000000 and        *)
(* 1800000000 seconds; the board has no battery for it, so a boot may      *)
(* leave it illegal, where the age means nothing.                          *)
(*                                                                         *)
(* Abstracted: the boot takes no time; gateway_wdt itself is not killed    *)
(* (no firmware update is under way, see P2PSessions) and found the        *)
(* daemon's pid file; the kernel's message buffer is the fault "kernel".   *)
(***************************************************************************)
EXTENDS Integers

CONSTANTS
  POLL,            \* period of the gettemp timer                   (120 s)
  LISTEN,          \* timeout of PPPP_Listen                         (60 s)
  PROC,            \* period of CheckProcessAlive                    (10 s)
  CHECK,           \* WATCH_MCU_CHECK_DUR                           (600 s)
  CAT,             \* CAT_WATCH_TEMP_DUR                           (7200 s)
  LIMIT,           \* WATCH_MCU_LIMIT                             (15000 s)
  TempMisses,      \* g_get_temp that reboots                           (6)
  ListenMisses,    \* g_get_temp2 that reboots                          (8)
  Fault,           \* what may happen in this instance
  MaxLost,         \* bound: reports of a working MCU lost in a row
  Age,             \* ages a setting of the clock may leave watchtemp with
  Back,            \* the farthest into the future it may date the file
  Reach            \* bound: durations beyond are all alike

Cause == {"none", "temp", "listen", "proc", "mcu", "kernel"}

ASSUME WatchdogAssumption ==
  /\ {POLL, LISTEN, PROC, CHECK, CAT, LIMIT, TempMisses, ListenMisses} \subseteq Nat \ {0}
  /\ MaxLost \in Nat
  /\ Fault \subseteq {"crash", "freeze", "stick", "silence", "clock", "phone", "kernel"}
  /\ Reach \in Nat /\ LIMIT <= Reach
  /\ Back \in Nat /\ Age \subseteq -Back .. LIMIT

VARIABLES
  daemon,          \* running; frozen: there, but nothing in it goes on; gone
  listener,        \* its P2P listener is listening, or stuck
  phone,           \* a phone is being served
  mcu,             \* the MCU answers, or is silent
  legal,           \* the clock shows a legal time
  file,            \* watchtemp exists
  age,             \* the time by the clock since watchtemp was written
  g_temp_rec,      \* the daemon has written it; the variable holds that time
  g_get_temp, g_get_temp2,
  asked,           \* a temperature request is unanswered
  err_cnt,         \* of CheckMCUAlive
  counter,         \* of CheckProcessAlive
  wait,            \* time until the next poll, return of the listener, checks
  lost,            \* reports lost in a row
  steady,          \* time since anything happened to the board (history)
  unheard,         \* time since the last report (history)
  cause            \* of the reboot just made (history)

condition == <<daemon, listener, phone, mcu, legal>>
clockVars == <<file, age>>
beats     == <<g_temp_rec, g_get_temp, g_get_temp2, asked, lost>>
history   == <<steady, unheard, cause>>
vars == <<condition, clockVars, beats, err_cnt, counter, wait, history>>

Task == {"poll", "listen", "proc", "check"}
Period == [task \in Task |-> IF task = "poll" THEN POLL
                             ELSE IF task = "listen" THEN LISTEN
                             ELSE IF task = "proc" THEN PROC ELSE CHECK]

\* err_cnt that reboots.
MissingChecks == LIMIT \div CHECK + 2

ConditionOK ==
  /\ daemon \in {"running", "frozen", "gone"}
  /\ listener \in {"listening", "stuck"}
  /\ phone \in BOOLEAN
  /\ mcu \in {"answers", "silent"}
  /\ legal \in BOOLEAN /\ asked \in BOOLEAN
FileOK ==
  file \in BOOLEAN /\ age \in -Back .. LIMIT /\ g_temp_rec \in BOOLEAN
CountsOK ==
  /\ g_get_temp \in 0 .. TempMisses - 1
  /\ g_get_temp2 \in 0 .. ListenMisses - 1
  /\ err_cnt \in 0 .. MissingChecks - 1
  /\ counter \in 0 .. 3
  /\ lost \in 0 .. MaxLost
WaitOK ==
  wait \in [Task -> Nat] /\ \A task \in Task : wait[task] <= Period[task]
HistoryOK ==
  steady \in 0 .. Reach /\ unheard \in 0 .. LIMIT /\ cause \in Cause

TypeOK == ConditionOK /\ FileOK /\ CountsOK /\ WaitOK /\ HistoryOK

\* The first poll comes 3 s after the start, the first checks a period later.
Init ==
  /\ daemon = "running" /\ listener = "listening" /\ phone = FALSE
  /\ mcu = "answers" /\ legal \in BOOLEAN
  /\ file \in BOOLEAN /\ age \in Age
  /\ g_temp_rec = FALSE /\ g_get_temp = 0 /\ g_get_temp2 = 0
  /\ asked = FALSE /\ lost = 0
  /\ err_cnt = 0 /\ counter = 0
  /\ wait = [Period EXCEPT !.poll = 0]
  /\ steady = 0 /\ unheard = 0 /\ cause = "none"

-----------------------------------------------------------------------------
(* Helpers *)

\* Ages of LIMIT and more are alike to the code; age and unheard stop there.
Later(t, most) == IF t < most THEN t + 1 ELSE most
Due(task) == wait[task] = 0
Done(task) == wait' = [wait EXCEPT ![task] = Period[task]]

\* Tasks of the daemon and of its listener are due only while these go on.
GoesOn(task) ==
  /\ task \in {"poll", "listen"} => daemon = "running"
  /\ task = "listen" => listener = "listening"

\* The daemon's variables when it starts: the first poll comes at once.
FreshDaemon ==
  /\ daemon' = "running" /\ listener' = "listening" /\ phone' = FALSE
  /\ g_temp_rec' = FALSE /\ g_get_temp' = 0 /\ g_get_temp2' = 0
  /\ asked' = FALSE /\ lost' = 0
  /\ steady' = 0 /\ unheard' = 0

\* The board boots, for cause c; the file outlives it unless removed.
Reboots(c, kept) ==
  /\ FreshDaemon
  /\ mcu' \in {mcu, "answers"} /\ legal' \in BOOLEAN
  /\ file' = kept /\ age' \in {age} \cup Age
  /\ err_cnt' = 0 /\ counter' = 0
  /\ wait' = [Period EXCEPT !.poll = 0]
  /\ cause' = c

-----------------------------------------------------------------------------
(* The daemon *)

\* timerHandler on gettemp_t.
\* Mutants of Poll: only the thermometer is counted; one more miss is granted.
PollOnly ==
  /\ daemon = "running" /\ Due("poll")
  /\ \/ /\ g_get_temp + 1 >= TempMisses
        /\ Reboots("temp", file)
     \/ /\ g_get_temp + 1 < TempMisses
        /\ g_get_temp' = g_get_temp + 1
        /\ asked' = TRUE
        /\ Done("poll")
        /\ UNCHANGED <<condition, clockVars, g_temp_rec, g_get_temp2, lost,
                       err_cnt, counter, history>>

PollOneMore ==
  /\ daemon = "running" /\ Due("poll")
  /\ \/ /\ g_get_temp + 1 > TempMisses
        /\ Reboots("temp", file)
     \/ /\ g_get_temp + 1 <= TempMisses /\ g_get_temp2 + 1 > ListenMisses
        /\ Reboots("listen", file)
     \/ /\ g_get_temp + 1 <= TempMisses /\ g_get_temp2 + 1 <= ListenMisses
        /\ g_get_temp' = g_get_temp + 1
        /\ g_get_temp2' = g_get_temp2 + 1
        /\ asked' = TRUE
        /\ Done("poll")
        /\ UNCHANGED <<condition, clockVars, g_temp_rec, lost, err_cnt, counter, history>>

Poll ==
  /\ daemon = "running" /\ Due("poll")
  /\ \/ /\ g_get_temp + 1 >= TempMisses
        /\ Reboots("temp", file)
     \/ /\ g_get_temp + 1 < TempMisses /\ g_get_temp2 + 1 >= ListenMisses
        /\ Reboots("listen", file)
     \/ /\ g_get_temp + 1 < TempMisses /\ g_get_temp2 + 1 < ListenMisses
        /\ g_get_temp' = g_get_temp + 1
        /\ g_get_temp2' = g_get_temp2 + 1
        /\ asked' = TRUE
        /\ Done("poll")
        /\ UNCHANGED <<condition, clockVars, g_temp_rec, lost, err_cnt, counter, history>>

\* CallBackFunc on the thermometer's report.
\* Mutant of TempReport: the file is rewritten at the age the check allows,
\* the other of the two constants.
TempReportLate ==
  /\ asked /\ daemon = "running" /\ mcu = "answers"
  /\ g_get_temp' = 0 /\ asked' = FALSE /\ lost' = 0 /\ unheard' = 0
  /\ \/ /\ legal /\ (g_temp_rec => age >= LIMIT)
        /\ g_temp_rec' = TRUE /\ file' = TRUE /\ age' = 0
     \/ /\ ~ (legal /\ (g_temp_rec => age >= LIMIT))
        /\ UNCHANGED <<g_temp_rec, file, age>>
  /\ UNCHANGED <<condition, g_get_temp2, err_cnt, counter, wait, steady, cause>>

TempReport ==
  /\ asked /\ daemon = "running" /\ mcu = "answers"
  /\ g_get_temp' = 0 /\ asked' = FALSE /\ lost' = 0 /\ unheard' = 0
  /\ \/ /\ legal /\ (g_temp_rec => age >= CAT)
        /\ g_temp_rec' = TRUE /\ file' = TRUE /\ age' = 0
     \/ /\ ~ (legal /\ (g_temp_rec => age >= CAT))
        /\ UNCHANGED <<g_temp_rec, file, age>>
  /\ UNCHANGED <<condition, g_get_temp2, err_cnt, counter, wait, steady, cause>>

\* The MCU is silent, or the report does not arrive.
LoseReport ==
  /\ asked /\ daemon = "running"
  /\ asked' = FALSE
  /\ \/ mcu = "silent" /\ UNCHANGED lost
     \/ mcu = "answers" /\ lost < MaxLost /\ lost' = lost + 1
  /\ UNCHANGED <<condition, clockVars, g_temp_rec, g_get_temp, g_get_temp2,
                 err_cnt, counter, wait, history>>

\* PPPP_Listen returns.
Listened ==
  /\ daemon = "running" /\ listener = "listening" /\ Due("listen")
  /\ g_get_temp2' = 0
  /\ Done("listen")
  /\ UNCHANGED <<condition, clockVars, g_temp_rec, g_get_temp, asked, lost,
                 err_cnt, counter, history>>

\* So does the thread of a phone, before every command.
PhoneServed ==
  /\ daemon = "running" /\ phone /\ g_get_temp2 > 0
  /\ g_get_temp2' = 0
  /\ UNCHANGED <<condition, clockVars, g_temp_rec, g_get_temp, asked, lost,
                 err_cnt, counter, wait, history>>

-----------------------------------------------------------------------------
(* gateway_wdt *)

\* CheckProcessAlive: three restarts, then the board.  A program that cannot
\* be started (RunProgram does not find it: the card is out) reboots at once.
\* Mutant of CheckProcessAlive: it is left for the next check.
CheckProcessAlivePatient ==
  /\ Due("proc")
  /\ \/ /\ daemon # "gone"
        /\ counter' = 0
        /\ Done("proc")
        /\ UNCHANGED <<condition, clockVars, beats, err_cnt, history>>
     \/ /\ daemon = "gone" /\ counter > 2
        /\ Reboots("proc", file)
     \/ /\ daemon = "gone" /\ counter <= 2
        /\ counter' = counter + 1
        /\ Done("proc")
        /\ UNCHANGED <<condition, clockVars, beats, err_cnt, history>>

CheckProcessAlive ==
  /\ Due("proc")
  /\ \/ /\ daemon # "gone"
        /\ counter' = 0
        /\ Done("proc")
        /\ UNCHANGED <<condition, clockVars, beats, err_cnt, history>>
     \/ /\ daemon = "gone"
        /\ Reboots("proc", file)
     \/ /\ daemon = "gone" /\ counter <= 2
        /\ counter' = counter + 1
        /\ FreshDaemon
        /\ wait' = [wait EXCEPT !.proc = PROC, !.poll = 0, !.listen = LISTEN]
        /\ UNCHANGED <<mcu, legal, clockVars, err_cnt, cause>>

\* CheckMCUAlive.
\* Mutant of CheckMCUAlive: a missing file is nothing to worry about.
CheckMCUAliveFileOnly ==
  /\ Due("check")
  /\ \/ /\ file /\ legal /\ age >= LIMIT
        /\ Reboots("mcu", FALSE)
     \/ /\ ~ (file /\ legal /\ age >= LIMIT)
        /\ err_cnt' = 0
        /\ Done("check")
        /\ UNCHANGED <<condition, clockVars, beats, counter, history>>

CheckMCUAlive ==
  /\ Due("check")
  /\ \/ /\ file /\ legal /\ age >= LIMIT
        /\ Reboots("mcu", FALSE)
     \/ /\ file /\ ~ (legal /\ age >= LIMIT)
        /\ err_cnt' = 0
        /\ Done("check")
        /\ UNCHANGED <<condition, clockVars, beats, counter, history>>
     \/ /\ ~ file /\ err_cnt + 1 >= MissingChecks
        /\ Reboots("mcu", FALSE)
     \/ /\ ~ file /\ err_cnt + 1 < MissingChecks
        /\ err_cnt' = err_cnt + 1
        /\ Done("check")
        /\ UNCHANGED <<condition, clockVars, beats, counter, history>>

\* MonitorSystem finds the kernel out of memory.
KernelError ==
  /\ "kernel" \in Fault
  /\ Reboots("kernel", file)

-----------------------------------------------------------------------------
(* What happens to the board, and time *)

Changed == steady' = 0 /\ UNCHANGED <<beats, err_cnt, counter, wait, unheard, cause>>

\* The daemon dies, or stops with its process there (a deadlock, a signal
\* handler that waits for the thread it interrupted).
Crash ==
  /\ \/ "crash" \in Fault /\ daemon = "running" /\ daemon' = "gone"
     \/ "freeze" \in Fault /\ daemon = "running" /\ daemon' = "frozen"
  /\ Changed /\ UNCHANGED <<listener, phone, mcu, legal, clockVars>>

Stick ==
  /\ "stick" \in Fault /\ daemon = "running" /\ listener = "listening"
  /\ listener' = "stuck"
  /\ Changed /\ UNCHANGED <<daemon, phone, mcu, legal, clockVars>>

Silence ==
  /\ "silence" \in Fault /\ mcu = "answers"
  /\ mcu' = "silent"
  /\ Changed /\ UNCHANGED <<daemon, listener, phone, legal, clockVars>>

PhoneComesOrGoes ==
  /\ "phone" \in Fault /\ daemon = "running"
  /\ phone' = ~ phone
  /\ Changed /\ UNCHANGED <<daemon, listener, mcu, legal, clockVars>>

\* The clock is set: by a phone, by ntpdate, by the listener that finds an
\* illegal time (to the age of watchtemp or tmpevent).
SetClock ==
  /\ legal => "clock" \in Fault
  /\ legal' = TRUE /\ age' \in Age
  /\ Changed /\ UNCHANGED <<daemon, listener, phone, mcu, file>>

Tick ==
  /\ \A task \in Task : GoesOn(task) => ~ Due(task)
  /\ ~ (asked /\ daemon = "running")
  /\ wait' = [task \in Task |->
                IF GoesOn(task) THEN wait[task] - 1 ELSE wait[task]]
  /\ age' = Later(age, LIMIT)
  /\ steady' = Later(steady, Reach) /\ unheard' = Later(unheard, LIMIT)
  /\ cause' = "none"
  /\ UNCHANGED <<condition, file, beats, err_cnt, counter>>

Next ==
  \/ Poll \/ TempReport \/ LoseReport \/ Listened \/ PhoneServed
  \/ CheckProcessAlive \/ CheckMCUAlive \/ KernelError
  \/ Crash \/ Stick \/ Silence \/ PhoneComesOrGoes \/ SetClock
  \/ Tick

Spec == Init /\ [][Next]_vars

-----------------------------------------------------------------------------
(* Properties *)

Healthy == daemon = "running" /\ mcu = "answers" /\ legal

\* gateway_wdt does not reboot a gateway that works: its check of watchtemp
\* (gateway_wdt.c:424) fires on a healthy board only if no report came since
\* something happened to it, the last setting of the clock included, or for
\* longer than LIMIT - CAT.  It takes three clocks in two processes: the poll,
\* the rewriting of the file (testRFMain.c:220) and the check.
NoFalseAlarm ==
  [][ cause # "mcu" /\ cause' = "mcu" /\ Healthy
        => steady <= unheard \/ unheard + CAT > LIMIT ]_vars

\* A silent MCU or a stuck listener is noticed by the daemon in time (the
\* message at ceres.c:4688 speaks of 5 missing temperatures, that at
\* ceres.c:4695 of 7 missing timeouts), unless a phone keeps the second
\* counter down.
MissesAreCounted ==
  /\ daemon = "running" /\ mcu = "silent" => steady <= TempMisses * POLL
  /\ daemon = "running" /\ listener = "stuck" /\ ~ phone => steady <= ListenMisses * POLL

\* A daemon that is there and does nothing is noticed by the age of its file,
\* or by its absence, as long as the clock is legal (gateway_wdt.c:420).
FrozenIsNoticed ==
  daemon = "frozen" /\ legal =>
    steady <= IF file THEN Back + LIMIT + CHECK ELSE LIMIT + 2 * CHECK

\* A daemon that dies, however often, is back within a period of
\* CheckProcessAlive, by a restart or with the board (gateway_wdt.c:393).
GoneIsBack ==
  daemon = "gone" => steady <= PROC
=============================================================================
