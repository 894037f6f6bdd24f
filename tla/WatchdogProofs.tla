---------------------------- MODULE WatchdogProofs ----------------------------
(***************************************************************************)
(* What holds of Watchdog for every value of its constants: the types, and *)
(* that gateway_wdt does not reboot a healthy board whose thermometer is   *)
(* heard.  TLC checks both on one small instance (run watchdog).           *)
(*                                                                         *)
(* NoFalseAlarm speaks of a step; it follows from the invariant Known: on  *)
(* a healthy board the file was looked at when the last report came, was   *)
(* then less than CAT old (or became new), and has aged by as much as the  *)
(* time since.  The daemon looks at its variable g_temp_rec, not at the    *)
(* file: WrittenByMe ties the two.                                         *)
(***************************************************************************)
EXTENDS Watchdog, TLAPS

WrittenByMe == g_temp_rec => file

\* A report came since anything happened to the board, and not too long ago.
Heard == Healthy /\ steady > unheard /\ unheard + CAT <= LIMIT

Known == Heard => g_temp_rec /\ age < CAT + unheard

WatchInv == TypeOK /\ WrittenByMe /\ Known

-----------------------------------------------------------------------------

(* A quotient of numbers is a number. *)
LEMMA DivNat == ASSUME NEW a \in Nat, NEW b \in Nat, b > 0 PROVE a \div b \in Nat
BY SMT

(* What the assumptions say of each constant. *)
LEMMA Constants ==
  /\ POLL \in Nat /\ LISTEN \in Nat /\ PROC \in Nat /\ CHECK \in Nat
  /\ CAT \in Nat /\ LIMIT \in Nat /\ Reach \in Nat /\ Back \in Nat /\ MaxLost \in Nat
  /\ TempMisses \in Nat /\ ListenMisses \in Nat
  /\ CAT > 0 /\ LIMIT > 0 /\ CHECK > 0 /\ TempMisses > 0 /\ ListenMisses > 0
  /\ LIMIT <= Reach
  /\ MissingChecks \in Nat /\ MissingChecks > 1
BY DivNat, WatchdogAssumption DEF MissingChecks

(* The period of each task. *)
LEMMA PeriodType ==
  /\ Period \in [Task -> Nat]
  /\ Period["poll"] = POLL /\ Period["listen"] = LISTEN
  /\ Period["proc"] = PROC /\ Period["check"] = CHECK
BY Constants DEF Period, Task

\* Both start values of wait.
LEMMA FirstWait ==
  LET w == [Period EXCEPT !.poll = 0]
  IN w \in [Task -> Nat] /\ \A task \in Task : w[task] <= Period[task]
BY PeriodType, Constants DEF Task

(* Both processes begin healthy. *)
LEMMA InitWatchInv == Init => WatchInv
<1> SUFFICES ASSUME Init PROVE WatchInv
  OBVIOUS
<1>1. ConditionOK
  BY DEF Init, ConditionOK
<1>2. FileOK
  BY WatchdogAssumption DEF Init, FileOK
<1>3. CountsOK
  BY Constants DEF Init, CountsOK
<1>4. WaitOK
  BY FirstWait DEF Init, WaitOK
<1>5. HistoryOK
  BY Constants DEF Init, HistoryOK, Cause
<1>6. WrittenByMe /\ Known
  BY DEF Init, WrittenByMe, Known, Heard
<1> QED BY <1>1, <1>2, <1>3, <1>4, <1>5, <1>6 DEF WatchInv, TypeOK

\* A boot, for whatever cause.
LEMMA RebootStep ==
  ASSUME TypeOK, NEW c \in Cause, NEW kept \in BOOLEAN, Reboots(c, kept)
  PROVE  WatchInv'
<1> USE DEF Reboots, FreshDaemon
<1>1. ConditionOK'
  BY DEF TypeOK, ConditionOK
<1>2. FileOK'
  BY WatchdogAssumption DEF TypeOK, FileOK
<1>3. CountsOK'
  BY Constants DEF CountsOK
<1>4. WaitOK'
  BY FirstWait DEF WaitOK
<1>5. HistoryOK'
  BY Constants DEF HistoryOK
<1>6. WrittenByMe' /\ Known'
  BY DEF WrittenByMe, Known, Heard
<1> QED BY <1>1, <1>2, <1>3, <1>4, <1>5, <1>6 DEF WatchInv, TypeOK

\* A task that was done waits a period.
LEMMA DoneStep ==
  ASSUME WaitOK, NEW task \in Task, Done(task)
  PROVE  WaitOK'
<1>1. Period[task] \in Nat
  BY PeriodType
<1>2. wait \in [Task -> Nat] /\ wait' = [wait EXCEPT ![task] = Period[task]]
  BY DEF WaitOK, Done
<1>3. wait' \in [Task -> Nat]
  BY <1>1, <1>2
<1>4. \A t \in Task : wait'[t] <= Period[t]
  BY <1>1, <1>2, PeriodType DEF WaitOK
<1> QED BY <1>3, <1>4 DEF WaitOK

\* A step that leaves the condition, the file and the times alone.
LEMMA QuietStep ==
  ASSUME WatchInv, CountsOK', WaitOK', asked' \in BOOLEAN,
         UNCHANGED <<condition, clockVars, g_temp_rec, history>>
  PROVE  WatchInv' /\ cause' = cause
<1> USE DEF condition, clockVars, history
<1>1. ConditionOK' /\ FileOK' /\ HistoryOK'
  BY DEF WatchInv, TypeOK, ConditionOK, FileOK, HistoryOK
<1>2. WrittenByMe' /\ Known'
  BY DEF WatchInv, WrittenByMe, Known, Heard, Healthy
<1> QED BY <1>1, <1>2 DEF WatchInv, TypeOK

(* The gettemp timer counts a miss for each side, or reboots at the last. *)
LEMMA PollStep ==
  ASSUME WatchInv, Poll
  PROVE  WatchInv' /\ cause' \in {cause, "temp", "listen"}
<1>1. CASE Reboots("temp", file) \/ Reboots("listen", file)
  BY <1>1, RebootStep DEF Cause, WatchInv, TypeOK, FileOK, Reboots
<1>2. CASE /\ g_get_temp + 1 < TempMisses /\ g_get_temp2 + 1 < ListenMisses
           /\ g_get_temp' = g_get_temp + 1 /\ g_get_temp2' = g_get_temp2 + 1
           /\ asked' = TRUE /\ Done("poll")
           /\ UNCHANGED <<condition, clockVars, g_temp_rec, lost, err_cnt,
                          counter, history>>
  <2>1. WaitOK'
    BY <1>2, DoneStep DEF Task, WatchInv, TypeOK
  <2>2. CountsOK'
    BY <1>2, Constants DEF WatchInv, TypeOK, CountsOK
  <2>3. asked' \in BOOLEAN
    BY <1>2
  <2> QED BY <1>2, <2>1, <2>2, <2>3, QuietStep
<1> QED BY <1>1, <1>2 DEF Poll

(* The thermometer's report writes the file. *)
LEMMA ReportStep ==
  ASSUME WatchInv, TempReport
  PROVE  WatchInv' /\ cause' = cause
<1> USE DEF TempReport
<1>1. ConditionOK' /\ WaitOK'
  BY DEF WatchInv, TypeOK, ConditionOK, WaitOK, condition
<1>2. CountsOK'
  BY Constants DEF WatchInv, TypeOK, CountsOK
<1>3. HistoryOK'
  BY Constants DEF WatchInv, TypeOK, HistoryOK
<1>4. Healthy' => g_temp_rec' /\ age' < CAT
  <2>1. CASE legal /\ (g_temp_rec => age >= CAT)
    <3>1. g_temp_rec' = TRUE /\ age' = 0
      BY <2>1
    <3> QED BY <3>1, Constants
  <2>2. CASE ~ (legal /\ (g_temp_rec => age >= CAT))
    <3>1. UNCHANGED <<g_temp_rec, age, legal>>
      BY <2>2 DEF condition
    <3>2. age \in Int
      BY Constants DEF WatchInv, TypeOK, FileOK
    <3> QED BY <2>2, <3>1, <3>2, Constants DEF Healthy
  <2> QED BY <2>1, <2>2
<1>5. FileOK' /\ WrittenByMe'
  <2>1. CASE UNCHANGED <<g_temp_rec, file, age>>
    BY <2>1 DEF WatchInv, TypeOK, FileOK, WrittenByMe
  <2>2. CASE g_temp_rec' = TRUE /\ file' = TRUE /\ age' = 0
    BY <2>2, Constants DEF FileOK, WrittenByMe
  <2> QED BY <2>1, <2>2
<1>6. Known'
  BY <1>4, Constants DEF Known, Heard
<1> QED BY <1>1, <1>2, <1>3, <1>5, <1>6 DEF WatchInv, TypeOK

(* A lost report, and the signs of the listener and of phones. *)
LEMMA BeatStep ==
  ASSUME WatchInv, LoseReport \/ Listened \/ PhoneServed
  PROVE  WatchInv' /\ cause' = cause
<1>1. WaitOK'
  BY DoneStep DEF LoseReport, Listened, PhoneServed, Task, WatchInv, TypeOK, WaitOK
<1>2. CountsOK'
  BY Constants DEF LoseReport, Listened, PhoneServed, WatchInv, TypeOK, CountsOK
<1>3. UNCHANGED <<condition, clockVars, g_temp_rec, history>>
  BY DEF LoseReport, Listened, PhoneServed
<1>4. asked' \in BOOLEAN
  BY DEF LoseReport, Listened, PhoneServed, WatchInv, TypeOK, ConditionOK
<1> QED BY <1>1, <1>2, <1>3, <1>4, QuietStep

(* The watchdog looks for the process, and starts or reboots it. *)
LEMMA ProcessStep ==
  ASSUME WatchInv, CheckProcessAlive
  PROVE  WatchInv' /\ cause' \in {cause, "proc"}
<1>1. CASE Reboots("proc", file)
  BY <1>1, RebootStep DEF Cause, WatchInv, TypeOK, FileOK, Reboots
<1>2. CASE /\ counter' = 0 /\ Done("proc")
           /\ UNCHANGED <<condition, clockVars, beats, err_cnt, history>>
  <2>1. WaitOK'
    BY <1>2, DoneStep DEF Task, WatchInv, TypeOK
  <2>2. CountsOK'
    BY <1>2 DEF WatchInv, TypeOK, CountsOK, beats
  <2> QED BY <1>2, <2>1, <2>2, QuietStep DEF beats, WatchInv, TypeOK, ConditionOK
<1>3. CASE /\ counter <= 2 /\ counter' = counter + 1 /\ FreshDaemon
           /\ wait' = [wait EXCEPT !.proc = PROC, !.poll = 0, !.listen = LISTEN]
           /\ UNCHANGED <<mcu, legal, clockVars, err_cnt, cause>>
  <2> USE DEF FreshDaemon
  <2>1. WaitOK'
    <3>1. wait \in [Task -> Nat] /\ \A task \in Task : wait[task] <= Period[task]
      BY DEF WatchInv, TypeOK, WaitOK
    <3>2. wait' = [wait EXCEPT !["proc"] = PROC, !["poll"] = 0, !["listen"] = LISTEN]
      BY <1>3
    <3>3. wait' \in [Task -> Nat]
      BY <3>1, <3>2, Constants
    <3>4. ASSUME NEW task \in Task PROVE wait'[task] <= Period[task]
      BY <3>1, <3>2, PeriodType, Constants DEF Task
    <3> QED BY <3>3, <3>4 DEF WaitOK
  <2>2. ConditionOK'
    BY <1>3 DEF WatchInv, TypeOK, ConditionOK
  <2>3. FileOK' /\ WrittenByMe'
    BY <1>3 DEF WatchInv, TypeOK, FileOK, WrittenByMe, clockVars
  <2>4. CountsOK'
    BY <1>3, Constants DEF WatchInv, TypeOK, CountsOK
  <2>5. HistoryOK' /\ Known'
    BY <1>3, Constants DEF WatchInv, TypeOK, HistoryOK, Known, Heard
  <2> QED BY <1>3, <2>1, <2>2, <2>3, <2>4, <2>5 DEF WatchInv, TypeOK
<1> QED BY <1>1, <1>2, <1>3 DEF CheckProcessAlive

\* The check that may reboot: it does not on a board the daemon has heard.
LEMMA CheckStep ==
  ASSUME WatchInv, CheckMCUAlive
  PROVE  /\ WatchInv'
         /\ cause' = cause \/ ~ Heard
<1>1. /\ age \in Int /\ steady \in Int /\ unheard \in Int
  BY Constants DEF WatchInv, TypeOK, FileOK, HistoryOK
<1>2. CASE Reboots("mcu", FALSE) /\ (file => age >= LIMIT)
  <2>1. WatchInv'
    BY <1>2, RebootStep DEF Cause, WatchInv
  <2>2. ASSUME Heard PROVE FALSE
    <3>1. g_temp_rec /\ age < CAT + unheard
      BY <2>2 DEF WatchInv, Known
    <3>2. age >= LIMIT
      BY <3>1, <1>2 DEF WatchInv, WrittenByMe
    <3> QED BY <3>1, <3>2, <2>2, <1>1, Constants DEF Heard
  <2> QED BY <2>1, <2>2
<1>3. CASE /\ \/ err_cnt' = 0
              \/ err_cnt + 1 < MissingChecks /\ err_cnt' = err_cnt + 1
           /\ Done("check")
           /\ UNCHANGED <<condition, clockVars, beats, counter, history>>
  <2>1. WaitOK'
    BY <1>3, DoneStep DEF Task, WatchInv, TypeOK
  <2>2. CountsOK'
    BY <1>3, Constants DEF WatchInv, TypeOK, CountsOK, beats
  <2> QED BY <1>3, <2>1, <2>2, QuietStep DEF beats, WatchInv, TypeOK, ConditionOK
<1>4. CASE file
  BY <1>2, <1>3, <1>4 DEF CheckMCUAlive
<1>5. CASE ~ file
  BY <1>2, <1>3, <1>5 DEF CheckMCUAlive
<1> QED BY <1>4, <1>5

(* An error of the kernel reboots. *)
LEMMA KernelStep ==
  ASSUME WatchInv, KernelError
  PROVE  WatchInv' /\ cause' = "kernel"
BY RebootStep DEF KernelError, Cause, WatchInv, TypeOK, FileOK, Reboots

\* What happens to the board starts its time anew.
LEMMA ChangeStep ==
  ASSUME WatchInv, Crash \/ Stick \/ Silence \/ PhoneComesOrGoes \/ SetClock
  PROVE  WatchInv' /\ cause' = cause
<1> USE DEF Crash, Stick, Silence, PhoneComesOrGoes, SetClock, Changed
<1>1. ConditionOK'
  BY DEF WatchInv, TypeOK, ConditionOK, beats
<1>2. FileOK'
  BY WatchdogAssumption DEF WatchInv, TypeOK, FileOK, clockVars, beats
<1>3. WrittenByMe'
  BY DEF WatchInv, WrittenByMe, clockVars, beats
<1>4. CountsOK' /\ WaitOK'
  BY DEF WatchInv, TypeOK, CountsOK, WaitOK, beats
<1>5. HistoryOK' /\ Known'
  BY Constants DEF WatchInv, TypeOK, HistoryOK, Known, Heard
<1> QED BY <1>1, <1>2, <1>3, <1>4, <1>5 DEF WatchInv, TypeOK

(* A second passes. *)
LEMMA TickStep ==
  ASSUME WatchInv, Tick
  PROVE  WatchInv' /\ cause' = "none"
<1>1. WaitOK'
  <2>1. \A task \in Task : wait[task] \in Nat /\ wait[task] <= Period[task]
    BY DEF WatchInv, TypeOK, WaitOK
  <2>2. \A task \in Task : /\ wait'[task] \in Nat
                           /\ wait'[task] <= wait[task]
    BY <2>1 DEF Tick, Due
  <2>3. wait' \in [Task -> Nat]
    BY <2>2 DEF Tick
  <2>4. \A task \in Task : wait'[task] <= Period[task]
    BY <2>1, <2>2, PeriodType
  <2> QED BY <2>3, <2>4 DEF WaitOK
<1>2. /\ age \in -Back .. LIMIT /\ steady \in 0 .. Reach /\ unheard \in 0 .. LIMIT
  BY DEF WatchInv, TypeOK, FileOK, HistoryOK
<1>3. /\ age' \in -Back .. LIMIT /\ steady' \in 0 .. Reach /\ unheard' \in 0 .. LIMIT
  BY <1>2, Constants DEF Tick, Later
<1>4. ConditionOK' /\ CountsOK' /\ WrittenByMe'
  BY DEF WatchInv, TypeOK, ConditionOK, CountsOK, WrittenByMe, Tick, condition, beats
<1>5. FileOK' /\ HistoryOK'
  BY <1>3 DEF WatchInv, TypeOK, FileOK, HistoryOK, Tick, beats, Cause
<1>6. Known'
  <2> SUFFICES ASSUME Healthy', steady' > unheard', unheard' + CAT <= LIMIT
               PROVE  g_temp_rec' /\ age' < CAT + unheard'
    BY DEF Known, Heard
  <2>1. Healthy /\ g_temp_rec' = g_temp_rec
    BY DEF Tick, Healthy, condition, beats
  <2>2. unheard' = unheard + 1 /\ age' <= age + 1 /\ steady > unheard
    BY <1>2, Constants DEF Tick, Later
  <2>3. g_temp_rec /\ age < CAT + unheard
    BY <2>1, <2>2, <1>2, Constants DEF WatchInv, Known, Heard
  <2> QED BY <2>1, <2>2, <2>3, <1>2, <1>3, Constants
<1> QED BY <1>1, <1>4, <1>5, <1>6 DEF WatchInv, TypeOK, Tick

(* Nothing happens. *)
LEMMA StutterStep == WatchInv /\ UNCHANGED vars => WatchInv'
BY QuietStep DEF WatchInv, TypeOK, ConditionOK, CountsOK, WaitOK, vars, beats, clockVars

-----------------------------------------------------------------------------

\* The types, with the file and the daemon's memory of it (testRFMain.c:220).
THEOREM WatchInvariant == Spec => []WatchInv
<1>1. WatchInv /\ [Next]_vars => WatchInv'
  BY PollStep, ReportStep, BeatStep, ProcessStep, CheckStep, KernelStep,
     ChangeStep, TickStep, StutterStep DEF Next
<1> QED BY InitWatchInv, <1>1, PTL DEF Spec

\* The counters, times and ages stay within what the code tests them against.
THEOREM WatchTypeOK == Spec => []TypeOK
<1>1. WatchInv => TypeOK
  BY DEF WatchInv
<1> QED BY <1>1, WatchInvariant, PTL

\* gateway_wdt reboots a healthy board only when something happened to it
\* after the last report, or that report is too old (gateway_wdt.c:424).
THEOREM WatchNoFalseAlarm == Spec => NoFalseAlarm
<1>1. WatchInv /\ [Next]_vars =>
        [cause # "mcu" /\ cause' = "mcu" /\ Healthy
           => steady <= unheard \/ unheard + CAT > LIMIT]_vars
  <2> SUFFICES ASSUME WatchInv, Next, cause # "mcu", cause' = "mcu", Healthy
               PROVE  steady <= unheard \/ unheard + CAT > LIMIT
    OBVIOUS
  <2>1. CASE CheckMCUAlive
    <3>1. ~ Heard
      BY <2>1, CheckStep
    <3>2. steady \in Int /\ unheard \in Int
      BY DEF WatchInv, TypeOK, HistoryOK
    <3> QED BY <3>1, <3>2, Constants DEF Heard
  <2>2. CASE ~ CheckMCUAlive
    BY <2>2, PollStep, ReportStep, BeatStep, ProcessStep, KernelStep,
       ChangeStep, TickStep DEF Next
  <2> QED BY <2>1, <2>2
<1> QED BY <1>1, WatchInvariant, PTL DEF Spec, NoFalseAlarm

-----------------------------------------------------------------------------
(* Deadlines.  Each bounds the time since the fault together with what is  *)
(* left until the check that ends it: time passes from the one to the      *)
(* other, and each miss a check counts pays for one more period.           *)

GoneTime == daemon = "gone" => steady + wait["proc"] <= PROC

TempTime ==
  daemon = "running" /\ mcu = "silent"
    => steady + wait["poll"] <= (g_get_temp + 1) * POLL

ListenTime ==
  daemon = "running" /\ listener = "stuck" /\ ~ phone
    => steady + wait["poll"] <= (g_get_temp2 + 1) * POLL

FileTime ==
  daemon = "frozen" /\ legal /\ file
    => \/ steady <= age + Back
       \/ age = LIMIT /\ steady + wait["check"] <= Back + LIMIT + CHECK

NoFileTime ==
  daemon = "frozen" /\ legal /\ ~ file
    => steady + wait["check"] <= (err_cnt + 1) * CHECK

TimesInv == GoneTime /\ TempTime /\ ListenTime /\ FileTime /\ NoFileTime

\* What one more miss pays for.
LEMMA OneMore ==
  ASSUME NEW n \in Nat, NEW p \in Nat
  PROVE  /\ ((n + 1) + 1) * p = (n + 1) * p + p
         /\ (n + 1) * p \in Nat
         /\ p <= (n + 1) * p
<1>1. n * p \in Nat
  BY SMT
<1>2. (n + 1) * p = n * p + p /\ ((n + 1) + 1) * p = n * p + p + p
  BY SMT
<1> QED BY <1>1, <1>2

(* A quotient times its divisor is no more than the number. *)
LEMMA DivTimes ==
  ASSUME NEW a \in Nat, NEW b \in Nat, b > 0
  PROVE  (a \div b + 2) * b <= a + 2 * b
<1>1. a \div b \in Nat /\ a = b * (a \div b) + (a % b) /\ a % b \in Nat
  BY DivNat, SMT
<1>2. (a \div b + 2) * b = b * (a \div b) + 2 * b /\ b * (a \div b) \in Nat
  BY <1>1, SMT
<1> QED BY <1>1, <1>2

(* Products of larger numbers are larger. *)
LEMMA Monotone ==
  ASSUME NEW n \in Nat, NEW m \in Nat, NEW p \in Nat, n <= m
  PROVE  n * p <= m * p
<1>1. PICK d \in Nat : m = n + d
  <2>1. m - n \in Nat /\ m = n + (m - n)
    OBVIOUS
  <2> QED BY <2>1
<1>2. m * p = n * p + d * p /\ d * p \in Nat /\ n * p \in Nat
  BY <1>1, SMT
<1> QED BY <1>2

\* The numbers the deadlines speak of.
LEMMA Numbers ==
  ASSUME WatchInv
  PROVE  /\ g_get_temp \in Nat /\ g_get_temp + 1 <= TempMisses
         /\ g_get_temp2 \in Nat /\ g_get_temp2 + 1 <= ListenMisses
         /\ err_cnt \in Nat /\ err_cnt + 1 <= MissingChecks
         /\ steady \in Nat /\ age \in Int /\ -Back <= age /\ age <= LIMIT
         /\ \A task \in Task : wait[task] \in Nat
         /\ wait["poll"] <= POLL /\ wait["proc"] <= PROC /\ wait["check"] <= CHECK
<1>1. /\ g_get_temp \in Nat /\ g_get_temp + 1 <= TempMisses
      /\ g_get_temp2 \in Nat /\ g_get_temp2 + 1 <= ListenMisses
      /\ err_cnt \in Nat /\ err_cnt + 1 <= MissingChecks
  BY Constants DEF WatchInv, TypeOK, CountsOK
<1>2. steady \in Nat /\ age \in Int /\ -Back <= age /\ age <= LIMIT
  BY Constants DEF WatchInv, TypeOK, FileOK, HistoryOK
<1>3. /\ \A task \in Task : wait[task] \in Nat
      /\ wait["poll"] <= POLL /\ wait["proc"] <= PROC /\ wait["check"] <= CHECK
  BY PeriodType DEF WatchInv, TypeOK, WaitOK, Task
<1> QED BY <1>1, <1>2, <1>3

\* The time starts anew.
LEMMA FreshTimes == WatchInv /\ steady = 0 => TimesInv
<1> SUFFICES ASSUME WatchInv, steady = 0 PROVE TimesInv
  OBVIOUS
<1>1. GoneTime
  BY Numbers, Constants DEF GoneTime, Task
<1>2. TempTime
  <2>1. POLL <= (g_get_temp + 1) * POLL /\ (g_get_temp + 1) * POLL \in Nat
    BY Numbers, Constants, OneMore
  <2> QED BY <2>1, Numbers, Constants DEF TempTime, Task
<1>3. ListenTime
  <2>1. POLL <= (g_get_temp2 + 1) * POLL /\ (g_get_temp2 + 1) * POLL \in Nat
    BY Numbers, Constants, OneMore
  <2> QED BY <2>1, Numbers, Constants DEF ListenTime, Task
<1>4. FileTime
  BY Numbers, Constants DEF FileTime
<1>5. NoFileTime
  <2>1. CHECK <= (err_cnt + 1) * CHECK /\ (err_cnt + 1) * CHECK \in Nat
    BY Numbers, Constants, OneMore
  <2> QED BY <2>1, Numbers, Constants DEF NoFileTime, Task
<1> QED BY <1>1, <1>2, <1>3, <1>4, <1>5 DEF TimesInv

(* With no fault pending, all promises on time hold anew. *)
LEMMA FreshTimesNext == WatchInv' /\ steady' = 0 => TimesInv'
<1>1. (WatchInv /\ steady = 0 => TimesInv)'
  BY FreshTimes, PTL
<1> QED BY <1>1

\* What happens to the board, and a boot, start it anew.
LEMMA AnewTimes ==
  ASSUME WatchInv',
         \/ Crash \/ Stick \/ Silence \/ PhoneComesOrGoes \/ SetClock
         \/ \E c \in Cause, kept \in BOOLEAN : Reboots(c, kept)
  PROVE  TimesInv'
<1>1. steady' = 0
  BY DEF Crash, Stick, Silence, PhoneComesOrGoes, SetClock, Changed, Reboots, FreshDaemon
<1> QED BY <1>1, FreshTimesNext

(* A poll that does not reboot uses up one of the misses still allowed. *)
LEMMA PollTimes ==
  ASSUME WatchInv, WatchInv', TimesInv, Poll
  PROVE  TimesInv'
<1>1. CASE Reboots("temp", file) \/ Reboots("listen", file)
  BY <1>1, AnewTimes DEF Cause, WatchInv, TypeOK, FileOK
<1>2. CASE /\ daemon = "running" /\ wait["poll"] = 0
           /\ g_get_temp' = g_get_temp + 1 /\ g_get_temp2' = g_get_temp2 + 1
           /\ wait'["poll"] = POLL
           /\ UNCHANGED <<condition, steady>>
  <2>1. daemon' = "running"
    BY <1>2 DEF condition
  <2>2. TempTime'
    <3>1. (g_get_temp + 1 + 1) * POLL = (g_get_temp + 1) * POLL + POLL
          /\ (g_get_temp + 1) * POLL \in Nat
      BY Numbers, Constants, OneMore
    <3>2. mcu = "silent" => steady <= (g_get_temp + 1) * POLL
      BY <1>2, <3>1, Numbers DEF TimesInv, TempTime
    <3> QED BY <1>2, <3>1, <3>2, Numbers, Constants DEF TempTime, condition
  <2>3. ListenTime'
    <3>1. (g_get_temp2 + 1 + 1) * POLL = (g_get_temp2 + 1) * POLL + POLL
          /\ (g_get_temp2 + 1) * POLL \in Nat
      BY Numbers, Constants, OneMore
    <3>2. listener = "stuck" /\ ~ phone => steady <= (g_get_temp2 + 1) * POLL
      BY <1>2, <3>1, Numbers DEF TimesInv, ListenTime
    <3> QED BY <1>2, <3>1, <3>2, Numbers, Constants DEF ListenTime, condition
  <2>4. GoneTime' /\ FileTime' /\ NoFileTime'
    BY <2>1 DEF GoneTime, FileTime, NoFileTime
  <2> QED BY <2>2, <2>3, <2>4 DEF TimesInv
<1>3. Done("poll") => wait'["poll"] = POLL
  BY PeriodType DEF Done, Task, WatchInv, TypeOK, WaitOK
<1> QED BY <1>1, <1>2, <1>3 DEF Poll, Due, history

\* The daemon's other steps reset a counter only when there is nothing to count.
LEMMA BeatTimes ==
  ASSUME WatchInv, TimesInv, TempReport \/ LoseReport \/ Listened \/ PhoneServed
  PROVE  TimesInv'
<1>1. UNCHANGED <<condition, steady, err_cnt>> /\ daemon = "running"
  BY DEF TempReport, LoseReport, Listened, PhoneServed, history
<1>2. wait'["poll"] = wait["poll"]
  BY DEF TempReport, LoseReport, Listened, PhoneServed, Done, WatchInv, TypeOK, WaitOK, Task
<1>3. mcu = "silent" => g_get_temp' = g_get_temp
  BY DEF TempReport, LoseReport, Listened, PhoneServed
<1>4. listener = "stuck" /\ ~ phone => g_get_temp2' = g_get_temp2
  BY DEF TempReport, LoseReport, Listened, PhoneServed
<1>5. GoneTime' /\ FileTime' /\ NoFileTime'
  BY <1>1 DEF condition, GoneTime, FileTime, NoFileTime
<1>6. TempTime'
  BY <1>1, <1>2, <1>3 DEF condition, TimesInv, TempTime
<1>7. ListenTime'
  BY <1>1, <1>2, <1>4 DEF condition, TimesInv, ListenTime
<1> QED BY <1>5, <1>6, <1>7 DEF TimesInv

(* The check of the process ends the absence of a daemon, or leaves it there. *)
LEMMA ProcessTimes ==
  ASSUME WatchInv, WatchInv', TimesInv, CheckProcessAlive
  PROVE  TimesInv'
<1>1. CASE Reboots("proc", file)
  BY <1>1, AnewTimes DEF Cause, WatchInv, TypeOK, FileOK
<1>2. CASE FreshDaemon
  BY <1>2, FreshTimesNext DEF FreshDaemon
<1>3. CASE /\ daemon # "gone" /\ Done("proc")
           /\ UNCHANGED <<condition, clockVars, beats, err_cnt, history>>
  <2>1. wait'["poll"] = wait["poll"] /\ wait'["check"] = wait["check"]
    BY <1>3 DEF Done, WatchInv, TypeOK, WaitOK, Task
  <2>2. GoneTime' /\ TempTime' /\ ListenTime'
    BY <1>3, <2>1 DEF TimesInv, GoneTime, TempTime, ListenTime, condition, beats, history
  <2>3. FileTime' /\ NoFileTime'
    BY <1>3, <2>1 DEF TimesInv, FileTime, NoFileTime, condition, clockVars, history
  <2> QED BY <2>2, <2>3 DEF TimesInv
<1> QED BY <1>1, <1>2, <1>3 DEF CheckProcessAlive

\* A check that does not reboot has found the file young enough, or counts.
LEMMA CheckTimes ==
  ASSUME WatchInv, WatchInv', TimesInv, CheckMCUAlive
  PROVE  TimesInv'
<1>1. CASE Reboots("mcu", FALSE)
  BY <1>1, AnewTimes DEF Cause
<1>2. CASE /\ Due("check") /\ Done("check")
           /\ \/ file /\ ~ (legal /\ age >= LIMIT)
              \/ ~ file /\ err_cnt' = err_cnt + 1
           /\ UNCHANGED <<condition, clockVars, beats, counter, history>>
  <2>1. /\ wait["check"] = 0 /\ wait'["check"] = CHECK
        /\ wait'["poll"] = wait["poll"] /\ wait'["proc"] = wait["proc"]
    BY <1>2, PeriodType DEF Due, Done, WatchInv, TypeOK, WaitOK, Task
  <2>2. GoneTime' /\ TempTime' /\ ListenTime'
    BY <1>2, <2>1 DEF TimesInv, GoneTime, TempTime, ListenTime, condition, beats, history
  <2>3. FileTime'
    <3> SUFFICES ASSUME daemon' = "frozen", legal', file' PROVE steady' <= age' + Back
      BY DEF FileTime
    <3>1. daemon = "frozen" /\ legal /\ file /\ age' = age /\ steady' = steady
      BY <1>2 DEF condition, clockVars, history
    <3>2. ~ (age >= LIMIT)
      BY <1>2, <3>1
    <3>3. steady <= age + Back
      BY <3>1, <3>2, Numbers, Constants DEF TimesInv, FileTime
    <3> QED BY <3>1, <3>3
  <2>4. NoFileTime'
    <3> SUFFICES ASSUME daemon' = "frozen", legal', ~ file'
                 PROVE  steady' + wait'["check"] <= (err_cnt' + 1) * CHECK
      BY DEF NoFileTime
    <3>1. daemon = "frozen" /\ legal /\ ~ file /\ steady' = steady
      BY <1>2 DEF condition, clockVars, history
    <3>2. err_cnt' = err_cnt + 1
      BY <1>2, <3>1
    <3>3. steady + 0 <= (err_cnt + 1) * CHECK
      BY <2>1, <3>1 DEF TimesInv, NoFileTime
    <3>4. (err_cnt + 1 + 1) * CHECK = (err_cnt + 1) * CHECK + CHECK
          /\ (err_cnt + 1) * CHECK \in Nat
      BY Numbers, Constants, OneMore
    <3> QED BY <2>1, <3>1, <3>2, <3>3, <3>4, Numbers, Constants
  <2> QED BY <2>2, <2>3, <2>4 DEF TimesInv
<1>3. CASE file
  BY <1>1, <1>2, <1>3 DEF CheckMCUAlive
<1>4. CASE ~ file
  BY <1>1, <1>2, <1>4 DEF CheckMCUAlive
<1> QED BY <1>3, <1>4

\* Time passes only when nothing is due: what is left shrinks by as much.
LEMMA TickTimes ==
  ASSUME WatchInv, WatchInv', TimesInv, Tick
  PROVE  TimesInv'
<1>1. /\ UNCHANGED <<daemon, listener, phone, mcu, legal, file>>
      /\ UNCHANGED <<g_get_temp, g_get_temp2, err_cnt>>
  BY DEF Tick, condition, beats
<1>2. /\ steady' <= steady + 1 /\ steady' \in Int
      /\ \/ age' = age + 1
         \/ age = LIMIT /\ age' = LIMIT
  BY Numbers, Constants DEF Tick, Later
<1>3. wait["proc"] > 0 /\ wait'["proc"] = wait["proc"] - 1
  BY Numbers DEF Tick, GoesOn, Due, Task
<1>4. wait["check"] > 0 /\ wait'["check"] = wait["check"] - 1
  BY Numbers DEF Tick, GoesOn, Due, Task
<1>5. daemon = "running" => wait["poll"] > 0 /\ wait'["poll"] = wait["poll"] - 1
  BY Numbers DEF Tick, GoesOn, Due, Task
<1>6. GoneTime'
  BY <1>1, <1>2, <1>3, Numbers, Constants DEF TimesInv, GoneTime, Task
<1>7. TempTime'
  <2>1. (g_get_temp + 1) * POLL \in Nat
    BY Numbers, Constants, OneMore
  <2> QED BY <1>1, <1>2, <1>5, <2>1, Numbers DEF TimesInv, TempTime, Task
<1>8. ListenTime'
  <2>1. (g_get_temp2 + 1) * POLL \in Nat
    BY Numbers, Constants, OneMore
  <2> QED BY <1>1, <1>2, <1>5, <2>1, Numbers DEF TimesInv, ListenTime, Task
<1>9. FileTime'
  <2> SUFFICES ASSUME daemon = "frozen", legal, file
               PROVE  \/ steady' <= age' + Back
                      \/ age' = LIMIT /\ steady' + wait'["check"] <= Back + LIMIT + CHECK
    BY <1>1 DEF FileTime
  <2>1. \/ steady <= age + Back
        \/ age = LIMIT /\ steady + wait["check"] <= Back + LIMIT + CHECK
    BY DEF TimesInv, FileTime
  <2>2. CASE age = LIMIT /\ age' = LIMIT
    <3>1. steady + wait["check"] <= Back + LIMIT + CHECK
      BY <2>1, <2>2, Numbers, Constants DEF Task
    <3> QED BY <2>2, <3>1, <1>2, <1>4, Numbers, Constants DEF Task
  <2>3. CASE age' = age + 1 /\ steady <= age + Back
    BY <2>3, <1>2, Numbers, Constants
  <2>4. CASE age' = age + 1 /\ age = LIMIT
    BY <2>4, WatchInv', Constants DEF WatchInv, TypeOK, FileOK
  <2> QED BY <1>2, <2>1, <2>2, <2>3, <2>4
<1>10. NoFileTime'
  <2>1. (err_cnt + 1) * CHECK \in Nat
    BY Numbers, Constants, OneMore
  <2> QED BY <1>1, <1>2, <1>4, <2>1, Numbers DEF TimesInv, NoFileTime, Task
<1> QED BY <1>6, <1>7, <1>8, <1>9, <1>10 DEF TimesInv

\* Each watcher has the time left that its deadline leaves: what has passed, what is
\* still to wait and what is still to count add up to the limit at most.
THEOREM WatchTimes == Spec => []TimesInv
<1>1. Init => TimesInv
  BY InitWatchInv, FreshTimes DEF Init
<1>2. WatchInv /\ WatchInv' /\ TimesInv /\ [Next]_vars => TimesInv'
  <2> SUFFICES ASSUME WatchInv, WatchInv', TimesInv, [Next]_vars PROVE TimesInv'
    OBVIOUS
  <2>1. CASE KernelError
    BY <2>1, AnewTimes DEF KernelError, Cause, WatchInv, TypeOK, FileOK
  <2>2. CASE UNCHANGED vars
    BY <2>2 DEF vars, condition, clockVars, beats, history, TimesInv,
                GoneTime, TempTime, ListenTime, FileTime, NoFileTime
  <2> QED BY <2>1, <2>2, PollTimes, BeatTimes, ProcessTimes, CheckTimes,
             AnewTimes, TickTimes DEF Next
<1> QED BY <1>1, <1>2, WatchInvariant, PTL DEF Spec

\* Six missed temperatures, or eight missed timeouts of the listener, take no
\* longer than six or eight periods of the poll (ceres.c:4684).
THEOREM WatchMissesAreCounted == Spec => []MissesAreCounted
<1>1. WatchInv /\ TimesInv => MissesAreCounted
  <2> SUFFICES ASSUME WatchInv, TimesInv PROVE MissesAreCounted
    OBVIOUS
  <2>1. (g_get_temp + 1) * POLL <= TempMisses * POLL
    BY Numbers, Constants, Monotone
  <2>2. (g_get_temp2 + 1) * POLL <= ListenMisses * POLL
    BY Numbers, Constants, Monotone
  <2>3. /\ (g_get_temp + 1) * POLL \in Nat /\ TempMisses * POLL \in Nat
        /\ (g_get_temp2 + 1) * POLL \in Nat /\ ListenMisses * POLL \in Nat
    BY Numbers, Constants, SMT
  <2>4. daemon = "running" /\ mcu = "silent" => steady <= TempMisses * POLL
    BY <2>1, <2>3, Numbers DEF TimesInv, TempTime, Task
  <2>5. daemon = "running" /\ listener = "stuck" /\ ~ phone
          => steady <= ListenMisses * POLL
    BY <2>2, <2>3, Numbers DEF TimesInv, ListenTime, Task
  <2> QED BY <2>4, <2>5 DEF MissesAreCounted
<1> QED BY <1>1, WatchInvariant, WatchTimes, PTL

\* A frozen daemon is noticed (gateway_wdt.c:415).
THEOREM WatchFrozenIsNoticed == Spec => []FrozenIsNoticed
<1>1. WatchInv /\ TimesInv => FrozenIsNoticed
  <2> SUFFICES ASSUME WatchInv, TimesInv, daemon = "frozen", legal
               PROVE  steady <= IF file THEN Back + LIMIT + CHECK ELSE LIMIT + 2 * CHECK
    BY DEF FrozenIsNoticed
  <2>1. ASSUME file PROVE steady <= Back + LIMIT + CHECK
    BY <2>1, Numbers, Constants DEF TimesInv, FileTime, Task
  <2>2. ASSUME ~ file PROVE steady <= LIMIT + 2 * CHECK
    <3>1. (err_cnt + 1) * CHECK <= MissingChecks * CHECK
      BY Numbers, Constants, Monotone
    <3>2. MissingChecks * CHECK <= LIMIT + 2 * CHECK
      BY Constants, DivTimes DEF MissingChecks
    <3>3. (err_cnt + 1) * CHECK \in Nat /\ MissingChecks * CHECK \in Nat
      BY Numbers, Constants, SMT
    <3> QED BY <2>2, <3>1, <3>2, <3>3, Numbers, Constants DEF TimesInv, NoFileTime, Task
  <2> QED BY <2>1, <2>2
<1> QED BY <1>1, WatchInvariant, WatchTimes, PTL

\* A daemon that died is back within a period of the check (gateway_wdt.c:377).
THEOREM WatchGoneIsBack == Spec => []GoneIsBack
<1>1. WatchInv /\ TimesInv => GoneIsBack
  BY Numbers, Constants DEF GoneIsBack, TimesInv, GoneTime, Task
<1> QED BY <1>1, WatchInvariant, WatchTimes, PTL
=============================================================================
