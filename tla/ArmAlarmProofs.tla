---------------------------- MODULE ArmAlarmProofs ----------------------------
(***************************************************************************)
(* Type correctness of ArmAlarm for every instance.  When calls do not     *)
(* overlap: a delay always has a timer to end it, and, each for the events *)
(* it depends on, a restart keeps the side, an alarm is shown, a disarmed  *)
(* house is quiet, and the timers of delays find the delay they belong to. *)
(***************************************************************************)
EXTENDS ArmAlarm, TLAPS

-----------------------------------------------------------------------------
(* What the timer operations return *)

\* makeTimer yields a timer within the bound; so do zeroing and killing one.
LEMMA TimerOps ==
  ASSUME TypeOK, NEW v \in Timer
  PROVE  /\ CanForget(v) => Made(v) \in TimerState /\ Zeroed(v) \in TimerState
         /\ Killed(v) \in TimerState
         /\ Made(v).var /\ Made(v).own
         /\ ~Killed(v).var /\ ~Killed(v).own /\ ~Zeroed(v).var
<1>1. timer[v] \in TimerState
  BY DEF TypeOK, TimerState
<1>2. Forgotten(v) \in Nat
  BY <1>1, ArmAlarmAssumption DEF Forgotten, TimerState
<1>3. CanForget(v) => Made(v) \in TimerState /\ Zeroed(v) \in TimerState
  BY <1>2, ArmAlarmAssumption DEF CanForget, Made, Zeroed, TimerState
<1>4. Killed(v) \in TimerState /\ ~Killed(v).var /\ ~Killed(v).own
  BY <1>1 DEF Killed, TimerState
<1>5. Made(v).var /\ Made(v).own /\ ~Zeroed(v).var
  BY DEF Made, Zeroed
<1> QED
  BY <1>3, <1>4, <1>5

\* An expiring timer leaves every other variable's timers alone, and its own
\* variable too.
LEMMA ExpireOp ==
  ASSUME TypeOK, NEW v \in Timer, Expire(v)
  PROVE  /\ timer' \in [Timer -> TimerState]
         /\ timer'[v].var = timer[v].var
         /\ \A w \in Timer : w # v => timer'[w] = timer[w]
<1>1. timer \in [Timer -> TimerState] /\ timer[v] \in TimerState
  BY DEF TypeOK, TimerState
<1>2. CASE timer[v].own /\ timer' = [timer EXCEPT ![v].own = FALSE]
  BY <1>1, <1>2 DEF TimerState
<1>3. CASE timer[v].old > 0 /\ timer' = [timer EXCEPT ![v].old = @ - 1]
  BY <1>1, <1>3, ArmAlarmAssumption DEF TimerState
<1> QED
  BY <1>2, <1>3 DEF Expire

\* ... and zeroes it where the handler does.
LEMMA ExpireAndZeroOp ==
  ASSUME TypeOK, NEW v \in Timer, ExpireAndZero(v)
  PROVE  /\ timer' \in [Timer -> TimerState]
         /\ ~timer'[v].var
         /\ \A w \in Timer : w # v => timer'[w] = timer[w]
<1>1. timer \in [Timer -> TimerState] /\ timer[v] \in TimerState
  BY DEF TypeOK, TimerState
<1>2. PICK own \in BOOLEAN, old \in 0 .. MaxOld :
        timer' = [timer EXCEPT ![v] = [var |-> FALSE, own |-> own, old |-> old]]
  BY DEF ExpireAndZero
<1> QED
  BY <1>1, <1>2 DEF TimerState

\* A timer that expires sets no variable, starts no timer, and is only one.
LEMMA ExpireKeeps ==
  ASSUME TypeOK, NEW v \in Timer, Expire(v) \/ ExpireAndZero(v)
  PROVE  /\ timer'["siren"].own => timer["siren"].own
         /\ \A w \in Timer : timer'[w].var => timer[w].var
         /\ v # "testmode" => timer'["testmode"] = timer["testmode"]
<1>1. timer \in [Timer -> TimerState] /\ timer[v] \in TimerState
  BY DEF TypeOK, TimerState
<1>2. CASE Expire(v)
  BY <1>1, <1>2 DEF Expire, Timer, TimerState
<1>3. CASE ExpireAndZero(v)
  <2>1. PICK own \in BOOLEAN, old \in 0 .. MaxOld :
        /\ own => timer[v].own
        /\ timer' = [timer EXCEPT ![v] = [var |-> FALSE, own |-> own, old |-> old]]
    BY <1>3 DEF ExpireAndZero
  <2> QED
    BY <1>1, <2>1 DEF Timer, TimerState
<1> QED
  BY <1>2, <1>3

-----------------------------------------------------------------------------
(* Type correctness, whether or not calls overlap *)

\* The timers of a daemon that has just started are well formed.
LEMMA NoTimerOK == NoTimer \in TimerState
BY ArmAlarmAssumption DEF NoTimer, TimerState

\* The daemon starts type correct.
LEMMA TypeInit == Init => TypeOK
<1> SUFFICES ASSUME Init
             PROVE  TypeOK
  OBVIOUS
<1>1. timer \in [Timer -> TimerState]
  BY NoTimerOK DEF Init
<1>2. setting4 \in Setting4
  BY DEF Init, Setting4, State
<1>3. pc \in [Thread -> Place] /\ job \in [Thread -> Job]
  BY DEF Init, Place, Job
<1> QED
  BY <1>1, <1>2, <1>3 DEF Init, TypeOK, State, Armed

\* Every step keeps the types, one case per action.
LEMMA TypeNext == TypeOK /\ [Next]_vars => TypeOK'
<1> SUFFICES ASSUME TypeOK, [Next]_vars
             PROVE  TypeOK'
  OBVIOUS
<1> USE DEF Call, Goto, Return, Save, BeginDisarm
<1>a. timer \in [Timer -> TimerState]
  BY DEF TypeOK
<1>b. \A s \in State, view \in BOOLEAN :
        [armstate |-> s, ShowAlarmView |-> view] \in Setting4
  BY DEF Setting4
<1>1. ASSUME NEW t \in User, NEW target \in Armed, ArmCommand(t, target)
      PROVE  TypeOK'
  <2>1. CASE ArmFromDisarm(t, target)
    <3>1. /\ exitdelayTarget' \in {exitdelayTarget, target}
          /\ g_armstate' \in {g_armstate, "st_exitdelay"}
          /\ wait_force_arm' \in {wait_force_arm, TRUE, FALSE}
      BY <2>1 DEF ArmFromDisarm
    <3>2. pc' \in [Thread -> Place] /\ job' \in [Thread -> Job]
      BY <2>1 DEF ArmFromDisarm, User, Thread, TypeOK, Place, Job
    <3> QED
      BY <1>1, <3>1, <3>2 DEF ArmCommand, TypeOK, State
  <2>2. CASE ArmFromArmed(target)
    BY <1>1, <2>2 DEF ArmCommand, ArmFromArmed, TypeOK, State, Armed
  <2>3. CASE ArmFromExitDelay(t, target)
    BY <1>1, <2>3 DEF ArmCommand, ArmFromExitDelay, User, Thread, TypeOK, Place, Job
  <2> QED
    BY <1>1, <2>1, <2>2, <2>3 DEF ArmCommand
<1>2. ASSUME NEW t \in User, DisarmCommand(t)
      PROVE  TypeOK'
  <2>1. timer' \in [Timer -> TimerState]
    BY <1>a, <1>2, TimerOps DEF DisarmCommand, Timer
  <2> QED
    BY <1>2, <1>b, <2>1 DEF DisarmCommand, AfterAlarm, User, Thread, TypeOK, State,
       Armed, Place, Job
<1>3. ASSUME NEW t \in User, DisarmInTestmode(t)
      PROVE  TypeOK'
  BY <1>b, <1>3, ArmAlarmAssumption
     DEF DisarmInTestmode, User, Thread, TypeOK, State, Armed, Place, Job
<1>4. ASSUME NEW t \in User, DisarmInMaintenance(t)
      PROVE  TypeOK'
  BY <1>b, <1>4, ArmAlarmAssumption
     DEF DisarmInMaintenance, User, Thread, TypeOK, State, Armed, Place, Job
<1>5. ASSUME NEW t \in User, Panic(t)
      PROVE  TypeOK'
  BY <1>b, <1>5, ArmAlarmAssumption
     DEF Panic, User, Thread, TypeOK, State, Armed, Place, Job
<1>6. ASSUME ServiceOn
      PROVE  TypeOK'
  <2>1. timer' \in [Timer -> TimerState]
    BY <1>a, <1>6, TimerOps DEF ServiceOn, Timer
  <2> QED
    BY <1>6, <1>b, <2>1 DEF ServiceOn, Thread, TypeOK, State, Armed, Place, Job
<1>7. ASSUME ServiceOff
      PROVE  TypeOK'
  <2>1. timer' \in [Timer -> TimerState]
    BY <1>a, <1>7, TimerOps DEF ServiceOff, Timer
  <2> QED
    BY <1>7, <1>b, <2>1 DEF ServiceOff, Thread, TypeOK, State, Armed, Place, Job
<1>8. ASSUME TestmodeOn
      PROVE  TypeOK'
  <2>1. timer' \in [Timer -> TimerState]
    BY <1>a, <1>8, TimerOps DEF TestmodeOn, Timer
  <2> QED
    BY <1>8, <1>b, <2>1 DEF TestmodeOn, Thread, TypeOK, State, Armed, Place, Job
<1>9. ASSUME TestmodeOff
      PROVE  TypeOK'
  BY <1>b, <1>9, ArmAlarmAssumption
     DEF TestmodeOff, Thread, TypeOK, State, Armed, Place, Job
<1>10. ASSUME FwUpdateStart
      PROVE  TypeOK'
  BY <1>b, <1>10, ArmAlarmAssumption
     DEF FwUpdateStart, Thread, TypeOK, State, Armed, Place, Job
<1>11. ASSUME FwUpdateStop
      PROVE  TypeOK'
  BY <1>b, <1>11, ArmAlarmAssumption
     DEF FwUpdateStop, Thread, TypeOK, State, Armed, Place, Job
<1>12. ASSUME ChangeSetting
      PROVE  TypeOK'
  BY <1>b, <1>12, ArmAlarmAssumption
     DEF ChangeSetting, Thread, TypeOK, State, Armed, Place, Job
<1>13. ASSUME Motion
      PROVE  TypeOK'
  <2>1. timer' \in [Timer -> TimerState]
    BY <1>a, <1>13, TimerOps DEF Motion, Timer
  <2> QED
    BY <1>13, <1>b, <2>1 DEF Motion, Thread, TypeOK, State, Armed, Place, Job
<1>14. ASSUME Tamper
      PROVE  TypeOK'
  BY <1>b, <1>14, ArmAlarmAssumption
     DEF Tamper, Thread, TypeOK, State, Armed, Place, Job
<1>15. ASSUME Vibration
      PROVE  TypeOK'
  BY <1>b, <1>15, ArmAlarmAssumption
     DEF Vibration, Thread, TypeOK, State, Armed, Place, Job
<1>16. ASSUME NEW t \in Thread, ExitDelay(t)
      PROVE  TypeOK'
  <2>1. timer' \in [Timer -> TimerState]
    BY <1>a, <1>16, TimerOps DEF ExitDelay, Timer
  <2> QED
    BY <1>16, <1>b, <2>1 DEF ExitDelay, Thread, TypeOK, State, Armed, Place, Job
<1>17. ASSUME NEW t \in Thread, SystemArm(t)
      PROVE  TypeOK'
  BY <1>b, <1>17, ArmAlarmAssumption
     DEF SystemArm, TypeOK, State, Armed, Place, Job
<1>18. ASSUME NEW t \in Thread, SystemArmed(t)
      PROVE  TypeOK'
  BY <1>b, <1>18, ArmAlarmAssumption
     DEF SystemArmed, TypeOK, State, Armed, Place, Job
<1>19. ASSUME NEW t \in Thread, Silence(t)
      PROVE  TypeOK'
  BY <1>b, <1>19, ArmAlarmAssumption
     DEF Silence, TypeOK, State, Armed, Place, Job
<1>20. ASSUME NEW t \in Thread, Settle(t)
      PROVE  TypeOK'
  <2>1. timer' \in [Timer -> TimerState]
    BY <1>a, <1>20, TimerOps DEF Settle, Timer, TimerState
  <2> QED
    BY <1>20, <1>b, <2>1 DEF Settle, AfterAlarm, User, Thread, TypeOK, State, Armed,
       Place, Job
<1>21. ASSUME NEW t \in Thread, TriggerAlarm(t)
      PROVE  TypeOK'
  <2>1. timer' \in [Timer -> TimerState]
    BY <1>a, <1>21, ArmAlarmAssumption
     DEF TriggerAlarm, Timer, TimerState
  <2> QED
    BY <1>21, <1>b, <2>1 DEF TriggerAlarm, AfterAlarm, User, Thread, TypeOK, State,
       Armed, Place, Job
<1>22. ASSUME NEW t \in Thread, NoAlarmInMaintenance(t)
      PROVE  TypeOK'
  BY <1>b, <1>22, ArmAlarmAssumption
     DEF NoAlarmInMaintenance, AfterAlarm, TypeOK, State, Armed, Place, Job
<1>23. ASSUME NEW t \in Thread, Dispatch(t)
      PROVE  TypeOK'
  BY <1>b, <1>23, ArmAlarmAssumption
     DEF Dispatch, AfterAlarm, TypeOK, State, Armed, Place, Job
<1>24. ASSUME NEW t \in Thread, Sound(t)
      PROVE  TypeOK'
  BY <1>b, <1>24, ArmAlarmAssumption
     DEF Sound, AfterAlarm, TypeOK, State, Armed, Place, Job
<1>25. ASSUME NEW t \in Thread, PanicSounds(t)
      PROVE  TypeOK'
  BY <1>b, <1>25, ArmAlarmAssumption
     DEF PanicSounds, AfterAlarm, TypeOK, State, Armed, Place, Job
<1>25a. ASSUME NEW t \in Thread, Refuse(t)
      PROVE  TypeOK'
  BY <1>b, <1>25a, ArmAlarmAssumption
     DEF Refuse, TypeOK, State, Armed, Place, Job
<1>26. ASSUME EntryDelayEnd
      PROVE  TypeOK'
  <2>1. timer' \in [Timer -> TimerState]
    BY <1>a, <1>26 DEF EntryDelayEnd, Timer, TimerState
  <2> QED
    BY <1>26, <1>b, <2>1 DEF EntryDelayEnd, AfterAlarm, User, Thread, TypeOK, State,
       Armed, Place, Job
<1>27. ASSUME NEW v \in Timer, Ignored(v)
      PROVE  TypeOK'
  <2>1. timer' \in [Timer -> TimerState]
    BY <1>27, ExpireOp DEF Ignored, Timer
  <2> QED
    BY <1>27, <1>b, <2>1 DEF Ignored, AfterAlarm, User, Thread, TypeOK, State, Armed,
       Place, Job
<1>28. ASSUME ExitDelayUp
      PROVE  TypeOK'
  <2>1. timer' \in [Timer -> TimerState]
    BY <1>28, ExpireAndZeroOp DEF ExitDelayUp, Timer
  <2> QED
    BY <1>28, <1>b, <2>1 DEF ExitDelayUp, AfterAlarm, User, Thread, TypeOK, State, Armed,
       Place, Job
<1>29. ASSUME EntryDelayUp
      PROVE  TypeOK'
  <2>1. timer' \in [Timer -> TimerState]
    BY <1>29, ExpireOp DEF EntryDelayUp, Timer
  <2> QED
    BY <1>29, <1>b, <2>1 DEF EntryDelayUp, AfterAlarm, User, Thread, TypeOK, State,
       Armed, Place, Job
<1>30. ASSUME SirenTimeUp
      PROVE  TypeOK'
  <2>1. timer' \in [Timer -> TimerState]
    BY <1>30, ExpireAndZeroOp DEF SirenTimeUp, Timer
  <2> QED
    BY <1>30, <1>b, <2>1 DEF SirenTimeUp, AfterAlarm, User, Thread, TypeOK, State, Armed,
       Place, Job
<1>31. ASSUME ServiceTimeUp
      PROVE  TypeOK'
  <2>1. timer' \in [Timer -> TimerState]
    BY <1>31, ExpireOp, ExpireAndZeroOp DEF ServiceTimeUp, Timer
  <2> QED
    BY <1>31, <1>b, <2>1 DEF ServiceTimeUp, AfterAlarm, User, Thread, TypeOK, State,
       Armed, Place, Job
<1>32. ASSUME TestmodeTimeUp
      PROVE  TypeOK'
  <2>1. timer' \in [Timer -> TimerState]
    BY <1>a, <1>32 DEF TestmodeTimeUp, Timer, TimerState
  <2> QED
    BY <1>32, <1>b, <2>1 DEF TestmodeTimeUp, AfterAlarm, User, Thread, TypeOK, State,
       Armed, Place, Job
<1>33. ASSUME Restart
      PROVE  TypeOK'
  <2>1. LoadedState \in {"st_disarm"} \cup Armed /\ setting4.ShowAlarmView \in BOOLEAN
    BY DEF LoadedState, TypeOK, Setting4
  <2>2. timer' \in [Timer -> TimerState]
    BY <1>33, NoTimerOK DEF Restart
  <2>3. pc' \in [Thread -> Place] /\ job' \in [Thread -> Job]
    BY <1>33 DEF Restart, Place, Job
  <2>4. g_armstate' \in State /\ setting4' \in Setting4
    BY <1>33, <2>1, <1>b DEF Restart, State, Armed
  <2> QED
    BY <1>33, <2>1, <2>2, <2>3, <2>4 DEF Restart, TypeOK
<1>34. CASE UNCHANGED vars
  BY <1>34 DEF vars, TypeOK
<1> QED
  BY <1>1, <1>2, <1>3, <1>4, <1>5, <1>6, <1>7, <1>8, <1>9, <1>10, <1>11, <1>12, <1>13,
     <1>14, <1>15, <1>16, <1>17, <1>18, <1>19, <1>20, <1>21, <1>22, <1>23, <1>24, <1>25,
     <1>26, <1>27, <1>28, <1>29, <1>30, <1>31, <1>32, <1>33, <1>34, <1>25a
     DEF Next, UserStep, PhoneStep, Continue, Expires

\* The variables of the daemon keep their types in every instance (TypeOK).
THEOREM TypeCorrect == Spec => []TypeOK
<1>1. Init => TypeOK
  BY TypeInit
<1>2. TypeOK /\ [Next]_vars => TypeOK'
  BY TypeNext
<1> QED
  BY <1>1, <1>2, PTL DEF Spec

-----------------------------------------------------------------------------
(* Delays end when calls do not overlap *)

\* When calls do not overlap, a call begins while every thread is idle.
LEMMA BeginsAlone ==
  ASSUME ~Overlap, DelayInv, NEW t \in Thread, MayBegin(t)
  PROVE  /\ \A u \in Thread : pc[u] = "idle" /\ job[u] # "entryup"
         /\ g_armstate = "st_exitdelay" => timer["exitdelay"].var
BY DEF DelayInv, ExitDelayInv, EntryUpInv, MayBegin

\* ... and goes on while every other is.
LEMMA GoesOnAlone ==
  ASSUME DelayInv, NEW t \in Thread, pc[t] # "idle"
  PROVE  \A u \in Thread \ {t} : pc[u] = "idle" /\ job[u] # "entryup"
BY DEF DelayInv, OneCallAtATime, EntryUpInv

\* A step of thread t that touches neither delay timer nor entrydelayState.
LEMMA QuietStep ==
  ASSUME DelayInv, TypeOK',
         NEW t \in Thread,
         \A u \in Thread \ {t} : pc[u] = "idle" /\ pc'[u] = pc[u] /\ job'[u] = job[u],
         timer'["exitdelay"] = timer["exitdelay"],
         timer'["entrydelay"] = timer["entrydelay"],
         entrydelayState' = entrydelayState,
         g_armstate' = "st_exitdelay" =>
           \/ pc'[t] \in {"exit", "arm", "armed"}
           \/ g_armstate = "st_exitdelay" /\ pc[t] \notin {"exit", "arm", "armed"},
         g_armstate' = "st_entrydelay" => g_armstate = "st_entrydelay",
         job'[t] = "entryup" <=> job[t] = "entryup",
         job'[t] = "entryup" => pc'[t] \in {"alarm", "dispatch", "sound", "entryend"},
         pc'[t] = "entryend" => job'[t] = "entryup"
  PROVE  DelayInv'
<1>1. OneCallAtATime'
  BY DEF OneCallAtATime
<1>2. ExitDelayInv'
  BY DEF DelayInv, ExitDelayInv
<1>3. EntryDelayInv'
  BY DEF DelayInv, EntryDelayInv
<1>4. EntryUpInv'
  BY DEF DelayInv, EntryUpInv
<1>5. VariableInv'
  <2>1. job'["timer"] = "entryup" <=> job["timer"] = "entryup"
    BY DEF Thread
  <2> QED
    BY <2>1 DEF DelayInv, VariableInv
<1> QED
  BY <1>1, <1>2, <1>3, <1>4, <1>5 DEF DelayInv

\* Every step keeps DelayInv when calls do not overlap.  Most steps are quiet; the
\* others make, stop or end a delay.
LEMMA DelayNext ==
  ASSUME ~Overlap, DelayInv, [Next]_vars
  PROVE  DelayInv'
<1> USE DEF Call, Goto, Return, BeginDisarm
<1>a. TypeOK /\ TypeOK'
  BY TypeNext DEF DelayInv
<1>b. pc \in [Thread -> Place] /\ job \in [Thread -> Job] /\ timer \in [Timer -> TimerState]
  BY <1>a DEF TypeOK
<1>c. "phone" \in Thread /\ "rx" \in Thread /\ "timer" \in Thread /\ User \subseteq Thread
  BY DEF Thread, User
<1>1. ASSUME NEW t \in User, NEW target \in Armed, ArmCommand(t, target)
      PROVE  DelayInv'
  <2>1. MayBegin(t) /\ t \in Thread
    BY <1>1, <1>c DEF ArmCommand
  <2>2. CASE ArmFromDisarm(t, target)
    BY <1>1, <1>a, <1>b, <2>1, <2>2, BeginsAlone, QuietStep DEF ArmCommand, ArmFromDisarm
  <2>3. CASE ArmFromArmed(target)
    BY <1>1, <1>a, <1>b, <2>1, <2>3, BeginsAlone, QuietStep DEF ArmCommand, ArmFromArmed,
       Armed
  <2>4. CASE ArmFromExitDelay(t, target)
    BY <1>1, <1>a, <1>b, <2>1, <2>4, BeginsAlone, QuietStep DEF ArmCommand, ArmFromExitDelay
  <2> QED
    BY <1>1, <2>2, <2>3, <2>4 DEF ArmCommand
<1>2. ASSUME NEW t \in User, DisarmCommand(t)
      PROVE  DelayInv'
  <2>1. MayBegin(t) /\ t \in Thread
    BY <1>2, <1>c DEF DisarmCommand
  <2>2. \/ timer' = timer
        \/ timer' = [timer EXCEPT !["exitdelay"] = Killed("exitdelay")]
        \/ timer' = [timer EXCEPT !["entrydelay"] = Zeroed("entrydelay")]
    BY <1>2 DEF DisarmCommand
  <2>3. VariableInv'
    BY <1>2, <1>a, <1>b, <2>1, <2>2, TimerOps, BeginsAlone DEF DisarmCommand, DelayInv,
       VariableInv, Timer
  <2>4. OneCallAtATime'
    BY <1>2, <1>b, <2>1, BeginsAlone DEF DisarmCommand, OneCallAtATime
  <2>5. EntryUpInv'
    BY <1>2, <1>b, <2>1, BeginsAlone DEF DisarmCommand, DelayInv, EntryUpInv
  <2>6. ExitDelayInv' /\ EntryDelayInv'
    BY <1>2 DEF DisarmCommand, ExitDelayInv, EntryDelayInv
  <2> QED
    BY <1>a, <2>3, <2>4, <2>5, <2>6 DEF DelayInv
<1>3. ASSUME NEW t \in User, DisarmInTestmode(t)
      PROVE  DelayInv'
  <2>1. MayBegin(t) /\ t \in Thread
    BY <1>3, <1>c DEF DisarmInTestmode
  <2> QED
    BY <1>3, <1>a, <1>b, <2>1, BeginsAlone, QuietStep DEF DisarmInTestmode, Timer
<1>4. ASSUME NEW t \in User, DisarmInMaintenance(t)
      PROVE  DelayInv'
  <2>1. MayBegin(t) /\ t \in Thread
    BY <1>4, <1>c DEF DisarmInMaintenance
  <2> QED
    BY <1>4, <1>a, <1>b, <2>1, BeginsAlone, QuietStep DEF DisarmInMaintenance, Timer
<1>5. ASSUME NEW t \in User, Panic(t)
      PROVE  DelayInv'
  <2>1. MayBegin(t) /\ t \in Thread
    BY <1>5, <1>c DEF Panic
  <2> QED
    BY <1>5, <1>a, <1>b, <2>1, BeginsAlone, QuietStep DEF Panic, Timer
<1>6. ASSUME ServiceOn
      PROVE  DelayInv'
  <2>1. MayBegin("phone") /\ "phone" \in Thread
    BY <1>6, <1>c DEF ServiceOn
  <2> QED
    BY <1>6, <1>a, <1>b, <2>1, BeginsAlone, QuietStep DEF ServiceOn, Timer
<1>7. ASSUME ServiceOff
      PROVE  DelayInv'
  <2>1. MayBegin("phone") /\ "phone" \in Thread
    BY <1>7, <1>c DEF ServiceOff
  <2> QED
    BY <1>7, <1>a, <1>b, <2>1, BeginsAlone, QuietStep DEF ServiceOff, Timer
<1>8. ASSUME TestmodeOn
      PROVE  DelayInv'
  <2>1. MayBegin("phone") /\ "phone" \in Thread
    BY <1>8, <1>c DEF TestmodeOn
  <2> QED
    BY <1>8, <1>a, <1>b, <2>1, BeginsAlone, QuietStep DEF TestmodeOn, Timer
<1>9. ASSUME TestmodeOff
      PROVE  DelayInv'
  <2>1. MayBegin("phone") /\ "phone" \in Thread
    BY <1>9, <1>c DEF TestmodeOff
  <2> QED
    BY <1>9, <1>a, <1>b, <2>1, BeginsAlone, QuietStep DEF TestmodeOff, Timer
<1>10. ASSUME FwUpdateStart
      PROVE  DelayInv'
  <2>1. MayBegin("phone") /\ "phone" \in Thread
    BY <1>10, <1>c DEF FwUpdateStart
  <2> QED
    BY <1>10, <1>a, <1>b, <2>1, BeginsAlone, QuietStep DEF FwUpdateStart, Timer
<1>11. ASSUME FwUpdateStop
      PROVE  DelayInv'
  <2>1. MayBegin("phone") /\ "phone" \in Thread
    BY <1>11, <1>c DEF FwUpdateStop
  <2> QED
    BY <1>11, <1>a, <1>b, <2>1, BeginsAlone, QuietStep DEF FwUpdateStop, Timer
<1>12. ASSUME ChangeSetting
      PROVE  DelayInv'
  <2>1. MayBegin("phone") /\ "phone" \in Thread
    BY <1>12, <1>c DEF ChangeSetting
  <2> QED
    BY <1>12, <1>a, <1>b, <2>1, BeginsAlone, QuietStep DEF ChangeSetting, Timer
<1>13. ASSUME Motion
      PROVE  DelayInv'
  <2>1. MayBegin("rx")
    BY <1>13 DEF Motion
  <2>2. CASE Call("rx", "alarm", "trigger") /\ UNCHANGED <<g_armstate, entrydelayState,
  timer>>
    BY <1>13, <1>a, <1>b, <1>c, <2>1, <2>2, BeginsAlone, QuietStep DEF Motion, Armed
  <2>3. CASE /\ CanForget("entrydelay")
             /\ entrydelayState' = g_armstate
             /\ g_armstate' = "st_entrydelay"
             /\ timer' = [timer EXCEPT !["entrydelay"] = Made("entrydelay")]
             /\ UNCHANGED <<pc, job>>
    <3>1. timer'["entrydelay"].var /\ timer'["entrydelay"].own
      BY <1>a, <1>b, <2>3, TimerOps DEF Timer
    <3>2. timer'["exitdelay"] = timer["exitdelay"]
      BY <1>b, <2>3 DEF Timer
    <3>3. OneCallAtATime' /\ EntryUpInv'
      BY <2>1, <2>3, BeginsAlone, <1>c DEF DelayInv, OneCallAtATime, EntryUpInv
    <3>4. ExitDelayInv' /\ EntryDelayInv' /\ VariableInv'
      BY <1>13, <2>3, <3>1, <3>2 DEF Motion, DelayInv, ExitDelayInv, EntryDelayInv,
         VariableInv
    <3> QED
      BY <1>a, <3>3, <3>4 DEF DelayInv
  <2> QED
    BY <1>13, <2>2, <2>3 DEF Motion
<1>14. ASSUME Tamper
      PROVE  DelayInv'
  <2>1. MayBegin("rx") /\ "rx" \in Thread
    BY <1>14, <1>c DEF Tamper
  <2> QED
    BY <1>14, <1>a, <1>b, <2>1, BeginsAlone, QuietStep DEF Tamper, Timer
<1>15. ASSUME Vibration
      PROVE  DelayInv'
  <2>1. MayBegin("rx") /\ "rx" \in Thread
    BY <1>15, <1>c DEF Vibration
  <2> QED
    BY <1>15, <1>a, <1>b, <2>1, BeginsAlone, QuietStep DEF Vibration, Timer
<1>16. ASSUME NEW t \in Thread, ExitDelay(t)
      PROVE  DelayInv'
  <2>1. \A u \in Thread \ {t} : pc[u] = "idle" /\ job[u] # "entryup"
    BY <1>16, GoesOnAlone DEF ExitDelay
  <2>2. job[t] # "entryup"
    BY <1>16 DEF ExitDelay, DelayInv, EntryUpInv
  <2>3. timer'["exitdelay"].var /\ timer'["exitdelay"].own
    BY <1>16, <1>a, <1>b, TimerOps DEF ExitDelay, Timer
  <2>4. timer'["entrydelay"] = timer["entrydelay"]
    BY <1>16, <1>b DEF ExitDelay, Timer
  <2>5. OneCallAtATime' /\ EntryUpInv'
    BY <1>16, <1>b, <2>1, <2>2 DEF ExitDelay, OneCallAtATime, EntryUpInv
  <2>6. ExitDelayInv' /\ EntryDelayInv' /\ VariableInv'
    BY <1>16, <1>c, <2>1, <2>2, <2>3, <2>4
       DEF ExitDelay, DelayInv, ExitDelayInv, EntryDelayInv, VariableInv
  <2> QED
    BY <1>a, <2>5, <2>6 DEF DelayInv
<1>17. ASSUME NEW t \in Thread, SystemArm(t)
      PROVE  DelayInv'
  <2>1. pc[t] # "idle"
    BY <1>17 DEF SystemArm
  <2> QED
    BY <1>17, <1>a, <1>b, <2>1, GoesOnAlone, QuietStep DEF SystemArm, DelayInv, EntryUpInv
<1>18. ASSUME NEW t \in Thread, SystemArmed(t)
      PROVE  DelayInv'
  <2>1. pc[t] # "idle" /\ job[t] # "entryup"
    BY <1>18 DEF SystemArmed, DelayInv, EntryUpInv
  <2>2. g_armstate' \notin {"st_exitdelay", "st_entrydelay"}
    BY <1>18, <1>a DEF SystemArmed, TypeOK, Armed
  <2> QED
    BY <1>18, <1>a, <1>b, <2>1, <2>2, GoesOnAlone, QuietStep DEF SystemArmed
<1>19. ASSUME NEW t \in Thread, Silence(t)
      PROVE  DelayInv'
  <2>1. pc[t] # "idle"
    BY <1>19 DEF Silence
  <2> QED
    BY <1>19, <1>a, <1>b, <2>1, GoesOnAlone, QuietStep DEF Silence, DelayInv, EntryUpInv
<1>20. ASSUME NEW t \in Thread, Settle(t)
      PROVE  DelayInv'
  <2>1. pc[t] # "idle" /\ job[t] # "entryup"
    BY <1>20 DEF Settle, DelayInv, EntryUpInv
  <2>2. timer'["exitdelay"] = timer["exitdelay"] /\ timer'["entrydelay"] = timer["entrydelay"]
    BY <1>20, <1>b DEF Settle, Timer
  <2> QED
    BY <1>20, <1>a, <1>b, <2>1, <2>2, GoesOnAlone, QuietStep DEF Settle
<1>21. ASSUME NEW t \in Thread, TriggerAlarm(t)
      PROVE  DelayInv'
  <2>1. timer'["exitdelay"] = timer["exitdelay"] /\ timer'["entrydelay"] = timer["entrydelay"]
    BY <1>21, <1>b DEF TriggerAlarm, Timer
  <2> QED
    BY <1>21, <1>a, <1>b, <2>1, GoesOnAlone, QuietStep DEF TriggerAlarm
<1>22. ASSUME NEW t \in Thread, NoAlarmInMaintenance(t)
      PROVE  DelayInv'
  <2>1. pc[t] # "idle"
    BY <1>22 DEF NoAlarmInMaintenance
  <2> QED
    BY <1>22, <1>a, <1>b, <2>1, GoesOnAlone, QuietStep DEF NoAlarmInMaintenance, AfterAlarm
<1>23. ASSUME NEW t \in Thread, Dispatch(t)
      PROVE  DelayInv'
  <2>1. pc[t] # "idle"
    BY <1>23 DEF Dispatch
  <2> QED
    BY <1>23, <1>a, <1>b, <2>1, GoesOnAlone, QuietStep DEF Dispatch
<1>24. ASSUME NEW t \in Thread, Sound(t)
      PROVE  DelayInv'
  <2>1. pc[t] # "idle"
    BY <1>24 DEF Sound
  <2> QED
    BY <1>24, <1>a, <1>b, <2>1, GoesOnAlone, QuietStep DEF Sound, AfterAlarm
<1>25. ASSUME NEW t \in Thread, PanicSounds(t)
      PROVE  DelayInv'
  <2>1. pc[t] # "idle"
    BY <1>25 DEF PanicSounds
  <2> QED
    BY <1>25, <1>a, <1>b, <2>1, GoesOnAlone, QuietStep DEF PanicSounds, DelayInv, EntryUpInv
<1>25a. ASSUME NEW t \in Thread, Refuse(t)
      PROVE  DelayInv'
  <2>1. pc[t] # "idle"
    BY <1>25a DEF Refuse
  <2> QED
    BY <1>25a, <1>a, <1>b, <2>1, GoesOnAlone, QuietStep DEF Refuse, DelayInv, EntryUpInv
<1>26. ASSUME EntryDelayEnd
      PROVE  DelayInv'
  <2>1. \A u \in Thread \ {"timer"} : pc[u] = "idle" /\ job[u] # "entryup"
    BY <1>26, <1>c, GoesOnAlone DEF EntryDelayEnd
  <2>2. g_armstate # "st_entrydelay"
    BY <1>26, <1>c DEF EntryDelayEnd, DelayInv, EntryUpInv
  <2>3. ~timer'["entrydelay"].var /\ timer'["exitdelay"] = timer["exitdelay"]
    BY <1>26, <1>b DEF EntryDelayEnd, Timer, TimerState
  <2>4. OneCallAtATime' /\ EntryUpInv'
    BY <1>26, <1>b, <2>1 DEF EntryDelayEnd, OneCallAtATime, EntryUpInv
  <2>5. ExitDelayInv' /\ EntryDelayInv' /\ VariableInv'
    BY <1>26, <1>b, <2>1, <2>2, <2>3
       DEF EntryDelayEnd, DelayInv, ExitDelayInv, EntryDelayInv, VariableInv
  <2> QED
    BY <1>a, <2>4, <2>5 DEF DelayInv
<1>27. ASSUME NEW v \in Timer, Ignored(v)
      PROVE  DelayInv'
  <2>1. MayBegin("timer")
    BY <1>27 DEF Ignored
  <2>2. ~timer[v].var /\ ~timer'[v].var /\ \A w \in Timer : w # v => timer'[w] = timer[w]
    BY <1>27, <1>a, ExpireOp DEF Ignored
  <2>3. OneCallAtATime' /\ EntryUpInv'
    BY <1>27, <1>c, <2>1, BeginsAlone DEF Ignored, OneCallAtATime, EntryUpInv, DelayInv
  <2>4. ExitDelayInv' /\ EntryDelayInv' /\ VariableInv'
    BY <1>27, <2>2 DEF Ignored, DelayInv, ExitDelayInv, EntryDelayInv, VariableInv, Timer
  <2> QED
    BY <1>a, <2>3, <2>4 DEF DelayInv
<1>28. ASSUME ExitDelayUp
      PROVE  DelayInv'
  <2>1. MayBegin("timer")
    BY <1>28 DEF ExitDelayUp
  <2>2. /\ ~timer'["exitdelay"].var
        /\ timer'["entrydelay"] = timer["entrydelay"]
    BY <1>28, <1>a, ExpireAndZeroOp DEF ExitDelayUp, Timer
  <2>3. OneCallAtATime' /\ EntryUpInv'
    BY <1>28, <1>b, <1>c, <2>1, BeginsAlone DEF ExitDelayUp, OneCallAtATime, EntryUpInv,
       DelayInv
  <2>4. pc'["timer"] = "arm" /\ job'["timer"] = "none" /\ job["timer"] # "entryup"
    BY <1>28, <1>b, <1>c, <2>1, BeginsAlone DEF ExitDelayUp
  <2>5. ExitDelayInv' /\ EntryDelayInv' /\ VariableInv'
    BY <1>28, <1>c, <2>2, <2>4 DEF ExitDelayUp, DelayInv, ExitDelayInv, EntryDelayInv,
       VariableInv
  <2> QED
    BY <1>a, <2>3, <2>5 DEF DelayInv
<1>29. ASSUME EntryDelayUp
      PROVE  DelayInv'
  <2>1. MayBegin("timer")
    BY <1>29 DEF EntryDelayUp
  <2>2. timer'["exitdelay"] = timer["exitdelay"]
    BY <1>29, <1>a, ExpireOp DEF EntryDelayUp, Timer
  <2>3. g_armstate' \notin {"st_exitdelay", "st_entrydelay"}
    BY <1>29, <1>a DEF EntryDelayUp, TypeOK, Armed
  <2>4. pc'["timer"] = "alarm" /\ job'["timer"] = "entryup"
    BY <1>29, <1>b, <1>c DEF EntryDelayUp
  <2>5. OneCallAtATime' /\ EntryUpInv'
    BY <1>29, <1>b, <1>c, <2>1, <2>3, <2>4, BeginsAlone
       DEF EntryDelayUp, OneCallAtATime, EntryUpInv
  <2>6. ExitDelayInv' /\ EntryDelayInv' /\ VariableInv'
    BY <2>2, <2>3, <2>4 DEF DelayInv, ExitDelayInv, EntryDelayInv, VariableInv
  <2> QED
    BY <1>a, <2>5, <2>6 DEF DelayInv
<1>30. ASSUME SirenTimeUp
      PROVE  DelayInv'
  <2>1. MayBegin("timer")
    BY <1>30 DEF SirenTimeUp
  <2>2. timer'["exitdelay"] = timer["exitdelay"] /\ timer'["entrydelay"] = timer["entrydelay"]
    BY <1>30, <1>a, ExpireAndZeroOp DEF SirenTimeUp, Timer
  <2> QED
    BY <1>30, <1>a, <1>b, <1>c, <2>1, <2>2, BeginsAlone, QuietStep DEF SirenTimeUp
<1>31. ASSUME ServiceTimeUp
      PROVE  DelayInv'
  <2>1. MayBegin("timer")
    BY <1>31 DEF ServiceTimeUp
  <2>2. timer'["exitdelay"] = timer["exitdelay"] /\ timer'["entrydelay"] = timer["entrydelay"]
    BY <1>31, <1>a, ExpireOp, ExpireAndZeroOp DEF ServiceTimeUp, Timer
  <2> QED
    BY <1>31, <1>a, <1>b, <1>c, <2>1, <2>2, BeginsAlone, QuietStep DEF ServiceTimeUp
<1>32. ASSUME TestmodeTimeUp
      PROVE  DelayInv'
  <2>1. MayBegin("timer")
    BY <1>32 DEF TestmodeTimeUp
  <2>2. timer'["exitdelay"] = timer["exitdelay"] /\ timer'["entrydelay"] = timer["entrydelay"]
    BY <1>32, <1>b DEF TestmodeTimeUp, Timer
  <2> QED
    BY <1>32, <1>a, <1>b, <1>c, <2>1, <2>2, BeginsAlone, QuietStep DEF TestmodeTimeUp
<1>33. ASSUME Restart
      PROVE  DelayInv'
  <2>1. g_armstate' \notin {"st_exitdelay", "st_entrydelay"}
    BY <1>33 DEF Restart, LoadedState, Armed
  <2>2. \A t \in Thread : pc'[t] = "idle" /\ job'[t] = "none"
    BY <1>33 DEF Restart
  <2>3. ~timer'["exitdelay"].var /\ ~timer'["entrydelay"].var
    BY <1>33 DEF Restart, NoTimer, Timer
  <2> QED
    BY <1>a, <2>1, <2>2, <2>3
       DEF DelayInv, OneCallAtATime, ExitDelayInv, EntryDelayInv, EntryUpInv, VariableInv
<1>34. CASE UNCHANGED vars
  BY <1>a, <1>34
     DEF vars, DelayInv, OneCallAtATime, ExitDelayInv, EntryDelayInv, EntryUpInv,
     VariableInv
<1> QED
  BY <1>1, <1>2, <1>3, <1>4, <1>5, <1>6, <1>7, <1>8, <1>9, <1>10, <1>11, <1>12, <1>13,
     <1>14, <1>15, <1>16, <1>17, <1>18, <1>19, <1>20, <1>21, <1>22, <1>23, <1>24, <1>25,
     <1>26, <1>27, <1>28, <1>29, <1>30, <1>31, <1>32, <1>33, <1>34, <1>25a
     DEF Next, UserStep, PhoneStep, Continue, Expires

\* Without overlap DelayInv holds throughout; the invariants below rest on it.
LEMMA SerialDelayInv == ~Overlap => (Spec => []DelayInv)
<1> SUFFICES ASSUME ~Overlap
             PROVE  Spec => []DelayInv
  OBVIOUS
<1>1. Init => DelayInv
  <2> SUFFICES ASSUME Init
               PROVE  DelayInv
    OBVIOUS
  <2>1. TypeOK
    BY TypeInit
  <2> QED
    BY <2>1
       DEF Init, NoTimer, Timer, DelayInv, OneCallAtATime, ExitDelayInv, EntryDelayInv,
           EntryUpInv, VariableInv
<1>2. DelayInv /\ [Next]_vars => DelayInv'
  BY DelayNext
<1> QED
  BY <1>1, <1>2, PTL DEF Spec

\* When calls do not overlap, a delay always has a timer that will end it, whatever
\* modes, panics, restarts and forgotten timers come in between (DelayHasTimer).
THEOREM SerialDelayHasTimer == ~Overlap => (Spec => []DelayHasTimer)
<1>1. DelayInv => DelayHasTimer
  BY DEF DelayInv, ExitDelayInv, EntryDelayInv, EntryUpInv, VariableInv, DelayHasTimer,
         AtRest, Pending, Thread
<1> QED
  BY <1>1, SerialDelayInv, PTL

-----------------------------------------------------------------------------
(* What every step may assume when calls do not overlap *)

\* Some thread is at one of the places L.
At(L) == \E t \in Thread : pc[t] \in L

\* One thread at most is inside a call, and only the entry handler acts for it.
LEMMA SerialFacts ==
  ASSUME ~Overlap, DelayInv
  PROVE  /\ pc \in [Thread -> Place] /\ job \in [Thread -> Job]
         /\ timer \in [Timer -> TimerState]
         /\ exitdelayTarget \in {"st_disarm"} \cup Armed
         /\ entrydelayState \in {"st_disarm"} \cup Armed
         /\ \A t, u \in Thread : pc[t] # "idle" /\ pc[u] # "idle" => t = u
         /\ \A t \in Thread : MayBegin(t) => \A u \in Thread : pc[u] = "idle"
         /\ \A t \in Thread :
              job[t] = "entryup" => pc[t] \in {"alarm", "dispatch", "sound", "entryend"}
         /\ {"phone", "rx", "timer"} \subseteq Thread /\ User \subseteq Thread
BY DEF DelayInv, TypeOK, OneCallAtATime, EntryUpInv, MayBegin, Thread, User

-----------------------------------------------------------------------------
(* A restart keeps the side *)

\* Memory and file agree on the side, except between a change of sides and the save
\* that ends it.  Only service mode and firmware updates, which disarm without saving,
\* and a vibration sensor in tamper mode, which so arms a sounding house, break that.
SideSaved ==
  /\ g_armstate \in Armed => setting4.armstate \in Armed \/ At({"alarm", "dispatch"})
  /\ g_armstate = "st_disarm" =>
       setting4.armstate \notin Armed \/ At({"silence", "settle", "alarm", "dispatch"})
SideInv == g_armstate # "st_maintain" /\ SideSaved

\* Every step keeps SideInv: the call that changes sides has one thread to itself until
\* it has saved.
LEMMA SideNext ==
  ASSUME ~Overlap, Event \cap {"service", "fwupdate", "vibration"} = {},
         DelayInv, DelayInv', SideInv, [Next]_vars
  PROVE  SideInv'
<1> USE DEF Call, Goto, Return, Save, BeginDisarm, SideInv, SideSaved, At, Armed
<1>1. ASSUME NEW t \in User, UserStep(t)
      PROVE  SideInv'
  BY SerialFacts, <1>1
     DEF UserStep, ArmCommand, ArmFromDisarm, ArmFromArmed, ArmFromExitDelay,
         DisarmCommand, DisarmInTestmode, DisarmInMaintenance, Panic
<1>2. CASE PhoneStep
  BY SerialFacts, <1>2
     DEF PhoneStep, ServiceOn, ServiceOff, TestmodeOn, TestmodeOff, FwUpdateStart,
         FwUpdateStop, ChangeSetting
<1>3. CASE Motion \/ Tamper \/ Vibration
  BY SerialFacts, <1>3 DEF Motion, Tamper, Vibration
<1>4. ASSUME NEW t \in Thread, Continue(t)
      PROVE  SideInv'
  BY SerialFacts, <1>4
     DEF Continue, Refuse, ExitDelay, SystemArm, SystemArmed, Silence, Settle,
         TriggerAlarm, NoAlarmInMaintenance, Dispatch, Sound, PanicSounds, AfterAlarm,
         DelayInv, TypeOK
<1>5. CASE EntryDelayEnd
  BY SerialFacts, <1>5 DEF EntryDelayEnd
<1>6. ASSUME NEW v \in Timer, Expires(v)
      PROVE  SideInv'
  BY SerialFacts, <1>6
     DEF Expires, Ignored, ExitDelayUp, EntryDelayUp, SirenTimeUp, ServiceTimeUp,
         TestmodeTimeUp, DelayInv, TypeOK
<1>7. CASE Restart
  BY <1>7 DEF Restart, LoadedState
<1>8. CASE UNCHANGED vars
  BY <1>8 DEF vars
<1> QED
  BY <1>1, <1>2, <1>3, <1>4, <1>5, <1>6, <1>7, <1>8 DEF Next

\* A restart between calls comes back armed to an armed house and disarmed to a
\* disarmed one, in every instance without overlap, service mode, firmware updates and
\* sensors in tamper mode (RestartKeepsSide).
THEOREM SerialRestartKeepsSide ==
  ~Overlap /\ Event \cap {"service", "fwupdate", "vibration"} = {} =>
    (Spec => []RestartKeepsSide)
<1> SUFFICES ASSUME ~Overlap, Event \cap {"service", "fwupdate", "vibration"} = {}
             PROVE  Spec => []RestartKeepsSide
  OBVIOUS
<1>1. Init => SideInv
  BY DEF Init, SideInv, SideSaved, Armed
<1>2. DelayInv /\ DelayInv' /\ SideInv /\ [Next]_vars => SideInv'
  BY SideNext
<1>3. SideInv => RestartKeepsSide
  BY DEF SideInv, SideSaved, At, AtRest, RestartKeepsSide
<1> QED
  BY <1>1, <1>2, <1>3, SerialDelayInv, PTL DEF Spec

-----------------------------------------------------------------------------
(* An alarm is shown *)

\* Sirens told to sound are noted as an alarm in the file, and in memory unless the
\* disarm that is about to silence them has taken the note back already.  Only a panic
\* in test mode sounds unseen.
ShownInv ==
  /\ g_armstate # "st_testmode"
  /\ sirens => setting4.ShowAlarmView
  /\ sirens => g_ShowAlarmView \/ At({"silence"})
  /\ At({"panic"}) => g_ShowAlarmView /\ setting4.ShowAlarmView

\* Every step keeps ShownInv: what is saved while sirens sound is the note as it stands.
LEMMA ShownNext ==
  ASSUME ~Overlap, "testmode" \notin Event,
         DelayInv, DelayInv', ShownInv, [Next]_vars
  PROVE  ShownInv'
<1> USE DEF Call, Goto, Return, Save, BeginDisarm, ShownInv, At
<1>1. ASSUME NEW t \in User, UserStep(t)
      PROVE  ShownInv'
  BY SerialFacts, <1>1
     DEF UserStep, ArmCommand, ArmFromDisarm, ArmFromArmed, ArmFromExitDelay,
         DisarmCommand, DisarmInTestmode, DisarmInMaintenance, Panic, Armed
<1>2. CASE PhoneStep
  BY SerialFacts, <1>2
     DEF PhoneStep, ServiceOn, ServiceOff, TestmodeOn, TestmodeOff, FwUpdateStart,
         FwUpdateStop, ChangeSetting
<1>3. CASE Motion \/ Tamper \/ Vibration
  BY SerialFacts, <1>3 DEF Motion, Tamper, Vibration
<1>4. ASSUME NEW t \in Thread, Continue(t)
      PROVE  ShownInv'
  <2>1. CASE Refuse(t) \/ ExitDelay(t) \/ Silence(t) \/ NoAlarmInMaintenance(t) \/ Sound(t)
    BY SerialFacts, <2>1
       DEF Refuse, ExitDelay, Silence, NoAlarmInMaintenance, Sound, AfterAlarm
  <2>2. CASE SystemArm(t) \/ SystemArmed(t)
    <3>1. sirens' => sirens
      BY <2>2 DEF SystemArm, SystemArmed
    <3> QED
      BY SerialFacts, <2>2, <3>1 DEF SystemArm, SystemArmed, Armed
  <2>3. CASE Settle(t) \/ TriggerAlarm(t)
    BY SerialFacts, <2>3 DEF Settle, TriggerAlarm
  <2>4. CASE Dispatch(t) \/ PanicSounds(t)
    BY SerialFacts, <2>4 DEF Dispatch, PanicSounds
  <2> QED
    BY <1>4, <2>1, <2>2, <2>3, <2>4 DEF Continue
<1>5. CASE EntryDelayEnd
  BY SerialFacts, <1>5 DEF EntryDelayEnd
<1>6. ASSUME NEW v \in Timer, Expires(v)
      PROVE  ShownInv'
  BY SerialFacts, <1>6
     DEF Expires, Ignored, ExitDelayUp, EntryDelayUp, SirenTimeUp, ServiceTimeUp,
         TestmodeTimeUp, Armed
<1>7. CASE Restart
  BY <1>7 DEF Restart, LoadedState, Armed
<1>8. CASE UNCHANGED vars
  BY <1>8 DEF vars
<1> QED
  BY <1>1, <1>2, <1>3, <1>4, <1>5, <1>6, <1>7, <1>8 DEF Next

\* Sirens that sound in an armed house are shown on the phones, also after any number of
\* restarts, in every instance without overlap and test mode (AlarmIsShown).
THEOREM SerialAlarmIsShown ==
  ~Overlap /\ "testmode" \notin Event => (Spec => []AlarmIsShown)
<1> SUFFICES ASSUME ~Overlap, "testmode" \notin Event
             PROVE  Spec => []AlarmIsShown
  OBVIOUS
<1>1. Init => ShownInv
  BY DEF Init, ShownInv, At, Thread
<1>2. DelayInv /\ DelayInv' /\ ShownInv /\ [Next]_vars => ShownInv'
  BY ShownNext
<1>3. ShownInv => AlarmIsShown
  BY DEF ShownInv, At, AtRest, AlarmIsShown
<1> QED
  BY <1>1, <1>2, <1>3, SerialDelayInv, PTL DEF Spec

-----------------------------------------------------------------------------
(* A disarmed house is quiet *)

\* As long as no delay has run, none has a target; so no timer arms into st_disarm.
TargetInv ==
  /\ exitdelayTarget = "st_disarm" =>
       ~timer["exitdelay"].var /\ ~At({"exit", "arm", "armed"})
  /\ entrydelayState = "st_disarm" => ~timer["entrydelay"].var

\* A call that is raising an alarm in st_disarm is a tamper alarm that will arm first.
CauseInv ==
  g_armstate = "st_disarm" =>
    \A t \in Thread : /\ pc[t] \notin {"dispatch", "sound", "panic"}
                      /\ pc[t] = "alarm" => job[t] = "tamper"

\* A disarm leaves the alarm's state to its next steps, the siren timer to the last.
HushInv ==
  g_armstate = "st_disarm" /\ ~At({"silence"}) =>
    ~g_sirenstate /\ ~sirens /\ (~timer["siren"].own \/ At({"settle"}))

QuietInv == g_armstate # "st_maintain" /\ TargetInv /\ CauseInv /\ HushInv

\* Every step keeps QuietInv: st_disarm is reached by systemDisarm only.
LEMMA QuietNext ==
  ASSUME ~Overlap, Event \cap {"service", "fwupdate", "restart"} = {},
         DelayInv, DelayInv', QuietInv, [Next]_vars
  PROVE  QuietInv'
<1> USE DEF Call, Goto, Return, Save, BeginDisarm, QuietInv, TargetInv, CauseInv,
     HushInv, At
<1>1. ASSUME NEW t \in User, UserStep(t)
      PROVE  QuietInv'
  <2>1. ASSUME NEW target \in Armed, ArmCommand(t, target)
        PROVE  QuietInv'
    BY SerialFacts, <2>1
       DEF ArmCommand, ArmFromDisarm, ArmFromArmed, ArmFromExitDelay, Armed
  <2>2. CASE DisarmCommand(t)
    <3>1. timer'["exitdelay"].var => timer["exitdelay"].var
      BY SerialFacts, <2>2, TimerOps DEF DisarmCommand, DelayInv, Timer
    <3>2. timer'["entrydelay"].var => timer["entrydelay"].var
      BY SerialFacts, <2>2, TimerOps DEF DisarmCommand, DelayInv, Timer
    <3> QED
      BY SerialFacts, <2>2, <3>1, <3>2 DEF DisarmCommand
  <2>3. CASE DisarmInTestmode(t) \/ DisarmInMaintenance(t)
    BY SerialFacts, <2>3 DEF DisarmInTestmode, DisarmInMaintenance
  <2>4. CASE Panic(t)
    BY SerialFacts, <2>4 DEF Panic
  <2> QED
    BY <1>1, <2>1, <2>2, <2>3, <2>4 DEF UserStep
<1>2. CASE PhoneStep
  BY SerialFacts, <1>2
     DEF PhoneStep, ServiceOn, ServiceOff, TestmodeOn, TestmodeOff, FwUpdateStart,
         FwUpdateStop, ChangeSetting, Timer, Made
<1>3. CASE Motion \/ Tamper \/ Vibration
  BY SerialFacts, <1>3 DEF Motion, Tamper, Vibration, Armed, Timer, Made
<1>4. ASSUME NEW t \in Thread, Continue(t)
      PROVE  QuietInv'
  <2>1. CASE Refuse(t) \/ ExitDelay(t)
    BY SerialFacts, <2>1 DEF Refuse, ExitDelay, Timer
  <2>2. CASE SystemArm(t) \/ SystemArmed(t)
    BY SerialFacts, <2>2 DEF SystemArm, SystemArmed, Armed
  <2>3. CASE Silence(t)
    BY SerialFacts, <2>3 DEF Silence
  <2>4. CASE Settle(t)
    <3>1. /\ ~timer'["siren"].own
          /\ timer'["exitdelay"] = timer["exitdelay"]
          /\ timer'["entrydelay"] = timer["entrydelay"]
      BY SerialFacts, <2>4, TimerOps DEF Settle, Timer, DelayInv
    <3> QED
      BY SerialFacts, <2>4, <3>1 DEF Settle
  <2>5. CASE TriggerAlarm(t)
    BY SerialFacts, <2>5 DEF TriggerAlarm, Timer
  <2>6. CASE NoAlarmInMaintenance(t) \/ Dispatch(t) \/ Sound(t) \/ PanicSounds(t)
    BY SerialFacts, <2>6
       DEF NoAlarmInMaintenance, Dispatch, Sound, PanicSounds, AfterAlarm
  <2> QED
    BY <1>4, <2>1, <2>2, <2>3, <2>4, <2>5, <2>6 DEF Continue
<1>5. CASE EntryDelayEnd
  BY SerialFacts, <1>5 DEF EntryDelayEnd, Timer, TimerState
<1>6. ASSUME NEW v \in Timer, Expires(v)
      PROVE  QuietInv'
  <2>1. CASE Ignored(v)
    BY SerialFacts, <2>1, ExpireKeeps DEF Ignored, DelayInv, Timer
  <2>2. CASE v = "exitdelay" /\ ExitDelayUp
    BY SerialFacts, <2>2, ExpireKeeps DEF ExitDelayUp, DelayInv, Timer
  <2>3. CASE v = "entrydelay" /\ EntryDelayUp
    BY SerialFacts, <2>3, ExpireKeeps DEF EntryDelayUp, DelayInv, Timer, Armed
  <2>4. CASE v = "siren" /\ SirenTimeUp
    BY SerialFacts, <2>4, ExpireKeeps DEF SirenTimeUp, DelayInv, Timer
  <2>5. CASE v = "service" /\ ServiceTimeUp
    BY SerialFacts, <2>5, ExpireKeeps DEF ServiceTimeUp, DelayInv, Timer
  <2>6. CASE v = "testmode" /\ TestmodeTimeUp
    BY SerialFacts, <2>6 DEF TestmodeTimeUp, Timer
  <2> QED
    BY <1>6, <2>1, <2>2, <2>3, <2>4, <2>5, <2>6 DEF Expires
<1>8. CASE UNCHANGED vars
  BY <1>8 DEF vars
<1> QED
  BY <1>1, <1>2, <1>3, <1>4, <1>5, <1>6, <1>8 DEF Next, Restart

\* Between calls a disarmed house neither sounds nor keeps anything of an alarm, in every
\* instance without overlap, service mode, firmware updates and restarts
\* (DisarmedIsQuiet).
THEOREM SerialDisarmedIsQuiet ==
  ~Overlap /\ Event \cap {"service", "fwupdate", "restart"} = {} =>
    (Spec => []DisarmedIsQuiet)
<1> SUFFICES ASSUME ~Overlap, Event \cap {"service", "fwupdate", "restart"} = {}
             PROVE  Spec => []DisarmedIsQuiet
  OBVIOUS
<1>1. Init => QuietInv
  BY DEF Init, QuietInv, TargetInv, CauseInv, HushInv, At, NoTimer, Timer, Thread
<1>2. DelayInv /\ DelayInv' /\ QuietInv /\ [Next]_vars => QuietInv'
  BY QuietNext
<1>3. QuietInv => DisarmedIsQuiet
  BY DEF QuietInv, HushInv, At, AtRest, DisarmedIsQuiet
<1> QED
  BY <1>1, <1>2, <1>3, SerialDelayInv, PTL DEF Spec

-----------------------------------------------------------------------------
(* The timers of delays find the delay they belong to *)

\* Nobody has been in a mode, and no timer of one is left.
NoMode ==
  /\ g_armstate \notin {"st_maintain", "st_testmode"}
  /\ ~timer["testmode"].own /\ timer["testmode"].old = 0

\* A refusal is of a disarmed house, so the repeated command never cuts an exit delay
\* short and leaves its timer behind.
RefusalInv ==
  /\ g_armstate = "st_exitdelay" => ~wait_force_arm
  /\ At({"refuse"}) => g_armstate = "st_disarm"

\* The variable of a delay is nonzero only in that delay, or while the entry handler,
\* which zeroes it last, is still at work.
DelaysAreTheirs ==
  /\ timer["exitdelay"].var => g_armstate = "st_exitdelay"
  /\ timer["entrydelay"].var => g_armstate = "st_entrydelay" \/ job["timer"] = "entryup"
  /\ At({"exit"}) => g_armstate = "st_exitdelay"
  /\ At({"arm", "armed"}) =>
       ~timer["exitdelay"].var /\ g_armstate \in {"st_disarm", "st_exitdelay"}

EndInv == NoMode /\ RefusalInv /\ DelaysAreTheirs

\* Every step keeps EndInv: without panics, modes and sensors in tamper mode each way out
\* of a delay zeroes its variable.
LEMMA EndNext ==
  ASSUME ~Overlap, Event \cap {"panic", "vibration", "service", "testmode", "fwupdate"} = {},
         DelayInv, DelayInv', EndInv, [Next]_vars
  PROVE  EndInv'
<1> USE DEF Call, Goto, Return, Save, BeginDisarm, EndInv, NoMode, RefusalInv,
     DelaysAreTheirs, At
<1>1. ASSUME NEW t \in User, UserStep(t)
      PROVE  EndInv'
  <2>1. ASSUME NEW target \in Armed, ArmCommand(t, target)
        PROVE  EndInv'
    BY SerialFacts, <2>1
       DEF ArmCommand, ArmFromDisarm, ArmFromArmed, ArmFromExitDelay, Armed
  <2>2. CASE DisarmCommand(t)
    <3>1. ~timer'["exitdelay"].var
      BY SerialFacts, <2>2, TimerOps DEF DisarmCommand, DelayInv, Timer
    <3>2. ~timer'["entrydelay"].var
      BY SerialFacts, <2>2, TimerOps DEF DisarmCommand, DelayInv, Timer
    <3>3. timer'["testmode"] = timer["testmode"]
      BY SerialFacts, <2>2 DEF DisarmCommand, Timer
    <3> QED
      BY SerialFacts, <2>2, <3>1, <3>2, <3>3 DEF DisarmCommand
  <2>3. CASE DisarmInTestmode(t) \/ DisarmInMaintenance(t)
    BY SerialFacts, <2>3 DEF DisarmInTestmode, DisarmInMaintenance
  <2> QED
    BY <1>1, <2>1, <2>2, <2>3 DEF UserStep, Panic
<1>2. CASE PhoneStep
  BY SerialFacts, <1>2
     DEF PhoneStep, ServiceOn, ServiceOff, TestmodeOn, TestmodeOff, FwUpdateStart,
         FwUpdateStop, ChangeSetting
<1>3. CASE Motion \/ Tamper \/ Vibration
  BY SerialFacts, <1>3 DEF Motion, Tamper, Vibration, Armed, Timer, Made
<1>4. ASSUME NEW t \in Thread, Continue(t)
      PROVE  EndInv'
  <2>1. CASE Refuse(t)
    BY SerialFacts, <2>1 DEF Refuse
  <2>2. CASE ExitDelay(t)
    BY SerialFacts, <2>2 DEF ExitDelay, Timer
  <2>3. CASE SystemArm(t)
    BY SerialFacts, <2>3 DEF SystemArm, Armed
  <2>4. CASE SystemArmed(t)
    BY SerialFacts, <2>4 DEF SystemArmed, Armed
  <2>5. CASE Silence(t)
    BY SerialFacts, <2>5 DEF Silence
  <2>6. CASE Settle(t)
    BY SerialFacts, <2>6 DEF Settle, Timer, TimerState, DelayInv, EntryUpInv
  <2>7. CASE TriggerAlarm(t)
    BY SerialFacts, <2>7 DEF TriggerAlarm, Timer
  <2>8. CASE Dispatch(t)
    BY SerialFacts, <2>8 DEF Dispatch
  <2>9. CASE NoAlarmInMaintenance(t) \/ Sound(t)
    BY SerialFacts, <2>9 DEF NoAlarmInMaintenance, Sound, AfterAlarm
  <2>10. CASE PanicSounds(t)
    BY SerialFacts, <2>10 DEF PanicSounds
  <2> QED
    BY <1>4, <2>1, <2>2, <2>3, <2>4, <2>5, <2>6, <2>7, <2>8, <2>9, <2>10 DEF Continue
<1>5. CASE EntryDelayEnd
  BY SerialFacts, <1>5 DEF EntryDelayEnd, Timer, TimerState
<1>6. ASSUME NEW v \in Timer, Expires(v)
      PROVE  EndInv'
  <2>1. CASE Ignored(v)
    <3>1. v # "testmode"
      BY <2>1 DEF Ignored, Expire
    <3> QED
      BY SerialFacts, <2>1, <3>1, ExpireKeeps DEF Ignored, DelayInv, Timer
  <2>2. CASE v = "exitdelay" /\ ExitDelayUp
    <3>1. ~timer'["exitdelay"].var
      BY SerialFacts, <2>2 DEF ExitDelayUp, ExpireAndZero, Timer
    <3> QED
      BY SerialFacts, <2>2, <3>1, ExpireKeeps DEF ExitDelayUp, DelayInv, Timer
  <2>3. CASE v = "entrydelay" /\ EntryDelayUp
    BY SerialFacts, <2>3, ExpireKeeps DEF EntryDelayUp, DelayInv, Timer, Armed
  <2>4. CASE v = "siren" /\ SirenTimeUp
    BY SerialFacts, <2>4, ExpireKeeps DEF SirenTimeUp, DelayInv, Timer
  <2>5. CASE v = "service" /\ ServiceTimeUp
    BY SerialFacts, <2>5, ExpireKeeps DEF ServiceTimeUp, DelayInv, Timer
  <2>6. CASE v = "testmode" /\ TestmodeTimeUp
    BY SerialFacts, <2>6 DEF TestmodeTimeUp, Timer
  <2> QED
    BY <1>6, <2>1, <2>2, <2>3, <2>4, <2>5, <2>6 DEF Expires
<1>7. CASE Restart
  BY <1>7 DEF Restart, NoTimer, Timer, LoadedState, Armed, Thread
<1>8. CASE UNCHANGED vars
  BY <1>8 DEF vars
<1> QED
  BY <1>1, <1>2, <1>3, <1>4, <1>5, <1>6, <1>7, <1>8 DEF Next

\* EndInv holds throughout.
LEMMA SerialEndInv ==
  ~Overlap /\ Event \cap {"panic", "vibration", "service", "testmode", "fwupdate"} = {} =>
    (Spec => []EndInv)
<1> SUFFICES ASSUME ~Overlap,
                    Event \cap {"panic", "vibration", "service", "testmode", "fwupdate"} = {}
             PROVE  Spec => []EndInv
  OBVIOUS
<1>1. Init => EndInv
  BY DEF Init, EndInv, NoMode, RefusalInv, DelaysAreTheirs, At, NoTimer, Timer, Thread
<1>2. DelayInv /\ DelayInv' /\ EndInv /\ [Next]_vars => EndInv'
  BY EndNext
<1> QED
  BY <1>1, <1>2, SerialDelayInv, PTL DEF Spec

\* The exit timer arms only a house in its exit delay, whatever timers were forgotten,
\* refusals repeated, tampers and restarts in between, in every instance without
\* overlap, panics, modes, firmware updates and sensors in tamper mode (ExitTimerArms).
THEOREM SerialExitTimerArms ==
  ~Overlap /\ Event \cap {"panic", "vibration", "service", "testmode", "fwupdate"} = {} =>
    (Spec => ExitTimerArms)
<1>1. EndInv => [ExitDelayUp => g_armstate = "st_exitdelay"]_vars
  BY DEF EndInv, DelaysAreTheirs, ExitDelayUp
<1> QED
  BY <1>1, SerialEndInv, PTL DEF ExitTimerArms

\* The entry timer reverts only a house in its entry delay, under the same conditions
\* (EntryTimerReverts).
THEOREM SerialEntryTimerReverts ==
  ~Overlap /\ Event \cap {"panic", "vibration", "service", "testmode", "fwupdate"} = {} =>
    (Spec => EntryTimerReverts)
<1> SUFFICES ASSUME ~Overlap,
                    Event \cap {"panic", "vibration", "service", "testmode", "fwupdate"} = {}
             PROVE  Spec => EntryTimerReverts
  OBVIOUS
<1>1. DelayInv /\ EndInv => [EntryDelayUp => g_armstate = "st_entrydelay"]_vars
  BY SerialFacts DEF EndInv, DelaysAreTheirs, EntryDelayUp
<1> QED
  BY <1>1, SerialDelayInv, SerialEndInv, PTL DEF EntryTimerReverts
=============================================================================
