------------------------------- MODULE ArmAlarm -------------------------------
(***************************************************************************)
(* Arming, delays and alarms of the gateway daemon (armCommand,            *)
(* systemArm, systemDisarm, entryDelay, triggerAlarm, panic of             *)
(* jsw_protocol.c, the phone commands of ceres.c, the sensor reports of    *)
(* testRFMain.c and the timers that end what they began).                  *)
(*                                                                         *)
(* Three threads run this code without a lock: a phone session (also the   *)
(* cloud's), the RF callback, and whatever thread the timer signal         *)
(* interrupts.  A call is cut into steps where the code sleeps or waits:   *)
(* every beep is an RF melody (100 ms and more), Force_stopAlarm pauses    *)
(* 200 ms after each siren, a refusal is pushed to the phones before it is *)
(* noted.  Elsewhere the notices to the phones take no time.  With Overlap *)
(* = FALSE a call begins only when no other is under way.                  *)
(*                                                                         *)
(* A timer variable such as exitdelay_t names the kernel timer created     *)
(* last.  makeTimer forgets the one before, which stays armed; and the     *)
(* handler looks at the variable's value, not at the timer that expired.   *)
(* So a timer is kept as [var, own, old]: is the variable nonzero, is the  *)
(* timer created last pending, how many earlier ones still are.            *)
(*                                                                         *)
(* Abstracted: time (a pending timer may expire at any moment), the lists  *)
(* of devices (all sirens are told the same; a report is of a sensor whose *)
(* flags select it, others change nothing here), LEDs, pushes, events, the *)
(* cause kept in g_AlarmState, the smoke filter (g_smokeOn), scenarios.    *)
(* Kernel timer ids are never reused.                                      *)
(***************************************************************************)
EXTENDS Integers

CONSTANTS
  Event,          \* what users and devices do in this instance
  SirenFlag,      \* arm states in which the flags of the sirens select them
  CUSTOMER_ALC,   \* is Customer_code == CUSTOMER_ALC?
  Overlap,        \* may calls of different threads overlap?
  MaxOld          \* bound: forgotten timers pending on one variable

State  == {"st_disarm", "st_arm", "st_partarm", "st_exitdelay", "st_entrydelay",
           "st_maintain", "st_testmode"}
Armed  == {"st_arm", "st_partarm"}
Timer  == {"exitdelay", "entrydelay", "siren", "service", "testmode"}
Thread == {"phone", "rx", "timer"}
User   == {"phone", "rx"}          \* phones, and keyfobs and keypads over RF

TimerState == [var : BOOLEAN, own : BOOLEAN, old : 0 .. MaxOld]
Setting4   == [armstate : State, ShowAlarmView : BOOLEAN]

\* Where a thread is in its call: idle, or before the step of that name.
Place == {"idle", "refuse", "exit", "arm", "armed", "silence", "settle", "alarm", "dispatch",
          "sound", "panic", "entryend"}
Job   == {"none", "trigger", "tamper", "entryup", "testmode"}

ASSUME ArmAlarmAssumption ==
  /\ Event \subseteq {"arm", "disarm", "panic", "tamper", "motion", "vibration",
                      "service", "testmode", "fwupdate", "setting", "restart"}
  /\ SirenFlag \subseteq Armed
  /\ CUSTOMER_ALC \in BOOLEAN
  /\ Overlap \in BOOLEAN
  /\ MaxOld \in Nat

VARIABLES
  g_armstate,
  exitdelayTarget,     \* the state systemArm and systemArm2 enter
  entrydelayState,     \* the state to revert to when the entry delay is over
  g_sirenstate,        \* the gateway holds that an alarm is sounding
  sirens,              \* what the siren devices were told last
  g_ShowAlarmView,     \* the phones show an alarm
  wait_force_arm,      \* an arm command was refused because a door is open
  timer,
  setting4,            \* /mnt/setting4.db
  pc, job              \* where each thread is in its call, and on whose behalf

vars == <<g_armstate, exitdelayTarget, entrydelayState, g_sirenstate, sirens,
          g_ShowAlarmView, wait_force_arm, timer, setting4, pc, job>>

TypeOK ==
  /\ g_armstate \in State
  /\ exitdelayTarget \in {"st_disarm"} \cup Armed
  /\ entrydelayState \in {"st_disarm"} \cup Armed
  /\ g_sirenstate \in BOOLEAN
  /\ sirens \in BOOLEAN
  /\ g_ShowAlarmView \in BOOLEAN
  /\ wait_force_arm \in BOOLEAN
  /\ timer \in [Timer -> TimerState]
  /\ setting4 \in Setting4
  /\ pc \in [Thread -> Place]
  /\ job \in [Thread -> Job]

NoTimer == [var |-> FALSE, own |-> FALSE, old |-> 0]

Init ==
  /\ g_armstate = "st_disarm"
  /\ exitdelayTarget = "st_disarm"
  /\ entrydelayState = "st_disarm"
  /\ g_sirenstate = FALSE
  /\ sirens = FALSE
  /\ g_ShowAlarmView = FALSE
  /\ wait_force_arm = FALSE
  /\ timer = [v \in Timer |-> NoTimer]
  /\ setting4 = [armstate |-> "st_disarm", ShowAlarmView |-> FALSE]
  /\ pc = [t \in Thread |-> "idle"]
  /\ job = [t \in Thread |-> "none"]

-----------------------------------------------------------------------------
(* Helpers *)

MayBegin(t) ==
  /\ pc[t] = "idle"
  /\ Overlap \/ \A u \in Thread : pc[u] = "idle"

Goto(t, l) == pc' = [pc EXCEPT ![t] = l]
Call(t, l, j) == Goto(t, l) /\ job' = [job EXCEPT ![t] = j]
Return(t) == Call(t, "idle", "none")

\* makeTimer(&v, ...): the timer created before stays armed, forgotten.
Forgotten(v) == timer[v].old + (IF timer[v].own THEN 1 ELSE 0)
CanForget(v) == Forgotten(v) <= MaxOld
\* Mutant of Made: the timer is created and never set.
MadeNotSet(v) == [var |-> TRUE, own |-> FALSE, old |-> Forgotten(v)]

Made(v) == [var |-> TRUE, own |-> TRUE, old |-> Forgotten(v)]

\* Mutant of Zeroed: v keeps the id of the dummy timer.
ZeroedNotCleared(v) == [var |-> TRUE, own |-> FALSE, old |-> Forgotten(v)]

\* makeTimer(&v, 0, 0); v = 0.
Zeroed(v) == [var |-> FALSE, own |-> FALSE, old |-> Forgotten(v)]

\* Mutant of Killed: the timer goes on.
NotKilled(v) == timer[v]

\* killTimer; v = 0.
Killed(v) == [timer[v] EXCEPT !.var = FALSE, !.own = FALSE]

\* savesetting4 of a state about to be reached.
Save(s, view) == setting4' = [armstate |-> s, ShowAlarmView |-> view]

\* systemDisarm up to the beep.
BeginDisarm(t, j) ==
  /\ g_armstate' = "st_disarm"
  /\ g_ShowAlarmView' = FALSE
  /\ Call(t, "silence", j)

-----------------------------------------------------------------------------
(* armCommand: a phone, the cloud, a keyfob or a keypad *)

\* In st_disarm.  A customer's build refuses to arm while a door is open, unless
\* the command is repeated in time.
ArmFromDisarm(t, target) ==
  /\ g_armstate = "st_disarm"
  /\ \E doorOpen, inTime, delay \in BOOLEAN :
       \/ /\ CUSTOMER_ALC /\ doorOpen
          /\ ~(wait_force_arm /\ inTime)
          /\ Call(t, "refuse", "none")
          /\ UNCHANGED <<g_armstate, exitdelayTarget, wait_force_arm>>
       \/ /\ CUSTOMER_ALC /\ doorOpen
          /\ wait_force_arm /\ inTime
          /\ exitdelayTarget' = target
          /\ Call(t, "arm", "none")
          /\ UNCHANGED <<g_armstate, wait_force_arm>>
       \/ /\ ~(CUSTOMER_ALC /\ doorOpen)
          /\ delay /\ CanForget("exitdelay")
          /\ exitdelayTarget' = target
          /\ g_armstate' = "st_exitdelay"
          /\ wait_force_arm' = FALSE
          /\ Call(t, "exit", "none")
       \/ /\ ~(CUSTOMER_ALC /\ doorOpen)
          /\ ~delay
          /\ exitdelayTarget' = target
          /\ Call(t, "arm", "none")
          /\ UNCHANGED <<g_armstate, wait_force_arm>>

\* In st_arm or st_partarm: switch over.
ArmFromArmed(target) ==
  /\ g_armstate \in Armed
  /\ g_armstate' = target
  /\ wait_force_arm' = FALSE
  /\ UNCHANGED <<exitdelayTarget, pc, job>>

\* In st_exitdelay: the repeated command of a refused one.
ArmFromExitDelay(t, target) ==
  /\ g_armstate = "st_exitdelay"
  /\ wait_force_arm
  /\ exitdelayTarget' = target
  /\ Call(t, "arm", "none")
  /\ UNCHANGED <<g_armstate, wait_force_arm>>

ArmCommand(t, target) ==
  /\ "arm" \in Event
  /\ MayBegin(t)
  /\ ArmFromDisarm(t, target) \/ ArmFromArmed(target) \/ ArmFromExitDelay(t, target)
  /\ UNCHANGED <<entrydelayState, g_sirenstate, sirens, g_ShowAlarmView, timer, setting4>>

\* c_disarm.  Each delay stops its own timer; st_arm and st_partarm stop none.  In
\* st_disarm a phone's CM_DISARM goes past armCommand.
DisarmCommand(t) ==
  /\ "disarm" \in Event
  /\ MayBegin(t)
  /\ g_armstate \in {"st_disarm", "st_arm", "st_partarm", "st_exitdelay", "st_entrydelay"}
  /\ BeginDisarm(t, "none")
  /\ IF t = "phone" /\ g_armstate = "st_disarm"
       THEN g_sirenstate' = FALSE /\ UNCHANGED wait_force_arm
       ELSE wait_force_arm' = FALSE /\ UNCHANGED g_sirenstate
  /\ \/ /\ g_armstate = "st_exitdelay"
        /\ timer' = [timer EXCEPT !["exitdelay"] = Killed("exitdelay")]
     \/ /\ g_armstate = "st_entrydelay"
        /\ CanForget("entrydelay")
        /\ timer' = [timer EXCEPT !["entrydelay"] = Zeroed("entrydelay")]
     \/ /\ g_armstate \notin {"st_exitdelay", "st_entrydelay"}
        /\ UNCHANGED timer
  /\ UNCHANGED <<exitdelayTarget, entrydelayState, sirens, setting4>>

\* c_disarm in test mode only silences; in maintenance it does not even that.
DisarmInTestmode(t) ==
  /\ "disarm" \in Event
  /\ MayBegin(t)
  /\ g_armstate = "st_testmode"
  /\ g_sirenstate' = FALSE
  /\ sirens' = FALSE
  /\ UNCHANGED <<g_armstate, exitdelayTarget, entrydelayState, g_ShowAlarmView,
                 wait_force_arm, timer, setting4, pc, job>>

DisarmInMaintenance(t) ==
  /\ "disarm" \in Event
  /\ MayBegin(t)
  /\ g_armstate = "st_maintain"
  /\ wait_force_arm' = FALSE
  /\ UNCHANGED <<g_armstate, exitdelayTarget, entrydelayState, g_sirenstate, sirens,
                 g_ShowAlarmView, timer, setting4, pc, job>>

\* The refused command, after its notification (pushnotification).
Refuse(t) ==
  /\ pc[t] = "refuse"
  /\ wait_force_arm' = TRUE
  /\ Return(t)
  /\ UNCHANGED <<g_armstate, exitdelayTarget, entrydelayState, g_sirenstate, sirens,
                 g_ShowAlarmView, timer, setting4>>

\* exitDelay, after the beep.
ExitDelay(t) ==
  /\ pc[t] = "exit"
  /\ CanForget("exitdelay")
  /\ timer' = [timer EXCEPT !["exitdelay"] = Made("exitdelay")]
  /\ Return(t)
  /\ UNCHANGED <<g_armstate, exitdelayTarget, entrydelayState, g_sirenstate, sirens,
                 g_ShowAlarmView, wait_force_arm, setting4>>

\* systemArm: stopAlarm tells those sirens to stop that reported to be sounding.
SystemArm(t) ==
  /\ pc[t] = "arm"
  /\ g_sirenstate' = FALSE
  /\ \E reported \in BOOLEAN : sirens' = (sirens /\ ~reported)
  /\ Goto(t, "armed")
  /\ UNCHANGED <<g_armstate, exitdelayTarget, entrydelayState, g_ShowAlarmView,
                 wait_force_arm, timer, setting4, job>>

SystemArmed(t) ==
  /\ pc[t] = "armed"
  /\ g_armstate' = exitdelayTarget
  /\ Save(exitdelayTarget, g_ShowAlarmView)
  /\ Return(t)
  /\ UNCHANGED <<exitdelayTarget, entrydelayState, g_sirenstate, sirens,
                 g_ShowAlarmView, wait_force_arm, timer>>

\* systemDisarm, after the beep: Force_stopAlarm.
Silence(t) ==
  /\ pc[t] = "silence"
  /\ g_sirenstate' = FALSE
  /\ sirens' = FALSE
  /\ Goto(t, "settle")
  /\ UNCHANGED <<g_armstate, exitdelayTarget, entrydelayState, g_ShowAlarmView,
                 wait_force_arm, timer, setting4, job>>

\* Mutant of Settle: the siren timer of the alarm goes on.
SettleKeepsSirenTimer(t) ==
  /\ pc[t] = "settle"
  /\ timer' = [timer EXCEPT !["testmode"].own = @ /\ job[t] # "testmode"]
  /\ Save(g_armstate, g_ShowAlarmView)
  /\ Return(t)
  /\ UNCHANGED <<g_armstate, exitdelayTarget, entrydelayState, g_sirenstate, sirens,
                 g_ShowAlarmView, wait_force_arm>>

\* ... the siren timer goes, the settings are saved; CM_TESTMODE 0 then deletes
\* the timer of the test mode.
Settle(t) ==
  /\ pc[t] = "settle"
  /\ timer' = [timer EXCEPT
                 !["siren"] = Killed("siren"),
                 !["testmode"].own = @ /\ job[t] # "testmode"]
  /\ Save(g_armstate, g_ShowAlarmView)
  /\ Return(t)
  /\ UNCHANGED <<g_armstate, exitdelayTarget, entrydelayState, g_sirenstate, sirens,
                 g_ShowAlarmView, wait_force_arm>>

-----------------------------------------------------------------------------
(* Alarms *)

\* entryDelay for a motion, door, vibration or button report.  No delay when it is set
\* to zero or disabled for the sensor.
Motion ==
  /\ "motion" \in Event
  /\ MayBegin("rx")
  /\ g_armstate \in Armed
  /\ ~g_sirenstate
  /\ \/ /\ CanForget("entrydelay")
        /\ entrydelayState' = g_armstate
        /\ g_armstate' = "st_entrydelay"
        /\ timer' = [timer EXCEPT !["entrydelay"] = Made("entrydelay")]
        /\ UNCHANGED <<pc, job>>
     \/ /\ Call("rx", "alarm", "trigger")
        /\ UNCHANGED <<g_armstate, entrydelayState, timer>>
  /\ UNCHANGED <<exitdelayTarget, g_sirenstate, sirens, g_ShowAlarmView, wait_force_arm,
                 setting4>>

\* A vibration sensor in tamper mode guards the house in every state but one.
Vibration ==
  /\ "vibration" \in Event
  /\ MayBegin("rx")
  /\ g_armstate # "st_testmode"
  /\ g_armstate' = "st_arm"
  /\ IF g_sirenstate THEN UNCHANGED <<pc, job>> ELSE Call("rx", "alarm", "trigger")
  /\ UNCHANGED <<exitdelayTarget, entrydelayState, g_sirenstate, sirens, g_ShowAlarmView,
                 wait_force_arm, timer, setting4>>

\* A sensor is opened (triggerAlarm(1,0)) or detects water (triggerAlarm(1,1)).
Tamper ==
  /\ "tamper" \in Event
  /\ MayBegin("rx")
  /\ Call("rx", "alarm", "tamper")
  /\ UNCHANGED <<g_armstate, exitdelayTarget, entrydelayState, g_sirenstate, sirens,
                 g_ShowAlarmView, wait_force_arm, timer, setting4>>

\* What follows triggerAlarm in the entry timer's handler.
AfterAlarm(t) ==
  IF job[t] = "entryup" THEN Goto(t, "entryend") /\ UNCHANGED job ELSE Return(t)

\* triggerAlarm up to the melody: "tamper, switch to arm mode first" (systemArm2
\* saves); the siren timer starts again.
TriggerAlarm(t) ==
  /\ pc[t] = "alarm"
  /\ g_armstate # "st_maintain"
  /\ IF job[t] = "tamper" /\ g_armstate = "st_disarm"
       THEN /\ g_armstate' = "st_arm" /\ exitdelayTarget' = "st_arm"
            /\ Save("st_arm", g_ShowAlarmView)
       ELSE UNCHANGED <<g_armstate, exitdelayTarget, setting4>>
  /\ timer' = [timer EXCEPT !["siren"] = [var |-> TRUE, own |-> TRUE, old |-> 0]]
  /\ Goto(t, "dispatch")
  /\ UNCHANGED <<entrydelayState, g_sirenstate, sirens, g_ShowAlarmView, wait_force_arm, job>>

NoAlarmInMaintenance(t) ==
  /\ pc[t] = "alarm"
  /\ g_armstate = "st_maintain"
  /\ AfterAlarm(t)
  /\ UNCHANGED <<g_armstate, exitdelayTarget, entrydelayState, g_sirenstate, sirens,
                 g_ShowAlarmView, wait_force_arm, timer, setting4>>

\* Mutant of Dispatch: the settings are saved before the alarm is noted in them.
DispatchSavesFirst(t) ==
  /\ pc[t] = "dispatch"
  /\ g_ShowAlarmView' = TRUE
  /\ Save(g_armstate, g_ShowAlarmView)
  /\ sirens' = (sirens \/ job[t] = "tamper" \/ g_armstate \in SirenFlag)
  /\ Goto(t, "sound")
  /\ UNCHANGED <<g_armstate, exitdelayTarget, entrydelayState, g_sirenstate,
                 wait_force_arm, timer, job>>

\* triggerAlarm after the melody: show and save the alarm, command the sirens the
\* flags select, all of them after a tamper.
Dispatch(t) ==
  /\ pc[t] = "dispatch"
  /\ g_ShowAlarmView' = TRUE
  /\ Save(g_armstate, TRUE)
  /\ sirens' = (sirens \/ job[t] = "tamper" \/ g_armstate \in SirenFlag)
  /\ Goto(t, "sound")
  /\ UNCHANGED <<g_armstate, exitdelayTarget, entrydelayState, g_sirenstate,
                 wait_force_arm, timer, job>>

\* changeSirenState(1), "move to end of function".
Sound(t) ==
  /\ pc[t] = "sound"
  /\ g_sirenstate' = TRUE
  /\ AfterAlarm(t)
  /\ UNCHANGED <<g_armstate, exitdelayTarget, entrydelayState, sirens, g_ShowAlarmView,
                 wait_force_arm, timer, setting4>>

\* Mutant of Panic: systemArm2 is not called, nothing is saved.
PanicNotSaved(t) ==
  /\ "panic" \in Event
  /\ MayBegin(t)
  /\ g_armstate # "st_maintain"
  /\ IF g_armstate = "st_testmode"
       THEN UNCHANGED <<g_armstate, exitdelayTarget, g_ShowAlarmView>>
       ELSE /\ g_armstate' = "st_arm"
            /\ exitdelayTarget' = "st_arm"
            /\ g_ShowAlarmView' = TRUE
  /\ Call(t, "panic", "none")
  /\ UNCHANGED <<entrydelayState, g_sirenstate, sirens, wait_force_arm, timer, setting4>>

\* panic: no timer is started, none is stopped.
Panic(t) ==
  /\ "panic" \in Event
  /\ MayBegin(t)
  /\ g_armstate # "st_maintain"
  /\ IF g_armstate = "st_testmode"
       THEN UNCHANGED <<g_armstate, exitdelayTarget, g_ShowAlarmView, setting4>>
       ELSE /\ g_armstate' = "st_arm"
            /\ exitdelayTarget' = "st_arm"
            /\ g_ShowAlarmView' = TRUE
            /\ Save("st_arm", TRUE)
  /\ Call(t, "panic", "none")
  /\ UNCHANGED <<entrydelayState, g_sirenstate, sirens, wait_force_arm, timer>>

PanicSounds(t) ==
  /\ pc[t] = "panic"
  /\ sirens' = TRUE
  /\ g_sirenstate' = TRUE
  /\ Return(t)
  /\ UNCHANGED <<g_armstate, exitdelayTarget, entrydelayState, g_ShowAlarmView,
                 wait_force_arm, timer, setting4>>

-----------------------------------------------------------------------------
(* timerHandler *)

\* One of the timers pending on variable v expires, the newest or a forgotten one.
\* A periodic timer stays armed.
Expire(v) ==
  \/ timer[v].own /\ timer' = [timer EXCEPT ![v].own = FALSE]
  \/ timer[v].old > 0 /\ timer' = [timer EXCEPT ![v].old = @ - 1]

\* The handler finds the variable zero.
Ignored(v) ==
  /\ MayBegin("timer")
  /\ ~timer[v].var
  /\ Expire(v)
  /\ UNCHANGED <<g_armstate, exitdelayTarget, entrydelayState, g_sirenstate, sirens,
                 g_ShowAlarmView, wait_force_arm, setting4, pc, job>>

\* Expire(v) and v = 0.
ExpireAndZero(v) ==
  \E own \in BOOLEAN, old \in 0 .. MaxOld :
    /\ \/ timer[v].own /\ ~own /\ old = timer[v].old
       \/ own = timer[v].own /\ old = timer[v].old - 1
    /\ timer' = [timer EXCEPT ![v] = [var |-> FALSE, own |-> own, old |-> old]]

ExitDelayUp ==
  /\ MayBegin("timer")
  /\ timer["exitdelay"].var
  /\ ExpireAndZero("exitdelay")
  /\ Call("timer", "arm", "none")
  /\ UNCHANGED <<g_armstate, exitdelayTarget, entrydelayState, g_sirenstate, sirens,
                 g_ShowAlarmView, wait_force_arm, setting4>>

\* Mutant of EntryDelayUp: the state is not reverted.
EntryDelayUpNoRevert ==
  /\ MayBegin("timer")
  /\ timer["entrydelay"].var
  /\ Expire("entrydelay")
  /\ Call("timer", "alarm", "entryup")
  /\ UNCHANGED <<g_armstate, exitdelayTarget, entrydelayState, g_sirenstate, sirens,
                 g_ShowAlarmView, wait_force_arm, setting4>>

\* "revert back to current state", then triggerAlarm(0,0).
EntryDelayUp ==
  /\ MayBegin("timer")
  /\ timer["entrydelay"].var
  /\ Expire("entrydelay")
  /\ g_armstate' = entrydelayState
  /\ Call("timer", "alarm", "entryup")
  /\ UNCHANGED <<exitdelayTarget, entrydelayState, g_sirenstate, sirens, g_ShowAlarmView,
                 wait_force_arm, setting4>>

\* ... and, when triggerAlarm returns, entrydelay_t = 0.
EntryDelayEnd ==
  /\ pc["timer"] = "entryend"
  /\ timer' = [timer EXCEPT !["entrydelay"].var = FALSE]
  /\ Return("timer")
  /\ UNCHANGED <<g_armstate, exitdelayTarget, entrydelayState, g_sirenstate, sirens,
                 g_ShowAlarmView, wait_force_arm, setting4>>

\* Mutant of SirenTimeUp: g_sirenstate is not reset.
SirenTimeUpNoReset ==
  /\ MayBegin("timer")
  /\ timer["siren"].var
  /\ ExpireAndZero("siren")
  /\ UNCHANGED <<g_armstate, exitdelayTarget, entrydelayState, g_sirenstate, sirens,
                 g_ShowAlarmView, wait_force_arm, setting4, pc, job>>

SirenTimeUp ==
  /\ MayBegin("timer")
  /\ timer["siren"].var
  /\ ExpireAndZero("siren")
  /\ g_sirenstate' = FALSE
  /\ UNCHANGED <<g_armstate, exitdelayTarget, entrydelayState, sirens, g_ShowAlarmView,
                 wait_force_arm, setting4, pc, job>>

ServiceTimeUp ==
  /\ MayBegin("timer")
  /\ timer["service"].var
  /\ \/ /\ g_armstate = "st_maintain"
        /\ ExpireAndZero("service")
        /\ g_armstate' = "st_disarm"
     \/ /\ g_armstate # "st_maintain"
        /\ Expire("service")
        /\ UNCHANGED g_armstate
  /\ UNCHANGED <<exitdelayTarget, entrydelayState, g_sirenstate, sirens, g_ShowAlarmView,
                 wait_force_arm, setting4, pc, job>>

\* A periodic timer: whichever of them expired, the newest is deleted.
TestmodeTimeUp ==
  /\ MayBegin("timer")
  /\ timer["testmode"].own \/ timer["testmode"].old > 0
  /\ timer' = [timer EXCEPT !["testmode"].own = FALSE]
  /\ BeginDisarm("timer", "none")
  /\ UNCHANGED <<exitdelayTarget, entrydelayState, g_sirenstate, sirens, wait_force_arm,
                 setting4>>

-----------------------------------------------------------------------------
(* Modes a phone switches on and off *)

ServiceOn ==
  /\ "service" \in Event
  /\ MayBegin("phone")
  /\ g_armstate = "st_disarm" /\ ~g_sirenstate
  /\ CanForget("service")
  /\ timer' = [timer EXCEPT !["service"] = Made("service")]
  /\ g_armstate' = "st_maintain"
  /\ UNCHANGED <<exitdelayTarget, entrydelayState, g_sirenstate, sirens, g_ShowAlarmView,
                 wait_force_arm, setting4, pc, job>>

\* CM_SERVICEMODE 0 asks for no state.
ServiceOff ==
  /\ "service" \in Event
  /\ MayBegin("phone")
  /\ IF timer["service"].var
       THEN /\ CanForget("service")
            /\ timer' = [timer EXCEPT !["service"] = Zeroed("service")]
       ELSE UNCHANGED timer
  /\ g_armstate' = "st_disarm"
  /\ UNCHANGED <<exitdelayTarget, entrydelayState, g_sirenstate, sirens, g_ShowAlarmView,
                 wait_force_arm, setting4, pc, job>>

TestmodeOn ==
  /\ "testmode" \in Event
  /\ MayBegin("phone")
  /\ g_armstate = "st_disarm" /\ ~g_sirenstate
  /\ CanForget("testmode")
  /\ g_armstate' = "st_testmode"
  /\ timer' = [timer EXCEPT !["testmode"] = Made("testmode")]
  /\ UNCHANGED <<exitdelayTarget, entrydelayState, g_sirenstate, sirens, g_ShowAlarmView,
                 wait_force_arm, setting4, pc, job>>

\* CM_TESTMODE 0: systemDisarm, then the timer is deleted.
TestmodeOff ==
  /\ "testmode" \in Event
  /\ MayBegin("phone")
  /\ BeginDisarm("phone", "testmode")
  /\ UNCHANGED <<exitdelayTarget, entrydelayState, g_sirenstate, sirens, wait_force_arm,
                 timer, setting4>>

\* startfwupdate, from any state; st_disarm when the file cannot be opened.
FwUpdateStart ==
  /\ "fwupdate" \in Event
  /\ MayBegin("phone")
  /\ g_armstate' \in {"st_maintain", "st_disarm"}
  /\ UNCHANGED <<exitdelayTarget, entrydelayState, g_sirenstate, sirens, g_ShowAlarmView,
                 wait_force_arm, timer, setting4, pc, job>>

\* stopfwupdate; an update file of the wrong size leaves everything as it was.
FwUpdateStop ==
  /\ "fwupdate" \in Event
  /\ MayBegin("phone")
  /\ g_armstate' = "st_disarm"
  /\ UNCHANGED <<exitdelayTarget, entrydelayState, g_sirenstate, sirens, g_ShowAlarmView,
                 wait_force_arm, timer, setting4, pc, job>>

\* CM_SET_EXTRASETTING and others save all settings, the arm state among them.
ChangeSetting ==
  /\ "setting" \in Event
  /\ MayBegin("phone")
  /\ Save(g_armstate, g_ShowAlarmView)
  /\ UNCHANGED <<g_armstate, exitdelayTarget, entrydelayState, g_sirenstate, sirens,
                 g_ShowAlarmView, wait_force_arm, timer, pc, job>>

\* The state loadsetting4 takes over: a lasting one.
LoadedStateUnfiltered == setting4.armstate       \* mutant of LoadedState
LoadedState == IF setting4.armstate \in Armed THEN setting4.armstate ELSE "st_disarm"

\* The daemon dies (its watchdog, a power failure) and main() starts again:
\* loadsetting4, then systemArm2 or systemDisarm2.  One step, although the threads run
\* before that (serial_main, ceres.c:3025): what a report or a phone does in the few
\* seconds between is overwritten by the state loaded, and not modelled.
Restart ==
  /\ "restart" \in Event
  /\ g_armstate' = LoadedState
  /\ exitdelayTarget' = LoadedState
  /\ Save(LoadedState, setting4.ShowAlarmView)
  /\ g_ShowAlarmView' = setting4.ShowAlarmView
  /\ entrydelayState' = "st_disarm"
  /\ g_sirenstate' = FALSE
  /\ wait_force_arm' = FALSE
  /\ timer' = [v \in Timer |-> NoTimer]
  /\ pc' = [t \in Thread |-> "idle"]
  /\ job' = [t \in Thread |-> "none"]
  /\ UNCHANGED sirens

-----------------------------------------------------------------------------
UserStep(t) ==
  \/ \E target \in Armed : ArmCommand(t, target)
  \/ DisarmCommand(t) \/ DisarmInTestmode(t) \/ DisarmInMaintenance(t)
  \/ Panic(t)

PhoneStep ==
  \/ ServiceOn \/ ServiceOff
  \/ TestmodeOn \/ TestmodeOff
  \/ FwUpdateStart \/ FwUpdateStop
  \/ ChangeSetting

\* The rest of a call that has begun.
Continue(t) ==
  \/ Refuse(t) \/ ExitDelay(t)
  \/ SystemArm(t) \/ SystemArmed(t)
  \/ Silence(t) \/ Settle(t)
  \/ TriggerAlarm(t) \/ NoAlarmInMaintenance(t) \/ Dispatch(t) \/ Sound(t)
  \/ PanicSounds(t)

\* A timer pending on v expires.
Expires(v) ==
  \/ Ignored(v)
  \/ v = "exitdelay" /\ ExitDelayUp
  \/ v = "entrydelay" /\ EntryDelayUp
  \/ v = "siren" /\ SirenTimeUp
  \/ v = "service" /\ ServiceTimeUp
  \/ v = "testmode" /\ TestmodeTimeUp

Next ==
  \/ \E t \in User : UserStep(t)
  \/ PhoneStep
  \/ Motion \/ Tamper \/ Vibration
  \/ \E t \in Thread : Continue(t)
  \/ EntryDelayEnd
  \/ \E v \in Timer : Expires(v)
  \/ Restart

Spec == Init /\ [][Next]_vars

\* A call that has begun goes on; a pending timer expires in the end.  In an instance
\* without overlap a timer competes with other calls, hence strong fairness.  The siren's
\* timer expires unless triggerAlarm kills it and makes another, again and again; the
\* timer of a delay is made once in each delay.
Fairness ==
  /\ \A t \in Thread : WF_vars(Continue(t))
  /\ WF_vars(EntryDelayEnd)
  /\ \A v \in Timer \ {"siren"} : SF_vars(Expires(v))
  /\ SF_vars(Expires("siren") \/ \E t \in Thread : TriggerAlarm(t))

FairSpec == Spec /\ Fairness

-----------------------------------------------------------------------------
(* Properties *)

AtRest == \A t \in Thread : pc[t] = "idle"

\* A delay that has begun has a timer that will end it, one the handler will not
\* ignore, and a state to go back to: whatever panics, tampers, modes and orphaned
\* timers came in between, no house is left in st_exitdelay or st_entrydelay
\* (exitDelay, entryDelay, stopExitDelay, stopEntryDelay, timerHandler).
Pending(v) == timer[v].own \/ timer[v].old > 0
DelayHasTimer ==
  AtRest =>
    /\ g_armstate = "st_exitdelay" => timer["exitdelay"].var /\ Pending("exitdelay")
    /\ g_armstate = "st_entrydelay" =>
         /\ timer["entrydelay"].var /\ Pending("entrydelay")
         /\ entrydelayState \in Armed

\* Why that holds when calls do not overlap: a delay lacks a timer only while the call
\* that makes it, or the handler that ends it, is under way; and the variable of a
\* delay is nonzero only while the timer made last is pending, because every
\* forgotten timer that expires zeroes it too.
OneCallAtATime ==
  \A t, u \in Thread : pc[t] # "idle" /\ pc[u] # "idle" => t = u
ExitDelayInv ==
  g_armstate = "st_exitdelay" =>
    timer["exitdelay"].var \/ \E t \in Thread : pc[t] \in {"exit", "arm", "armed"}
EntryDelayInv ==
  g_armstate = "st_entrydelay" => timer["entrydelay"].var /\ entrydelayState \in Armed
EntryUpInv ==
  \A t \in Thread :
    /\ job[t] = "entryup" => /\ t = "timer"
                             /\ pc[t] \in {"alarm", "dispatch", "sound", "entryend"}
                             /\ g_armstate # "st_entrydelay"
    /\ pc[t] = "entryend" => job[t] = "entryup"
VariableInv ==
  /\ timer["exitdelay"].var => timer["exitdelay"].own
  /\ timer["entrydelay"].var => timer["entrydelay"].own \/ job["timer"] = "entryup"
DelayInv ==
  TypeOK /\ OneCallAtATime /\ ExitDelayInv /\ EntryDelayInv /\ EntryUpInv /\ VariableInv

\* A restart never disarms an armed house and never arms a disarmed one: every path
\* that changes sides saves the new side, also when settings were saved in a delay
\* (savesetting4 in systemArm2, systemDisarm, triggerAlarm, panic).
RestartKeepsSide ==
  AtRest =>
    /\ g_armstate \in Armed => setting4.armstate \in Armed
    /\ g_armstate = "st_disarm" => setting4.armstate \notin Armed

\* Sirens told to sound in an armed house are shown as an alarm on the phones,
\* after a restart too (g_ShowAlarmView in triggerAlarm, panic, loadsetting4).
AlarmIsShown ==
  AtRest /\ sirens /\ g_armstate \in Armed => g_ShowAlarmView

\* After a disarm nothing sounds and nothing is left of the alarm: neither the
\* siren state that would mute the next trigger, nor the siren timer that would
\* end it early (Force_stopAlarm and killTimer in systemDisarm).
DisarmedIsQuiet ==
  AtRest /\ g_armstate = "st_disarm" => ~g_sirenstate /\ ~sirens /\ ~timer["siren"].own

\* "Jeff define for avoid quick switch ARM/DISARM" (jsw_protocol.c:3329): the exit
\* timer arms only a house that is in its exit delay (stopExitDelay, timerHandler).
ExitTimerArms == [][ExitDelayUp => g_armstate = "st_exitdelay"]_vars

\* "revert back to current state" (ceres.c:4710): the entry timer finds the house in
\* the entry delay (stopEntryDelay, timerHandler).
EntryTimerReverts == [][EntryDelayUp => g_armstate = "st_entrydelay"]_vars

\* "if avtive_time == 0, or now > avtive_time means RIGHT NOW" (jsw_protocol.h:307):
\* an entry delay lasts until the time it announces, the timer made last.
EntryDelayFull ==
  [][EntryDelayUp /\ timer["entrydelay"].own => ~timer'["entrydelay"].own]_vars

\* "come back to last armstate" (ceres.c:3095): the daemon restarts in the state in
\* which it stopped, when that is a lasting one.
RestartComesBack ==
  [][Restart /\ AtRest /\ g_armstate \in Armed \cup {"st_disarm"}
       => g_armstate' = g_armstate]_vars

\* Delays end, by the user or by their timers, whatever else happens in the house.
ExitDelayEnds == (g_armstate = "st_exitdelay") ~> (g_armstate # "st_exitdelay")
EntryDelayEnds == (g_armstate = "st_entrydelay") ~> (g_armstate # "st_entrydelay")

\* The gateway does not hold for ever that an alarm is sounding: as long as it does,
\* motion and doors raise no other.  But triggerAlarm kills the siren's timer and makes
\* a new one at each tamper or water report, sounding or not: reports closer together
\* than the duration keep the state set, and the promise is about a house where alarms
\* that sound are some day no longer raised again (siren_t of triggerAlarm).
Retriggered == g_sirenstate /\ \E t \in Thread : TriggerAlarm(t)
SirenTimesOut == (<>[][~Retriggered]_vars) => (g_sirenstate ~> ~g_sirenstate)
=============================================================================
