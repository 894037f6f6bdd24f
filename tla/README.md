# Verification of the home-alarm gateway

TLA+ models, TLC configurations and TLAPS proofs for the gateway daemon `ceres`
(`src/SourceCode/ceres-gateway-2`) and the programs around it. The repository has no
design document and no tests; the code and its comments are the reference.

## The system

A gateway in a house talks to RF sensors, sirens and power adapters through an RF
microcontroller (MCU) on a UART, and to phones over a P2P library (PPPP). It is armed and
disarmed by phones, keyfobs and keypads, raises alarms, keeps an event log, runs rules
and schedules, uploads to a cloud, and is watched by a second process that reboots the
board. `Makefile.sn98601` names the sources that are built; `mongoose.c`, `ipcam.c`,
`serialport.c`, the Lua files and `www/` are not.

### Threads of the daemon

| Thread | Code | Touches |
|---|---|---|
| RX thread | `RFModuleRead`, `DecodeRFMessage`, `CallBackFunc` (rf_module.c, testRFMain.c) | transmit queue, arm state, events, devices |
| ACK thread | `checkAckfromWrite_thread` (rf_module.c:657) | transmit queue |
| P2P listener | `p2p_sub_thread_routine` (ceres.c:1137) | session table, clock, network state |
| one thread per phone | `p2p_thread_service`, `p2p_process_cmd` (ceres.c:472, 3263) | nearly everything |
| timer signal | `timerHandler` (ceres.c:4650), in whatever thread SIGUSR1 interrupts | nearly everything |
| cloud, Nest, ping, button, discovery | cloud_*.c, nest_realtime.c, ceres.c | as a phone, or their own state |

Apart from `p2psession_mutex`, `aes_mutex`, `uart_TX_mutex` and `getevent_mutex` the
threads share plain globals without locks. That is where most hazards come from;
`PROJECT.json` lists each at its line.

### Components

| Component | State | Operations | Interacts with | What makes it correct | Modelled |
|---|---|---|---|---|---|
| RF transmit path (rf_module.c, testRFMain.c) | `txqueue`, two indices, `txCount`, `uartbusy`, `currenttx`, `sensor_NO_resp` | `writeCommand`, `writeNextOnQueue`, ACK thread, `DecodeRFMessage`, melodies | everybody who commands a device; pairing holds its line | the buffer is well formed, commands go out in order and once, none waits for ever | `RfTx`, `CommandChannel` |
| Arming and alarms (jsw_protocol.c, ceres.c, testRFMain.c) | `g_armstate`, delay targets, `g_sirenstate`, `g_ShowAlarmView`, `wait_force_arm`, five timers, setting4.db | `armCommand`, `systemArm/Disarm`, delays, `triggerAlarm`, `panic`, modes, timers, restart | RF path (siren commands, beeps), events, phones | a delay ends, a timer acts on the state it was set for, a disarmed house is quiet, a restart keeps the house armed | `ArmAlarm` |
| Event log (jsw_protocol.c:340-724, 2362-2980, 6880-7354) | `evtlist[100]`, `evtcount`, `o_evtlist`, `filename[]`, `savepos`, tmpevent, tmpevent2 and event files | `newEvent`, save every 10, rotate at 100, clear, reset, load | all reports, reboots, phones' queries | a death loses no more than the last few events; what is shown is in order, once; every file is found and has its turn to go | `EventLog`, `EventHistory` |
| Phone sessions (ceres.c:317-818, 1137-1440) | `gP2PSession[8]` | find, add, free, evict, broadcast | PPPP, all commands | one entry per live connection; a thread closes its own connection only | `P2PSessions` |
| Watchdog (Gateway_wdt, `g_get_temp`, `g_get_temp2`) | heartbeats, restart counters, the file watchtemp | monitor, restart, reboot | daemon, MCU, clock | whatever dies, sticks or falls silent is noticed in time, and a gateway that works is left alone | `Watchdog` |
| Pairing and device list (jsw_protocol.c:1622-2093, 6640-6702) | `devlist[48]`, `devcount`, `g_isPairMode` | pair, add a camera, delete, edit, make room in a full list | RF line, rules, supervision, events | the lists that share its count or name its devices follow it | `Devices`; the hold on the line in `RfTx` |
| Scenarios, schedules, power adapters (4172-5688) | `scenariolist[64]`, rule lists, `pa_proplist[48]`, auto-off timers, `g_last_schedule[48]` | add, sort out, start, time check | device list, sensor reports, RF path | every source has its scenario, the list keeps within its array; a rule runs when its conditions hold, an adapter switched on goes off | adapters, their schedules and timers (`PowerAdapters`), the list of sources (`Devices`); running rules planned |
| Supervision and battery list (6570-6638, 8182-8395) | `keepalivelist`, low-battery list | report, four-hour check | device list, sensor reports, clock | exactly the silent devices are marked as lost | `Devices`; not the battery list |
| Firmware update (ceres.c:4463-4646, updater.c) | `g_fwupgrade`, file, checksum | start, chunk, stop | arm state, watchdog | an update that fails leaves a working gateway | `P2PSessions`; its arm states in `ArmAlarm` |
| Settings files (jsw_protocol.c:815-1550) | one file per group | load, save | all | the file read back is the one saved | setting4's arm state (`ArmAlarm`) |
| Cloud (cloud_*.c) | event queue files, action list | upload, poll, execute | events, arming | each action is executed once | planned |
| Nest, IP cameras, network supervision, LEDs, libraries | little | I/O | | | no: see below |

## The modules

`RfTx.tla` is the transmit path. Its variables are the globals of rf_module.c of the same
names; `pc` and `arg` say where each thread is inside its call, `heard` which devices
were sent something (and so may answer, late or twice); `pairHolds` and `derailed` are
history. Of a packet's bytes the model keeps the one behind the head, which `PutTxBuffer` tests:
`EndsInD2` are the ids whose low byte makes it take a command for a melody. A call is
cut where the code can lose the processor between reading and using shared state:

| Code | Actions |
|---|---|
| `writeCommand` (testRFMain.c:879) | `WriteCommand`, then `Enqueue`, or `Claim` and `Send` |
| `PutTxBuffer` of a packet with 0xD2 (rf_module.c:332) | `Melody`, or `Send`, `WriteNext`, `PairingPacket` of such an id; then `CleanQueue`, `CleanEnd` |
| `writeNextOnQueue` (rf_module.c:467) | `ReadNext`, `WriteNext`, `PopNext`, or `SkipBlank` |
| `checkAckfromWrite_thread` (rf_module.c:657) | `AckRetry`, `Requeue`, or `AckGiveUp`; then `ReadNext` |
| `DecodeRFMessage` (rf_module.c:752) | `RxAck`, `RxTemp`, `RxReport` |
| pairing (jsw_protocol.c:2062, ceres.c:3443, 4662, testRFMain.c:112) | `PairStart`, `PairEnd`, `PairReport` |

`CommandChannel.tla` is what callers rely on: accepted commands wait in line, go on the
air in order, and leave the line only that way or by a purge. It also says where that ends: a
command that empties the queue while it is sent from it (`Derailing`) loses the line, and nothing
is promised about the line until the next purge (`inStep`). `RfTx!Channel` instantiates
it with the buffer read as a sequence; `ImplementsChannel` is the refinement.

`ArmAlarm.tla` is arming and alarms, with the variables of jsw_protocol.c. A kernel timer
is `[var, own, old]`: whether the C variable is nonzero, whether the timer created last is
pending, how many forgotten ones are. This is what the code's use of timers depends on:
`makeTimer` overwrites the id it forgets, and `timerHandler` compares the variable's value,
not the timer that expired. Calls are cut at beeps and other waits:

| Code | Actions |
|---|---|
| `armCommand` (jsw_protocol.c:3451) | `ArmCommand` (`ArmFromDisarm`, `ArmFromArmed`, `ArmFromExitDelay`), `Refuse`, `DisarmCommand`, `DisarmInTestmode`, `DisarmInMaintenance` |
| `exitDelay`, `systemArm` (3320, 3045) | `ExitDelay`; `SystemArm`, `SystemArmed` |
| `systemDisarm` (3145) | `BeginDisarm` (part of the callers), `Silence`, `Settle` |
| `CallBackFunc`'s reports, `entryDelay` (testRFMain.c:351, jsw_protocol.c:3344) | `Motion`, `Vibration`, `Tamper` |
| `triggerAlarm`, `panic` (3905, 3645) | `TriggerAlarm`, `NoAlarmInMaintenance`, `Dispatch`, `Sound`; `Panic`, `PanicSounds` |
| `timerHandler` (ceres.c:4650) | `Ignored`, `ExitDelayUp`, `EntryDelayUp`, `EntryDelayEnd`, `SirenTimeUp`, `ServiceTimeUp`, `TestmodeTimeUp` |
| phone commands (ceres.c:3655, 3695, 3795, 4500, 4613) | `ServiceOn/Off`, `TestmodeOn/Off`, `ChangeSetting`, `FwUpdateStart/Stop` |
| death and `main` (ceres.c:3095) | `Restart` |

`P2PSessions.tla` is the session table of ceres.c with the listener, the service threads and
the firmware update, which throws the other phones out and closes the door. `conn` is the
PPPP library: a handle is free, connected, or hung up by the phone, and stays in use until
`PPPP_Close`. `owner` and `dropped` are history: for which thread a connection was accepted,
and whose entry was given away.

| Code | Actions |
|---|---|
| `p2p_sub_thread_routine` (ceres.c:1137) | `LoopTop`, `ListenTimeout`, `ListenError`, `Reject`, `Accept`; then `FindIndex` and `addP2PSession`, one critical section each |
| `p2p_thread_service` (472) | `AuthOK`, `AuthFail`; at the end `freeP2PSession`, then `CloseSession` |
| `p2p_process_cmd` (3263) | `Served`, `ReadError`, `Undecodable` |
| `startfwupdate`, `freeOtherP2PSession` (4613, 374) | `StartUpdate`; `ForceClose` and `ForceClear` for each entry, without the mutex; `ForceDone` |
| `stopfwupdate` (4500) | `StopUpdate`, `StopHalfway`, `UpdateDone`; `CloseTwice` is `fclose(NULL)` |
| the gettemp timer (4681) | `HeartBeat`, which may end in `Restart` |

`EventLog.tla` is the event log. An event is its number; the list, its two copies on disk, the
table of file names and the files themselves are the variables. A call is cut wherever the
daemon can die between two things that belong together, and `KillAt` says at which of these
places it does. `EventHistory.tla` is what readers of the log rely on: events are recorded one
after the other, the oldest expire and a death forgets the newest, a bounded number of each,
and what is gone stays away. `EventLog!History` instantiates it with what a phone can be shown
(`Known`, from the files and the list, as `getevent` reads them).

| Code | Actions |
|---|---|
| `newEvent` (jsw_protocol.c:2557, 2945) | `NewEvent`; then `NotSaved`, or `OpenTmp` and `SaveTmp` (`saveTmpEvdata`, 444), or |
| `saveEvdata`, `savesetting`, `savesetting5`, `delTmpEvdata` (665, 1092, 1243, 422) | `Rotate`, `WriteFile`, `SaveSetting`, `SaveSetting5`, `DelTmp` |
| `clearevent`, `delAllEvdata` (7326, 638) | `ClearLists`, `ClearSettings`, `ClearTmp`, `ClearFiles` |
| `factoryReset` (6015) | `FactoryReset`, with the daemon going on (CM_RESETDEFAULT) or rebooting |
| kill -9, power; `log_and_reboot_no_beep` (8132); `stopfwupdate` (ceres.c:4584) | `Kill`; `Reboot`; `FwUpdate` |
| `main`: `loadTmpEvdata`, `loadLastEvdata` (ceres.c:3019) | `Load`, `LoadLast` |

`Watchdog.tla` is the daemon's two heartbeats and the second process. Time passes in ticks, what
is due is done before the next, and `wait` holds the time left of each period. The wall clock
is the age it gives to the file watchtemp. `steady` and `unheard` are history: the time since
anything happened to the board, and since the last temperature.

| Code | Actions |
|---|---|
| `timerHandler` on `gettemp_t` (ceres.c:4681) | `Poll` |
| `CallBackFunc` on the thermometer (testRFMain.c:200) | `TempReport`; `LoseReport` when it never comes |
| `PPPP_Listen` returns, a phone's command (ceres.c:1376, 785) | `Listened`, `PhoneServed` |
| `MonitorSystem` (gateway_wdt.c:482) | `CheckProcessAlive`, `CheckMCUAlive`, `KernelError` |
| what happens to the board | `Crash` (death or deadlock of the daemon), `Stick` (of the listener), `Silence` (of the MCU), `PhoneComesOrGoes`, `SetClock` |

`Devices.tla` is the device list with the two lists that must follow it: `keepalivelist`, another
array with the same count, and `scenariolist`. Ages stand for the times in `keepalivelist`, exact up to
the bound `MaxAge`, as `freeoneDevice` compares them exactly and `checkkeepalive` has a limit above as
well as below; `quiet` is history: how long each device was really silent. `camAdded` and `wiped` are history
too, and name the two operations after which less can be promised.

| Code | Actions |
|---|---|
| `newDevFromMcu`, `freeoneDevice`, `addsource` (jsw_protocol.c:1849, 6640, 4227) | `Pair` |
| `addNewDevice`, `addCamera` (2062, 2011) | `AddCamera` |
| `deleteDev`, `editDev` (1622, 1786) | `DeleteDev`, `EditDev` |
| `client_sourcelink` (4446) | `client_sourcelink` |
| `CallBackFunc` on an autoreport, `newEvent` (testRFMain.c:233, jsw_protocol.c:2391) | `AutoReport`, `Event` |
| `checkkeepalive`, `ipc_reconnect` (6570, camipc.c:1036) | the actions of these names |
| `main` (ceres.c:2965); CM_FACTORYRESET; CM_RESETDEFAULT (3591, 3871) | `Restart`; `FactoryReset`; `ResetDefault` |

`PowerAdapters.tla` is `pa_proplist`: its entries, and apart from them the timer ids that lie in
its cells, beyond `paCount` too. A kernel timer that is pending knows the cell it was given, since
`makeTimer` passes on the address of `timerid`. A pass of `arrangeSchedule` is one step for
each adapter, and the other threads' calls fall between them; `tm` is the minute in the static
result of `gmtime` it compares with. `stopped`, `touched`, `calm`, `straight` and `disturbed` are
history: what was done in this minute, and what may have spoilt it.

| Code | Actions |
|---|---|
| `newDevFromMcu`, `addPAproperties`, `sortoutSchedule` (jsw_protocol.c:1882, 4881, 4838) | `Pair` |
| `freeoneDevice` for a device of another kind; `deleteDev` (6640, 1722) | `GiveUp`; `DeleteDev` |
| `setPAofftime`, `setsched`, `delsched` (4980, 5217, 5184) | the actions of these names |
| `startScenario`, `paAutoOff` (4743, 4948) | `Scenario` |
| `timerHandler`, `dopaAutooff` (ceres.c:4656, 4801, jsw_protocol.c:4920) | `Expire` |
| `arrangeSchedule` (5439) | `StartScan`, `ScanAdapter` (`Arrange` for each schedule), `EndScan` |
| `SetRunningLog_str` (ceres.c:2262); CM_SETTIMEZONE, DST, NTP (3604, 3795) | `SetRunningLog`; `SetClock` |
| the timer `schedule_t` (ceres.c:3049) and the clock | `Advance` |
| `main`, `loadPAprop`; CM_FACTORYRESET; CM_RESETDEFAULT (2971, 3591, 3871) | `Restart`; `FactoryReset`; `ResetDefault` |

`Overlap` is a constant of the first two modules. With `FALSE` a call begins only when no other is
under way, which is how the code is written to be used. With `TRUE` the threads interleave
at every cut. The threads of `P2PSessions` and the processes of `Watchdog` are meant to run side
by side and always do. In `EventLog` and `Devices` calls do not overlap, but deaths and restarts
fall between steps, or between calls; in `PowerAdapters` only the pass of the schedules is cut.
`MCRfTx.tla`, `MCP2PSessions.tla`, `MCWatchdog.tla`, `MCDevices.tla` and `MCPowerAdapters.tla` name
the values of an instance; the other modules need no more than their cfg.

## The runs

| Run | Instance | Shows |
|---|---|---|
| `RfTx_serial` | queue of 2, a paired device, an unpaired one whose id ends in D2 and the thermometer, one command, one writer, 2 retries, one blank cell beyond the array; no overlap | `TypeOK`; `QueueShape`; `OnlyPairingStrandsCommands`; `ImplementsChannel`; `QueueDrains` |
| `RfTx_overlap` | queue of 2, one device, two writers, a gateway whose own id ends in D2, 1 retry, one entry over the limit and one cell beyond the array; overlap | `ComesToRest`: retries stay bounded even on stale or blank cells |
| `ArmAlarm_daily` | arm, disarm, motion, tamper, settings; the build that refuses to arm with an open door | `DisarmedIsQuiet`, `ExitTimerArms`, `EntryTimerReverts`, `SirenTimesOut` |
| `ArmAlarm_modes` | arm, disarm, motion, tamper, vibration, test mode, service mode, update | `DelayHasTimer` |
| `ArmAlarm_panic` | arm, disarm, motion, tamper, settings, panic, restart | `TypeOK`, `RestartKeepsSide`, `AlarmIsShown`, `ExitDelayEnds`, `EntryDelayEnds` |
| `ArmAlarm_overlap` | arm, disarm, panic, open doors; overlap | `ExitDelayEnds` |
| `P2PSessions_table` | two entries, two handles, three threads; a heartbeat reboots at once | `TypeOK`, `EntriesAreServed`, `ServedHasEntry` |
| `P2PSessions_update` | one entry, two handles, two threads; two heartbeats | `GoneIsClosed`, `AbandonedUpdateEnds` |
| `EventLog` | a list of 5 saved every 2, two files, 15 reports; kills between calls, while phones are told, while the new file is empty and in boot; reboots between calls | `TypeOK`, `KeptOnDisk`, `RecentIsNewest`, `FilesHaveTheirTurn`, `ImplementsHistory` |
| `Watchdog` | a poll, a listen and a process check every tick, the file check every 2, a file rewritten at 2 and too old at 5, three misses; every fault, one report lost in a row | `TypeOK`, `MissesAreCounted`, `FrozenIsNoticed`, `GoneIsBack`, `NoFalseAlarm` |
| `Devices` | two cells; three detectors, one camera; a scenario list of 5; four hours are one tick, 3000 hours two | `TypeOK`, `SupervisedOnce`, `SourcesHaveScenario`, `MarksTheSilent`, `GivesUpTheSilent` |
| `PowerAdapters` | two cells, three adapters, two timer ids; one schedule from the first minute to the last of a day of two minutes, an hour's zone of one; houses that use auto-off and houses that use schedules | `TypeOK`, `TimersAreTheirs`, `EndsAreSent` |

Each property's comment in its module says which code it is about. Four more properties of `RfTx`
and `ArmAlarm` are in no run because the code does not have them: see "What fails outside the
instances".

**Bounds.** A queue of two cells wraps, fills, and holds two commands whose order can be
told apart; nothing in the code depends on its 120 cells. Three devices are one of each
kind the code distinguishes (with and without an entry in `keepalivelist`, and the
thermometer). `errCount` saturates one above the largest retry count, where the code no
longer distinguishes values. `MaxOver` and `MaxOverrun` bound how far overlapping calls may
take the counter beyond the array, and overlapping calls or a derailed queue the index. `MaxOld = 1` admits one forgotten timer
per variable; a second behaves like the first. Real seconds do not occur: a pending timer
may expire at any moment, which allows every order of expiries the clock allows, and more.

For the session table, two entries and two handles are what it takes for one handle to be in
the table twice, and the third thread is one that outlives its connection; an ordinary full
table needs fewer entries than phones, which the second instance has. Two heartbeats are
enough for a reset to fall between them.

Fifteen reports are three rotations of the event log, one more than the table has files, so that
a file is deleted; five events are two groups of two and a remainder, as a hundred are ten groups
of ten without one: the harder case, in which the last group is never saved by itself. In
`Watchdog` the file check is rarer than the others, the file is rewritten at another age than
it is too old at, and both counters can be at any value when something happens; times beyond
`Reach` are alike because every limit lies below. Two cells and three devices fill a device list
and make every pairing after that give one up; the scenario list of five has no room for all four
sources there may be with sunrise and sunset, and so fills up with entries of devices that are
gone and is sorted out. The detectors are interchangeable (`Alike`); sirens and contacts, whose
differences no property of this run but `SourcesHaveScenario` looks at, are left to the proofs.
Ages of none, one and two ticks are heard of, silent and forgotten; time stands still while anything is
`MaxAge` old, and a cell never used is older than that. That ages within four hours, or beyond 3000, are
told apart as well is proved (`MaxAge` is any bound).
More cells add nothing to the moves within an array, which only tell apart the cell removed, the
last one and others; that they hold in general is proved.

In `PowerAdapters` three adapters and two cells fill the list, so that a pairing sorts it out, and a
deletion has an entry to move. Auto-off and schedules meet only in the moves of entries, which both
kinds of house make, and so are not mixed (`Uses`); a house of both, of four adapters and three
cells, and one of two schedules each in a day of three minutes were simulated at length. A clock is set
to the start of a minute and between two passes. Two timer ids allow a timer to be made with the id
another had in the file.

**Fairness.** A thread inside a call goes on (the code waits only for `uart_TX_mutex`, held for a
bounded time). A pending kernel timer expires, the ACK thread wakes every 100 ms, and `pairing_t`
ends a pairing: strong fairness, because without overlap they compete with other calls for the
turn. `QueueDrains` also uses the `gettemp` timer, which submits a command every 120 s, and
assumes that users stop pairing. The siren's timer is the exception: `triggerAlarm` kills it and
makes it again at each tamper or water report, sounding or not (jsw_protocol.c:3945), so what is assumed
is only that it expires or is made again. `SirenTimesOut` is therefore about houses in which some
day no alarm is raised any more while one sounds (`Retriggered`). Nobody is assumed to press a button, no sensor to report, no
device to answer. In `P2PSessions` the listener, the service threads and the periodic timer go on
(every read has a timeout); no phone is assumed to hang up, nor to finish its update. `EventLog`,
`Watchdog`, `Devices` and `PowerAdapters` need no fairness: their promises are about what has been
done when, and in `Watchdog` and `PowerAdapters` the passing of time itself waits for what is due.

**What fails outside the instances.** `ExitTimerArms` and `EntryTimerReverts` fail as soon as
somebody panics, a vibration sensor in tamper mode reports, or modes are switched during a delay:
those paths change the state and leave the timer, so a house may be re-armed, or put back from st_arm, by a timer of a delay
that is over. `SirenTimesOut` fails with panics, which start no siren timer; and without its premise it fails with
tampers, as reports closer together than the siren's duration keep `g_sirenstate` set.
`Restart` is one step, but `main` starts the RF thread and the phones' threads before it loads the
saved state (ceres.c:3025, 3043, 3096): a report or command in these seconds acts on the state of a
fresh process, which is then overwritten, and what it leaves (a timer, sirens that sound) is not modelled.
`EntryDelayEnds` fails under overlap (a handler that sleeps zeroes the variable of a newer
delay), and so does the queue's shape. They are listed as hazards. In `P2PSessions` the
two invariants name their own exceptions: after a forced release a thread may outlive its
connection, and if the library gives its handle to a new phone it releases and closes that
phone's. Each entry keeps a thread that has yet to release it all the same. More phones than entries may be served at once, although ceres.c:1272 speaks of
ensuring the opposite: an evicted phone keeps its connection and thread.

*Commands to an id that ends in D2.* `PutTxBuffer` (rf_module.c:332) tests the byte behind the head
of every packet, and in an RF packet that is the low byte of the device id. A command to such a device
that is sent directly drops what waits and frees the line, so that it is never retried. One that is sent
from the queue does so in the middle of `writeNextOnQueue`, which then counts it out once more: read
position 1, write position 0, count 0, without any overlap. From then on (`derailed`) what is
put into the queue and what is read from it lie one cell apart: blank cells are met, old commands are
sent again, new ones go out late or never, until a melody or a directly sent command to such an id
empties the queue again. The count stays within the array all the same (`CountInv`), a blank cell may
take the read position behind the end, and the queue still drains. `QueueShape`, `ImplementsChannel` and
`PopsWhatItSent` say nothing of that time; the other properties do not depend on it. A gateway whose own
id ends in D2 frees the line as soon as a pairing has taken it.

*Properties the code does not have*, kept in the modules for whoever repairs it. `PopsWhatItSent`
(`RfTx`), where calls overlap: an acknowledgement handled during the ACK thread's retry write sends the same cell
again and counts out the next command unsent, although rf_module.c:746 speaks of sending "the
next on queue". `PairingHoldsLine` (`RfTx`): a pairing packet of the wrong type, a melody, or an id that ends in D2
frees the line that testRFMain.c:868 says is blocked until the pairing is over.
`RestartComesBack` (`ArmAlarm`): switching between arm and part arm is not saved
(jsw_protocol.c:3534), against "come back to last armstate" (ceres.c:3095). `EntryDelayFull`
(`ArmAlarm`): `stopEntryDelay` (jsw_protocol.c:3382) creates a dummy timer over `entrydelay_t` and
never deletes the real one; after a disarm, an arm and a new entry delay the old timer expires
first, the handler sees the new nonzero id, and the alarm sounds before the time announced to the
phones (jsw_protocol.h:307). Small instances with one writer, with arming and restarts, or with
arming and motion, show each of them.

*Event log.* The order of the rotation leaves windows that `KillAt` leaves out of the run. A death
inside `saveTmpEvdata` (`"savetmp"`) loses the whole unfinished list. One after the new file is
written and before tmpevent is deleted (`"setting"`, `"setting5"`, `"deltmp"`) brings the same
events back in the list, and later two places of the table name one file. One inside
`clearevent` brings cleared events back. A reboot that the daemon decides while it tells the
phones of the hundredth event (`RebootAt` with `"notify"`) saves a full list, and the next event
is written behind its end. Calls of `newEvent` that overlap are not modelled: they can skip the
save of every tenth event, write at index 100, and produce a file of 101 events that
`sendevtfromfile` refuses; `getevent_mutex` covers readers only. `fopen` is assumed to succeed.

*Watchdog.* `NoFalseAlarm` says what is left of "no false alarm": a clock that jumps forward right
before the file check reboots a healthy gateway once, and a gateway without a legal clock and
without a file is rebooted every 27 checks (four and a half hours). A frozen daemon with an illegal clock and
a file is never noticed, and from 1800000000 s (January 2027; the comment says "2015-2026") every
clock is illegal. A clock set back delays the notice (`Back`). A phone that keeps sending
commands hides a stuck listener, and a listener that returns errors does not clear `g_get_temp2`.
A daemon that dies again and again but lives at each check never costs a reboot of the
board. start_ceres.sh restarts ceres too: two daemons may run, which is not modelled.

*Devices.* `AddCamera` breaks the three properties that exclude it: it counts the camera in and
leaves the cell of `keepalivelist` as it was, so the camera is supervised by whatever entry lay
there, and `freeoneDevice` may then give up the last device instead of the silent one, until
the next start. It does not look at `MAXDEVICENUM` either. With magnetic contacts or buttons
(`Double`) and a full scenario list `SourcesHaveScenario` fails: `addsource` makes room for one entry
and writes two, behind the array of 64. The start of the daemon adds sunrise, sunset and what is
missing without a bound. CM_RESETDEFAULT ("clear everything except jswitem (all device)",
ceres.c:3871) takes the scenarios of listed devices; contacts and buttons get theirs back at the
next start, other sources when a phone asks for theirs (`client_sourcelink`). A phone may ask for
the entry of a device that is gone as well, which fills the list. A command sent counts as heard of (the comment at
jsw_protocol.c:5060 says "need to check for ack here"), so a dead siren that is commanded is never
marked as lost; a source that reports again stays lost until its next event; an old copy
of a device edited by a phone brings its old status back. `checkkeepalive` marks nobody who has been
silent for 3000 hours ("4 hours <= x < 3000 hours", jsw_protocol.c:6606): if the status of such a device
is cleared then by `editDev`, it is not marked again. A death between `savedata` and
`saveScenario` leaves a source without a scenario. A jump of the clock marks everything as lost.

*Power adapters.* `disturbed` names what breaks `TimersAreTheirs`. `deleteDev` moves the last
entry while its timer holds the address of the old cell: the adapter that is deleted may take
another's auto-off with it, and the timer of the deleted one may switch off the one that moved in.
A device that is given up keeps its entry, and `dopaAutooff` then returns without clearing the id,
so that the adapter, once it is paired again ("adding a pa already exist"), is not switched off
again until a start finds no id in the file. The id is saved with the entry whenever somebody sets
a time or a schedule while the timer runs; after a restart it is loaded without its timer, and
`timerid != 0` keeps `paAutoOff` from making another until the adapter is deleted. `dopaAutooff`
clears the id although `writeCommand` may have refused the command. `calm` and `straight` name
what breaks `EndsAreSent`. An entry that moves during a pass lands in a cell whose key was already
sent, and its stop is suppressed in the second pass too. A line in the running log during a pass,
which `newEvent` of the same pass writes for a repeated event, replaces the local time by UTC for
the adapters that follow. A clock that is set may jump over the minute, or come to it a second
time, when the stop is in the list already while the adapter has been switched on again.
`savePAprop` cut in the middle leaves a count without its entries, which `loadPAprop` keeps
although it refuses the entries.

## The proofs

Every safety and action property of the runs and both refinements are theorems, for all values of
the constants, under the hypotheses named here. TLC checked the inductive invariants on small
instances first, and found how each excluded event breaks its promise.

`RfTxProofs.tla` proves, for every queue size, set of devices, commands and retry counts,
and `Overlap = FALSE`: `TypeOK`, `QueueShape`, `OnlyPairingStrandsCommands`, `PopsWhatItSent` and
`ImplementsChannel`. `QueueShape`
alone is not inductive (it speaks of the times when the queue is not `derailed`; `Shape` is what it
promises then): `Enqueue` needs that the command tested by `checkRepeatCmd` at the
beginning of the call is still absent, `PopNext` that the cell it counts out exists,
`Requeue` that the outstanding command is a real one. `SerialInv` adds that one thread at
most is inside a call (`OneCallAtATime`), what each call may assume at each of its steps
(`WriterInv`, `PumpInv`), that a busy line has a command (`LineInv`), and that the count never
leaves the array, derailed or not (`CountInv`). The lemmas before
the main one do the modular arithmetic of `Wrap`, and say what storing, popping and clearing
do to the shape. For the refinement the same lemmas say what they do to the line, the sequence read
from the buffer; each action is then a step of `CommandChannel` or leaves the line as it is.

`ArmAlarmProofs.tla` proves `TypeOK` for every instance, overlapping calls included, and
`DelayHasTimer` for every instance without overlap. The inductive invariant `DelayInv` says
that a delay lacks a timer only while the call that makes it or the handler that ends it is
under way (`ExitDelayInv`, `EntryDelayInv`), that the entry handler's own alarm never runs
in an entry delay (`EntryUpInv`), and that the variable of a delay is nonzero only while its
newest timer is pending (`VariableInv`), because a forgotten timer that expires zeroes
the variable too. Most steps are covered by one lemma on steps that touch no delay
(`QuietStep`).

The other promises of arming hold without overlap in a house where certain things do not happen,
and the theorems say which (`Event` does not contain them):

| Theorem | Without | Because |
|---|---|---|
| `SerialRestartKeepsSide` | service, fwupdate, vibration | the first two disarm without saving; a vibration sensor in tamper mode arms a sounding house without saving |
| `SerialAlarmIsShown` | testmode | a panic in test mode sounds and is not shown |
| `SerialDisarmedIsQuiet` | service, fwupdate, restart | the first two disarm and leave the sirens; a restart in an exit delay comes back disarmed with the sirens on |
| `SerialExitTimerArms`, `SerialEntryTimerReverts` | panic, vibration, service, testmode, fwupdate | these change the state during a delay and leave its timer |

`SideInv` relates the saved state to the state and to the call under way, `ShownInv` the view to
the state, `QuietInv` what sounds to what each call knows when it goes on (`TargetInv`, `CauseInv`,
`HushInv`), and `EndInv` a pending timer of a delay to that delay (`DelaysAreTheirs`).

`EventLogProofs.tla` proves `TypeOK` and `KeptOnDisk` for every size of the list, of the groups
saved together and of the table, and every set of places to die, if the daemon reboots itself
only between calls (`RebootAt \subseteq {"idle"}`; otherwise the list overflows, see above).
`LogInv` adds how many events the list has at each place (`ListInv`) and that between what is in
tmpevent and what is in the list there was no reason to save (`Covered` in `TmpInv`); one lemma
about multiples turns that into fewer than `MAXTMPEVENT`, outside the induction.
`FilesHaveTheirTurn`, `RecentIsNewest` and `ImplementsHistory` need more (`Survives`): that the
daemon dies between calls, while phones are told, while the new file is still empty, while it is
down or in boot, which are the places the run has, and that a group is smaller than the list (10 and
100 in the code; were they equal, a death in a rotation would find no tmpevent and leave an empty
file that no place of the table names). `TurnInv` describes the ring of file names around `savepos`
(`RingInv`), that two places name different files (`NameInv`), that the files are in the order of
their events with the list behind them (`OrderInv`), what the copies on disk lack (`DiskInv`) and
how old the oldest file is (`OldInv`). What a phone can be shown is then one interval of events, and
each step of the log moves its two ends as `EventHistory` allows.

`P2PSessionsProofs.tla` proves `TypeOK`, `EntriesAreServed` and `ServedHasEntry` for any table,
handles and threads. Entries and threads find each other by handle alone, and after a forced
release several threads may have the same one; "each entry has a thread" is therefore not
inductive, because a thread that releases one entry might have been the only one for a second. What is
inductive is a count, stated without numbers: each entry can be assigned a thread of its own that
has still to release one of that handle (`CountInv`). The rest of `SessInv` is that the table fills
from its beginning (`TailInv`; entries nobody used have session 0, which is a handle too), and that
an entry goes only by its thread or by one that is about to close the connection (`KeptInv`).

`WatchdogProofs.tla` proves all five properties of its run for every period, limit, set of
faults and range of ages. `WatchInv` relates the file's age to the time since the last
report (`WrittenByMe`, `Known`); that is what `NoFalseAlarm` rests on. `TimesInv` has one part for each
watcher, of the form "the time since the fault, and the time still to wait, and the checks
still to come, add up to the limit at most" (`GoneTime`, `TempTime`, `ListenTime`, `FileTime`,
`NoFileTime`). The products of counters and periods are kept in lemmas of their own.

`DevicesProofs.tla` proves `SupervisedOnce`, `MarksTheSilent`, `GivesUpTheSilent` and `TypeOK` for
every set of devices and every size of the lists. The promises follow from something stronger about
the arrays: until a camera is added, each cell of `keepalivelist` in use holds the device of the same
cell of `devlist`, with the exact time it was silent (`Parallel`), and no device is listed twice (`Distinct`).
`Parallel` is inductive because `deleteDev` moves the last cell into the hole, and `freeoneDevice`
closes the hole, in both arrays alike; the proof is about these moves. The scenario list needs that
sorting it out makes room, hence that no source is in it more often than it should be (`Modest` in
`ScenInv`) and that the array holds what may be listed (`Roomy`: the code's 48 devices and 64
entries are enough for 13 contacts and buttons, which take two). Then every listed source has its
scenario (`DevListedHaveScenario`); that the list also keeps within its array, the second half of
`SourcesHaveScenario`, takes a house without contacts and buttons (`Double = {}`), as `addsource`
makes room for one entry and writes two.

`PowerAdaptersProofs.tla` proves `TypeOK`, `TimersAreTheirs` and `EndsAreSent` for every number of
adapters, cells and timers, and what the keys of `g_last_schedule` tell apart: commands of one kind
never collide (`KeysDiffer`), a stop collides with a start in one case only (`StopsOfStarts`), which
takes twelve adapters and twelve schedules. `TimersAreTheirs` alone is not inductive: a timer that
expires clears its entry only if the adapter is still listed (`WaitingAreListed`), and a timer that
is made has an id of its own only if none is left from an earlier run (`NoneStale`). `ScanAdapter`
goes through an adapter's schedules with a recursive function; that this function exists, and what
holds after each of its steps, is proved with an induction of the project's own (`SetInduction`,
`ProgressIsThere`). For `EndsAreSent` the invariant `EndsInv` says that, while the clock and the static time are left alone, every note is a
key of a minute of this day up to now (`KeyInv`), and while also nothing moves during a pass, that
either all that ends in this minute was stopped, or no stop of this minute is noted from the pass's
place on (`StopInv`). The theorem's
hypothesis `Apart` is the size of the code's arrays (48 and 16), and fewer than twelve adapters or no
schedule that ends 1111 minutes after one begins: a start noted 1111 minutes earlier may have the key
of the stop, which is then not sent.

Assumptions: the ASSUMEs on the constants, which every run evaluates, and the hypotheses above:
`Overlap = FALSE` (`RfTx`, `ArmAlarm` but for its types), the excluded events, `RebootAt \subseteq
{"idle"}` and `Survives`, `Roomy` and `Double = {}`, `Apart`. Only model-checked: the liveness
properties `QueueDrains`, `ComesToRest`, `SirenTimesOut`, `ExitDelayEnds`, `EntryDelayEnds`,
`GoneIsClosed` and `AbandonedUpdateEnds`, which are outside the prover's reach, and what the two runs
with overlap show.

## Not modelled, and why

MCU commands bypass the queue; the production RF test uses a reserved device id. The other
bytes of a packet, pushes, LEDs and event texts influence none of the properties. Running scenarios,
zones, sirens and links, the low-battery list and the cloud are left for modules of their own. Of
schedules, what an adapter is told between start and end (random switching, FORCE ON), weekdays and the
sun's times are left out, and a save is whole. Nest, cameras and network supervision
are input and output around libraries that are not in the repository; AES, MD5 and cJSON are
pure functions of vendored code; Test4 is a packer for update files. Much of the source tree is
headers of libraries (`include/curl*`), vendored code (`mongoose.c`) and code no Makefile builds: the modules cover a
small share of its lines, and most of the daemon's shared state.

## Plan

In this order, each with its own module, a small instance, and proofs where an invariant
carries:

1. `RfTx`, `CommandChannel`, `ArmAlarm` with their first theorems (done).
2. `P2PSessions`: table, listener, service threads, eviction, forced release, reuse of
   handles, firmware update (done).
3. `EventLog` and `EventHistory`: insertion, rotation, clearing, death and boot (done).
4. `Watchdog`: the second process and the heartbeats (done).
5. `Devices`: the device list with supervision and the scenario list (done).
6. `PowerAdapters`: the list of adapters, auto-off timers, schedules (done).
7. `Scenario` (running rules), the low-battery list, the cloud's queue of actions.
8. `Gateway`: `ArmAlarm` over `RfTx`, for what a beep does to queued siren commands.

What is still worth proving: what the overlapping build keeps of the queue (`currenttx` stays a
command or none, whatever the indices), what a death at the places `Survives` excludes costs at
most, and the modules of items 7 and 8, with the queue of actions as a refinement of "each action
is executed once, or lost".
