--------------------------------- MODULE RfTx ---------------------------------
(***************************************************************************)
(* The RF transmit path of the gateway daemon: the command queue in front  *)
(* of the UART of the RF MCU (rf_module.c, testRFMain.c).                  *)
(*                                                                         *)
(* One command is outstanding at a time (currenttx, uartbusy); the others  *)
(* wait in the circular buffer txqueue.  Three kinds of thread work on     *)
(* these variables without a lock:                                         *)
(*   - writers (phone sessions, the timer signal, the RF callback) call    *)
(*     writeCommand or play a melody;                                      *)
(*   - the ACK thread (checkAckfromWrite_thread) retries or gives up the   *)
(*     outstanding command when its acknowledgement is late;               *)
(*   - the RX thread (RFModuleRead) decodes what the devices send back.    *)
(*                                                                         *)
(* A call is cut into steps where the code can lose the processor: between *)
(* a test and the assignments it guards, and around RFModuleWrite, which   *)
(* waits for uart_TX_mutex and sleeps 50 ms while holding it.  With        *)
(* Overlap = FALSE a call begins only when no other is under way: that is  *)
(* the behaviour the code intends.  With Overlap = TRUE the threads        *)
(* interleave at every step.                                               *)
(*                                                                         *)
(* PutTxBuffer takes every packet whose first byte behind the head is 0xD2 *)
(* for a melody, and empties the queue before it sends it.  In an RF       *)
(* packet that byte is the low byte of the device id: devices, and         *)
(* gateways, whose id ends in D2 (EndsInD2) empty the queue too.           *)
(*                                                                         *)
(* Abstracted: the other bytes of a packet, the device type (a function of *)
(* the device), wall-clock time (a timeout may come at any moment after    *)
(* the command was issued), and MCU commands (TYPE_MCU_COMMAND) other than *)
(* melodies, which writeCommand sends past the queue without touching it.  *)
(* The production RF test, whose device id 0x12345678 skips                *)
(* checkRepeatCmd, is left out.                                            *)
(***************************************************************************)
EXTENDS Integers, Sequences

CONSTANTS
  Did,                 \* devices a command can be addressed to
  Paired,              \* those with an entry in keepalivelist
  temp_did,            \* the on-board thermometer, polled by the gettemp timer
  g_DID,               \* the gateway's own id, in the packets of writePairing
  EndsInD2,            \* the ids whose low byte is 0xD2
  Cmd,                 \* command codes
  Writer,              \* threads that call writeCommand
  TXITEMMAX,           \* cells of txqueue
  ALIVE_SENSOR_RETRY,  \* retries for a device that answers
  DEAD_SENSOR_RETRY,   \* retries for a device marked sensor_NO_resp
  Overlap,             \* may calls of different threads overlap?
  MaxOver,             \* bound: entries counted beyond TXITEMMAX
  MaxOverrun,          \* bound: blank cells met behind the end of txqueue
  Blank                \* a zeroed txitem

Command == [did : Did, cmd : Cmd]
Item    == [did : Did, cmd : Cmd, errCount : 0 .. ALIVE_SENSOR_RETRY + 1]
Pump    == {"ack", "rx"}        \* the threads that call writeNextOnQueue
Thread  == Writer \cup Pump

ASSUME RfTxAssumption ==
  /\ Paired \subseteq Did
  /\ temp_did \in Did \ Paired
  /\ g_DID \notin Did
  /\ EndsInD2 \subseteq (Did \ {temp_did}) \cup {g_DID}
  /\ Cmd # {}
  /\ Writer \cap Pump = {}
  /\ TXITEMMAX \in Nat \ {0}
  /\ ALIVE_SENSOR_RETRY \in Nat
  /\ DEAD_SENSOR_RETRY \in 0 .. ALIVE_SENSOR_RETRY
  /\ Overlap \in BOOLEAN
  /\ MaxOver \in Nat
  /\ MaxOverrun \in Nat
  /\ Blank \notin Item

VARIABLES
  txqueue, txreadpos, txwritepos, txCount,  \* the circular buffer
  uartbusy,        \* a command (or a pairing) occupies the line
  currenttx,       \* the outstanding command
  g_isPairMode,    \* pairing under way: the ACK thread pauses
  pairHolds,       \* history: writePairing took the line and nobody ended it
  derailed,        \* history: a command that empties the queue was sent from the queue
  sensor_NO_resp,  \* devices given up on
  heard,           \* devices that were sent something: they may answer, late or twice
  pc, arg          \* where each thread is in its call, and on which command

queueVars == <<txqueue, txreadpos, txwritepos, txCount, derailed>>
lineVars  == <<uartbusy, currenttx, g_isPairMode, pairHolds>>
vars == <<txqueue, txreadpos, txwritepos, txCount, uartbusy, currenttx,
          g_isPairMode, pairHolds, derailed, sensor_NO_resp, heard, pc, arg>>

TypeOK ==
  /\ txqueue \in [0 .. TXITEMMAX - 1 -> Item \cup {Blank}]
  /\ txreadpos \in 0 .. TXITEMMAX + MaxOverrun
  /\ txwritepos \in 0 .. TXITEMMAX - 1
  /\ txCount \in -(TXITEMMAX + MaxOverrun + 1) .. TXITEMMAX + MaxOver
  /\ uartbusy \in BOOLEAN
  /\ currenttx \in Item \cup {Blank}
  /\ g_isPairMode \in BOOLEAN
  /\ pairHolds \in BOOLEAN
  /\ derailed \in BOOLEAN
  /\ sensor_NO_resp \in [Paired -> BOOLEAN]
  /\ heard \in SUBSET Did
  /\ pc \in [Thread -> {"idle", "enqueue", "claim", "send", "clear", "free",
                        "requeue", "read", "write", "pop"}]
  /\ arg \in [Thread -> Command \cup {Blank}]

Init ==
  /\ txqueue = [i \in 0 .. TXITEMMAX - 1 |-> Blank]
  /\ txreadpos = 0 /\ txwritepos = 0 /\ txCount = 0
  /\ uartbusy = FALSE
  /\ currenttx = Blank
  /\ g_isPairMode = FALSE
  /\ pairHolds = FALSE
  /\ derailed = FALSE
  /\ sensor_NO_resp = [d \in Paired |-> FALSE]
  /\ heard = {}
  /\ pc = [t \in Thread |-> "idle"]
  /\ arg = [t \in Thread |-> Blank]

-----------------------------------------------------------------------------
(* Helpers *)

\* A call of thread t may begin.
MayBegin(t) ==
  /\ pc[t] = "idle"
  /\ Overlap \/ \A u \in Thread : pc[u] = "idle"

\* uart_TX_mutex: a packet that empties the queue holds it from "clear" to the end
\* of "free".
MutexFree == \A t \in Thread : pc[t] \notin {"clear", "free"}

Goto(t, l) == pc' = [pc EXCEPT ![t] = l]

\* The call of thread t is over; its locals are gone.
Return(t) == Goto(t, "idle") /\ arg' = [arg EXCEPT ![t] = Blank]

Wrap(i) == IF i >= TXITEMMAX THEN i - TXITEMMAX ELSE i

\* The cells checkRepeatCmd walks over, in queue order.  A cell behind the end
\* of the array never equals a command.
Cell(x) == Wrap(txreadpos + x)
Holds(x, c) ==
  /\ Cell(x) \in DOMAIN txqueue
  /\ txqueue[Cell(x)] # Blank
  /\ txqueue[Cell(x)].did = c.did
  /\ txqueue[Cell(x)].cmd = c.cmd

\* Mutant of checkRepeatCmd: the walk starts one cell late.
checkRepeatCmdFromOne(c) ==
  /\ txCount # TXITEMMAX
  /\ \A x \in 1 .. txCount - 1 : ~Holds(x, c)

\* checkRepeatCmd: 1 when the command may be queued.
checkRepeatCmd(c) ==
  /\ txCount # TXITEMMAX
  /\ \A x \in 0 .. txCount - 1 : ~Holds(x, c)

\* Mutant of Put: the write position does not wrap.
PutUnwrapped(item) ==
  /\ txqueue' = [txqueue EXCEPT ![txwritepos] = item]
  /\ txwritepos' = txwritepos + 1
  /\ txCount' = txCount + 1
  /\ UNCHANGED <<txreadpos, derailed>>

\* Store an item at the write position.
Put(item) ==
  /\ txqueue' = [txqueue EXCEPT ![txwritepos] = item]
  /\ txwritepos' = Wrap(txwritepos + 1)
  /\ txCount' = txCount + 1
  /\ UNCHANGED <<txreadpos, derailed>>

check_sensor_alive(d) == d \in Paired /\ ~sensor_NO_resp[d]

\* The retry count chosen for a siren setting is overwritten by this test before
\* anything reads it.
retry_times(d) ==
  IF check_sensor_alive(d) THEN ALIVE_SENSOR_RETRY ELSE DEAD_SENSOR_RETRY

MarkSensor(d, dead) ==
  sensor_NO_resp' = [e \in Paired |-> IF e = d THEN dead ELSE sensor_NO_resp[e]]

\* The device may hear a transmission and answer it: at any later time, more than
\* once, or never.
Transmit(d) == heard' = heard \cup {d}

\* PutTxBuffer takes a command to such a device for a melody.
EmptiesQueue(c) == c.did \in EndsInD2

\* Mutant of NextOrRelease: the line is released though commands wait.
ReleaseOnly(t) == Goto(t, "idle") /\ uartbusy' = FALSE

\* "send the next on queue, or release the line", as the RX thread does it.
NextOrRelease(t) ==
  /\ Goto(t, IF txCount > 0 THEN "read" ELSE "idle")
  /\ uartbusy' = (uartbusy /\ txCount > 0)

-----------------------------------------------------------------------------
(* Writers: writeCommand *)

\* Entry: test uartbusy and, when busy, checkRepeatCmd.
WriteCommand(w, c) ==
  /\ MayBegin(w)
  /\ \/ /\ uartbusy
        /\ checkRepeatCmd(c)
        /\ txCount < TXITEMMAX + MaxOver
        /\ Goto(w, "enqueue")
     \/ /\ ~uartbusy
        /\ Goto(w, "claim")
  /\ arg' = [arg EXCEPT ![w] = c]
  /\ UNCHANGED <<queueVars, lineVars, sensor_NO_resp, heard>>

\* The line was busy: put the command into the queue.
Enqueue(w) ==
  /\ pc[w] = "enqueue"
  /\ txCount < TXITEMMAX + MaxOver
  /\ Put([did |-> arg[w].did, cmd |-> arg[w].cmd, errCount |-> 0])
  /\ Return(w)
  /\ UNCHANGED <<lineVars, sensor_NO_resp, heard>>

\* The line was free: take it.
Claim(w) ==
  /\ pc[w] = "claim"
  /\ currenttx' = [did |-> arg[w].did, cmd |-> arg[w].cmd, errCount |-> 0]
  /\ uartbusy' = TRUE
  /\ Goto(w, "send")
  /\ UNCHANGED <<queueVars, g_isPairMode, pairHolds, sensor_NO_resp, heard, arg>>

Send(w) ==
  /\ pc[w] = "send"
  /\ MutexFree
  /\ \/ /\ EmptiesQueue(arg[w])
        /\ Goto(w, "clear")
        /\ UNCHANGED <<heard, arg>>
     \/ /\ ~EmptiesQueue(arg[w])
        /\ Transmit(arg[w].did)
        /\ Return(w)
  /\ UNCHANGED <<queueVars, lineVars, sensor_NO_resp>>

\* The gettemp timer: writeCommand(temp_did, ...), every 120 seconds.
GetTemp(w) == \E c \in Cmd : WriteCommand(w, [did |-> temp_did, cmd |-> c])

\* A melody, as every beep sends it.
Melody(w) ==
  /\ MayBegin(w)
  /\ MutexFree
  /\ Goto(w, "clear")
  /\ UNCHANGED <<queueVars, lineVars, sensor_NO_resp, heard, arg>>

(* PutTxBuffer of a packet that starts with 0xD2, sent by any thread *)

\* "clean RF queue".  The history variable remembers a cleaning that
\* writeNextOnQueue is in the middle of.
CleanQueue(t) ==
  /\ pc[t] = "clear"
  /\ txwritepos' = 0 /\ txreadpos' = 0 /\ txCount' = 0
  /\ derailed' = (t \in Pump)
  /\ Goto(t, "free")
  /\ UNCHANGED <<txqueue, lineVars, sensor_NO_resp, heard, arg>>

\* 100 ms later the line is released, the packet written, the mutex unlocked.
CleanEnd(t) ==
  /\ pc[t] = "free"
  /\ uartbusy' = FALSE
  /\ IF arg[t] = Blank THEN UNCHANGED heard ELSE Transmit(arg[t].did)
  /\ IF t \in Pump THEN Goto(t, "pop") /\ UNCHANGED arg ELSE Return(t)
  /\ UNCHANGED <<queueVars, currenttx, g_isPairMode, pairHolds, sensor_NO_resp>>

-----------------------------------------------------------------------------
(* writeNextOnQueue, called by the ACK thread and by the RX thread *)

\* The content of the cell at the read position; behind the end of the array
\* it is whatever the build placed there, blank at most MaxOverrun times.
NextCell ==
  IF txreadpos < TXITEMMAX THEN {txqueue[txreadpos]}
  ELSE [did : Did, cmd : Cmd, errCount : {0}]
         \cup (IF txreadpos < TXITEMMAX + MaxOverrun THEN {Blank} ELSE {})

ReadNext(t) ==
  /\ pc[t] = "read"
  /\ \E item \in NextCell \ {Blank} :
       /\ currenttx' = item
       /\ arg' = [arg EXCEPT ![t] = [did |-> item.did, cmd |-> item.cmd]]
       /\ derailed' = (derailed \/ EmptiesQueue(item))
  /\ Goto(t, "write")
  /\ UNCHANGED <<txqueue, txreadpos, txwritepos, txCount, uartbusy, g_isPairMode, pairHolds, sensor_NO_resp, heard>>

\* A zeroed cell is stepped over; neither index nor count is wrapped here.
SkipBlank(t) ==
  /\ pc[t] = "read"
  /\ Blank \in NextCell
  /\ txreadpos' = txreadpos + 1
  /\ txCount' = txCount - 1
  /\ Goto(t, "idle")
  /\ UNCHANGED <<txqueue, txwritepos, derailed, lineVars, sensor_NO_resp, heard, arg>>

\* The queue may be emptied here, between the reading of the cell and its counting out.
WriteNext(t) ==
  /\ pc[t] = "write"
  /\ MutexFree
  /\ \/ /\ EmptiesQueue(arg[t])
        /\ Goto(t, "clear")
        /\ UNCHANGED heard
     \/ /\ ~EmptiesQueue(arg[t])
        /\ Transmit(arg[t].did)
        /\ Goto(t, "pop")
  /\ UNCHANGED <<queueVars, lineVars, sensor_NO_resp, arg>>

\* Mutant of PopNext: the read position wraps one cell late.
PopNextWrapsLate(t) ==
  /\ pc[t] = "pop"
  /\ txreadpos' = IF txreadpos + 1 > TXITEMMAX THEN 0 ELSE txreadpos + 1
  /\ txCount' = IF txCount - 1 < 0 THEN 0 ELSE txCount - 1
  /\ uartbusy' = TRUE
  /\ Return(t)
  /\ UNCHANGED <<txqueue, txwritepos, derailed, currenttx, g_isPairMode, pairHolds,
                 sensor_NO_resp, heard>>

PopNext(t) ==
  /\ pc[t] = "pop"
  /\ txreadpos' = IF txreadpos + 1 >= TXITEMMAX THEN 0 ELSE txreadpos + 1
  /\ txCount' = IF txCount - 1 < 0 THEN 0 ELSE txCount - 1
  /\ uartbusy' = TRUE
  /\ Return(t)
  /\ UNCHANGED <<txqueue, txwritepos, derailed, currenttx, g_isPairMode, pairHolds,
                 sensor_NO_resp, heard>>

-----------------------------------------------------------------------------
(* The ACK thread: the acknowledgement of currenttx is late *)

\* Mutant of errCountNext: the retries are not counted.
errCountNotCounted == currenttx.errCount

\* errCount saturates one above the largest retry count: larger values are
\* compared the same way.
errCountNext ==
  IF currenttx.errCount > ALIVE_SENSOR_RETRY THEN ALIVE_SENSOR_RETRY + 1
  ELSE currenttx.errCount + 1

AckRetry ==
  /\ MayBegin("ack")
  /\ ~g_isPairMode
  /\ uartbusy
  /\ errCountNext <= retry_times(currenttx.did)
  /\ currenttx' = [currenttx EXCEPT !.errCount = errCountNext]
  /\ Goto("ack", "requeue")
  /\ UNCHANGED <<queueVars, uartbusy, g_isPairMode, pairHolds, sensor_NO_resp, heard, arg>>

\* Mutant of AckGiveUp: the queue is not looked at.
AckGiveUpOnly ==
  /\ MayBegin("ack")
  /\ ~g_isPairMode
  /\ uartbusy
  /\ errCountNext > retry_times(currenttx.did)
  /\ currenttx' = [currenttx EXCEPT !.errCount = errCountNext]
  /\ MarkSensor(currenttx.did, TRUE)
  /\ uartbusy' = (txCount # 0)
  /\ UNCHANGED <<queueVars, g_isPairMode, pairHolds, heard, pc, arg>>

AckGiveUp ==
  /\ MayBegin("ack")
  /\ ~g_isPairMode
  /\ uartbusy
  /\ errCountNext > retry_times(currenttx.did)
  /\ currenttx' = [currenttx EXCEPT !.errCount = errCountNext]
  /\ MarkSensor(currenttx.did, TRUE)
  /\ uartbusy' = (txCount # 0)
  /\ Goto("ack", IF txCount = 0 THEN "idle" ELSE "read")
  /\ UNCHANGED <<queueVars, g_isPairMode, pairHolds, heard, arg>>

\* insertToQueue(&currenttx): dropped when full or already queued.
Requeue ==
  /\ pc["ack"] = "requeue"
  /\ IF checkRepeatCmd(currenttx) /\ txCount < TXITEMMAX + MaxOver
       THEN Put(currenttx)
       ELSE UNCHANGED queueVars
  /\ Goto("ack", "read")
  /\ UNCHANGED <<lineVars, sensor_NO_resp, heard, arg>>

-----------------------------------------------------------------------------
(* The RX thread: what the devices send back *)

\* An acknowledgement, possibly late or repeated.  It ends the outstanding
\* command when the device matches; otherwise it counts as a sign of life.
RxAck(d) ==
  /\ MayBegin("rx")
  /\ d \in heard \ {temp_did}
  /\ \/ /\ uartbusy /\ currenttx # Blank /\ currenttx.did = d
        /\ NextOrRelease("rx")
        /\ UNCHANGED sensor_NO_resp
     \/ /\ ~(uartbusy /\ currenttx # Blank /\ currenttx.did = d)
        /\ MarkSensor(d, FALSE)
        /\ UNCHANGED <<pc, uartbusy>>
  /\ UNCHANGED <<queueVars, currenttx, g_isPairMode, pairHolds, heard, arg>>

\* The thermometer's reading ends an outstanding poll, whatever uartbusy says.
RxTemp ==
  /\ MayBegin("rx")
  /\ temp_did \in heard
  /\ IF currenttx # Blank /\ currenttx.did = temp_did
       THEN NextOrRelease("rx")
       ELSE UNCHANGED <<pc, uartbusy>>
  /\ UNCHANGED <<queueVars, currenttx, g_isPairMode, pairHolds, sensor_NO_resp, heard, arg>>

\* Any other report of a paired device.
RxReport(d) ==
  /\ MayBegin("rx")
  /\ MarkSensor(d, FALSE)
  /\ UNCHANGED <<queueVars, lineVars, heard, pc, arg>>

-----------------------------------------------------------------------------
(* Pairing occupies the line through uartbusy *)

\* The packet of writePairing carries g_DID: it may empty the queue, and then it
\* frees the line (CleanEnd).
PairingPacket(w, sent) ==
  IF sent /\ g_DID \in EndsInD2 THEN MutexFree /\ Goto(w, "clear") ELSE UNCHANGED pc

\* addNewDevice; writePairing sends nothing when the line is busy.
PairStart(w) ==
  /\ MayBegin(w)
  /\ ~g_isPairMode
  /\ g_isPairMode' = TRUE
  /\ uartbusy' = TRUE
  /\ pairHolds' = ~uartbusy
  /\ PairingPacket(w, ~uartbusy)
  /\ UNCHANGED <<queueVars, currenttx, sensor_NO_resp, heard, arg>>

\* The 30 s pairing timer, or CM_DISCARDPAIRING: the line is freed, then the end of
\* the pairing is sent.
PairEnd(w) ==
  /\ MayBegin(w)
  /\ g_isPairMode
  /\ g_isPairMode' = FALSE
  /\ uartbusy' = FALSE
  /\ pairHolds' = FALSE
  /\ PairingPacket(w, TRUE)
  /\ UNCHANGED <<queueVars, currenttx, sensor_NO_resp, heard, arg>>

\* RE_SENSOR_PAIR: the line is freed whatever the type of the device; one of the
\* right type ends the pairing.
PairReport(right) ==
  /\ MayBegin("rx")
  /\ g_isPairMode
  /\ g_isPairMode' = ~right
  /\ uartbusy' = FALSE
  /\ pairHolds' = FALSE
  /\ UNCHANGED <<queueVars, currenttx, sensor_NO_resp, heard, pc, arg>>

-----------------------------------------------------------------------------
WriterStep(w) ==
  \/ \E c \in Command : WriteCommand(w, c)
  \/ Enqueue(w) \/ Claim(w) \/ Send(w)
  \/ Melody(w) \/ PairStart(w) \/ PairEnd(w)

PumpStep(t) == ReadNext(t) \/ SkipBlank(t) \/ WriteNext(t) \/ PopNext(t)

CleanStep(t) == CleanQueue(t) \/ CleanEnd(t)

Next ==
  \/ \E w \in Writer : WriterStep(w)
  \/ \E t \in Pump : PumpStep(t)
  \/ \E t \in Thread : CleanStep(t)
  \/ AckRetry \/ AckGiveUp \/ Requeue
  \/ \E d \in Did : RxAck(d)
  \/ RxTemp
  \/ \E d \in Paired : RxReport(d)
  \/ \E right \in BOOLEAN : PairReport(right)

Spec == Init /\ [][Next]_vars

\* A thread inside a call goes on; the ACK thread wakes every 100 ms, and a pairing
\* ends by its 30 s timer at the latest.  The ACK thread and the timers compete
\* with other calls for the line, hence strong fairness.
CallFairness ==
  /\ \A w \in Writer : WF_vars(Enqueue(w) \/ Claim(w) \/ Send(w))
  /\ \A t \in Pump : WF_vars(PumpStep(t))
  /\ \A t \in Thread : WF_vars(CleanStep(t))
  /\ WF_vars(Requeue)
  /\ SF_vars(AckRetry \/ AckGiveUp)
  /\ SF_vars(\E w \in Writer : PairEnd(w))

CallFairSpec == Spec /\ CallFairness

\* With the gettemp timer, somebody uses the line again and again.
FairSpec == CallFairSpec /\ SF_vars(\E w \in Writer : GetTemp(w))

-----------------------------------------------------------------------------
(* Properties *)

\* The circular buffer is well formed: the counter and the two indices, which the
\* code updates separately and in different functions, agree; every counted cell
\* holds a command; no command waits twice (checkRepeatCmd, insertToQueue,
\* writeNextOnQueue, PutTxBuffer).  So it is until writeNextOnQueue sends a command
\* that empties the queue while it is itself about to count the cell out, and again
\* from the next emptying by anybody else.
Shape ==
  /\ txCount \in 0 .. TXITEMMAX
  /\ txreadpos < TXITEMMAX
  /\ txwritepos = Wrap(txreadpos + txCount)
  /\ \A x \in 0 .. txCount - 1 : txqueue[Cell(x)] # Blank
  /\ \A x, y \in 0 .. txCount - 1 :
       x # y => ~Holds(x, txqueue[Cell(y)])
QueueShape == ~derailed => Shape

\* What keeps the queue well formed when calls do not overlap: one thread at most
\* is inside a call, and what it found when it began still holds.
OneCallAtATime ==
  \A t, u \in Thread : pc[t] # "idle" /\ pc[u] # "idle" => t = u
CountInv == txCount \in 0 .. TXITEMMAX
WriterInv ==
  \A w \in Writer :
    /\ pc[w] \in {"idle", "enqueue", "claim", "send", "clear", "free"}
    /\ pc[w] \in {"enqueue", "claim", "send"} => arg[w] \in Command
    /\ pc[w] = "enqueue" => uartbusy /\ checkRepeatCmd(arg[w])
    /\ pc[w] = "free" => txCount = 0
PumpInv ==
  \A t \in Pump :
    /\ pc[t] \in {"idle", "requeue", "read", "write", "clear", "free", "pop"}
    /\ pc[t] \in {"read", "write"} => txCount > 0
    /\ pc[t] \in {"write", "clear", "free", "pop"} => arg[t] \in Command
    /\ pc[t] = "pop" /\ ~derailed => txCount > 0
    /\ pc[t] \in {"write", "pop"} /\ ~derailed => Holds(0, arg[t]) /\ ~EmptiesQueue(arg[t])
    /\ pc[t] \in {"clear", "free"} => derailed
    /\ pc[t] = "free" => txCount = 0
    /\ pc[t] \in {"requeue", "write", "clear", "free", "pop"} => currenttx \in Item
LineInv == uartbusy /\ ~g_isPairMode => currenttx \in Item
SerialInv ==
  TypeOK /\ QueueShape /\ CountInv /\ OneCallAtATime /\ WriterInv /\ PumpInv /\ LineInv

\* Commands left in the queue of an idle line wait for the next writeCommand.
\* Only a pairing that gives up the line strands them: an acknowledgement, a
\* timeout or a melody never does (the else branches that set uartbusy = 0).
OnlyPairingStrandsCommands ==
  [][(~uartbusy' /\ txCount' > 0) => ~uartbusy \/ g_isPairMode]_vars

\* No accepted command waits for ever: whatever the devices answer, each queued
\* command is taken out of the queue, provided users stop pairing at some time
\* (the ACK thread pauses while g_isPairMode is set, and a pairing that ends
\* leaves the queue to the next writeCommand, at the latest the gettemp poll).
Queued(c) == \E x \in 0 .. txCount - 1 : Holds(x, c)
QueueDrains ==
  (<>[]~g_isPairMode) => \A c \in Command : Queued(c) ~> ~Queued(c)

\* However the threads overlapped, and whatever that did to indices and counter,
\* the line comes to rest once nobody submits and no device answers any more:
\* the ACK thread's retries are bounded even when it works on stale or blank cells
\* (checkAckfromWrite_thread, writeNextOnQueue).
Submits == \E w \in Writer : (pc[w] = "idle" /\ pc'[w] # "idle") \/ PairStart(w)
Answers == pc["rx"] = "idle" /\ pc'["rx"] # "idle"
ComesToRest == (<>[][~Submits /\ ~Answers]_vars) => <>[]~uartbusy

\* "block other until 0xAA return, or time up, or cancel pairing"
\* (testRFMain.c:868): once writePairing has taken the line, it stays taken.
PairingHoldsLine == pairHolds => uartbusy

\* "send the next on queue to uart." (rf_module.c:746): the cell a call counts out
\* is the one it has sent, unless the sending emptied the queue.
PopsWhatItSent ==
  [][\A t \in Pump : pc[t] = "pop" /\ pc'[t] = "idle" /\ ~derailed => Holds(0, arg[t])]_vars

-----------------------------------------------------------------------------
(* The queue implements the channel its callers rely on. *)

\* A command leaves the line when writeNextOnQueue copies it to currenttx; the
\* cell itself is counted out by the same call a little later.  One that empties the
\* queue puts the buffer out of step with the channel.
Taken == \E t \in Pump : pc[t] \in {"write", "pop"}
AsCommand(item) == IF item = Blank THEN Blank ELSE [did |-> item.did, cmd |-> item.cmd]
Line == [i \in 1 .. txCount |-> AsCommand(txqueue[Cell(i - 1)])]

Channel == INSTANCE CommandChannel WITH
  ChannelCommand <- Command, Capacity <- TXITEMMAX, Nothing <- Blank,
  Derailing <- {c \in Command : EmptiesQueue(c)},
  waiting <- IF derailed THEN <<>> ELSE IF Taken THEN Tail(Line) ELSE Line,
  onAir <- AsCommand(currenttx),
  inStep <- ~derailed

ImplementsChannel == Channel!ChannelSpec
=============================================================================
