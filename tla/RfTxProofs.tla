------------------------------ MODULE RfTxProofs ------------------------------
(***************************************************************************)
(* Proofs about RfTx, for every queue size, set of devices and set of       *)
(* threads: as long as calls do not overlap, the circular buffer stays well *)
(* formed, whatever order commands, acknowledgements, timeouts, melodies    *)
(* and pairings come in, except after a command that empties the queue was  *)
(* sent from it (derailed).                                                 *)
(***************************************************************************)
EXTENDS RfTx, SequenceTheorems, TLAPS

(* Storing a command at the write position keeps the buffer well formed. *)
LEMMA PutKeepsShape ==
  ASSUME TypeOK, Shape, NEW item \in Item, checkRepeatCmd(item), Put(item)
  PROVE  /\ Shape'
         /\ txCount' = txCount + 1
         /\ txqueue' \in [0 .. TXITEMMAX - 1 -> Item \cup {Blank}]
         /\ txwritepos' \in 0 .. TXITEMMAX - 1
         /\ txreadpos' = txreadpos
<1> USE RfTxAssumption DEF Put, Wrap
<1>1. /\ TXITEMMAX \in Nat \ {0}
      /\ txreadpos \in 0 .. TXITEMMAX - 1
      /\ txCount \in 0 .. TXITEMMAX - 1
      /\ txwritepos = Wrap(txreadpos + txCount)
      /\ txwritepos \in 0 .. TXITEMMAX - 1
  BY DEF TypeOK, Shape, checkRepeatCmd
<1>2. /\ txqueue' \in [0 .. TXITEMMAX - 1 -> Item \cup {Blank}]
      /\ txwritepos' \in 0 .. TXITEMMAX - 1
      /\ txCount' = txCount + 1
      /\ txreadpos' = txreadpos
      /\ DOMAIN txqueue = 0 .. TXITEMMAX - 1
      /\ DOMAIN txqueue' = 0 .. TXITEMMAX - 1
  BY <1>1 DEF TypeOK
<1>3. txwritepos' = Wrap(txreadpos' + txCount')
  BY <1>1, <1>2
<1>4. /\ \A x \in {txCount} : Cell(x)' = txwritepos
      /\ txqueue'[txwritepos] = item
  <2>1. \A x : Cell(x)' = Wrap(txreadpos' + x)
    BY DEF Cell
  <2>2. txqueue'[txwritepos] = item
    BY <1>1, <1>2
  <2>3. QED
    BY <1>1, <1>2, <2>1, <2>2
<1>5. \A x \in 0 .. txCount - 1 :
        /\ Cell(x)' = Cell(x)
        /\ Cell(x) \in 0 .. TXITEMMAX - 1
        /\ txqueue'[Cell(x)] = txqueue[Cell(x)]
        /\ txqueue[Cell(x)] # Blank
  <2> SUFFICES ASSUME NEW x \in 0 .. txCount - 1
               PROVE  /\ Cell(x)' = Cell(x)
                      /\ Cell(x) \in 0 .. TXITEMMAX - 1
                      /\ txqueue'[Cell(x)] = txqueue[Cell(x)]
                      /\ txqueue[Cell(x)] # Blank
    OBVIOUS
  <2>1. /\ Cell(x)' = Cell(x)
        /\ Cell(x) \in 0 .. TXITEMMAX - 1
        /\ Cell(x) # txwritepos
    BY <1>1, <1>2 DEF Cell
  <2>2. txqueue[Cell(x)] # Blank
    BY DEF Shape
  <2>3. txqueue'[Cell(x)] = txqueue[Cell(x)]
    BY <2>1, <1>2
  <2>4. QED
    BY <2>1, <2>2, <2>3
<1>6. item # Blank
  BY DEF Item
<1>7. \A x \in 0 .. txCount' - 1 : txqueue'[Cell(x)'] # Blank
  BY <1>1, <1>2, <1>4, <1>5, <1>6
<1>8. ASSUME NEW x \in 0 .. txCount' - 1, NEW y \in 0 .. txCount' - 1, x # y
      PROVE  ~Holds(x, txqueue[Cell(y)])'
  <2>1. CASE x < txCount /\ y < txCount
    <3>1. x \in 0 .. txCount - 1 /\ y \in 0 .. txCount - 1
      BY <1>1, <1>2, <2>1
    <3>2. ~Holds(x, txqueue[Cell(y)])
      BY <1>8, <3>1 DEF Shape
    <3>3. QED
      BY <1>2, <1>5, <3>1, <3>2 DEF Holds
  <2>2. CASE x < txCount /\ y = txCount
    BY <1>1, <1>2, <1>4, <1>5, <2>2 DEF Holds, checkRepeatCmd
  <2>3. CASE x = txCount /\ y < txCount
    BY <1>1, <1>2, <1>4, <1>5, <2>3 DEF Holds, checkRepeatCmd
  <2>4. QED
    BY <1>1, <1>2, <1>8, <2>1, <2>2, <2>3
<1>9. QED
  BY <1>1, <1>2, <1>3, <1>7, <1>8 DEF Shape

(* Whatever state the buffer is in, storing a command fits it. *)
LEMMA PutKeepsTypes ==
  ASSUME TypeOK, CountInv, NEW item \in Item, checkRepeatCmd(item), Put(item)
  PROVE  /\ CountInv'
         /\ txCount' = txCount + 1
         /\ txqueue' \in [0 .. TXITEMMAX - 1 -> Item \cup {Blank}]
         /\ txwritepos' \in 0 .. TXITEMMAX - 1
         /\ txreadpos' = txreadpos
BY RfTxAssumption DEF TypeOK, CountInv, checkRepeatCmd, Put, Wrap

(* Counting out the cell at the read position keeps it well formed. *)
LEMMA PopKeepsShape ==
  ASSUME TypeOK, Shape, txCount > 0, NEW t, PopNext(t)
  PROVE  /\ Shape'
         /\ txreadpos' \in 0 .. TXITEMMAX - 1
         /\ txCount' = txCount - 1
<1> USE RfTxAssumption DEF PopNext, Wrap
<1>1. /\ TXITEMMAX \in Nat \ {0}
      /\ txreadpos \in 0 .. TXITEMMAX - 1
      /\ txCount \in 1 .. TXITEMMAX
      /\ txwritepos = Wrap(txreadpos + txCount)
      /\ DOMAIN txqueue = 0 .. TXITEMMAX - 1
  BY DEF TypeOK, Shape
<1>2. /\ txreadpos' = Wrap(txreadpos + 1)
      /\ txreadpos' \in 0 .. TXITEMMAX - 1
      /\ txCount' = txCount - 1
      /\ txCount' \in 0 .. TXITEMMAX
      /\ txwritepos' = txwritepos
      /\ txqueue' = txqueue
  BY <1>1
<1>3. txwritepos' = Wrap(txreadpos' + txCount')
  BY <1>1, <1>2
<1>4. \A x \in 0 .. txCount' - 1 : Cell(x)' = Cell(x + 1) /\ x + 1 \in 0 .. txCount - 1
  BY <1>1, <1>2 DEF Cell
<1>5. \A x \in 0 .. txCount' - 1 : txqueue'[Cell(x)'] # Blank
  BY <1>2, <1>4 DEF Shape
<1>6. ASSUME NEW x \in 0 .. txCount' - 1, NEW y \in 0 .. txCount' - 1, x # y
      PROVE  ~Holds(x, txqueue[Cell(y)])'
  <2>1. x + 1 # y + 1
    BY <1>1, <1>2, <1>6
  <2>2. ~Holds(x + 1, txqueue[Cell(y + 1)])
    BY <2>1, <1>4 DEF Shape
  <2>3. QED
    BY <1>2, <1>4, <2>2 DEF Holds
<1>7. QED
  BY <1>1, <1>2, <1>3, <1>5, <1>6 DEF Shape

(* A cell that is counted holds a command; the one at the read position is what *)
(* writeNextOnQueue copies to currenttx.                                        *)
LEMMA OldestCellIsACommand ==
  ASSUME TypeOK, Shape, txCount > 0
  PROVE  /\ NextCell = {txqueue[txreadpos]}
         /\ txqueue[txreadpos] \in Item
         /\ Cell(0) = txreadpos
         /\ txreadpos \in DOMAIN txqueue
<1> USE RfTxAssumption
<1>1. /\ txreadpos \in 0 .. TXITEMMAX - 1
      /\ 0 \in 0 .. txCount - 1
  BY DEF TypeOK, Shape
<1>2. Cell(0) = txreadpos
  BY <1>1 DEF Cell, Wrap
<1>3. txqueue[txreadpos] # Blank
  BY <1>1, <1>2 DEF Shape
<1>4. txqueue[txreadpos] \in Item /\ txreadpos \in DOMAIN txqueue
  BY <1>1, <1>3 DEF TypeOK
<1>5. NextCell = {txqueue[txreadpos]}
  BY <1>1 DEF NextCell
<1>6. QED
  BY <1>2, <1>4, <1>5

(* Without overlap, a call begins when every thread is idle. *)
LEMMA AloneAtTheStart ==
  ASSUME ~Overlap, SerialInv, NEW t \in Thread, NEW l,
         pc' = [pc EXCEPT ![t] = l], MayBegin(t) \/ pc[t] # "idle"
  PROVE  /\ \A u \in Thread \ {t} : pc[u] = "idle" /\ pc'[u] = "idle"
         /\ pc'[t] = l
         /\ OneCallAtATime'
<1>1. \A u \in Thread \ {t} : pc[u] = "idle"
  BY DEF SerialInv, OneCallAtATime, MayBegin
<1>2. \A u \in Thread \ {t} : pc'[u] = pc[u]
  BY DEF SerialInv, TypeOK
<1>3. pc'[t] = l
  BY DEF SerialInv, TypeOK
<1>4. QED
  BY <1>1, <1>2, <1>3 DEF OneCallAtATime

(* The initial state satisfies the invariant. *)
LEMMA InitSerialInv == Init => SerialInv
<1> SUFFICES ASSUME Init PROVE SerialInv
  OBVIOUS
<1> USE RfTxAssumption DEF Init
<1>1. TypeOK
  <2>1. /\ txqueue \in [0 .. TXITEMMAX - 1 -> Item \cup {Blank}]
        /\ txreadpos \in 0 .. TXITEMMAX + MaxOverrun
        /\ txwritepos \in 0 .. TXITEMMAX - 1
    OBVIOUS
  <2>2. txCount \in -(TXITEMMAX + MaxOverrun + 1) .. TXITEMMAX + MaxOver
    OBVIOUS
  <2>3. /\ uartbusy \in BOOLEAN /\ g_isPairMode \in BOOLEAN /\ pairHolds \in BOOLEAN
        /\ derailed \in BOOLEAN
        /\ currenttx \in Item \cup {Blank}
        /\ heard \in SUBSET Did
        /\ sensor_NO_resp \in [Paired -> BOOLEAN]
    OBVIOUS
  <2>4. /\ pc \in [Thread -> {"idle", "enqueue", "claim", "send", "clear", "free",
                              "requeue", "read", "write", "pop"}]
        /\ arg \in [Thread -> Command \cup {Blank}]
    OBVIOUS
  <2>5. QED
    BY <2>1, <2>2, <2>3, <2>4 DEF TypeOK
<1>2. QueueShape /\ CountInv
  BY DEF QueueShape, CountInv, Shape, Wrap
<1>3. OneCallAtATime /\ WriterInv /\ PumpInv /\ LineInv
  BY DEF OneCallAtATime, WriterInv, PumpInv, LineInv, Thread
<1>4. QED
  BY <1>1, <1>2, <1>3 DEF SerialInv

(* The buffer predicates depend on the buffer alone. *)
LEMMA SameQueue ==
  ASSUME UNCHANGED queueVars
  PROVE  /\ Shape' <=> Shape
         /\ QueueShape' <=> QueueShape
         /\ CountInv' <=> CountInv
         /\ derailed' = derailed
         /\ \A c : checkRepeatCmd(c)' <=> checkRepeatCmd(c)
         /\ \A x, c : Holds(x, c)' <=> Holds(x, c)
<1>1. \A x : Cell(x)' = Cell(x)
  BY DEF queueVars, Cell
<1>2. \A x, c : Holds(x, c)' <=> Holds(x, c)
  BY <1>1 DEF queueVars, Holds
<1>3. \A c : checkRepeatCmd(c)' <=> checkRepeatCmd(c)
  BY <1>2 DEF queueVars, checkRepeatCmd
<1>4. Shape' <=> Shape
  BY <1>1, <1>2 DEF queueVars, Shape, Wrap
<1>5. /\ QueueShape' <=> QueueShape
      /\ CountInv' <=> CountInv
      /\ derailed' = derailed
  BY <1>4 DEF queueVars, QueueShape, CountInv
<1>6. QED
  BY <1>2, <1>3, <1>4, <1>5

(* When thread t has just moved to label l and everybody else is idle, the parts *)
(* of the invariant about threads reduce to what l requires of t.                *)
LEMMA OnlyMover ==
  ASSUME NEW t \in Thread, NEW l, pc'[t] = l,
         \A u \in Thread \ {t} : pc'[u] = "idle",
         t \in Writer =>
           /\ l \in {"idle", "enqueue", "claim", "send", "clear", "free"}
           /\ l \in {"enqueue", "claim", "send"} => arg'[t] \in Command
           /\ l = "enqueue" => uartbusy' /\ checkRepeatCmd(arg[t])'
           /\ l = "free" => txCount' = 0,
         t \in Pump =>
           /\ l \in {"idle", "requeue", "read", "write", "clear", "free", "pop"}
           /\ l \in {"read", "write"} => txCount' > 0
           /\ l \in {"write", "clear", "free", "pop"} => arg'[t] \in Command
           /\ l = "pop" /\ ~derailed' => txCount' > 0
           /\ l \in {"write", "pop"} /\ ~derailed' => Holds(0, arg[t])' /\ ~EmptiesQueue(arg[t])'
           /\ l \in {"clear", "free"} => derailed'
           /\ l = "free" => txCount' = 0
           /\ l \in {"requeue", "write", "clear", "free", "pop"} => currenttx' \in Item
  PROVE  OneCallAtATime' /\ WriterInv' /\ PumpInv'
<1>1. OneCallAtATime'
  BY DEF OneCallAtATime
<1>2. WriterInv'
  BY DEF WriterInv, Thread
<1>3. PumpInv'
  BY DEF PumpInv, Thread
<1>4. QED
  BY <1>1, <1>2, <1>3

(* A step taken while every thread is idle, which leaves the buffer and the *)
(* threads alone, has to care for its own variables only.                   *)
LEMMA IdleStep ==
  ASSUME SerialInv, UNCHANGED <<queueVars, pc, arg>>,
         \A u \in Thread : pc[u] = "idle",
         uartbusy' \in BOOLEAN, g_isPairMode' \in BOOLEAN, pairHolds' \in BOOLEAN,
         sensor_NO_resp' \in [Paired -> BOOLEAN],
         UNCHANGED <<currenttx, heard>>,
         uartbusy' /\ ~g_isPairMode' => uartbusy /\ ~g_isPairMode
  PROVE  SerialInv'
<1>1. TypeOK /\ QueueShape /\ CountInv /\ OneCallAtATime /\ WriterInv /\ PumpInv /\ LineInv
  BY DEF SerialInv
<1>2. UNCHANGED queueVars /\ UNCHANGED pc /\ UNCHANGED arg
  OBVIOUS
<1>3. QueueShape' /\ CountInv'
  BY <1>1, <1>2, SameQueue
<1>4. TypeOK'
  BY <1>1, <1>2 DEF TypeOK, queueVars
<1>5. OneCallAtATime' /\ WriterInv' /\ PumpInv'
  BY <1>2 DEF OneCallAtATime, WriterInv, PumpInv, Thread
<1>6. LineInv'
  BY <1>1 DEF LineInv
<1>7. QED
  BY <1>3, <1>4, <1>5, <1>6 DEF SerialInv

(* Every step keeps the invariant when calls do not overlap. *)
LEMMA SerialStep ==
  ASSUME ~Overlap, SerialInv, [Next]_vars
  PROVE  SerialInv'
<1> USE RfTxAssumption
<1>0. /\ TypeOK /\ QueueShape /\ CountInv /\ OneCallAtATime
      /\ WriterInv /\ PumpInv /\ LineInv
      /\ Writer \subseteq Thread /\ Pump \subseteq Thread
      /\ "ack" \in Pump /\ "rx" \in Pump
      /\ Blank \notin Item
  BY DEF SerialInv, Thread, Pump
<1>1. ASSUME NEW w \in Writer, NEW c \in Command, WriteCommand(w, c)
      PROVE  SerialInv'
  <2>1. UNCHANGED queueVars /\ UNCHANGED lineVars
    BY <1>1 DEF WriteCommand
  <2>2. PICK l \in {"enqueue", "claim"} :
          /\ pc' = [pc EXCEPT ![w] = l]
          /\ l = "enqueue" => uartbusy /\ checkRepeatCmd(c)
    BY <1>1 DEF WriteCommand, Goto
  <2>3. arg' = [arg EXCEPT ![w] = c] /\ arg'[w] = c
    BY <1>0, <1>1 DEF WriteCommand, TypeOK
  <2>4. /\ pc'[w] = l
        /\ \A u \in Thread \ {w} : pc'[u] = "idle"
    BY <1>0, <1>1, <2>2, AloneAtTheStart DEF WriteCommand
  <2>5. QueueShape' /\ CountInv' /\ (l = "enqueue" => checkRepeatCmd(arg[w])')
    BY <1>0, <2>1, <2>2, <2>3, SameQueue DEF checkRepeatCmd, Holds
  <2>6. OneCallAtATime' /\ WriterInv' /\ PumpInv'
    BY <1>0, <2>1, <2>2, <2>3, <2>4, <2>5, OnlyMover DEF lineVars, Pump
  <2>7. TypeOK'
    BY <1>0, <1>1, <2>1, <2>2, <2>3 DEF TypeOK, WriteCommand, queueVars, lineVars
  <2>8. LineInv'
    BY <1>0, <2>1 DEF LineInv, lineVars
  <2>9. QED
    BY <2>5, <2>6, <2>7, <2>8 DEF SerialInv
<1>2. ASSUME NEW w \in Writer, Enqueue(w)
      PROVE  SerialInv'
  <2> DEFINE item == [did |-> arg[w].did, cmd |-> arg[w].cmd, errCount |-> 0]
  <2>1. /\ pc[w] = "enqueue" /\ Put(item) /\ UNCHANGED lineVars
        /\ pc' = [pc EXCEPT ![w] = "idle"]
        /\ arg' = [arg EXCEPT ![w] = Blank]
        /\ UNCHANGED <<sensor_NO_resp, heard>>
    BY <1>2 DEF Enqueue, Return, Goto
  <2>2. arg[w] \in Command /\ checkRepeatCmd(arg[w])
    BY <1>0, <2>1 DEF WriterInv
  <2>3. item \in Item /\ checkRepeatCmd(item)
    BY <2>2 DEF Item, Command, checkRepeatCmd, Holds
  <2> HIDE DEF item
  <2>4. /\ CountInv'
        /\ txqueue' \in [0 .. TXITEMMAX - 1 -> Item \cup {Blank}]
        /\ txwritepos' \in 0 .. TXITEMMAX - 1
        /\ txreadpos' = txreadpos
    BY <1>0, <2>1, <2>3, PutKeepsTypes
  <2>5. derailed' = derailed
    BY <2>1 DEF Put
  <2>6. QueueShape'
    BY <1>0, <2>1, <2>3, <2>5, PutKeepsShape DEF QueueShape
  <2>7. /\ pc'[w] = "idle"
        /\ \A u \in Thread \ {w} : pc'[u] = "idle"
    BY <1>0, <2>1, AloneAtTheStart
  <2>8. OneCallAtATime' /\ WriterInv' /\ PumpInv'
    BY <1>0, <2>7, OnlyMover DEF Pump
  <2>9. TypeOK'
    <3>1. txCount' \in -(TXITEMMAX + MaxOverrun + 1) .. TXITEMMAX + MaxOver
      BY <2>4 DEF CountInv
    <3>2. /\ pc' \in [Thread -> {"idle", "enqueue", "claim", "send", "clear", "free",
                              "requeue", "read", "write", "pop"}]
          /\ arg' \in [Thread -> Command \cup {Blank}]
      BY <1>0, <2>1 DEF TypeOK
    <3>3. QED
      BY <1>0, <2>1, <2>4, <2>5, <3>1, <3>2 DEF TypeOK, lineVars
  <2>10. LineInv'
    BY <1>0, <2>1 DEF LineInv, lineVars
  <2>11. QED
    BY <2>4, <2>6, <2>8, <2>9, <2>10 DEF SerialInv
<1>3. ASSUME NEW w \in Writer, Claim(w)
      PROVE  SerialInv'
  <2>1. /\ pc[w] = "claim" /\ UNCHANGED queueVars
        /\ pc' = [pc EXCEPT ![w] = "send"]
        /\ currenttx' = [did |-> arg[w].did, cmd |-> arg[w].cmd, errCount |-> 0]
        /\ uartbusy' = TRUE
        /\ UNCHANGED <<g_isPairMode, pairHolds, sensor_NO_resp, heard, arg>>
    BY <1>3 DEF Claim, Goto
  <2>2. arg[w] \in Command
    BY <1>0, <2>1 DEF WriterInv
  <2>3. currenttx' \in Item
    BY <2>1, <2>2 DEF Item, Command
  <2>4. /\ pc'[w] = "send"
        /\ \A u \in Thread \ {w} : pc'[u] = "idle"
    BY <1>0, <2>1, AloneAtTheStart
  <2>5. OneCallAtATime' /\ WriterInv' /\ PumpInv'
    BY <1>0, <2>1, <2>2, <2>4, OnlyMover DEF Pump
  <2>6. QueueShape' /\ CountInv'
    BY <1>0, <2>1, SameQueue
  <2>7. TypeOK'
    BY <1>0, <2>1, <2>3 DEF TypeOK, queueVars
  <2>8. LineInv'
    BY <2>3 DEF LineInv
  <2>9. QED
    BY <2>5, <2>6, <2>7, <2>8 DEF SerialInv
<1>4. ASSUME NEW w \in Writer, Send(w)
      PROVE  SerialInv'
  <2>1. /\ pc[w] = "send" /\ UNCHANGED queueVars /\ UNCHANGED lineVars
        /\ UNCHANGED sensor_NO_resp
    BY <1>4 DEF Send
  <2>2. arg[w] \in Command
    BY <1>0, <2>1 DEF WriterInv
  <2>3. PICK l \in {"idle", "clear"} : pc' = [pc EXCEPT ![w] = l]
    BY <1>4 DEF Send, Return, Goto
  <2>4. heard' \in SUBSET Did /\ arg' \in [Thread -> Command \cup {Blank}]
    BY <1>0, <1>4, <2>2 DEF Send, Return, Transmit, TypeOK, Command
  <2>5. /\ pc'[w] = l
        /\ \A u \in Thread \ {w} : pc'[u] = "idle"
    BY <1>0, <2>1, <2>3, AloneAtTheStart
  <2>6. OneCallAtATime' /\ WriterInv' /\ PumpInv'
    BY <1>0, <2>5, OnlyMover DEF Pump
  <2>7. QueueShape' /\ CountInv'
    BY <1>0, <2>1, SameQueue
  <2>8. TypeOK'
    BY <1>0, <2>1, <2>3, <2>4 DEF TypeOK, queueVars, lineVars
  <2>9. LineInv'
    BY <1>0, <2>1 DEF LineInv, lineVars
  <2>10. QED
    BY <2>6, <2>7, <2>8, <2>9 DEF SerialInv
<1>5. ASSUME NEW w \in Writer, Melody(w)
      PROVE  SerialInv'
  <2>1. /\ MayBegin(w) /\ UNCHANGED queueVars /\ UNCHANGED lineVars
        /\ pc' = [pc EXCEPT ![w] = "clear"]
        /\ UNCHANGED <<sensor_NO_resp, heard, arg>>
    BY <1>5 DEF Melody, Goto
  <2>2. /\ pc'[w] = "clear"
        /\ \A u \in Thread \ {w} : pc'[u] = "idle"
    BY <1>0, <2>1, AloneAtTheStart
  <2>3. OneCallAtATime' /\ WriterInv' /\ PumpInv'
    BY <1>0, <2>2, OnlyMover DEF Pump
  <2>4. QueueShape' /\ CountInv'
    BY <1>0, <2>1, SameQueue
  <2>5. TypeOK'
    BY <1>0, <2>1 DEF TypeOK, queueVars, lineVars
  <2>6. LineInv'
    BY <1>0, <2>1 DEF LineInv, lineVars
  <2>7. QED
    BY <2>3, <2>4, <2>5, <2>6 DEF SerialInv
<1>6. ASSUME NEW t \in Thread, CleanQueue(t)
      PROVE  SerialInv'
  <2>1. /\ pc[t] = "clear" /\ UNCHANGED txqueue /\ UNCHANGED lineVars
        /\ txwritepos' = 0 /\ txreadpos' = 0 /\ txCount' = 0
        /\ derailed' = (t \in Pump)
        /\ pc' = [pc EXCEPT ![t] = "free"]
        /\ UNCHANGED <<sensor_NO_resp, heard, arg>>
    BY <1>6 DEF CleanQueue, Goto
  <2>2. t \in Pump => arg[t] \in Command /\ currenttx \in Item
    BY <1>0, <2>1 DEF PumpInv
  <2>3. /\ pc'[t] = "free"
        /\ \A u \in Thread \ {t} : pc'[u] = "idle"
    BY <1>0, <2>1, AloneAtTheStart
  <2>4. OneCallAtATime' /\ WriterInv' /\ PumpInv'
    <3>1. t \in Pump => arg'[t] \in Command /\ currenttx' \in Item /\ derailed'
      BY <2>1, <2>2 DEF lineVars
    <3>2. QED
      BY <1>0, <2>1, <2>3, <3>1, OnlyMover, RfTxAssumption
  <2>5. QueueShape' /\ CountInv'
    BY <2>1 DEF QueueShape, Shape, CountInv, Wrap
  <2>6. TypeOK'
    BY <1>0, <2>1 DEF TypeOK, lineVars
  <2>7. LineInv'
    BY <1>0, <2>1 DEF LineInv, lineVars
  <2>8. QED
    BY <2>4, <2>5, <2>6, <2>7 DEF SerialInv
<1>7. ASSUME NEW t \in Thread, CleanEnd(t)
      PROVE  SerialInv'
  <2>1. /\ pc[t] = "free" /\ UNCHANGED queueVars /\ uartbusy' = FALSE
        /\ UNCHANGED <<currenttx, g_isPairMode, pairHolds, sensor_NO_resp>>
    BY <1>7 DEF CleanEnd
  <2>2. PICK l \in {"idle", "pop"} :
          /\ pc' = [pc EXCEPT ![t] = l]
          /\ l = "pop" => t \in Pump /\ arg' = arg
          /\ l = "idle" => t \notin Pump
    BY <1>7 DEF CleanEnd, Goto, Return
  <2>3. t \in Pump => arg[t] \in Command /\ currenttx \in Item /\ derailed
    BY <1>0, <2>1 DEF PumpInv
  <2>4. /\ pc'[t] = l
        /\ \A u \in Thread \ {t} : pc'[u] = "idle"
    BY <1>0, <2>1, <2>2, AloneAtTheStart
  <2>5. OneCallAtATime' /\ WriterInv' /\ PumpInv'
    <3>1. t \in Pump => l = "pop" /\ arg'[t] \in Command /\ currenttx' \in Item /\ derailed'
      BY <2>1, <2>2, <2>3 DEF queueVars
    <3>2. t \in Writer => l = "idle"
      BY <2>2, RfTxAssumption
    <3>3. QED
      BY <2>4, <3>1, <3>2, OnlyMover
  <2>6. QueueShape' /\ CountInv'
    BY <1>0, <2>1, SameQueue
  <2>7. TypeOK'
    <3>1. heard' \in SUBSET Did
      BY <1>0, <1>7 DEF CleanEnd, Transmit, TypeOK, Command
    <3>2. arg' \in [Thread -> Command \cup {Blank}]
      BY <1>0, <1>7 DEF CleanEnd, Return, TypeOK
    <3>3. QED
      BY <1>0, <2>1, <2>2, <3>1, <3>2 DEF TypeOK, queueVars
  <2>8. LineInv'
    BY <2>1 DEF LineInv
  <2>9. QED
    BY <2>5, <2>6, <2>7, <2>8 DEF SerialInv
<1>8. ASSUME NEW t \in Pump, ReadNext(t)
      PROVE  SerialInv'
  <2>1. PICK item \in NextCell \ {Blank} :
          /\ currenttx' = item
          /\ arg' = [arg EXCEPT ![t] = [did |-> item.did, cmd |-> item.cmd]]
          /\ derailed' = (derailed \/ EmptiesQueue(item))
    BY <1>8 DEF ReadNext
  <2>2. /\ pc[t] = "read" /\ UNCHANGED <<txqueue, txreadpos, txwritepos, txCount>>
        /\ pc' = [pc EXCEPT ![t] = "write"]
        /\ UNCHANGED <<uartbusy, g_isPairMode, pairHolds, sensor_NO_resp, heard>>
    BY <1>8 DEF ReadNext, Goto
  <2>3. txCount > 0
    BY <1>0, <2>2 DEF PumpInv
  \* Out of step, the read position may be anywhere, behind the array included.
  <2>4. item \in Item
    <3>1. CASE txreadpos < TXITEMMAX
      BY <1>0, <2>1, <3>1 DEF NextCell, TypeOK
    <3>2. CASE ~(txreadpos < TXITEMMAX)
      BY <2>1, <3>2 DEF NextCell, Item
    <3>3. QED
      BY <3>1, <3>2
  <2>5. /\ arg'[t] = [did |-> item.did, cmd |-> item.cmd]
        /\ arg'[t] \in Command
    BY <1>0, <2>1, <2>4 DEF TypeOK, Item, Command
  <2>6. ASSUME ~derailed'
        PROVE  Shape /\ Holds(0, arg[t])' /\ ~EmptiesQueue(arg[t])'
    <3>1. Shape /\ ~EmptiesQueue(item)
      BY <1>0, <2>1, <2>6 DEF QueueShape
    <3>2. /\ item = txqueue[txreadpos]
          /\ Cell(0) = txreadpos /\ txreadpos \in DOMAIN txqueue
      BY <1>0, <2>1, <2>3, <3>1, OldestCellIsACommand
    <3>3. Cell(0)' = Cell(0)
      BY <2>2 DEF Cell, Wrap
    <3>4. Holds(0, arg[t])'
      BY <1>0, <2>2, <2>4, <2>5, <3>2, <3>3 DEF Holds
    <3>5. ~EmptiesQueue(arg[t])'
      BY <2>5, <3>1 DEF EmptiesQueue
    <3>6. QED
      BY <3>1, <3>4, <3>5
  <2>7. /\ pc'[t] = "write"
        /\ \A u \in Thread \ {t} : pc'[u] = "idle"
    BY <1>0, <2>2, AloneAtTheStart
  <2>8. txCount' > 0
    BY <2>2, <2>3
  <2>9. OneCallAtATime' /\ WriterInv' /\ PumpInv'
    BY <1>0, <2>1, <2>4, <2>5, <2>6, <2>7, <2>8, OnlyMover, RfTxAssumption
  <2>10. QueueShape' /\ CountInv'
    <3>1. Shape' <=> Shape
      <4>1. \A x : Cell(x)' = Cell(x)
        BY <2>2 DEF Cell
      <4>2. \A x, c : Holds(x, c)' <=> Holds(x, c)
        BY <2>2, <4>1 DEF Holds
      <4>3. QED
        BY <2>2, <4>1, <4>2 DEF Shape, Wrap
    <3>2. QED
      BY <1>0, <2>2, <2>6, <3>1 DEF QueueShape, CountInv
  <2>11. TypeOK'
    <3>1. /\ pc' \in [Thread -> {"idle", "enqueue", "claim", "send", "clear", "free",
                              "requeue", "read", "write", "pop"}]
          /\ arg' \in [Thread -> Command \cup {Blank}]
      BY <1>0, <2>1, <2>2, <2>5 DEF TypeOK
    <3>2. derailed' \in BOOLEAN
      BY <1>0, <2>1 DEF TypeOK, EmptiesQueue
    <3>3. QED
      BY <1>0, <2>1, <2>2, <2>4, <3>1, <3>2 DEF TypeOK
  <2>12. LineInv'
    BY <2>1, <2>4 DEF LineInv
  <2>13. QED
    BY <2>9, <2>10, <2>11, <2>12 DEF SerialInv
<1>9. ASSUME NEW t \in Pump, SkipBlank(t)
      PROVE  SerialInv'
  <2>1. /\ pc[t] = "read" /\ Blank \in NextCell
        /\ txreadpos' = txreadpos + 1 /\ txCount' = txCount - 1
        /\ pc' = [pc EXCEPT ![t] = "idle"]
        /\ UNCHANGED <<txqueue, txwritepos, derailed, sensor_NO_resp, heard, arg>>
        /\ UNCHANGED lineVars
    BY <1>9 DEF SkipBlank, Goto
  <2>2. txCount > 0
    BY <1>0, <2>1 DEF PumpInv
  \* In a well-formed buffer a counted cell is not blank.
  <2>3. derailed
    BY <1>0, <2>1, <2>2, OldestCellIsACommand DEF QueueShape
  <2>4. txreadpos < TXITEMMAX + MaxOverrun
    <3>1. CASE txreadpos < TXITEMMAX
      BY <1>0, <3>1 DEF TypeOK
    <3>2. CASE ~(txreadpos < TXITEMMAX)
      <4>1. \A c \in [did : Did, cmd : Cmd, errCount : {0}] : c \in Item
        BY DEF Item
      <4>2. Blank \notin [did : Did, cmd : Cmd, errCount : {0}]
        BY <1>0, <4>1
      <4>3. QED
        BY <2>1, <3>2, <4>2 DEF NextCell
    <3>3. QED
      BY <3>1, <3>2
  <2>5. QueueShape' /\ CountInv'
    BY <1>0, <2>1, <2>2, <2>3 DEF QueueShape, CountInv
  <2>6. /\ pc'[t] = "idle"
        /\ \A u \in Thread \ {t} : pc'[u] = "idle"
    BY <1>0, <2>1, AloneAtTheStart
  <2>7. OneCallAtATime' /\ WriterInv' /\ PumpInv'
    BY <1>0, <2>6, OnlyMover, RfTxAssumption
  <2>8. TypeOK'
    <3>1. /\ txreadpos' \in 0 .. TXITEMMAX + MaxOverrun
          /\ txCount' \in -(TXITEMMAX + MaxOverrun + 1) .. TXITEMMAX + MaxOver
      BY <1>0, <2>1, <2>4, <2>5 DEF TypeOK, CountInv
    <3>2. QED
      BY <1>0, <2>1, <3>1 DEF TypeOK, lineVars
  <2>9. LineInv'
    BY <1>0, <2>1 DEF LineInv, lineVars
  <2>10. QED
    BY <2>5, <2>7, <2>8, <2>9 DEF SerialInv
<1>10. ASSUME NEW t \in Pump, WriteNext(t)
       PROVE  SerialInv'
  <2>1. /\ pc[t] = "write" /\ UNCHANGED queueVars /\ UNCHANGED lineVars
        /\ UNCHANGED <<sensor_NO_resp, arg>>
    BY <1>10 DEF WriteNext
  <2>2. PICK l \in {"clear", "pop"} :
          /\ pc' = [pc EXCEPT ![t] = l]
          /\ l = "clear" <=> EmptiesQueue(arg[t])
    BY <1>10 DEF WriteNext, Goto
  <2>3. /\ arg[t] \in Command /\ txCount > 0 /\ currenttx \in Item
        /\ ~derailed => Holds(0, arg[t]) /\ ~EmptiesQueue(arg[t])
    BY <1>0, <2>1 DEF PumpInv
  <2>4. /\ pc'[t] = l
        /\ \A u \in Thread \ {t} : pc'[u] = "idle"
    BY <1>0, <2>1, <2>2, AloneAtTheStart
  <2>5. ~derailed' => Holds(0, arg[t])' /\ ~EmptiesQueue(arg[t])'
    <3>1. Cell(0)' = Cell(0)
      BY <2>1 DEF Cell, Wrap, queueVars
    <3>2. ~derailed' => ~derailed
      BY <2>1 DEF queueVars
    <3>3. Holds(0, arg[t]) => Holds(0, arg[t])'
      BY <2>1, <3>1 DEF Holds, queueVars
    <3>4. EmptiesQueue(arg[t])' <=> EmptiesQueue(arg[t])
      BY <2>1 DEF EmptiesQueue
    <3>5. QED
      BY <2>3, <3>2, <3>3, <3>4
  <2>6. arg'[t] \in Command /\ txCount' > 0 /\ currenttx' \in Item
    BY <2>1, <2>3 DEF queueVars, lineVars
  <2>7. l = "clear" => derailed'
    BY <2>1, <2>2, <2>3 DEF queueVars
  <2>8. OneCallAtATime' /\ WriterInv' /\ PumpInv'
    BY <1>0, <2>4, <2>5, <2>6, <2>7, OnlyMover, RfTxAssumption
  <2>9. QueueShape' /\ CountInv'
    BY <1>0, <2>1, SameQueue
  <2>10. heard' \in SUBSET Did
    BY <1>0, <1>10, <2>3 DEF WriteNext, Transmit, TypeOK, Command
  <2>11. TypeOK'
    BY <1>0, <2>1, <2>2, <2>10 DEF TypeOK, queueVars, lineVars
  <2>12. LineInv'
    BY <1>0, <2>1 DEF LineInv, lineVars
  <2>13. QED
    BY <2>8, <2>9, <2>11, <2>12 DEF SerialInv
<1>11. ASSUME NEW t \in Pump, PopNext(t)
       PROVE  SerialInv'
  <2>1. /\ pc[t] = "pop" /\ UNCHANGED <<txqueue, txwritepos, derailed>>
        /\ uartbusy' = TRUE
        /\ txreadpos' = IF txreadpos + 1 >= TXITEMMAX THEN 0 ELSE txreadpos + 1
        /\ txCount' = IF txCount - 1 < 0 THEN 0 ELSE txCount - 1
        /\ pc' = [pc EXCEPT ![t] = "idle"]
        /\ arg' = [arg EXCEPT ![t] = Blank]
        /\ UNCHANGED <<currenttx, g_isPairMode, pairHolds, sensor_NO_resp, heard>>
    BY <1>11 DEF PopNext, Return, Goto
  <2>2. currenttx \in Item /\ (~derailed => txCount > 0)
    BY <1>0, <2>1 DEF PumpInv
  <2>3. CountInv' /\ txreadpos' \in 0 .. TXITEMMAX - 1
    BY <1>0, <2>1 DEF CountInv, TypeOK
  <2>4. QueueShape'
    BY <1>0, <1>11, <2>1, <2>2, PopKeepsShape DEF QueueShape
  <2>5. /\ pc'[t] = "idle"
        /\ \A u \in Thread \ {t} : pc'[u] = "idle"
    BY <1>0, <2>1, AloneAtTheStart
  <2>6. OneCallAtATime' /\ WriterInv' /\ PumpInv'
    BY <1>0, <2>5, OnlyMover, RfTxAssumption
  <2>7. TypeOK'
    <3>1. /\ txCount' \in -(TXITEMMAX + MaxOverrun + 1) .. TXITEMMAX + MaxOver
          /\ txreadpos' \in 0 .. TXITEMMAX + MaxOverrun
      BY <2>3 DEF CountInv
    <3>2. /\ pc' \in [Thread -> {"idle", "enqueue", "claim", "send", "clear", "free",
                              "requeue", "read", "write", "pop"}]
          /\ arg' \in [Thread -> Command \cup {Blank}]
      BY <1>0, <2>1 DEF TypeOK
    <3>3. QED
      BY <1>0, <2>1, <3>1, <3>2 DEF TypeOK
  <2>8. LineInv'
    BY <2>1, <2>2 DEF LineInv
  <2>9. QED
    BY <2>3, <2>4, <2>6, <2>7, <2>8 DEF SerialInv
<1>12. ASSUME AckRetry
       PROVE  SerialInv'
  <2>1. /\ MayBegin("ack") /\ uartbusy /\ ~g_isPairMode /\ UNCHANGED queueVars
        /\ errCountNext <= retry_times(currenttx.did)
        /\ currenttx' = [currenttx EXCEPT !.errCount = errCountNext]
        /\ pc' = [pc EXCEPT !["ack"] = "requeue"]
        /\ UNCHANGED <<uartbusy, g_isPairMode, pairHolds, sensor_NO_resp, heard, arg>>
    BY <1>12 DEF AckRetry, Goto
  <2>2. currenttx \in Item
    BY <1>0, <2>1 DEF LineInv
  <2>3. errCountNext \in 0 .. ALIVE_SENSOR_RETRY + 1
    BY <2>2 DEF errCountNext, Item
  <2>4. currenttx' \in Item
    BY <2>1, <2>2, <2>3 DEF Item
  <2>5. /\ pc'["ack"] = "requeue"
        /\ \A u \in Thread \ {"ack"} : pc'[u] = "idle"
    BY <1>0, <2>1, AloneAtTheStart
  <2>6. OneCallAtATime' /\ WriterInv' /\ PumpInv'
    BY <1>0, <2>4, <2>5, OnlyMover, RfTxAssumption
  <2>7. QueueShape' /\ CountInv'
    BY <1>0, <2>1, SameQueue
  <2>8. TypeOK'
    BY <1>0, <2>1, <2>4 DEF TypeOK, queueVars
  <2>9. LineInv'
    BY <2>4 DEF LineInv
  <2>10. QED
    BY <2>6, <2>7, <2>8, <2>9 DEF SerialInv
<1>13. ASSUME AckGiveUp
       PROVE  SerialInv'
  <2> DEFINE l == IF txCount = 0 THEN "idle" ELSE "read"
  <2>1. /\ MayBegin("ack") /\ uartbusy /\ ~g_isPairMode /\ UNCHANGED queueVars
        /\ currenttx' = [currenttx EXCEPT !.errCount = errCountNext]
        /\ MarkSensor(currenttx.did, TRUE)
        /\ uartbusy' = (txCount # 0)
        /\ pc' = [pc EXCEPT !["ack"] = l]
        /\ UNCHANGED <<g_isPairMode, pairHolds, heard, arg>>
    BY <1>13 DEF AckGiveUp, Goto
  <2>2. currenttx \in Item
    BY <1>0, <2>1 DEF LineInv
  <2>3. errCountNext \in 0 .. ALIVE_SENSOR_RETRY + 1
    BY <2>2 DEF errCountNext, Item
  <2>4. currenttx' \in Item
    BY <2>1, <2>2, <2>3 DEF Item
  <2>5. sensor_NO_resp' \in [Paired -> BOOLEAN]
    BY <1>0, <2>1 DEF TypeOK, MarkSensor
  <2>6. txCount \in Nat /\ txCount' = txCount
    BY <1>0, <2>1 DEF CountInv, queueVars
  <2>7. l \in {"idle", "read"} /\ (l = "read" => txCount' > 0)
    BY <2>6
  <2> HIDE DEF l
  <2>8. /\ pc'["ack"] = l
        /\ \A u \in Thread \ {"ack"} : pc'[u] = "idle"
    BY <1>0, <2>1, AloneAtTheStart
  <2>9. OneCallAtATime' /\ WriterInv' /\ PumpInv'
    BY <1>0, <2>7, <2>8, OnlyMover, RfTxAssumption
  <2>10. QueueShape' /\ CountInv'
    BY <1>0, <2>1, SameQueue
  <2>11. TypeOK'
    BY <1>0, <2>1, <2>4, <2>5, <2>7 DEF TypeOK, queueVars
  <2>12. LineInv'
    BY <2>4 DEF LineInv
  <2>13. QED
    BY <2>9, <2>10, <2>11, <2>12 DEF SerialInv
<1>14. ASSUME Requeue
       PROVE  SerialInv'
  <2>1. /\ pc["ack"] = "requeue" /\ UNCHANGED lineVars
        /\ pc' = [pc EXCEPT !["ack"] = "read"]
        /\ UNCHANGED <<sensor_NO_resp, heard, arg>>
        /\ IF checkRepeatCmd(currenttx) /\ txCount < TXITEMMAX + MaxOver
             THEN Put(currenttx)
             ELSE UNCHANGED queueVars
    BY <1>14 DEF Requeue, Goto
  <2>2. currenttx \in Item
    BY <1>0, <2>1 DEF PumpInv
  <2>3. txCount \in 0 .. TXITEMMAX
    BY <1>0 DEF CountInv
  <2>4. /\ QueueShape' /\ CountInv' /\ txCount' > 0
        /\ txqueue' \in [0 .. TXITEMMAX - 1 -> Item \cup {Blank}]
        /\ txwritepos' \in 0 .. TXITEMMAX - 1
        /\ txreadpos' = txreadpos
        /\ derailed' = derailed
    <3>1. CASE checkRepeatCmd(currenttx) /\ txCount < TXITEMMAX + MaxOver
      <4>1. /\ CountInv'
            /\ txCount' = txCount + 1
            /\ txqueue' \in [0 .. TXITEMMAX - 1 -> Item \cup {Blank}]
            /\ txwritepos' \in 0 .. TXITEMMAX - 1
            /\ txreadpos' = txreadpos
        BY <1>0, <2>1, <2>2, <3>1, PutKeepsTypes
      <4>2. derailed' = derailed
        BY <2>1, <3>1 DEF Put
      <4>3. QueueShape'
        BY <1>0, <2>1, <2>2, <3>1, <4>2, PutKeepsShape DEF QueueShape
      <4>4. QED
        BY <2>3, <4>1, <4>2, <4>3
    \* Refused: full, or waiting already; either way something waits.
    <3>2. CASE ~(checkRepeatCmd(currenttx) /\ txCount < TXITEMMAX + MaxOver)
      <4>1. UNCHANGED queueVars /\ QueueShape' /\ CountInv'
        BY <1>0, <2>1, <3>2, SameQueue
      <4>2. txCount # 0
        BY <2>3, <3>2 DEF checkRepeatCmd
      <4>3. QED
        BY <1>0, <2>3, <4>1, <4>2 DEF queueVars, TypeOK
    <3>3. QED
      BY <3>1, <3>2
  <2>5. /\ pc'["ack"] = "read"
        /\ \A u \in Thread \ {"ack"} : pc'[u] = "idle"
    BY <1>0, <2>1, AloneAtTheStart
  <2>6. OneCallAtATime' /\ WriterInv' /\ PumpInv'
    BY <1>0, <2>4, <2>5, OnlyMover, RfTxAssumption
  <2>7. TypeOK'
    <3>1. txCount' \in -(TXITEMMAX + MaxOverrun + 1) .. TXITEMMAX + MaxOver
      BY <2>4 DEF CountInv
    <3>2. QED
      BY <1>0, <2>1, <2>4, <3>1 DEF TypeOK, lineVars
  <2>8. LineInv'
    BY <1>0, <2>1 DEF LineInv, lineVars
  <2>9. QED
    BY <2>4, <2>6, <2>7, <2>8 DEF SerialInv
\* The RX thread ends the outstanding command: it sends the next or releases the line.
<1>15. ASSUME MayBegin("rx"), NextOrRelease("rx"), UNCHANGED queueVars,
              UNCHANGED <<currenttx, g_isPairMode, pairHolds, sensor_NO_resp, heard, arg>>
       PROVE  SerialInv'
  <2> DEFINE l == IF txCount > 0 THEN "read" ELSE "idle"
  <2>1. /\ pc' = [pc EXCEPT !["rx"] = l]
        /\ uartbusy' = (uartbusy /\ txCount > 0)
    BY <1>15 DEF NextOrRelease, Goto
  <2>2. txCount' = txCount
    BY <1>15 DEF queueVars
  <2>3. l \in {"idle", "read"} /\ (l = "read" => txCount' > 0)
    BY <2>2
  <2> HIDE DEF l
  <2>4. /\ pc'["rx"] = l
        /\ \A u \in Thread \ {"rx"} : pc'[u] = "idle"
    BY <1>0, <1>15, <2>1, AloneAtTheStart
  <2>5. OneCallAtATime' /\ WriterInv' /\ PumpInv'
    BY <1>0, <2>3, <2>4, OnlyMover, RfTxAssumption
  <2>6. QueueShape' /\ CountInv'
    BY <1>0, <1>15, SameQueue
  <2>7. uartbusy' \in BOOLEAN
    BY <1>0, <2>1 DEF TypeOK
  <2>8. TypeOK'
    BY <1>0, <1>15, <2>1, <2>3, <2>7 DEF TypeOK, queueVars
  <2>9. LineInv'
    BY <1>0, <1>15, <2>1 DEF LineInv
  <2>10. QED
    BY <2>5, <2>6, <2>8, <2>9 DEF SerialInv
<1>16. ASSUME NEW t, MayBegin(t)
       PROVE  \A u \in Thread : pc[u] = "idle"
  BY <1>16 DEF MayBegin
<1>17. ASSUME NEW d \in Did, RxAck(d)
       PROVE  SerialInv'
  <2>1. CASE NextOrRelease("rx") /\ UNCHANGED sensor_NO_resp
    BY <1>15, <1>17, <2>1 DEF RxAck
  <2>2. CASE MarkSensor(d, FALSE) /\ UNCHANGED <<pc, uartbusy>>
    <3>1. sensor_NO_resp' \in [Paired -> BOOLEAN]
      BY <1>0, <2>2 DEF TypeOK, MarkSensor
    <3>2. QED
      BY <1>0, <1>16, <1>17, <2>2, <3>1, IdleStep DEF RxAck, TypeOK
  <2>3. QED
    BY <1>17, <2>1, <2>2 DEF RxAck
<1>18. ASSUME RxTemp
       PROVE  SerialInv'
  <2>1. CASE NextOrRelease("rx")
    BY <1>15, <1>18, <2>1 DEF RxTemp
  <2>2. CASE UNCHANGED <<pc, uartbusy>>
    BY <1>0, <1>16, <1>18, <2>2, IdleStep DEF RxTemp, TypeOK
  <2>3. QED
    BY <1>18, <2>1, <2>2 DEF RxTemp
<1>19. ASSUME NEW d \in Paired, RxReport(d)
       PROVE  SerialInv'
  <2>1. sensor_NO_resp' \in [Paired -> BOOLEAN]
    BY <1>0, <1>19 DEF RxReport, TypeOK, MarkSensor
  <2>2. QED
    BY <1>0, <1>16, <1>19, <2>1, IdleStep DEF RxReport, TypeOK, lineVars
<1>20. ASSUME NEW w \in Writer, PairStart(w) \/ PairEnd(w)
       PROVE  SerialInv'
  <2>1. /\ MayBegin(w) /\ UNCHANGED queueVars
        /\ UNCHANGED <<currenttx, sensor_NO_resp, heard, arg>>
        /\ uartbusy' \in BOOLEAN /\ g_isPairMode' \in BOOLEAN /\ pairHolds' \in BOOLEAN
        /\ uartbusy' => g_isPairMode'
    BY <1>0, <1>20 DEF PairStart, PairEnd, TypeOK
  <2>2. \A u \in Thread : pc[u] = "idle"
    BY <1>16, <2>1
  <2>3. CASE UNCHANGED pc
    BY <1>0, <2>1, <2>2, <2>3, IdleStep DEF TypeOK
  <2>4. CASE pc' = [pc EXCEPT ![w] = "clear"]
    <3>1. /\ pc'[w] = "clear"
          /\ \A u \in Thread \ {w} : pc'[u] = "idle"
      BY <1>0, <2>1, <2>4, AloneAtTheStart
    <3>2. OneCallAtATime' /\ WriterInv' /\ PumpInv'
      BY <1>0, <3>1, OnlyMover DEF Pump
    <3>3. QueueShape' /\ CountInv'
      BY <1>0, <2>1, SameQueue
    <3>4. TypeOK'
      BY <1>0, <2>1, <2>4 DEF TypeOK, queueVars
    <3>5. LineInv'
      BY <2>1 DEF LineInv
    <3>6. QED
      BY <3>2, <3>3, <3>4, <3>5 DEF SerialInv
  <2>5. QED
    BY <1>20, <2>3, <2>4 DEF PairStart, PairEnd, PairingPacket, Goto
<1>21. ASSUME NEW right \in BOOLEAN, PairReport(right)
       PROVE  SerialInv'
  BY <1>0, <1>16, <1>21, IdleStep DEF PairReport, TypeOK
<1>23. ASSUME UNCHANGED vars
       PROVE  SerialInv'
  <2>1. UNCHANGED queueVars
    BY <1>23 DEF vars, queueVars
  <2>2. QueueShape' /\ CountInv' /\ (\A c : checkRepeatCmd(c)' <=> checkRepeatCmd(c))
        /\ \A x, c : Holds(x, c)' <=> Holds(x, c)
    BY <1>0, <2>1, SameQueue
  <2>3. TypeOK' /\ OneCallAtATime' /\ LineInv'
    BY <1>0, <1>23 DEF TypeOK, OneCallAtATime, LineInv, vars
  <2>4. WriterInv'
    BY <1>0, <1>23, <2>2 DEF WriterInv, vars, checkRepeatCmd, Holds
  <2>5. PumpInv'
    BY <1>0, <1>23, <2>2 DEF PumpInv, vars, Holds, Cell, EmptiesQueue
  <2>6. QED
    BY <2>2, <2>3, <2>4, <2>5 DEF SerialInv
<1>24. QED
  <2>1. ASSUME NEW w \in Writer, WriterStep(w)
        PROVE  SerialInv'
    BY <1>1, <1>2, <1>3, <1>4, <1>5, <1>20, <2>1 DEF WriterStep
  <2>2. ASSUME NEW t \in Pump, PumpStep(t)
        PROVE  SerialInv'
    BY <1>8, <1>9, <1>10, <1>11, <2>2 DEF PumpStep
  <2>3. ASSUME NEW t \in Thread, CleanStep(t)
        PROVE  SerialInv'
    BY <1>6, <1>7, <2>3 DEF CleanStep
  <2>4. QED
    BY <1>12, <1>13, <1>14, <1>17, <1>18, <1>19, <1>21, <1>23, <2>1, <2>2, <2>3
    DEF Next

(* As long as calls do not overlap, the invariant holds in every state. *)
THEOREM SerialInvariant == ~Overlap => (Spec => []SerialInv)
<1> SUFFICES ASSUME ~Overlap PROVE Spec => []SerialInv
  OBVIOUS
<1>1. Init => SerialInv
  BY InitSerialInv
<1>2. SerialInv /\ [Next]_vars => SerialInv'
  BY SerialStep
<1>3. QED
  BY <1>1, <1>2, PTL DEF Spec

(* Every variable keeps its type when calls do not overlap.  The bounds on the *)
(* count and on the read position are the model's, wider than the array:       *)
(* that neither leaves the array is SerialQueueShape's, and holds only in step.*)
THEOREM SerialTypeOK == ~Overlap => (Spec => []TypeOK)
<1> SUFFICES ASSUME ~Overlap PROVE Spec => []TypeOK
  OBVIOUS
<1>1. SerialInv => TypeOK
  BY DEF SerialInv
<1>2. QED
  BY <1>1, SerialInvariant, PTL

(* The circular buffer of PutTxBuffer, insertToQueue and writeNextOnQueue stays *)
(* well formed, for every queue size, as long as calls do not overlap and       *)
(* writeNextOnQueue has not sent a command that empties the queue; after such a *)
(* command it is well formed again from the next emptying on.                   *)
THEOREM SerialQueueShape == ~Overlap => (Spec => []QueueShape)
<1> SUFFICES ASSUME ~Overlap PROVE Spec => []QueueShape
  OBVIOUS
<1>1. SerialInv => QueueShape
  BY DEF SerialInv
<1>2. QED
  BY <1>1, SerialInvariant, PTL

(* An acknowledgement, a timeout or a melody never releases the line while *)
(* commands wait: without pairing, none is stranded.                       *)
THEOREM SerialOnlyPairingStrands == ~Overlap => (Spec => OnlyPairingStrandsCommands)
<1> SUFFICES ASSUME ~Overlap PROVE Spec => OnlyPairingStrandsCommands
  OBVIOUS
<1>1. ASSUME SerialInv, [Next]_vars
      PROVE  [(~uartbusy' /\ txCount' > 0) => ~uartbusy \/ g_isPairMode]_vars
  <2> SUFFICES ASSUME Next, ~uartbusy', txCount' > 0, uartbusy, ~g_isPairMode
               PROVE  FALSE
    BY <1>1
  <2>1. WriterInv /\ PumpInv
    BY <1>1 DEF SerialInv
  <2>2. ASSUME NEW w \in Writer, WriterStep(w) PROVE FALSE
    <3>1. ASSUME PairStart(w) \/ PairEnd(w) PROVE FALSE
      BY <3>1 DEF PairStart, PairEnd
    <3>2. ASSUME NEW c, WriteCommand(w, c) PROVE FALSE
      BY <3>2 DEF WriteCommand, lineVars
    <3>3. ASSUME Enqueue(w) \/ Send(w) \/ Melody(w) PROVE FALSE
      BY <3>3 DEF Enqueue, Send, Melody, lineVars
    <3>4. ASSUME Claim(w) PROVE FALSE
      BY <3>4 DEF Claim
    <3>5. QED
      BY <2>2, <3>1, <3>2, <3>3, <3>4 DEF WriterStep
  <2>3. ASSUME NEW t \in Pump, PumpStep(t) PROVE FALSE
    BY <2>3 DEF PumpStep, ReadNext, SkipBlank, WriteNext, PopNext, queueVars, lineVars
  <2>4. ASSUME AckRetry \/ AckGiveUp \/ Requeue PROVE FALSE
    <3>1. ASSUME AckGiveUp PROVE FALSE
      <4>1. txCount' = txCount /\ uartbusy' = (txCount # 0)
        BY <3>1 DEF AckGiveUp, queueVars
      <4>2. txCount # 0
        BY <4>1
      <4>3. QED
        BY <4>1, <4>2
    <3>2. ASSUME AckRetry \/ Requeue PROVE FALSE
      BY <3>2 DEF AckRetry, Requeue, lineVars
    <3>3. QED
      BY <2>4, <3>1, <3>2
  <2>5. ASSUME NEW d \in Did, RxAck(d) PROVE FALSE
    BY <2>5 DEF RxAck, NextOrRelease, queueVars
  <2>6. ASSUME RxTemp PROVE FALSE
    BY <2>6 DEF RxTemp, NextOrRelease, queueVars
  <2>7. ASSUME NEW d \in Paired, RxReport(d) PROVE FALSE
    BY <2>7 DEF RxReport, lineVars
  <2>8. ASSUME NEW right \in BOOLEAN, PairReport(right) PROVE FALSE
    BY <2>8 DEF PairReport
  \* Whoever frees the line behind a packet that emptied the queue finds it empty.
  <2>9. ASSUME NEW t \in Thread, CleanStep(t) PROVE FALSE
    <3>1. ASSUME CleanQueue(t) PROVE FALSE
      BY <3>1 DEF CleanQueue
    <3>2. ASSUME CleanEnd(t) PROVE FALSE
      <4>1. pc[t] = "free" /\ txCount' = txCount
        BY <3>2 DEF CleanEnd, queueVars
      <4>2. txCount = 0
        BY <2>1, <4>1 DEF Thread, WriterInv, PumpInv
      <4>3. QED
        BY <4>1, <4>2
    <3>3. QED
      BY <2>9, <3>1, <3>2 DEF CleanStep
  <2>10. QED
    BY <2>2, <2>3, <2>4, <2>5, <2>6, <2>7, <2>8, <2>9 DEF Next
<1>2. QED
  BY <1>1, SerialInvariant, PTL DEF Spec, OnlyPairingStrandsCommands

-----------------------------------------------------------------------------
(***************************************************************************)
(* The queue implements CommandChannel, step by step.                       *)
(***************************************************************************)

\* Line, the refinement mapping, is a sequence of commands, one per counted cell,
\* in queue order.
LineShape ==
  /\ Line \in Seq(Command)
  /\ Len(Line) = txCount
  /\ \A i \in 1 .. txCount : /\ Cell(i - 1) \in 0 .. TXITEMMAX - 1
                             /\ txqueue[Cell(i - 1)] \in Item
                             /\ Line[i] = AsCommand(txqueue[Cell(i - 1)])

(* In a well-formed buffer the mapping is a sequence of commands. *)
LEMMA LineOK == TypeOK /\ Shape => LineShape
<1> SUFFICES ASSUME TypeOK, Shape
             PROVE  LineShape
  OBVIOUS
<1> USE RfTxAssumption
<1>1. txCount \in Nat /\ txreadpos \in 0 .. TXITEMMAX - 1 /\ txCount \in 0 .. TXITEMMAX
  BY DEF TypeOK, Shape
<1>2. ASSUME NEW i \in 1 .. txCount
      PROVE  /\ Cell(i - 1) \in 0 .. TXITEMMAX - 1
             /\ txqueue[Cell(i - 1)] \in Item
  <2>1. i - 1 \in 0 .. txCount - 1 /\ Cell(i - 1) \in 0 .. TXITEMMAX - 1
    BY <1>1 DEF Cell, Wrap
  <2>2. txqueue[Cell(i - 1)] # Blank
    BY <2>1 DEF Shape
  <2> QED
    BY <2>1, <2>2 DEF TypeOK
<1>3. \A i \in 1 .. txCount : AsCommand(txqueue[Cell(i - 1)]) \in Command
  BY <1>2 DEF AsCommand, Item, Command
<1>4. Line \in [1 .. txCount -> Command]
  BY <1>3 DEF Line
<1>5. Line \in Seq(Command)
  BY <1>1, <1>4, SeqDef
<1>6. Len(Line) = txCount
  BY <1>1, <1>4, <1>5, LenProperties
<1> QED
  BY <1>2, <1>5, <1>6 DEF Line, LineShape

(* The mapping depends on the buffer alone. *)
LEMMA LineSame == UNCHANGED queueVars => Line' = Line
<1>1. UNCHANGED queueVars => \A i : Cell(i)' = Cell(i)
  BY DEF queueVars, Cell
<1> QED
  BY <1>1 DEF queueVars, Line

(* A count of zero is the empty line (PutTxBuffer clears the count alone). *)
LEMMA LineEmpty == txCount = 0 => Line = <<>>
BY DEF Line

(* Storing a command at the write position appends it to the line. *)
LEMMA LineAppend ==
  ASSUME TypeOK, Shape, TypeOK', Shape', NEW item \in Item,
         checkRepeatCmd(item), Put(item)
  PROVE  Line' = Append(Line, AsCommand(item))
<1> USE RfTxAssumption
<1>1. /\ txreadpos \in 0 .. TXITEMMAX - 1 /\ txCount \in 0 .. TXITEMMAX - 1
      /\ txwritepos = Wrap(txreadpos + txCount) /\ txwritepos \in 0 .. TXITEMMAX - 1
      /\ txCount' = txCount + 1 /\ txreadpos' = txreadpos
      /\ txqueue' = [txqueue EXCEPT ![txwritepos] = item]
  BY DEF TypeOK, Shape, checkRepeatCmd, Put
<1>2. /\ Line \in Seq(Command) /\ Len(Line) = txCount
      /\ \A i \in 1 .. txCount : Line[i] = AsCommand(txqueue[Cell(i - 1)])
  BY LineOK DEF LineShape
<1>3. /\ Line' \in Seq(Command) /\ Len(Line') = txCount + 1
      /\ \A i \in 1 .. txCount + 1 : Line'[i] = AsCommand(txqueue'[Cell(i - 1)'])
  <2>1. \A i : Cell(i)' = Wrap(txreadpos' + i)
    BY DEF Cell, Wrap
  <2>2. Line' = [i \in 1 .. txCount' |-> AsCommand(txqueue'[Cell(i - 1)'])]
    BY DEF Line, AsCommand
  <2>3. Line' \in Seq(Command) /\ Len(Line') = txCount'
    <3>1. LineShape'
      BY LineOK, PTL
    <3> QED
      BY <3>1 DEF LineShape
  <2> QED
    BY <1>1, <2>2, <2>3
<1>4. ASSUME NEW i \in 1 .. txCount
      PROVE  Line'[i] = Line[i]
  <2>1. /\ Cell(i - 1)' = Cell(i - 1)
        /\ Cell(i - 1) # txwritepos
        /\ Cell(i - 1) \in 0 .. TXITEMMAX - 1
    <3>1. \A x \in 0 .. txCount - 1 : /\ Cell(x)' = Cell(x)
                                      /\ Cell(x) # txwritepos
                                      /\ Cell(x) \in 0 .. TXITEMMAX - 1
      BY <1>1 DEF Cell, Wrap
    <3>2. i - 1 \in 0 .. txCount - 1
      BY <1>1
    <3> QED
      BY <3>1, <3>2
  <2>2. txqueue'[Cell(i - 1)] = txqueue[Cell(i - 1)]
    BY <1>1, <2>1 DEF TypeOK
  <2>3. i \in 1 .. txCount + 1
    BY <1>1
  <2>4. Line'[i] = AsCommand(txqueue'[Cell(i - 1)'])
    BY <1>3, <2>3
  <2>5. txqueue'[Cell(i - 1)'] = txqueue[Cell(i - 1)]
    BY <2>1, <2>2
  <2> QED
    BY <1>2, <2>4, <2>5
<1>5. Line'[txCount + 1] = AsCommand(item)
  <2>1. \A i \in Nat : i = txCount + 1 => Cell(i - 1)' = txwritepos
    BY <1>1 DEF Cell, Wrap
  <2>2. txqueue'[txwritepos] = item
    BY <1>1 DEF TypeOK
  <2>3. txCount + 1 \in 1 .. txCount + 1
    BY <1>1
  <2> QED
    BY <1>3, <2>1, <2>2, <2>3
<1>6. AsCommand(item) \in Command
  BY DEF AsCommand, Item, Command
<1>7. /\ Append(Line, AsCommand(item)) \in Seq(Command)
      /\ Len(Append(Line, AsCommand(item))) = txCount + 1
      /\ \A i \in 1 .. txCount : Append(Line, AsCommand(item))[i] = Line[i]
      /\ Append(Line, AsCommand(item))[txCount + 1] = AsCommand(item)
  BY <1>1, <1>2, <1>6, AppendProperties
<1>8. \A i \in 1 .. Len(Line') : Line'[i] = Append(Line, AsCommand(item))[i]
  BY <1>1, <1>3, <1>4, <1>5, <1>7
<1> QED
  BY <1>3, <1>7, <1>8, SeqEqual

(* Counting out the cell at the read position drops the head of the line. *)
LEMMA LineTail ==
  ASSUME TypeOK, Shape, TypeOK', Shape', txCount > 0, NEW t, PopNext(t)
  PROVE  Line' = Tail(Line)
<1> USE RfTxAssumption
<1>1. /\ txreadpos \in 0 .. TXITEMMAX - 1 /\ txCount \in 1 .. TXITEMMAX
      /\ txCount' = txCount - 1 /\ txreadpos' = Wrap(txreadpos + 1)
      /\ txqueue' = txqueue
  BY DEF TypeOK, Shape, PopNext, Wrap
<1>2. /\ Line \in Seq(Command) /\ Len(Line) = txCount
      /\ \A i \in 1 .. txCount : Line[i] = AsCommand(txqueue[Cell(i - 1)])
  BY LineOK DEF LineShape
<1>3. /\ Line' \in Seq(Command) /\ Len(Line') = txCount - 1
      /\ \A i \in 1 .. txCount - 1 : Line'[i] = AsCommand(txqueue'[Cell(i - 1)'])
  <2>2. Line' = [i \in 1 .. txCount' |-> AsCommand(txqueue'[Cell(i - 1)'])]
    BY DEF Line, AsCommand
  <2>3. Line' \in Seq(Command) /\ Len(Line') = txCount'
    <3>1. LineShape'
      BY LineOK, PTL
    <3> QED
      BY <3>1 DEF LineShape
  <2> QED
    BY <1>1, <2>2, <2>3
<1>4. Line # <<>>
  BY <1>1, <1>2, EmptySeq
<1>5. /\ Tail(Line) \in Seq(Command) /\ Len(Tail(Line)) = txCount - 1
      /\ \A i \in 1 .. txCount - 1 : Tail(Line)[i] = Line[i + 1]
  BY <1>2, <1>4, HeadTailProperties
<1>6. ASSUME NEW i \in 1 .. txCount - 1
      PROVE  Line'[i] = Tail(Line)[i]
  <2>1. Cell(i - 1)' = Cell(i)
    BY <1>1 DEF Cell, Wrap
  <2>2. Tail(Line)[i] = AsCommand(txqueue[Cell(i)])
    <3>1. i + 1 \in 1 .. txCount /\ (i + 1) - 1 = i
      BY <1>1
    <3>2. Line[i + 1] = AsCommand(txqueue[Cell((i + 1) - 1)])
      BY <1>2, <3>1
    <3> QED
      BY <1>5, <3>1, <3>2
  <2> QED
    BY <1>1, <1>3, <2>1, <2>2
<1> QED
  BY <1>3, <1>5, <1>6, SeqEqual

(* The head of the line is the command in the cell at the read position. *)
LEMMA LineHead ==
  ASSUME TypeOK, Shape, txCount > 0
  PROVE  Line # <<>> /\ Head(Line) = AsCommand(txqueue[txreadpos])
<1>1. /\ Line \in Seq(Command) /\ Len(Line) = txCount
      /\ \A i \in 1 .. txCount : Line[i] = AsCommand(txqueue[Cell(i - 1)])
  BY LineOK DEF LineShape
<1>2. txCount \in Nat
  BY RfTxAssumption DEF Shape
<1>3. Line # <<>> /\ Head(Line) = Line[1]
  BY <1>1, <1>2, EmptySeq
<1>4. 1 \in 1 .. txCount /\ 1 - 1 = 0
  BY <1>2
<1> QED
  BY <1>1, <1>3, <1>4, OldestCellIsACommand

(* What checkRepeatCmd lets through finds room, and does not wait already. *)
LEMMA LineNew ==
  ASSUME TypeOK, Shape, NEW c, checkRepeatCmd(c)
  PROVE  /\ Len(Line) < TXITEMMAX
         /\ \A i \in 1 .. Len(Line) : Line[i] # [did |-> c.did, cmd |-> c.cmd]
<1> USE RfTxAssumption
<1>1. /\ Line \in Seq(Command) /\ Len(Line) = txCount
      /\ \A i \in 1 .. txCount : Line[i] = AsCommand(txqueue[Cell(i - 1)])
      /\ \A i \in 1 .. txCount : Cell(i - 1) \in 0 .. TXITEMMAX - 1 /\ txqueue[Cell(i - 1)] \in Item
  BY LineOK DEF LineShape
<1>2. txCount \in Nat /\ txCount < TXITEMMAX
  BY DEF Shape, checkRepeatCmd
<1>3. ASSUME NEW i \in 1 .. txCount
      PROVE  Line[i] # [did |-> c.did, cmd |-> c.cmd]
  <2>1. i - 1 \in 0 .. txCount - 1
    BY <1>2
  <2>2. ~Holds(i - 1, c)
    BY <2>1 DEF checkRepeatCmd
  <2>3. txqueue[Cell(i - 1)] # Blank /\ Cell(i - 1) \in DOMAIN txqueue
    BY <1>1 DEF TypeOK
  <2>4. Line[i] = [did |-> txqueue[Cell(i - 1)].did, cmd |-> txqueue[Cell(i - 1)].cmd]
    BY <1>1, <2>3 DEF AsCommand
  <2> QED
    BY <2>2, <2>3, <2>4 DEF Holds
<1> QED
  BY <1>1, <1>2, <1>3

\* The abstract variables, and a step of the abstract specification.
Waits == IF derailed THEN <<>> ELSE IF Taken THEN Tail(Line) ELSE Line
OnAir == AsCommand(currenttx)

ChannelStep == [Channel!ChannelNext]_(Channel!channelVars)

(* The ways in which a step may move the abstract variables. *)
LEMMA ChannelSteps ==
  /\ \A c \in Command :
       /\ ~derailed /\ ~derailed'
       /\ Len(Waits) < TXITEMMAX
       /\ \A i \in 1 .. Len(Waits) : Waits[i] # c
       /\ Waits' = Append(Waits, c)
       /\ OnAir' = OnAir
       => ChannelStep
  /\ \A c \in Command : OnAir' = c /\ Waits' = Waits /\ (derailed' <=> derailed) => ChannelStep
  /\ /\ Waits # <<>> /\ OnAir' = Head(Waits)
     /\ derailed' <=> Head(Waits) \in {c \in Command : EmptiesQueue(c)}
     /\ Waits' = IF ~derailed' THEN Tail(Waits) ELSE <<>>
     => ChannelStep
  /\ Waits' = <<>> /\ ~derailed' /\ OnAir' = OnAir => ChannelStep
  /\ Waits' = Waits /\ OnAir' = OnAir /\ (derailed' <=> derailed) => ChannelStep
<1>1. ASSUME NEW c \in Command, ~derailed, ~derailed', Len(Waits) < TXITEMMAX,
             \A i \in 1 .. Len(Waits) : Waits[i] # c,
             Waits' = Append(Waits, c), OnAir' = OnAir
      PROVE  ChannelStep
  BY <1>1 DEF ChannelStep, Channel!ChannelNext, Channel!channelVars, Channel!Accept, Waits, OnAir
<1>2. ASSUME NEW c \in Command, OnAir' = c, Waits' = Waits, derailed' <=> derailed
      PROVE  ChannelStep
  BY <1>2 DEF ChannelStep, Channel!ChannelNext, Channel!channelVars, Channel!SendDirectly,
     Waits, OnAir
<1>3. ASSUME Waits # <<>>, OnAir' = Head(Waits),
             derailed' <=> Head(Waits) \in {c \in Command : EmptiesQueue(c)},
             Waits' = IF ~derailed' THEN Tail(Waits) ELSE <<>>
      PROVE  ChannelStep
  BY <1>3 DEF ChannelStep, Channel!ChannelNext, Channel!channelVars, Channel!SendOldest,
     Waits, OnAir
<1>4. ASSUME Waits' = <<>>, ~derailed', OnAir' = OnAir
      PROVE  ChannelStep
  BY <1>4 DEF ChannelStep, Channel!ChannelNext, Channel!channelVars, Channel!Purge, Waits, OnAir
<1>5. ASSUME Waits' = Waits, OnAir' = OnAir, derailed' <=> derailed
      PROVE  ChannelStep
  BY <1>5 DEF ChannelStep, Channel!channelVars, Waits, OnAir
<1>6. QED
  BY <1>1, <1>2, <1>3, <1>4, <1>5

(* Without overlap, whether a command has been taken but not counted out is the *)
(* business of the thread that moves.                                          *)
LEMMA TakenByMover ==
  ASSUME ~Overlap, SerialInv, NEW t \in Thread, NEW l,
         pc' = [pc EXCEPT ![t] = l], MayBegin(t) \/ pc[t] # "idle"
  PROVE  /\ Taken <=> t \in Pump /\ pc[t] \in {"write", "pop"}
         /\ Taken' <=> t \in Pump /\ l \in {"write", "pop"}
<1>1. /\ \A u \in Thread \ {t} : pc[u] = "idle" /\ pc'[u] = "idle"
      /\ pc'[t] = l
  BY AloneAtTheStart
<1>2. Pump \subseteq Thread
  BY DEF Thread
<1> QED
  BY <1>1, <1>2 DEF Taken

(* Counting a retry does not change the command that is on the air. *)
LEMMA CommandKept ==
  ASSUME currenttx \in Item, currenttx' = [currenttx EXCEPT !.errCount = errCountNext]
  PROVE  OnAir' = OnAir
<1> USE RfTxAssumption
<1>1. errCountNext \in 0 .. ALIVE_SENSOR_RETRY + 1
  BY DEF Item, errCountNext
<1>2. currenttx' \in Item /\ currenttx'.did = currenttx.did /\ currenttx'.cmd = currenttx.cmd
  BY <1>1 DEF Item
<1>3. currenttx # Blank /\ currenttx' # Blank
  BY <1>2
<1> QED
  BY <1>2, <1>3 DEF OnAir, AsCommand

(* A step that leaves the air alone is a stutter of the channel when it leaves *)
(* the buffer alone, and also when buffer and air are out of step.             *)
LEMMA QuietForChannel ==
  ASSUME OnAir' = OnAir,
         \/ UNCHANGED queueVars /\ (derailed \/ (Taken' <=> Taken))
         \/ derailed /\ derailed'
  PROVE  ChannelStep
<1>1. Waits' = Waits /\ (derailed' <=> derailed)
  <2>1. CASE UNCHANGED queueVars /\ (derailed \/ (Taken' <=> Taken))
    BY <2>1, LineSame DEF Waits, queueVars
  <2>2. CASE derailed /\ derailed'
    BY <2>2 DEF Waits
  <2>3. QED
    BY <2>1, <2>2
<1> QED
  BY <1>1, ChannelSteps

(* Every step of the transmit path maps to a step of the channel or a stutter. *)
LEMMA ChannelNextStep ==
  ASSUME ~Overlap, SerialInv, SerialInv', [Next]_vars
  PROVE  ChannelStep
<1>a. /\ TypeOK /\ TypeOK' /\ WriterInv /\ PumpInv /\ LineInv
      /\ ~derailed => Shape
      /\ ~derailed' => Shape'
      /\ Writer \subseteq Thread /\ Pump \subseteq Thread /\ Writer \cap Pump = {}
      /\ "ack" \in Pump /\ "rx" \in Pump
  BY RfTxAssumption DEF SerialInv, QueueShape, Thread, Pump
<1>1. ASSUME NEW w \in Writer, NEW c \in Command, WriteCommand(w, c)
      PROVE  ChannelStep
  <2>1. PICK l \in {"enqueue", "claim"} : pc' = [pc EXCEPT ![w] = l]
    BY <1>1 DEF WriteCommand, Goto
  <2>2. Taken' <=> Taken
    BY <1>a, <1>1, <2>1, TakenByMover DEF WriteCommand
  <2> QED
    BY <1>1, <2>2, QuietForChannel DEF WriteCommand, lineVars, OnAir
<1>2. ASSUME NEW w \in Writer, Enqueue(w)
      PROVE  ChannelStep
  <2> DEFINE item == [did |-> arg[w].did, cmd |-> arg[w].cmd, errCount |-> 0]
  <2>1. /\ pc[w] = "enqueue" /\ Put(item) /\ UNCHANGED lineVars
        /\ pc' = [pc EXCEPT ![w] = "idle"]
    BY <1>2 DEF Enqueue, Return, Goto
  <2>2. arg[w] \in Command /\ checkRepeatCmd(arg[w])
    BY <1>a, <2>1 DEF WriterInv
  <2>3. item \in Item /\ checkRepeatCmd(item) /\ AsCommand(item) = arg[w]
    BY <2>2, RfTxAssumption DEF Item, Command, checkRepeatCmd, Holds, AsCommand
  <2>4. ~Taken /\ ~Taken'
    BY <1>a, <2>1, TakenByMover
  <2>5. arg[w] = [did |-> arg[w].did, cmd |-> arg[w].cmd]
    BY <2>2 DEF Command
  <2> HIDE DEF item
  <2>6. OnAir' = OnAir /\ derailed' = derailed
    BY <2>1 DEF lineVars, OnAir, Put
  <2>7. CASE derailed
    BY <2>6, <2>7, QuietForChannel
  <2>8. CASE ~derailed
    <3>1. Line' = Append(Line, arg[w])
      BY <1>a, <2>1, <2>3, <2>6, <2>8, LineAppend
    <3>2. Len(Line) < TXITEMMAX /\ \A i \in 1 .. Len(Line) : Line[i] # arg[w]
      BY <1>a, <2>2, <2>5, <2>8, LineNew
    <3>3. Waits = Line /\ Waits' = Line'
      BY <2>4, <2>6, <2>8 DEF Waits
    <3>4. QED
      BY <2>2, <2>6, <2>8, <3>1, <3>2, <3>3, ChannelSteps
  <2> QED
    BY <2>7, <2>8
<1>3. ASSUME NEW w \in Writer, Claim(w)
      PROVE  ChannelStep
  <2>1. /\ pc[w] = "claim" /\ UNCHANGED queueVars
        /\ pc' = [pc EXCEPT ![w] = "send"]
        /\ currenttx' = [did |-> arg[w].did, cmd |-> arg[w].cmd, errCount |-> 0]
    BY <1>3 DEF Claim, Goto
  <2>2. arg[w] \in Command
    BY <1>a, <2>1 DEF WriterInv
  <2>3. OnAir' = arg[w]
    <3>1. currenttx' \in Item
      BY <2>1, <2>2, RfTxAssumption DEF Item, Command
    <3>2. currenttx' # Blank
      BY <3>1, RfTxAssumption
    <3> QED
      BY <2>1, <2>2, <3>2 DEF OnAir, AsCommand, Command
  <2>4. Taken' <=> Taken
    BY <1>a, <2>1, TakenByMover
  <2>5. Waits' = Waits /\ (derailed' <=> derailed)
    BY <2>1, <2>4, LineSame DEF Waits, queueVars
  <2> QED
    BY <2>2, <2>3, <2>5, ChannelSteps
<1>4. ASSUME NEW w \in Writer, Send(w)
      PROVE  ChannelStep
  <2>1. PICK l \in {"clear", "idle"} : pc' = [pc EXCEPT ![w] = l]
    BY <1>4 DEF Send, Return, Goto
  <2>2. Taken' <=> Taken
    BY <1>a, <1>4, <2>1, TakenByMover DEF Send
  <2> QED
    BY <1>4, <2>2, QuietForChannel DEF Send, lineVars, OnAir
<1>5. ASSUME NEW w \in Writer, Melody(w)
      PROVE  ChannelStep
  <2>1. Taken' <=> Taken
    BY <1>a, <1>5, TakenByMover DEF Melody, Goto
  <2> QED
    BY <1>5, <2>1, QuietForChannel DEF Melody, lineVars, OnAir
\* A melody or a command sent directly empties the line; a command sent from the
\* queue has emptied it already.
<1>6. ASSUME NEW t \in Thread, CleanQueue(t)
      PROVE  ChannelStep
  <2>1. /\ pc[t] = "clear" /\ pc' = [pc EXCEPT ![t] = "free"]
        /\ txCount' = 0 /\ derailed' = (t \in Pump) /\ OnAir' = OnAir
    BY <1>6 DEF CleanQueue, Goto, lineVars, OnAir
  <2>2. CASE t \in Pump
    BY <1>a, <2>1, <2>2, QuietForChannel DEF PumpInv
  <2>3. CASE t \notin Pump
    <3>1. ~Taken'
      <4>1. pc[t] = "clear" /\ pc' = [pc EXCEPT ![t] = "free"]
        BY <2>1
      <4>2. QED
        BY <2>3, <4>1, TakenByMover
    <3>2. Line' = <<>>
      BY <2>1, LineEmpty DEF Line
    <3>3. Waits' = <<>> /\ ~derailed'
      BY <2>1, <2>3, <3>1, <3>2 DEF Waits
    <3>4. QED
      BY <2>1, <3>3, ChannelSteps
  <2> QED
    BY <2>2, <2>3
<1>7. ASSUME NEW t \in Thread, CleanEnd(t)
      PROVE  ChannelStep
  <2>1. pc[t] = "free" /\ UNCHANGED queueVars /\ OnAir' = OnAir
    BY <1>7 DEF CleanEnd, OnAir
  <2>2. CASE t \in Pump
    BY <1>a, <2>1, <2>2, QuietForChannel DEF PumpInv
  <2>3. CASE t \notin Pump
    <3>1. pc' = [pc EXCEPT ![t] = "idle"]
      BY <1>7, <2>3 DEF CleanEnd, Return, Goto
    <3>2. Taken' <=> Taken
      BY <1>a, <2>1, <2>3, <3>1, TakenByMover
    <3>3. QED
      BY <2>1, <3>2, QuietForChannel
  <2> QED
    BY <2>2, <2>3
<1>8. ASSUME NEW t \in Pump, ReadNext(t)
      PROVE  ChannelStep
  <2>1. PICK item \in NextCell \ {Blank} :
          /\ currenttx' = item
          /\ arg' = [arg EXCEPT ![t] = [did |-> item.did, cmd |-> item.cmd]]
          /\ derailed' = (derailed \/ EmptiesQueue(item))
    BY <1>8 DEF ReadNext
  <2>2. /\ pc[t] = "read" /\ pc' = [pc EXCEPT ![t] = "write"]
        /\ UNCHANGED <<txqueue, txreadpos, txwritepos, txCount>>
    BY <1>8 DEF ReadNext, Goto
  <2>3. txCount > 0
    BY <1>a, <2>2 DEF PumpInv
  <2>4. OnAir' = [did |-> item.did, cmd |-> item.cmd]
    BY <2>1 DEF OnAir, AsCommand
  <2>5. CASE derailed
    <3>1. item.did \in Did /\ item.cmd \in Cmd
      <4>1. CASE txreadpos < TXITEMMAX
        BY <1>a, <2>1, <4>1, RfTxAssumption DEF NextCell, TypeOK, Item
      <4>2. CASE ~(txreadpos < TXITEMMAX)
        BY <2>1, <4>2 DEF NextCell
      <4>3. QED
        BY <4>1, <4>2
    <3>2. OnAir' \in Command
      BY <2>4, <3>1 DEF Command
    <3>3. Waits' = Waits /\ (derailed' <=> derailed)
      BY <2>1, <2>5 DEF Waits
    <3>4. QED
      BY <3>2, <3>3, ChannelSteps
  <2>6. CASE ~derailed
    <3>1. item = txqueue[txreadpos] /\ item \in Item
      BY <1>a, <2>1, <2>3, <2>6, OldestCellIsACommand
    <3>2. Line # <<>> /\ OnAir' = Head(Line) /\ Head(Line) \in Command
      BY <1>a, <2>1, <2>3, <2>4, <2>6, <3>1, LineHead DEF OnAir, AsCommand, Item, Command
    <3>3. derailed' <=> EmptiesQueue(Head(Line))
      <4>1. derailed' <=> EmptiesQueue(item)
        BY <2>1, <2>6
      <4>2. Head(Line).did = item.did
        BY <2>4, <3>2
      <4>3. QED
        BY <4>1, <4>2 DEF EmptiesQueue
    <3>4. ~Taken /\ Taken'
      BY <1>a, <2>2, TakenByMover
    <3>5. Line' = Line
      <4>1. \A i : Cell(i)' = Cell(i)
        BY <2>2 DEF Cell
      <4>2. QED
        BY <2>2, <4>1 DEF Line
    <3>6. Waits = Line /\ Waits' = IF ~derailed' THEN Tail(Line) ELSE <<>>
      BY <2>6, <3>4, <3>5 DEF Waits
    <3>7. derailed' <=> Head(Waits) \in {c \in Command : EmptiesQueue(c)}
      BY <3>2, <3>3, <3>6
    <3>8. QED
      BY <3>2, <3>6, <3>7, ChannelSteps
  <2> QED
    BY <2>5, <2>6
\* Only out of step does a call meet a blank cell.
<1>9. ASSUME NEW t \in Pump, SkipBlank(t)
      PROVE  ChannelStep
  <2>1. pc[t] = "read" /\ Blank \in NextCell /\ derailed' = derailed /\ OnAir' = OnAir
    BY <1>9 DEF SkipBlank, lineVars, OnAir
  <2>2. txCount > 0
    BY <1>a, <2>1 DEF PumpInv
  <2>3. derailed
    BY <1>a, <2>1, <2>2, OldestCellIsACommand, RfTxAssumption
  <2> QED
    BY <2>1, <2>3, QuietForChannel
<1>10. ASSUME NEW t \in Pump, WriteNext(t)
      PROVE  ChannelStep
  <2>1. /\ pc[t] = "write" /\ UNCHANGED queueVars /\ OnAir' = OnAir
    BY <1>10 DEF WriteNext, lineVars, OnAir
  <2>2. CASE derailed
    BY <2>1, <2>2, QuietForChannel
  <2>3. CASE ~derailed
    <3>1. pc' = [pc EXCEPT ![t] = "pop"]
      BY <1>a, <1>10, <2>1, <2>3 DEF WriteNext, Goto, PumpInv
    <3>2. Taken' <=> Taken
      BY <1>a, <2>1, <3>1, TakenByMover
    <3>3. QED
      BY <2>1, <3>2, QuietForChannel
  <2> QED
    BY <2>2, <2>3
<1>11. ASSUME NEW t \in Pump, PopNext(t)
      PROVE  ChannelStep
  <2>1. pc[t] = "pop" /\ pc' = [pc EXCEPT ![t] = "idle"] /\ t \in Thread
    BY <1>11 DEF PopNext, Return, Goto, Thread
  <2>2. derailed' = derailed /\ OnAir' = OnAir
    BY <1>11 DEF PopNext, OnAir
  <2>3. CASE derailed
    BY <2>2, <2>3, QuietForChannel
  <2>4. CASE ~derailed
    <3>1. txCount > 0
      BY <1>a, <2>1, <2>4 DEF PumpInv
    <3>2. Taken /\ ~Taken'
      <4> DEFINE l == "idle"
      <4>1. pc' = [pc EXCEPT ![t] = l] /\ (MayBegin(t) \/ pc[t] # "idle")
        BY <2>1
      <4>2. (Taken <=> t \in Pump /\ pc[t] \in {"write", "pop"})
            /\ (Taken' <=> t \in Pump /\ l \in {"write", "pop"})
        <5> HIDE DEF l
        <5> QED
          BY <1>a, <2>1, <4>1, TakenByMover
      <4> QED
        BY <2>1, <4>2
    <3>3. Line' = Tail(Line)
      BY <1>a, <1>11, <2>2, <2>4, <3>1, LineTail
    <3>4. Waits' = Waits
      BY <2>2, <2>4, <3>2, <3>3 DEF Waits
    <3>5. QED
      BY <2>2, <3>4, ChannelSteps
  <2> QED
    BY <2>3, <2>4
<1>12. ASSUME AckRetry \/ AckGiveUp
       PROVE  ChannelStep
  <2>1. /\ MayBegin("ack") /\ uartbusy /\ ~g_isPairMode /\ UNCHANGED queueVars
        /\ currenttx' = [currenttx EXCEPT !.errCount = errCountNext]
    BY <1>12 DEF AckRetry, AckGiveUp
  <2>2. OnAir' = OnAir
    BY <1>a, <2>1, CommandKept DEF LineInv
  <2>3. PICK l \in {"idle", "read", "requeue"} : pc' = [pc EXCEPT !["ack"] = l]
    BY <1>12 DEF AckRetry, AckGiveUp, Goto
  <2>4. Taken' <=> Taken
    BY <1>a, <2>1, <2>3, TakenByMover DEF MayBegin
  <2> QED
    BY <2>1, <2>2, <2>4, QuietForChannel
<1>13. ASSUME Requeue
       PROVE  ChannelStep
  <2>1. /\ pc["ack"] = "requeue" /\ pc' = [pc EXCEPT !["ack"] = "read"]
        /\ UNCHANGED lineVars
    BY <1>13 DEF Requeue, Goto
  <2>2. ~Taken /\ ~Taken' /\ OnAir' = OnAir
    <3>1. "ack" \in Thread
      BY DEF Thread, Pump
    <3>2. ~Taken /\ ~Taken'
      <4> DEFINE t == "ack"
                 l == "read"
      <4>1. /\ t \in Thread /\ pc' = [pc EXCEPT ![t] = l] /\ pc[t] # "idle"
            /\ pc[t] \notin {"write", "pop"} /\ l \notin {"write", "pop"}
        BY <2>1, <3>1
      <4> HIDE DEF t, l
      <4> QED
        BY <1>a, <4>1, TakenByMover
    <3>3. OnAir' = OnAir
      BY <2>1 DEF lineVars, OnAir
    <3> QED
      BY <3>2, <3>3
  <2>3. CASE UNCHANGED queueVars
    BY <2>2, <2>3, QuietForChannel
  <2>4. CASE checkRepeatCmd(currenttx) /\ Put(currenttx)
    <3>1. derailed' = derailed
      BY <2>4 DEF Put
    <3>2. CASE derailed
      BY <2>2, <3>1, <3>2, QuietForChannel
    <3>3. CASE ~derailed
      <4>1. currenttx \in Item /\ currenttx # Blank
        BY <1>a, <2>1, RfTxAssumption DEF PumpInv
      <4>2. Line' = Append(Line, OnAir)
        BY <1>a, <2>4, <3>1, <3>3, <4>1, LineAppend DEF OnAir
      <4>3. OnAir = [did |-> currenttx.did, cmd |-> currenttx.cmd] /\ OnAir \in Command
        BY <4>1 DEF OnAir, AsCommand, Item, Command
      <4>4. Len(Line) < TXITEMMAX /\ \A i \in 1 .. Len(Line) : Line[i] # OnAir
        BY <1>a, <2>4, <3>3, <4>3, LineNew
      <4>5. Waits = Line /\ Waits' = Line'
        BY <2>2, <3>1, <3>3 DEF Waits
      <4> QED
        BY <2>2, <3>1, <3>3, <4>2, <4>3, <4>4, <4>5, ChannelSteps
    <3> QED
      BY <3>2, <3>3
  <2> QED
    BY <1>13, <2>3, <2>4 DEF Requeue
<1>14. ASSUME (\E d \in Did : RxAck(d)) \/ RxTemp
       PROVE  ChannelStep
  <2>1. MayBegin("rx") /\ UNCHANGED queueVars /\ OnAir' = OnAir
    BY <1>14 DEF RxAck, RxTemp, OnAir
  <2>2. CASE UNCHANGED pc
    BY <2>1, <2>2, QuietForChannel DEF Taken
  <2>3. CASE NextOrRelease("rx")
    <3>1. PICK l \in {"idle", "read"} : pc' = [pc EXCEPT !["rx"] = l]
      BY <2>3 DEF NextOrRelease, Goto
    <3>2. Taken' <=> Taken
      BY <1>a, <2>1, <3>1, TakenByMover DEF MayBegin
    <3> QED
      BY <2>1, <3>2, QuietForChannel
  <2> QED
    BY <1>14, <2>2, <2>3 DEF RxAck, RxTemp
<1>15. ASSUME (\E d \in Paired : RxReport(d)) \/ (\E right \in BOOLEAN : PairReport(right))
       PROVE  ChannelStep
  <2>1. UNCHANGED queueVars /\ OnAir' = OnAir /\ UNCHANGED pc
    BY <1>15 DEF RxReport, PairReport, OnAir, lineVars
  <2> QED
    BY <2>1, QuietForChannel DEF Taken
<1>16. ASSUME NEW w \in Writer, PairStart(w) \/ PairEnd(w)
       PROVE  ChannelStep
  <2>1. MayBegin(w) /\ UNCHANGED queueVars /\ OnAir' = OnAir
    BY <1>16 DEF PairStart, PairEnd, OnAir
  <2>2. CASE UNCHANGED pc
    BY <2>1, <2>2, QuietForChannel DEF Taken
  <2>3. CASE pc' = [pc EXCEPT ![w] = "clear"]
    <3>1. Taken' <=> Taken
      BY <1>a, <2>1, <2>3, TakenByMover
    <3> QED
      BY <2>1, <3>1, QuietForChannel
  <2> QED
    BY <1>16, <2>2, <2>3 DEF PairStart, PairEnd, PairingPacket, Goto
<1>17. CASE UNCHANGED vars
  BY <1>17, QuietForChannel DEF vars, queueVars, OnAir, Taken
<1> QED
  BY <1>1, <1>2, <1>3, <1>4, <1>5, <1>6, <1>7, <1>8, <1>9, <1>10, <1>11, <1>12, <1>13, <1>14,
     <1>15, <1>16, <1>17 DEF Next, WriterStep, PumpStep, CleanStep

(* As long as calls do not overlap, the queue between writeCommand and the UART *)
(* is the channel its callers rely on: a command is accepted at most once, the  *)
(* oldest goes first, nothing is lost or reordered but by a packet that empties *)
(* the queue.  After such a packet was sent from the queue itself, nothing is   *)
(* promised until the queue is emptied once more.                               *)
THEOREM SerialImplementsChannel == ~Overlap => (Spec => ImplementsChannel)
<1> SUFFICES ASSUME ~Overlap
             PROVE  Spec => ImplementsChannel
  OBVIOUS
<1>1. Init => Channel!ChannelInit
  <2> SUFFICES ASSUME Init
               PROVE  Channel!ChannelInit
    OBVIOUS
  <2>1. ~Taken /\ ~derailed /\ Line = <<>> /\ AsCommand(currenttx) = Blank
    BY LineEmpty DEF Init, Taken, AsCommand, Thread
  <2> QED
    BY <2>1 DEF Channel!ChannelInit
<1>2. SerialInv /\ SerialInv' /\ [Next]_vars => [Channel!ChannelNext]_(Channel!channelVars)
  BY ChannelNextStep DEF ChannelStep
<1> QED
  BY <1>1, <1>2, SerialInvariant, PTL DEF Spec, ImplementsChannel, Channel!ChannelSpec

(* "send the next on queue to uart": without overlap, the cell a call of         *)
(* writeNextOnQueue counts out is the one whose command it has sent, unless the  *)
(* sending emptied the queue.                                                    *)
THEOREM SerialPopsWhatItSent == ~Overlap => (Spec => PopsWhatItSent)
<1>1. SerialInv /\ [Next]_vars
        => [\A t \in Pump : pc[t] = "pop" /\ pc'[t] = "idle" /\ ~derailed => Holds(0, arg[t])]_vars
  BY DEF SerialInv, PumpInv
<1> QED
  BY <1>1, SerialInvariant, PTL DEF Spec, PopsWhatItSent
=============================================================================
