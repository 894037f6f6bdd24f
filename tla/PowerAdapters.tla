----------------------------- MODULE PowerAdapters -----------------------------
(***************************************************************************)
(* Power adapters: their schedules and the timers that switch them off     *)
(* again (addPAproperties to arrangeSchedule of jsw_protocol.c).           *)
(*                                                                         *)
(* pa_proplist holds an entry for each adapter.  A scenario that switches  *)
(* an adapter on starts its auto-off timer.  The timer is given the        *)
(* ADDRESS of the cell's timerid, and when it expires the handler looks at *)
(* what that cell holds by then; dopaAutooff looks for the entry with that *)
(* value.  The cells move (deleteDev, sortoutSchedule) and are saved with  *)
(* the timerid in them.                                                    *)
(*                                                                         *)
(* Every 30 seconds arrangeSchedule goes through the list, one adapter per *)
(* step here, while other threads change it.  What was sent is noted in    *)
(* g_last_schedule by time and CELL, to be sent once a day.  The broken-   *)
(* down time it compares with is the static one of gmtime, which           *)
(* SetRunningLog_str overwrites with UTC from any thread.                  *)
(*                                                                         *)
(* Abstracted: what adapters are told, except for the stops of schedules   *)
(* (so a schedule does nothing between its start and its end), weekdays    *)
(* (an entry for another day is like one that is switched off), how long   *)
(* an auto-off time is, and the fields that cells from paCount on keep,    *)
(* other than timerid.  A save is whole.  A pass of arrangeSchedule takes  *)
(* less than half a minute.  The timer ids of a run of the daemon differ,  *)
(* and may be those an earlier run left in the file; an id that occurs     *)
(* nowhere is as good as a new one.                                        *)
(***************************************************************************)
EXTENDS Integers, Sequences, FiniteSets

CONSTANTS
  Adapter,              \* dids
  Timer,                \* bound: kernel timer ids
  Num,                  \* the numbers phones give to schedules
  Plan,                 \* the schedules they set: [start, end, onoff]
  Uses,                 \* bound: what adapters are used for in one behaviour
  MAXDEVICENUM,         \* cells of pa_proplist and of g_last_schedule
  SCHEDULE_MAX_TARGET,
  DAY,                  \* minutes of a day
  ZONE                  \* minutes that local time is ahead of UTC

None   == 0             \* no timer
Cell   == 1 .. MAXDEVICENUM
Minute == 0 .. DAY - 1

ASSUME PowerAdaptersAssumption ==
  /\ Timer \cap {None} = {}
  /\ MAXDEVICENUM \in Nat \ {0} /\ SCHEDULE_MAX_TARGET \in Nat
  /\ DAY \in Nat \ {0} /\ ZONE \in Int
  /\ Plan \subseteq [start : Minute, end : Minute, onoff : BOOLEAN]
  /\ Uses \subseteq SUBSET {"autooff", "schedule"}

Schedule == [num : Num, plan : Plan]
Entry    == [did : Adapter, duration : BOOLEAN, schedlist : Seq(Schedule)]

VARIABLES
  uses,                   \* what this house uses its adapters for
  paired,                 \* adapters in devlist
  pa_proplist,            \* the first paCount entries
  timerid,                \* of every cell, those beyond paCount too
  file,                   \* /mnt/pa.db
  pending,                \* Timer -> cell it was given, or None
  stale,                  \* ids the last start found in the file, not made since
  clock,                  \* local time in half minutes
  ticked,                 \* schedule_t has been served in this half minute
  scan,                   \* cell arrangeSchedule comes to next, or None
  tm,                     \* the minute in gmtime's static result, in a scan
  newday,                 \* the day differs from last_mday
  g_last_schedule,
  g_last_schedule_index

\* History: what was done in this minute and to what it was done, and what may
\* have spoilt it.
VARIABLES
  stopped,    \* <<did, num>>: the stop of that schedule was sent in this minute
  touched,    \* adapters whose entry or pairing changed in this minute
  calm,       \* no entry moved while a scan of this minute was under way
  straight,   \* scans had the right time, ever later, since the list was reset
  disturbed   \* an entry was moved or given up, or loaded, while its timer ran

list  == <<uses, paired, pa_proplist, timerid, file>>
timer == <<pending, stale>>
day   == <<clock, ticked, scan, tm, newday, g_last_schedule, g_last_schedule_index>>
trace == <<stopped, touched, calm, straight, disturbed>>
vars  == <<list, timer, day, trace>>

paCount == Len(pa_proplist)
Used    == 1 .. paCount
minute  == clock \div 2

\* A list keeps within its array, with one entry for each adapter.
IsList(entries) ==
  /\ entries \in Seq(Entry) /\ Len(entries) <= MAXDEVICENUM
  /\ \A x, z \in 1 .. Len(entries) : entries[x].did = entries[z].did => x = z
  /\ \A x \in 1 .. Len(entries) : Len(entries[x].schedlist) <= SCHEDULE_MAX_TARGET

\* The types of the list and of its timers.
ListTypeOK ==
  /\ uses \in Uses
  /\ paired \subseteq Adapter
  /\ IsList(pa_proplist) /\ IsList(file.list)
  /\ timerid \in [Cell -> Timer \cup {None}]
  /\ file.timerid \in [Cell -> Timer \cup {None}]
  /\ pending \in [Timer -> Cell \cup {None}]
  /\ stale \subseteq Timer

TypeOK ==
  /\ ListTypeOK
  /\ clock \in 0 .. 2 * DAY - 1
  /\ ticked \in BOOLEAN /\ newday \in BOOLEAN
  /\ scan \in 0 .. MAXDEVICENUM + 1
  /\ tm \in Minute
  /\ g_last_schedule \in [Cell -> Int] /\ g_last_schedule_index \in Cell
  /\ stopped \subseteq Adapter \X Num
  /\ touched \subseteq Adapter
  /\ calm \in BOOLEAN /\ straight \in BOOLEAN /\ disturbed \in BOOLEAN

NoTimers  == [c \in Cell |-> None]
EmptyFile == [list |-> <<>>, timerid |-> NoTimers]

Init ==
  /\ uses \in Uses
  /\ paired = {}
  /\ pa_proplist = <<>> /\ timerid = NoTimers /\ file = EmptyFile
  /\ pending = [t \in Timer |-> None] /\ stale = {}
  /\ clock = 0 /\ ticked = FALSE /\ scan = None /\ tm = 0 /\ newday = TRUE
  /\ g_last_schedule = [c \in Cell |-> 0] /\ g_last_schedule_index = 1
  /\ stopped = {} /\ touched = {} /\ calm = TRUE /\ straight = TRUE
  /\ disturbed = FALSE

-----------------------------------------------------------------------------
(* The list *)

Of(d) == {x \in Used : pa_proplist[x].did = d}

\* savePAprop, with the list and the cells an action leaves.  Beyond paCount the
\* file holds nothing.
savePAprop ==
  file' = [list |-> pa_proplist',
           timerid |-> [c \in Cell |-> IF c <= Len(pa_proplist') THEN timerid'[c] ELSE None]]

\* History: only where schedules are used is it needed.
Touch(ds) == touched' = IF "schedule" \in uses THEN touched \cup ds ELSE touched

Running == {t \in Timer : pending[t] # None}
Waiting(d) == \E x \in Of(d) : timerid[x] # None

\* The cells of K in order: what sortoutSchedule moves to the front.
InOrder(K) ==
  {s \in UNION {[1 .. n -> K] : n \in 0 .. paCount} :
     /\ \A c \in K : \E i \in DOMAIN s : s[i] = c
     /\ \A i, j \in DOMAIN s : i < j => s[i] < s[j]}

Full == paCount >= MAXDEVICENUM

\* addPAproperties for an adapter without an entry.  When the list is full,
\* sortoutSchedule drops the entries of adapters that are not listed, and should
\* none go, the last one is overwritten.
AddProperties(d, listed) ==
  LET entry == [did |-> d, duration |-> FALSE, schedlist |-> <<>>]
  IN /\ IF ~Full
        THEN /\ pa_proplist' = Append(pa_proplist, entry)
             /\ timerid' = [timerid EXCEPT ![paCount + 1] = None]
             /\ UNCHANGED calm
        ELSE \E kept \in InOrder({x \in Used : pa_proplist[x].did \in listed}) :
               LET n == IF Len(kept) >= MAXDEVICENUM THEN MAXDEVICENUM - 1 ELSE Len(kept)
               IN /\ pa_proplist' = [x \in 1 .. n + 1 |->
                                       IF x <= n THEN pa_proplist[kept[x]] ELSE entry]
                  /\ timerid' = [c \in Cell |-> IF c <= n THEN timerid[kept[c]] ELSE None]
                  /\ calm' = (calm /\ scan = None)
     /\ savePAprop

\* Mutant of Pair: a full list is not noticed.
PairPastEnd(d) ==
  /\ d \notin paired
  /\ Of(d) = {}
  /\ paired' = paired \cup {d}
  /\ pa_proplist' = Append(pa_proplist, [did |-> d, duration |-> FALSE, schedlist |-> <<>>])
  /\ Touch({d})
  /\ UNCHANGED <<uses, timerid, file, timer, day, stopped, calm, straight, disturbed>>

\* newDevFromMcu for an adapter.  A device list that is full first gives up one
\* device (freeoneDevice), whose entry stays; an entry that is there already
\* is kept as it is.
Pair(d) ==
  /\ d \notin paired
  /\ \E gone \in {{}} \cup {{e} : e \in paired} :
       /\ Cardinality((paired \ gone) \cup {d}) <= MAXDEVICENUM
       /\ paired' = (paired \ gone) \cup {d}
       /\ Touch(gone \cup {d})
       /\ IF Of(d) = {} THEN AddProperties(d, paired \ gone)
          ELSE UNCHANGED <<pa_proplist, timerid, file, calm>>
       /\ disturbed' = \/ disturbed
                       \/ \E e \in gone : Waiting(e)
                       \/ Of(d) = {} /\ Full /\ Running # {}
  /\ UNCHANGED <<uses, timer, day, stopped, straight>>

\* The device list is full when a device of another kind is paired.
GiveUp(d) ==
  /\ d \in paired
  /\ paired' = paired \ {d}
  /\ Touch({d})
  /\ disturbed' = (disturbed \/ Waiting(d))
  /\ UNCHANGED <<uses, pa_proplist, timerid, file, timer, day, stopped, calm, straight>>

\* deleteDev moves the last entry into the hole, its timerid included, and
\* leaves the last cell as it was.
DeleteDev(d) ==
  /\ paired' = paired \ {d}
  /\ Touch({d})
  /\ IF Of(d) = {} THEN UNCHANGED <<pa_proplist, timerid, file, calm, disturbed>>
     ELSE \E x \in Of(d) :
            /\ pa_proplist' = [z \in 1 .. paCount - 1 |->
                                 IF z = x THEN pa_proplist[paCount] ELSE pa_proplist[z]]
            /\ timerid' = [timerid EXCEPT ![x] = timerid[paCount]]
            /\ savePAprop
            /\ calm' = (calm /\ scan = None)
            /\ disturbed' = (disturbed \/ Running # {})
  /\ UNCHANGED <<uses, timer, day, stopped, straight>>

-----------------------------------------------------------------------------
(* What phones set *)

setPAofftime(d) ==
  /\ "autooff" \in uses
  /\ \E x \in Of(d), on \in BOOLEAN :
       pa_proplist' = [pa_proplist EXCEPT ![x].duration = on]
  /\ UNCHANGED timerid
  /\ savePAprop
  /\ UNCHANGED <<uses, paired, timer, day, trace>>

At(scheds, num) == {y \in 1 .. Len(scheds) : scheds[y].num = num}

setsched(d, num, plan) ==
  /\ "schedule" \in uses
  /\ \E x \in Of(d) :
       LET scheds == pa_proplist[x].schedlist
           new    == [num |-> num, plan |-> plan]
       IN /\ At(scheds, num) = {} => Len(scheds) < SCHEDULE_MAX_TARGET
          /\ pa_proplist' = [pa_proplist EXCEPT ![x].schedlist =
               IF At(scheds, num) = {} THEN Append(scheds, new)
               ELSE [y \in 1 .. Len(scheds) |-> IF scheds[y].num = num THEN new ELSE scheds[y]]]
  /\ UNCHANGED timerid
  /\ savePAprop
  /\ Touch({d})
  /\ UNCHANGED <<uses, paired, timer, day, stopped, calm, straight, disturbed>>

\* The last schedule moves into the hole.
delsched(d, num) ==
  /\ \E x \in Of(d) :
       LET scheds == pa_proplist[x].schedlist
           n      == Len(scheds)
       IN \E y \in At(scheds, num) :
            pa_proplist' = [pa_proplist EXCEPT ![x].schedlist =
              [z \in 1 .. n - 1 |-> IF z = y THEN scheds[n] ELSE scheds[z]]]
  /\ UNCHANGED timerid
  /\ savePAprop
  /\ UNCHANGED <<uses, paired, timer, day, trace>>

-----------------------------------------------------------------------------
(* Auto-off *)

\* makeTimer gives an id that no timer of this run has, unlike the ids an
\* earlier run left in the file.
Unmade(t) ==
  /\ pending[t] = None
  /\ t \in stale \/ \A c \in Cell : timerid[c] # t

\* paAutoOff: a timer that runs is left alone.
paAutoOff(x) ==
  IF pa_proplist[x].duration /\ timerid[x] = None
  THEN \E t \in Timer :
         /\ Unmade(t)
         /\ timerid' = [timerid EXCEPT ![x] = t]
         /\ pending' = [pending EXCEPT ![t] = x]
         /\ stale' = stale \ {t}
  ELSE UNCHANGED <<timerid, timer>>

\* startScenario switches an adapter on, whether or not the command is queued.
Scenario(d) ==
  /\ d \in paired
  /\ \E x \in Of(d) : paAutoOff(x)
  /\ UNCHANGED <<uses, paired, pa_proplist, file, day, trace>>

First(cells) == CHOOSE c \in cells : \A z \in cells : c <= z

\* Mutant of dopaAutooff: the entry keeps its timer.
dopaAutooffKeeps(id) == UNCHANGED timerid

\* The first entry with that id; none that was given up is switched off.
dopaAutooff(id) ==
  LET found == {x \in Used : timerid[x] = id}
  IN IF found = {} \/ pa_proplist[First(found)].did \notin paired
     THEN UNCHANGED timerid
     ELSE timerid' = [timerid EXCEPT ![First(found)] = None]

\* timerHandler for a timer that was given a cell.
Expire(t) ==
  /\ pending[t] # None
  /\ pending' = [pending EXCEPT ![t] = None]
  /\ LET id == timerid[pending[t]]
     IN IF id = None THEN UNCHANGED timerid ELSE dopaAutooff(id)
  /\ UNCHANGED <<uses, paired, pa_proplist, file, stale, day, trace>>

-----------------------------------------------------------------------------
(* Schedules *)

\* Mutant of get_last_time: the adapter is left out.
get_last_timeOfDay(currenttime, x, y, is_start) ==
  currenttime * 10000 + (y - 1) + (IF is_start THEN 99999999 ELSE 88888888)

\* Cells count from 1 here.
get_last_time(currenttime, x, y, is_start) ==
  currenttime * 10000 + (x - 1) * 100 + (y - 1) + (IF is_start THEN 99999999 ELSE 88888888)

\* The schedule timer starts a pass: the time is read, and on another day than
\* that of the last pass the list of what was sent is reset.
StartScan ==
  /\ "schedule" \in uses
  /\ scan = None /\ ~ticked
  /\ scan' = 1
  /\ tm' = minute
  /\ newday' = FALSE
  /\ IF newday
     THEN /\ g_last_schedule' = [c \in Cell |-> 0] /\ g_last_schedule_index' = 1
          /\ straight' = TRUE
     ELSE UNCHANGED <<g_last_schedule, g_last_schedule_index, straight>>
  /\ UNCHANGED <<list, timer, clock, ticked, stopped, touched, calm, disturbed>>

\* One schedule of the adapter in cell x.  p is what the pass carries on: what was
\* sent last, the next cell for it, and the stops of this minute.
Arrange(p, x, y) ==
  LET d     == pa_proplist[x].did
      s     == pa_proplist[x].schedlist[y]
      ends  == tm = s.plan.end
      key   == get_last_time(tm, x, y, ~ends)
  IN IF /\ s.plan.onoff /\ d \in paired
        /\ ends \/ tm = s.plan.start
        /\ \A c \in Cell : p.last[c] # key
     THEN [last    |-> [p.last EXCEPT ![p.next] = key],
           next    |-> IF p.next = MAXDEVICENUM THEN 1 ELSE p.next + 1,
           stopped |-> IF ends THEN p.stopped \cup {<<d, s.num>>} ELSE p.stopped]
     ELSE p

ScanAdapter ==
  /\ scan \in Used
  /\ LET n == Len(pa_proplist[scan].schedlist)
         after[y \in 0 .. n] ==
           IF y = 0 THEN [last |-> g_last_schedule, next |-> g_last_schedule_index,
                          stopped |-> stopped]
           ELSE Arrange(after[y - 1], scan, y)
     IN /\ g_last_schedule' = after[n].last
        /\ g_last_schedule_index' = after[n].next
        /\ stopped' = after[n].stopped
  /\ scan' = scan + 1
  /\ UNCHANGED <<list, timer, clock, ticked, tm, newday, touched, calm, straight, disturbed>>

EndScan ==
  /\ scan > paCount
  /\ scan' = None /\ tm' = 0 /\ ticked' = TRUE
  /\ UNCHANGED <<list, timer, clock, newday, g_last_schedule,
                 g_last_schedule_index, trace>>

\* SetRunningLog_str in any thread: gmtime overwrites the time with UTC.
SetRunningLog ==
  /\ scan # None
  /\ tm' = (minute - ZONE) % DAY
  /\ straight' = FALSE
  /\ UNCHANGED <<list, timer, clock, ticked, scan, newday, g_last_schedule,
                 g_last_schedule_index, stopped, touched, calm, disturbed>>

-----------------------------------------------------------------------------
(* Time, restarts, resets *)

NewMinute == stopped' = {} /\ touched' = {} /\ calm' = TRUE

\* Half a minute passes, in which schedule_t expires once.
Advance ==
  /\ scan = None /\ ticked
  /\ clock' = (clock + 1) % (2 * DAY)
  /\ ticked' = FALSE
  /\ newday' = (newday \/ clock' = 0)
  /\ IF clock' % 2 = 0 THEN NewMinute ELSE UNCHANGED <<stopped, touched, calm>>
  /\ UNCHANGED <<list, timer, scan, tm, g_last_schedule, g_last_schedule_index,
                 straight, disturbed>>

\* The time zone or daylight saving is set, or the clock corrected: to the start
\* of a minute, and between two passes.
SetClock ==
  /\ "schedule" \in uses
  /\ scan = None
  /\ clock' \in {2 * m : m \in Minute}
  /\ newday' \in {newday, TRUE}
  /\ straight' = FALSE
  /\ NewMinute
  /\ UNCHANGED <<list, timer, ticked, scan, tm, g_last_schedule,
                 g_last_schedule_index, disturbed>>

Fresh ==
  /\ pending' = [t \in Timer |-> None]
  /\ ticked' = FALSE /\ scan' = None /\ tm' = 0 /\ newday' = TRUE
  /\ g_last_schedule' = [c \in Cell |-> 0] /\ g_last_schedule_index' = 1
  /\ UNCHANGED <<clock, stopped, calm, straight>>

\* main: without any device the list is not loaded.  The timers are gone, the
\* ids in the file are not.
Restart ==
  /\ Fresh
  /\ \E load \in BOOLEAN :
       /\ paired # {} => load
       /\ pa_proplist' = IF load THEN file.list ELSE <<>>
       /\ timerid' = IF load THEN file.timerid ELSE NoTimers
  /\ stale' = {timerid'[c] : c \in Cell} \ {None}
  /\ Touch(Adapter)
  /\ disturbed' = (stale' # {})
  /\ UNCHANGED <<uses, paired, file>>

\* factoryReset(0) and the reboot that follows.
FactoryReset ==
  /\ Fresh
  /\ paired' = {}
  /\ pa_proplist' = <<>> /\ timerid' = NoTimers /\ file' = EmptyFile
  /\ stale' = {}
  /\ UNCHANGED uses
  /\ Touch(Adapter)
  /\ disturbed' = FALSE

\* CM_RESETDEFAULT, factoryReset(1): the adapters stay, their entries do not.
ResetDefault ==
  /\ pa_proplist' = <<>> /\ file' = EmptyFile
  /\ disturbed' = (disturbed \/ Running # {})
  /\ UNCHANGED <<uses, paired, timerid, timer, day, stopped, touched, calm, straight>>

Next ==
  \/ \E d \in Adapter :
       \/ Pair(d) \/ GiveUp(d) \/ DeleteDev(d) \/ setPAofftime(d) \/ Scenario(d)
       \/ \E num \in Num : delsched(d, num) \/ \E plan \in Plan : setsched(d, num, plan)
  \/ \E t \in Timer : Expire(t)
  \/ StartScan \/ ScanAdapter \/ EndScan \/ SetRunningLog
  \/ Advance \/ SetClock
  \/ Restart \/ FactoryReset \/ ResetDefault

Spec == Init /\ [][Next]_vars

-----------------------------------------------------------------------------
(* Properties *)

\* An adapter that waits to be switched off has a timer of its own that will do
\* it, and no other timer is left to switch it off before its time, although
\* timers know only the cell and entries only the id (paAutoOff, dopaAutooff,
\* timerHandler).  A deletion or a reset while a timer runs breaks this, and so does a
\* restart with an id in the file, until the next start (jsw_protocol.c:1728).
TimersAreTheirs ==
  ~disturbed =>
    \A t \in Timer, x \in Cell :
      pending[t] = x <=> x \in Used /\ timerid[x] = t

\* A minute is not over before every schedule that ends in it was stopped, although
\* what was sent is noted by cell, and the list changes between and within the
\* two passes of that minute (arrangeSchedule, get_last_time).  What is too much
\* for the two: an entry that moves during one, a clock that is set, a line in the
\* running log.
EndsAreSent ==
  [][Advance /\ clock' % 2 = 0 /\ straight /\ calm =>
       \A x \in Used : \A y \in 1 .. Len(pa_proplist[x].schedlist) :
         LET d == pa_proplist[x].did
             s == pa_proplist[x].schedlist[y]
         IN /\ s.plan.onoff /\ s.plan.end = minute
            /\ d \in paired /\ d \notin touched
            => <<d, s.num>> \in stopped]_vars
=============================================================================
