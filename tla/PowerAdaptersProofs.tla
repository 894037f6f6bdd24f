------------------------- MODULE PowerAdaptersProofs --------------------------
(***************************************************************************)
(* TypeOK, TimersAreTheirs and EndsAreSent for every number of adapters,   *)
(* cells, schedules and timers, and what the keys of g_last_schedule tell  *)
(* apart.                                                                  *)
(***************************************************************************)
EXTENDS PowerAdapters, SequenceTheorems, FiniteSetTheorems, WellFoundedInduction,
        TLAPS

\* Why a timer that expires finds its adapter: ids an earlier run left are only
\* about when that is noted, and an adapter that waits is still listed.
NoneStale == ~disturbed => stale = {}

WaitingAreListed ==
  ~disturbed => \A x \in Used : timerid[x] # None => pa_proplist[x].did \in paired

IInv == ListTypeOK /\ NoneStale /\ WaitingAreListed /\ TimersAreTheirs

\* The steps that change the list or its timers, and those that do not.
listvars == <<uses, paired, pa_proplist, timerid, file, pending, stale, disturbed>>

-----------------------------------------------------------------------------
(* Keys *)

\* Two commands of one kind have the same key only if they are of the same minute,
\* adapter cell and schedule.
THEOREM KeysDiffer ==
  ASSUME NEW m \in Nat, NEW n \in Nat, NEW x \in 1 .. 100, NEW z \in 1 .. 100,
         NEW y \in 1 .. 100, NEW w \in 1 .. 100, NEW kind \in BOOLEAN,
         get_last_time(m, x, y, kind) = get_last_time(n, z, w, kind)
  PROVE  m = n /\ x = z /\ y = w
<1>1. m * 10000 + (x - 1) * 100 + (y - 1) = n * 10000 + (z - 1) * 100 + (w - 1)
  BY DEF get_last_time
<1>2. QED
  BY <1>1

\* A stop has the key of a start only 1111 minutes later, and eleven cells and
\* eleven schedules on: not in a house with fewer than twelve adapters.
THEOREM StopsOfStarts ==
  ASSUME NEW m \in Nat, NEW n \in Nat, NEW x \in 1 .. 48, NEW z \in 1 .. 48,
         NEW y \in 1 .. 16, NEW w \in 1 .. 16,
         get_last_time(m, x, y, TRUE) = get_last_time(n, z, w, FALSE)
  PROVE  n = m + 1111 /\ z = x + 11 /\ w = y + 11
<1>1. m * 10000 + (x - 1) * 100 + (y - 1) + 99999999
        = n * 10000 + (z - 1) * 100 + (w - 1) + 88888888
  BY DEF get_last_time
<1>2. QED
  BY <1>1

-----------------------------------------------------------------------------
(* The list and its timers *)

(* The list of adapters begins empty. *)
LEMMA InitIInv == Init => IInv
<1> USE PowerAdaptersAssumption
<1>1. Init => ListTypeOK
  BY DEF Init, ListTypeOK, IsList, EmptyFile, NoTimers, Cell, None, Entry
<1>2. Init => NoneStale /\ WaitingAreListed /\ TimersAreTheirs
  BY DEF Init, NoneStale, WaitingAreListed, TimersAreTheirs, Used, paCount, NoTimers,
         Cell, None
<1>3. QED
  BY <1>1, <1>2 DEF IInv

\* A step that saves the list keeps the types if it keeps those of the list.
LEMMA SavedTypes ==
  ASSUME ListTypeOK, savePAprop, uses' = uses, paired' \subseteq Adapter,
         IsList(pa_proplist'), timerid' \in [Cell -> Timer \cup {None}],
         pending' = pending, stale' = stale
  PROVE  ListTypeOK'
BY DEF ListTypeOK, savePAprop, IsList

\* Nothing that IInv speaks of changes.
LEMMA StutterStep == IInv /\ UNCHANGED listvars => IInv'
BY DEF IInv, ListTypeOK, NoneStale, WaitingAreListed, TimersAreTheirs, Used, paCount,
       listvars

\* Without timers that run, nothing waits.
LEMMA NothingWaits ==
  ASSUME IInv, ~disturbed, Running = {}
  PROVE  /\ \A x \in Used : timerid[x] = None
         /\ \A t \in Timer : pending[t] = None
<1> USE PowerAdaptersAssumption
<1>1. \A t \in Timer : pending[t] = None
  BY DEF Running
<1>2. \A x \in Used : x \in Cell /\ timerid[x] \in Timer \cup {None}
  BY DEF IInv, ListTypeOK, IsList, Used, paCount, Cell
<1>3. \A x \in Used : timerid[x] = None
  BY <1>1, <1>2 DEF IInv, TimersAreTheirs, Cell, None
<1>4. QED
  BY <1>1, <1>3

\* Where nothing waits and no timer runs, the timers are right.
LEMMA QuietTimers ==
  ASSUME \A x \in Used : timerid[x] = None, \A t \in Timer : pending[t] = None
  PROVE  TimersAreTheirs /\ WaitingAreListed
BY PowerAdaptersAssumption DEF TimersAreTheirs, WaitingAreListed, Cell, None

\* Several cells never hold one entry's timer, and a listed cell is a cell.
LEMMA UsedAreCells ==
  ASSUME IInv
  PROVE  /\ Used \subseteq Cell /\ paCount \in Nat /\ paCount <= MAXDEVICENUM
         /\ \A x \in Used : pa_proplist[x] \in Entry
         /\ \A x \in Used : \A d \in Adapter : x \in Of(d) <=> pa_proplist[x].did = d
BY PowerAdaptersAssumption
DEF IInv, ListTypeOK, IsList, Used, paCount, Cell, Of

\* A list with the same adapters in the same cells, and the same timers.
LEMMA SameCells ==
  ASSUME IInv, paired' = paired, timerid' = timerid, pending' = pending,
         stale' = stale, disturbed' = disturbed, Len(pa_proplist') = Len(pa_proplist),
         \A x \in Used : pa_proplist'[x].did = pa_proplist[x].did
  PROVE  NoneStale' /\ WaitingAreListed' /\ TimersAreTheirs'
BY DEF IInv, NoneStale, WaitingAreListed, TimersAreTheirs, Used, paCount

\* An entry is changed, but not whose it is.
LEMMA OneEntry ==
  ASSUME IInv, NEW x \in Used, NEW e \in Entry, e.did = pa_proplist[x].did,
         Len(e.schedlist) <= SCHEDULE_MAX_TARGET,
         pa_proplist' = [pa_proplist EXCEPT ![x] = e],
         savePAprop, UNCHANGED <<uses, paired, timerid, pending, stale, disturbed>>
  PROVE  IInv'
<1>1. pa_proplist \in Seq(Entry) /\ IsList(pa_proplist)
  BY DEF IInv, ListTypeOK, IsList
<1>2. /\ pa_proplist' \in Seq(Entry)
      /\ Len(pa_proplist') = Len(pa_proplist)
      /\ \A z \in Used : pa_proplist'[z] = IF z = x THEN e ELSE pa_proplist[z]
  BY <1>1, ExceptSeq DEF Used, paCount
<1>3. \A z \in Used : pa_proplist'[z].did = pa_proplist[z].did
  BY <1>2
<1>4. IsList(pa_proplist')
  BY <1>1, <1>2, <1>3 DEF IsList, Used, paCount
<1>5. ListTypeOK'
  BY <1>4, SavedTypes DEF IInv, ListTypeOK
<1>6. QED
  BY <1>2, <1>3, <1>5, SameCells DEF IInv

(* A phone sets the time of an auto-off. *)
LEMMA setPAofftimeStep ==
  ASSUME IInv, NEW d \in Adapter, setPAofftime(d)
  PROVE  IInv'
<1>1. PICK x \in Of(d), on \in BOOLEAN :
        pa_proplist' = [pa_proplist EXCEPT ![x].duration = on]
  BY DEF setPAofftime
<1> DEFINE e == [pa_proplist[x] EXCEPT !.duration = on]
<1>2. x \in Used /\ pa_proplist[x] \in Entry
  BY UsedAreCells DEF Of
<1>3. /\ e \in Entry /\ e.did = pa_proplist[x].did
      /\ e.schedlist = pa_proplist[x].schedlist
  BY <1>2 DEF Entry
<1>4. Len(e.schedlist) <= SCHEDULE_MAX_TARGET
  BY <1>2, <1>3 DEF IInv, ListTypeOK, IsList, Used, paCount
<1>5. pa_proplist' = [pa_proplist EXCEPT ![x] = e]
  BY <1>1
<1>6. savePAprop /\ UNCHANGED <<uses, paired, timerid, pending, stale, disturbed>>
  BY DEF setPAofftime, timer, trace
<1> HIDE DEF e
<1>7. QED
  BY <1>2, <1>3, <1>4, <1>5, <1>6, OneEntry

\* A function on the first numbers is a sequence.
LEMMA IsSeq ==
  ASSUME NEW S, NEW n \in Nat, NEW f \in [1 .. n -> S]
  PROVE  f \in Seq(S) /\ Len(f) = n
<1>1. f \in Seq(S)
  BY SeqDef
<1>2. QED
  BY <1>1, LenProperties

(* A phone sets a schedule. *)
LEMMA setschedStep ==
  ASSUME IInv, NEW d \in Adapter, NEW num \in Num, NEW plan \in Plan,
         setsched(d, num, plan)
  PROVE  IInv'
<1> DEFINE new == [num |-> num, plan |-> plan]
           replaced(scheds) ==
             [y \in 1 .. Len(scheds) |-> IF scheds[y].num = num THEN new ELSE scheds[y]]
           changed(scheds) ==
             IF At(scheds, num) = {} THEN Append(scheds, new) ELSE replaced(scheds)
<1>1. PICK x \in Of(d) :
        /\ At(pa_proplist[x].schedlist, num) = {}
             => Len(pa_proplist[x].schedlist) < SCHEDULE_MAX_TARGET
        /\ pa_proplist' = [pa_proplist EXCEPT ![x].schedlist =
             changed(pa_proplist[x].schedlist)]
  BY DEF setsched
<1> DEFINE scheds == pa_proplist[x].schedlist
           e == [pa_proplist[x] EXCEPT !.schedlist = changed(scheds)]
<1>2. x \in Used /\ pa_proplist[x] \in Entry
  BY UsedAreCells DEF Of
<1>3. /\ scheds \in Seq(Schedule) /\ Len(scheds) \in Nat
      /\ Len(scheds) <= SCHEDULE_MAX_TARGET
  BY <1>2 DEF IInv, ListTypeOK, IsList, Used, paCount, Entry
<1>4. new \in Schedule
  BY DEF Schedule
<1> HIDE DEF new
<1>5. /\ changed(scheds) \in Seq(Schedule)
      /\ Len(changed(scheds)) <= SCHEDULE_MAX_TARGET
  <2>1. CASE At(scheds, num) = {}
    <3>1. changed(scheds) = Append(scheds, new) /\ Len(scheds) < SCHEDULE_MAX_TARGET
      BY <1>1, <2>1
    <3>2. Append(scheds, new) \in Seq(Schedule)
          /\ Len(Append(scheds, new)) = Len(scheds) + 1
      BY <1>3, <1>4, AppendProperties
    <3>3. QED
      BY <1>3, <3>1, <3>2, PowerAdaptersAssumption
  <2>2. CASE At(scheds, num) # {}
    <3>1. changed(scheds) = replaced(scheds)
      BY <2>2
    <3>2. replaced(scheds) \in [1 .. Len(scheds) -> Schedule]
      BY <1>3, <1>4
    <3>3. QED
      BY <1>3, <3>1, <3>2, IsSeq
  <2>3. QED
    BY <2>1, <2>2
<1> HIDE DEF changed
<1>6. /\ e \in Entry /\ e.did = pa_proplist[x].did
      /\ e.schedlist = changed(scheds)
  BY <1>2, <1>5 DEF Entry
<1>7. pa_proplist' = [pa_proplist EXCEPT ![x] = e]
  BY <1>1
<1>8. savePAprop /\ UNCHANGED <<uses, paired, timerid, pending, stale, disturbed>>
  BY DEF setsched, timer
<1> HIDE DEF e
<1>9. QED
  BY <1>2, <1>5, <1>6, <1>7, <1>8, OneEntry

(* A phone deletes a schedule. *)
LEMMA delschedStep ==
  ASSUME IInv, NEW d \in Adapter, NEW num \in Num, delsched(d, num)
  PROVE  IInv'
<1> DEFINE without(s, y) ==
             [z \in 1 .. Len(s) - 1 |-> IF z = y THEN s[Len(s)] ELSE s[z]]
<1>1. PICK x \in Of(d) : \E y \in At(pa_proplist[x].schedlist, num) :
        pa_proplist' = [pa_proplist EXCEPT ![x].schedlist =
                          without(pa_proplist[x].schedlist, y)]
  BY DEF delsched
<1> DEFINE scheds == pa_proplist[x].schedlist
<1>2. PICK y \in At(scheds, num) :
        pa_proplist' = [pa_proplist EXCEPT ![x].schedlist = without(scheds, y)]
  BY <1>1
<1> DEFINE e == [pa_proplist[x] EXCEPT !.schedlist = without(scheds, y)]
<1>3. x \in Used /\ pa_proplist[x] \in Entry
  BY UsedAreCells DEF Of
<1>4. /\ scheds \in Seq(Schedule) /\ Len(scheds) \in Nat
      /\ Len(scheds) <= SCHEDULE_MAX_TARGET /\ y \in 1 .. Len(scheds)
  BY <1>3 DEF IInv, ListTypeOK, IsList, Used, paCount, Entry, At
<1>5. without(scheds, y) \in [1 .. Len(scheds) - 1 -> Schedule] /\ Len(scheds) - 1 \in Nat
  BY <1>4
<1>6. /\ without(scheds, y) \in Seq(Schedule)
      /\ Len(without(scheds, y)) <= SCHEDULE_MAX_TARGET
  BY <1>4, <1>5, IsSeq, PowerAdaptersAssumption
<1> HIDE DEF without
<1>7. /\ e \in Entry /\ e.did = pa_proplist[x].did
      /\ e.schedlist = without(scheds, y)
  BY <1>3, <1>6 DEF Entry
<1>8. pa_proplist' = [pa_proplist EXCEPT ![x] = e]
  BY <1>2
<1>9. savePAprop /\ UNCHANGED <<uses, paired, timerid, pending, stale, disturbed>>
  BY DEF delsched, timer, trace
<1> HIDE DEF e
<1>10. QED
  BY <1>3, <1>6, <1>7, <1>8, <1>9, OneEntry

(* The empty list is a list of adapters. *)
LEMMA EmptyList == IsList(<<>>)
BY PowerAdaptersAssumption, EmptySeq DEF IsList

(* No timers at all is a state of the timers. *)
LEMMA NoTimersType == NoTimers \in [Cell -> Timer \cup {None}]
BY DEF NoTimers

(* A device is given up: its entry stays. *)
LEMMA GiveUpStep ==
  ASSUME IInv, NEW d \in Adapter, GiveUp(d)
  PROVE  IInv'
<1>1. ListTypeOK'
  BY DEF GiveUp, IInv, ListTypeOK, timer, IsList
<1>2. NoneStale' /\ TimersAreTheirs'
  BY DEF GiveUp, IInv, NoneStale, TimersAreTheirs, Used, paCount, timer
<1>3. WaitingAreListed'
  <2> SUFFICES ASSUME ~disturbed', NEW x \in Used, timerid[x] # None
               PROVE  pa_proplist[x].did \in paired \ {d}
    BY DEF GiveUp, WaitingAreListed, Used, paCount
  <2>1. ~disturbed /\ ~Waiting(d)
    BY DEF GiveUp
  <2>2. pa_proplist[x].did # d
    BY <2>1 DEF Waiting, Of
  <2>3. QED
    BY <2>1, <2>2 DEF IInv, WaitingAreListed
<1>4. QED
  BY <1>1, <1>2, <1>3 DEF IInv

\* What the file holds when it is loaded, and what is there without loading.
LEMMA RestartStep ==
  ASSUME IInv, Restart
  PROVE  IInv'
<1> USE PowerAdaptersAssumption
<1>1. /\ pa_proplist' \in {file.list, <<>>}
      /\ timerid' \in {file.timerid, NoTimers}
  BY DEF Restart
<1>2. IsList(pa_proplist') /\ timerid' \in [Cell -> Timer \cup {None}]
  BY <1>1, EmptyList, NoTimersType DEF IInv, ListTypeOK
<1>3. pending' = [t \in Timer |-> None]
  BY DEF Restart, Fresh
<1>4. stale' = {timerid'[c] : c \in Cell} \ {None} /\ disturbed' = (stale' # {})
  BY DEF Restart
<1>5. stale' \subseteq Timer
  BY <1>2, <1>4
<1>6. uses' = uses /\ paired' = paired /\ file' = file
  BY DEF Restart
<1>7. ListTypeOK'
  BY <1>2, <1>3, <1>5, <1>6 DEF IInv, ListTypeOK, IsList
<1>8. NoneStale'
  BY <1>4 DEF NoneStale
<1>9. ASSUME ~disturbed'
      PROVE  \A x \in Used' : timerid'[x] = None
  <2>1. Used' \subseteq Cell
    BY <1>2 DEF IsList, Used, paCount, Cell
  <2>2. QED
    BY <1>4, <1>9, <2>1
<1>10. WaitingAreListed' /\ TimersAreTheirs'
  BY <1>3, <1>9 DEF WaitingAreListed, TimersAreTheirs, Cell, None
<1>11. QED
  BY <1>7, <1>8, <1>10 DEF IInv

(* A factory reset removes list and timers. *)
LEMMA FactoryResetStep ==
  ASSUME IInv, FactoryReset
  PROVE  IInv'
<1> USE PowerAdaptersAssumption
<1>1. ListTypeOK'
  BY EmptyList, NoTimersType DEF FactoryReset, Fresh, IInv, ListTypeOK, IsList, EmptyFile
<1>2. NoneStale'
  BY DEF FactoryReset, NoneStale
<1>3. Used' = {}
  BY DEF FactoryReset, Used, paCount
<1>4. WaitingAreListed' /\ TimersAreTheirs'
  BY <1>3 DEF FactoryReset, Fresh, WaitingAreListed, TimersAreTheirs, Cell, None
<1>5. QED
  BY <1>1, <1>2, <1>4 DEF IInv

(* CM_RESETDEFAULT empties the list in the running daemon. *)
LEMMA ResetDefaultStep ==
  ASSUME IInv, ResetDefault
  PROVE  IInv'
<1> USE PowerAdaptersAssumption
<1>1. ListTypeOK'
  BY EmptyList, NoTimersType
  DEF ResetDefault, IInv, ListTypeOK, IsList, EmptyFile, timer
<1>2. NoneStale'
  BY DEF ResetDefault, IInv, NoneStale, timer
<1>3. Used' = {}
  BY DEF ResetDefault, Used, paCount
<1>4. ASSUME ~disturbed'
      PROVE  \A t \in Timer : pending'[t] = None
  BY <1>4, NothingWaits DEF ResetDefault, timer
<1>5. WaitingAreListed' /\ TimersAreTheirs'
  BY <1>3, <1>4 DEF WaitingAreListed, TimersAreTheirs, Cell, None
<1>6. QED
  BY <1>1, <1>2, <1>5 DEF IInv

\* The timer that is made is one that no cell holds.
LEMMA ScenarioStep ==
  ASSUME IInv, NEW d \in Adapter, Scenario(d)
  PROVE  IInv'
<1> USE PowerAdaptersAssumption
<1>1. PICK x \in Of(d) : paAutoOff(x)
  BY DEF Scenario
<1>2. /\ d \in paired
      /\ UNCHANGED <<uses, paired, pa_proplist, file, disturbed>>
  BY DEF Scenario, trace
<1>3. x \in Used /\ pa_proplist[x].did = d /\ x \in Cell
  BY UsedAreCells DEF Of
<1>4. CASE UNCHANGED <<timerid, timer>>
  BY <1>2, <1>4, StutterStep DEF listvars, timer
<1>5. ASSUME NEW t \in Timer, Unmade(t), timerid[x] = None,
             timerid' = [timerid EXCEPT ![x] = t],
             pending' = [pending EXCEPT ![t] = x], stale' = stale \ {t}
      PROVE  IInv'
  <2>1. ListTypeOK'
    BY <1>2, <1>3, <1>5 DEF IInv, ListTypeOK, IsList
  <2>2. NoneStale'
    BY <1>2, <1>5 DEF IInv, NoneStale
  <2>3. /\ timerid \in [Cell -> Timer \cup {None}]
        /\ pending \in [Timer -> Cell \cup {None}]
        /\ Used \subseteq Cell /\ Used' = Used
    BY <1>2, UsedAreCells DEF IInv, ListTypeOK, Used, paCount
  <2>4. WaitingAreListed'
    BY <1>2, <1>3, <1>5, <2>3 DEF IInv, WaitingAreListed
  <2>5. ASSUME ~disturbed, NEW u \in Timer, NEW z \in Cell
        PROVE  pending'[u] = z <=> z \in Used /\ timerid'[z] = u
    <3>1. \A c \in Cell : timerid[c] # t
      BY <1>5, <2>5 DEF IInv, NoneStale, Unmade
    <3>2. pending[u] = z <=> z \in Used /\ timerid[z] = u
      BY <2>5 DEF IInv, TimersAreTheirs
    <3>3. CASE u = t
      BY <1>3, <1>5, <2>3, <3>1, <3>3
    <3>4. CASE u # t
      BY <1>3, <1>5, <2>3, <3>2, <3>4
    <3>5. QED
      BY <3>3, <3>4
  <2>6. TimersAreTheirs'
    BY <1>2, <2>3, <2>5 DEF TimersAreTheirs
  <2>7. QED
    BY <2>1, <2>2, <2>4, <2>6 DEF IInv
<1>6. QED
  BY <1>1, <1>4, <1>5 DEF paAutoOff

\* The timer that expires is that of the cell it was given, and its adapter is
\* still listed.
LEMMA ExpireStep ==
  ASSUME IInv, NEW t \in Timer, Expire(t)
  PROVE  IInv'
<1> USE PowerAdaptersAssumption
<1>1. /\ pending[t] # None /\ pending' = [pending EXCEPT ![t] = None]
      /\ UNCHANGED <<uses, paired, pa_proplist, file, stale, disturbed>>
  BY DEF Expire, trace
<1> DEFINE id == timerid[pending[t]]
           found == {z \in Used : timerid[z] = id}
<1>2. \/ timerid' = timerid
      \/ id # None /\ found # {} /\ timerid' = [timerid EXCEPT ![First(found)] = None]
  BY DEF Expire, dopaAutooff
<1>3. /\ timerid \in [Cell -> Timer \cup {None}]
      /\ pending \in [Timer -> Cell \cup {None}]
      /\ Used \subseteq Cell /\ Used' = Used /\ Used \subseteq Nat
  BY <1>1, UsedAreCells DEF IInv, ListTypeOK, Used, paCount
<1>5. timerid' \in [Cell -> Timer \cup {None}]
      /\ \A c \in Cell : timerid'[c] \in {timerid[c], None}
  BY <1>2, <1>3
<1>6. ListTypeOK'
  BY <1>1, <1>3, <1>5 DEF IInv, ListTypeOK, IsList
<1>7. NoneStale' /\ WaitingAreListed'
  BY <1>1, <1>3, <1>5 DEF IInv, NoneStale, WaitingAreListed
<1>8. ASSUME ~disturbed
      PROVE  timerid' = [timerid EXCEPT ![pending[t]] = None]
  <2>1. pending[t] \in Cell
    BY <1>1, <1>3
  <2>2. pending[t] \in Used /\ id = t
    BY <1>8, <2>1 DEF IInv, TimersAreTheirs
  <2>3. \A z \in Used : timerid[z] = t => z = pending[t]
    BY <1>3, <1>8, <2>1 DEF IInv, TimersAreTheirs
  <2>4. found = {pending[t]}
    BY <2>2, <2>3
  <2>5. First(found) = pending[t]
    BY <1>3, <2>2, <2>4 DEF First
  <2>6. id # None
    BY <2>2 DEF None
  <2>7. pa_proplist[pending[t]].did \in paired
    BY <1>8, <2>2, <2>6 DEF IInv, WaitingAreListed
  <2>8. QED
    BY <2>4, <2>5, <2>6, <2>7 DEF Expire, dopaAutooff
<1>9. ASSUME ~disturbed, NEW u \in Timer, NEW z \in Cell
      PROVE  pending'[u] = z <=> z \in Used /\ timerid'[z] = u
  <2>1. pending[u] = z <=> z \in Used /\ timerid[z] = u
    BY <1>9 DEF IInv, TimersAreTheirs
  <2>2. pending[t] \in Cell
    BY <1>1, <1>3
  <2>3. \A c \in Cell : pending[t] = c => timerid[c] = t
    BY <1>9 DEF IInv, TimersAreTheirs
  <2>4. u # None /\ z # None
    BY DEF None, Cell
  <2>5. QED
    BY <1>1, <1>3, <1>8, <1>9, <2>1, <2>2, <2>3, <2>4
<1>10. TimersAreTheirs'
  BY <1>1, <1>3, <1>9 DEF TimersAreTheirs
<1>11. QED
  BY <1>6, <1>7, <1>10 DEF IInv

\* The last entry moves into the hole, if no timer runs.
LEMMA DeleteDevStep ==
  ASSUME IInv, NEW d \in Adapter, DeleteDev(d)
  PROVE  IInv'
<1> USE PowerAdaptersAssumption
<1>1. /\ paired' = paired \ {d}
      /\ UNCHANGED <<uses, pending, stale>>
  BY DEF DeleteDev, timer
<1>2. /\ pa_proplist \in Seq(Entry) /\ IsList(pa_proplist) /\ Used \subseteq Cell
      /\ paCount \in Nat /\ paCount <= MAXDEVICENUM /\ paired \subseteq Adapter
      /\ timerid \in [Cell -> Timer \cup {None}]
  BY UsedAreCells DEF IInv, ListTypeOK, IsList
<1>3. CASE Of(d) = {}
  <2>1. UNCHANGED <<pa_proplist, timerid, file, disturbed>>
    BY <1>3 DEF DeleteDev
  <2>2. ListTypeOK'
    BY <1>1, <2>1 DEF IInv, ListTypeOK, IsList
  <2>3. NoneStale' /\ TimersAreTheirs'
    BY <1>1, <2>1 DEF IInv, NoneStale, TimersAreTheirs, Used, paCount
  <2>4. \A x \in Used : pa_proplist[x].did # d
    BY <1>3 DEF Of
  <2>5. WaitingAreListed'
    BY <1>1, <2>1, <2>4 DEF IInv, WaitingAreListed, Used, paCount
  <2>6. QED
    BY <2>2, <2>3, <2>5 DEF IInv
<1>4. CASE Of(d) # {}
  <2>1. PICK x \in Of(d) :
          /\ pa_proplist' = [z \in 1 .. paCount - 1 |->
                               IF z = x THEN pa_proplist[paCount] ELSE pa_proplist[z]]
          /\ timerid' = [timerid EXCEPT ![x] = timerid[paCount]]
          /\ savePAprop
          /\ disturbed' = (disturbed \/ Running # {})
    BY <1>4 DEF DeleteDev
  <2>2. /\ x \in Used /\ paCount \in Used /\ paCount - 1 \in Nat
    BY <1>2 DEF Of, Used
  <2>3. pa_proplist' \in [1 .. paCount - 1 -> Entry]
    BY <1>2, <2>1, <2>2, ElementOfSeq DEF Used, paCount
  <2>4. pa_proplist' \in Seq(Entry) /\ Len(pa_proplist') = paCount - 1
    BY <2>2, <2>3, IsSeq
  <2>5. \A y, z \in 1 .. paCount - 1 : pa_proplist'[y].did = pa_proplist'[z].did => y = z
    BY <1>2, <2>1, <2>2 DEF IsList, Used, paCount
  <2>6. \A y \in 1 .. paCount - 1 :
          Len(pa_proplist'[y].schedlist) <= SCHEDULE_MAX_TARGET
    BY <1>2, <2>1, <2>2 DEF IsList, Used, paCount
  <2>7. IsList(pa_proplist')
    BY <1>2, <2>2, <2>4, <2>5, <2>6 DEF IsList
  <2>8. timerid' \in [Cell -> Timer \cup {None}]
    BY <1>2, <2>1, <2>2
  <2>9. ListTypeOK'
    BY <1>1, <1>2, <2>1, <2>7, <2>8, SavedTypes DEF IInv, ListTypeOK
  <2>10. NoneStale'
    BY <1>1, <2>1 DEF IInv, NoneStale
  <2>11. ASSUME ~disturbed'
         PROVE  /\ \A z \in Used' : timerid'[z] = None
                /\ \A t \in Timer : pending'[t] = None
    <3>1. ~disturbed /\ Running = {}
      BY <2>1, <2>11
    <3>2. /\ \A z \in Used : timerid[z] = None
          /\ \A t \in Timer : pending[t] = None
      BY <3>1, NothingWaits
    <3>3. Used' \subseteq Used
      BY <1>2, <2>4 DEF Used, paCount
    <3>4. QED
      BY <1>1, <1>2, <2>1, <2>2, <3>2, <3>3
  <2>12. WaitingAreListed' /\ TimersAreTheirs'
    <3>1. CASE disturbed'
      BY <3>1 DEF WaitingAreListed, TimersAreTheirs
    <3>2. CASE ~disturbed'
      BY <2>11, <3>2 DEF TimersAreTheirs, WaitingAreListed, Cell, None
    <3>3. QED
      BY <3>1, <3>2
  <2>13. QED
    BY <2>9, <2>10, <2>12 DEF IInv
<1>5. QED
  BY <1>3, <1>4

\* A new adapter behind the others.
LEMMA AppendedEntry ==
  ASSUME IInv, NEW e \in Entry, Of(e.did) = {}, ~Full, e.schedlist = <<>>,
         pa_proplist' = Append(pa_proplist, e),
         timerid' = [timerid EXCEPT ![paCount + 1] = None]
  PROVE  /\ IsList(pa_proplist') /\ timerid' \in [Cell -> Timer \cup {None}]
         /\ Used' = Used \cup {paCount + 1} /\ Used \subseteq Cell
         /\ paCount + 1 \in Cell \ Used
         /\ timerid'[paCount + 1] = None
         /\ \A x \in Used : pa_proplist'[x] = pa_proplist[x] /\ timerid'[x] = timerid[x]
<1> USE PowerAdaptersAssumption
<1>1. /\ pa_proplist \in Seq(Entry) /\ IsList(pa_proplist)
      /\ timerid \in [Cell -> Timer \cup {None}]
      /\ paCount \in Nat /\ Used \subseteq Cell
  BY UsedAreCells DEF IInv, ListTypeOK, IsList
<1>2. paCount + 1 <= MAXDEVICENUM
  BY <1>1 DEF Full
<1>3. /\ pa_proplist' \in Seq(Entry) /\ Len(pa_proplist') = paCount + 1
      /\ \A x \in Used : pa_proplist'[x] = pa_proplist[x]
      /\ pa_proplist'[paCount + 1] = e
  BY <1>1, AppendProperties DEF Used, paCount
<1>4. Used' = Used \cup {paCount + 1} /\ paCount + 1 \in Cell \ Used
  BY <1>1, <1>2, <1>3 DEF Used, paCount, Cell
<1>5. /\ \A x \in Used' : x \in Used \/ x = paCount + 1
      /\ \A x \in Used : x # paCount + 1
  BY <1>4
<1>6. \A x, z \in Used' : pa_proplist'[x].did = pa_proplist'[z].did => x = z
  <2>1. \A x \in Used : pa_proplist'[x].did # e.did
    BY <1>3 DEF Of
  <2>2. \A x, z \in Used : pa_proplist'[x].did = pa_proplist'[z].did => x = z
    BY <1>1, <1>3 DEF IsList, Used, paCount
  <2>3. pa_proplist'[paCount + 1].did = e.did
    BY <1>3
  <2>4. QED
    BY <1>5, <2>1, <2>2, <2>3
<1>7. \A x \in Used' : Len(pa_proplist'[x].schedlist) <= SCHEDULE_MAX_TARGET
  <2>1. Len(e.schedlist) <= SCHEDULE_MAX_TARGET
    OBVIOUS
  <2>2. \A x \in Used : Len(pa_proplist'[x].schedlist) <= SCHEDULE_MAX_TARGET
    BY <1>1, <1>3 DEF IsList, Used, paCount
  <2>3. Len(pa_proplist'[paCount + 1].schedlist) <= SCHEDULE_MAX_TARGET
    BY <1>3, <2>1
  <2>4. QED
    BY <1>5, <2>2, <2>3
<1>8. IsList(pa_proplist')
  BY <1>2, <1>3, <1>6, <1>7 DEF IsList, Used, paCount
<1>9. QED
  BY <1>1, <1>3, <1>4, <1>8

\* A new adapter behind those of the listed that fit in a full list.
LEMMA SortedEntry ==
  ASSUME IInv, NEW e \in Entry, Of(e.did) = {}, e.schedlist = <<>>,
         NEW K \in SUBSET Used, NEW kept \in InOrder(K), NEW n \in Nat,
         n <= Len(kept), n < MAXDEVICENUM,
         pa_proplist' = [x \in 1 .. n + 1 |-> IF x <= n THEN pa_proplist[kept[x]] ELSE e],
         timerid' = [c \in Cell |-> IF c <= n THEN timerid[kept[c]] ELSE None]
  PROVE  /\ IsList(pa_proplist') /\ timerid' \in [Cell -> Timer \cup {None}]
         /\ \A x \in Used' : timerid'[x] = None \/ \E z \in Used : timerid'[x] = timerid[z]
<1> USE PowerAdaptersAssumption
<1>1. /\ pa_proplist \in Seq(Entry) /\ IsList(pa_proplist)
      /\ timerid \in [Cell -> Timer \cup {None}]
      /\ paCount \in Nat /\ Used \subseteq Cell
      /\ \A x \in Used : pa_proplist[x] \in Entry
  BY UsedAreCells DEF IInv, ListTypeOK, IsList
<1>2. PICK m \in 0 .. paCount : kept \in [1 .. m -> K]
  BY DEF InOrder
<1>3. m \in Nat /\ Len(kept) = m /\ DOMAIN kept = 1 .. m
  BY <1>1, <1>2, IsSeq
<1>4. \A x \in 1 .. n : kept[x] \in Used
  BY <1>2, <1>3
<1>5. \A x, z \in 1 .. n : kept[x] = kept[z] => x = z
  <2>1. \A x, z \in 1 .. n : x < z => kept[x] < kept[z]
    BY <1>3 DEF InOrder
  <2>2. \A x \in 1 .. n : kept[x] \in Int
    BY <1>4, <1>1 DEF Used
  <2>3. QED
    BY <2>1, <2>2
<1>6. pa_proplist' \in [1 .. n + 1 -> Entry] /\ n + 1 \in Nat
  BY <1>1, <1>4
<1>7. pa_proplist' \in Seq(Entry) /\ Len(pa_proplist') = n + 1
  BY <1>6, IsSeq
<1>8. \A x, z \in 1 .. n + 1 : pa_proplist'[x].did = pa_proplist'[z].did => x = z
  <2>1. \A x \in Used : pa_proplist[x].did # e.did
    BY DEF Of
  <2>2. \A x, z \in Used : pa_proplist[x].did = pa_proplist[z].did => x = z
    BY <1>1 DEF IsList, Used, paCount
  <2>3. \A x \in 1 .. n + 1 : x = n + 1 \/ x \in 1 .. n
    OBVIOUS
  <2>4. /\ pa_proplist'[n + 1] = e
        /\ \A x \in 1 .. n : pa_proplist'[x] = pa_proplist[kept[x]]
    OBVIOUS
  <2>5. QED
    BY <1>4, <1>5, <2>1, <2>2, <2>3, <2>4
<1>9. \A x \in 1 .. n + 1 : Len(pa_proplist'[x].schedlist) <= SCHEDULE_MAX_TARGET
  <2>1. Len(e.schedlist) = 0
    OBVIOUS
  <2>2. \A x \in Used : Len(pa_proplist[x].schedlist) <= SCHEDULE_MAX_TARGET
    BY <1>1 DEF IsList, Used, paCount
  <2>3. QED
    BY <1>4, <2>1, <2>2
<1>10. IsList(pa_proplist')
  BY <1>7, <1>8, <1>9 DEF IsList
<1>11. \A c \in Cell : /\ c <= n => timerid'[c] = timerid[kept[c]] /\ kept[c] \in Used
                       /\ ~(c <= n) => timerid'[c] = None
  BY <1>4 DEF Cell
<1>12. timerid' \in [Cell -> Timer \cup {None}]
  BY <1>1, <1>11
<1>13. Used' \subseteq Cell
  BY <1>7 DEF Used, paCount, Cell
<1>14. QED
  BY <1>10, <1>11, <1>12, <1>13

\* A device list that is full gives up a device; none of those given up waits.
LEMMA PairStep ==
  ASSUME IInv, NEW d \in Adapter, Pair(d)
  PROVE  IInv'
<1> USE PowerAdaptersAssumption
<1> DEFINE e == [did |-> d, duration |-> FALSE, schedlist |-> <<>>]
<1>1. PICK gone \in {{}} \cup {{g} : g \in paired} :
        /\ paired' = (paired \ gone) \cup {d}
        /\ IF Of(d) = {} THEN AddProperties(d, paired \ gone)
           ELSE UNCHANGED <<pa_proplist, timerid, file, calm>>
        /\ disturbed' = \/ disturbed
                        \/ \E g \in gone : Waiting(g)
                        \/ Of(d) = {} /\ Full /\ Running # {}
  BY DEF Pair
<1>2. UNCHANGED <<uses, pending, stale>>
  BY DEF Pair, timer
<1>3. paired' \subseteq Adapter
  BY <1>1 DEF IInv, ListTypeOK
<1>4. NoneStale'
  BY <1>1, <1>2 DEF IInv, NoneStale
<1>5. ASSUME ~disturbed', NEW x \in Used, timerid[x] # None
      PROVE  pa_proplist[x].did \in paired'
  <2>1. ~disturbed /\ \A g \in gone : ~Waiting(g)
    BY <1>1, <1>5
  <2>2. pa_proplist[x].did \in paired
    BY <1>5, <2>1 DEF IInv, WaitingAreListed
  <2>3. pa_proplist[x].did \notin gone
    BY <1>5, <2>1 DEF Waiting, Of
  <2>4. QED
    BY <1>1, <2>2, <2>3
<1>6. CASE Of(d) # {}
  <2>1. UNCHANGED <<pa_proplist, timerid, file>>
    BY <1>1, <1>6
  <2>2. ListTypeOK'
    BY <1>2, <1>3, <2>1 DEF IInv, ListTypeOK, IsList
  <2>3. Used' = Used
    BY <2>1 DEF Used, paCount
  <2>4. TimersAreTheirs'
    BY <1>1, <1>2, <2>1, <2>3 DEF IInv, TimersAreTheirs
  <2>5. WaitingAreListed'
    BY <1>5, <2>1, <2>3 DEF WaitingAreListed
  <2>6. QED
    BY <1>4, <2>2, <2>4, <2>5 DEF IInv
<1>7. CASE Of(d) = {}
  <2>1. e \in Entry /\ e.did = d /\ e.schedlist = <<>>
    BY EmptySeq DEF Entry
  <2>2. AddProperties(d, paired \ gone) /\ savePAprop
    BY <1>1, <1>7 DEF AddProperties
  <2>3. CASE ~Full
    <3>1. /\ pa_proplist' = Append(pa_proplist, e)
          /\ timerid' = [timerid EXCEPT ![paCount + 1] = None]
      BY <2>2, <2>3 DEF AddProperties
    <3> HIDE DEF e
    <3>2. /\ IsList(pa_proplist') /\ timerid' \in [Cell -> Timer \cup {None}]
          /\ Used' = Used \cup {paCount + 1} /\ Used \subseteq Cell
          /\ paCount + 1 \in Cell \ Used
          /\ timerid'[paCount + 1] = None
          /\ \A x \in Used : /\ pa_proplist'[x] = pa_proplist[x]
                             /\ timerid'[x] = timerid[x]
      BY <1>7, <2>1, <2>3, <3>1, AppendedEntry
    <3>3. ListTypeOK'
      BY <1>2, <1>3, <2>2, <3>2, SavedTypes DEF IInv
    <3>4. WaitingAreListed'
      BY <1>5, <3>2 DEF WaitingAreListed
    <3>5. ASSUME ~disturbed', NEW t \in Timer, NEW x \in Cell
          PROVE  pending'[t] = x <=> x \in Used' /\ timerid'[x] = t
      <4>1. pending[t] = x <=> x \in Used /\ timerid[x] = t
        BY <1>1, <3>5 DEF IInv, TimersAreTheirs
      <4>2. CASE x = paCount + 1
        BY <1>2, <3>2, <4>1, <4>2
      <4>3. CASE x # paCount + 1
        BY <1>2, <3>2, <4>1, <4>3
      <4>4. QED
        BY <4>2, <4>3
    <3>6. TimersAreTheirs'
      BY <3>5 DEF TimersAreTheirs
    <3>7. QED
      BY <1>4, <3>3, <3>4, <3>6 DEF IInv
  <2>4. CASE Full
    <3> DEFINE K == {x \in Used : pa_proplist[x].did \in paired \ gone}
    <3>1. PICK kept \in InOrder(K) :
            LET n == IF Len(kept) >= MAXDEVICENUM THEN MAXDEVICENUM - 1 ELSE Len(kept)
            IN /\ pa_proplist' = [x \in 1 .. n + 1 |->
                                    IF x <= n THEN pa_proplist[kept[x]] ELSE e]
               /\ timerid' = [c \in Cell |-> IF c <= n THEN timerid[kept[c]] ELSE None]
      BY <2>2, <2>4 DEF AddProperties
    <3> DEFINE n == IF Len(kept) >= MAXDEVICENUM THEN MAXDEVICENUM - 1 ELSE Len(kept)
    <3>2. Len(kept) \in Nat
      <4>1. paCount \in Nat
        BY UsedAreCells
      <4>2. PICK m \in 0 .. paCount : kept \in [1 .. m -> K]
        BY DEF InOrder
      <4>3. QED
        BY <4>1, <4>2, IsSeq
    <3>3. n \in Nat /\ n <= Len(kept) /\ n < MAXDEVICENUM
      BY <3>2
    <3>4. /\ pa_proplist' = [x \in 1 .. n + 1 |-> IF x <= n THEN pa_proplist[kept[x]] ELSE e]
          /\ timerid' = [c \in Cell |-> IF c <= n THEN timerid[kept[c]] ELSE None]
      BY <3>1
    <3>5. K \in SUBSET Used
      OBVIOUS
    <3> HIDE DEF e, n, K
    <3>6. /\ IsList(pa_proplist') /\ timerid' \in [Cell -> Timer \cup {None}]
          /\ \A x \in Used' :
               timerid'[x] = None \/ \E z \in Used : timerid'[x] = timerid[z]
      BY <1>7, <2>1, <3>3, <3>4, <3>5, SortedEntry
    <3>7. ListTypeOK'
      BY <1>2, <1>3, <2>2, <3>6, SavedTypes DEF IInv
    <3>8. ASSUME ~disturbed'
          PROVE  /\ \A x \in Used' : timerid'[x] = None
                 /\ \A t \in Timer : pending'[t] = None
      <4>1. ~disturbed /\ Running = {}
        BY <1>1, <1>7, <2>4, <3>8
      <4>2. /\ \A x \in Used : timerid[x] = None
            /\ \A t \in Timer : pending[t] = None
        BY <4>1, NothingWaits
      <4>3. QED
        BY <1>2, <3>6, <4>2
    <3>9. WaitingAreListed' /\ TimersAreTheirs'
      <4>1. CASE disturbed'
        BY <4>1 DEF WaitingAreListed, TimersAreTheirs
      <4>2. CASE ~disturbed'
        BY <3>8, <4>2 DEF TimersAreTheirs, WaitingAreListed, Cell, None
      <4>3. QED
        BY <4>1, <4>2
    <3>10. QED
      BY <1>4, <3>7, <3>9 DEF IInv
  <2>5. QED
    BY <2>3, <2>4
<1>8. QED
  BY <1>6, <1>7

-----------------------------------------------------------------------------
(* Every adapter has its own timer *)

(* Every step of the adapters preserves the invariant. *)
LEMMA StepIInv == IInv /\ [Next]_vars => IInv'
<1> SUFFICES ASSUME IInv, [Next]_vars
             PROVE  IInv'
  OBVIOUS
<1>1. ASSUME NEW d \in Adapter, \/ Pair(d) \/ GiveUp(d) \/ DeleteDev(d)
                                \/ setPAofftime(d) \/ Scenario(d)
      PROVE  IInv'
  BY <1>1, PairStep, GiveUpStep, DeleteDevStep, setPAofftimeStep, ScenarioStep
<1>2. ASSUME NEW d \in Adapter, NEW num \in Num,
             delsched(d, num) \/ \E plan \in Plan : setsched(d, num, plan)
      PROVE  IInv'
  BY <1>2, delschedStep, setschedStep
<1>3. ASSUME NEW t \in Timer, Expire(t)
      PROVE  IInv'
  BY <1>3, ExpireStep
<1>4. CASE \/ StartScan \/ ScanAdapter \/ EndScan \/ SetRunningLog \/ Advance
           \/ SetClock \/ UNCHANGED vars
  <2>1. UNCHANGED listvars
    BY <1>4 DEF StartScan, ScanAdapter, EndScan, SetRunningLog, Advance, SetClock,
                vars, list, timer, trace, listvars
  <2>2. QED
    BY <2>1, StutterStep
<1>5. CASE Restart \/ FactoryReset \/ ResetDefault
  BY <1>5, RestartStep, FactoryResetStep, ResetDefaultStep
<1>6. QED
  BY <1>1, <1>2, <1>3, <1>4, <1>5 DEF Next

\* As long as no entry is moved, given up or loaded while its timer runs, an
\* adapter that a scenario switched on is switched off by its own timer, and by no
\* other (paAutoOff, dopaAutooff), however many adapters and timers there are.
THEOREM PowerTimers == Spec => []TimersAreTheirs
<1>1. IInv => TimersAreTheirs
  BY DEF IInv
<1>2. QED
  BY <1>1, InitIInv, StepIInv, PTL DEF Spec

-----------------------------------------------------------------------------
(* A pass over the schedules of one adapter *)

(* What holds of 0, and of the successor of each number it holds of, holds of all. *)
LEMMA SetInduction ==
  ASSUME NEW G \in SUBSET Nat, 0 \in G, \A k \in G : k + 1 \in G
  PROVE  G = Nat
<1> DEFINE Less == {ss \in Nat \X Nat : ss[1] < ss[2]}
           rest == Nat \ G
<1>1. IsWellFoundedOn(Less, Nat)
  BY NatLessThanWellFounded DEF OpToRel
<1>2. ASSUME rest # {}
      PROVE  FALSE
  <2>1. PICK k \in rest : \A j \in rest : ~ (<<j, k>> \in Less)
    BY <1>1, <1>2, WFMin
  <2>2. k \in Nat /\ k # 0 /\ k - 1 \in Nat
    OBVIOUS
  <2>3. <<k - 1, k>> \in Less
    BY <2>2
  <2>4. k - 1 \in G
    BY <2>1, <2>2, <2>3
  <2>5. (k - 1) + 1 = k
    BY <2>2
  <2>6. QED
    BY <2>4, <2>5
<1>3. QED
  BY <1>2

\* What arrangeSchedule carries from one schedule of the adapter in cell x to the
\* next.
Begun == [last |-> g_last_schedule, next |-> g_last_schedule_index, stopped |-> stopped]

Progress(x) ==
  CHOOSE f : f = [y \in 0 .. Len(pa_proplist[x].schedlist) |->
                    IF y = 0 THEN Begun ELSE Arrange(f[y - 1], x, y)]

(* There is such a pass, one schedule after the other. *)
LEMMA ProgressIsThere ==
  ASSUME NEW x, Len(pa_proplist[x].schedlist) \in Nat
  PROVE  /\ Progress(x)[0] = Begun
         /\ \A k \in Nat : k + 1 <= Len(pa_proplist[x].schedlist)
              => Progress(x)[k + 1] = Arrange(Progress(x)[k], x, k + 1)
<1> DEFINE n == Len(pa_proplist[x].schedlist)
           Good(k) == \E f : f = [y \in 0 .. k |->
                                    IF y = 0 THEN Begun ELSE Arrange(f[y - 1], x, y)]
           G == {k \in Nat : Good(k)}
<1>1. 0 \in G
  <2> DEFINE f == [y \in 0 .. 0 |-> Begun]
  <2>1. f = [y \in 0 .. 0 |-> IF y = 0 THEN Begun ELSE Arrange(f[y - 1], x, y)]
    OBVIOUS
  <2>2. Good(0)
    BY <2>1
  <2>3. QED
    BY <2>2
<1>2. ASSUME NEW k \in G
      PROVE  k + 1 \in G
  <2>1. PICK f : f = [y \in 0 .. k |->
                        IF y = 0 THEN Begun ELSE Arrange(f[y - 1], x, y)]
    BY <1>2
  <2> DEFINE g == [y \in 0 .. k + 1 |->
                     IF y = 0 THEN Begun ELSE Arrange(f[y - 1], x, y)]
  <2>2. k \in Nat
    OBVIOUS
  <2>3. \A y \in 0 .. k : g[y] = f[y]
    BY <2>1, <2>2
  <2>4. \A y \in 0 .. k + 1 : y # 0 => y - 1 \in 0 .. k
    BY <2>2
  <2>5. \A y \in 0 .. k + 1 : y # 0 => f[y - 1] = g[y - 1]
    BY <2>3, <2>4
  <2>6. g = [y \in 0 .. k + 1 |->
               IF y = 0 THEN Begun ELSE Arrange(g[y - 1], x, y)]
    <3> DEFINE h == [y \in 0 .. k + 1 |->
                       IF y = 0 THEN Begun ELSE Arrange(g[y - 1], x, y)]
    <3>1. \A y \in 0 .. k + 1 : g[y] = h[y]
      BY <2>5
    <3>2. QED
      BY <3>1
  <2>7. Good(k + 1)
    BY <2>6
  <2>8. QED
    BY <2>2, <2>7
<1>3. G = Nat
  <2>1. G \in SUBSET Nat
    OBVIOUS
  <2> HIDE DEF G
  <2>2. QED
    BY <1>1, <1>2, <2>1, SetInduction
<1>4. Good(n)
  BY <1>3
<1>5. Progress(x) = [y \in 0 .. n |->
                       IF y = 0 THEN Begun ELSE Arrange(Progress(x)[y - 1], x, y)]
  BY <1>4 DEF Progress
<1> HIDE DEF n
<1>6. n \in Nat
  BY DEF n
<1>7. Progress(x)[0] = Begun
  BY <1>5, <1>6
<1>8. ASSUME NEW k \in Nat, k + 1 <= n
      PROVE  Progress(x)[k + 1] = Arrange(Progress(x)[k], x, k + 1)
  <2>1. k + 1 \in 0 .. n /\ k + 1 # 0 /\ (k + 1) - 1 = k
    BY <1>6, <1>8
  <2>2. Progress(x)[k + 1] = Arrange(Progress(x)[(k + 1) - 1], x, k + 1)
    BY <1>5, <2>1
  <2>3. QED
    BY <2>1, <2>2
<1>9. QED
  BY <1>7, <1>8 DEF n

(* A step of the pass takes over what one such pass leaves. *)
LEMMA ScanIsProgress ==
  ASSUME ScanAdapter
  PROVE  LET last == Progress(scan)[Len(pa_proplist[scan].schedlist)]
         IN /\ g_last_schedule' = last.last
            /\ g_last_schedule_index' = last.next
            /\ stopped' = last.stopped
BY DEF ScanAdapter, Progress, Begun

Pass == [last : [Cell -> Int], next : Cell, stopped : SUBSET (Adapter \X Num)]

(* The schedules of a cell in use. *)
LEMMA Scheduled ==
  ASSUME TypeOK, NEW x \in Used
  PROVE  /\ pa_proplist[x].did \in Adapter
         /\ pa_proplist[x].schedlist \in Seq(Schedule)
         /\ Len(pa_proplist[x].schedlist) \in Nat
         /\ \A y \in 1 .. Len(pa_proplist[x].schedlist) :
              /\ pa_proplist[x].schedlist[y] \in Schedule
              /\ pa_proplist[x].schedlist[y].num \in Num
              /\ pa_proplist[x].schedlist[y].plan \in Plan
<1>1. pa_proplist[x] \in Entry
  BY DEF TypeOK, ListTypeOK, IsList, Used, paCount
<1>2. pa_proplist[x].did \in Adapter /\ pa_proplist[x].schedlist \in Seq(Schedule)
  BY <1>1 DEF Entry
<1>3. \A y \in 1 .. Len(pa_proplist[x].schedlist) :
        pa_proplist[x].schedlist[y] \in Schedule
  BY <1>2
<1>4. QED
  BY <1>2, <1>3 DEF Schedule

(* Minutes are numbers, and so are keys. *)
LEMMA MinutesAreNumbers ==
  ASSUME TypeOK
  PROVE  minute \in Minute /\ minute \in Nat /\ clock \in Nat /\ tm \in Nat
<1>1. \A c \in 0 .. 2 * DAY - 1 : c \in Nat /\ c \div 2 \in 0 .. DAY - 1
  BY PowerAdaptersAssumption
<1>2. QED
  BY <1>1, PowerAdaptersAssumption DEF TypeOK, minute, Minute

(* One schedule leaves what is carried on a pass. *)
LEMMA ArrangeKeepsTypes ==
  ASSUME TypeOK, NEW x \in Used, NEW y \in 1 .. Len(pa_proplist[x].schedlist),
         NEW p \in Pass
  PROVE  Arrange(p, x, y) \in Pass
<1> DEFINE d == pa_proplist[x].did
           s == pa_proplist[x].schedlist[y]
           ends == tm = s.plan.end
           key == get_last_time(tm, x, y, ~ends)
           new == [last |-> [p.last EXCEPT ![p.next] = key],
                   next |-> IF p.next = MAXDEVICENUM THEN 1 ELSE p.next + 1,
                   stopped |-> IF ends THEN p.stopped \cup {<<d, s.num>>} ELSE p.stopped]
<1>1. d \in Adapter /\ s.num \in Num /\ tm \in Nat /\ x \in Nat /\ y \in Nat
  BY Scheduled, MinutesAreNumbers DEF Used
<1>2. key \in Int
  BY <1>1 DEF get_last_time
<1>3. /\ p.last \in [Cell -> Int] /\ p.next \in Cell
      /\ p.stopped \subseteq Adapter \X Num
  BY DEF Pass
<1>4. (IF p.next = MAXDEVICENUM THEN 1 ELSE p.next + 1) \in Cell
  BY <1>3, PowerAdaptersAssumption DEF Cell
<1>5. Arrange(p, x, y) \in {new, p}
  BY DEF Arrange
<1> HIDE DEF key, ends, s, d
<1>6. new \in Pass
  BY <1>1, <1>2, <1>3, <1>4 DEF Pass
<1>7. QED
  BY <1>5, <1>6

(* A pass over the schedules of an adapter keeps to its types. *)
LEMMA ProgressTypes ==
  ASSUME TypeOK, NEW x \in Used
  PROVE  \A k \in 0 .. Len(pa_proplist[x].schedlist) : Progress(x)[k] \in Pass
<1> DEFINE n == Len(pa_proplist[x].schedlist)
           G == {k \in Nat : k <= n => Progress(x)[k] \in Pass}
<1>1. n \in Nat
  BY Scheduled
<1>2. 0 \in G
  <2>1. Begun \in Pass
    BY DEF TypeOK, Begun, Pass
  <2>2. QED
    BY <1>1, <2>1, ProgressIsThere
<1>3. ASSUME NEW k \in G
      PROVE  k + 1 \in G
  <2>1. ASSUME k + 1 <= n
        PROVE  Progress(x)[k + 1] \in Pass
    <3>1. k \in Nat /\ k <= n /\ k + 1 \in 1 .. n
      BY <1>1, <2>1
    <3>2. Progress(x)[k] \in Pass
      BY <3>1
    <3>3. Progress(x)[k + 1] = Arrange(Progress(x)[k], x, k + 1)
      BY <1>1, <2>1, <3>1, ProgressIsThere
    <3>4. QED
      BY <3>1, <3>2, <3>3, ArrangeKeepsTypes
  <2>2. QED
    BY <2>1
<1>4. G = Nat
  <2>1. G \in SUBSET Nat
    OBVIOUS
  <2> HIDE DEF G
  <2>2. QED
    BY <1>2, <1>3, <2>1, SetInduction
<1>5. QED
  BY <1>1, <1>4

(* Another adapter is done in a pass. *)
LEMMA ScanTypes ==
  ASSUME TypeOK, ScanAdapter
  PROVE  TypeOK'
<1> DEFINE n == Len(pa_proplist[scan].schedlist)
           last == Progress(scan)[n]
<1>1. scan \in Used
  BY DEF ScanAdapter
<1>2. n \in Nat
  BY <1>1, Scheduled
<1>3. last \in Pass
  BY <1>1, <1>2, ProgressTypes
<1>4. /\ g_last_schedule' = last.last /\ g_last_schedule_index' = last.next
      /\ stopped' = last.stopped
  BY ScanIsProgress
<1> HIDE DEF last, n
<1>5. /\ g_last_schedule' \in [Cell -> Int] /\ g_last_schedule_index' \in Cell
      /\ stopped' \subseteq Adapter \X Num
  BY <1>3, <1>4 DEF Pass
<1>6. scan' \in 0 .. MAXDEVICENUM + 1
  <2>1. paCount \in Nat /\ paCount <= MAXDEVICENUM /\ scan' = scan + 1
    BY PowerAdaptersAssumption DEF TypeOK, ListTypeOK, IsList, paCount, ScanAdapter
  <2>2. QED
    BY <1>1, <2>1, PowerAdaptersAssumption DEF Used
<1>7. /\ UNCHANGED <<list, timer>>
      /\ UNCHANGED <<clock, ticked, tm, newday, touched, calm, straight, disturbed>>
  BY DEF ScanAdapter
<1>8. ListTypeOK'
  BY <1>7 DEF TypeOK, ListTypeOK, IsList, list, timer
<1>9. QED
  BY <1>5, <1>6, <1>7, <1>8 DEF TypeOK

\* The day and the history: the types that ListTypeOK leaves.
DayTypeOK ==
  /\ clock \in 0 .. 2 * DAY - 1
  /\ ticked \in BOOLEAN /\ newday \in BOOLEAN
  /\ scan \in 0 .. MAXDEVICENUM + 1
  /\ tm \in Minute
  /\ g_last_schedule \in [Cell -> Int] /\ g_last_schedule_index \in Cell
  /\ stopped \subseteq Adapter \X Num
  /\ touched \subseteq Adapter
  /\ calm \in BOOLEAN /\ straight \in BOOLEAN /\ disturbed \in BOOLEAN

(* What is touched are adapters. *)
LEMMA TouchTypes ==
  ASSUME touched \subseteq Adapter, NEW ds \in SUBSET Adapter, Touch(ds)
  PROVE  touched' \subseteq Adapter
BY DEF Touch

(* The list changes, and the day does not. *)
LEMMA ListStepTypes ==
  ASSUME TypeOK, UNCHANGED day, UNCHANGED <<stopped, straight>>,
         touched' \subseteq Adapter, calm' \in BOOLEAN, disturbed' \in BOOLEAN
  PROVE  DayTypeOK'
<1>1. /\ stopped' = stopped /\ straight' = straight
      /\ clock' = clock /\ ticked' = ticked /\ scan' = scan /\ tm' = tm
      /\ newday' = newday /\ g_last_schedule' = g_last_schedule
      /\ g_last_schedule_index' = g_last_schedule_index
  BY DEF day
<1>2. QED
  BY <1>1 DEF TypeOK, DayTypeOK

(* An adapter is paired, given up or deleted, or a phone sets something for it. *)
LEMMA AdapterTypes ==
  ASSUME TypeOK, NEW d \in Adapter,
         \/ Pair(d) \/ GiveUp(d) \/ DeleteDev(d) \/ setPAofftime(d) \/ Scenario(d)
         \/ \E num \in Num : delsched(d, num) \/ \E plan \in Plan : setsched(d, num, plan)
  PROVE  DayTypeOK'
<1>1. touched \subseteq Adapter /\ calm \in BOOLEAN /\ disturbed \in BOOLEAN
  BY DEF TypeOK
<1>2. CASE Pair(d)
  <2>1. PICK gone \in {{}} \cup {{g} : g \in paired} :
          /\ Touch(gone \cup {d})
          /\ IF Of(d) = {} THEN AddProperties(d, paired \ gone)
             ELSE UNCHANGED <<pa_proplist, timerid, file, calm>>
          /\ disturbed' = \/ disturbed
                          \/ \E g \in gone : Waiting(g)
                          \/ Of(d) = {} /\ Full /\ Running # {}
    BY <1>2 DEF Pair
  <2>2. gone \cup {d} \in SUBSET Adapter
    BY DEF TypeOK, ListTypeOK
  <2>3. touched' \subseteq Adapter
    BY <1>1, <2>1, <2>2, TouchTypes
  <2>4. disturbed' \in BOOLEAN
    BY <1>1, <2>1
  <2>5. calm' = calm \/ calm' = (calm /\ scan = None)
    BY <2>1 DEF AddProperties
  <2>6. calm' \in BOOLEAN
    BY <1>1, <2>5
  <2>7. UNCHANGED day /\ UNCHANGED <<stopped, straight>>
    BY <1>2 DEF Pair
  <2>8. QED
    BY <2>3, <2>4, <2>6, <2>7, ListStepTypes
<1>3. CASE GiveUp(d)
  <2>1. touched' \subseteq Adapter
    BY <1>1, <1>3, TouchTypes DEF GiveUp
  <2>2. disturbed' \in BOOLEAN /\ calm' \in BOOLEAN
    BY <1>1, <1>3 DEF GiveUp
  <2>3. UNCHANGED day /\ UNCHANGED <<stopped, straight>>
    BY <1>3 DEF GiveUp
  <2>4. QED
    BY <2>1, <2>2, <2>3, ListStepTypes
<1>4. CASE DeleteDev(d)
  <2>1. touched' \subseteq Adapter
    BY <1>1, <1>4, TouchTypes DEF DeleteDev
  <2>2. disturbed' = disturbed \/ disturbed' = (disturbed \/ Running # {})
    BY <1>4 DEF DeleteDev
  <2>3. calm' = calm \/ calm' = (calm /\ scan = None)
    BY <1>4 DEF DeleteDev
  <2>4. disturbed' \in BOOLEAN
    BY <1>1, <2>2
  <2>5. calm' \in BOOLEAN
    BY <1>1, <2>3
  <2>6. UNCHANGED day /\ UNCHANGED <<stopped, straight>>
    BY <1>4 DEF DeleteDev
  <2>7. QED
    BY <2>1, <2>4, <2>5, <2>6, ListStepTypes
<1>5. CASE \/ setPAofftime(d) \/ Scenario(d) \/ \E num \in Num : delsched(d, num)
  <2>1. UNCHANGED day /\ UNCHANGED trace
    BY <1>5 DEF setPAofftime, Scenario, delsched
  <2>2. UNCHANGED <<stopped, touched, calm, straight, disturbed>>
    BY <2>1 DEF trace
  <2>3. QED
    BY <1>1, <2>1, <2>2, ListStepTypes
<1>6. ASSUME NEW num \in Num, NEW plan \in Plan, setsched(d, num, plan)
      PROVE  DayTypeOK'
  <2>1. touched' \subseteq Adapter
    BY <1>1, <1>6, TouchTypes DEF setsched
  <2>2. UNCHANGED day /\ UNCHANGED <<stopped, calm, straight, disturbed>>
    BY <1>6 DEF setsched
  <2>3. QED
    BY <1>1, <2>1, <2>2, ListStepTypes
<1>7. QED
  BY <1>2, <1>3, <1>4, <1>5, <1>6

(* The clock goes on, is set, or is read. *)
LEMMA ClockTypes ==
  ASSUME TypeOK, StartScan \/ EndScan \/ SetRunningLog \/ Advance \/ SetClock
  PROVE  DayTypeOK'
<1> USE PowerAdaptersAssumption
<1>1. minute \in Minute /\ clock \in Nat
  BY MinutesAreNumbers
<1>2. CASE StartScan
  <2>1. /\ scan' = 1 /\ tm' = minute /\ newday' = FALSE
        /\ UNCHANGED <<clock, ticked, stopped, touched, calm, disturbed>>
    BY <1>2 DEF StartScan
  <2>2. \/ UNCHANGED <<g_last_schedule, g_last_schedule_index, straight>>
        \/ /\ g_last_schedule' = [c \in Cell |-> 0] /\ g_last_schedule_index' = 1
           /\ straight' = TRUE
    BY <1>2 DEF StartScan
  <2>3. g_last_schedule' \in [Cell -> Int] /\ g_last_schedule_index' \in Cell
    BY <2>2 DEF TypeOK, Cell
  <2>4. straight' \in BOOLEAN
    BY <2>2 DEF TypeOK
  <2>5. scan' \in 0 .. MAXDEVICENUM + 1
    BY <2>1
  <2>6. tm' \in Minute
    BY <1>1, <2>1
  <2>7. QED
    BY <2>1, <2>3, <2>4, <2>5, <2>6 DEF TypeOK, DayTypeOK
<1>3. CASE EndScan
  <2>1. /\ scan' = None /\ tm' = 0 /\ ticked' = TRUE
        /\ UNCHANGED <<clock, newday, g_last_schedule, g_last_schedule_index>>
        /\ UNCHANGED <<stopped, touched, calm, straight, disturbed>>
    BY <1>3 DEF EndScan, trace
  <2>2. 0 \in Minute
    BY DEF Minute
  <2>3. QED
    BY <2>1, <2>2 DEF TypeOK, DayTypeOK, None
<1>4. CASE SetRunningLog
  <2>1. /\ tm' = (minute - ZONE) % DAY /\ straight' = FALSE
        /\ UNCHANGED <<clock, ticked, scan, newday, g_last_schedule,
                       g_last_schedule_index, stopped, touched, calm, disturbed>>
    BY <1>4 DEF SetRunningLog
  <2>2. \A m \in Int : m % DAY \in 0 .. DAY - 1
    OBVIOUS
  <2>3. tm' \in Minute
    BY <1>1, <2>1, <2>2 DEF Minute
  <2>4. QED
    BY <2>1, <2>3 DEF TypeOK, DayTypeOK
<1>5. CASE Advance
  <2>1. /\ clock' = (clock + 1) % (2 * DAY) /\ ticked' = FALSE
        /\ newday' = (newday \/ clock' = 0)
        /\ UNCHANGED <<scan, tm, g_last_schedule, g_last_schedule_index, straight,
                       disturbed>>
    BY <1>5 DEF Advance
  <2>2. \/ stopped' = {} /\ touched' = {} /\ calm' = TRUE
        \/ UNCHANGED <<stopped, touched, calm>>
    BY <1>5 DEF Advance, NewMinute
  <2>3. \A m \in Nat : m % (2 * DAY) \in 0 .. 2 * DAY - 1
    OBVIOUS
  <2>4. clock' \in 0 .. 2 * DAY - 1
    BY <1>1, <2>1, <2>3
  <2>5. newday' \in BOOLEAN
    BY <2>1
  <2>6. calm' \in BOOLEAN
    BY <2>2 DEF TypeOK
  <2>7. stopped' \subseteq Adapter \X Num /\ touched' \subseteq Adapter
    BY <2>2 DEF TypeOK
  <2>8. QED
    BY <2>1, <2>4, <2>5, <2>6, <2>7 DEF TypeOK, DayTypeOK
<1>6. CASE SetClock
  <2>1. /\ clock' \in {2 * m : m \in Minute} /\ newday' \in {newday, TRUE}
        /\ straight' = FALSE /\ stopped' = {} /\ touched' = {} /\ calm' = TRUE
        /\ UNCHANGED <<ticked, scan, tm, g_last_schedule, g_last_schedule_index,
                       disturbed>>
    BY <1>6 DEF SetClock, NewMinute
  <2>2. \A m \in Minute : 2 * m \in 0 .. 2 * DAY - 1
    BY DEF Minute
  <2>3. clock' \in 0 .. 2 * DAY - 1
    BY <2>1, <2>2
  <2>4. newday' \in BOOLEAN
    BY <2>1 DEF TypeOK
  <2>5. QED
    BY <2>1, <2>3, <2>4 DEF TypeOK, DayTypeOK
<1>7. QED
  BY <1>2, <1>3, <1>4, <1>5, <1>6

(* The daemon starts again, or the list is reset. *)
LEMMA FreshTypes ==
  ASSUME TypeOK, Restart \/ FactoryReset \/ ResetDefault
  PROVE  DayTypeOK'
<1> USE PowerAdaptersAssumption
<1>1. CASE Restart \/ FactoryReset
  <2>1. Fresh /\ Touch(Adapter)
    BY <1>1 DEF Restart, FactoryReset
  <2>2. disturbed' \in BOOLEAN
    BY <1>1 DEF Restart, FactoryReset
  <2>3. touched' \subseteq Adapter
    BY <2>1, TouchTypes DEF TypeOK
  <2>4. /\ ticked' = FALSE /\ scan' = None /\ tm' = 0 /\ newday' = TRUE
        /\ g_last_schedule' = [c \in Cell |-> 0] /\ g_last_schedule_index' = 1
        /\ UNCHANGED <<clock, stopped, calm, straight>>
    BY <2>1 DEF Fresh
  <2>5. /\ g_last_schedule' \in [Cell -> Int] /\ g_last_schedule_index' \in Cell
        /\ tm' \in Minute /\ scan' \in 0 .. MAXDEVICENUM + 1
    BY <2>4 DEF Cell, Minute, None
  <2>6. QED
    BY <2>2, <2>3, <2>4, <2>5 DEF TypeOK, DayTypeOK
<1>2. CASE ResetDefault
  <2>1. /\ UNCHANGED day /\ UNCHANGED <<stopped, touched, calm, straight>>
        /\ disturbed' = (disturbed \/ Running # {})
    BY <1>2 DEF ResetDefault
  <2>2. disturbed' \in BOOLEAN
    BY <2>1
  <2>3. touched' \subseteq Adapter /\ calm' \in BOOLEAN
    BY <2>1 DEF TypeOK
  <2>4. QED
    BY <2>1, <2>2, <2>3, ListStepTypes
<1>3. QED
  BY <1>1, <1>2

(* Everything begins within its type. *)
LEMMA InitTypeOK == Init => TypeOK
<1> SUFFICES ASSUME Init
             PROVE  TypeOK
  OBVIOUS
<1>1. ListTypeOK
  BY InitIInv DEF IInv
<1>2. /\ clock \in 0 .. 2 * DAY - 1 /\ tm \in Minute /\ scan \in 0 .. MAXDEVICENUM + 1
      /\ g_last_schedule_index \in Cell
  BY PowerAdaptersAssumption DEF Init, Cell, Minute, None
<1>3. g_last_schedule \in [Cell -> Int]
  BY DEF Init
<1>4. stopped = {} /\ touched = {}
  BY DEF Init
<1>5. ticked \in BOOLEAN /\ newday \in BOOLEAN /\ calm \in BOOLEAN
  BY DEF Init
<1>6. straight \in BOOLEAN /\ disturbed \in BOOLEAN
  BY DEF Init
<1>7. QED
  BY <1>1, <1>2, <1>3, <1>4, <1>5, <1>6 DEF TypeOK

(* Every step of the adapters keeps to the types. *)
LEMMA StepTypeOK == IInv /\ TypeOK /\ [Next]_vars => TypeOK'
<1> SUFFICES ASSUME IInv, TypeOK, [Next]_vars
             PROVE  TypeOK'
  OBVIOUS
<1>1. ListTypeOK'
  BY StepIInv DEF IInv
<1>2. ASSUME DayTypeOK'
      PROVE  TypeOK'
  BY <1>1, <1>2 DEF TypeOK, DayTypeOK
<1>3. ASSUME NEW d \in Adapter,
             \/ Pair(d) \/ GiveUp(d) \/ DeleteDev(d) \/ setPAofftime(d) \/ Scenario(d)
             \/ \E num \in Num : \/ delsched(d, num)
                                 \/ \E plan \in Plan : setsched(d, num, plan)
      PROVE  DayTypeOK'
  BY <1>3, AdapterTypes
<1>4. ASSUME NEW t \in Timer, Expire(t)
      PROVE  DayTypeOK'
  <2>1. UNCHANGED day /\ UNCHANGED trace
    BY <1>4 DEF Expire
  <2>2. UNCHANGED <<stopped, touched, calm, straight, disturbed>>
    BY <2>1 DEF trace
  <2>3. QED
    BY <2>1, <2>2, ListStepTypes DEF TypeOK
<1>5. CASE ScanAdapter
  BY <1>5, ScanTypes
<1>6. CASE StartScan \/ EndScan \/ SetRunningLog \/ Advance \/ SetClock
  BY <1>6, ClockTypes, <1>2
<1>7. CASE Restart \/ FactoryReset \/ ResetDefault
  BY <1>7, FreshTypes, <1>2
<1>8. CASE UNCHANGED vars
  <2>1. UNCHANGED day /\ UNCHANGED <<stopped, touched, calm, straight, disturbed>>
    BY <1>8 DEF vars, trace
  <2>2. QED
    BY <2>1, ListStepTypes, <1>2 DEF TypeOK
<1>9. QED
  BY <1>2, <1>3, <1>4, <1>5, <1>6, <1>7, <1>8 DEF Next

\* The list stays within its array with one entry for each adapter, and what a pass
\* notes and sends within the cells of g_last_schedule (addPAproperties,
\* arrangeSchedule), whatever is paired, deleted and set.
THEOREM PowerTypeOK == Spec => []TypeOK
<1>1. IInv /\ TypeOK /\ [Next]_vars => IInv' /\ TypeOK'
  BY StepIInv, StepTypeOK
<1>2. QED
  BY <1>1, InitIInv, InitTypeOK, PTL DEF Spec

-----------------------------------------------------------------------------
(* A schedule that ends is stopped in its minute *)

\* What keeps the keys of starts and stops apart (StopsOfStarts): the sizes of the
\* code's arrays, and fewer than twelve adapters, or no schedule that ends 1111
\* minutes after another one, or itself, begins.
Few == IsFiniteSet(Adapter) /\ Cardinality(Adapter) < 12

Apart ==
  /\ MAXDEVICENUM <= 48 /\ SCHEDULE_MAX_TARGET <= 16
  /\ Few \/ \A p, q \in Plan : q.end # p.start + 1111

\* The cells in use, and the schedules of an adapter.
Place == {x \in Cell : Few => x < 12}
Turn  == 1 .. SCHEDULE_MAX_TARGET

\* The key of a start, and that of a stop.
StartKey(m, x, y) == get_last_time(m, x, y, TRUE)
StopKey(m, x, y)  == get_last_time(m, x, y, FALSE)

\* What a pass of this day may have noted until now.
Noted(v) ==
  \/ v = 0
  \/ \E m \in 0 .. minute, x \in Place, y \in Turn :
       \/ v = StopKey(m, x, y)
       \/ v = StartKey(m, x, y) /\ \E p \in Plan : p.start = m

\* Every note is one of this day, and no stop of this minute is noted from a cell on.
Known == \A c \in Cell : Noted(g_last_schedule[c])

Unsent(from) ==
  \A c \in Cell, x \in Place, y \in Turn :
    from <= x /\ (\E q \in Plan : q.end = minute)
      => g_last_schedule[c] # StopKey(minute, x, y)

Awaits(d, s) == s.plan.onoff /\ s.plan.end = minute /\ d \in paired /\ d \notin touched

\* All that ends in this minute in cell x was stopped.
Served(x) ==
  \A y \in 1 .. Len(pa_proplist[x].schedlist) :
    Awaits(pa_proplist[x].did, pa_proplist[x].schedlist[y])
      => <<pa_proplist[x].did, pa_proplist[x].schedlist[y].num>> \in stopped

AllServed == \A x \in Used : Served(x)

\* Without schedules there is no pass.  A pass compares with the minute it is in,
\* notes what is of this day, and until it comes to a cell nothing keeps it from
\* stopping what ends there: unless all was stopped in this minute before.
PassInv ==
  /\ "schedule" \notin uses => ~ticked /\ scan = None /\ newday
  /\ scan # None => ~ticked /\ ~newday

KeyInv == straight => (scan # None => tm = minute) /\ (~newday => Known)

StopInv ==
  straight /\ calm =>
    /\ scan # None => AllServed \/ (Unsent(scan) /\ \A x \in Used : x < scan => Served(x))
    /\ scan = None /\ ticked => AllServed
    /\ scan = None /\ ~ticked => AllServed \/ newday \/ Unsent(1)

EndsInv == PassInv /\ KeyInv /\ StopInv

(* The places and turns of the code's arrays. *)
LEMMA PlacesAndTurns ==
  ASSUME Apart
  PROVE  /\ \A x \in Place : x \in 1 .. 48 /\ (Few => x < 12)
         /\ \A y \in Turn : y \in 1 .. 16
BY PowerAdaptersAssumption DEF Place, Turn, Cell, Apart

(* No key is 0. *)
LEMMA KeysAreNotZero ==
  ASSUME NEW m \in Nat, NEW x \in Place, NEW y \in Turn
  PROVE  StopKey(m, x, y) # 0
BY DEF StartKey, StopKey, get_last_time, Place, Cell, Turn

(* The key of a stop is that of no other stop. *)
LEMMA StopsDiffer ==
  ASSUME Apart, NEW m \in Nat, NEW n \in Nat, NEW x \in Place, NEW z \in Place,
         NEW y \in Turn, NEW w \in Turn,
         StopKey(m, x, y) = StopKey(n, z, w)
  PROVE  m = n /\ x = z /\ y = w
<1>1. x \in 1 .. 48 /\ z \in 1 .. 48 /\ y \in 1 .. 16 /\ w \in 1 .. 16
  BY PlacesAndTurns
<1>2. QED
  BY <1>1 DEF StopKey, get_last_time

(* The key of a stop in the minute a schedule ends is that of no start in the minute
   one begins. *)
LEMMA StartsAreNoStops ==
  ASSUME Apart, NEW p \in Plan, NEW q \in Plan, NEW x \in Place, NEW z \in Place,
         NEW y \in Turn, NEW w \in Turn,
         StartKey(p.start, x, y) = StopKey(q.end, z, w)
  PROVE  FALSE
<1>1. x \in 1 .. 48 /\ z \in 1 .. 48 /\ y \in 1 .. 16 /\ w \in 1 .. 16
  BY PlacesAndTurns
<1>2. p.start \in Nat /\ q.end \in Nat
  BY PowerAdaptersAssumption DEF Minute
<1>3. \A m, n \in Nat : StartKey(m, x, y) = StopKey(n, z, w) => n = m + 1111 /\ z = x + 11
  <2> TAKE m \in Nat, n \in Nat
  <2> HAVE StartKey(m, x, y) = StopKey(n, z, w)
  <2>1. m * 10000 + (x - 1) * 100 + (y - 1) + 99999999
          = n * 10000 + (z - 1) * 100 + (w - 1) + 88888888
    BY DEF StartKey, StopKey, get_last_time
  <2>2. QED
    BY <1>1, <2>1
<1>4. q.end = p.start + 1111 /\ z = x + 11
  BY <1>2, <1>3
<1>5. ~Few
  BY <1>1, <1>4, PlacesAndTurns
<1>6. QED
  BY <1>4, <1>5 DEF Apart

(* An adapter has its cell among the places, and a schedule its turn. *)
LEMMA UsedAreAPlace ==
  ASSUME TypeOK, NEW x \in Used
  PROVE  /\ x \in Place
         /\ \A y \in 1 .. Len(pa_proplist[x].schedlist) : y \in Turn
<1>1. /\ pa_proplist \in Seq(Entry) /\ paCount \in Nat /\ paCount <= MAXDEVICENUM
      /\ \A u, z \in Used : pa_proplist[u].did = pa_proplist[z].did => u = z
      /\ \A u \in Used : Len(pa_proplist[u].schedlist) <= SCHEDULE_MAX_TARGET
  <2>1. IsList(pa_proplist)
    BY DEF TypeOK, ListTypeOK
  <2>2. pa_proplist \in Seq(Entry) /\ paCount <= MAXDEVICENUM
    BY <2>1 DEF IsList, paCount
  <2>3. paCount \in Nat
    BY <2>2 DEF paCount
  <2>4. \A u, z \in Used : pa_proplist[u].did = pa_proplist[z].did => u = z
    BY <2>1 DEF IsList, Used, paCount
  <2>5. \A u \in Used : Len(pa_proplist[u].schedlist) <= SCHEDULE_MAX_TARGET
    BY <2>1 DEF IsList, Used, paCount
  <2>6. QED
    BY <2>2, <2>3, <2>4, <2>5
<1>2. x \in Cell
  BY <1>1, PowerAdaptersAssumption DEF Used, Cell
<1>3. ASSUME Few
      PROVE  x < 12
  <2> DEFINE f == [u \in Used |-> pa_proplist[u].did]
  <2>1. f \in [Used -> Adapter]
    BY <1>1, Scheduled
  <2>2. IsFiniteSet(Used) /\ Cardinality(Used) = paCount
    <3>1. IsFiniteSet(1 .. paCount)
          /\ Cardinality(1 .. paCount) = IF 1 > paCount THEN 0 ELSE paCount - 1 + 1
      BY <1>1, FS_Interval
    <3>2. QED
      BY <1>1, <3>1 DEF Used
  <2>3. ~(Cardinality(Adapter) < Cardinality(Used))
    <3>1. ASSUME Cardinality(Adapter) < Cardinality(Used)
          PROVE  FALSE
      <4>1. IsFiniteSet(Adapter) /\ IsFiniteSet(Used)
        BY <1>3, <2>2 DEF Few
      <4>2. \E u, z \in Used : u # z /\ f[u] = f[z]
        <5> HIDE DEF f
        <5>1. QED
          BY ONLY <4>1, <2>1, <3>1, FS_PigeonHole
      <4>3. QED
        BY <1>1, <4>2
    <3>2. QED
      BY <3>1
  <2>4. Cardinality(Adapter) \in Nat
    BY <1>3, FS_CardinalityType DEF Few
  <2>5. QED
    BY <1>1, <1>3, <2>2, <2>3, <2>4 DEF Few, Used
<1>4. \A y \in 1 .. Len(pa_proplist[x].schedlist) : y \in Turn
  BY <1>1, Scheduled, PowerAdaptersAssumption DEF Turn
<1>5. QED
  BY <1>2, <1>3, <1>4 DEF Place

\* In a pass p that came to schedule k of cell x: what it noted is of this day, no stop
\* of this minute from the cell on is noted but of those k, and of them what had to
\* be stopped was.
NotedAll(p) == \A c \in Cell : Noted(p.last[c])

NotedUpTo(p, x, k) ==
  \A c \in Cell, z \in Place, w \in Turn :
    /\ x <= z /\ \E q \in Plan : q.end = minute
    /\ p.last[c] = StopKey(minute, z, w)
    => z = x /\ w <= k

StoppedUpTo(p, x, k) ==
  \A y \in 1 .. k :
    Awaits(pa_proplist[x].did, pa_proplist[x].schedlist[y])
      => <<pa_proplist[x].did, pa_proplist[x].schedlist[y].num>> \in p.stopped

(* What one schedule does: nothing, or its key is noted in the next cell. *)
LEMMA ArrangeNotes ==
  ASSUME TypeOK, NEW x \in Used, NEW y \in 1 .. Len(pa_proplist[x].schedlist),
         NEW p \in Pass, tm = minute
  PROVE  \/ /\ Arrange(p, x, y) = p
            /\ Awaits(pa_proplist[x].did, pa_proplist[x].schedlist[y]) =>
                 \E c \in Cell : p.last[c] = StopKey(minute, x, y)
         \/ \E key :
              /\ Arrange(p, x, y).last = [p.last EXCEPT ![p.next] = key]
              /\ \/ key = StopKey(minute, x, y)
                 \/ /\ key = StartKey(minute, x, y)
                    /\ pa_proplist[x].schedlist[y].plan.start = minute
              /\ p.stopped \subseteq Arrange(p, x, y).stopped
              /\ Awaits(pa_proplist[x].did, pa_proplist[x].schedlist[y]) =>
                   <<pa_proplist[x].did, pa_proplist[x].schedlist[y].num>>
                     \in Arrange(p, x, y).stopped
<1> DEFINE d == pa_proplist[x].did
           s == pa_proplist[x].schedlist[y]
           ends == tm = s.plan.end
           key == get_last_time(tm, x, y, ~ends)
           sent == /\ s.plan.onoff /\ d \in paired
                   /\ ends \/ tm = s.plan.start
                   /\ \A c \in Cell : p.last[c] # key
           last == [p.last EXCEPT ![p.next] = key]
           new == [last |-> last,
                   next |-> IF p.next = MAXDEVICENUM THEN 1 ELSE p.next + 1,
                   stopped |-> IF ends THEN p.stopped \cup {<<d, s.num>>} ELSE p.stopped]
<1>1. Arrange(p, x, y) = IF sent THEN new ELSE p
  BY DEF Arrange
<1>2. Awaits(d, s) => ends /\ s.plan.onoff /\ d \in paired
  BY DEF Awaits
<1>3. ends => key = StopKey(minute, x, y)
  <2>1. ASSUME ends
        PROVE  key = StopKey(minute, x, y)
    <3>1. (~ends) = FALSE
      BY <2>1
    <3>2. QED
      BY <3>1 DEF StopKey
  <2>2. QED
    BY <2>1
<1>4. ~ends => key = StartKey(minute, x, y)
  <2>1. ASSUME ~ends
        PROVE  key = StartKey(minute, x, y)
    <3>1. (~ends) = TRUE
      BY <2>1
    <3>2. QED
      BY <3>1 DEF StartKey
  <2>2. QED
    BY <2>1
<1>5. CASE ~sent
  <2>1. Arrange(p, x, y) = p
    BY <1>1, <1>5
  <2>2. ASSUME Awaits(d, s)
        PROVE  \E c \in Cell : p.last[c] = StopKey(minute, x, y)
    BY <1>2, <1>3, <1>5, <2>2
  <2>3. QED
    BY <2>1, <2>2
<1>6. CASE sent /\ ends
  <2>1. Arrange(p, x, y).last = last
        /\ Arrange(p, x, y).stopped = p.stopped \cup {<<d, s.num>>}
    BY <1>1, <1>6
  <2>2. last = [p.last EXCEPT ![p.next] = StopKey(minute, x, y)]
    BY <1>3, <1>6
  <2>3. QED
    BY <2>1, <2>2
<1>7. CASE sent /\ ~ends
  <2>1. Arrange(p, x, y).last = last /\ Arrange(p, x, y).stopped = p.stopped
    BY <1>1, <1>7
  <2>2. last = [p.last EXCEPT ![p.next] = StartKey(minute, x, y)]
    BY <1>4, <1>7
  <2>3. s.plan.start = minute
    BY <1>7
  <2>4. ~Awaits(d, s)
    BY <1>2, <1>7
  <2>5. QED
    BY <2>1, <2>2, <2>3, <2>4
<1>8. QED
  BY <1>5, <1>6, <1>7

(* One schedule keeps what a pass has come to. *)
LEMMA ArrangeKeeps ==
  ASSUME Apart, TypeOK, NEW x \in Used, NEW k \in Nat,
         k + 1 <= Len(pa_proplist[x].schedlist), NEW p \in Pass, tm = minute,
         NotedAll(p)
  PROVE  /\ NotedAll(Arrange(p, x, k + 1))
         /\ p.stopped \subseteq Arrange(p, x, k + 1).stopped
         /\ NotedUpTo(p, x, k) => NotedUpTo(Arrange(p, x, k + 1), x, k + 1)
         /\ NotedUpTo(p, x, k) /\ StoppedUpTo(p, x, k)
              => StoppedUpTo(Arrange(p, x, k + 1), x, k + 1)
<1> DEFINE y == k + 1
           d == pa_proplist[x].did
           s(w) == pa_proplist[x].schedlist[w]
           a == Arrange(p, x, y)
<1>1. /\ y \in 1 .. Len(pa_proplist[x].schedlist) /\ y \in Nat
      /\ \A w \in 1 .. y : w \in 1 .. k \/ w = y
      /\ \A w \in Turn : w <= k => w <= y
      /\ ~(y <= k)
  BY Scheduled, PowerAdaptersAssumption DEF Turn
<1>2. x \in Place /\ y \in Turn /\ x <= x
  BY <1>1, UsedAreAPlace, PowerAdaptersAssumption DEF Place, Cell
<1>3. minute \in Nat /\ minute \in 0 .. minute
  BY MinutesAreNumbers
<1>4. s(y).plan \in Plan
  BY <1>1, Scheduled
<1>5. p.last \in [Cell -> Int] /\ p.next \in Cell
  BY DEF Pass
<1>6. Awaits(d, s(y)) => \E q \in Plan : q.end = minute
  BY <1>4 DEF Awaits
<1> HIDE DEF y
<1>7. CASE /\ a = p
           /\ Awaits(d, s(y)) => \E c \in Cell : p.last[c] = StopKey(minute, x, y)
  <2>1. NotedAll(a) /\ p.stopped \subseteq a.stopped
    BY <1>7
  <2>2. NotedUpTo(p, x, k) => NotedUpTo(a, x, y)
    <3> HIDE DEF a
    <3>1. QED
      BY <1>1, <1>7 DEF NotedUpTo
  <2>3. ASSUME NotedUpTo(p, x, k), StoppedUpTo(p, x, k)
        PROVE  StoppedUpTo(a, x, y)
    <3>1. ~Awaits(d, s(y))
      <4>1. ASSUME Awaits(d, s(y))
            PROVE  FALSE
        <5>1. PICK c \in Cell : p.last[c] = StopKey(minute, x, y)
          BY <1>7, <4>1
        <5>2. y <= k
          BY <1>2, <1>6, <2>3, <4>1, <5>1 DEF NotedUpTo
        <5>3. QED
          BY <1>1, <5>2
      <4>2. QED
        BY <4>1
    <3>2. QED
      <4> HIDE DEF a
      <4>1. QED
        BY <1>1, <1>7, <2>3, <3>1 DEF StoppedUpTo
  <2>4. QED
    BY <2>1, <2>2, <2>3 DEF y
<1>8. ASSUME NEW key, a.last = [p.last EXCEPT ![p.next] = key],
             \/ key = StopKey(minute, x, y)
             \/ key = StartKey(minute, x, y) /\ s(y).plan.start = minute,
             p.stopped \subseteq a.stopped,
             Awaits(d, s(y)) => <<d, s(y).num>> \in a.stopped
      PROVE  /\ NotedAll(a)
             /\ NotedUpTo(p, x, k) => NotedUpTo(a, x, y)
             /\ StoppedUpTo(p, x, k) => StoppedUpTo(a, x, y)
  <2> HIDE DEF a
  <2>1. \A c \in Cell : a.last[c] = key \/ a.last[c] = p.last[c]
    BY <1>5, <1>8
  <2>2. Noted(key)
    BY <1>2, <1>3, <1>4, <1>8 DEF Noted
  <2>3. NotedAll(a)
    BY <2>1, <2>2 DEF NotedAll
  <2>4. ASSUME NotedUpTo(p, x, k), NEW c \in Cell, NEW z \in Place, NEW w \in Turn,
               x <= z, \E q \in Plan : q.end = minute,
               a.last[c] = StopKey(minute, z, w)
        PROVE  z = x /\ w <= y
    <3>1. CASE a.last[c] = p.last[c]
      <4>1. p.last[c] = StopKey(minute, z, w)
        BY <2>4, <3>1
      <4>2. z = x /\ w <= k
        BY <2>4, <4>1 DEF NotedUpTo
      <4>3. QED
        BY <1>1, <4>2
    <3>2. CASE a.last[c] = key
      <4>1. CASE key = StartKey(minute, x, y) /\ s(y).plan.start = minute
        <5>1. PICK p1 \in Plan : p1.start = minute
          BY <1>4, <4>1
        <5>2. PICK q1 \in Plan : q1.end = minute
          BY <2>4
        <5>3. StartKey(minute, x, y) = StopKey(minute, z, w)
          BY <2>4, <3>2, <4>1
        <5>4. StartKey(p1.start, x, y) = StopKey(q1.end, z, w)
          BY <5>1, <5>2, <5>3
        <5>5. QED
          BY <1>2, <5>4, StartsAreNoStops
      <4>2. CASE key = StopKey(minute, x, y)
        <5>1. StopKey(minute, x, y) = StopKey(minute, z, w)
          BY <2>4, <3>2, <4>2
        <5>2. x = z /\ y = w
          BY ONLY Apart, <1>2, <1>3, z \in Place, w \in Turn, <5>1, StopsDiffer
        <5>3. QED
          BY <1>1, <5>2
      <4>3. QED
        BY <1>8, <4>1, <4>2
    <3>3. QED
      BY <2>1, <3>1, <3>2
  <2>5. NotedUpTo(p, x, k) => NotedUpTo(a, x, y)
    BY <2>4 DEF NotedUpTo
  <2>6. StoppedUpTo(p, x, k) => StoppedUpTo(a, x, y)
    BY <1>1, <1>8 DEF StoppedUpTo
  <2>7. QED
    BY <2>3, <2>5, <2>6
<1>9. \/ /\ a = p
         /\ Awaits(d, s(y)) => \E c \in Cell : p.last[c] = StopKey(minute, x, y)
      \/ \E key :
           /\ a.last = [p.last EXCEPT ![p.next] = key]
           /\ \/ key = StopKey(minute, x, y)
              \/ key = StartKey(minute, x, y) /\ s(y).plan.start = minute
           /\ p.stopped \subseteq a.stopped
           /\ Awaits(d, s(y)) => <<d, s(y).num>> \in a.stopped
  BY <1>1, ArrangeNotes
<1>10. CASE \E key :
              /\ a.last = [p.last EXCEPT ![p.next] = key]
              /\ \/ key = StopKey(minute, x, y)
                 \/ key = StartKey(minute, x, y) /\ s(y).plan.start = minute
              /\ p.stopped \subseteq a.stopped
              /\ Awaits(d, s(y)) => <<d, s(y).num>> \in a.stopped
  <2>1. p.stopped \subseteq a.stopped
    BY <1>10
  <2>2. /\ NotedAll(a)
        /\ NotedUpTo(p, x, k) => NotedUpTo(a, x, y)
        /\ StoppedUpTo(p, x, k) => StoppedUpTo(a, x, y)
    BY <1>8, <1>10
  <2>3. QED
    BY <2>1, <2>2 DEF y
<1>11. QED
  BY <1>7, <1>9, <1>10

(* What a pass over the schedules of an adapter has noted and stopped. *)
LEMMA ProgressKeeps ==
  ASSUME Apart, TypeOK, NEW x \in Used, tm = minute, Known
  PROVE  LET p == Progress(x)[Len(pa_proplist[x].schedlist)]
             n == Len(pa_proplist[x].schedlist)
         IN /\ NotedAll(p) /\ stopped \subseteq p.stopped
            /\ Unsent(x) => NotedUpTo(p, x, n) /\ StoppedUpTo(p, x, n)
<1> DEFINE n == Len(pa_proplist[x].schedlist)
           f == Progress(x)
           Good(k) == /\ NotedAll(f[k]) /\ stopped \subseteq f[k].stopped
                      /\ Unsent(x) => NotedUpTo(f[k], x, k) /\ StoppedUpTo(f[k], x, k)
           G == {k \in Nat : k <= n => Good(k)}
<1>1. n \in Nat
  BY Scheduled
<1>2. 0 \in G
  <2>1. f[0].last = g_last_schedule /\ f[0].stopped = stopped
    BY <1>1, ProgressIsThere DEF Begun
  <2> HIDE DEF f
  <2>2. NotedAll(f[0])
    BY <2>1 DEF NotedAll, Known
  <2>3. Unsent(x) => NotedUpTo(f[0], x, 0)
    BY <2>1 DEF Unsent, NotedUpTo
  <2>4. StoppedUpTo(f[0], x, 0)
    BY DEF StoppedUpTo
  <2>5. Good(0)
    BY <2>1, <2>2, <2>3, <2>4
  <2>6. QED
    BY <2>5
<1>3. ASSUME NEW k \in G
      PROVE  k + 1 \in G
  <2>1. ASSUME k + 1 <= n
        PROVE  Good(k + 1)
    <3>1. k \in Nat /\ k <= n /\ k \in 0 .. n
      BY <1>1, <2>1
    <3>2. Good(k)
      BY <3>1
    <3>3. f[k] \in Pass
      BY <3>1, ProgressTypes
    <3>4. f[k + 1] = Arrange(f[k], x, k + 1)
      BY <1>1, <2>1, <3>1, ProgressIsThere
    <3> DEFINE p == f[k]
    <3>5. p \in Pass /\ NotedAll(p) /\ f[k + 1] = Arrange(p, x, k + 1)
      BY <3>2, <3>3, <3>4
    <3> HIDE DEF f, p
    <3>6. /\ NotedAll(Arrange(p, x, k + 1))
          /\ p.stopped \subseteq Arrange(p, x, k + 1).stopped
          /\ NotedUpTo(p, x, k) => NotedUpTo(Arrange(p, x, k + 1), x, k + 1)
          /\ NotedUpTo(p, x, k) /\ StoppedUpTo(p, x, k)
               => StoppedUpTo(Arrange(p, x, k + 1), x, k + 1)
      BY <2>1, <3>1, <3>5, ArrangeKeeps
    <3>7. QED
      BY <3>2, <3>5, <3>6 DEF p
  <2>2. QED
    BY <2>1
<1>4. G = Nat
  <2>1. G \in SUBSET Nat
    OBVIOUS
  <2> HIDE DEF G
  <2>2. QED
    BY <1>2, <1>3, <2>1, SetInduction
<1>5. Good(n)
  BY <1>1, <1>4
<1>6. QED
  BY <1>5

\* A schedule of an adapter that no step of this minute touched was there before; and
\* while the list stands still in a pass, in that cell.
Drawn ==
  \A z \in Used' : \A y \in 1 .. Len(pa_proplist'[z].schedlist) :
    pa_proplist'[z].did \in paired' /\ pa_proplist'[z].did \notin touched' =>
      \E x \in Used : \E w \in 1 .. Len(pa_proplist[x].schedlist) :
        /\ pa_proplist[x].did = pa_proplist'[z].did
        /\ pa_proplist[x].schedlist[w] = pa_proplist'[z].schedlist[y]
        /\ pa_proplist[x].did \in paired /\ pa_proplist[x].did \notin touched
        /\ calm' /\ scan # None => x = z

(* The list changes, and nothing is stopped. *)
LEMMA ListEndsStep ==
  ASSUME EndsInv, uses' = uses, UNCHANGED day, UNCHANGED <<stopped, straight>>,
         calm' => calm, "schedule" \in uses => Drawn
  PROVE  EndsInv'
<1>1. /\ clock' = clock /\ ticked' = ticked /\ scan' = scan /\ tm' = tm
      /\ newday' = newday /\ g_last_schedule' = g_last_schedule
      /\ minute' = minute /\ stopped' = stopped /\ straight' = straight
  BY DEF day, minute
<1>2. PassInv'
  BY <1>1 DEF EndsInv, PassInv
<1>3. KeyInv'
  BY <1>1 DEF EndsInv, KeyInv, Known, Noted
<1>4. \A x : Unsent(x)' <=> Unsent(x)
  BY <1>1 DEF Unsent
<1>5. ASSUME Drawn, NEW z \in Used',
             \A x \in Used : (calm' /\ scan # None => x = z) => Served(x)
      PROVE  Served(z)'
  <2> SUFFICES ASSUME NEW y \in 1 .. Len(pa_proplist'[z].schedlist),
                      Awaits(pa_proplist[z].did, pa_proplist[z].schedlist[y])'
               PROVE  <<pa_proplist'[z].did, pa_proplist'[z].schedlist[y].num>> \in stopped
    BY <1>1 DEF Served
  <2>1. PICK x \in Used : \E w \in 1 .. Len(pa_proplist[x].schedlist) :
          /\ pa_proplist[x].did = pa_proplist'[z].did
          /\ pa_proplist[x].schedlist[w] = pa_proplist'[z].schedlist[y]
          /\ pa_proplist[x].did \in paired /\ pa_proplist[x].did \notin touched
          /\ calm' /\ scan # None => x = z
    BY <1>5 DEF Drawn, Awaits
  <2>2. PICK w \in 1 .. Len(pa_proplist[x].schedlist) :
          /\ pa_proplist[x].did = pa_proplist'[z].did
          /\ pa_proplist[x].schedlist[w] = pa_proplist'[z].schedlist[y]
          /\ pa_proplist[x].did \in paired /\ pa_proplist[x].did \notin touched
          /\ calm' /\ scan # None => x = z
    BY <2>1
  <2>3. Awaits(pa_proplist[x].did, pa_proplist[x].schedlist[w])
    BY <1>1, <2>2 DEF Awaits
  <2>4. Served(x)
    BY <1>5, <2>2
  <2>5. QED
    BY <2>2, <2>3, <2>4 DEF Served
<1>6. CASE Drawn
  <2>1. AllServed => AllServed'
    BY <1>5, <1>6 DEF AllServed
  <2>2. ASSUME calm', scan # None, \A x \in Used : x < scan => Served(x)
        PROVE  \A z \in Used' : z < scan => Served(z)'
    <3> SUFFICES ASSUME NEW z \in Used', z < scan
                 PROVE  Served(z)'
      OBVIOUS
    <3>1. \A x \in Used : (calm' /\ scan # None => x = z) => Served(x)
      BY <2>2
    <3>2. QED
      BY <1>5, <1>6, <3>1
  <2>3. StopInv'
    BY <1>1, <1>4, <2>1, <2>2 DEF EndsInv, StopInv
  <2>4. QED
    BY <1>2, <1>3, <2>3 DEF EndsInv
<1>7. CASE "schedule" \notin uses
  <2>1. scan' = None /\ ~ticked' /\ newday'
    BY <1>1, <1>7 DEF EndsInv, PassInv
  <2>2. StopInv'
    BY <2>1 DEF StopInv
  <2>3. QED
    BY <1>2, <1>3, <2>2 DEF EndsInv
<1>8. QED
  BY <1>6, <1>7

(* The same list, of which no more is paired but what is touched. *)
LEMMA SameListDrawn ==
  ASSUME pa_proplist' = pa_proplist, touched \subseteq touched',
         paired' \subseteq paired \cup touched'
  PROVE  Drawn
BY DEF Drawn, Used, paCount

(* An adapter is paired. *)
LEMMA PairEnds ==
  ASSUME IInv, EndsInv, NEW d \in Adapter, Pair(d)
  PROVE  EndsInv'
<1> DEFINE e == [did |-> d, duration |-> FALSE, schedlist |-> <<>>]
<1>1. PICK gone \in {{}} \cup {{g} : g \in paired} :
        /\ paired' = (paired \ gone) \cup {d}
        /\ Touch(gone \cup {d})
        /\ IF Of(d) = {} THEN AddProperties(d, paired \ gone)
           ELSE UNCHANGED <<pa_proplist, timerid, file, calm>>
  BY DEF Pair
<1>2. /\ uses' = uses /\ UNCHANGED day /\ UNCHANGED <<stopped, straight>>
  BY DEF Pair
<1>3. calm' = calm \/ calm' = (calm /\ scan = None)
  BY <1>1 DEF AddProperties
<1>4. calm' => calm
  BY <1>3
<1>5. ASSUME "schedule" \in uses
      PROVE  Drawn
  <2>1. touched' = touched \cup gone \cup {d}
    BY <1>1, <1>5 DEF Touch
  <2>2. CASE Of(d) # {}
    BY <1>1, <2>1, <2>2, SameListDrawn
  <2>3. CASE Of(d) = {} /\ ~Full
    <3>1. /\ pa_proplist' = Append(pa_proplist, e)
          /\ timerid' = [timerid EXCEPT ![paCount + 1] = None]
      BY <1>1, <2>3 DEF AddProperties
    <3>2. e \in Entry /\ e.did = d /\ e.schedlist = <<>>
      BY EmptySeq DEF Entry
    <3> HIDE DEF e
    <3>3. /\ Used' = Used \cup {paCount + 1}
          /\ \A x \in Used : pa_proplist'[x] = pa_proplist[x]
      BY <2>3, <3>1, <3>2, AppendedEntry
    <3>4. pa_proplist'[paCount + 1] = e
      BY <3>1, <3>2, AppendProperties DEF IInv, ListTypeOK, IsList, paCount
    <3>5. QED
      BY <1>1, <2>1, <3>2, <3>3, <3>4 DEF Drawn
  <2>4. CASE Of(d) = {} /\ Full
    <3> DEFINE K == {x \in Used : pa_proplist[x].did \in paired \ gone}
    <3>1. PICK kept \in InOrder(K) :
            LET n == IF Len(kept) >= MAXDEVICENUM THEN MAXDEVICENUM - 1 ELSE Len(kept)
            IN /\ pa_proplist' = [x \in 1 .. n + 1 |->
                                    IF x <= n THEN pa_proplist[kept[x]] ELSE e]
               /\ calm' = (calm /\ scan = None)
      BY <1>1, <2>4 DEF AddProperties
    <3> DEFINE n == IF Len(kept) >= MAXDEVICENUM THEN MAXDEVICENUM - 1 ELSE Len(kept)
    <3>2. paCount \in Nat
      BY UsedAreCells
    <3>3. PICK m \in 0 .. paCount : kept \in [1 .. m -> K]
      BY DEF InOrder
    <3>4. m \in Nat /\ Len(kept) = m
      BY <3>2, <3>3, IsSeq
    <3>5. n \in Nat /\ n <= m
      BY <3>4, PowerAdaptersAssumption
    <3>6. pa_proplist' = [x \in 1 .. n + 1 |-> IF x <= n THEN pa_proplist[kept[x]] ELSE e]
      BY <3>1
    <3>7. calm' => scan = None
      BY <3>1
    <3> HIDE DEF n
    <3>8. \A z \in 1 .. n : kept[z] \in Used
      BY <3>3, <3>4, <3>5
    <3>9. n + 1 \in Nat /\ \A z \in 1 .. n + 1 : z \in 1 .. n \/ z = n + 1
      BY <3>5
    <3>10. /\ \A z \in 1 .. n : pa_proplist'[z] = pa_proplist[kept[z]]
           /\ pa_proplist'[n + 1] = e
      BY <3>5, <3>6
    <3>11. Used' = 1 .. n + 1
      <4>1. IsFiniteSet(1 .. n + 1) /\ DOMAIN pa_proplist' = 1 .. n + 1
        BY <3>6, <3>9, FS_Interval
      <4>2. \A z \in 1 .. n + 1 : pa_proplist'[z] \in {pa_proplist[x] : x \in Used} \cup {e}
        BY <3>8, <3>9, <3>10
      <4>3. pa_proplist' \in [1 .. n + 1 -> {pa_proplist[x] : x \in Used} \cup {e}]
        BY <3>6, <4>2
      <4>4. Len(pa_proplist') = n + 1
        BY <3>9, <4>3, IsSeq
      <4>5. QED
        BY <4>4 DEF Used, paCount
    <3>12. e.did = d /\ paired' \subseteq paired \cup {d}
      BY <1>1
    <3> HIDE DEF e
    <3>13. QED
      BY <2>1, <3>7, <3>8, <3>9, <3>10, <3>11, <3>12 DEF Drawn
  <2>5. QED
    BY <2>2, <2>3, <2>4
<1>6. QED
  BY <1>2, <1>4, <1>5, ListEndsStep

(* An adapter is deleted. *)
LEMMA DeleteDevEnds ==
  ASSUME IInv, EndsInv, NEW d \in Adapter, DeleteDev(d)
  PROVE  EndsInv'
<1>1. /\ paired' = paired \ {d} /\ Touch({d}) /\ uses' = uses /\ UNCHANGED day
      /\ UNCHANGED <<stopped, straight>>
  BY DEF DeleteDev
<1>2. CASE Of(d) = {}
  <2>1. pa_proplist' = pa_proplist /\ calm' = calm
    BY <1>2 DEF DeleteDev
  <2>2. "schedule" \in uses => Drawn
    BY <1>1, <2>1, SameListDrawn DEF Touch
  <2>3. QED
    BY <1>1, <2>1, <2>2, ListEndsStep
<1>3. CASE Of(d) # {}
  <2>1. PICK x \in Of(d) :
          /\ pa_proplist' = [z \in 1 .. paCount - 1 |->
                               IF z = x THEN pa_proplist[paCount] ELSE pa_proplist[z]]
          /\ calm' = (calm /\ scan = None)
    BY <1>3 DEF DeleteDev
  <2>2. /\ x \in Used /\ paCount \in Used /\ paCount - 1 \in Nat /\ paCount \in Nat
        /\ \A z \in Used : pa_proplist[z] \in Entry
        /\ \A z \in 1 .. paCount - 1 : z \in Used
    BY UsedAreCells DEF Of, Used
  <2>3. pa_proplist' \in [1 .. paCount - 1 -> Entry]
    BY <2>1, <2>2
  <2>4. Used' = 1 .. paCount - 1
    BY <2>2, <2>3, IsSeq DEF Used, paCount
  <2>5. \A z \in Used' : \E v \in Used : pa_proplist'[z] = pa_proplist[v]
    BY <2>1, <2>2, <2>4
  <2>6. calm' => calm /\ scan = None
    BY <2>1
  <2>7. ASSUME "schedule" \in uses
        PROVE  Drawn
    <3>1. touched' = touched \cup {d}
      BY <1>1, <2>7 DEF Touch
    <3>2. QED
      BY <1>1, <2>5, <2>6, <3>1 DEF Drawn
  <2>8. QED
    BY <1>1, <2>6, <2>7, ListEndsStep
<1>4. QED
  BY <1>2, <1>3

(* One entry changes, but not whose it is; what schedules it has then it had before,
   unless it is touched. *)
LEMMA OneEntryEnds ==
  ASSUME IInv, EndsInv, NEW x \in Used, NEW e \in Entry, e.did = pa_proplist[x].did,
         pa_proplist' = [pa_proplist EXCEPT ![x] = e],
         UNCHANGED <<uses, paired>>, UNCHANGED day, UNCHANGED <<stopped, calm, straight>>,
         "schedule" \in uses => touched \subseteq touched',
         "schedule" \in uses /\ e.did \notin touched' =>
           \A y \in 1 .. Len(e.schedlist) :
             \E w \in 1 .. Len(pa_proplist[x].schedlist) :
               pa_proplist[x].schedlist[w] = e.schedlist[y]
  PROVE  EndsInv'
<1>1. pa_proplist \in Seq(Entry)
  BY DEF IInv, ListTypeOK, IsList
<1>2. /\ Used' = Used
      /\ \A z \in Used : pa_proplist'[z] = IF z = x THEN e ELSE pa_proplist[z]
  BY <1>1, ExceptSeq DEF Used, paCount
<1>3. ASSUME "schedule" \in uses
      PROVE  Drawn
  <2> SUFFICES ASSUME NEW z \in Used, NEW y \in 1 .. Len(pa_proplist'[z].schedlist),
                      pa_proplist'[z].did \in paired, pa_proplist'[z].did \notin touched'
               PROVE  \E w \in 1 .. Len(pa_proplist[z].schedlist) :
                        /\ pa_proplist[z].did = pa_proplist'[z].did
                        /\ pa_proplist[z].schedlist[w] = pa_proplist'[z].schedlist[y]
                        /\ pa_proplist[z].did \in paired /\ pa_proplist[z].did \notin touched
    BY <1>2 DEF Drawn
  <2>1. CASE z # x
    BY <1>2, <1>3, <2>1
  <2>2. CASE z = x
    <3>1. pa_proplist'[z] = e
      BY <1>2, <2>2
    <3>2. QED
      BY <1>3, <2>2, <3>1
  <2>3. QED
    BY <2>1, <2>2
<1>4. QED
  BY <1>3, ListEndsStep

(* A phone sets the time of an auto-off, or sets or deletes a schedule. *)
LEMMA PhoneEnds ==
  ASSUME IInv, TypeOK, EndsInv, NEW d \in Adapter,
         \/ setPAofftime(d)
         \/ \E num \in Num : \/ delsched(d, num)
                             \/ \E plan \in Plan : setsched(d, num, plan)
  PROVE  EndsInv'
<1>1. \A x \in Of(d) : x \in Used /\ pa_proplist[x] \in Entry /\ pa_proplist[x].did = d
  BY UsedAreCells DEF Of
<1>2. \A x \in Used : /\ pa_proplist[x].schedlist \in Seq(Schedule)
                      /\ Len(pa_proplist[x].schedlist) \in Nat
  BY Scheduled
<1>3. CASE setPAofftime(d)
  <2>1. PICK x \in Of(d), on \in BOOLEAN :
          pa_proplist' = [pa_proplist EXCEPT ![x].duration = on]
    BY <1>3 DEF setPAofftime
  <2> DEFINE e == [pa_proplist[x] EXCEPT !.duration = on]
  <2>2. x \in Used /\ pa_proplist[x] \in Entry
    BY <1>1
  <2>3. /\ e \in Entry /\ e.did = pa_proplist[x].did
        /\ e.schedlist = pa_proplist[x].schedlist
    BY <2>2 DEF Entry
  <2>4. pa_proplist' = [pa_proplist EXCEPT ![x] = e]
    BY <2>1
  <2>5. /\ UNCHANGED <<uses, paired>> /\ UNCHANGED day
        /\ UNCHANGED <<stopped, touched, calm, straight>>
    BY <1>3 DEF setPAofftime, trace
  <2> HIDE DEF e
  <2>6. QED
    BY <2>2, <2>3, <2>4, <2>5, OneEntryEnds
<1>4. ASSUME NEW num \in Num, delsched(d, num)
      PROVE  EndsInv'
  <2> DEFINE without(s, y) ==
               [z \in 1 .. Len(s) - 1 |-> IF z = y THEN s[Len(s)] ELSE s[z]]
  <2>1. PICK x \in Of(d) : \E y \in At(pa_proplist[x].schedlist, num) :
          pa_proplist' = [pa_proplist EXCEPT ![x].schedlist =
                            without(pa_proplist[x].schedlist, y)]
    BY <1>4 DEF delsched
  <2> DEFINE scheds == pa_proplist[x].schedlist
  <2>2. PICK y \in At(scheds, num) :
          pa_proplist' = [pa_proplist EXCEPT ![x].schedlist = without(scheds, y)]
    BY <2>1
  <2> DEFINE e == [pa_proplist[x] EXCEPT !.schedlist = without(scheds, y)]
  <2>3. x \in Used /\ pa_proplist[x] \in Entry
    BY <1>1
  <2>4. scheds \in Seq(Schedule) /\ Len(scheds) \in Nat /\ y \in 1 .. Len(scheds)
    BY <1>2, <2>3 DEF At
  <2>5. without(scheds, y) \in [1 .. Len(scheds) - 1 -> Schedule] /\ Len(scheds) - 1 \in Nat
    BY <2>4
  <2>6. without(scheds, y) \in Seq(Schedule) /\ Len(without(scheds, y)) = Len(scheds) - 1
    BY <2>5, IsSeq
  <2>7. \A z \in 1 .. Len(scheds) - 1 :
          \E w \in 1 .. Len(scheds) : scheds[w] = without(scheds, y)[z]
    <3> TAKE z \in 1 .. Len(scheds) - 1
    <3>1. Len(scheds) \in 1 .. Len(scheds) /\ z \in 1 .. Len(scheds)
      BY <2>4
    <3>2. without(scheds, y)[z] = IF z = y THEN scheds[Len(scheds)] ELSE scheds[z]
      OBVIOUS
    <3> HIDE DEF without
    <3>3. QED
      BY <3>1, <3>2
  <2> HIDE DEF without
  <2>8. /\ e \in Entry /\ e.did = pa_proplist[x].did
        /\ e.schedlist = without(scheds, y)
    BY <2>3, <2>6 DEF Entry
  <2>9. pa_proplist' = [pa_proplist EXCEPT ![x] = e]
    BY <2>2
  <2>10. /\ UNCHANGED <<uses, paired>> /\ UNCHANGED day
         /\ UNCHANGED <<stopped, touched, calm, straight>>
    BY <1>4 DEF delsched, trace
  <2>11. \A z \in 1 .. Len(e.schedlist) :
           \E w \in 1 .. Len(pa_proplist[x].schedlist) :
             pa_proplist[x].schedlist[w] = e.schedlist[z]
    BY <2>6, <2>7, <2>8
  <2> HIDE DEF e
  <2>12. QED
    BY <2>3, <2>8, <2>9, <2>10, <2>11, OneEntryEnds
<1>5. ASSUME NEW num \in Num, NEW plan \in Plan, setsched(d, num, plan)
      PROVE  EndsInv'
  <2>1. PICK x \in Of(d) : \E ss :
          pa_proplist' = [pa_proplist EXCEPT ![x].schedlist = ss]
    BY <1>5 DEF setsched
  <2>2. PICK ss : pa_proplist' = [pa_proplist EXCEPT ![x].schedlist = ss]
    BY <2>1
  <2> DEFINE e == [pa_proplist[x] EXCEPT !.schedlist = ss]
  <2>3. x \in Used /\ pa_proplist[x] \in Entry /\ pa_proplist[x].did = d
    BY <1>1
  <2>4. pa_proplist \in Seq(Entry)
    BY DEF IInv, ListTypeOK, IsList
  <2>5. pa_proplist' = [pa_proplist EXCEPT ![x] = e]
    BY <2>2
  <2>6. IsList(pa_proplist') /\ Len(pa_proplist') = Len(pa_proplist)
    <3>1. IInv'
      BY <1>5, setschedStep
    <3>2. DOMAIN pa_proplist' = DOMAIN pa_proplist /\ pa_proplist' \in Seq(Entry)
      BY <2>4, <2>5, <3>1 DEF IInv, ListTypeOK, IsList
    <3>3. QED
      BY <2>4, <3>1, <3>2, LenProperties DEF IInv, ListTypeOK, IsList
  <2>7. e \in Entry
    <3>1. pa_proplist'[x] = e
      BY <2>3, <2>4, <2>5 DEF Used, paCount
    <3>2. pa_proplist'[x] \in Entry
      BY <2>3, <2>6, ElementOfSeq DEF IsList, Used, paCount
    <3>3. QED
      BY <3>1, <3>2
  <2>8. e.did = pa_proplist[x].did
    BY <2>3 DEF Entry
  <2>9. /\ UNCHANGED <<uses, paired>> /\ UNCHANGED day
        /\ UNCHANGED <<stopped, calm, straight>>
    BY <1>5 DEF setsched
  <2>10. touched' = touched \cup {d}
    BY <1>5 DEF setsched, Touch
  <2> HIDE DEF e
  <2>11. QED
    BY <2>3, <2>5, <2>7, <2>8, <2>9, <2>10, OneEntryEnds
<1>6. QED
  BY <1>3, <1>4, <1>5

(* The list stays as it is, or is emptied. *)
LEMMA OtherListEnds ==
  ASSUME EndsInv,
         \/ \E d \in Adapter : GiveUp(d) \/ Scenario(d)
         \/ \E t \in Timer : Expire(t)
         \/ ResetDefault \/ UNCHANGED vars
  PROVE  EndsInv'
<1>1. CASE ResetDefault
  <2>1. /\ uses' = uses /\ UNCHANGED day /\ UNCHANGED <<stopped, straight>>
        /\ pa_proplist' = <<>> /\ calm' = calm
    BY <1>1 DEF ResetDefault
  <2>2. Used' = {}
    BY <2>1 DEF Used, paCount
  <2>3. QED
    BY <2>1, <2>2, ListEndsStep DEF Drawn
<1>2. ASSUME NEW d \in Adapter, GiveUp(d)
      PROVE  EndsInv'
  <2>1. /\ uses' = uses /\ UNCHANGED day /\ UNCHANGED <<stopped, straight>>
        /\ pa_proplist' = pa_proplist /\ calm' = calm
        /\ paired' = paired \ {d} /\ Touch({d})
    BY <1>2 DEF GiveUp
  <2>2. "schedule" \in uses => Drawn
    BY <2>1, SameListDrawn DEF Touch
  <2>3. QED
    BY <2>1, <2>2, ListEndsStep
<1>3. CASE \/ \E d \in Adapter : Scenario(d)
           \/ \E t \in Timer : Expire(t)
           \/ UNCHANGED vars
  <2>1. /\ uses' = uses /\ UNCHANGED day /\ UNCHANGED trace
        /\ pa_proplist' = pa_proplist /\ paired' = paired
    BY <1>3 DEF Scenario, Expire, vars, list
  <2>2. UNCHANGED <<stopped, touched, calm, straight>>
    BY <2>1 DEF trace
  <2>3. Drawn
    BY <2>1, <2>2, SameListDrawn
  <2>4. QED
    BY <2>1, <2>2, <2>3, ListEndsStep
<1>4. QED
  BY <1>1, <1>2, <1>3

(* Another adapter is done in a pass: of what ends in this minute, either all was
   stopped before, or now what is in its cell. *)
LEMMA ScanEnds ==
  ASSUME Apart, TypeOK, EndsInv, ScanAdapter
  PROVE  EndsInv'
<1>1. /\ scan \in Used /\ scan' = scan + 1
      /\ UNCHANGED <<list, timer, clock, ticked, tm, newday, touched, calm, straight>>
  BY DEF ScanAdapter
<1> PICK x \in Used : x = scan
  BY <1>1
<1> DEFINE n == Len(pa_proplist[x].schedlist)
           p == Progress(x)[n]
<1>2. /\ pa_proplist' = pa_proplist /\ paired' = paired /\ uses' = uses
      /\ minute' = minute /\ Used' = Used /\ touched' = touched
      /\ calm' = calm /\ straight' = straight /\ tm' = tm /\ newday' = newday
      /\ ticked' = ticked /\ scan' = x + 1
  BY <1>1 DEF list, minute, Used, paCount
<1>3. g_last_schedule' = p.last /\ stopped' = p.stopped
  BY ScanIsProgress
<1>4. /\ paCount \in Nat /\ x \in Nat /\ x # None /\ x + 1 # None
      /\ \A z \in Used : z \in Nat /\ (z < x + 1 => z < x \/ z = x)
  BY <1>1 DEF TypeOK, ListTypeOK, IsList, Used, paCount, None
<1>5. ~ticked /\ ~newday /\ "schedule" \in uses
  BY <1>4 DEF EndsInv, PassInv
<1>6. PassInv'
  BY <1>2, <1>4, <1>5 DEF PassInv
<1>7. CASE ~straight
  BY <1>2, <1>6, <1>7 DEF EndsInv, KeyInv, StopInv
<1>8. CASE straight
  <2>1. tm = minute /\ Known
    BY <1>4, <1>5, <1>8 DEF EndsInv, KeyInv
  <2>2. /\ NotedAll(p) /\ stopped \subseteq p.stopped
        /\ Unsent(x) => NotedUpTo(p, x, n) /\ StoppedUpTo(p, x, n)
    BY <2>1, ProgressKeeps
  <2> HIDE DEF p
  <2>3. Known'
    BY <1>2, <1>3, <2>2 DEF Known, NotedAll, Noted
  <2>4. KeyInv'
    BY <1>2, <2>1, <2>3 DEF KeyInv
  <2>5. \A z \in Used : Served(z) => Served(z)'
    BY <1>2, <1>3, <2>2 DEF Served, Awaits
  <2>6. ASSUME Unsent(x)
        PROVE  Unsent(scan)'
    <3> SUFFICES ASSUME NEW c \in Cell, NEW z \in Place, NEW y \in Turn, x + 1 <= z,
                        \E q \in Plan : q.end = minute,
                        p.last[c] = StopKey(minute, z, y)
                 PROVE  FALSE
      BY <1>2, <1>3 DEF Unsent
    <3>1. z \in Nat /\ x <= z /\ z # x
      BY <1>4 DEF Place, Cell
    <3>2. QED
      BY <2>2, <2>6, <3>1 DEF NotedUpTo
  <2>7. ASSUME Unsent(x)
        PROVE  Served(x)'
    BY <1>2, <1>3, <2>2, <2>7 DEF Served, Awaits, StoppedUpTo
  <2>8. ASSUME calm
        PROVE  AllServed' \/ (Unsent(scan)' /\ \A z \in Used : z < x + 1 => Served(z)')
    <3>1. AllServed \/ (Unsent(x) /\ \A z \in Used : z < x => Served(z))
      BY <1>4, <1>8, <2>8 DEF EndsInv, StopInv
    <3>2. CASE AllServed
      BY <1>2, <2>5, <3>2 DEF AllServed
    <3>3. CASE Unsent(x) /\ \A z \in Used : z < x => Served(z)
      BY <1>4, <2>5, <2>6, <2>7, <3>3
    <3>4. QED
      BY <3>1, <3>2, <3>3
  <2>9. StopInv'
    BY <1>2, <1>4, <2>8 DEF StopInv
  <2>10. QED
    BY <1>6, <2>4, <2>9 DEF EndsInv
<1>9. QED
  BY <1>7, <1>8

(* A pass begins. *)
LEMMA StartScanEnds ==
  ASSUME Apart, TypeOK, EndsInv, StartScan
  PROVE  EndsInv'
<1>1. /\ "schedule" \in uses /\ scan = None /\ ~ticked /\ scan' = 1 /\ tm' = minute
      /\ ~newday'
      /\ UNCHANGED <<list, timer, clock, ticked, stopped, touched, calm>>
  BY DEF StartScan
<1>2. /\ pa_proplist' = pa_proplist /\ paired' = paired /\ uses' = uses
      /\ minute' = minute /\ Used' = Used
  BY <1>1 DEF list, minute, Used, paCount
<1>3. PassInv'
  BY <1>1, <1>2 DEF PassInv, None
<1>4. AllServed' <=> AllServed
  BY <1>1, <1>2 DEF AllServed, Served, Awaits
<1>5. \A z \in Used' : ~(z < 1)
  BY <1>2 DEF TypeOK, ListTypeOK, IsList, Used, paCount
<1>6. CASE newday
  <2>1. g_last_schedule' = [c \in Cell |-> 0] /\ straight'
    BY <1>6 DEF StartScan
  <2>2. Known'
    BY <2>1 DEF Known, Noted
  <2>3. Unsent(1)'
    <3>1. minute' \in Nat
      BY <1>2, MinutesAreNumbers
    <3>2. PICK m \in Nat : m = minute'
      BY <3>1
    <3>3. \A x \in Place, y \in Turn : StopKey(m, x, y) # 0
      BY KeysAreNotZero
    <3>4. QED
      BY <2>1, <3>2, <3>3 DEF Unsent
  <2>4. QED
    BY <1>1, <1>2, <1>3, <1>5, <2>2, <2>3 DEF EndsInv, KeyInv, StopInv, None
<1>7. CASE ~newday
  <2>1. g_last_schedule' = g_last_schedule /\ straight' = straight
    BY <1>7 DEF StartScan
  <2>2. Known' <=> Known
    BY <1>2, <2>1 DEF Known, Noted
  <2>3. Unsent(1)' <=> Unsent(1)
    BY <1>2, <2>1 DEF Unsent
  <2>4. KeyInv'
    BY <1>1, <1>2, <1>7, <2>1, <2>2 DEF EndsInv, KeyInv
  <2>5. StopInv'
    BY <1>1, <1>2, <1>4, <1>5, <1>7, <2>1, <2>3 DEF EndsInv, StopInv, None
  <2>6. QED
    BY <1>3, <2>4, <2>5 DEF EndsInv
<1>8. QED
  BY <1>6, <1>7

(* A pass ends behind the last adapter. *)
LEMMA EndScanEnds ==
  ASSUME Apart, TypeOK, EndsInv, EndScan
  PROVE  EndsInv'
<1>1. /\ scan > paCount /\ scan' = None /\ ticked'
      /\ UNCHANGED <<list, timer, clock, newday, g_last_schedule>>
      /\ UNCHANGED <<stopped, touched, calm, straight>>
  BY DEF EndScan, trace
<1>2. /\ pa_proplist' = pa_proplist /\ paired' = paired /\ uses' = uses
      /\ minute' = minute /\ Used' = Used
  BY <1>1 DEF list, minute, Used, paCount
<1>3. scan # None /\ \A x \in Used : x < scan
  BY <1>1 DEF TypeOK, ListTypeOK, IsList, Used, paCount, None
<1>4. ~newday /\ "schedule" \in uses
  BY <1>3 DEF EndsInv, PassInv
<1>5. PassInv'
  BY <1>1, <1>2, <1>4 DEF PassInv
<1>6. KeyInv'
  BY <1>1, <1>2 DEF EndsInv, KeyInv, Known, Noted
<1>7. AllServed' <=> AllServed
  BY <1>1, <1>2 DEF AllServed, Served, Awaits
<1>8. straight /\ calm => AllServed
  BY <1>3 DEF EndsInv, StopInv, AllServed
<1>9. StopInv'
  BY <1>1, <1>7, <1>8 DEF StopInv
<1>10. QED
  BY <1>5, <1>6, <1>9 DEF EndsInv

(* Half a minute passes: a minute whose schedules were all stopped, or the next begins,
   of which nothing is noted. *)
LEMMA AdvanceEnds ==
  ASSUME Apart, TypeOK, EndsInv, Advance
  PROVE  EndsInv'
<1>1. /\ scan = None /\ ticked /\ clock' = (clock + 1) % (2 * DAY) /\ ~ticked'
      /\ scan' = None /\ newday' = (newday \/ clock' = 0)
      /\ IF clock' % 2 = 0 THEN NewMinute ELSE UNCHANGED <<stopped, touched, calm>>
      /\ UNCHANGED <<list, g_last_schedule, straight>>
  BY DEF Advance
<1>2. /\ pa_proplist' = pa_proplist /\ paired' = paired /\ uses' = uses /\ Used' = Used
  BY <1>1 DEF list, Used, paCount
<1>3. "schedule" \in uses
  BY <1>1 DEF EndsInv, PassInv
<1>4. PassInv'
  BY <1>1, <1>2, <1>3 DEF PassInv
<1>5. \A c \in 0 .. 2 * DAY - 1 :
        /\ (c + 1) % (2 * DAY) = c + 1 \/ (c + 1) % (2 * DAY) = 0
        /\ c \div 2 \in Nat /\ (c + 1) \div 2 \in Nat
        /\ (c + 1) % 2 = 0 => (c + 1) \div 2 = (c \div 2) + 1
        /\ (c + 1) % 2 # 0 => (c + 1) \div 2 = c \div 2
  <2> TAKE c \in 0 .. 2 * DAY - 1
  <2>1. DAY \in Nat /\ DAY # 0 /\ c \in Nat
    BY PowerAdaptersAssumption
  <2>2. (c + 1) % (2 * DAY) = c + 1 \/ (c + 1) % (2 * DAY) = 0
    <3>1. c + 1 = 2 * DAY \/ c + 1 < 2 * DAY
      BY <2>1
    <3>2. \A m, k \in Nat : m < k => m % k = m
      OBVIOUS
    <3>3. \A k \in Nat : k # 0 => k % k = 0
      OBVIOUS
    <3>4. 2 * DAY \in Nat /\ 2 * DAY # 0 /\ c + 1 \in Nat
      BY <2>1
    <3>5. QED
      BY <3>1, <3>2, <3>3, <3>4
  <2>3. /\ c \div 2 \in Nat /\ (c + 1) \div 2 \in Nat
        /\ (c + 1) % 2 = 0 => (c + 1) \div 2 = (c \div 2) + 1
        /\ (c + 1) % 2 # 0 => (c + 1) \div 2 = c \div 2
    BY <2>1
  <2>4. QED
    BY <2>2, <2>3
<1>6. clock \in 0 .. 2 * DAY - 1
  BY DEF TypeOK
<1>7. CASE newday'
  <2>1. CASE clock' % 2 = 0
    BY <1>1, <1>4, <1>7 DEF EndsInv, KeyInv, StopInv
  <2>2. CASE clock' % 2 # 0
    BY <1>1, <1>4, <1>7 DEF EndsInv, KeyInv, StopInv
  <2>3. QED
    BY <2>1, <2>2
<1>8. CASE ~newday'
  <2>1. ~newday /\ clock' = clock + 1
    BY <1>1, <1>5, <1>6, <1>8
  <2>2. CASE clock' % 2 # 0
    <3>1. minute' = minute
      BY <1>5, <1>6, <2>1, <2>2 DEF minute
    <3>2. UNCHANGED <<stopped, touched, calm>>
      BY <1>1, <2>2
    <3>3. AllServed' <=> AllServed
      BY <1>2, <3>1, <3>2 DEF AllServed, Served, Awaits
    <3>4. StopInv'
      BY <1>1, <3>2, <3>3 DEF EndsInv, StopInv
    <3>5. KeyInv'
      BY <1>1, <2>1, <3>1 DEF EndsInv, KeyInv, Known, Noted
    <3>6. QED
      BY <1>4, <3>4, <3>5 DEF EndsInv
  <2>3. CASE clock' % 2 = 0
    <3>1. minute' = minute + 1 /\ minute \in Nat
      BY <1>5, <1>6, <2>1, <2>3 DEF minute
    <3>2. ASSUME Known
          PROVE  Known'
      <4>1. \A m \in 0 .. minute : m \in 0 .. minute'
        BY <3>1
      <4>2. QED
        BY <1>1, <3>2, <4>1 DEF Known, Noted
    <3>3. KeyInv'
      BY <1>1, <2>1, <3>2 DEF EndsInv, KeyInv
    <3>4. ASSUME Known
          PROVE  Unsent(1)'
      <4> PICK n \in Nat : n = minute'
        BY <3>1
      <4> SUFFICES ASSUME NEW c \in Cell, NEW x \in Place, NEW y \in Turn, NEW q \in Plan,
                          q.end = n, g_last_schedule[c] = StopKey(n, x, y)
                   PROVE  FALSE
        BY <1>1 DEF Unsent
      <4>1. Noted(g_last_schedule[c])
        BY <3>4 DEF Known
      <4>2. CASE g_last_schedule[c] = 0
        <5>1. StopKey(n, x, y) # 0
          BY KeysAreNotZero
        <5>2. QED
          BY <4>2, <5>1
      <4>3. ASSUME NEW m \in 0 .. minute, NEW z \in Place, NEW w \in Turn,
                   g_last_schedule[c] = StopKey(m, z, w)
            PROVE  FALSE
        <5>1. m \in Nat /\ m # n
          BY <3>1
        <5>2. StopKey(m, z, w) = StopKey(n, x, y)
          BY <4>3
        <5>3. m = n
          BY <5>1, <5>2, StopsDiffer
        <5>4. QED
          BY <5>1, <5>3
      <4>4. ASSUME NEW z \in Place, NEW w \in Turn, NEW p \in Plan,
                   g_last_schedule[c] = StartKey(p.start, z, w)
            PROVE  FALSE
        <5>1. StartKey(p.start, z, w) = StopKey(q.end, x, y)
          BY <4>4
        <5>2. QED
          BY <5>1, StartsAreNoStops
      <4>5. QED
        BY <4>1, <4>2, <4>3, <4>4 DEF Noted
    <3>5. StopInv'
      BY <1>1, <2>1, <3>4 DEF EndsInv, KeyInv, StopInv
    <3>6. QED
      BY <1>4, <3>3, <3>5 DEF EndsInv
  <2>4. QED
    BY <2>2, <2>3
<1>9. QED
  BY <1>7, <1>8

(* The clock is set, the running log overwrites the time, or the daemon starts. *)
LEMMA OtherDayEnds ==
  ASSUME EndsInv, SetRunningLog \/ SetClock \/ Restart \/ FactoryReset
  PROVE  EndsInv'
<1>1. CASE SetRunningLog
  <2>1. ~straight' /\ UNCHANGED <<list, ticked, scan, newday>>
    BY <1>1 DEF SetRunningLog
  <2>2. QED
    BY <2>1 DEF EndsInv, PassInv, KeyInv, StopInv, list
<1>2. CASE SetClock
  <2>1. /\ ~straight' /\ "schedule" \in uses /\ scan' = None
        /\ UNCHANGED <<list, ticked>>
    BY <1>2 DEF SetClock
  <2>2. QED
    BY <2>1 DEF EndsInv, PassInv, KeyInv, StopInv, list
<1>3. CASE Restart \/ FactoryReset
  <2>1. ~ticked' /\ scan' = None /\ newday' /\ uses' = uses
    BY <1>3 DEF Restart, FactoryReset, Fresh
  <2>2. QED
    BY <2>1 DEF EndsInv, PassInv, KeyInv, StopInv
<1>4. QED
  BY <1>1, <1>2, <1>3

(* At first the day is new. *)
LEMMA InitEnds == Init => EndsInv
BY DEF Init, EndsInv, PassInv, KeyInv, StopInv

(* Every step keeps what passes note and stop. *)
LEMMA StepEnds == Apart /\ IInv /\ TypeOK /\ EndsInv /\ [Next]_vars => EndsInv'
<1> SUFFICES ASSUME Apart, IInv, TypeOK, EndsInv, [Next]_vars
             PROVE  EndsInv'
  OBVIOUS
<1>1. ASSUME NEW d \in Adapter,
             \/ Pair(d) \/ GiveUp(d) \/ DeleteDev(d) \/ setPAofftime(d) \/ Scenario(d)
             \/ \E num \in Num : \/ delsched(d, num)
                                 \/ \E plan \in Plan : setsched(d, num, plan)
      PROVE  EndsInv'
  BY <1>1, PairEnds, DeleteDevEnds, PhoneEnds, OtherListEnds
<1>2. CASE (\E t \in Timer : Expire(t)) \/ ResetDefault \/ UNCHANGED vars
  BY <1>2, OtherListEnds
<1>3. CASE StartScan \/ ScanAdapter \/ EndScan \/ Advance
  BY <1>3, StartScanEnds, ScanEnds, EndScanEnds, AdvanceEnds
<1>4. CASE SetRunningLog \/ SetClock \/ Restart \/ FactoryReset
  BY <1>4, OtherDayEnds
<1>5. QED
  BY <1>1, <1>2, <1>3, <1>4 DEF Next

\* A minute is not over before every schedule that ends in it was stopped
\* (arrangeSchedule, get_last_time), unless an entry moved during a pass or the clock or
\* the running log had a hand in it, as long as no start has the key of a stop.
THEOREM PowerEndsAreSent ==
  ASSUME Apart
  PROVE  Spec => EndsAreSent
<1>1. Init => IInv /\ TypeOK /\ EndsInv
  BY InitIInv, InitTypeOK, InitEnds
<1>2. IInv /\ TypeOK /\ EndsInv /\ [Next]_vars => IInv' /\ TypeOK' /\ EndsInv'
  BY StepIInv, StepTypeOK, StepEnds
<1> DEFINE Over == Advance /\ clock' % 2 = 0 /\ straight /\ calm
           Sent == \A x \in Used : Served(x)
<1>3. EndsInv /\ [Next]_vars => [Over => Sent]_vars
  BY DEF Advance, EndsInv, StopInv, AllServed
<1>4. (Over => Sent) <=>
        (Advance /\ clock' % 2 = 0 /\ straight /\ calm =>
           \A x \in Used : \A y \in 1 .. Len(pa_proplist[x].schedlist) :
             LET d == pa_proplist[x].did
                 s == pa_proplist[x].schedlist[y]
             IN /\ s.plan.onoff /\ s.plan.end = minute
                /\ d \in paired /\ d \notin touched
                => <<d, s.num>> \in stopped)
  BY DEF Served, Awaits
<1>5. EndsInv /\ [Next]_vars =>
        [Advance /\ clock' % 2 = 0 /\ straight /\ calm =>
           \A x \in Used : \A y \in 1 .. Len(pa_proplist[x].schedlist) :
             LET d == pa_proplist[x].did
                 s == pa_proplist[x].schedlist[y]
             IN /\ s.plan.onoff /\ s.plan.end = minute
                /\ d \in paired /\ d \notin touched
                => <<d, s.num>> \in stopped]_vars
  BY <1>3, <1>4
<1> HIDE DEF Over, Sent
<1>6. QED
  BY <1>1, <1>2, <1>5, PTL DEF Spec, EndsAreSent
===============================================================================
