------------------------------- MODULE Devices --------------------------------
(***************************************************************************)
(* The device list of the gateway daemon, the list that supervises the     *)
(* devices, and the list of their scenarios (jsw_protocol.c).              *)
(*                                                                         *)
(* devlist says which devices are paired.  keepalivelist holds, for each,  *)
(* when it was last heard of; it is another array with the same count, so  *)
(* every operation on devlist must do the matching thing to it.  Every     *)
(* four hours checkkeepalive marks the devices that are silent as lost,    *)
(* unless they have been for 3000 hours; a pairing that finds the list     *)
(* full gives up the device that was silent longest.  scenariolist holds   *)
(* what a source of events sets off, plus one entry each for sunrise and   *)
(* sunset.                                                                 *)
(*                                                                         *)
(* Abstracted: the order of devlist beyond "the last one"; its cells from  *)
(* devcount on, of which only an added camera reads anything (the status   *)
(* left there); the targets of a scenario; the clock, which is right and   *)
(* short of 2027, where ipc_reconnect stops, as the time since lastcheckin *)
(* (0 in a cell that was never used: older than all).  Calls do not overlap, and the daemon is        *)
(* restarted between two of them: then the files hold what the lists do,   *)
(* except for the status of the devices, which is that of the last save.   *)
(***************************************************************************)
EXTENDS Integers, Sequences, FiniteSets, SequencesExt

CONSTANTS
  RF,              \* devices that can be paired by radio
  Source,          \* those among them that are sources (isSource)
  Target,          \* those that are targets (isTarget)
  Double,          \* sources with two scenarios: magnetic contacts, buttons
  MaxCamera,       \* bound: numbers of cameras
  MAXDEVICENUM,    \* cells of devlist and keepalivelist
  SCENARIOSIZE,    \* cells of scenariolist
  SUPERVISION,     \* DEF_SUPERVISION_TIMER_DUR, in ticks
  FORGOTTEN,       \* the 3000 hours of checkkeepalive, in ticks
  MaxAge           \* bound: time since a device was heard of

None    == 0                 \* the did of an empty cell
Sunrise == -1                \* entries of the gateway itself in scenariolist
Sunset  == -2
Camera  == 1 .. MaxCamera    \* addCamera counts its dids from 1
Did     == RF \cup Camera
Cell    == 0 .. MAXDEVICENUM - 1

ASSUME DevicesAssumption ==
  /\ RF \cap Int = {}
  /\ Source \subseteq RF /\ Target \subseteq RF /\ Double \subseteq Source
  /\ MaxCamera \in Nat
  /\ MAXDEVICENUM \in Nat \ {0} /\ SCENARIOSIZE \in Nat \ {0}
  /\ SUPERVISION \in Nat \ {0}
  /\ FORGOTTEN \in Nat /\ SUPERVISION < FORGOTTEN
  /\ MaxAge \in Nat /\ FORGOTTEN <= MaxAge

\* Times since lastcheckin; Never stands for lastcheckin = 0.
Never == MaxAge + 1
Age   == 0 .. Never

VARIABLES
  devlist,         \* Cell -> did, the first devcount cells in use
  devcount,
  lost,            \* listed devices whose status is RE_ABUS_AUTOREPORT
  keepalivelist,   \* Cell -> did and age; old entries stay beyond devcount
  scenariolist,    \* the dids of its entries, in order
  quiet,           \* time since each listed device was heard of (history)
  camAdded,        \* a camera was added since the last start (history)
  wiped            \* CM_RESETDEFAULT cleared the scenarios (history)

vars == <<devlist, devcount, lost, keepalivelist, scenariolist, quiet, camAdded, wiped>>

Used(n) == 0 .. n - 1
Listed == {devlist[x] : x \in Used(devcount)}
Sources == Source \cup Camera

TypeOK ==
  /\ devcount \in 0 .. MAXDEVICENUM
  /\ devlist \in [Cell -> Did \cup {None}]
  /\ \A x \in Cell : devlist[x] = None <=> x >= devcount
  /\ lost \subseteq Listed
  /\ keepalivelist \in [Cell -> [did : Did \cup {None}, age : Age]]
  /\ scenariolist \in Seq(Did \cup {Sunrise, Sunset})
  /\ quiet \in [Did -> 0 .. MaxAge]
  /\ camAdded \in BOOLEAN /\ wiped \in BOOLEAN

Blank == [did |-> None, age |-> Never]

Init ==
  /\ devlist = [x \in Cell |-> None] /\ devcount = 0 /\ lost = {}
  /\ keepalivelist = [x \in Cell |-> Blank]
  /\ scenariolist = <<Sunrise, Sunset>>
  /\ quiet = [d \in Did |-> 0]
  /\ camAdded = FALSE /\ wiped = FALSE

-----------------------------------------------------------------------------
(* keepalivelist *)

\* The cells in use that name device d; loops stop at the first one.
Watching(d) == {k \in Used(devcount) : keepalivelist[k].did = d}
First(cells) == CHOOSE k \in cells : \A j \in cells : k <= j

\* newEvent refreshes one entry.
Refreshed(d) ==
  IF Watching(d) = {} THEN keepalivelist
  ELSE [keepalivelist EXCEPT ![First(Watching(d))].age = 0]

\* Mutant of Unwatched: the device list was shortened first.
UnwatchedLate(d) ==
  IF Watching(d) = {} THEN keepalivelist
  ELSE [keepalivelist EXCEPT ![First(Watching(d))] =
          keepalivelist[IF devcount > 1 THEN devcount - 2 ELSE 0]]

\* Mutant of Unwatched: the entry keeps its time.
UnwatchedNameOnly(d) ==
  IF Watching(d) = {} THEN keepalivelist
  ELSE [keepalivelist EXCEPT ![First(Watching(d))].did = keepalivelist[devcount - 1].did]

\* deleteDev moves the last entry into the hole and leaves it where it was.
Unwatched(d) ==
  IF Watching(d) = {} THEN keepalivelist
  ELSE [keepalivelist EXCEPT ![First(Watching(d))] = keepalivelist[devcount - 1]]

\* freeoneDevice makes one pass over a full list: the cells after the first
\* empty one move up and the last is cleared.
Compacted(list, j, blank) ==
  [x \in Cell |-> IF x = MAXDEVICENUM - 1 THEN blank
                  ELSE IF x < j THEN list[x] ELSE list[x + 1]]

Freed(j) ==
  LET emptied == [keepalivelist EXCEPT ![j] = Blank]
  IN Compacted(emptied, First({k \in Cell : emptied[k].did = None}), Blank)

-----------------------------------------------------------------------------
(* scenariolist *)

\* Without the first entry of d, the last one moved into its place.
Cut(s, d) ==
  LET holes == {i \in 1 .. Len(s) : s[i] = d}
  IN IF holes = {} THEN s
     ELSE SubSeq([s EXCEPT ![First(holes)] = s[Len(s)]], 1, Len(s) - 1)

\* deleteDev starts over after each entry it removes; a source has two at most.
Unlinked(s, d) == Cut(Cut(s, d), d)

\* The n-th place among those in K.
Nth(K, n) == CHOOSE i \in K : Cardinality({j \in K : j <= i}) = n

\* Mutant of SortedOut: nothing goes.
SortedOutNot(s, listed) == s

\* sortoutScenario: entries of devices that are not listed go.
SortedOut(s, listed) ==
  LET kept == {i \in 1 .. Len(s) : s[i] \in listed \cup {Sunrise, Sunset}}
  IN [n \in 1 .. Cardinality(kept) |-> s[Nth(kept, n)]]

\* addsource: room is made for one entry, at the cost of the last one if need
\* be; a device with two scenarios takes two.
WithSource(s, d, listed) ==
  LET sorted == IF Len(s) >= SCENARIOSIZE THEN SortedOut(s, listed) ELSE s
      room   == IF Len(sorted) >= SCENARIOSIZE
                THEN SubSeq(sorted, 1, SCENARIOSIZE - 1) ELSE sorted
  IN IF Contains(s, d) THEN s
     ELSE IF d \in Double \cap listed THEN room \o <<d, d>> ELSE Append(room, d)

\* check_add_2_MAG_in_scenario: what a listed magnetic contact or button lacks,
\* two places for each cell of devlist.
Missing(s) ==
  LET lacks(d) == 2 - Cardinality({i \in 1 .. Len(s) : s[i] = d})
      added == {p \in 0 .. 2 * devcount - 1 :
                  devlist[p \div 2] \in Double /\ p % 2 < lacks(devlist[p \div 2])}
  IN [n \in 1 .. Cardinality(added) |-> devlist[Nth(added, n) \div 2]]

\* main: the scenarios are loaded if there are devices; what is missing is added,
\* and sunrise and sunset.
Booted(s) ==
  LET loaded == IF devcount = 0 THEN <<>> ELSE s \o Missing(s)
      risen  == IF Contains(loaded, Sunrise) THEN loaded ELSE Append(loaded, Sunrise)
  IN IF Contains(risen, Sunset) THEN risen ELSE Append(risen, Sunset)

-----------------------------------------------------------------------------
(* Pairing and deleting *)

Heard(d) == quiet' = [quiet EXCEPT ![d] = 0]

\* Mutant of Oldest: any that is silent for four hours will do.
AnyDead == {k \in Cell : \/ keepalivelist[k].age >= SUPERVISION
                         \/ \A j \in Cell : keepalivelist[j].age <= keepalivelist[k].age}

\* freeoneDevice: the first of the oldest entries of keepalivelist names the
\* device that goes.  If that is no listed device, the last one is lost where
\* the array is cut.
Oldest == {k \in Cell : \A j \in Cell : keepalivelist[j].age <= keepalivelist[k].age}

GivenUp == LET d == keepalivelist[First(Oldest)].did
           IN IF d \in Listed THEN d ELSE devlist[MAXDEVICENUM - 1]

PlaceOf(d) == CHOOSE x \in Used(devcount) : devlist[x] = d

\* Mutant of Pair: a full list is not noticed.
PairPastEnd(d) ==
  /\ d \notin Listed
  /\ devlist' = [devlist EXCEPT ![devcount] = d]
  /\ devcount' = devcount + 1
  /\ keepalivelist' = [keepalivelist EXCEPT ![devcount] = [did |-> d, age |-> 0]]
  /\ UNCHANGED <<lost, scenariolist, quiet, camAdded, wiped>>

\* newDevFromMcu in pair mode, for a device of the right type that is not
\* listed: one that is listed changes nothing.
Pair(d) ==
  /\ d \notin Listed
  /\ LET full == devcount = MAXDEVICENUM
         n    == IF full THEN MAXDEVICENUM - 1 ELSE devcount
         devs == IF full THEN Compacted(devlist, PlaceOf(GivenUp), None) ELSE devlist
         keep == IF full THEN Freed(First(Oldest)) ELSE keepalivelist
     IN /\ devlist' = [devs EXCEPT ![n] = d]
        /\ devcount' = n + 1
        /\ lost' = lost \ (IF full THEN {GivenUp} ELSE {})
        /\ keepalivelist' = [keep EXCEPT ![n] = [did |-> d, age |-> 0]]
  /\ scenariolist' = IF d \in Source THEN WithSource(scenariolist, d, Listed') ELSE scenariolist
  /\ quiet' = [e \in Did |-> IF e \in Listed' \ {d} THEN quiet[e] ELSE 0]
  /\ UNCHANGED <<camAdded, wiped>>

\* addNewDevice and addCamera: the did is one more than the largest of a
\* camera; the cell in keepalivelist is left as it is, and so is the status in
\* devlist, whatever it was.  A full list is not noticed: what the code
\* then overwrites is not modelled.
AddCamera ==
  /\ devcount < MAXDEVICENUM
  /\ devcount' = devcount + 1
  /\ \E c \in Camera :
       /\ c = 1 \/ c - 1 \in Listed
       /\ \A b \in Listed \cap Camera : b < c
       /\ devlist' = [devlist EXCEPT ![devcount] = c]
       /\ \E stale \in SUBSET {c} : lost' = lost \cup stale
       /\ scenariolist' = WithSource(scenariolist, c, Listed)
       /\ Heard(c)
  /\ camAdded' = TRUE
  /\ UNCHANGED <<keepalivelist, wiped>>

\* deleteDev, for a phone that may hold an old list.
DeleteDev(d) ==
  /\ keepalivelist' = Unwatched(d)
  /\ IF d \in Listed
     THEN /\ devlist' = [devlist EXCEPT ![PlaceOf(d)] = devlist[devcount - 1],
                                        ![devcount - 1] = None]
          /\ devcount' = devcount - 1
     ELSE UNCHANGED <<devlist, devcount>>
  /\ lost' = lost \ {d}
  /\ scenariolist' = Unlinked(scenariolist, d)
  /\ quiet' = [quiet EXCEPT ![d] = 0]
  /\ UNCHANGED <<camAdded, wiped>>

\* client_sourcelink: a phone asks what a source sets off; if there is no entry, one
\* is made, whether or not the device is listed any more.
client_sourcelink(d) ==
  /\ scenariolist' = WithSource(scenariolist, d, Listed)
  /\ UNCHANGED <<devlist, devcount, lost, keepalivelist, quiet, camAdded, wiped>>

-----------------------------------------------------------------------------
(* Supervision *)

\* mcuCallBack, RE_ABUS_AUTOREPORT of a listed device: all its entries are
\* refreshed; only targets are taken for found again.
AutoReport(d) ==
  /\ d \in Listed
  /\ keepalivelist' = [k \in Cell |-> IF k \in Watching(d)
                                      THEN [keepalivelist[k] EXCEPT !.age = 0]
                                      ELSE keepalivelist[k]]
  /\ lost' = lost \ (IF d \in Target THEN {d} ELSE {})
  /\ Heard(d)
  /\ UNCHANGED <<devlist, devcount, scenariolist, camAdded, wiped>>

\* newEvent for a listed device: a report of it, a low battery, which leaves
\* the status alone, or a command to it, which counts as heard of.
Event(d) ==
  /\ d \in Listed
  /\ keepalivelist' = Refreshed(d)
  /\ \/ lost' = lost \ {d}
     \/ d \in RF /\ lost' = lost
  /\ Heard(d)
  /\ UNCHANGED <<devlist, devcount, scenariolist, camAdded, wiped>>

\* editDev: the phone's copy of the device replaces it, status included.
EditDev(d) ==
  /\ d \in Listed
  /\ \/ lost' = lost \ {d}
     \/ lost' = lost \cup {d}
  /\ UNCHANGED <<devlist, devcount, keepalivelist, scenariolist, quiet, camAdded, wiped>>

\* checkkeepalive takes 4 hours <= x < 3000 hours for silence; what is older is
\* no time that was ever set, or so the code has it.
Silent == {k \in Used(devcount) : keepalivelist[k].age \in SUPERVISION .. FORGOTTEN - 1}

checkkeepalive ==
  /\ lost' = lost \cup ({keepalivelist[k].did : k \in Silent} \cap Listed)
  /\ UNCHANGED <<devlist, devcount, keepalivelist, scenariolist, quiet, camAdded, wiped>>

\* ipc_reconnect, every three minutes: a cell in use that was never filled.
ipc_reconnect ==
  /\ \E k \in Used(devcount) : keepalivelist[k].age = Never
  /\ keepalivelist' = [k \in Cell |->
       IF k < devcount /\ keepalivelist[k].age = Never
       THEN [keepalivelist[k] EXCEPT !.age = 0] ELSE keepalivelist[k]]
  /\ UNCHANGED <<devlist, devcount, lost, scenariolist, quiet, camAdded, wiped>>

Older(a) == IF a = Never THEN Never ELSE a + 1

\* An hour or so goes by, while nothing is MaxAge old.
Tick ==
  /\ \A k \in Cell : keepalivelist[k].age # MaxAge
  /\ \A d \in Listed : quiet[d] < MaxAge
  /\ keepalivelist' = [k \in Cell |-> [keepalivelist[k] EXCEPT !.age = Older(@)]]
  /\ quiet' = [d \in Did |-> IF d \in Listed THEN quiet[d] + 1 ELSE 0]
  /\ UNCHANGED <<devlist, devcount, lost, scenariolist, camAdded, wiped>>

-----------------------------------------------------------------------------
(* Restart and reset *)

\* main: every device counts as heard of now, and has the status of the last
\* save, whichever that was.
Restart ==
  /\ keepalivelist' = [k \in Cell |-> IF k < devcount THEN [did |-> devlist[k], age |-> 0]
                                      ELSE Blank]
  /\ \E saved \in SUBSET Listed : lost' = saved
  /\ scenariolist' = Booted(scenariolist)
  /\ quiet' = [d \in Did |-> 0]
  /\ camAdded' = FALSE
  /\ UNCHANGED <<devlist, devcount, wiped>>

\* factoryReset(0) and the reboot that follows.
FactoryReset ==
  /\ devlist' = [x \in Cell |-> None] /\ devcount' = 0 /\ lost' = {}
  /\ keepalivelist' = [x \in Cell |-> Blank]
  /\ scenariolist' = <<Sunrise, Sunset>>
  /\ quiet' = [d \in Did |-> 0]
  /\ camAdded' = FALSE /\ wiped' = FALSE

\* CM_RESETDEFAULT, factoryReset(1): the devices stay, their scenarios do not.
ResetDefault ==
  /\ scenariolist' = <<>>
  /\ wiped' = TRUE
  /\ UNCHANGED <<devlist, devcount, lost, keepalivelist, quiet, camAdded>>

Next ==
  \/ \E d \in RF : Pair(d) \/ AutoReport(d)
  \/ \E d \in Did : DeleteDev(d) \/ Event(d) \/ EditDev(d)
  \/ \E d \in Sources : client_sourcelink(d)
  \/ AddCamera
  \/ checkkeepalive \/ ipc_reconnect \/ Tick
  \/ Restart \/ FactoryReset \/ ResetDefault

Spec == Init /\ [][Next]_vars

-----------------------------------------------------------------------------
(* Properties *)

\* Every listed device is supervised by one entry of its own, and no entry
\* watches a device that is gone, whatever was paired, deleted and given up
\* since the start: two arrays share one count (jsw_protocol.c:1631 and 1646,
\* 1973, 6660).  Adding a camera breaks this until the next start.
SupervisedOnce ==
  ~camAdded =>
    /\ \A d \in Listed : Cardinality(Watching(d)) = 1
    /\ \A k \in Used(devcount) : keepalivelist[k].did \in Listed

\* A check marks the listed devices that nothing was heard of for four hours
\* and less than 3000, and no others (checkkeepalive, jsw_protocol.c:6606),
\* although the times it reads have moved between cells and were refreshed in
\* three places.
MarksTheSilent ==
  [][~camAdded /\ checkkeepalive =>
       lost' = lost \cup {d \in Listed :
                            SUPERVISION <= quiet[d] /\ quiet[d] < FORGOTTEN}]_vars

\* A pairing that finds the list full costs one device, which was silent at
\* least as long as every other, to the tick; the rest stay supervised as they were
\* (freeoneDevice, jsw_protocol.c:6644).
GivesUpTheSilent ==
  [][\A d \in RF : ~camAdded /\ d \in Listed' \ Listed /\ Pair(d) =>
       \/ Listed \subseteq Listed'
       \/ \E gone \in Listed :
            /\ Listed' = (Listed \ {gone}) \cup {d}
            /\ \A e \in Listed : quiet[e] <= quiet[gone]]_vars

\* Every source that is listed has a scenario that phones can fill, although
\* entries of devices that were given up stay in the list until it is full
\* (addsource, jsw_protocol.c:4237).  CM_RESETDEFAULT takes that away.
ListedHaveScenario ==
  ~wiped => \A d \in Listed \cap Sources : Contains(scenariolist, d)

\* And the list keeps within its array while it grows.
SourcesHaveScenario ==
  /\ ListedHaveScenario
  /\ ~wiped => Len(scenariolist) <= SCENARIOSIZE
=============================================================================
