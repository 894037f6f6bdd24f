---------------------------- MODULE EventLogProofs ----------------------------
(***************************************************************************)
(* Proofs about EventLog, for every size of the list, of the groups saved  *)
(* together and of the table.  Wherever the daemon may be killed, as long  *)
(* as it reboots itself only between calls, the list has room for every    *)
(* report, and what is on disk lacks only the last few events of the list. *)
(* If it is killed only where the log survives it, table, files and lists  *)
(* also stay in order, readers see the newest events, and the log is the   *)
(* history that EventHistory promises.                                     *)
(* The arithmetic of "every MAXTMPEVENT events" is kept out of the         *)
(* induction: the invariant says that no multiple of MAXTMPEVENT lies      *)
(* between what was saved and what is in the list, and one lemma draws the *)
(* conclusion about their difference.                                      *)
(***************************************************************************)
EXTENDS EventLog, SequenceTheorems, FiniteSetTheorems, TLAPS

\* List t is the beginning of list l, and of the numbers from there to n none
\* was a reason to save.
Covered(l, t, n) ==
  /\ Len(t) <= n
  /\ \A i \in 1 .. Len(t) : l[i] = t[i]
  /\ \A k \in Len(t) + 1 .. n : k % MAXTMPEVENT # 0

\* How many events are in the list at each place.
ListInv ==
  /\ pc = "notify" => Len(evtlist) >= 1
  /\ pc = "file" => Len(evtlist) = MAXEVENT
  /\ pc \notin {"notify", "file"} => Len(evtlist) < MAXEVENT
  /\ pc \in {"setting", "setting5", "deltmp", "clear", "cleartmp", "clearfiles"}
       => evtlist = <<>>

\* What the two files hold of it.
TmpInv ==
  /\ pc = "idle" => Covered(evtlist, tmpevent.list, Len(evtlist))
  /\ pc = "notify" => Covered(evtlist, tmpevent.list, Len(evtlist) - 1)
  /\ pc = "boot" => Covered(evtlist, tmpevent.list, Len(evtlist))
  /\ pc = "clearfiles" => tmpevent.list = <<>>
  /\ tmpevent2.ok => /\ pc \in {"down", "boot"}
                     /\ Covered(tmpevent2.list, tmpevent.list, Len(tmpevent2.list))

LogInv == TypeOK /\ ListInv /\ TmpInv

(* Among any MAXTMPEVENT numbers in a row one is a multiple. *)
LEMMA MultipleNearby ==
  ASSUME NEW T \in Nat \ {0}, NEW n \in Nat
  PROVE  /\ n - (n % T) \in Nat
         /\ (n - (n % T)) % T = 0
         /\ n % T \in 0 .. T - 1
<1>1. /\ n % T \in 0 .. T - 1
      /\ n = T * (n \div T) + (n % T)
      /\ n \div T \in Nat
  OBVIOUS
<1>2. n - (n % T) = T * (n \div T)
  BY <1>1
<1>3. (T * (n \div T)) % T = 0
  BY <1>1
<1>4. T * (n \div T) \in Nat
  BY <1>1
<1>5. QED
  BY <1>1, <1>2, <1>3, <1>4

(* What is covered lacks fewer than MAXTMPEVENT events. *)
LEMMA CoveredBound ==
  ASSUME NEW l, NEW t \in Seq(Event), NEW n \in Nat, Covered(l, t, n)
  PROVE  n - Len(t) <= MAXTMPEVENT - 1
<1>1. MAXTMPEVENT \in Nat \ {0}
  BY EventLogAssumption
<1> DEFINE k == n - (n % MAXTMPEVENT)
<1>2. /\ k \in Nat
      /\ k % MAXTMPEVENT = 0
      /\ n - k \in 0 .. MAXTMPEVENT - 1
  <2>1. /\ n - (n % MAXTMPEVENT) \in Nat
        /\ (n - (n % MAXTMPEVENT)) % MAXTMPEVENT = 0
        /\ n % MAXTMPEVENT \in 0 .. MAXTMPEVENT - 1
    BY <1>1, MultipleNearby
  <2>2. QED
    BY <1>1, <2>1
<1>3. Len(t) \in Nat
  OBVIOUS
<1> HIDE DEF k
<1>4. ~ (k \in Len(t) + 1 .. n)
  BY <1>2 DEF Covered
<1>5. QED
  BY <1>1, <1>2, <1>3, <1>4

(* A list covers itself; in particular the empty one. *)
LEMMA CoversItself ==
  ASSUME NEW l \in Seq(Event)
  PROVE  Covered(l, l, Len(l))
BY DEF Covered

(* An empty list, a missing file and an empty table have their types. *)
LEMMA Blank ==
  /\ <<>> \in Seq(Event)
  /\ Len(<<>>) = 0
  /\ DOMAIN <<>> = {}
  /\ Missing \in [ok : BOOLEAN, list : Seq(Event)]
  /\ Missing.list = <<>>
  /\ Missing.ok = FALSE
  /\ Covered(<<>>, <<>>, Len(<<>>))
  /\ Len(<<>>) < MAXEVENT
  /\ Len(<<>>) <= MAXEVENT
  /\ 0 \in Slot
  /\ [s \in Slot |-> Empty] \in [Slot -> Event \cup {Empty}]
<1>1. <<>> \in Seq(Event) /\ Len(<<>>) = 0 /\ DOMAIN <<>> = {}
  OBVIOUS
<1>2. /\ Missing \in [ok : BOOLEAN, list : Seq(Event)]
      /\ Missing.list = <<>>
      /\ Missing.ok = FALSE
  BY <1>1 DEF Missing
<1>3. Covered(<<>>, <<>>, Len(<<>>))
  BY <1>1, CoversItself
<1>4. Len(<<>>) < MAXEVENT /\ Len(<<>>) <= MAXEVENT /\ 0 \in Slot
  BY <1>1, EventLogAssumption DEF Slot
<1>5. [s \in Slot |-> Empty] \in [Slot -> Event \cup {Empty}]
  BY DEF Empty
<1>6. QED
  BY <1>1, <1>2, <1>3, <1>4, <1>5

(* The log begins empty. *)
LEMMA InitLogInv == Init => LogInv
<1> SUFFICES ASSUME Init PROVE LogInv
  OBVIOUS
<1>1. TypeOK
  BY Blank DEF Init, TypeOK, Place
<1>2. ListInv
  BY Blank DEF Init, ListInv
<1>3. TmpInv
  BY Blank DEF Init, TmpInv
<1>4. QED
  BY <1>1, <1>2, <1>3 DEF LogInv

(* The list changes as newEvent, the rotation and boot change it. *)
LEMMA NewEventStep == LogInv /\ NewEvent => LogInv'
<1> SUFFICES ASSUME LogInv, NewEvent PROVE LogInv'
  OBVIOUS
<1> USE DEF LogInv, NewEvent, Goto, diskVars
<1>1. /\ reported' \in Event
      /\ evtlist' \in Seq(Event)
      /\ Len(evtlist') = Len(evtlist) + 1
      /\ \A i \in 1 .. Len(evtlist) : evtlist'[i] = evtlist[i]
  BY DEF TypeOK, Event
<1>2. Len(evtlist) < MAXEVENT /\ Len(evtlist) \in Nat
  BY DEF ListInv, TypeOK
<1>3. TypeOK'
  BY <1>1, <1>2, EventLogAssumption DEF TypeOK, Place, Event
<1>4. ListInv'
  BY <1>1, <1>2 DEF ListInv
<1>5. TmpInv'
  <2>1. Covered(evtlist, tmpevent.list, Len(evtlist)) /\ ~ tmpevent2.ok
    BY DEF TmpInv
  <2>2. Len(tmpevent.list) \in Nat
    BY DEF TypeOK
  <2>3. Covered(evtlist', tmpevent'.list, Len(evtlist') - 1)
    BY <1>1, <1>2, <2>1, <2>2 DEF Covered
  <2>4. QED
    BY <2>1, <2>3 DEF TmpInv
<1>6. QED
  BY <1>3, <1>4, <1>5

(* newEvent returns without a save: the count was no reason for one. *)
LEMMA NotSavedStep == LogInv /\ NotSaved => LogInv'
<1> SUFFICES ASSUME LogInv, NotSaved PROVE LogInv'
  OBVIOUS
<1> USE DEF LogInv, NotSaved, Goto, ramVars, diskVars
<1>1. TypeOK'
  BY DEF TypeOK, Place
<1>2. ListInv'
  BY DEF ListInv
<1>3. TmpInv'
  <2>1. /\ Covered(evtlist, tmpevent.list, Len(evtlist) - 1)
        /\ ~ tmpevent2.ok
        /\ Len(evtlist) \in Nat /\ Len(evtlist) >= 1
        /\ Len(tmpevent.list) \in Nat
    BY DEF TmpInv, ListInv, TypeOK
  <2>2. Len(evtlist) % MAXTMPEVENT # 0
    BY <2>1 DEF Due
  <2>3. Covered(evtlist, tmpevent.list, Len(evtlist))
    BY <2>1, <2>2 DEF Covered
  <2>4. QED
    BY <2>1, <2>3 DEF TmpInv
<1>4. QED
  BY <1>1, <1>2, <1>3

(* The save of the unfinished list (saveTmpEvdata). *)
LEMMA SaveStep == LogInv /\ (OpenTmp \/ SaveTmp) => LogInv'
<1> SUFFICES ASSUME LogInv, OpenTmp \/ SaveTmp PROVE LogInv'
  OBVIOUS
<1> USE DEF LogInv, Goto, ramVars
<1>1. CASE OpenTmp
  <2>1. TypeOK'
    BY <1>1, Blank DEF OpenTmp, TypeOK, Place
  <2>2. ListInv' /\ TmpInv'
    BY <1>1 DEF OpenTmp, ListInv, TmpInv
  <2>3. QED
    BY <2>1, <2>2
<1>2. CASE SaveTmp
  <2>1. /\ tmpevent' = [ok |-> TRUE, list |-> evtlist]
        /\ evtlist \in Seq(Event) /\ Len(evtlist) < MAXEVENT
    BY <1>2 DEF SaveTmp, Saved, TypeOK, ListInv
  <2>2. TypeOK'
    BY <1>2, <2>1 DEF SaveTmp, TypeOK, Place
  <2>3. ListInv'
    BY <1>2, <2>1 DEF SaveTmp, ListInv
  <2>4. Covered(evtlist', tmpevent'.list, Len(evtlist'))
    BY <1>2, <2>1, CoversItself DEF SaveTmp
  <2>5. TmpInv'
    BY <1>2, <2>4 DEF SaveTmp, TmpInv
  <2>6. QED
    BY <2>2, <2>3, <2>5
<1>3. QED
  BY <1>1, <1>2

(* The rotation (saveEvdata), from the full list to none. *)
LEMMA RotateStep ==
  LogInv /\ (Rotate \/ WriteFile \/ SaveSetting \/ SaveSetting5 \/ DelTmp) => LogInv'
<1> SUFFICES ASSUME LogInv,
                    Rotate \/ WriteFile \/ SaveSetting \/ SaveSetting5 \/ DelTmp
             PROVE  LogInv'
  OBVIOUS
<1> USE DEF LogInv, Goto, ramVars
<1>1. CASE Rotate
  <2>1. /\ Len(evtlist) = MAXEVENT
        /\ evtlist[1] \in Event
        /\ <<>> \in Seq(Event)
        /\ Len(<<>>) = 0
    BY <1>1, EventLogAssumption DEF Rotate, TypeOK
  <2>2. /\ DOMAIN files' \subseteq Event
        /\ \A n \in DOMAIN files' : files'[n] \in Seq(Event) /\ Len(files'[n]) <= MAXEVENT
    BY <1>1, <2>1, EventLogAssumption DEF Rotate, With, Without, TypeOK
  <2>3. /\ savepos' \in Slot
        /\ filename' \in [Slot -> Event \cup {Empty}]
    <3>1. savepos \in 0 .. MAXEVENTFILES - 1
      BY DEF TypeOK, Slot
    <3>2. savepos' \in 0 .. MAXEVENTFILES - 1
      BY <1>1, <3>1, EventLogAssumption DEF Rotate
    <3>3. QED
      BY <1>1, <2>1, <3>2 DEF Rotate, TypeOK, Slot
  <2>4. TypeOK'
    BY <1>1, <2>1, <2>2, <2>3 DEF Rotate, TypeOK, Place
  <2>5. ListInv' /\ TmpInv'
    BY <1>1, <2>1 DEF Rotate, ListInv, TmpInv
  <2>6. QED
    BY <2>4, <2>5
<1>2. CASE WriteFile
  <2>1. /\ Len(evtlist) = MAXEVENT
        /\ evtlist \in Seq(Event)
        /\ evtlist[1] \in Event
    BY <1>2, EventLogAssumption DEF WriteFile, TypeOK, ListInv
  <2>2. /\ DOMAIN files' \subseteq Event
        /\ \A n \in DOMAIN files' : files'[n] \in Seq(Event) /\ Len(files'[n]) <= MAXEVENT
    BY <1>2, <2>1, EventLogAssumption DEF WriteFile, With, TypeOK
  <2>3. TypeOK'
    BY <1>2, <2>2, EventLogAssumption DEF WriteFile, TypeOK, Place
  <2>4. ListInv' /\ TmpInv'
    BY <1>2, EventLogAssumption DEF WriteFile, ListInv, TmpInv
  <2>5. QED
    BY <2>3, <2>4
<1>3. CASE SaveSetting \/ SaveSetting5
  <2>1. TypeOK'
    BY <1>3 DEF SaveSetting, SaveSetting5, TypeOK, Place
  <2>2. ListInv' /\ TmpInv'
    BY <1>3 DEF SaveSetting, SaveSetting5, ListInv, TmpInv
  <2>3. QED
    BY <2>1, <2>2
<1>4. CASE DelTmp
  <2>1. evtlist = <<>> /\ evtlist' = <<>> /\ tmpevent'.list = <<>>
    BY <1>4, Blank DEF DelTmp, ListInv
  <2>2. TypeOK'
    BY <1>4, Blank DEF DelTmp, TypeOK, Place
  <2>3. Covered(evtlist', tmpevent'.list, Len(evtlist'))
    BY <2>1, Blank
  <2>4. ListInv' /\ TmpInv'
    BY <1>4, <2>1, <2>3 DEF DelTmp, ListInv, TmpInv
  <2>5. QED
    BY <2>2, <2>4
<1>5. QED
  BY <1>1, <1>2, <1>3, <1>4

(* The steps of clearevent. *)
LEMMA ClearStep ==
  LogInv /\ (ClearLists \/ ClearSettings \/ ClearTmp \/ ClearFiles) => LogInv'
<1> SUFFICES ASSUME LogInv, ClearLists \/ ClearSettings \/ ClearTmp \/ ClearFiles
             PROVE  LogInv'
  OBVIOUS
<1> USE DEF LogInv, Goto
<1>1. CASE ClearLists
  <2>1. TypeOK'
    BY <1>1, Blank DEF ClearLists, TypeOK, Place, diskVars
  <2>2. ListInv' /\ TmpInv'
    BY <1>1, Blank DEF ClearLists, ListInv, TmpInv, diskVars
  <2>3. QED
    BY <2>1, <2>2
<1>2. CASE ClearSettings
  <2>1. TypeOK'
    BY <1>2 DEF ClearSettings, TypeOK, Place, ramVars
  <2>2. ListInv' /\ TmpInv'
    BY <1>2 DEF ClearSettings, ListInv, TmpInv, ramVars
  <2>3. QED
    BY <2>1, <2>2
<1>3. CASE ClearTmp
  <2>1. TypeOK'
    BY <1>3, Blank DEF ClearTmp, TypeOK, Place, ramVars
  <2>2. ListInv' /\ TmpInv'
    BY <1>3, Blank DEF ClearTmp, ListInv, TmpInv, ramVars
  <2>3. QED
    BY <2>1, <2>2
<1>4. CASE ClearFiles
  <2>1. evtlist' = <<>> /\ tmpevent'.list = <<>>
    BY <1>4 DEF ClearFiles, ListInv, TmpInv, ramVars
  <2>2. TypeOK'
    BY <1>4, Blank DEF ClearFiles, TypeOK, Place, ramVars
  <2>3. Covered(evtlist', tmpevent'.list, Len(evtlist'))
    BY <2>1, Blank
  <2>4. ListInv' /\ TmpInv'
    BY <1>4, <2>3 DEF ClearFiles, ListInv, TmpInv, ramVars
  <2>5. QED
    BY <2>2, <2>4
<1>5. QED
  BY <1>1, <1>2, <1>3, <1>4

(* factoryReset. *)
LEMMA ResetStep == LogInv /\ FactoryReset => LogInv'
<1> SUFFICES ASSUME LogInv, FactoryReset PROVE LogInv'
  OBVIOUS
<1> USE DEF LogInv, Goto
<1>1. /\ evtlist' = <<>> /\ tmpevent' = Missing /\ tmpevent2' = Missing
      /\ pc' \in {"idle", "down"}
  BY DEF FactoryReset
<1>2. o_evtlist' \in Seq(Event) /\ Len(o_evtlist') <= MAXEVENT
  BY Blank DEF FactoryReset, TypeOK
<1>3. TypeOK'
  BY <1>1, <1>2, Blank DEF FactoryReset, TypeOK, Place
<1>4. ListInv'
  BY <1>1, Blank DEF ListInv
<1>5. TmpInv'
  BY <1>1, Blank DEF TmpInv
<1>6. QED
  BY <1>3, <1>4, <1>5

(* Every way to go down leaves on disk what the next boot needs. *)
LEMMA DownStep ==
  RebootAt \subseteq {"idle"} /\ LogInv /\ (Kill \/ Reboot \/ FwUpdate) => LogInv'
<1> SUFFICES ASSUME RebootAt \subseteq {"idle"}, LogInv, Kill \/ Reboot \/ FwUpdate
             PROVE  LogInv'
  OBVIOUS
<1> USE DEF LogInv, Goto, LoseRam
<1>1. /\ evtlist' = <<>> /\ o_evtlist' = <<>> /\ is_oldevtexist' = FALSE
      /\ filename' \in [Slot -> Event \cup {Empty}] /\ savepos' \in Slot
      /\ pc' = "down" /\ pc' \in Place
      /\ reported' = reported /\ setting' = setting /\ setting5' = setting5
      /\ files' = files
  BY Blank DEF Kill, Reboot, FwUpdate, diskVars, Place
<1>2. ListInv'
  BY <1>1, Blank DEF ListInv
<1>3. CASE Kill
  <2>1. TypeOK'
    BY <1>1, <1>3, Blank DEF Kill, TypeOK, diskVars
  <2>2. TmpInv'
    BY <1>1, <1>3 DEF Kill, TmpInv, diskVars
  <2>3. QED
    BY <1>2, <2>1, <2>2
<1>4. CASE Reboot
  <2>1. /\ pc = "idle"
        /\ tmpevent' = tmpevent
        /\ tmpevent2' = [ok |-> TRUE, list |-> evtlist]
        /\ evtlist \in Seq(Event) /\ Len(evtlist) < MAXEVENT
    BY <1>4 DEF Reboot, Saved, TypeOK, ListInv
  <2>2. TypeOK'
    <3>1. /\ tmpevent2' \in [ok : BOOLEAN, list : Seq(Event)]
          /\ Len(tmpevent2'.list) < MAXEVENT
      BY <2>1
    <3>2. QED
      BY <1>1, <2>1, <3>1, Blank DEF TypeOK
  <2>3. Covered(evtlist, tmpevent.list, Len(evtlist))
    BY <2>1 DEF TmpInv
  <2>4. TmpInv'
    BY <1>1, <2>1, <2>3 DEF TmpInv
  <2>5. QED
    BY <1>2, <2>2, <2>4
<1>5. CASE FwUpdate
  <2>1. /\ pc = "idle"
        /\ tmpevent2' = tmpevent2
        /\ tmpevent' = [ok |-> TRUE, list |-> evtlist]
        /\ evtlist \in Seq(Event) /\ Len(evtlist) < MAXEVENT
    BY <1>5 DEF FwUpdate, Saved, TypeOK, ListInv
  <2>2. TypeOK'
    <3>1. /\ tmpevent' \in [ok : BOOLEAN, list : Seq(Event)]
          /\ Len(tmpevent'.list) < MAXEVENT
      BY <2>1
    <3>2. QED
      BY <1>1, <2>1, <3>1, Blank DEF TypeOK
  <2>3. TmpInv'
    BY <1>1, <2>1 DEF TmpInv
  <2>4. QED
    BY <1>2, <2>2, <2>3
<1>6. QED
  BY <1>3, <1>4, <1>5

(* The boot takes one of the two files and deletes the other. *)
LEMMA BootStep == LogInv /\ (Load \/ LoadLast) => LogInv'
<1> SUFFICES ASSUME LogInv, Load \/ LoadLast PROVE LogInv'
  OBVIOUS
<1> USE DEF LogInv, Goto
<1>1. CASE Load
  <2>1. /\ evtlist' \in Seq(Event) /\ Len(evtlist') < MAXEVENT
        /\ tmpevent' = tmpevent /\ tmpevent2' = tmpevent2
        /\ pc' = "boot"
    BY <1>1 DEF Load, Restorable, TypeOK, diskVars
  <2>2. TypeOK'
    BY <1>1, <2>1, EventLogAssumption DEF Load, TypeOK, Place, diskVars
  <2>3. ListInv'
    BY <2>1 DEF ListInv
  <2>4. Covered(evtlist', tmpevent.list, Len(evtlist'))
    <3>1. CASE tmpevent2.ok
      BY <1>1, <3>1 DEF Load, Restorable, TmpInv
    <3>2. CASE ~ tmpevent2.ok
      BY <1>1, <3>2, <2>1, CoversItself DEF Load, Restorable
    <3>3. QED
      BY <3>1, <3>2
  <2>5. TmpInv'
    BY <2>1, <2>4 DEF TmpInv
  <2>6. QED
    BY <2>2, <2>3, <2>5
<1>2. CASE LoadLast
  <2>1. /\ o_evtlist' \in Seq(Event) /\ Len(o_evtlist') <= MAXEVENT
        /\ is_oldevtexist' \in BOOLEAN
    BY <1>2 DEF LoadLast, LoadNewest, TypeOK
  <2>2. TypeOK'
    BY <1>2, <2>1, EventLogAssumption DEF LoadLast, TypeOK, Place, Missing
  <2>3. ListInv'
    BY <1>2 DEF LoadLast, ListInv
  <2>4. TmpInv'
    BY <1>2 DEF LoadLast, TmpInv, Missing
  <2>5. QED
    BY <2>2, <2>3, <2>4
<1>3. QED
  BY <1>1, <1>2

(* Nothing happens. *)
LEMMA StutterStep == LogInv /\ UNCHANGED vars => LogInv'
BY DEF LogInv, TypeOK, ListInv, TmpInv, Covered, vars, ramVars, diskVars

\* Every step of the log preserves the invariant, wherever the daemon is killed
\* (newEvent, clearevent, boot), if it reboots itself only between calls.
THEOREM LogInvariant ==
  ASSUME RebootAt \subseteq {"idle"}
  PROVE  Spec => []LogInv
<1>1. LogInv /\ [Next]_vars => LogInv'
  BY NewEventStep, NotSavedStep, SaveStep, RotateStep, ClearStep, ResetStep,
     DownStep, BootStep, StutterStep DEF Next
<1>2. QED
  BY InitLogInv, <1>1, PTL DEF Spec

\* evtlist never overflows, and no file holds more events than getevent
\* accepts (saveTmpEvdata, saveEvdata, loadTmpEvdata).
THEOREM LogTypeOK ==
  ASSUME RebootAt \subseteq {"idle"}
  PROVE  Spec => []TypeOK
<1>1. LogInv => TypeOK
  BY DEF LogInv
<1>2. QED
  BY LogInvariant, <1>1, PTL

\* A death costs fewer than MAXTMPEVENT events between calls, and at most
\* that many while the phones are told of one (newEvent, jsw_protocol.c:2974).
THEOREM LogKeptOnDisk ==
  ASSUME RebootAt \subseteq {"idle"}
  PROVE  Spec => []KeptOnDisk
<1>1. LogInv => KeptOnDisk
  <2> SUFFICES ASSUME LogInv, pc \in {"idle", "notify"}
               PROVE  /\ pc = "idle" => Kept(MAXTMPEVENT - 1)
                      /\ pc = "notify" => Kept(MAXTMPEVENT)
    BY DEF KeptOnDisk
  <2>1. /\ Restorable = tmpevent.list
        /\ Len(evtlist) \in Nat
        /\ tmpevent.list \in Seq(Event)
        /\ Len(tmpevent.list) \in Nat
    BY DEF LogInv, TmpInv, Restorable, TypeOK
  <2>2. MAXTMPEVENT \in Nat
    BY EventLogAssumption
  <2>3. CASE pc = "idle"
    <3>1. Covered(evtlist, tmpevent.list, Len(evtlist))
      BY <2>3 DEF LogInv, TmpInv
    <3>2. Len(evtlist) - Len(tmpevent.list) <= MAXTMPEVENT - 1
      BY <2>1, <3>1, CoveredBound
    <3>3. QED
      BY <2>1, <2>3, <3>1, <3>2 DEF Kept, Covered
  <2>4. CASE pc = "notify"
    <3>1. /\ Covered(evtlist, tmpevent.list, Len(evtlist) - 1)
          /\ Len(evtlist) - 1 \in Nat
      BY <2>1, <2>4 DEF LogInv, TmpInv, ListInv
    <3>2. (Len(evtlist) - 1) - Len(tmpevent.list) <= MAXTMPEVENT - 1
      BY <2>1, <3>1, CoveredBound
    <3>3. QED
      BY <2>1, <2>2, <2>4, <3>1, <3>2 DEF Kept, Covered
  <2>5. QED
    BY <2>3, <2>4
<1>2. QED
  BY LogInvariant, <1>1, PTL

-----------------------------------------------------------------------------
(***************************************************************************)
(* Order: the table, the files and the lists are sorted, and among each     *)
(* other too, in memory and in what a death would leave of them.            *)
(***************************************************************************)

\* In the order of the rotation, which begins at p, slot s comes before slot t.
Before(p, s, t) == IF s >= p THEN t > s \/ t < p ELSE s < t /\ t < p

Increasing(l) == \A i, j \in 1 .. Len(l) : i < j => l[i] < l[j]

\* The table, the position and the list a death would leave; while a rotation
\* is between its two files, those from before it.
Table == IF pc \in {"file", "down"} THEN setting5 ELSE filename
Pos   == IF pc \in {"file", "down"} THEN setting ELSE savepos
Cur   == IF pc = "down" THEN Restorable ELSE evtlist

\* Its first event names the empty file that a death in a rotation leaves.
Seed ==
  CASE pc = "savetmp" -> evtlist
    [] pc \in {"setting", "setting5", "deltmp"} -> <<>>
    [] OTHER -> tmpevent.list

Clearing == pc \in {"clear", "cleartmp", "clearfiles"}

\* The table is sorted, from the name whose turn comes next.
RingInv ==
  \A s, t \in Slot : Before(Pos, s, t) /\ Table[s] # Empty => Table[s] < Table[t]

\* Names in the table are older than the list; each file has its name there, or
\* is waiting to be filled.
NameInv ==
  /\ \A s \in Slot : /\ Table[s] <= reported
                     /\ \A i \in 1 .. Len(Cur) : Table[s] < Cur[i]
                     /\ Table[s] \in DOMAIN files => files[Table[s]] # <<>>
  /\ ~Clearing => \A n \in DOMAIN files :
                     \/ \E s \in Slot : Table[s] = n
                     \/ files[n] = <<>> /\ Seed # <<>> /\ n = Seed[1]

\* The list and the files are sorted, and so are they among each other.
OrderInv ==
  /\ Increasing(Cur)
  /\ \A i \in 1 .. Len(Cur) : Cur[i] <= reported
  /\ \A n \in DOMAIN files :
       /\ Increasing(files[n])
       /\ files[n] # <<>> => files[n][1] = n
       /\ \A i \in 1 .. Len(files[n]) :
            /\ files[n][i] <= reported
            /\ \A m \in DOMAIN files : n < m => files[n][i] < m
            /\ \A j \in 1 .. Len(Cur) : files[n][i] < Cur[j]

\* What memory and disk have in common at each place.
DiskInv ==
  /\ pc \in {"idle", "notify", "savetmp", "deltmp", "boot", "cleartmp", "clearfiles"}
       => filename = setting5 /\ savepos = setting
  /\ pc = "setting5" => savepos = setting
  /\ pc = "file" =>
       /\ filename = [setting5 EXCEPT ![setting] = evtlist[1]]
       /\ savepos = (setting + 1) % MAXEVENTFILES
       /\ setting5[setting] \notin DOMAIN files
       /\ evtlist[1] \in DOMAIN files /\ files[evtlist[1]] = <<>>
       /\ Covered(evtlist, tmpevent.list, MAXEVENT - 1)
  /\ Clearing => filename = [s \in Slot |-> Empty]
  /\ Clearing \/ pc \in {"down", "boot"} => ~is_oldevtexist
  /\ pc = "boot" => evtlist = Restorable

\* The list before is the newest file.
OldInv ==
  is_oldevtexist /\ o_evtlist # <<>> =>
    IF pc = "file" THEN o_evtlist = evtlist
    ELSE /\ o_evtlist[1] \in DOMAIN files
         /\ files[o_evtlist[1]] = o_evtlist
         /\ \A n \in DOMAIN files : files[n] # <<>> => n <= o_evtlist[1]

TurnInv == RingInv /\ NameInv /\ OrderInv /\ DiskInv /\ OldInv

\* Deaths between the steps of a call that the log survives, and room for at
\* least one save before the list is full.
Survives ==
  /\ RebootAt \subseteq {"idle"}
  /\ KillAt \subseteq {"idle", "notify", "file", "down", "boot"}
  /\ MAXTMPEVENT < MAXEVENT

\* Table, position, list and files have their types.
ViewOK ==
  /\ Cur \in Seq(Event) /\ Len(Cur) \in Nat
  /\ \A i \in 1 .. Len(Cur) : Cur[i] \in Nat \ {0}
  /\ Table \in [Slot -> Nat]
  /\ Pos \in Slot
  /\ reported \in Nat
  /\ DOMAIN files \subseteq Nat \ {0}
  /\ \A n \in DOMAIN files :
       /\ Len(files[n]) \in Nat
       /\ files[n] \in Seq(Event)
       /\ \A i \in 1 .. Len(files[n]) : files[n][i] \in Nat \ {0}

(* The types of the view, from those of the variables. *)
LEMMA ViewIsOK == LogInv => ViewOK
<1> SUFFICES ASSUME LogInv PROVE ViewOK
  OBVIOUS
<1>1. Restorable \in Seq(Event)
  BY DEF LogInv, TypeOK, Restorable
<1>2. Cur \in Seq(Event)
  BY <1>1 DEF LogInv, TypeOK, Cur
<1>3. Len(Cur) \in Nat /\ \A i \in 1 .. Len(Cur) : Cur[i] \in Nat \ {0}
  BY <1>2 DEF Event
<1>4. Table \in [Slot -> Nat] /\ Pos \in Slot /\ reported \in Nat
  BY DEF LogInv, TypeOK, Table, Pos, Event, Empty
<1>5. ASSUME NEW n \in DOMAIN files
      PROVE  /\ Len(files[n]) \in Nat
             /\ files[n] \in Seq(Event)
             /\ \A i \in 1 .. Len(files[n]) : files[n][i] \in Nat \ {0}
  <2>1. files[n] \in Seq(Event)
    BY DEF LogInv, TypeOK
  <2> QED
    BY <2>1 DEF Event
<1>6. DOMAIN files \subseteq Nat \ {0}
  BY DEF LogInv, TypeOK, Event
<1> QED
  BY <1>2, <1>3, <1>4, <1>5, <1>6 DEF ViewOK

(* A step that at most shortens the list, and leaves table and files alone,    *)
(* keeps everything in order: saves, clears, deaths and boots are such steps.  *)
LEMMA ViewShrinks ==
  ASSUME ViewOK, ViewOK', RingInv, NameInv, OrderInv,
         Table' = Table, Pos' = Pos, files' = files, reported' = reported,
         Len(Cur') <= Len(Cur),
         \A i \in 1 .. Len(Cur') : Cur'[i] = Cur[i],
         Clearing' \/ (~Clearing /\ (Seed = <<>> \/ (Seed' # <<>> /\ Seed'[1] = Seed[1])))
  PROVE  RingInv' /\ NameInv' /\ OrderInv'
<1>1. Len(Cur) \in Nat /\ Len(Cur') \in Nat
  BY DEF ViewOK
<1>2. RingInv'
  BY DEF RingInv
<1>3. OrderInv'
  <2>1. Increasing(Cur)' /\ \A i \in 1 .. Len(Cur') : Cur'[i] <= reported'
    BY <1>1 DEF OrderInv, Increasing
  <2>2. ASSUME NEW n \in DOMAIN files
        PROVE  /\ Increasing(files[n])
               /\ files[n] # <<>> => files[n][1] = n
               /\ \A i \in 1 .. Len(files[n]) :
                    /\ files[n][i] <= reported
                    /\ \A m \in DOMAIN files : n < m => files[n][i] < m
                    /\ \A j \in 1 .. Len(Cur') : files[n][i] < Cur'[j]
    BY <1>1 DEF OrderInv
  <2> QED
    BY <2>1, <2>2 DEF OrderInv, Increasing
<1>4. NameInv'
  <2>1. \A s \in Slot : /\ Table[s] <= reported
                        /\ \A i \in 1 .. Len(Cur') : Table[s] < Cur'[i]
                        /\ Table[s] \in DOMAIN files => files[Table[s]] # <<>>
    BY <1>1 DEF NameInv
  <2>2. ~Clearing' => \A n \in DOMAIN files :
                     \/ \E s \in Slot : Table[s] = n
                     \/ files[n] = <<>> /\ Seed' # <<>> /\ n = Seed'[1]
    BY DEF NameInv
  <2> QED
    BY <2>1, <2>2 DEF NameInv
<1> QED
  BY <1>2, <1>3, <1>4

(* A report is newer than everything in the log (newEvent). *)
LEMMA TurnNewEvent ==
  ASSUME LogInv, ViewOK, TurnInv, NewEvent
  PROVE  TurnInv'
<1>1. /\ pc = "idle" /\ pc' = "notify" /\ reported' = reported + 1
      /\ evtlist' = Append(evtlist, reported + 1)
      /\ UNCHANGED <<o_evtlist, is_oldevtexist, filename, savepos, setting, setting5,
                     tmpevent, tmpevent2, files>>
      /\ reported \in Nat /\ evtlist \in Seq(Event) /\ Len(evtlist) \in Nat
      /\ tmpevent.list \in Seq(Event)
  BY DEF NewEvent, Goto, diskVars, LogInv, TypeOK
<1>2. /\ Cur = evtlist /\ Cur' = evtlist' /\ Table = filename /\ Table' = Table
      /\ Pos' = Pos /\ Seed = tmpevent.list /\ Seed' = Seed /\ ~Clearing
  BY <1>1 DEF Cur, Table, Pos, Seed, Clearing
<1>3. /\ Len(Cur') = Len(Cur) + 1
      /\ \A i \in 1 .. Len(Cur) : Cur'[i] = Cur[i]
      /\ Cur'[Len(Cur) + 1] = reported + 1
      /\ \A i \in 1 .. Len(Cur') : i \in 1 .. Len(Cur) \/ i = Len(Cur) + 1
      /\ Len(Cur) \in Nat
      /\ \A i \in 1 .. Len(Cur) : Cur[i] \in Nat
  BY <1>1, <1>2 DEF Event
<1>4. RingInv'
  BY <1>1, <1>2 DEF RingInv, TurnInv
<1>5. NameInv'
  <2>1. Table \in [Slot -> Nat]
    BY DEF ViewOK
  <2>2. \A s \in Slot : /\ Table[s] <= reported + 1
                        /\ \A i \in 1 .. Len(Cur') : Table[s] < Cur'[i]
                        /\ Table[s] \in DOMAIN files => files[Table[s]] # <<>>
    <3> TAKE s \in Slot
    <3>1. /\ Table[s] \in Nat /\ Table[s] <= reported
          /\ \A i \in 1 .. Len(Cur) : Table[s] < Cur[i]
          /\ Table[s] \in DOMAIN files => files[Table[s]] # <<>>
      BY <2>1 DEF NameInv, TurnInv
    <3>2. Table[s] <= reported + 1 /\ Table[s] < reported + 1
      BY <1>1, <3>1
    <3>3. \A i \in 1 .. Len(Cur') : Table[s] < Cur'[i]
      BY <1>3, <3>1, <3>2
    <3> QED
      BY <3>1, <3>2, <3>3
  <2> QED
    BY <1>1, <1>2, <2>2 DEF NameInv, TurnInv
<1>9. /\ \A i, j \in 1 .. Len(Cur) : i < j => Cur[i] < Cur[j]
      /\ \A i \in 1 .. Len(Cur) : Cur[i] <= reported
      /\ reported \in Nat
  BY <1>1 DEF OrderInv, TurnInv, Increasing
<1>6. OrderInv'
  <2>1. Increasing(Cur')
    BY <1>3, <1>9 DEF Increasing
  <2>2. \A i \in 1 .. Len(Cur') : Cur'[i] <= reported + 1
    BY <1>3, <1>9
  <2>3. ASSUME NEW n \in DOMAIN files
        PROVE  /\ Increasing(files[n])
               /\ files[n] # <<>> => files[n][1] = n
               /\ \A i \in 1 .. Len(files[n]) :
                    /\ files[n][i] <= reported + 1
                    /\ \A m \in DOMAIN files : n < m => files[n][i] < m
                    /\ \A j \in 1 .. Len(Cur') : files[n][i] < Cur'[j]
    <3>1. \A i \in 1 .. Len(files[n]) :
            /\ files[n][i] \in Nat /\ files[n][i] <= reported
            /\ \A j \in 1 .. Len(Cur) : files[n][i] < Cur[j]
      BY DEF ViewOK, OrderInv, TurnInv
    <3>2. \A i \in 1 .. Len(files[n]) :
            /\ files[n][i] <= reported + 1
            /\ \A j \in 1 .. Len(Cur') : files[n][i] < Cur'[j]
      BY <1>3, <1>9, <3>1
    <3> QED
      BY <3>2 DEF OrderInv, TurnInv
  <2> QED
    BY <1>1, <2>1, <2>2, <2>3 DEF OrderInv, Increasing
<1>7. DiskInv'
  BY <1>1 DEF DiskInv, TurnInv, Clearing
<1>8. OldInv'
  BY <1>1 DEF OldInv, TurnInv
<1> QED
  BY <1>4, <1>5, <1>6, <1>7, <1>8 DEF TurnInv

(* The save of the unfinished list, or none (saveTmpEvdata). *)
LEMMA TurnSave ==
  ASSUME LogInv, LogInv', ViewOK, ViewOK', TurnInv, NotSaved \/ OpenTmp \/ SaveTmp
  PROVE  TurnInv'
<1>1. /\ pc \in {"notify", "savetmp"} /\ pc' \in {"idle", "savetmp"}
      /\ UNCHANGED <<reported, evtlist, o_evtlist, is_oldevtexist, filename, savepos,
                     setting, setting5, tmpevent2, files>>
  BY DEF NotSaved, OpenTmp, SaveTmp, Goto, ramVars, diskVars
<1>2. /\ Cur = evtlist /\ Cur' = Cur /\ Table' = Table /\ Pos' = Pos
      /\ ~Clearing /\ files' = files /\ reported' = reported
  BY <1>1 DEF Cur, Table, Pos, Clearing
<1>3. Seed = <<>> \/ (Seed' # <<>> /\ Seed'[1] = Seed[1])
  <2>1. CASE NotSaved
    BY <2>1 DEF NotSaved, Goto, diskVars, Seed
  <2>2. CASE OpenTmp
    <3>1. Seed = tmpevent.list /\ Seed' = evtlist
      BY <1>1, <2>2 DEF OpenTmp, Goto, Seed
    <3>2. Covered(evtlist, tmpevent.list, Len(evtlist) - 1)
      BY <2>2 DEF OpenTmp, LogInv, TmpInv
    <3>3. evtlist \in Seq(Event) /\ tmpevent.list \in Seq(Event)
      BY DEF LogInv, TypeOK
    <3>4. ASSUME Seed # <<>>
          PROVE  Seed' # <<>> /\ Seed'[1] = Seed[1]
      <4>1. Len(tmpevent.list) \in Nat /\ Len(tmpevent.list) >= 1
        BY <3>1, <3>3, <3>4, EmptySeq
      <4>2. evtlist[1] = tmpevent.list[1] /\ Len(evtlist) >= 2
        BY <3>2, <3>3, <4>1 DEF Covered
      <4> QED
        BY <3>1, <3>3, <4>2
    <3> QED
      BY <3>4
  <2>3. CASE SaveTmp
    BY <2>3 DEF SaveTmp, Goto, Saved, Seed
  <2> QED
    BY <2>1, <2>2, <2>3
<1>4. RingInv' /\ NameInv' /\ OrderInv'
  <2>1. Len(Cur') <= Len(Cur) /\ \A i \in 1 .. Len(Cur') : Cur'[i] = Cur[i]
    BY <1>2 DEF ViewOK
  <2> QED
    BY <1>2, <1>3, <2>1, ViewShrinks DEF TurnInv
<1>5. DiskInv' /\ OldInv'
  BY <1>1 DEF DiskInv, OldInv, TurnInv, Clearing
<1> QED
  BY <1>4, <1>5 DEF TurnInv

(* A full list was saved at least once, so a death in its rotation leaves a    *)
(* tmpevent that begins with the same event.                                   *)
LEMMA SeedAtTheRotation ==
  ASSUME Survives, LogInv, Covered(evtlist, tmpevent.list, MAXEVENT - 1)
  PROVE  Len(tmpevent.list) >= 1 /\ tmpevent.list # <<>> /\ tmpevent.list[1] = evtlist[1]
<1>1. /\ MAXEVENT \in Nat \ {0} /\ MAXTMPEVENT \in 1 .. MAXEVENT - 1
      /\ tmpevent.list \in Seq(Event) /\ Len(tmpevent.list) \in Nat
  BY EventLogAssumption DEF Survives, LogInv, TypeOK
<1>2. (MAXEVENT - 1) - Len(tmpevent.list) <= MAXTMPEVENT - 1
  <2>1. MAXEVENT - 1 \in Nat
    BY <1>1
  <2> QED
    BY <1>1, <2>1, CoveredBound
<1>3. Len(tmpevent.list) >= 1
  BY <1>1, <1>2
<1> QED
  BY <1>1, <1>3 DEF Covered

(* The file whose turn it is goes, an empty one with the newest name comes. *)
LEMMA TurnRotate ==
  ASSUME Survives, LogInv, LogInv', ViewOK, ViewOK', TurnInv, Rotate
  PROVE  TurnInv'
<1> DEFINE old == filename[savepos]
           new == evtlist[1]
<1>1. /\ pc = "notify" /\ pc' = "file"
      /\ o_evtlist' = evtlist
      /\ filename' = [filename EXCEPT ![savepos] = new]
      /\ savepos' = (savepos + 1) % MAXEVENTFILES
      /\ UNCHANGED <<reported, evtlist, setting, setting5, tmpevent, tmpevent2>>
      /\ filename = setting5 /\ savepos = setting
  BY DEF Rotate, Goto, TurnInv, DiskInv
<1>2. /\ Cur = evtlist /\ Cur' = Cur /\ Table = setting5 /\ Table' = Table
      /\ Pos' = Pos /\ ~Clearing
      /\ Seed = tmpevent.list /\ Seed' = tmpevent.list
  BY <1>1 DEF Cur, Table, Pos, Clearing, Seed
<1>3. /\ DOMAIN files' = (DOMAIN files \ {old}) \cup {new}
      /\ \A n \in DOMAIN files' : files'[n] = IF n = new THEN <<>> ELSE files[n]
  BY DEF Rotate, With, Without
<1>4. /\ Len(evtlist) = MAXEVENT /\ 1 \in 1 .. Len(evtlist)
      /\ Covered(evtlist, tmpevent.list, MAXEVENT - 1)
  <2>1. Len(evtlist) = MAXEVENT
    BY EventLogAssumption DEF LogInv, TypeOK, Rotate
  <2> QED
    BY <1>1, <2>1, EventLogAssumption DEF LogInv, TmpInv
<1>5. tmpevent.list # <<>> /\ tmpevent.list[1] = new
  BY <1>4, SeedAtTheRotation
<1>6. /\ \A s \in Slot : Table[s] < new
      /\ \A n \in DOMAIN files : \A i \in 1 .. Len(files[n]) : files[n][i] < new
      /\ new \in Nat
  BY <1>2, <1>4 DEF TurnInv, NameInv, OrderInv, ViewOK
<1>7. old < new /\ old = Table[Pos] /\ Pos \in Slot /\ old \in Nat
  BY <1>1, <1>2, <1>6 DEF Pos, ViewOK
<1> HIDE DEF old, new
<1>8. RingInv'
  BY <1>2 DEF TurnInv, RingInv
<1>9. NameInv'
  <2>1. \A s \in Slot : /\ Table[s] <= reported
                        /\ \A i \in 1 .. Len(Cur) : Table[s] < Cur[i]
    BY DEF TurnInv, NameInv
  <2>2. ASSUME NEW s \in Slot, Table[s] \in DOMAIN files'
        PROVE  files'[Table[s]] # <<>>
    <3>1. Table[s] # new
      BY <1>6, <2>2 DEF ViewOK
    <3>2. Table[s] \in DOMAIN files
      BY <1>3, <2>2, <3>1
    <3> QED
      BY <1>3, <2>2, <3>1, <3>2 DEF TurnInv, NameInv
  <2>3. ASSUME NEW n \in DOMAIN files'
        PROVE  \/ \E s \in Slot : Table[s] = n
               \/ files'[n] = <<>> /\ tmpevent.list # <<>> /\ n = tmpevent.list[1]
    BY <1>2, <1>3, <1>5, <2>3 DEF TurnInv, NameInv
  <2> QED
    BY <1>1, <1>2, <2>1, <2>2, <2>3 DEF NameInv
<1>10. OrderInv'
  <2>1. ASSUME NEW n \in DOMAIN files', n # new
        PROVE  /\ Increasing(files'[n])
               /\ files'[n] # <<>> => files'[n][1] = n
               /\ \A i \in 1 .. Len(files'[n]) :
                    /\ files'[n][i] <= reported
                    /\ \A m \in DOMAIN files' : n < m => files'[n][i] < m
                    /\ \A j \in 1 .. Len(Cur) : files'[n][i] < Cur[j]
    <3>1. n \in DOMAIN files /\ files'[n] = files[n]
      BY <1>3, <2>1
    <3> QED
      BY <1>3, <1>6, <3>1 DEF TurnInv, OrderInv
  <2>2. ASSUME NEW n \in DOMAIN files', n = new
        PROVE  files'[n] = <<>> /\ Len(files'[n]) = 0 /\ Increasing(files'[n])
    BY <1>3, <2>2 DEF Increasing
  <2>3. Increasing(Cur) /\ \A i \in 1 .. Len(Cur) : Cur[i] <= reported
    BY DEF TurnInv, OrderInv
  <2>4. ASSUME NEW n \in DOMAIN files'
        PROVE  /\ Increasing(files'[n])
               /\ files'[n] # <<>> => files'[n][1] = n
               /\ \A i \in 1 .. Len(files'[n]) :
                    /\ files'[n][i] <= reported
                    /\ \A m \in DOMAIN files' : n < m => files'[n][i] < m
                    /\ \A j \in 1 .. Len(Cur) : files'[n][i] < Cur[j]
    BY <2>1, <2>2
  <2> QED
    BY <1>1, <1>2, <2>3, <2>4 DEF OrderInv, Increasing
<1>11. DiskInv'
  <2>1. setting5[setting] = old /\ old \notin DOMAIN files'
    BY <1>1, <1>3, <1>7 DEF old
  <2>2. new \in DOMAIN files' /\ files'[new] = <<>>
    BY <1>3
  <2> QED
    BY <1>1, <1>4, <2>1, <2>2 DEF DiskInv, Clearing, new
<1>12. OldInv'
  BY <1>1 DEF OldInv
<1> QED
  BY <1>8, <1>9, <1>10, <1>11, <1>12 DEF TurnInv

(* The position in the table goes round. *)
LEMMA NextSlot ==
  ASSUME NEW M \in Nat \ {0}, NEW s \in 0 .. M - 1
  PROVE  (s + 1) % M = IF s + 1 = M THEN 0 ELSE s + 1
<1>1. CASE s + 1 = M
  BY <1>1
<1>2. CASE s + 1 # M
  <2>1. s + 1 \in 0 .. M - 1
    BY <1>2
  <2> QED
    BY <1>2, <2>1
<1> QED
  BY <1>1, <1>2

(* The new file is filled: its name is the last in the order of the rotation,  *)
(* and it becomes the newest file.                                             *)
LEMMA TurnWriteFile ==
  ASSUME Survives, LogInv, LogInv', ViewOK, ViewOK', TurnInv, WriteFile
  PROVE  TurnInv'
<1> DEFINE new == evtlist[1]
<1>1. /\ pc = "file" /\ pc' = "setting" /\ evtlist' = <<>>
      /\ UNCHANGED <<reported, o_evtlist, is_oldevtexist, filename, savepos,
                     setting, setting5, tmpevent, tmpevent2>>
  BY DEF WriteFile, Goto
<1>2. /\ Cur = evtlist /\ Cur' = <<>> /\ Table = setting5 /\ Table' = filename
      /\ Pos = setting /\ Pos' = savepos /\ ~Clearing /\ ~Clearing'
      /\ Seed = tmpevent.list /\ Seed' = <<>>
  BY <1>1 DEF Cur, Table, Pos, Clearing, Seed
<1>3. /\ filename = [setting5 EXCEPT ![setting] = new]
      /\ savepos = (setting + 1) % MAXEVENTFILES
      /\ setting5[setting] \notin DOMAIN files
      /\ new \in DOMAIN files /\ files[new] = <<>>
      /\ Covered(evtlist, tmpevent.list, MAXEVENT - 1)
  BY <1>1 DEF TurnInv, DiskInv
<1>4. /\ DOMAIN files' = DOMAIN files
      /\ \A n \in DOMAIN files : files'[n] = IF n = new THEN evtlist ELSE files[n]
  BY <1>3 DEF WriteFile, With
<1>5. /\ evtlist \in Seq(Event) /\ Len(evtlist) \in Nat /\ 1 \in 1 .. Len(evtlist)
      /\ evtlist # <<>>
      /\ Len(<<>>) = 0
  <2>1. Len(evtlist) = MAXEVENT /\ evtlist \in Seq(Event)
    BY <1>1 DEF LogInv, ListInv, TypeOK
  <2> QED
    BY <2>1, EventLogAssumption
<1>6. tmpevent.list # <<>> /\ tmpevent.list[1] = new
  BY <1>3, SeedAtTheRotation
<1>7. /\ \A s \in Slot : setting5[s] < new /\ setting5[s] \in Nat /\ setting5[s] <= reported
      /\ \A n \in DOMAIN files : \A i \in 1 .. Len(files[n]) : files[n][i] < new
      /\ new \in Nat /\ new <= reported /\ reported \in Nat
      /\ \A i \in 1 .. Len(evtlist) : new <= evtlist[i] /\ evtlist[i] <= reported
      /\ Increasing(evtlist)
  <2>1. \A i \in 1 .. Len(evtlist) : evtlist[i] \in Nat /\ evtlist[i] <= reported
                                     /\ (1 < i => new < evtlist[i])
    BY <1>2, <1>5 DEF TurnInv, OrderInv, Increasing, ViewOK
  <2> QED
    BY <1>2, <1>5, <2>1 DEF TurnInv, NameInv, OrderInv, ViewOK, Increasing
<1>8. /\ setting \in Slot /\ MAXEVENTFILES \in Nat \ {0} /\ Slot = 0 .. MAXEVENTFILES - 1
      /\ setting5 \in [Slot -> Nat]
      /\ savepos = IF setting + 1 = MAXEVENTFILES THEN 0 ELSE setting + 1
  <2>1. /\ setting \in Slot /\ MAXEVENTFILES \in Nat \ {0} /\ Slot = 0 .. MAXEVENTFILES - 1
        /\ setting5 \in [Slot -> Nat]
    BY <1>2, EventLogAssumption DEF ViewOK, Slot
  <2> QED
    BY <1>3, <2>1, NextSlot
<1>9. filename[setting] = new /\ \A s \in Slot \ {setting} : filename[s] = setting5[s]
  BY <1>3, <1>8
<1> HIDE DEF new
<1>10. RingInv'
  <2> SUFFICES ASSUME NEW s \in Slot, NEW t \in Slot, Before(savepos, s, t), filename[s] # Empty
               PROVE  filename[s] < filename[t]
    BY <1>2 DEF RingInv
  <2>1. s # setting
    BY <1>8 DEF Before
  <2>2. CASE t = setting
    BY <1>7, <1>9, <2>1, <2>2
  <2>3. CASE t # setting
    <3>1. Before(setting, s, t)
      BY <1>8, <2>1, <2>3 DEF Before
    <3> QED
      BY <1>2, <1>9, <2>1, <2>3, <3>1 DEF TurnInv, RingInv
  <2> QED
    BY <2>2, <2>3
<1>11. NameInv'
  <2>1. \A s \in Slot : filename[s] <= reported
    BY <1>7, <1>9
  <2>2. ASSUME NEW s \in Slot, filename[s] \in DOMAIN files'
        PROVE  files'[filename[s]] # <<>>
    <3>1. CASE s = setting
      BY <1>3, <1>4, <1>5, <1>9, <3>1
    <3>2. CASE s # setting
      <4>1. filename[s] = setting5[s] /\ setting5[s] # new /\ setting5[s] \in DOMAIN files
        BY <1>4, <1>7, <1>9, <2>2, <3>2
      <4> QED
        BY <1>2, <1>4, <4>1 DEF TurnInv, NameInv
    <3> QED
      BY <3>1, <3>2
  <2>3. ASSUME NEW n \in DOMAIN files'
        PROVE  \E s \in Slot : filename[s] = n
    <3>1. CASE n = new
      BY <1>8, <1>9, <3>1
    <3>2. CASE n # new
      <4>1. PICK s \in Slot : setting5[s] = n
        BY <1>2, <1>4, <1>6, <2>3, <3>2 DEF TurnInv, NameInv
      <4>2. s # setting
        BY <1>3, <1>4, <2>3, <4>1
      <4> QED
        BY <1>9, <4>1, <4>2
    <3> QED
      BY <3>1, <3>2
  <2> QED
    BY <1>1, <1>2, <1>5, <2>1, <2>2, <2>3 DEF NameInv
<1>12. OrderInv'
  <2>1. ASSUME NEW n \in DOMAIN files
        PROVE  /\ Increasing(files'[n])
               /\ files'[n] # <<>> => files'[n][1] = n
               /\ \A i \in 1 .. Len(files'[n]) :
                    /\ files'[n][i] <= reported
                    /\ \A m \in DOMAIN files : n < m => files'[n][i] < m
    <3>1. CASE n # new
      BY <1>4, <3>1 DEF TurnInv, OrderInv
    <3>2. CASE n = new
      <4>1. files'[n] = evtlist
        BY <1>4, <3>2
      <4>2. \A m \in DOMAIN files : ~(new < m)
        <5> SUFFICES ASSUME NEW m \in DOMAIN files, new < m
                     PROVE  FALSE
          OBVIOUS
        <5>1. (\E s \in Slot : setting5[s] = m) \/ m = new
          BY <1>2, <1>6 DEF TurnInv, NameInv
        <5>2. m \in Nat
          BY DEF ViewOK
        <5> QED
          BY <1>7, <5>1, <5>2
      <4> QED
        BY <1>7, <3>2, <4>1, <4>2 DEF new
    <3> QED
      BY <3>1, <3>2
  <2>2. Increasing(Cur')
    BY <1>2, <1>5 DEF Increasing
  <2>3. DOMAIN files' = DOMAIN files
    BY <1>4
  <2> QED
    BY <1>1, <1>2, <1>5, <2>1, <2>2, <2>3 DEF OrderInv, Increasing
<1>13. DiskInv'
  BY <1>1 DEF DiskInv, Clearing
<1>14. OldInv'
  <2> SUFFICES ASSUME is_oldevtexist, o_evtlist # <<>>
               PROVE  /\ o_evtlist[1] \in DOMAIN files'
                      /\ files'[o_evtlist[1]] = o_evtlist
                      /\ \A n \in DOMAIN files' : files'[n] # <<>> => n <= o_evtlist[1]
    BY <1>1 DEF OldInv
  <2>1. o_evtlist = evtlist /\ o_evtlist[1] = new
    BY <1>1 DEF TurnInv, OldInv, new
  <2>2. ASSUME NEW n \in DOMAIN files
        PROVE  n <= new
    <3>1. (\E s \in Slot : setting5[s] = n) \/ n = new
      BY <1>2, <1>6 DEF TurnInv, NameInv
    <3> QED
      BY <1>7, <3>1
  <2> QED
    BY <1>3, <1>4, <2>1, <2>2
<1> QED
  BY <1>10, <1>11, <1>12, <1>13, <1>14 DEF TurnInv

(* The table reaches the disk, and the unfinished list goes. *)
LEMMA TurnSettings ==
  ASSUME LogInv, ViewOK, ViewOK', TurnInv, SaveSetting \/ SaveSetting5 \/ DelTmp
  PROVE  TurnInv'
<1>1. /\ pc \in {"setting", "setting5", "deltmp"} /\ pc' \in {"setting5", "deltmp", "idle"}
      /\ UNCHANGED <<reported, evtlist, o_evtlist, is_oldevtexist, filename, savepos,
                     tmpevent2, files>>
  BY DEF SaveSetting, SaveSetting5, DelTmp, Goto, ramVars
<1>2. /\ Cur = evtlist /\ Cur' = Cur /\ Table' = Table /\ Pos' = Pos
      /\ ~Clearing /\ files' = files /\ reported' = reported /\ Seed = <<>>
  BY <1>1 DEF Cur, Table, Pos, Clearing, Seed
<1>3. RingInv' /\ NameInv' /\ OrderInv'
  <2>1. Len(Cur') <= Len(Cur) /\ \A i \in 1 .. Len(Cur') : Cur'[i] = Cur[i]
    BY <1>2 DEF ViewOK
  <2> QED
    BY <1>2, <2>1, ViewShrinks DEF TurnInv
<1>4. OldInv'
  BY <1>1 DEF OldInv, TurnInv
<1>5. DiskInv'
  BY <1>1 DEF DiskInv, TurnInv, Clearing, SaveSetting, SaveSetting5, DelTmp, Goto, ramVars
<1> QED
  BY <1>3, <1>4, <1>5 DEF TurnInv

(* An empty log is in order. *)
LEMMA TurnEmptied ==
  ASSUME ViewOK', Cur' = <<>>, files' = <<>>, Table' = [s \in Slot |-> Empty], reported' \in Nat
  PROVE  RingInv' /\ NameInv' /\ OrderInv'
<1>1. Len(Cur') = 0 /\ DOMAIN files' = {} /\ \A s \in Slot : Table'[s] = 0
  BY DEF Empty
<1>2. RingInv'
  BY <1>1 DEF RingInv, Empty
<1>3. NameInv'
  BY <1>1 DEF NameInv
<1>4. OrderInv'
  BY <1>1 DEF OrderInv, Increasing
<1> QED
  BY <1>2, <1>3, <1>4

(* clearevent begins with the lists in memory. *)
LEMMA TurnClearLists ==
  ASSUME LogInv, ViewOK, ViewOK', TurnInv, ClearLists
  PROVE  TurnInv'
<1>1. /\ pc = "idle" /\ pc' = "clear" /\ evtlist' = <<>> /\ o_evtlist' = <<>>
      /\ is_oldevtexist' = FALSE
      /\ filename' = [s \in Slot |-> Empty]
      /\ UNCHANGED <<reported, setting, setting5, tmpevent, tmpevent2, files>>
  BY DEF ClearLists, Goto, diskVars
<1>2. /\ Cur' = <<>> /\ Table' = filename' /\ Clearing' /\ Len(Cur') = 0
  BY <1>1 DEF Cur, Table, Clearing
<1>3. \A s \in Slot : Table'[s] = 0
  BY <1>1, <1>2 DEF Empty
<1>4. RingInv'
  BY <1>3 DEF RingInv, Empty
<1>5. NameInv'
  <2>1. 0 \notin DOMAIN files /\ reported \in Nat
    BY DEF ViewOK
  <2> QED
    BY <1>1, <1>2, <1>3, <2>1 DEF NameInv
<1>6. OrderInv'
  <2>1. Increasing(Cur')
    BY <1>2 DEF Increasing
  <2>2. ASSUME NEW n \in DOMAIN files
        PROVE  /\ Increasing(files[n])
               /\ files[n] # <<>> => files[n][1] = n
               /\ \A i \in 1 .. Len(files[n]) :
                    /\ files[n][i] <= reported
                    /\ \A m \in DOMAIN files : n < m => files[n][i] < m
    BY DEF TurnInv, OrderInv
  <2> QED
    BY <1>1, <1>2, <2>1, <2>2 DEF OrderInv, Increasing
<1>7. DiskInv' /\ OldInv'
  BY <1>1 DEF DiskInv, OldInv, Clearing
<1> QED
  BY <1>4, <1>5, <1>6, <1>7 DEF TurnInv

(* The settings and the unfinished list follow. *)
LEMMA TurnClear ==
  ASSUME LogInv, ViewOK, ViewOK', TurnInv, ClearSettings \/ ClearTmp
  PROVE  TurnInv'
<1>1. /\ pc \in {"clear", "cleartmp"} /\ pc' \in {"cleartmp", "clearfiles"}
      /\ UNCHANGED <<reported, evtlist, o_evtlist, is_oldevtexist, filename, savepos, files>>
  BY DEF ClearSettings, ClearTmp, Goto, ramVars
<1>2. /\ Cur = evtlist /\ Cur' = Cur /\ Table' = Table /\ Pos' = Pos
      /\ Clearing' /\ files' = files /\ reported' = reported
  BY <1>1 DEF Cur, Table, Pos, Clearing
<1>3. RingInv' /\ NameInv' /\ OrderInv'
  <2>1. Len(Cur') <= Len(Cur) /\ \A i \in 1 .. Len(Cur') : Cur'[i] = Cur[i]
    BY <1>2 DEF ViewOK
  <2> QED
    BY <1>2, <2>1, ViewShrinks DEF TurnInv
<1>4. OldInv'
  BY <1>1 DEF OldInv, TurnInv
<1>5. DiskInv'
  BY <1>1 DEF DiskInv, TurnInv, Clearing, ClearSettings, ClearTmp, Goto, ramVars
<1> QED
  BY <1>3, <1>4, <1>5 DEF TurnInv

(* Then the files. *)
LEMMA TurnClearFiles ==
  ASSUME LogInv, ViewOK, ViewOK', TurnInv, ClearFiles
  PROVE  TurnInv'
<1>1. /\ pc = "clearfiles" /\ pc' = "idle" /\ files' = <<>>
      /\ UNCHANGED <<reported, evtlist, o_evtlist, is_oldevtexist, filename, savepos,
                     setting, setting5, tmpevent, tmpevent2>>
  BY DEF ClearFiles, Goto, ramVars
<1>2. /\ Cur' = <<>> /\ Table' = [s \in Slot |-> Empty] /\ reported' \in Nat
      /\ ~is_oldevtexist
  BY <1>1 DEF Cur, Table, ViewOK, LogInv, ListInv, TurnInv, DiskInv, Clearing
<1>3. RingInv' /\ NameInv' /\ OrderInv'
  BY <1>1, <1>2, TurnEmptied
<1>4. DiskInv' /\ OldInv'
  BY <1>1, <1>2 DEF DiskInv, OldInv, Clearing, TurnInv
<1> QED
  BY <1>3, <1>4 DEF TurnInv

(* All at once. *)
LEMMA TurnReset ==
  ASSUME LogInv, ViewOK, ViewOK', TurnInv, FactoryReset
  PROVE  TurnInv'
<1>1. /\ pc = "idle" /\ pc' \in {"idle", "down"} /\ evtlist' = <<>>
      /\ is_oldevtexist' = FALSE
      /\ filename' = [s \in Slot |-> Empty] /\ savepos' = 0
      /\ setting' = savepos' /\ setting5' = filename'
      /\ tmpevent' = Missing /\ tmpevent2' = Missing /\ files' = <<>>
      /\ reported' = reported
  BY DEF FactoryReset, Goto
<1>2. /\ Cur' = <<>> /\ Table' = [s \in Slot |-> Empty] /\ reported' \in Nat
  BY <1>1 DEF Cur, Table, Restorable, Missing, ViewOK
<1>3. RingInv' /\ NameInv' /\ OrderInv'
  BY <1>1, <1>2, TurnEmptied
<1>4. DiskInv' /\ OldInv'
  BY <1>1 DEF DiskInv, OldInv, Clearing
<1> QED
  BY <1>3, <1>4 DEF TurnInv

(* What a boot will find is the list without its last MAXTMPEVENT events at    *)
(* most, wherever the daemon died, and as long as it was told to go down       *)
(* nothing is missing (Kill, Reboot, FwUpdate).                                *)
LEMMA WhatADeathLeaves ==
  ASSUME Survives, LogInv, ViewOK, TurnInv, Kill \/ Reboot \/ FwUpdate
  PROVE  /\ Len(Restorable') \in Nat
         /\ Len(Restorable') <= Len(Cur)
         /\ \A i \in 1 .. Len(Restorable') : Restorable'[i] = Cur[i]
         /\ Len(Cur) - Len(Restorable') <= MAXTMPEVENT
         /\ tmpevent.list # <<>> => /\ tmpevent'.list # <<>>
                                    /\ tmpevent'.list[1] = tmpevent.list[1]
<1>1. /\ evtlist \in Seq(Event) /\ Len(evtlist) \in Nat
      /\ tmpevent.list \in Seq(Event) /\ Len(tmpevent.list) \in Nat
      /\ tmpevent2.list \in Seq(Event) /\ Len(tmpevent2.list) \in Nat
      /\ MAXTMPEVENT \in Nat \ {0} /\ MAXEVENT \in Nat \ {0}
  BY EventLogAssumption DEF LogInv, TypeOK
<1>2. CASE Kill
  <2>1. /\ pc \in {"idle", "notify", "file", "down", "boot"}
        /\ tmpevent' = tmpevent /\ tmpevent2' = tmpevent2 /\ Restorable' = Restorable
    BY <1>2 DEF Kill, Survives, diskVars, Restorable
  <2>2. CASE pc \in {"down", "boot"}
    <3>1. Restorable = Cur
      BY <2>2 DEF Cur, TurnInv, DiskInv
    <3> QED
      BY <1>1, <2>1, <3>1 DEF ViewOK
  <2>3. CASE pc \in {"idle", "notify", "file"}
    <3>1. Restorable = tmpevent.list /\ Cur = evtlist
      BY <2>3 DEF Cur, Restorable, LogInv, TmpInv
    <3>2. PICK n \in {Len(evtlist), Len(evtlist) - 1} :
            n \in Nat /\ Covered(evtlist, tmpevent.list, n)
      <4>1. pc = "file" => Len(evtlist) = MAXEVENT /\ Covered(evtlist, tmpevent.list, MAXEVENT - 1)
        BY DEF LogInv, ListInv, TurnInv, DiskInv
      <4>2. pc = "notify" => Len(evtlist) >= 1 /\ Covered(evtlist, tmpevent.list, Len(evtlist) - 1)
        BY DEF LogInv, ListInv, TmpInv
      <4>3. pc = "idle" => Covered(evtlist, tmpevent.list, Len(evtlist))
        BY DEF LogInv, TmpInv
      <4> QED
        BY <1>1, <2>3, <4>1, <4>2, <4>3
    <3>3. n - Len(tmpevent.list) <= MAXTMPEVENT - 1
      BY <1>1, <3>2, CoveredBound
    <3>4. Len(Restorable') = Len(tmpevent.list) /\ Len(tmpevent.list) <= n /\ n <= Len(Cur)
      BY <1>1, <2>1, <3>1, <3>2 DEF Covered
    <3>5. \A i \in 1 .. Len(Restorable') : Restorable'[i] = Cur[i]
      BY <2>1, <3>1, <3>2 DEF Covered
    <3>6. Len(Cur) - Len(Restorable') <= MAXTMPEVENT
      <4>1. n = Len(Cur) \/ n = Len(Cur) - 1
        BY <3>1, <3>2
      <4>2. Len(Cur) \in Nat
        BY <1>1, <3>1
      <4> QED
        BY <1>1, <3>2, <3>3, <3>4, <4>1, <4>2
    <3> QED
      BY <1>1, <2>1, <3>4, <3>5, <3>6
  <2> QED
    BY <2>1, <2>2, <2>3
<1>3. CASE Reboot
  <2>1. pc = "idle" /\ tmpevent' = tmpevent /\ Restorable' = evtlist /\ Cur = evtlist
    BY <1>3 DEF Reboot, Survives, Restorable, Saved, Cur
  <2> QED
    BY <1>1, <2>1
<1>4. CASE FwUpdate
  <2>1. /\ pc = "idle" /\ tmpevent'.list = evtlist /\ tmpevent2' = tmpevent2
        /\ Cur = evtlist /\ ~tmpevent2.ok
    BY <1>4 DEF FwUpdate, Saved, Cur, LogInv, TmpInv
  <2>2. Restorable' = evtlist
    BY <2>1 DEF Restorable
  <2>3. Covered(evtlist, tmpevent.list, Len(evtlist))
    BY <2>1 DEF LogInv, TmpInv
  <2>4. tmpevent.list # <<>> => Len(tmpevent.list) >= 1
    BY <1>1, EmptySeq
  <2> QED
    BY <1>1, <2>1, <2>2, <2>3, <2>4 DEF Covered
<1> QED
  BY <1>2, <1>3, <1>4

(* A death leaves the log in order. *)
LEMMA TurnDown ==
  ASSUME Survives, LogInv, ViewOK, ViewOK', TurnInv, Kill \/ Reboot \/ FwUpdate
  PROVE  TurnInv'
<1>1. /\ pc \in {"idle", "notify", "file", "down", "boot"} /\ pc' = "down"
      /\ is_oldevtexist' = FALSE
      /\ UNCHANGED <<reported, setting, setting5, files>>
  BY DEF Kill, Reboot, FwUpdate, LoseRam, Goto, Survives, diskVars
<1>2. /\ Cur' = Restorable' /\ Table' = setting5 /\ Pos' = setting /\ ~Clearing
      /\ Table = setting5 /\ Pos = setting
      /\ Seed = tmpevent.list /\ Seed' = tmpevent'.list
      /\ files' = files /\ reported' = reported
  BY <1>1 DEF Cur, Table, Pos, Clearing, Seed, TurnInv, DiskInv
<1>3. RingInv' /\ NameInv' /\ OrderInv'
  BY <1>2, WhatADeathLeaves, ViewShrinks DEF TurnInv
<1>4. DiskInv' /\ OldInv'
  BY <1>1 DEF DiskInv, OldInv, Clearing
<1> QED
  BY <1>3, <1>4 DEF TurnInv

(* The boot finds what the death left, and takes the newest file. *)
LEMMA TurnBoot ==
  ASSUME LogInv, ViewOK, ViewOK', TurnInv, Load \/ LoadLast
  PROVE  TurnInv'
<1>1. /\ pc \in {"down", "boot"} /\ pc' \in {"boot", "idle"}
      /\ UNCHANGED <<reported, setting, setting5, tmpevent, files>>
  BY DEF Load, LoadLast, Goto, diskVars
<1>2. /\ Cur' = Cur /\ Table' = Table /\ Pos' = Pos
      /\ ~Clearing /\ files' = files /\ reported' = reported /\ Seed' = Seed
  BY <1>1 DEF Load, LoadLast, Goto, diskVars, Cur, Table, Pos, Clearing, Seed, TurnInv, DiskInv
<1>3. RingInv' /\ NameInv' /\ OrderInv'
  <2>1. Len(Cur') <= Len(Cur) /\ \A i \in 1 .. Len(Cur') : Cur'[i] = Cur[i]
    BY <1>2 DEF ViewOK
  <2> QED
    BY <1>2, <2>1, ViewShrinks DEF TurnInv
<1>4. DiskInv'
  <2>1. CASE Load
    BY <2>1 DEF Load, Goto, diskVars, DiskInv, TurnInv, Clearing, Restorable
  <2>2. CASE LoadLast
    BY <2>2 DEF LoadLast, Goto, DiskInv, TurnInv, Clearing
  <2> QED
    BY <2>1, <2>2
<1>5. OldInv'
  <2>1. CASE Load
    BY <2>1 DEF Load, Goto, OldInv, DiskInv, TurnInv
  <2>2. CASE LoadLast
    <3>1. pc = "boot" /\ pc' = "idle" /\ ~is_oldevtexist
      BY <2>2 DEF LoadLast, Goto, DiskInv, TurnInv
    <3>2. CASE UNCHANGED is_oldevtexist
      BY <3>1, <3>2 DEF OldInv
    <3>3. CASE ~UNCHANGED is_oldevtexist
      <4>1. PICK n \in DOMAIN files : /\ \A m \in DOMAIN files : m <= n
                                      /\ o_evtlist' = files[n]
        BY <2>2, <3>3 DEF LoadLast, LoadNewest
      <4>2. files[n] # <<>> => files[n][1] = n
        BY DEF TurnInv, OrderInv
      <4> QED
        BY <1>1, <3>1, <4>1, <4>2 DEF OldInv
    <3> QED
      BY <3>2, <3>3
  <2> QED
    BY <2>1, <2>2
<1> QED
  BY <1>3, <1>4, <1>5 DEF TurnInv

(* Nothing happens. *)
LEMMA TurnStutter ==
  ASSUME TurnInv, UNCHANGED vars
  PROVE  TurnInv'
<1>1. UNCHANGED <<reported, evtlist, o_evtlist, is_oldevtexist, filename, savepos, setting,
                  setting5, tmpevent, tmpevent2, files, pc>>
  BY DEF vars, ramVars, diskVars
<1>2. /\ Cur' = Cur /\ Table' = Table /\ Pos' = Pos /\ Seed' = Seed
      /\ (Clearing' <=> Clearing) /\ Restorable' = Restorable
  BY <1>1 DEF Cur, Table, Pos, Seed, Clearing, Restorable
<1>3. RingInv' /\ NameInv' /\ OrderInv'
  BY <1>1, <1>2 DEF TurnInv, RingInv, NameInv, OrderInv, Increasing
<1>4. DiskInv' /\ OldInv'
  BY <1>1, <1>2 DEF TurnInv, DiskInv, OldInv, Covered
<1> QED
  BY <1>3, <1>4 DEF TurnInv

(* The log begins empty. *)
LEMMA InitTurnInv == Init => TurnInv
<1> SUFFICES ASSUME Init
             PROVE  TurnInv
  OBVIOUS
<1>1. /\ Cur = <<>> /\ Table = [s \in Slot |-> Empty] /\ Len(Cur) = 0 /\ DOMAIN files = {}
      /\ reported = 0 /\ \A s \in Slot : Table[s] = 0
  BY DEF Init, Cur, Table, Empty
<1>2. RingInv /\ NameInv /\ OrderInv
  BY <1>1 DEF RingInv, NameInv, OrderInv, Increasing, Empty
<1>3. DiskInv /\ OldInv
  BY DEF Init, DiskInv, OldInv, Clearing
<1> QED
  BY <1>2, <1>3 DEF TurnInv

\* Table, files and lists keep their order through every rotation, clear, death
\* and boot (saveEvdata, clearevent, loadTmpEvdata, loadLastEvdata).
THEOREM TurnInvariant ==
  ASSUME Survives
  PROVE  Spec => []TurnInv
<1>1. ASSUME LogInv, LogInv', ViewOK, ViewOK', TurnInv, [Next]_vars
      PROVE  TurnInv'
  BY <1>1, TurnNewEvent, TurnSave, TurnRotate, TurnWriteFile, TurnSettings, TurnClearLists,
     TurnClear, TurnClearFiles, TurnReset, TurnDown, TurnBoot, TurnStutter DEF Next
<1>2. LogInv /\ LogInv' /\ ViewOK /\ ViewOK' /\ TurnInv /\ [Next]_vars => TurnInv'
  BY <1>1
<1>3. Spec => []LogInv
  BY LogInvariant DEF Survives
<1> QED
  BY InitTurnInv, <1>2, <1>3, ViewIsOK, PTL DEF Spec

\* Every event file has one place in the table that a restart would load, or is
\* the empty one that the next rotation fills (saveEvdata, savesetting5).
THEOREM LogFilesHaveTheirTurn ==
  ASSUME Survives
  PROVE  Spec => []FilesHaveTheirTurn
<1>1. LogInv /\ ViewOK /\ TurnInv => FilesHaveTheirTurn
  <2> SUFFICES ASSUME LogInv, ViewOK, TurnInv, pc = "idle"
               PROVE  /\ filename = setting5 /\ savepos = setting
                      /\ \A n \in DOMAIN files :
                           \/ Cardinality({s \in Slot : setting5[s] = n}) = 1
                           \/ files[n] = <<>> /\ evtlist # <<>> /\ n = evtlist[1]
    BY DEF FilesHaveTheirTurn
  <2>1. /\ filename = setting5 /\ savepos = setting
        /\ Table = setting5 /\ Pos = setting /\ Seed = tmpevent.list /\ ~Clearing
    BY DEF TurnInv, DiskInv, Table, Pos, Seed, Clearing
  <2>2. ASSUME NEW n \in DOMAIN files, NEW s \in Slot, setting5[s] = n
        PROVE  Cardinality({t \in Slot : setting5[t] = n}) = 1
    <3>1. ASSUME NEW t \in Slot, setting5[t] = n
          PROVE  t = s
      <4>1. n # Empty /\ n \in Nat
        BY DEF ViewOK, Empty
      <4>2. ~Before(Pos, s, t) /\ ~Before(Pos, t, s)
        BY <2>1, <2>2, <3>1, <4>1 DEF TurnInv, RingInv
      <4> QED
        BY <4>2 DEF Before, ViewOK, Slot
    <3>2. {t \in Slot : setting5[t] = n} = {s}
      BY <2>2, <3>1
    <3> QED
      BY <3>2, FS_Singleton
  <2>3. ASSUME NEW n \in DOMAIN files, \A s \in Slot : setting5[s] # n
        PROVE  files[n] = <<>> /\ evtlist # <<>> /\ n = evtlist[1]
    <3>1. files[n] = <<>> /\ tmpevent.list # <<>> /\ n = tmpevent.list[1]
      BY <2>1, <2>3 DEF TurnInv, NameInv
    <3>2. Covered(evtlist, tmpevent.list, Len(evtlist))
      BY DEF LogInv, TmpInv
    <3>3. /\ tmpevent.list \in Seq(Event) /\ Len(tmpevent.list) \in Nat
          /\ evtlist \in Seq(Event) /\ Len(evtlist) \in Nat
      BY DEF LogInv, TypeOK
    <3>4. Len(tmpevent.list) >= 1
      BY <3>1, <3>3, EmptySeq
    <3> QED
      BY <3>1, <3>2, <3>3, <3>4 DEF Covered
  <2> QED
    BY <2>1, <2>2, <2>3
<1>2. Spec => []LogInv
  BY LogInvariant DEF Survives
<1> QED
  BY TurnInvariant, <1>1, <1>2, ViewIsOK, PTL

(***************************************************************************)
(* What readers see: the recent events, and the log as a set.               *)
(***************************************************************************)

\* Event x is in a file, in the list, in the log.
Filing(x) == \E n \in DOMAIN files : \E i \in 1 .. Len(files[n]) : x = files[n][i]
Listed(x) == \E i \in 1 .. Len(Cur) : x = Cur[i]
InLog(x) == ~Clearing /\ (Filing(x) \/ Listed(x))

(* The events of a table are those of the files it names. *)
LEMMA FiledUnder ==
  ASSUME ViewOK, NEW t, NEW x
  PROVE  x \in Filed(t) <=> \E s \in Slot : /\ t[s] \in DOMAIN files
                                            /\ \E i \in 1 .. Len(files[t[s]]) : x = files[t[s]][i]
<1>1. \A n \in DOMAIN files : DOMAIN files[n] = 1 .. Len(files[n])
  BY DEF ViewOK
<1> QED
  BY <1>1 DEF Filed

\* What a phone can be shown are the events of all files and of the list.
KnownOK == \A x : x \in Known <=> InLog(x)

(* No file is left out, because each nonempty one is in the table; while the   *)
(* log is being cleared nothing is shown.                                      *)
LEMMA KnownIsInLog == LogInv /\ ViewOK /\ TurnInv => KnownOK
<1> SUFFICES ASSUME LogInv, ViewOK, TurnInv, NEW x
             PROVE  x \in Known <=> InLog(x)
  BY DEF KnownOK
<1> DEFINE t == IF pc = "down" THEN setting5 ELSE filename
<1>1. x \in Known <=> x \in Filed(t) \/ Listed(x)
  <2>1. Restorable \in Seq(Event) /\ evtlist \in Seq(Event)
    BY DEF LogInv, TypeOK, Restorable
  <2>2. Known = Filed(t) \cup Elements(Cur)
    BY DEF Known, Cur
  <2>3. DOMAIN Cur = 1 .. Len(Cur)
    BY DEF ViewOK
  <2> QED
    BY <2>2, <2>3 DEF Elements, Listed
<1>2. CASE Clearing
  <2>1. t = [s \in Slot |-> 0] /\ Cur = evtlist /\ evtlist = <<>>
    BY <1>2 DEF Clearing, TurnInv, DiskInv, Empty, Cur, LogInv, ListInv
  <2>2. ~Listed(x)
    BY <2>1 DEF Listed
  <2>3. x \notin Filed(t)
    BY <2>1, FiledUnder DEF ViewOK
  <2> QED
    BY <1>1, <1>2, <2>2, <2>3 DEF InLog
<1>3. CASE ~Clearing
  <2>1. x \in Filed(t) => Filing(x)
    BY FiledUnder DEF Filing
  <2>2. ASSUME Filing(x)
        PROVE  x \in Filed(t)
    <3>1. PICK n \in DOMAIN files : \E i \in 1 .. Len(files[n]) : x = files[n][i]
      BY <2>2 DEF Filing
    <3>2. files[n] # <<>>
      BY <3>1
    <3>3. PICK s \in Slot : Table[s] = n
      BY <1>3, <3>2 DEF TurnInv, NameInv
    <3>4. t[s] = n
      <4>1. CASE pc = "file"
        <5>1. /\ t = [setting5 EXCEPT ![setting] = evtlist[1]] /\ Table = setting5
              /\ setting5[setting] \notin DOMAIN files
          BY <4>1 DEF TurnInv, DiskInv, Table
        <5>2. s # setting
          BY <3>3, <5>1
        <5> QED
          BY <3>3, <5>1, <5>2 DEF ViewOK
      <4>2. CASE pc # "file"
        BY <3>3, <4>2 DEF Table
      <4> QED
        BY <4>1, <4>2
    <3> QED
      BY <3>1, <3>4, FiledUnder
  <2> QED
    BY <1>1, <1>3, <2>1, <2>2 DEF InLog
<1> QED
  BY <1>2, <1>3

(* What getevent puts together for a phone, event by event. *)
LEMMA RecentShape ==
  ASSUME LogInv, is_oldevtexist
  PROVE  LET d == IF Len(evtlist) >= Len(o_evtlist) THEN 0 ELSE Len(o_evtlist) - Len(evtlist)
         IN  /\ Recent \in Seq(Event)
             /\ Len(Recent) = d + Len(evtlist)
             /\ \A i \in 1 .. d : Recent[i] = o_evtlist[Len(evtlist) + i]
             /\ \A i \in 1 .. Len(evtlist) : Recent[d + i] = evtlist[i]
<1> DEFINE k == Len(evtlist)
           m == Len(o_evtlist)
           d == IF k >= m THEN 0 ELSE m - k
           head == SubSeq(o_evtlist, k + 1, m)
<1>1. evtlist \in Seq(Event) /\ o_evtlist \in Seq(Event) /\ k \in Nat /\ m \in Nat /\ d \in Nat
  BY DEF LogInv, TypeOK
<1>2. head \in Seq(Event) /\ Len(head) = d /\ \A i \in 1 .. d : head[i] = o_evtlist[k + i]
  <2>1. /\ head \in Seq(Event)
        /\ Len(head) = IF k + 1 <= m THEN m - (k + 1) + 1 ELSE 0
        /\ \A i \in 1 .. m - (k + 1) + 1 : head[i] = o_evtlist[(k + 1) + i - 1]
    BY <1>1, SubSeqProperties
  <2>2. \A i \in 1 .. d : i \in 1 .. m - (k + 1) + 1 /\ (k + 1) + i - 1 = k + i
    BY <1>1
  <2> HIDE DEF head
  <2> QED
    BY <1>1, <2>1, <2>2
<1>3. Recent = head \o evtlist
  BY DEF Recent
<1> HIDE DEF head
<1>4. /\ head \o evtlist \in Seq(Event)
      /\ Len(head \o evtlist) = d + k
      /\ \A i \in 1 .. d + k : (head \o evtlist)[i] = IF i <= d THEN head[i] ELSE evtlist[i - d]
  BY <1>1, <1>2, ConcatProperties
<1>5. /\ \A i \in 1 .. d : Recent[i] = o_evtlist[k + i]
      /\ \A i \in 1 .. k : Recent[d + i] = evtlist[i]
  <2>1. \A i \in 1 .. d : i \in 1 .. d + k /\ i <= d
    BY <1>1
  <2>2. \A i \in 1 .. k : d + i \in 1 .. d + k /\ ~(d + i <= d) /\ (d + i) - d = i
    BY <1>1
  <2> HIDE DEF d, k
  <2> QED
    BY <1>2, <1>3, <1>4, <2>1, <2>2
<1> QED
  BY <1>3, <1>4, <1>5

(* The list alone, when there is no list before it. *)
LEMMA NewestOfTheList ==
  ASSUME LogInv, ViewOK, TurnInv, Cur = evtlist, Recent = evtlist
  PROVE  /\ \A i, j \in DOMAIN Recent : i < j => Recent[i] < Recent[j]
         /\ Elements(Recent) \subseteq Known
         /\ \A e \in Known \ Elements(Recent), f \in Elements(Recent) : e < f
<1>1. DOMAIN Recent = 1 .. Len(Cur) /\ Recent = Cur
  BY DEF ViewOK
<1>2. \A i, j \in DOMAIN Recent : i < j => Recent[i] < Recent[j]
  BY <1>1 DEF TurnInv, OrderInv, Increasing
<1>3. ASSUME NEW f \in Elements(Recent)
      PROVE  f \in Known /\ \A e \in Known \ Elements(Recent) : e < f
  <2>1. PICK j \in 1 .. Len(Cur) : f = Cur[j]
    BY <1>1 DEF Elements
  <2>2. ~Clearing
    BY <2>1 DEF Clearing, LogInv, ListInv, ViewOK
  <2>3. f \in Known
    BY <2>1, <2>2, KnownIsInLog DEF KnownOK, InLog, Listed
  <2>4. ASSUME NEW e \in Known \ Elements(Recent)
        PROVE  e < f
    <3>1. Filing(e)
      BY <1>1, KnownIsInLog DEF KnownOK, InLog, Listed, Elements
    <3> QED
      BY <2>1, <3>1 DEF Filing, TurnInv, OrderInv
  <2> QED
    BY <2>3, <2>4
<1> QED
  BY <1>2, <1>3

\* The phones' recent events are the newest of the log, in order, none twice and
\* none left out, at every step of a rotation and after every boot (getevent).
THEOREM LogRecentIsNewest ==
  ASSUME Survives
  PROVE  Spec => []RecentIsNewest
<1>1. ASSUME LogInv, ViewOK, TurnInv
      PROVE  RecentIsNewest
  <2> SUFFICES ASSUME pc \notin {"down", "boot"}
               PROVE  /\ \A i, j \in DOMAIN Recent : i < j => Recent[i] < Recent[j]
                      /\ Elements(Recent) \subseteq Known
                      /\ \A e \in Known \ Elements(Recent), f \in Elements(Recent) : e < f
    BY DEF RecentIsNewest
  <2> DEFINE k == Len(evtlist)
             d == IF k >= Len(o_evtlist) THEN 0 ELSE Len(o_evtlist) - k
             n == o_evtlist[1]
  <2>1. /\ evtlist \in Seq(Event) /\ o_evtlist \in Seq(Event) /\ Cur = evtlist
        /\ k \in Nat /\ Len(o_evtlist) \in Nat /\ d \in Nat
    BY <1>1 DEF LogInv, TypeOK, Cur
  <2>2. CASE ~is_oldevtexist
    BY <1>1, <2>1, <2>2, NewestOfTheList DEF Recent
  <2>3. CASE is_oldevtexist /\ d = 0
    <3>1. Recent \in Seq(Event) /\ Len(Recent) = k /\ \A i \in 1 .. k : Recent[0 + i] = evtlist[i]
      BY <1>1, <2>1, <2>3, RecentShape
    <3>2. \A i \in 1 .. k : Recent[i] = evtlist[i]
      BY <2>1, <3>1
    <3>3. Recent = evtlist
      BY <2>1, <3>1, <3>2, SeqEqual
    <3> QED
      BY <1>1, <2>1, <3>3, NewestOfTheList
  <2>4. CASE is_oldevtexist /\ d > 0
    <3>1. /\ Recent \in Seq(Event) /\ Len(Recent) = d + k
          /\ \A i \in 1 .. d : Recent[i] = o_evtlist[k + i]
          /\ \A i \in 1 .. k : Recent[d + i] = evtlist[i]
      BY <1>1, <2>4, RecentShape
    <3>2. pc # "file" /\ o_evtlist # <<>> /\ Len(o_evtlist) = d + k
      BY <1>1, <2>1, <2>4 DEF TurnInv, OldInv
    <3>3. /\ n \in DOMAIN files /\ files[n] = o_evtlist
          /\ \A m \in DOMAIN files : files[m] # <<>> => m <= n
      BY <1>1, <2>4, <3>2 DEF TurnInv, OldInv
    <3>4. ~Clearing
      BY <1>1, <2>4 DEF TurnInv, DiskInv
    <3>5. DOMAIN Recent = 1 .. d + k
      BY <3>1
    <3>6. \A i \in 1 .. d + k : \/ i \in 1 .. d /\ k + i \in 1 .. d + k
                                \/ i - d \in 1 .. k /\ d + (i - d) = i
      BY <2>1
    <3>7. \A i \in 1 .. d + k :
             \/ i \in 1 .. d /\ k + i \in 1 .. d + k /\ Recent[i] = o_evtlist[k + i]
             \/ ~(i \in 1 .. d) /\ i - d \in 1 .. k /\ Recent[i] = evtlist[i - d]
      <4> SUFFICES ASSUME NEW i \in 1 .. d + k
                   PROVE  \/ i \in 1 .. d /\ k + i \in 1 .. d + k /\ Recent[i] = o_evtlist[k + i]
                          \/ ~(i \in 1 .. d) /\ i - d \in 1 .. k /\ Recent[i] = evtlist[i - d]
        OBVIOUS
      <4>1. CASE i \in 1 .. d
        BY <2>1, <3>1, <4>1
      <4>2. CASE ~(i \in 1 .. d)
        <5>1. i - d \in 1 .. k /\ d + (i - d) = i
          BY <2>1, <4>2
        <5> QED
          BY <3>1, <4>2, <5>1
      <4> QED
        BY <4>1, <4>2
    <3>8. /\ \A i, j \in 1 .. d + k : i < j => o_evtlist[i] < o_evtlist[j]
          /\ \A i \in 1 .. d + k : /\ o_evtlist[i] \in Nat
                                   /\ n <= o_evtlist[i]
                                   /\ \A j \in 1 .. k : o_evtlist[i] < evtlist[j]
          /\ \A i, j \in 1 .. k : i < j => evtlist[i] < evtlist[j]
          /\ \A i \in 1 .. k : evtlist[i] \in Nat
      <4>1. /\ \A i, j \in 1 .. d + k : i < j => o_evtlist[i] < o_evtlist[j]
            /\ \A i \in 1 .. d + k : /\ o_evtlist[i] \in Nat
                                     /\ \A j \in 1 .. k : o_evtlist[i] < evtlist[j]
            /\ \A i, j \in 1 .. k : i < j => evtlist[i] < evtlist[j]
            /\ \A i \in 1 .. k : evtlist[i] \in Nat
        BY <1>1, <2>1, <3>2, <3>3 DEF TurnInv, OrderInv, Increasing, ViewOK
      <4>2. 1 \in 1 .. d + k
        BY <2>1, <2>4
      <4>3. \A i \in 1 .. d + k : i = 1 \/ 1 < i
        BY <2>1
      <4> HIDE DEF d, k
      <4>4. \A i \in 1 .. d + k : n <= o_evtlist[i]
        BY <4>1, <4>2, <4>3
      <4> QED
        BY <4>1, <4>4
    <3> HIDE DEF d, k, n
    <3>9. \A i, j \in DOMAIN Recent : i < j => Recent[i] < Recent[j]
      <4> SUFFICES ASSUME NEW i \in 1 .. d + k, NEW j \in 1 .. d + k, i < j
                   PROVE  Recent[i] < Recent[j]
        BY <3>5
      <4>1. CASE j \in 1 .. d
        BY <2>1, <3>7, <3>8, <4>1
      <4>2. CASE ~(j \in 1 .. d) /\ i \in 1 .. d
        BY <2>1, <3>7, <3>8, <4>2
      <4>3. CASE ~(i \in 1 .. d)
        <5>1. ~(j \in 1 .. d) /\ i - d < j - d
          BY <2>1, <4>3
        <5> QED
          BY <2>1, <3>7, <3>8, <4>3, <5>1
      <4> QED
        BY <4>1, <4>2, <4>3
    <3>10. Elements(Recent) \subseteq Known
      <4> SUFFICES ASSUME NEW i \in 1 .. d + k
                   PROVE  Recent[i] \in Known
        BY <3>5 DEF Elements
      <4>1. \/ \E j \in 1 .. d + k : Recent[i] = o_evtlist[j]
            \/ \E j \in 1 .. k : Recent[i] = evtlist[j]
        BY <3>7
      <4>2. Filing(Recent[i]) \/ Listed(Recent[i])
        BY <2>1, <3>2, <3>3, <4>1 DEF Filing, Listed, k
      <4> QED
        BY <1>1, <3>4, <4>2, KnownIsInLog DEF KnownOK, InLog
    <3>11. ASSUME NEW e \in Known \ Elements(Recent), NEW i \in 1 .. d + k
           PROVE  e < Recent[i]
      <4>1. ~Listed(e)
        <5> SUFFICES ASSUME NEW j \in 1 .. k, e = evtlist[j]
                     PROVE  FALSE
          BY <2>1 DEF Listed, k
        <5>1. d + j \in 1 .. d + k
          BY <2>1
        <5> QED
          BY <3>1, <3>5, <3>11, <5>1 DEF Elements
      <4>2. PICK m \in DOMAIN files : \E j \in 1 .. Len(files[m]) : e = files[m][j]
        BY <1>1, <3>11, <4>1, KnownIsInLog DEF KnownOK, InLog, Filing
      <4>3. m <= n
        BY <3>3, <4>2
      <4>4. CASE m < n
        <5>1. e < n /\ e \in Nat /\ n \in Nat
          BY <1>1, <3>3, <4>2, <4>4 DEF TurnInv, OrderInv, ViewOK
        <5>2. ASSUME NEW j \in 1 .. k
              PROVE  e < evtlist[j]
          BY <1>1, <2>1, <4>2 DEF TurnInv, OrderInv, k
        <5> QED
          BY <3>7, <3>8, <5>1, <5>2
      <4>5. CASE m = n
        <5>1. PICK j \in 1 .. d + k : e = o_evtlist[j]
          BY <3>2, <3>3, <4>2, <4>5
        <5>2. j <= k
          <6> SUFFICES ASSUME j > k
                       PROVE  FALSE
            BY <2>1
          <6>1. j - k \in 1 .. d /\ k + (j - k) = j /\ j - k \in 1 .. d + k
            BY <2>1
          <6>2. Recent[j - k] = e
            BY <3>1, <5>1, <6>1
          <6> QED
            BY <3>5, <3>11, <6>1, <6>2 DEF Elements
        <5> QED
          BY <2>1, <3>7, <3>8, <5>1, <5>2
      <4>6. m \in Nat /\ n \in Nat
        BY <1>1, <3>3 DEF ViewOK
      <4> QED
        BY <4>3, <4>4, <4>5, <4>6
    <3>12. \A e \in Known \ Elements(Recent), f \in Elements(Recent) : e < f
      BY <3>5, <3>11 DEF Elements
    <3> QED
      BY <3>9, <3>10, <3>12
  <2> QED
    BY <2>1, <2>2, <2>3, <2>4
<1>2. LogInv /\ ViewOK /\ TurnInv => RecentIsNewest
  BY <1>1
<1>3. Spec => []LogInv
  BY LogInvariant DEF Survives
<1> QED
  BY TurnInvariant, <1>2, <1>3, ViewIsOK, PTL

(***************************************************************************)
(* The log implements EventHistory, step by step.                           *)
(***************************************************************************)

HistoryStep == [History!HistoryNext]_(History!historyVars)

\* The events of list l behind place a, up to place b.
Part(l, a, b) == {l[i] : i \in a + 1 .. b}

(* Part of a list has no more events than places. *)
LEMMA FewEvents ==
  ASSUME NEW l, NEW a \in Nat, NEW b \in Nat, a <= b, NEW S \in SUBSET Part(l, a, b)
  PROVE  Cardinality(S) \in Nat /\ Cardinality(S) <= b - a
<1> DEFINE I == a + 1 .. b
           f == [i \in I |-> l[i]]
           T == {f[i] : i \in I}
<1>1. IsFiniteSet(I) /\ Cardinality(I) = b - a
  <2>1. IsFiniteSet(I) /\ Cardinality(I) = IF a + 1 > b THEN 0 ELSE b - (a + 1) + 1
    BY FS_Interval
  <2> HIDE DEF I
  <2> QED
    BY <2>1
<1>2. S \subseteq T
  BY DEF Part
<1>3. f \in Surjection(I, T)
  BY DEF Surjection
<1> HIDE DEF f, I, T
<1>4. IsFiniteSet(T) /\ Cardinality(T) <= b - a
  BY <1>1, <1>3, FS_Surjection
<1>5. /\ IsFiniteSet(S) /\ Cardinality(S) <= Cardinality(T)
      /\ Cardinality(S) \in Nat /\ Cardinality(T) \in Nat
  BY <1>2, <1>4, FS_Subset, FS_CardinalityType
<1> QED
  BY <1>4, <1>5

(* The five ways in which a step may change what is known. *)
LEMMA HistorySteps ==
  /\ reported' = reported + 1 /\ Known' = Known \cup {reported'} => HistoryStep
  /\ \A gone \in SUBSET Known :
       /\ Cardinality(gone) <= MAXEVENT
       /\ \A e \in gone, f \in Known \ gone : e < f
       /\ Known' = Known \ gone
       /\ reported' = reported
       => HistoryStep
  /\ \A gone \in SUBSET Known :
       /\ Cardinality(gone) <= MAXTMPEVENT
       /\ \A e \in gone, f \in Known \ gone : e > f
       /\ Known' = Known \ gone
       /\ reported' = reported
       => HistoryStep
  /\ Known' = {} /\ reported' = reported => HistoryStep
  /\ Known' = Known /\ reported' = reported => HistoryStep
<1>1. /\ History!HistoryNext => HistoryStep
      /\ Known' = Known /\ reported' = reported => HistoryStep
  BY DEF HistoryStep, History!historyVars
<1>2. /\ History!Record => History!HistoryNext
      /\ History!Expire => History!HistoryNext
      /\ History!Forget => History!HistoryNext
      /\ History!Clear => History!HistoryNext
  BY DEF History!HistoryNext
<1>3. reported' = reported + 1 /\ Known' = Known \cup {reported'} => History!Record
  BY DEF History!Record
<1>4. ASSUME NEW gone \in SUBSET Known, Cardinality(gone) <= MAXEVENT,
             \A e \in gone, f \in Known \ gone : e < f,
             Known' = Known \ gone, reported' = reported
      PROVE  History!Expire
  BY <1>4 DEF History!Expire, History!Cardinality, Cardinality
<1>5. ASSUME NEW gone \in SUBSET Known, Cardinality(gone) <= MAXTMPEVENT,
             \A e \in gone, f \in Known \ gone : e > f,
             Known' = Known \ gone, reported' = reported
      PROVE  History!Forget
  BY <1>5 DEF History!Forget, History!Cardinality, Cardinality
<1>6. Known' = {} /\ reported' = reported => History!Clear
  BY DEF History!Clear
<1> QED
  BY <1>1, <1>2, <1>3, <1>4, <1>5, <1>6

(* A step that leaves the view alone is a stutter of the history. *)
LEMMA QuietForHistory ==
  ASSUME KnownOK, KnownOK', Cur' = Cur, files' = files, reported' = reported,
         Clearing' <=> Clearing
  PROVE  HistoryStep
<1>1. \A x : InLog(x)' <=> InLog(x)
  BY DEF InLog, Filing, Listed
<1>2. Known' = Known
  BY <1>1 DEF KnownOK
<1> QED
  BY <1>2, HistorySteps

(* A step that empties the log clears the history. *)
LEMMA NothingKnown ==
  ASSUME KnownOK', Clearing' \/ (files' = <<>> /\ Cur' = <<>>), reported' = reported
  PROVE  HistoryStep
<1>1. \A x : ~InLog(x)'
  BY DEF InLog, Filing, Listed
<1>2. Known' = {}
  BY <1>1 DEF KnownOK
<1> QED
  BY <1>2, HistorySteps

(* Saves and boots leave the view alone. *)
LEMMA QuietSteps ==
  ASSUME TurnInv, NotSaved \/ OpenTmp \/ SaveTmp \/ SaveSetting \/ SaveSetting5 \/ DelTmp
                    \/ Load \/ LoadLast
  PROVE  /\ Cur' = Cur /\ files' = files /\ reported' = reported
         /\ ~Clearing /\ ~Clearing'
BY DEF NotSaved, OpenTmp, SaveTmp, SaveSetting, SaveSetting5, DelTmp, Load, LoadLast, Goto,
       ramVars, diskVars, Cur, Clearing, TurnInv, DiskInv, Restorable

(* The file that goes is the oldest: a rotation lets the history expire, by    *)
(* MAXEVENT events at most.                                                    *)
LEMMA HistoryRotate ==
  ASSUME Survives, LogInv, ViewOK, TurnInv, KnownOK, KnownOK', Rotate
  PROVE  HistoryStep
<1> DEFINE old == filename[savepos]
           new == evtlist[1]
           Gone(x) == old \in DOMAIN files /\ \E i \in 1 .. Len(files[old]) : x = files[old][i]
           gone == {x \in Known : Gone(x)}
<1>1. /\ pc = "notify" /\ pc' = "file" /\ reported' = reported
      /\ evtlist' = evtlist /\ filename = setting5 /\ savepos = setting
  BY DEF Rotate, Goto, TurnInv, DiskInv
<1>2. /\ Cur = evtlist /\ Cur' = Cur /\ Table = setting5 /\ Pos = setting
      /\ ~Clearing /\ ~Clearing' /\ Seed = tmpevent.list
  BY <1>1 DEF Cur, Table, Pos, Clearing, Seed
<1>3. /\ DOMAIN files' = (DOMAIN files \ {old}) \cup {new}
      /\ \A n \in DOMAIN files' : files'[n] = IF n = new THEN <<>> ELSE files[n]
  BY DEF Rotate, With, Without
<1>4. /\ 1 \in 1 .. Len(evtlist)
      /\ Covered(evtlist, tmpevent.list, MAXEVENT - 1)
  <2>1. Len(evtlist) = MAXEVENT
    BY EventLogAssumption DEF LogInv, TypeOK, Rotate
  <2> QED
    BY <1>1, <2>1, EventLogAssumption DEF LogInv, TmpInv
<1>5. tmpevent.list # <<>> /\ tmpevent.list[1] = new
  BY <1>4, SeedAtTheRotation
<1>6. /\ \A s \in Slot : Table[s] < new
      /\ new \in DOMAIN files => files[new] = <<>>
      /\ old = Table[Pos] /\ Pos \in Slot /\ old \in Nat /\ old # new
  <2>1. /\ \A s \in Slot : Table[s] < new /\ Table[s] \in Nat
        /\ old = Table[Pos] /\ Pos \in Slot
    BY <1>1, <1>2, <1>4 DEF TurnInv, NameInv, ViewOK
  <2> QED
    BY <1>2, <2>1 DEF TurnInv, NameInv
<1>7. ASSUME NEW n \in DOMAIN files, n # old, old \in DOMAIN files, files[n] # <<>>
      PROVE  old < n
  <2>1. PICK s \in Slot : Table[s] = n
    BY <1>2, <1>7 DEF TurnInv, NameInv
  <2>2. Before(Pos, Pos, s)
    BY <1>6, <1>7, <2>1 DEF Before, Slot
  <2>3. old # Empty
    BY <1>7 DEF ViewOK, Empty
  <2> QED
    BY <1>6, <2>1, <2>2, <2>3 DEF TurnInv, RingInv
<1> HIDE DEF old, new
<1>8. ASSUME NEW e, Gone(e), NEW f, Listed(f) \/ (Filing(f) /\ ~Gone(f))
      PROVE  e < f
  <2>1. PICK i \in 1 .. Len(files[old]) : e = files[old][i] /\ old \in DOMAIN files
    BY <1>8
  <2>2. CASE Listed(f)
    BY <2>1, <2>2 DEF Listed, TurnInv, OrderInv
  <2>3. CASE Filing(f) /\ ~Gone(f)
    <3>1. PICK n \in DOMAIN files : \E j \in 1 .. Len(files[n]) : f = files[n][j]
      BY <2>3 DEF Filing
    <3>2. PICK j \in 1 .. Len(files[n]) : f = files[n][j]
      BY <3>1
    <3>3. n # old /\ files[n] # <<>>
      BY <2>1, <2>3, <3>2
    <3>4. e < n
      BY <1>7, <2>1, <3>3 DEF TurnInv, OrderInv
    <3>5. n <= f /\ e \in Nat /\ n \in Nat /\ f \in Nat
      <4>1. /\ Increasing(files[n]) /\ files[n][1] = n /\ Len(files[n]) \in Nat
            /\ \A i1 \in 1 .. Len(files[n]) : files[n][i1] \in Nat
        BY <3>3 DEF TurnInv, OrderInv, ViewOK
      <4>2. j = 1 \/ (1 < j /\ 1 \in 1 .. Len(files[n]))
        BY <4>1
      <4> QED
        BY <2>1, <3>2, <4>1, <4>2 DEF Increasing, ViewOK
    <3> QED
      BY <3>4, <3>5
  <2> QED
    BY <1>8, <2>2, <2>3
<1>9. \A e \in gone, f \in Known \ gone : e < f
  BY <1>8 DEF KnownOK, InLog
<1>10. ASSUME NEW x
       PROVE  InLog(x)' <=> InLog(x) /\ ~Gone(x)
  <2>1. Listed(x)' <=> Listed(x)
    BY <1>2 DEF Listed
  <2>2. Listed(x) => ~Gone(x)
    <3> SUFFICES ASSUME Listed(x), Gone(x)
                 PROVE  FALSE
      OBVIOUS
    <3>1. x < x /\ x \in Nat
      BY <1>8 DEF Listed, ViewOK
    <3> QED
      BY <3>1
  <2>3. Filing(x)' => Filing(x) /\ ~Gone(x)
    <3> SUFFICES ASSUME Filing(x)'
                 PROVE  Filing(x) /\ ~Gone(x)
      OBVIOUS
    <3>1. PICK n \in DOMAIN files' : \E i \in 1 .. Len(files'[n]) : x = files'[n][i]
      BY DEF Filing
    <3>2. n \in DOMAIN files /\ n # old /\ files'[n] = files[n]
      BY <1>3, <3>1
    <3>3. PICK i \in 1 .. Len(files[n]) : x = files[n][i]
      BY <3>1, <3>2
    <3>4. ~Gone(x)
      <4> SUFFICES ASSUME Gone(x)
                   PROVE  FALSE
        OBVIOUS
      <4>1. PICK j \in 1 .. Len(files[old]) : x = files[old][j] /\ old \in DOMAIN files
        OBVIOUS
      <4>2. files[n] # <<>>
        BY <3>3
      <4>3. old < n
        BY <1>7, <3>2, <4>1, <4>2
      <4>4. x < n
        BY <4>1, <4>3, <3>2 DEF TurnInv, OrderInv
      <4>5. /\ Increasing(files[n]) /\ files[n][1] = n /\ Len(files[n]) \in Nat
            /\ \A i1 \in 1 .. Len(files[n]) : files[n][i1] \in Nat
        BY <3>2, <4>2 DEF TurnInv, OrderInv, ViewOK
      <4>6. i = 1 \/ (1 < i /\ 1 \in 1 .. Len(files[n]))
        BY <4>5
      <4>7. n <= x /\ n \in Nat
        BY <3>2, <3>3, <4>5, <4>6 DEF Increasing, ViewOK
      <4>8. x \in Nat
        BY <3>3, <4>5
      <4> QED
        BY <4>4, <4>7, <4>8
    <3> QED
      BY <3>2, <3>3, <3>4 DEF Filing
  <2>4. Filing(x) /\ ~Gone(x) => Filing(x)'
    <3> SUFFICES ASSUME Filing(x), ~Gone(x)
                 PROVE  Filing(x)'
      OBVIOUS
    <3>1. PICK n \in DOMAIN files : \E i \in 1 .. Len(files[n]) : x = files[n][i]
      BY DEF Filing
    <3>2. n # old /\ n # new
      BY <1>6, <3>1
    <3>3. n \in DOMAIN files' /\ files'[n] = files[n]
      BY <1>3, <3>2
    <3> QED
      BY <3>1, <3>3 DEF Filing
  <2> QED
    BY <1>2, <2>1, <2>2, <2>3, <2>4 DEF InLog
<1>11. Known' = Known \ gone
  BY <1>10 DEF KnownOK
<1>12. Cardinality(gone) <= MAXEVENT
  <2>1. CASE old \in DOMAIN files
    <3>1. Len(files[old]) \in Nat /\ Len(files[old]) <= MAXEVENT
      BY <2>1 DEF LogInv, TypeOK, ViewOK
    <3>2. gone \in SUBSET Part(files[old], 0, Len(files[old]))
      BY DEF Part
    <3> HIDE DEF gone, Gone
    <3>3. Cardinality(gone) \in Nat /\ Cardinality(gone) <= Len(files[old]) - 0
      <4> DEFINE l == files[old]
                 n == Len(files[old])
      <4>1. n \in Nat /\ 0 \in Nat /\ 0 <= n /\ gone \in SUBSET Part(l, 0, n)
        BY <3>1, <3>2
      <4> HIDE DEF l, n
      <4>2. Cardinality(gone) \in Nat /\ Cardinality(gone) <= n - 0
        BY <4>1, FewEvents
      <4> QED
        BY <4>2 DEF n
    <3> QED
      BY <3>1, <3>3, EventLogAssumption
  <2>2. CASE old \notin DOMAIN files
    <3>1. gone = {}
      BY <2>2
    <3> QED
      BY <3>1, FS_EmptySet, EventLogAssumption
  <2> QED
    BY <2>1, <2>2
<1>13. gone \in SUBSET Known
  OBVIOUS
<1> HIDE DEF gone
<1> QED
  BY <1>1, <1>9, <1>11, <1>12, <1>13, HistorySteps

(* A report is recorded. *)
LEMMA HistoryNewEvent ==
  ASSUME LogInv, ViewOK, TurnInv, KnownOK, KnownOK', NewEvent
  PROVE  HistoryStep
<1>1. /\ pc = "idle" /\ pc' = "notify" /\ reported' = reported + 1 /\ files' = files
      /\ evtlist' = Append(evtlist, reported') /\ evtlist \in Seq(Event) /\ Len(evtlist) \in Nat
  BY DEF NewEvent, Goto, diskVars, LogInv, TypeOK
<1>2. Cur = evtlist /\ Cur' = evtlist' /\ ~Clearing /\ ~Clearing'
  BY <1>1 DEF Cur, Clearing
<1>3. /\ Len(Cur') = Len(Cur) + 1
      /\ \A i \in 1 .. Len(Cur) : Cur'[i] = Cur[i]
      /\ Cur'[Len(Cur) + 1] = reported'
      /\ Len(Cur) \in Nat
  BY <1>1, <1>2
<1>4. \A x : Listed(x)' <=> Listed(x) \/ x = reported'
  <2>1. \A i \in 1 .. Len(Cur') : i \in 1 .. Len(Cur) \/ i = Len(Cur) + 1
    BY <1>3
  <2>2. 1 .. Len(Cur) \subseteq 1 .. Len(Cur') /\ Len(Cur) + 1 \in 1 .. Len(Cur')
    BY <1>3
  <2> QED
    BY <1>3, <2>1, <2>2 DEF Listed
<1>5. \A x : Filing(x)' <=> Filing(x)
  BY <1>1 DEF Filing
<1>6. Known' = Known \cup {reported'}
  BY <1>2, <1>4, <1>5 DEF KnownOK, InLog
<1> QED
  BY <1>1, <1>6, HistorySteps

(* The events move from the list to the file. *)
LEMMA HistoryWriteFile ==
  ASSUME LogInv, ViewOK, TurnInv, KnownOK, KnownOK', WriteFile
  PROVE  HistoryStep
<1> DEFINE new == evtlist[1]
<1>1. /\ pc = "file" /\ pc' = "setting" /\ evtlist' = <<>> /\ reported' = reported
      /\ new \in DOMAIN files /\ files[new] = <<>>
  BY DEF WriteFile, Goto, TurnInv, DiskInv
<1>2. /\ Cur = evtlist /\ Cur' = <<>> /\ ~Clearing /\ ~Clearing'
  BY <1>1 DEF Cur, Clearing
<1>3. /\ DOMAIN files' = DOMAIN files
      /\ \A n \in DOMAIN files : files'[n] = IF n = new THEN evtlist ELSE files[n]
  BY <1>1 DEF WriteFile, With
<1> HIDE DEF new
<1>4. \A x : ~Listed(x)'
  BY <1>2 DEF Listed
<1>5. \A x : Filing(x)' <=> Filing(x) \/ Listed(x)
  BY <1>1, <1>2, <1>3 DEF Filing, Listed
<1>6. Known' = Known
  BY <1>2, <1>4, <1>5 DEF KnownOK, InLog
<1> QED
  BY <1>1, <1>6, HistorySteps

(* A death forgets the newest events, MAXTMPEVENT at most. *)
LEMMA HistoryDown ==
  ASSUME Survives, LogInv, ViewOK, TurnInv, KnownOK, KnownOK', Kill \/ Reboot \/ FwUpdate
  PROVE  HistoryStep
<1> DEFINE a == Len(Restorable')
           b == Len(Cur)
           gone == {x \in Known : ~ \E i \in 1 .. a : x = Cur[i]} \cap Part(Cur, a, b)
<1>1. /\ pc' = "down" /\ ~Clearing /\ ~Clearing' /\ reported' = reported /\ files' = files
  BY DEF Kill, Reboot, FwUpdate, LoseRam, Goto, Survives, diskVars, Clearing
<1>2. Cur' = Restorable'
  BY <1>1 DEF Cur
<1>3. /\ a \in Nat /\ b \in Nat /\ a <= b /\ \A i \in 1 .. a : Restorable'[i] = Cur[i]
      /\ b - a <= MAXTMPEVENT
  BY WhatADeathLeaves DEF ViewOK
<1> HIDE DEF a
<1>4. \A x : Listed(x)' <=> \E i \in 1 .. a : x = Cur[i]
  BY <1>2, <1>3 DEF Listed, a
<1>5. \A x : Filing(x)' <=> Filing(x)
  BY <1>1 DEF Filing
<1>6. \A x : Listed(x) <=> (\E i \in 1 .. a : x = Cur[i]) \/ x \in Part(Cur, a, b)
  <2>1. \A i \in 1 .. b : i \in 1 .. a \/ i \in a + 1 .. b
    BY <1>3
  <2>2. 1 .. a \subseteq 1 .. b /\ a + 1 .. b \subseteq 1 .. b
    BY <1>3
  <2> QED
    BY <2>1, <2>2 DEF Listed, Part
<1>7. ASSUME NEW e \in Part(Cur, a, b)
      PROVE  /\ ~ \E i \in 1 .. a : e = Cur[i]
             /\ ~Filing(e)
             /\ \A f : Filing(f) \/ (\E i \in 1 .. a : f = Cur[i]) => e > f
             /\ Listed(e)
  <2>1. PICK j \in a + 1 .. b : e = Cur[j]
    BY DEF Part
  <2>2. j \in 1 .. b /\ \A i \in 1 .. a : i < j /\ i \in 1 .. b
    BY <1>3
  <2>3. e \in Nat
    BY <2>1, <2>2 DEF ViewOK
  <2>4. ASSUME NEW f, Filing(f)
        PROVE  e > f
    BY <2>1, <2>2, <2>4 DEF Filing, TurnInv, OrderInv, ViewOK
  <2>5. ASSUME NEW i \in 1 .. a
        PROVE  e > Cur[i]
    BY <2>1, <2>2 DEF TurnInv, OrderInv, Increasing, ViewOK
  <2>6. e # e + 1 /\ ~(e > e)
    BY <2>3
  <2> QED
    BY <1>6, <2>4, <2>5, <2>6
<1>8. Known' = Known \ gone
  <2>1. \A x : InLog(x)' <=> InLog(x) /\ x \notin Part(Cur, a, b)
    BY <1>1, <1>4, <1>5, <1>6, <1>7 DEF InLog
  <2>2. \A x : x \in gone <=> x \in Known /\ x \in Part(Cur, a, b)
    BY <1>7
  <2> QED
    BY <2>1, <2>2 DEF KnownOK
<1>9. \A e \in gone, f \in Known \ gone : e > f
  <2> SUFFICES ASSUME NEW e \in gone, NEW f \in Known \ gone
               PROVE  e > f
    OBVIOUS
  <2>1. e \in Part(Cur, a, b)
    OBVIOUS
  <2>2. Filing(f) \/ \E i \in 1 .. a : f = Cur[i]
    BY <1>6, <1>7 DEF KnownOK, InLog
  <2> QED
    BY <1>7, <2>1, <2>2
<1>10. Cardinality(gone) <= MAXTMPEVENT
  <2>1. gone \in SUBSET Part(Cur, a, b)
    OBVIOUS
  <2> HIDE DEF gone, b
  <2>2. Cardinality(gone) \in Nat /\ Cardinality(gone) <= b - a
    BY <1>3, <2>1, FewEvents
  <2> QED
    BY <1>3, <2>2, EventLogAssumption
<1>11. gone \in SUBSET Known
  OBVIOUS
<1> HIDE DEF gone
<1> QED
  BY <1>1, <1>8, <1>9, <1>10, <1>11, HistorySteps

\* Whatever is rotated, cleared, saved or lost, the log is a history: it loses its
\* oldest events to make room and its newest few to a death, nothing disappears
\* from the middle and nothing comes back (newEvent, clearevent, boot).
THEOREM LogImplementsHistory ==
  ASSUME Survives
  PROVE  Spec => ImplementsHistory
<1>1. Init => History!HistoryInit
  <2> SUFFICES ASSUME Init
               PROVE  Known = {} /\ reported = 0
    BY DEF History!HistoryInit
  <2>1. LogInv /\ ViewOK /\ TurnInv
    BY InitLogInv, ViewIsOK, InitTurnInv
  <2>2. /\ Cur = <<>> /\ files = <<>> /\ reported = 0
    BY DEF Init, Cur
  <2>3. \A x : ~InLog(x)
    BY <2>2 DEF InLog, Filing, Listed
  <2> QED
    BY <2>1, <2>2, <2>3, KnownIsInLog DEF KnownOK
<1>2. ASSUME LogInv, LogInv', ViewOK, ViewOK', TurnInv, TurnInv', KnownOK, KnownOK', [Next]_vars
      PROVE  HistoryStep
  <2>1. CASE NotSaved \/ OpenTmp \/ SaveTmp \/ SaveSetting \/ SaveSetting5 \/ DelTmp
               \/ Load \/ LoadLast
    <3>1. /\ Cur' = Cur /\ files' = files /\ reported' = reported
          /\ ~Clearing /\ ~Clearing'
      BY <1>2, <2>1, QuietSteps
    <3> QED
      BY <1>2, <3>1, QuietForHistory
  <2>2. CASE ClearLists \/ ClearSettings \/ ClearTmp
    <3>1. Clearing' /\ reported' = reported
      BY <2>2 DEF ClearLists, ClearSettings, ClearTmp, Goto, Clearing
    <3> QED
      BY <1>2, <3>1, NothingKnown
  <2>3. CASE ClearFiles
    <3>1. files' = <<>> /\ Cur' = <<>> /\ reported' = reported
      BY <1>2, <2>3 DEF ClearFiles, Goto, ramVars, Cur, LogInv, ListInv
    <3> QED
      BY <1>2, <3>1, NothingKnown
  <2>4. CASE FactoryReset
    <3>1. files' = <<>> /\ Cur' = <<>> /\ reported' = reported
      BY <2>4 DEF FactoryReset, Goto, Cur, Restorable, Missing
    <3> QED
      BY <1>2, <3>1, NothingKnown
  <2>5. CASE UNCHANGED vars
    <3>1. Known' = Known /\ reported' = reported
      BY <2>5 DEF vars, ramVars, diskVars, Known, Filed, Elements, Restorable
    <3> QED
      BY <3>1, HistorySteps
  <2> QED
    BY <1>2, <2>1, <2>2, <2>3, <2>4, <2>5, HistoryNewEvent, HistoryRotate, HistoryWriteFile,
       HistoryDown DEF Next
<1>3. LogInv /\ LogInv' /\ ViewOK /\ ViewOK' /\ TurnInv /\ TurnInv' /\ KnownOK /\ KnownOK'
      /\ [Next]_vars => [History!HistoryNext]_(History!historyVars)
  BY <1>2 DEF HistoryStep
<1>4. Spec => []LogInv
  BY LogInvariant DEF Survives
<1> QED
  BY TurnInvariant, <1>1, <1>3, <1>4, ViewIsOK, KnownIsInLog, PTL
     DEF Spec, ImplementsHistory, History!HistorySpec
=============================================================================
