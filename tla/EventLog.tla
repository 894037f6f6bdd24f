------------------------------- MODULE EventLog -------------------------------
(***************************************************************************)
(* The event log of the gateway daemon (newEvent and the functions that    *)
(* save, rotate, load and clear events, jsw_protocol.c).                   *)
(*                                                                         *)
(* Events collect in evtlist.  Every MAXTMPEVENT events the whole list is  *)
(* written to the file tmpevent; when it is full it becomes a file of its  *)
(* own, named after its first event, in a table of MAXEVENTFILES names     *)
(* used in turn, and the phones' "recent events" move to o_evtlist.  A     *)
(* daemon that reboots the board itself saves the list to tmpevent2 first; *)
(* one that is killed by the watchdog, or loses power, saves nothing.      *)
(*                                                                         *)
(* A call is cut where the daemon can die between two steps that belong    *)
(* together: newEvent sleeps while it notifies the phones, and each file   *)
(* is written on its own.  A file of events is 1.6 kB and reaches the disk *)
(* in one write, but fopen("wb") empties it first: a file is complete or   *)
(* as good as empty.                                                       *)
(*                                                                         *)
(* Abstracted: an event is its number, in the order of the reports, which  *)
(* is also its time (the clock is right and does not go back); repeated    *)
(* and filtered reports, and those of the test mode, leave the list as it  *)
(* was and do not occur.  The card takes every write.  Reports come from   *)
(* several threads without a lock: here a call begins when the one before  *)
(* has returned.                                                           *)
(***************************************************************************)
EXTENDS Integers, Sequences, FiniteSets

CONSTANTS
  MAXEVENT,        \* events in evtlist, and in a file
  MAXTMPEVENT,     \* events between two saves of tmpevent
  MAXEVENTFILES,   \* names in the table of files
  KillAt,          \* where the daemon may be killed, or lose power
  RebootAt,        \* where the daemon may decide to reboot the board
  MaxEvent         \* bound: reports in a run

\* Where the daemon is: no call under way; in newEvent before the phones were
\* told, the list is saved, the list is filed, the two setting files and
\* tmpevent follow; in clearevent before the settings, tmpevent and the files
\* follow; not running; and booted as far as the lists.
Place == {"idle", "notify", "savetmp", "file", "setting", "setting5", "deltmp",
          "clear", "cleartmp", "clearfiles", "down", "boot"}

ASSUME EventLogAssumption ==
  /\ MAXEVENT \in Nat \ {0}
  /\ MAXTMPEVENT \in 1 .. MAXEVENT
  /\ MAXEVENTFILES \in Nat \ {0}
  /\ KillAt \subseteq Place
  /\ RebootAt \subseteq {"idle", "notify"}
  /\ MaxEvent \in Nat

Event == Nat \ {0}
Slot  == 0 .. MAXEVENTFILES - 1
Empty == 0                            \* a cell of the table without a name

\* tmpevent and tmpevent2: missing or cut short, or complete.
Missing == [ok |-> FALSE, list |-> <<>>]
Saved(l) == [ok |-> TRUE, list |-> l]

VARIABLES
  reported,        \* the event reported last (history)
  evtlist,         \* evtlist[0 .. evtcount - 1]
  o_evtlist,       \* the list before, for the phones
  is_oldevtexist,
  filename,        \* g_setting5.filename
  savepos,         \* g_setting.ev.savepos
  setting,         \* savepos in the setting file
  setting5,        \* filename in the setting5 file
  tmpevent, tmpevent2,
  files,           \* the event files in the directory, by name
  pc

ramVars  == <<evtlist, o_evtlist, is_oldevtexist, filename, savepos>>
diskVars == <<setting, setting5, tmpevent, tmpevent2, files>>
vars == <<reported, ramVars, diskVars, pc>>

TypeOK ==
  /\ reported \in Nat
  /\ evtlist \in Seq(Event) /\ Len(evtlist) <= MAXEVENT
  /\ o_evtlist \in Seq(Event) /\ Len(o_evtlist) <= MAXEVENT
  /\ is_oldevtexist \in BOOLEAN
  /\ filename \in [Slot -> Event \cup {Empty}]
  /\ savepos \in Slot
  /\ setting \in Slot
  /\ setting5 \in [Slot -> Event \cup {Empty}]
  /\ \A f \in {tmpevent, tmpevent2} :
       /\ f \in [ok : BOOLEAN, list : Seq(Event)]
       /\ Len(f.list) < MAXEVENT
  /\ DOMAIN files \subseteq Event
  /\ \A n \in DOMAIN files : files[n] \in Seq(Event) /\ Len(files[n]) <= MAXEVENT
  /\ pc \in Place

Init ==
  /\ reported = 0
  /\ evtlist = <<>> /\ o_evtlist = <<>> /\ is_oldevtexist = FALSE
  /\ filename = [s \in Slot |-> Empty] /\ savepos = 0
  /\ setting = 0 /\ setting5 = [s \in Slot |-> Empty]
  /\ tmpevent = Missing /\ tmpevent2 = Missing
  /\ files = <<>>
  /\ pc = "idle"

Goto(l) == pc' = l

Without(fs, names) == [n \in DOMAIN fs \ names |-> fs[n]]
With(fs, n, l) == [m \in DOMAIN fs \cup {n} |-> IF m = n THEN l ELSE fs[m]]

-----------------------------------------------------------------------------
(* newEvent *)

NewEvent ==
  /\ pc = "idle" /\ reported < MaxEvent
  /\ reported' = reported + 1
  /\ evtlist' = Append(evtlist, reported')
  /\ Goto("notify")
  /\ UNCHANGED <<o_evtlist, is_oldevtexist, filename, savepos, diskVars>>

\* The phones were told.  Mutant of Due: the first save is left out.
DueLate(n) == n % MAXTMPEVENT = 0 /\ n > MAXTMPEVENT

Due(n) == n % MAXTMPEVENT = 0 /\ n > 0

NotSaved ==
  /\ pc = "notify" /\ Len(evtlist) < MAXEVENT /\ ~Due(Len(evtlist))
  /\ Goto("idle")
  /\ UNCHANGED <<reported, ramVars, diskVars>>

\* saveTmpEvdata(1): fopen empties the file, then the list is written.
OpenTmp ==
  /\ pc = "notify" /\ Len(evtlist) < MAXEVENT /\ Due(Len(evtlist))
  /\ tmpevent' = Missing
  /\ Goto("savetmp")
  /\ UNCHANGED <<reported, ramVars, setting, setting5, tmpevent2, files>>

SaveTmp ==
  /\ pc = "savetmp"
  /\ tmpevent' = Saved(evtlist)
  /\ Goto("idle")
  /\ UNCHANGED <<reported, ramVars, setting, setting5, tmpevent2, files>>

\* saveEvdata as far as fopen: the file whose turn it is goes, the new one
\* takes its place in the table and in the directory.
\* Mutant of Rotate: the file whose turn it is stays in the directory.
RotateKeeping ==
  /\ pc = "notify" /\ Len(evtlist) >= MAXEVENT
  /\ o_evtlist' = evtlist /\ is_oldevtexist' = TRUE
  /\ filename' = [filename EXCEPT ![savepos] = evtlist[1]]
  /\ savepos' = (savepos + 1) % MAXEVENTFILES
  /\ files' = With(files, evtlist[1], <<>>)
  /\ Goto("file")
  /\ UNCHANGED <<reported, evtlist, setting, setting5, tmpevent, tmpevent2>>

Rotate ==
  /\ pc = "notify" /\ Len(evtlist) >= MAXEVENT
  /\ o_evtlist' = evtlist /\ is_oldevtexist' = TRUE
  /\ filename' = [filename EXCEPT ![savepos] = evtlist[1]]
  /\ savepos' = (savepos + 1) % MAXEVENTFILES
  /\ files' = With(Without(files, {filename[savepos]}), evtlist[1], <<>>)
  /\ Goto("file")
  /\ UNCHANGED <<reported, evtlist, setting, setting5, tmpevent, tmpevent2>>

\* The rest of saveEvdata: the file is written and the list is empty; then
\* both setting files are written.
\* Mutant of WriteFile: the counter is not reset.
WriteFileFull ==
  /\ pc = "file"
  /\ files' = With(files, evtlist[1], evtlist)
  /\ Goto("setting")
  /\ UNCHANGED <<reported, ramVars, setting, setting5, tmpevent, tmpevent2>>

WriteFile ==
  /\ pc = "file"
  /\ files' = With(files, evtlist[1], evtlist)
  /\ evtlist' = <<>>
  /\ Goto("setting")
  /\ UNCHANGED <<reported, o_evtlist, is_oldevtexist, filename, savepos,
                 setting, setting5, tmpevent, tmpevent2>>

SaveSetting ==
  /\ pc = "setting"
  /\ setting' = savepos
  /\ Goto("setting5")
  /\ UNCHANGED <<reported, ramVars, setting5, tmpevent, tmpevent2, files>>

SaveSetting5 ==
  /\ pc = "setting5"
  /\ setting5' = filename
  /\ Goto("deltmp")
  /\ UNCHANGED <<reported, ramVars, setting, tmpevent, tmpevent2, files>>

\* delTmpEvdata(1), and newEvent returns.
\* Mutant of DelTmp: the file of the unfinished list is left behind.
DelTmpNot ==
  /\ pc = "deltmp"
  /\ Goto("idle")
  /\ UNCHANGED <<reported, ramVars, diskVars>>

DelTmp ==
  /\ pc = "deltmp"
  /\ tmpevent' = Missing
  /\ Goto("idle")
  /\ UNCHANGED <<reported, ramVars, setting, setting5, tmpevent2, files>>

-----------------------------------------------------------------------------
(* clearevent *)

ClearLists ==
  /\ pc = "idle"
  /\ savepos' = 0 /\ filename' = [s \in Slot |-> Empty]
  /\ evtlist' = <<>> /\ o_evtlist' = <<>> /\ is_oldevtexist' = FALSE
  /\ Goto("clear")
  /\ UNCHANGED <<reported, diskVars>>

ClearSettings ==
  /\ pc = "clear"
  /\ setting' = savepos /\ setting5' = filename
  /\ Goto("cleartmp")
  /\ UNCHANGED <<reported, ramVars, tmpevent, tmpevent2, files>>

ClearTmp ==
  /\ pc = "cleartmp"
  /\ tmpevent' = Missing /\ tmpevent2' = Missing
  /\ Goto("clearfiles")
  /\ UNCHANGED <<reported, ramVars, setting, setting5, files>>

\* delAllEvdata
ClearFiles ==
  /\ pc = "clearfiles"
  /\ files' = <<>>
  /\ Goto("idle")
  /\ UNCHANGED <<reported, ramVars, setting, setting5, tmpevent, tmpevent2>>

\* factoryReset removes everything, and leaves o_evtlist as it is.  A phone's
\* CM_RESETDEFAULT goes on with that; CM_FACTORYRESET and the button reboot.
FactoryReset ==
  /\ pc = "idle"
  /\ evtlist' = <<>> /\ is_oldevtexist' = FALSE
  /\ savepos' = 0 /\ filename' = [s \in Slot |-> Empty]
  /\ setting' = savepos' /\ setting5' = filename'
  /\ tmpevent' = Missing /\ tmpevent2' = Missing
  /\ files' = <<>>
  /\ \/ Goto("idle") /\ UNCHANGED o_evtlist
     \/ Goto("down") /\ o_evtlist' = <<>>
  /\ UNCHANGED reported

-----------------------------------------------------------------------------
(* Death and boot *)

LoseRam ==
  /\ evtlist' = <<>> /\ o_evtlist' = <<>> /\ is_oldevtexist' = FALSE
  /\ filename' = [s \in Slot |-> Empty] /\ savepos' = 0
  /\ Goto("down")

\* The watchdog's kill -9, a crash, a power failure.
Kill ==
  /\ pc \in KillAt
  /\ LoseRam
  /\ UNCHANGED <<reported, diskVars>>

\* log_and_reboot_no_beep saves the list to tmpevent2 first.
Reboot ==
  /\ pc \in RebootAt
  /\ tmpevent2' = Saved(evtlist)
  /\ LoseRam
  /\ UNCHANGED <<reported, setting, setting5, tmpevent, files>>

\* stopfwupdate saves it to tmpevent before the updater takes over.
FwUpdate ==
  /\ pc = "idle"
  /\ tmpevent' = Saved(evtlist)
  /\ LoseRam
  /\ UNCHANGED <<reported, setting, setting5, tmpevent2, files>>

\* loadTmpEvdata(2), or else loadTmpEvdata(1); the settings.
Restorable == IF tmpevent2.ok THEN tmpevent2.list ELSE tmpevent.list

Load ==
  /\ pc = "down"
  /\ evtlist' = Restorable
  /\ filename' = setting5 /\ savepos' = setting
  /\ Goto("boot")
  /\ UNCHANGED <<reported, o_evtlist, is_oldevtexist, diskVars>>

\* loadLastEvdata: the file with the largest name becomes the old list.
LoadNewest ==
  \/ /\ DOMAIN files = {}
     /\ UNCHANGED <<o_evtlist, is_oldevtexist>>
  \/ \E n \in DOMAIN files :
       /\ \A m \in DOMAIN files : m <= n
       /\ o_evtlist' = files[n] /\ is_oldevtexist' = TRUE

\* delTmpEvdata(2), loadLastEvdata.
\* Mutant of LoadLast: tmpevent2 is left behind.
LoadLastKeeping ==
  /\ pc = "boot"
  /\ LoadNewest
  /\ Goto("idle")
  /\ UNCHANGED <<reported, evtlist, filename, savepos, diskVars>>

LoadLast ==
  /\ pc = "boot"
  /\ tmpevent2' = Missing
  /\ LoadNewest
  /\ Goto("idle")
  /\ UNCHANGED <<reported, evtlist, filename, savepos,
                 setting, setting5, tmpevent, files>>

Next ==
  \/ NewEvent \/ NotSaved \/ OpenTmp \/ SaveTmp
  \/ Rotate \/ WriteFile \/ SaveSetting \/ SaveSetting5 \/ DelTmp
  \/ ClearLists \/ ClearSettings \/ ClearTmp \/ ClearFiles \/ FactoryReset
  \/ Kill \/ Reboot \/ FwUpdate \/ Load \/ LoadLast

Spec == Init /\ [][Next]_vars

-----------------------------------------------------------------------------
(* Properties *)

\* A death costs fewer than MAXTMPEVENT events: whenever no call is under way,
\* what a boot would restore is the list without its last few events (the
\* comment at jsw_protocol.c:2975 says the list is saved "every MAXTMPEVENT
\* events").  While the phones are told about an event it may be one more.
\* It takes the save of every tenth event, the deletion at the rotation, the
\* three ways to go down and the choice between the two files at boot.
Kept(n) ==
  /\ Len(Restorable) <= Len(evtlist)
  /\ \A i \in 1 .. Len(Restorable) : evtlist[i] = Restorable[i]
  /\ Len(evtlist) - Len(Restorable) <= n

KeptOnDisk ==
  /\ pc = "idle" => Kept(MAXTMPEVENT - 1)
  /\ pc = "notify" => Kept(MAXTMPEVENT)

\* What getevent sends a phone that asks for the recent events: the last of
\* o_evtlist that evtlist has not yet replaced, then evtlist.
Recent ==
  IF is_oldevtexist
  THEN SubSeq(o_evtlist, Len(evtlist) + 1, Len(o_evtlist)) \o evtlist
  ELSE evtlist

\* The events in the files of table t, in the directory.
Filed(t) ==
  UNION { {files[n][i] : i \in DOMAIN files[n]} :
          n \in {t[s] : s \in Slot} \cap DOMAIN files }

Elements(l) == {l[i] : i \in DOMAIN l}

\* What a phone that asks for a range of times can be shown; while the daemon
\* is down, what it will be shown.
Known ==
  IF pc = "down" THEN Filed(setting5) \cup Elements(Restorable)
  ELSE Filed(filename) \cup Elements(evtlist)

\* The phones' recent events are the newest ones of the log, in order, none
\* twice and none left out, at every step of a rotation (jsw_protocol.c:2964)
\* and after every boot, which puts them together from two files.
RecentIsNewest ==
  pc \notin {"down", "boot"} =>
    /\ \A i, j \in DOMAIN Recent : i < j => Recent[i] < Recent[j]
    /\ Elements(Recent) \subseteq Known
    /\ \A e \in Known \ Elements(Recent), f \in Elements(Recent) : e < f

\* Every event file can be shown and will be deleted when its turn comes: when
\* no call is under way each file in the directory has exactly one place in
\* the table that a restart would load, or is the empty one that a death in a
\* rotation left and the next rotation will fill.
FilesHaveTheirTurn ==
  pc = "idle" =>
    /\ filename = setting5 /\ savepos = setting
    /\ \A n \in DOMAIN files :
         \/ Cardinality({s \in Slot : setting5[s] = n}) = 1
         \/ files[n] = <<>> /\ evtlist # <<>> /\ n = evtlist[1]

\* The log as its readers may rely on it (EventHistory): rotation shows the
\* same events before and after, a death loses only the newest few, and what
\* was cleared, expired or lost stays away.
History == INSTANCE EventHistory WITH
  Expiring <- MAXEVENT, Forgetting <- MAXTMPEVENT,
  known <- Known, last <- reported

ImplementsHistory == History!HistorySpec
=============================================================================
