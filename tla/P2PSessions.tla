------------------------------ MODULE P2PSessions ------------------------------
(***************************************************************************)
(* Phone sessions of the gateway daemon, and the firmware update that       *)
(* takes the gateway over (ceres.c): a listener thread accepts connections  *)
(* of the PPPP library, records each in a table of P2P_SESSION_MAX entries, *)
(* and creates a thread that authenticates and serves the phone.  The phone *)
(* that starts an update has all others thrown out, and the listener lets   *)
(* nobody in; the heartbeat of the listener is what ends an update that     *)
(* nobody finishes.                                                         *)
(*                                                                          *)
(* The table is guarded by p2psession_mutex in the listener and at the end  *)
(* of a session, but not in freeOtherP2PSession, whose steps therefore      *)
(* interleave with theirs; the library closes a connection before the       *)
(* entry is cleared.  The listener finds its entry and fills it in two      *)
(* critical sections.                                                       *)
(*                                                                          *)
(* The library is external: it hands out handles that are not in use, and   *)
(* a handle is in use until PPPP_Close, whoever calls it.  The phone may    *)
(* hang up at any moment.                                                   *)
(*                                                                          *)
(* Abstracted: keys and passwords (authentication succeeds or fails; an     *)
(* encrypted command needs an entry to take the key from), messages that    *)
(* change nothing here, the content of the update file, network detection.  *)
(* CM_FW is refused unless the house is disarmed; phones can disarm it      *)
(* whenever they like (module ArmAlarm), so it may be accepted whenever.    *)
(***************************************************************************)
EXTENDS Integers, FiniteSets

CONSTANTS
  Handle,            \* connection handles of the library, 0 and up
  Thread,            \* bound: the threads that may serve at the same time
  P2P_SESSION_MAX,   \* entries of the table
  HEARTBEATS,        \* timer ticks without a sign of the listener until the reboot
  NoThread

ASSUME P2PSessionsAssumption ==
  /\ Handle \subseteq Nat
  /\ P2P_SESSION_MAX \in Nat \ {0}
  /\ HEARTBEATS \in Nat \ {0}
  /\ NoThread \notin Thread

Slot == 0 .. P2P_SESSION_MAX - 1
Entry == [valid : BOOLEAN, session : Handle \cup {-1, 0}]

VARIABLES
  gP2PSession,     \* the table
  conn,            \* library: is a handle unused, connected, or hung up by the phone?
  owner,           \* history: the thread created for the connection of a handle
  pc,              \* where each service thread is
  tSession,        \* its parameter: the handle it serves
  at,              \* its loop variable in freeOtherP2PSession
  dropped,         \* history: threads whose entry was given or taken away
  listener,        \* where the listener is
  hSession, index, \* its variables
  g_fwupgrade,     \* an update is under way
  fpfileupdate,    \* its file is open
  g_get_temp2      \* ticks since the last sign of the listener or of a session

table    == <<gP2PSession, dropped>>
library  == <<conn, owner>>
threads  == <<pc, tSession, at>>
listens  == <<listener, hSession, index>>
update   == <<g_fwupgrade, fpfileupdate>>
vars     == <<table, library, threads, listens, update, g_get_temp2>>

TypeOK ==
  /\ gP2PSession \in [Slot -> Entry]
  /\ conn \in [Handle -> {"free", "open", "gone"}]
  /\ owner \in [Handle -> Thread \cup {NoThread}]
  /\ pc \in [Thread -> {"none", "auth", "serve", "force", "forceclear", "free", "close"}]
  /\ tSession \in [Thread -> Handle \cup {-1}]
  /\ at \in [Thread -> 0 .. P2P_SESSION_MAX]
  /\ dropped \subseteq Thread
  /\ listener \in {"top", "listen", "index", "add"}
  /\ hSession \in Handle \cup {-1}
  /\ index \in Slot
  /\ g_fwupgrade \in BOOLEAN
  /\ fpfileupdate \in BOOLEAN
  /\ g_get_temp2 \in 0 .. HEARTBEATS - 1

\* main clears the table with memset; a released entry holds -1 instead.
Unused  == [valid |-> FALSE, session |-> 0]
Cleared == [valid |-> FALSE, session |-> -1]

Init ==
  /\ gP2PSession = [i \in Slot |-> Unused]
  /\ dropped = {}
  /\ conn = [h \in Handle |-> "free"]
  /\ owner = [h \in Handle |-> NoThread]
  /\ pc = [t \in Thread |-> "none"]
  /\ tSession = [t \in Thread |-> -1]
  /\ at = [t \in Thread |-> 0]
  /\ listener = "top" /\ hSession = -1 /\ index = 0
  /\ g_fwupgrade = FALSE /\ fpfileupdate = FALSE
  /\ g_get_temp2 = 0

-----------------------------------------------------------------------------
(* The table *)

First(S) == CHOOSE i \in S : \A j \in S : i <= j
Valid    == {i \in Slot : gP2PSession[i].valid}
Serving  == {t \in Thread : pc[t] # "none"}

\* Mutant: the loop does not look at valid.
AnyIndex == IF Valid = Slot THEN Slot ELSE {First(Slot)}

\* When the table is full the entry with the smallest connect_time.  That is wall-clock
\* time, which the listener itself may set back (ceres.c:1349): it may be any.
getP2PSessionFreeIndex == IF Valid = Slot THEN Slot ELSE {First(Slot \ Valid)}

\* The thread whose entry this is.
OwnersOf(i) ==
  {t \in Serving : tSession[t] = gP2PSession[i].session /\ owner[tSession[t]] = t}

PPPP_Close(h) ==
  /\ conn' = [conn EXCEPT ![h] = "free"]
  /\ owner' = [owner EXCEPT ![h] = NoThread]

Goto(t, l) == pc' = [pc EXCEPT ![t] = l]

-----------------------------------------------------------------------------
(* Listener: p2p_sub_thread_routine *)

\* With one session left the listener sleeps until the update is over.
LoopTop ==
  /\ listener = "top"
  /\ ~(g_fwupgrade /\ Cardinality(Valid) = 1)
  /\ listener' = "listen"
  /\ UNCHANGED <<table, library, threads, hSession, index, update, g_get_temp2>>

\* Mutant: the heartbeat comes before the test of g_fwupgrade.
ListenTimeoutBeats ==
  /\ listener = "listen"
  /\ listener' = "top"
  /\ g_get_temp2' = 0
  /\ UNCHANGED <<table, library, threads, hSession, index, update>>

ListenTimeout ==
  /\ listener = "listen"
  /\ listener' = "top"
  /\ g_get_temp2' = IF g_fwupgrade THEN g_get_temp2 ELSE 0
  /\ UNCHANGED <<table, library, threads, hSession, index, update>>

ListenError ==
  /\ listener = "listen"
  /\ listener' = "top"
  /\ UNCHANGED <<table, library, threads, hSession, index, update, g_get_temp2>>

\* A phone that connects during an update gets no answer; its handle is never closed.
Reject(h) ==
  /\ listener = "listen" /\ g_fwupgrade
  /\ conn[h] = "free"
  /\ conn' = [conn EXCEPT ![h] = "open"]
  /\ listener' = "top"
  /\ UNCHANGED <<table, owner, threads, hSession, index, update, g_get_temp2>>

Accept(h) ==
  /\ listener = "listen" /\ ~g_fwupgrade
  /\ conn[h] = "free"
  /\ Serving # Thread
  /\ conn' = [conn EXCEPT ![h] = "open"]
  /\ hSession' = h
  /\ listener' = "index"
  /\ g_get_temp2' = 0
  /\ UNCHANGED <<table, owner, threads, index, update>>

\* Full: an entry is cleared.  Its connection and its thread live on.
FindIndex ==
  /\ listener = "index"
  /\ index' \in getP2PSessionFreeIndex
  /\ IF Valid = Slot
       THEN /\ gP2PSession' = [gP2PSession EXCEPT ![index'] = Cleared]
            /\ dropped' = dropped \cup OwnersOf(index')
       ELSE UNCHANGED table
  /\ listener' = "add"
  /\ UNCHANGED <<library, threads, hSession, update, g_get_temp2>>

addP2PSession(t) ==
  /\ listener = "add"
  /\ pc[t] = "none"
  /\ gP2PSession' = [gP2PSession EXCEPT ![index] =
                       [valid |-> TRUE, session |-> hSession]]
  /\ owner' = [owner EXCEPT ![hSession] = t]
  /\ Goto(t, "auth")
  /\ tSession' = [tSession EXCEPT ![t] = hSession]
  /\ listener' = "top" /\ hSession' = -1 /\ index' = 0
  /\ UNCHANGED <<dropped, conn, at, update, g_get_temp2>>

-----------------------------------------------------------------------------
(* Service threads: p2p_thread_service, p2p_process_cmd *)

Connected(t) == conn[tSession[t]] = "open"
Rest(t)      == UNCHANGED <<table, library, tSession, at, listens>>

AuthOK(t) ==
  /\ pc[t] = "auth" /\ Connected(t)
  /\ Goto(t, "serve")
  /\ g_get_temp2' = 0
  /\ Rest(t) /\ UNCHANGED update

\* No answer in time, a dead connection, another packet, a wrong password.
AuthFail(t) ==
  /\ pc[t] = "auth"
  /\ Goto(t, "free")
  /\ Rest(t) /\ UNCHANGED <<update, g_get_temp2>>

\* Nothing to read for ten seconds, or a command without effect here.
Served(t) ==
  /\ pc[t] = "serve" /\ Connected(t)
  /\ g_get_temp2' = 0
  /\ Rest(t) /\ UNCHANGED <<pc, update>>

\* Mutant: an error is taken for a timeout.
ReadErrorIgnored(t) ==
  /\ pc[t] = "serve" /\ ~Connected(t)
  /\ g_get_temp2' = 0
  /\ Rest(t) /\ UNCHANGED <<pc, update>>

ReadError(t) ==
  /\ pc[t] = "serve" /\ ~Connected(t)
  /\ Goto(t, "free")
  /\ Rest(t) /\ UNCHANGED <<update, g_get_temp2>>

\* An encrypted command of a phone whose entry, and so whose key, is lost.
Undecodable(t) ==
  /\ pc[t] = "serve" /\ Connected(t)
  /\ \A i \in Valid : gP2PSession[i].session # tSession[t]
  /\ Goto(t, "free")
  /\ Rest(t) /\ UNCHANGED <<update, g_get_temp2>>

\* The daemon starts afresh: reboot, exit after an update, or a crash.
Restart ==
  /\ gP2PSession' = [i \in Slot |-> Unused]
  /\ dropped' = {}
  /\ conn' = [h \in Handle |-> "free"]
  /\ owner' = [h \in Handle |-> NoThread]
  /\ pc' = [t \in Thread |-> "none"]
  /\ tSession' = [t \in Thread |-> -1]
  /\ at' = [t \in Thread |-> 0]
  /\ listener' = "top" /\ hSession' = -1 /\ index' = 0
  /\ g_fwupgrade' = FALSE /\ fpfileupdate' = FALSE
  /\ g_get_temp2' = 0

\* CM_FW, accepted: startfwupdate opens the file, or cannot.
StartUpdate(t) ==
  /\ pc[t] = "serve" /\ Connected(t)
  /\ g_fwupgrade => fpfileupdate
  /\ \/ fpfileupdate' = TRUE /\ g_fwupgrade' = TRUE
     \/ fpfileupdate' = FALSE /\ UNCHANGED g_fwupgrade
  /\ Goto(t, "force")
  /\ UNCHANGED <<table, library, tSession, at, listens, g_get_temp2>>

\* CM_FW_STOP with the file incomplete: no file, or a wrong checksum.
StopUpdate(t) ==
  /\ pc[t] = "serve" /\ Connected(t)
  /\ g_fwupgrade /\ fpfileupdate
  /\ fpfileupdate' = FALSE /\ g_fwupgrade' = FALSE
  /\ g_get_temp2' = 0
  /\ Rest(t) /\ UNCHANGED pc

\* Wrong size, no memory, unreadable: stopfwupdate returns and the update goes on.
StopHalfway(t) ==
  /\ pc[t] = "serve" /\ Connected(t)
  /\ g_fwupgrade /\ fpfileupdate
  /\ fpfileupdate' = FALSE
  /\ g_get_temp2' = 0
  /\ Rest(t) /\ UNCHANGED <<pc, g_fwupgrade>>

UpdateDone(t) ==
  /\ pc[t] = "serve" /\ Connected(t)
  /\ g_fwupgrade /\ fpfileupdate
  /\ Restart

\* CM_FW or CM_FW_STOP closes the file that StopHalfway has closed: fclose(NULL).
CloseTwice(t) ==
  /\ pc[t] = "serve" /\ Connected(t)
  /\ g_fwupgrade /\ ~fpfileupdate
  /\ Restart

\* freeOtherP2PSession: the connection of the next other entry is closed ...
Others(t) ==
  {i \in Valid : i >= at[t] /\ gP2PSession[i].session # tSession[t]}

ForceClose(t) ==
  /\ pc[t] = "force" /\ Others(t) # {}
  /\ PPPP_Close(gP2PSession[First(Others(t))].session)
  /\ at' = [at EXCEPT ![t] = First(Others(t))]
  /\ Goto(t, "forceclear")
  /\ UNCHANGED <<table, tSession, listens, update, g_get_temp2>>

\* ... and then the entry cleared, whatever it holds by now.
ForceClear(t) ==
  /\ pc[t] = "forceclear"
  /\ gP2PSession' = [gP2PSession EXCEPT ![at[t]] = Cleared]
  /\ dropped' = dropped \cup OwnersOf(at[t])
  /\ Goto(t, "force")
  /\ at' = [at EXCEPT ![t] = at[t] + 1]
  /\ UNCHANGED <<library, tSession, listens, update, g_get_temp2>>

ForceDone(t) ==
  /\ pc[t] = "force" /\ Others(t) = {}
  /\ Goto(t, "serve")
  /\ at' = [at EXCEPT ![t] = 0]
  /\ g_get_temp2' = 0
  /\ UNCHANGED <<table, library, tSession, listens, update>>

\* Mutant: the loop begins at 1.
freeP2PSessionFrom1(t) ==
  /\ pc[t] = "free"
  /\ LET mine == {i \in Slot \ {0} : gP2PSession[i].session = tSession[t]}
     IN gP2PSession' = IF mine = {} THEN gP2PSession
                       ELSE [gP2PSession EXCEPT ![First(mine)] = Cleared]
  /\ Goto(t, "close")
  /\ UNCHANGED <<dropped, library, tSession, at, listens, update, g_get_temp2>>

\* The end of a thread: the entry first, found by its handle, ...
freeP2PSession(t) ==
  /\ pc[t] = "free"
  /\ LET mine == {i \in Slot : gP2PSession[i].session = tSession[t]}
     IN gP2PSession' = IF mine = {} THEN gP2PSession
                       ELSE [gP2PSession EXCEPT ![First(mine)] = Cleared]
  /\ Goto(t, "close")
  /\ UNCHANGED <<dropped, library, tSession, at, listens, update, g_get_temp2>>

\* ... then the connection, so that nobody else has the handle meanwhile.
CloseSession(t) ==
  /\ pc[t] = "close"
  /\ PPPP_Close(tSession[t])
  /\ Goto(t, "none")
  /\ tSession' = [tSession EXCEPT ![t] = -1]
  /\ dropped' = dropped \ {t}
  /\ UNCHANGED <<gP2PSession, at, listens, update, g_get_temp2>>

-----------------------------------------------------------------------------
(* Phones, and the gettemp timer (timerHandler) *)

HangUp(h) ==
  /\ conn[h] = "open"
  /\ conn' = [conn EXCEPT ![h] = "gone"]
  /\ UNCHANGED <<table, owner, threads, listens, update, g_get_temp2>>

\* Mutant: one tick more.
HeartBeatLate ==
  IF g_get_temp2 >= HEARTBEATS
    THEN Restart
    ELSE /\ g_get_temp2' = g_get_temp2 + 1
         /\ UNCHANGED <<table, library, threads, listens, update>>

HeartBeat ==
  IF g_get_temp2 + 1 >= HEARTBEATS
    THEN Restart
    ELSE /\ g_get_temp2' = g_get_temp2 + 1
         /\ UNCHANGED <<table, library, threads, listens, update>>

Listener ==
  \/ LoopTop \/ ListenTimeout \/ ListenError \/ FindIndex
  \/ \E h \in Handle : Accept(h) \/ Reject(h)
  \/ \E t \in Thread : addP2PSession(t)

Service(t) ==
  \/ AuthOK(t) \/ AuthFail(t) \/ Served(t) \/ ReadError(t) \/ Undecodable(t)
  \/ StartUpdate(t) \/ StopUpdate(t) \/ StopHalfway(t) \/ UpdateDone(t) \/ CloseTwice(t)
  \/ ForceClose(t) \/ ForceClear(t) \/ ForceDone(t)
  \/ freeP2PSession(t) \/ CloseSession(t)

Next ==
  \/ Listener
  \/ \E t \in Thread : Service(t)
  \/ \E h \in Handle : HangUp(h)
  \/ HeartBeat

Spec == Init /\ [][Next]_vars

\* Every read has a timeout, the mutex is held briefly, and the gettemp timer is
\* periodic: listener, threads and timer go on.
FairSpec ==
  /\ Spec
  /\ WF_vars(Listener) /\ WF_vars(HeartBeat)
  /\ \A t \in Thread : WF_vars(Service(t))

-----------------------------------------------------------------------------
(* Properties *)

\* Threads whose connection was closed by another.
Outlived == {t \in Serving : owner[tSession[t]] # t}

\* The table holds no entry that nobody will release: each belongs to a thread that
\* has not yet released its own.  No connection has two, unless a forced release
\* left a thread behind that outlives its connection (addP2PSession,
\* freeP2PSession, freeOtherP2PSession).
EntriesAreServed ==
  \A i \in Valid :
    /\ \E t \in Thread : /\ tSession[t] = gP2PSession[i].session
                         /\ pc[t] \notin {"none", "close"}
    /\ \A j \in Valid \ {i} :
         gP2PSession[j].session = gP2PSession[i].session
           => \E t \in Outlived : tSession[t] = gP2PSession[i].session

\* A phone that is being served has its entry, without which it gets no answer,
\* unless the table was full, it was thrown out for an update, or a thread that
\* outlived its connection is closing this one under the same handle
\* (getP2PSessionFreeIndex, addP2PSession, freeP2PSession).
ServedHasEntry ==
  \A t \in Thread :
    pc[t] \in {"auth", "serve"} /\ owner[tSession[t]] = t /\ t \notin dropped
      => \/ \E i \in Valid : gP2PSession[i].session = tSession[t]
         \/ \E u \in Outlived : tSession[u] = tSession[t] /\ pc[u] = "close"

\* A phone that hung up is noticed and its connection closed, so that its handle is
\* free again (p2p_process_cmd's errors, the end of p2p_thread_service).
GoneIsClosed ==
  \A h \in Handle : (conn[h] = "gone" /\ owner[h] # NoThread) ~> (conn[h] # "gone")

\* An update nobody is left to finish does not shut the phones out for ever: the
\* listener gives no heartbeat while it rejects them, until the gateway reboots
\* (ceres.c:1265, 1377, 4691).
AbandonedUpdateEnds ==
  (g_fwupgrade /\ Serving = {}) ~> (~g_fwupgrade \/ Serving # {})
=============================================================================
