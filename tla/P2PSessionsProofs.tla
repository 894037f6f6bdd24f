-------------------------- MODULE P2PSessionsProofs --------------------------
(***************************************************************************)
(* Proofs about P2PSessions, for every size of the table and any handles   *)
(* and threads.  Entries and threads find each other by handle alone, and  *)
(* after a forced release several threads may have the same handle: what   *)
(* keeps the table right is a count, that no handle has more entries than  *)
(* threads that still have to release one.                                 *)
(***************************************************************************)
EXTENDS P2PSessions, TLAPS, WellFoundedInduction

\* Threads that still have to release an entry.
Holding == {t \in Thread : pc[t] \notin {"none", "close"}}

\* Entries as main left them: their session is 0, which is also a handle.
NeverUsed == {i \in Slot : gP2PSession[i] = Unused}

\* Who is served, and what is released, has a handle.
HandleInv ==
  /\ \A i \in Slot : IF gP2PSession[i].valid THEN gP2PSession[i].session \in Handle
                     ELSE gP2PSession[i] \in {Unused, Cleared}
  /\ \A t \in Serving : tSession[t] \in Handle
  /\ listener \in {"index", "add"} => hSession \in Handle
  /\ \A t \in Thread : pc[t] = "forceclear" => at[t] \in Slot \ NeverUsed

\* The table fills from its beginning.
TailInv ==
  /\ \A i \in NeverUsed, j \in Slot : i < j => j \in NeverUsed
  /\ listener = "add" => index \notin Valid /\ \A j \in NeverUsed : index <= j

\* A thread of its own for each entry.
Assigns(f) ==
  /\ \A i, j \in Valid : f[i] = f[j] => i = j
  /\ \A i \in Valid : tSession[f[i]] = gP2PSession[i].session

CountInv == \E f \in [Valid -> Holding] : Assigns(f)

\* The entry of a connection is there until its thread has released it, or another
\* thread has that is about to close the connection.
KeptInv ==
  \A t \in Holding :
    owner[tSession[t]] = t /\ t \notin dropped
      => \/ \E i \in Valid : gP2PSession[i].session = tSession[t]
         \/ \E u \in Thread : pc[u] = "close" /\ tSession[u] = tSession[t]

TableInv == HandleInv /\ TailInv /\ CountInv /\ KeptInv

SessInv == TypeOK /\ TableInv

-----------------------------------------------------------------------------
(* The bounds, as numbers. *)
LEMMA Sizes ==
  /\ P2P_SESSION_MAX \in Nat /\ P2P_SESSION_MAX >= 1
  /\ HEARTBEATS \in Nat /\ HEARTBEATS >= 1
  /\ 0 \in Slot /\ Slot \subseteq Nat
  /\ Handle \subseteq Nat /\ -1 \notin Handle
  /\ NoThread \notin Thread
BY P2PSessionsAssumption DEF Slot

(* The loops' "first" is there whenever there is any. *)
LEMMA FirstIsThere ==
  ASSUME NEW S \in SUBSET Slot, S # {}
  PROVE  First(S) \in S /\ \A j \in S : First(S) <= j
<1> DEFINE Less == {ss \in Nat \X Nat : ss[1] < ss[2]}
<1>1. IsWellFoundedOn(Less, Nat)
  BY NatLessThanWellFounded DEF OpToRel
<1>2. S \subseteq Nat
  BY Sizes
<1>3. PICK k \in S : \A j \in S : ~ (<<j, k>> \in Less)
  BY <1>1, <1>2, WFMin
<1>4. \A j \in S : k <= j
  <2> SUFFICES ASSUME NEW j \in S, ~ (k <= j)
               PROVE  FALSE
    OBVIOUS
  <2>1. j < k /\ <<j, k>> \in Nat \X Nat
    BY <1>2
  <2> QED
    BY <1>3, <2>1
<1>5. \E i \in S : \A j \in S : i <= j
  BY <1>4
<1> QED
  BY <1>5 DEF First

(* The daemon starts with an empty table, nobody served and the listener   *)
(* at its top.                                                             *)
LEMMA InitSessInv == Init => SessInv
<1> SUFFICES ASSUME Init PROVE SessInv
  OBVIOUS
<1> USE Sizes DEF Init
<1>1. TypeOK
  <2>1. Unused \in Entry
    BY DEF Unused, Entry
  <2>2. gP2PSession \in [Slot -> Entry]
    BY <2>1
  <2>3. /\ conn \in [Handle -> {"free", "open", "gone"}]
        /\ owner \in [Handle -> Thread \cup {NoThread}]
        /\ pc \in [Thread -> {"none", "auth", "serve", "force", "forceclear", "free", "close"}]
        /\ tSession \in [Thread -> Handle \cup {-1}]
    OBVIOUS
  <2>4. /\ at \in [Thread -> 0 .. P2P_SESSION_MAX]
        /\ dropped \subseteq Thread
        /\ hSession \in Handle \cup {-1} /\ index \in Slot
        /\ g_get_temp2 \in 0 .. HEARTBEATS - 1
    OBVIOUS
  <2> QED
    BY <2>2, <2>3, <2>4 DEF TypeOK
<1>2. Valid = {} /\ Serving = {} /\ Holding = {} /\ NeverUsed = Slot
  BY DEF Valid, Serving, Holding, NeverUsed, Unused
<1>3. HandleInv
  BY <1>2 DEF HandleInv, Unused
<1>4. TailInv
  BY <1>2 DEF TailInv
<1>5. CountInv
  <2>1. [i \in {} |-> i] \in [Valid -> Holding] /\ Assigns([i \in {} |-> i])
    BY <1>2 DEF Assigns
  <2> QED
    BY <2>1 DEF CountInv
<1>6. KeptInv
  BY <1>2 DEF KeptInv
<1> QED
  BY <1>1, <1>3, <1>4, <1>5, <1>6 DEF SessInv, TableInv

(* A restart is a new beginning. *)
LEMMA RestartStep ==
  ASSUME Restart
  PROVE  SessInv'
<1>1. Init'
  BY DEF Restart, Init
<1>2. (Init => SessInv)'
  BY InitSessInv, PTL
<1> QED
  BY <1>1, <1>2

-----------------------------------------------------------------------------
(* The types, for each step *)

(* The listener's steps keep the types. *)
LEMMA ListenerTypes ==
  ASSUME SessInv, Listener
  PROVE  TypeOK'
<1> USE Sizes DEF SessInv, TypeOK, table, library, threads, listens, update
<1>1. CASE LoopTop \/ ListenTimeout \/ ListenError
  BY <1>1 DEF LoopTop, ListenTimeout, ListenError
<1>2. CASE \E h \in Handle : Accept(h) \/ Reject(h)
  BY <1>2 DEF Accept, Reject
<1>3. CASE FindIndex
  <2>1. Valid # Slot => First(Slot \ Valid) \in Slot \ Valid
    BY FirstIsThere DEF Valid
  <2>2. index' \in Slot
    BY <1>3, <2>1 DEF FindIndex, getP2PSessionFreeIndex
  <2>3. Cleared \in Entry
    BY DEF Cleared, Entry
  <2>4. gP2PSession' \in [Slot -> Entry]
    BY <1>3, <2>2, <2>3 DEF FindIndex
  <2>5. dropped' \subseteq Thread
    BY <1>3 DEF FindIndex, OwnersOf, Serving
  <2> QED
    BY <1>3, <2>2, <2>4, <2>5 DEF FindIndex
<1>4. CASE \E t \in Thread : addP2PSession(t)
  <2>1. PICK t \in Thread : addP2PSession(t)
    BY <1>4
  <2>2. hSession \in Handle
    BY <2>1 DEF addP2PSession, TableInv, HandleInv
  <2>3. [valid |-> TRUE, session |-> hSession] \in Entry
    BY <2>2 DEF Entry
  <2>4. gP2PSession' \in [Slot -> Entry]
    BY <2>1, <2>3 DEF addP2PSession
  <2> QED
    BY <2>1, <2>2, <2>4 DEF addP2PSession, Goto
<1> QED
  BY <1>1, <1>2, <1>3, <1>4 DEF Listener

(* The next entry a forced release looks for is in the table. *)
LEMMA NextOther ==
  ASSUME SessInv, NEW t \in Thread, Others(t) # {}
  PROVE  First(Others(t)) \in Valid /\ gP2PSession[First(Others(t))].session \in Handle
<1>1. Others(t) \subseteq Slot
  BY DEF Others, Valid
<1>2. First(Others(t)) \in Others(t)
  BY <1>1, FirstIsThere
<1> QED
  BY <1>2 DEF Others, Valid, SessInv, TableInv, HandleInv

(* So do those of a service thread. *)
LEMMA ServiceTypes ==
  ASSUME SessInv, NEW t \in Thread, Service(t)
  PROVE  TypeOK'
<1>0. Restart => TypeOK'
  BY RestartStep DEF SessInv
<1> USE Sizes DEF SessInv, TypeOK, table, library, threads, listens, update, Rest, Goto
<1>1. CASE AuthOK(t) \/ AuthFail(t) \/ Served(t) \/ ReadError(t) \/ Undecodable(t)
  BY <1>1 DEF AuthOK, AuthFail, Served, ReadError, Undecodable
<1>2. CASE StartUpdate(t)
  BY <1>2 DEF StartUpdate
<1>3. CASE StopUpdate(t)
  <2>1. g_get_temp2' \in 0 .. HEARTBEATS - 1
    BY <1>3 DEF StopUpdate
  <2>2. g_fwupgrade' \in BOOLEAN
    BY <1>3 DEF StopUpdate
  <2>3. fpfileupdate' \in BOOLEAN
    BY <1>3 DEF StopUpdate
  <2> QED
    BY <1>3, <2>1, <2>2, <2>3 DEF StopUpdate
<1>4. CASE StopHalfway(t)
  <2>1. g_get_temp2' \in 0 .. HEARTBEATS - 1
    BY <1>4 DEF StopHalfway
  <2>2. g_fwupgrade' \in BOOLEAN
    BY <1>4 DEF StopHalfway
  <2>3. fpfileupdate' \in BOOLEAN
    BY <1>4 DEF StopHalfway
  <2> QED
    BY <1>4, <2>1, <2>2, <2>3 DEF StopHalfway
<1>5. CASE UpdateDone(t) \/ CloseTwice(t)
  <2>1. Restart
    BY <1>5 DEF UpdateDone, CloseTwice
  <2> QED
    BY <2>1, <1>0
<1>6. CASE ForceClose(t)
  <2>1. First(Others(t)) \in 0 .. P2P_SESSION_MAX
    BY <1>6, NextOther DEF ForceClose, Valid, Slot
  <2> QED
    BY <1>6, <2>1 DEF ForceClose, PPPP_Close
<1>7. CASE ForceClear(t)
  <2>1. at[t] \in Slot
    BY <1>7 DEF ForceClear, TableInv, HandleInv
  <2>2. at[t] + 1 \in 0 .. P2P_SESSION_MAX
    BY <2>1 DEF Slot
  <2>3. Cleared \in Entry
    BY DEF Cleared, Entry
  <2>4. gP2PSession' \in [Slot -> Entry]
    BY <1>7, <2>3 DEF ForceClear
  <2>5. dropped' \subseteq Thread
    BY <1>7 DEF ForceClear, OwnersOf, Serving
  <2> QED
    BY <1>7, <2>2, <2>4, <2>5 DEF ForceClear
<1>8. CASE ForceDone(t)
  BY <1>8 DEF ForceDone
<1>9. CASE freeP2PSession(t)
  <2>1. Cleared \in Entry
    BY DEF Cleared, Entry
  <2>2. gP2PSession' \in [Slot -> Entry]
    BY <1>9, <2>1 DEF freeP2PSession
  <2> QED
    BY <1>9, <2>2 DEF freeP2PSession
<1>10. CASE CloseSession(t)
  BY <1>10 DEF CloseSession, PPPP_Close
<1> QED
  BY <1>1, <1>2, <1>3, <1>4, <1>5, <1>6, <1>7, <1>8, <1>9, <1>10 DEF Service

-----------------------------------------------------------------------------
(* The table, for each step *)

\* What the threads of a step may do among themselves without a release: nobody
\* begins, releases or ends, and who is to clear an entry is to clear a used one.
Quiet ==
  /\ \A u \in Thread : /\ pc'[u] = "none" <=> pc[u] = "none"
                       /\ pc'[u] = "close" <=> pc[u] = "close"
                       /\ pc'[u] = "forceclear" => at'[u] \in Slot \ NeverUsed
  /\ tSession' = tSession

(* A step that leaves the table and the connections alone.                 *)
LEMMA QuietStep ==
  ASSUME SessInv, Quiet, UNCHANGED <<gP2PSession, dropped, owner>>,
         listener' \in {"index", "add"} => hSession' \in Handle,
         listener' = "add" => listener = "add" /\ index' = index
  PROVE  TableInv'
<1>1. Valid' = Valid /\ NeverUsed' = NeverUsed /\ Serving' = Serving /\ Holding' = Holding
  BY DEF Quiet, Valid, NeverUsed, Serving, Holding
<1>2. HandleInv'
  BY <1>1 DEF Quiet, SessInv, TableInv, HandleInv
<1>3. TailInv'
  BY <1>1 DEF SessInv, TableInv, TailInv
<1>4. CountInv'
  BY <1>1 DEF Quiet, SessInv, TableInv, CountInv, Assigns
<1>5. KeptInv'
  BY <1>1 DEF Quiet, SessInv, TableInv, KeptInv
<1> QED
  BY <1>2, <1>3, <1>4, <1>5 DEF TableInv

(* A used entry is cleared, and its thread noted (FindIndex, ForceClear).   *)
LEMMA DropStep ==
  ASSUME SessInv, Quiet, NEW i \in Slot, i \notin NeverUsed,
         gP2PSession' = [gP2PSession EXCEPT ![i] = Cleared],
         dropped' = dropped \cup OwnersOf(i), owner' = owner,
         listener' \in {"index", "add"} => hSession' \in Handle,
         listener' = "add" => \/ listener = "add" /\ index' = index
                              \/ index' = i /\ NeverUsed = {}
  PROVE  TableInv'
<1> USE Sizes DEF SessInv
<1>0. gP2PSession \in [Slot -> Entry]
  BY DEF TypeOK
<1>1. /\ gP2PSession'[i] = Cleared
      /\ \A j \in Slot \ {i} : gP2PSession'[j] = gP2PSession[j]
  BY <1>0
<1>2. Valid' = Valid \ {i}
  BY <1>1 DEF Valid, Cleared
<1>3. NeverUsed' = NeverUsed
  BY <1>1 DEF NeverUsed, Cleared, Unused
<1>4. Serving' = Serving /\ Holding' = Holding
  BY DEF Quiet, Serving, Holding
<1>5. HandleInv'
  <2>1. \A j \in Slot : IF gP2PSession'[j].valid THEN gP2PSession'[j].session \in Handle
                        ELSE gP2PSession'[j] \in {Unused, Cleared}
    BY <1>1 DEF TableInv, HandleInv, Cleared
  <2> QED
    BY <2>1, <1>3, <1>4 DEF Quiet, TableInv, HandleInv
<1>6. TailInv'
  <2>1. \A a \in NeverUsed', b \in Slot : a < b => b \in NeverUsed'
    BY <1>3 DEF TableInv, TailInv
  <2>2. listener' = "add" => index' \notin Valid' /\ \A j \in NeverUsed' : index' <= j
    BY <1>2, <1>3 DEF TableInv, TailInv
  <2> QED
    BY <2>1, <2>2 DEF TailInv
<1>7. CountInv'
  <2>1. PICK f \in [Valid -> Holding] : Assigns(f)
    BY DEF TableInv, CountInv
  <2> DEFINE g == [j \in Valid' |-> f[j]]
  <2>2. g \in [Valid' -> Holding']
    BY <1>2, <1>4
  <2>3. \A j, k \in Valid' : g[j] = g[k] => j = k
    BY <2>1, <1>2 DEF Assigns
  <2>4. \A j \in Valid' : tSession'[g[j]] = gP2PSession'[j].session
    BY <2>1, <1>1, <1>2 DEF Assigns, Quiet, Valid
  <2> HIDE DEF g
  <2> QED
    BY <2>2, <2>3, <2>4 DEF CountInv, Assigns
<1>8. KeptInv'
  <2> SUFFICES ASSUME NEW t \in Holding', owner'[tSession'[t]] = t, t \notin dropped'
               PROVE  \/ \E j \in Valid' : gP2PSession'[j].session = tSession'[t]
                      \/ \E u \in Thread : pc'[u] = "close" /\ tSession'[u] = tSession'[t]
    BY DEF KeptInv
  <2>1. t \in Holding /\ t \in Serving /\ tSession' = tSession
    BY <1>4 DEF Quiet, Holding, Serving
  <2>2. owner[tSession[t]] = t /\ t \notin dropped /\ t \notin OwnersOf(i)
    BY <2>1
  <2>3. gP2PSession[i].session # tSession[t]
    BY <2>1, <2>2 DEF OwnersOf
  <2>4. CASE \E j \in Valid : gP2PSession[j].session = tSession[t]
    <3>1. PICK j \in Valid : gP2PSession[j].session = tSession[t]
      BY <2>4
    <3>2. j \in Valid' /\ gP2PSession'[j] = gP2PSession[j]
      BY <3>1, <2>3, <1>1, <1>2 DEF Valid
    <3> QED
      BY <3>1, <3>2, <2>1
  <2>5. CASE \E u \in Thread : pc[u] = "close" /\ tSession[u] = tSession[t]
    <3>1. PICK u \in Thread : pc[u] = "close" /\ tSession[u] = tSession[t]
      BY <2>5
    <3>2. pc'[u] = "close"
      BY <3>1 DEF Quiet
    <3> QED
      BY <3>1, <3>2, <2>1
  <2> QED
    BY <2>1, <2>2, <2>4, <2>5 DEF TableInv, KeptInv
<1> QED
  BY <1>5, <1>6, <1>7, <1>8 DEF TableInv

(* The listener finds an index in a table with room.                       *)
LEMMA FindStep ==
  ASSUME SessInv, FindIndex
  PROVE  TableInv'
<1> USE Sizes DEF SessInv
<1>1. /\ listener = "index" /\ listener' = "add" /\ hSession' = hSession
      /\ Quiet /\ owner' = owner
  BY DEF FindIndex, Quiet, library, threads, TableInv, HandleInv
<1>2. hSession \in Handle
  BY <1>1 DEF TableInv, HandleInv
<1>3. CASE Valid = Slot
  <2>1. index' \in Slot /\ NeverUsed = {}
    BY <1>3 DEF FindIndex, getP2PSessionFreeIndex, Valid, NeverUsed, Unused
  <2>2. /\ gP2PSession' = [gP2PSession EXCEPT ![index'] = Cleared]
        /\ dropped' = dropped \cup OwnersOf(index')
    BY <1>3 DEF FindIndex
  <2>3. PICK i \in Slot : i = index'
    BY <2>1
  <2> QED
    BY <1>1, <1>2, <2>1, <2>2, <2>3, DropStep
<1>4. CASE Valid # Slot
  <2>1. index' = First(Slot \ Valid) /\ gP2PSession' = gP2PSession /\ dropped' = dropped
    BY <1>4 DEF FindIndex, getP2PSessionFreeIndex, table
  <2>2. index' \in Slot \ Valid /\ \A j \in Slot \ Valid : index' <= j
    BY <1>4, <2>1, FirstIsThere DEF Valid
  <2>3. Valid' = Valid /\ NeverUsed' = NeverUsed /\ Serving' = Serving /\ Holding' = Holding
    BY <1>1, <2>1 DEF Quiet, Valid, NeverUsed, Serving, Holding
  <2>4. HandleInv'
    BY <1>1, <1>2, <2>1, <2>3 DEF Quiet, TableInv, HandleInv
  <2>5. NeverUsed \subseteq Slot \ Valid
    BY DEF NeverUsed, Valid, Unused
  <2>6. TailInv'
    BY <2>2, <2>3, <2>5 DEF TableInv, TailInv
  <2>7. CountInv'
    BY <1>1, <2>1, <2>3 DEF Quiet, TableInv, CountInv, Assigns
  <2>8. KeptInv'
    BY <1>1, <2>1, <2>3 DEF Quiet, TableInv, KeptInv
  <2> QED
    BY <2>4, <2>6, <2>7, <2>8 DEF TableInv
<1> QED
  BY <1>3, <1>4

\* The entry and its thread appear together; whoever has the handle from before
\* has outlived its connection (addP2PSession).
LEMMA AddStep ==
  ASSUME SessInv, NEW t \in Thread, addP2PSession(t)
  PROVE  TableInv'
<1> USE Sizes DEF SessInv
<1>0. /\ gP2PSession \in [Slot -> Entry] /\ owner \in [Handle -> Thread \cup {NoThread}]
      /\ pc \in [Thread -> {"none", "auth", "serve", "force", "forceclear", "free", "close"}]
      /\ tSession \in [Thread -> Handle \cup {-1}] /\ index \in Slot
  BY DEF TypeOK
<1>1. /\ listener = "add" /\ pc[t] = "none" /\ hSession \in Handle
      /\ index \notin Valid /\ \A j \in NeverUsed : index <= j
  BY DEF addP2PSession, TableInv, HandleInv, TailInv
<1>2. /\ gP2PSession'[index].valid /\ gP2PSession'[index].session = hSession
      /\ \A i \in Slot \ {index} : gP2PSession'[i] = gP2PSession[i]
  BY <1>0 DEF addP2PSession
<1>3. /\ pc'[t] = "auth" /\ tSession'[t] = hSession
      /\ \A u \in Thread \ {t} : pc'[u] = pc[u] /\ tSession'[u] = tSession[u]
  BY <1>0 DEF addP2PSession, Goto
<1>4. owner'[hSession] = t /\ \A h \in Handle \ {hSession} : owner'[h] = owner[h]
  BY <1>0, <1>1 DEF addP2PSession
<1>5. at' = at /\ dropped' = dropped /\ listener' = "top"
  BY DEF addP2PSession
<1>6. /\ Valid' = Valid \cup {index} /\ NeverUsed' = NeverUsed \ {index}
      /\ Holding' = Holding \cup {t} /\ t \notin Holding
      /\ Serving' = Serving \cup {t}
  <2>1. Valid' = Valid \cup {index}
    BY <1>0, <1>2 DEF Valid
  <2>2. NeverUsed' = NeverUsed \ {index}
    <3>1. Unused.valid = FALSE
      BY DEF Unused
    <3>2. gP2PSession'[index] # Unused
      BY <1>2, <3>1
    <3> QED
      BY <1>2, <3>2 DEF NeverUsed
  <2>3. Holding' = Holding \cup {t} /\ t \notin Holding
    BY <1>1, <1>3 DEF Holding
  <2>4. Serving' = Serving \cup {t}
    BY <1>3 DEF Serving
  <2> QED
    BY <2>1, <2>2, <2>3, <2>4
<1>7. HandleInv'
  <2>1. \A i \in Slot : IF gP2PSession'[i].valid THEN gP2PSession'[i].session \in Handle
                        ELSE gP2PSession'[i] \in {Unused, Cleared}
    BY <1>1, <1>2 DEF TableInv, HandleInv
  <2>2. \A u \in Serving' : tSession'[u] \in Handle
    BY <1>1, <1>3, <1>6 DEF TableInv, HandleInv, Serving
  <2>3. \A u \in Thread : pc'[u] = "forceclear" => at'[u] \in Slot \ NeverUsed'
    BY <1>3, <1>5, <1>6 DEF TableInv, HandleInv
  <2> QED
    BY <2>1, <2>2, <2>3, <1>5 DEF HandleInv
<1>8. TailInv'
  <2> SUFFICES ASSUME NEW i \in NeverUsed', NEW j \in Slot, i < j
               PROVE  j \in NeverUsed'
    BY <1>5 DEF TailInv
  <2>1. j \in NeverUsed /\ index <= i
    BY <1>1, <1>6 DEF TableInv, TailInv
  <2>2. i \in Nat /\ j \in Nat /\ index \in Nat
    BY <1>0 DEF NeverUsed
  <2> QED
    BY <1>6, <2>1, <2>2
<1>9. CountInv'
  <2>1. PICK f \in [Valid -> Holding] : Assigns(f)
    BY DEF TableInv, CountInv
  <2> DEFINE g == [j \in Valid \cup {index} |-> IF j = index THEN t ELSE f[j]]
  <2>2. g \in [Valid' -> Holding']
    BY <1>6
  <2>3. \A j, k \in Valid' : g[j] = g[k] => j = k
    BY <2>1, <1>1, <1>6 DEF Assigns
  <2>4. ASSUME NEW j \in Valid'
        PROVE  tSession'[g[j]] = gP2PSession'[j].session
    <3>1. CASE j = index
      BY <3>1, <1>2, <1>3, <1>6
    <3>2. CASE j # index
      <4>1. j \in Valid /\ g[j] = f[j] /\ f[j] \in Holding
        BY <3>2, <1>6
      <4>2. f[j] \in Thread \ {t} /\ gP2PSession'[j] = gP2PSession[j]
        BY <4>1, <3>2, <1>2, <1>6 DEF Holding, Valid
      <4> QED
        BY <4>1, <4>2, <2>1, <1>3 DEF Assigns
    <3> QED
      BY <3>1, <3>2
  <2> HIDE DEF g
  <2> QED
    BY <2>2, <2>3, <2>4 DEF CountInv, Assigns
<1>10. KeptInv'
  <2> SUFFICES ASSUME NEW v \in Holding', owner'[tSession'[v]] = v, v \notin dropped'
               PROVE  \/ \E j \in Valid' : gP2PSession'[j].session = tSession'[v]
                      \/ \E u \in Thread : pc'[u] = "close" /\ tSession'[u] = tSession'[v]
    BY DEF KeptInv
  <2>1. CASE v = t
    BY <2>1, <1>2, <1>3, <1>6
  <2>2. CASE v # t
    <3>1. v \in Holding /\ v \in Serving /\ v \in Thread \ {t} /\ v \notin dropped
      BY <2>2, <1>5, <1>6 DEF Holding, Serving
    <3>2. tSession'[v] = tSession[v] /\ tSession[v] \in Handle
      BY <3>1, <1>3 DEF TableInv, HandleInv
    <3>3. owner[tSession[v]] = v
      BY <2>2, <3>2, <1>4
    <3>4. CASE \E j \in Valid : gP2PSession[j].session = tSession[v]
      <4>1. PICK j \in Valid : gP2PSession[j].session = tSession[v]
        BY <3>4
      <4>2. j \in Valid' /\ gP2PSession'[j] = gP2PSession[j]
        BY <4>1, <1>1, <1>2, <1>6 DEF Valid
      <4> QED
        BY <4>1, <4>2, <3>2
    <3>5. CASE \E u \in Thread : pc[u] = "close" /\ tSession[u] = tSession[v]
      <4>1. PICK u \in Thread : pc[u] = "close" /\ tSession[u] = tSession[v]
        BY <3>5
      <4>2. u # t
        BY <4>1, <1>1
      <4> QED
        BY <4>1, <4>2, <1>3, <3>2
    <3> QED
      BY <3>1, <3>3, <3>4, <3>5 DEF TableInv, KeptInv
  <2> QED
    BY <2>1, <2>2
<1> QED
  BY <1>7, <1>8, <1>9, <1>10 DEF TableInv

\* A connection is closed by a thread it does not belong to: its own threads have
\* outlived it (freeOtherP2PSession).
LEMMA ForceCloseStep ==
  ASSUME SessInv, NEW t \in Thread, ForceClose(t)
  PROVE  TableInv'
<1> USE Sizes DEF SessInv
<1>0. /\ owner \in [Handle -> Thread \cup {NoThread}] /\ at \in [Thread -> 0 .. P2P_SESSION_MAX]
      /\ pc \in [Thread -> {"none", "auth", "serve", "force", "forceclear", "free", "close"}]
  BY DEF TypeOK
<1> DEFINE k == First(Others(t))
           h == gP2PSession[k].session
<1>1. k \in Valid /\ h \in Handle
  BY NextOther DEF ForceClose
<1>2. /\ gP2PSession' = gP2PSession /\ dropped' = dropped /\ tSession' = tSession
      /\ listener' = listener /\ hSession' = hSession /\ index' = index
      /\ owner' = [owner EXCEPT ![h] = NoThread]
      /\ pc[t] = "force" /\ pc' = [pc EXCEPT ![t] = "forceclear"]
      /\ at' = [at EXCEPT ![t] = k]
  BY DEF ForceClose, PPPP_Close, Goto, table, listens
<1> HIDE DEF k, h
<1>3. Valid' = Valid /\ NeverUsed' = NeverUsed
  BY <1>2 DEF Valid, NeverUsed
<1>4. k \in Slot \ NeverUsed
  BY <1>1 DEF Valid, NeverUsed, Unused
<1>5. Quiet
  BY <1>0, <1>2, <1>4 DEF Quiet, TableInv, HandleInv
<1>6. Serving' = Serving /\ Holding' = Holding
  BY <1>5 DEF Quiet, Serving, Holding
<1>7. HandleInv'
  BY <1>2, <1>3, <1>5, <1>6 DEF Quiet, TableInv, HandleInv
<1>8. TailInv'
  BY <1>2, <1>3 DEF TableInv, TailInv
<1>9. CountInv'
  BY <1>2, <1>3, <1>6 DEF TableInv, CountInv, Assigns
<1>10. KeptInv'
  <2> SUFFICES ASSUME NEW v \in Holding, owner'[tSession[v]] = v, v \notin dropped
               PROVE  \/ \E j \in Valid : gP2PSession[j].session = tSession[v]
                      \/ \E u \in Thread : pc'[u] = "close" /\ tSession[u] = tSession[v]
    BY <1>2, <1>3, <1>6 DEF KeptInv
  <2>1. v \in Thread /\ tSession[v] \in Handle
    BY DEF Holding, Serving, TableInv, HandleInv
  <2>2. owner[tSession[v]] = v
    BY <2>1, <1>0, <1>1, <1>2
  <2> QED
    BY <2>2, <1>5 DEF Quiet, TableInv, KeptInv
<1> QED
  BY <1>7, <1>8, <1>9, <1>10 DEF TableInv

(* The connection is closed and its thread is gone.                        *)
LEMMA CloseStep ==
  ASSUME SessInv, NEW t \in Thread, CloseSession(t)
  PROVE  TableInv'
<1> USE Sizes DEF SessInv
<1>0. /\ owner \in [Handle -> Thread \cup {NoThread}]
      /\ pc \in [Thread -> {"none", "auth", "serve", "force", "forceclear", "free", "close"}]
      /\ tSession \in [Thread -> Handle \cup {-1}]
  BY DEF TypeOK
<1>1. /\ gP2PSession' = gP2PSession /\ dropped' = dropped \ {t} /\ at' = at
      /\ listener' = listener /\ hSession' = hSession /\ index' = index
      /\ owner' = [owner EXCEPT ![tSession[t]] = NoThread]
      /\ pc[t] = "close" /\ pc' = [pc EXCEPT ![t] = "none"]
      /\ tSession' = [tSession EXCEPT ![t] = -1]
  BY DEF CloseSession, PPPP_Close, Goto, listens
<1>2. Valid' = Valid /\ NeverUsed' = NeverUsed
  BY <1>1 DEF Valid, NeverUsed
<1>3. Serving' = Serving \ {t} /\ Holding' = Holding /\ t \notin Holding
  BY <1>0, <1>1 DEF Serving, Holding
<1>4. \A u \in Thread \ {t} : pc'[u] = pc[u] /\ tSession'[u] = tSession[u]
  BY <1>0, <1>1
<1>5. HandleInv'
  BY <1>0, <1>1, <1>2, <1>3, <1>4 DEF TableInv, HandleInv, Serving
<1>6. TailInv'
  BY <1>1, <1>2 DEF TableInv, TailInv
<1>7. CountInv'
  <2>1. PICK f \in [Valid -> Holding] : Assigns(f)
    BY DEF TableInv, CountInv
  <2>2. \A i \in Valid : f[i] \in Thread \ {t}
    BY <1>3 DEF Holding
  <2>3. \A i \in Valid' : tSession'[f[i]] = gP2PSession'[i].session
    BY <2>1, <2>2, <1>1, <1>2, <1>4 DEF Assigns
  <2>4. \A i, j \in Valid' : f[i] = f[j] => i = j
    BY <2>1, <1>2 DEF Assigns
  <2>5. f \in [Valid' -> Holding']
    BY <1>2, <1>3
  <2> QED
    BY <2>3, <2>4, <2>5 DEF CountInv, Assigns
<1>8. KeptInv'
  <2> SUFFICES ASSUME NEW v \in Holding, owner'[tSession'[v]] = v, v \notin dropped'
               PROVE  \/ \E j \in Valid : gP2PSession[j].session = tSession'[v]
                      \/ \E u \in Thread : pc'[u] = "close" /\ tSession'[u] = tSession'[v]
    BY <1>1, <1>2, <1>3 DEF KeptInv
  <2>1. v \in Thread \ {t} /\ v \notin dropped /\ tSession'[v] = tSession[v]
    BY <1>1, <1>3, <1>4 DEF Holding
  <2>2. tSession[v] \in Handle /\ tSession[t] \in Handle
    BY <2>1, <1>1 DEF Holding, Serving, TableInv, HandleInv
  <2>3. owner[tSession[v]] = v /\ tSession[v] # tSession[t]
    BY <2>1, <2>2, <1>0, <1>1
  <2>4. CASE \E u \in Thread : pc[u] = "close" /\ tSession[u] = tSession[v]
    <3>1. PICK u \in Thread : pc[u] = "close" /\ tSession[u] = tSession[v]
      BY <2>4
    <3>2. u # t
      BY <3>1, <2>3
    <3> QED
      BY <3>1, <3>2, <2>1, <1>4
  <2> QED
    BY <2>1, <2>3, <2>4 DEF TableInv, KeptInv
<1> QED
  BY <1>5, <1>6, <1>7, <1>8 DEF TableInv

\* What a thread releases: an entry of its handle if there is one.  Entries that
\* were never used hold 0, which may be its handle; they come behind.
LEMMA FirstMine ==
  ASSUME SessInv, NEW h \in Handle,
         {i \in Slot : gP2PSession[i].session = h} # {}
  PROVE  LET k == First({i \in Slot : gP2PSession[i].session = h})
         IN /\ k \in Slot /\ gP2PSession[k].session = h
            /\ \/ k \in Valid
               \/ /\ k \in NeverUsed /\ \A j \in NeverUsed : k <= j
                  /\ \A j \in Valid : gP2PSession[j].session # h
<1> USE Sizes DEF SessInv
<1> DEFINE mine == {i \in Slot : gP2PSession[i].session = h}
           k == First(mine)
<1>1. k \in mine /\ \A j \in mine : k <= j
  BY FirstIsThere
<1> HIDE DEF k
<1>2. k \in Slot /\ gP2PSession[k].session = h
  BY <1>1
<1>3. CASE k \notin Valid
  <2>1. gP2PSession[k] \in {Unused, Cleared}
    BY <1>2, <1>3 DEF TableInv, HandleInv, Valid
  <2>2. gP2PSession[k] # Cleared
    BY <1>2 DEF Cleared
  <2>3. k \in NeverUsed /\ h = 0
    <3>1. gP2PSession[k] = Unused /\ Unused.session = 0
      BY <2>1, <2>2 DEF Unused
    <3> QED
      BY <3>1, <1>2 DEF NeverUsed
  <2>4. NeverUsed \subseteq mine
    BY <2>3 DEF NeverUsed, Unused
  <2>5. ASSUME NEW j \in Valid, gP2PSession[j].session = h
        PROVE  FALSE
    <3>1. j \in Slot /\ j \in mine /\ k <= j /\ j # k
      BY <1>1, <1>3, <2>5 DEF Valid
    <3>2. j \in Nat /\ k \in Nat
      BY <3>1, <1>2
    <3>3. j \in NeverUsed
      BY <3>1, <3>2, <2>3 DEF TableInv, TailInv
    <3> QED
      BY <2>5, <3>3 DEF NeverUsed, Valid, Unused
  <2> QED
    BY <1>1, <1>2, <2>3, <2>4, <2>5 DEF k
<1> QED
  BY <1>2, <1>3 DEF k

(* An entry that is cleared, and what else changes when its thread is done. *)
LEMMA ReleaseStep ==
  ASSUME SessInv, NEW t \in Thread, freeP2PSession(t)
  PROVE  TableInv'
<1> USE Sizes DEF SessInv
<1>0. /\ gP2PSession \in [Slot -> Entry]
      /\ pc \in [Thread -> {"none", "auth", "serve", "force", "forceclear", "free", "close"}]
  BY DEF TypeOK
<1> DEFINE h == tSession[t]
           mine == {i \in Slot : gP2PSession[i].session = h}
           k == First(mine)
<1>1. /\ owner' = owner /\ dropped' = dropped /\ tSession' = tSession /\ at' = at
      /\ listener' = listener /\ hSession' = hSession /\ index' = index
      /\ pc[t] = "free" /\ pc' = [pc EXCEPT ![t] = "close"]
      /\ gP2PSession' = IF mine = {} THEN gP2PSession ELSE [gP2PSession EXCEPT ![k] = Cleared]
  BY DEF freeP2PSession, Goto, library, listens
<1>2. h \in Handle
  BY <1>1 DEF TableInv, HandleInv, Serving
<1>3. mine # {} => /\ k \in mine
                   /\ \/ k \in Valid
                      \/ /\ k \in NeverUsed /\ \A j \in NeverUsed : k <= j
                         /\ \A j \in Valid : gP2PSession[j].session # h
  BY <1>2, FirstMine
<1> HIDE DEF k
<1>4. /\ pc'[t] = "close" /\ \A u \in Thread \ {t} : pc'[u] = pc[u]
      /\ Serving' = Serving /\ Holding' = Holding \ {t} /\ t \in Holding
  BY <1>0, <1>1 DEF Serving, Holding
\* The slots that change.
<1> DEFINE hit == IF mine = {} THEN {} ELSE {k}
<1>5. /\ hit \subseteq mine
      /\ \A i \in hit : gP2PSession'[i] = Cleared
      /\ \A i \in Slot \ hit : gP2PSession'[i] = gP2PSession[i]
  BY <1>0, <1>1, <1>3
<1> HIDE DEF hit
<1>6. Valid' = Valid \ hit
  <2>1. Cleared.valid = FALSE
    BY DEF Cleared
  <2> QED
    BY <1>5, <2>1 DEF Valid
<1>7. NeverUsed' = NeverUsed \ hit
  <2>1. Cleared # Unused
    BY DEF Cleared, Unused
  <2> QED
    BY <1>5, <2>1 DEF NeverUsed
<1>8. HandleInv'
  <2>1. \A i \in Slot : IF gP2PSession'[i].valid THEN gP2PSession'[i].session \in Handle
                        ELSE gP2PSession'[i] \in {Unused, Cleared}
    <3> TAKE i \in Slot
    <3>1. CASE i \in hit
      <4>1. gP2PSession'[i] = Cleared
        BY <3>1, <1>5
      <4>2. ~ Cleared.valid
        BY DEF Cleared
      <4> QED
        BY <4>1, <4>2
    <3>2. CASE i \notin hit
      BY <3>2, <1>5 DEF TableInv, HandleInv
    <3> QED
      BY <3>1, <3>2
  <2>2. \A u \in Thread : pc'[u] = "forceclear" => at'[u] \in Slot \ NeverUsed'
    BY <1>1, <1>4, <1>7 DEF TableInv, HandleInv
  <2> QED
    BY <2>1, <2>2, <1>1, <1>4 DEF TableInv, HandleInv
<1>9. TailInv'
  <2>1. ASSUME NEW i \in NeverUsed', NEW j \in Slot, i < j
        PROVE  j \in NeverUsed'
    <3>1. i \in NeverUsed /\ i \notin hit /\ j \in NeverUsed
      BY <2>1, <1>7 DEF TableInv, TailInv
    <3>2. CASE j \in hit
      <4>1. mine # {} /\ j = k
        BY <3>2 DEF hit
      <4>2. k \notin Valid
        BY <3>1, <4>1 DEF NeverUsed, Valid, Unused
      <4>3. k <= i
        BY <4>1, <4>2, <3>1, <1>3
      <4>4. i \in Nat /\ k \in Nat
        BY <3>1, <4>1 DEF NeverUsed
      <4> QED
        BY <2>1, <4>1, <4>3, <4>4
    <3> QED
      BY <3>1, <3>2, <1>7
  <2>2. listener' = "add" => index' \notin Valid' /\ \A j \in NeverUsed' : index' <= j
    BY <1>1, <1>6, <1>7 DEF TableInv, TailInv
  <2> QED
    BY <2>1, <2>2 DEF TailInv
<1>10. CountInv'
  <2>1. PICK f \in [Valid -> Holding] : Assigns(f)
    BY DEF TableInv, CountInv
  <2>2. \A i \in Valid : f[i] = t => gP2PSession[i].session = h
    BY <2>1 DEF Assigns
  <2>3. CASE k \in Valid /\ mine # {}
    <3> DEFINE g == [j \in Valid \ {k} |-> IF f[j] = t THEN f[k] ELSE f[j]]
    <3>1. Valid' = Valid \ {k}
      BY <2>3, <1>6 DEF hit
    <3>2. \A j \in Valid \ {k} : g[j] \in Holding \ {t}
      BY <2>1, <2>3 DEF Assigns
    <3>3. g \in [Valid' -> Holding']
      BY <3>1, <3>2, <1>4
    <3>4. \A i, j \in Valid' : g[i] = g[j] => i = j
      BY <2>1, <2>3, <3>1 DEF Assigns
    <3>5. ASSUME NEW j \in Valid'
          PROVE  tSession'[g[j]] = gP2PSession'[j].session
      <4>1. j \in Valid \ {k} /\ gP2PSession'[j] = gP2PSession[j]
        BY <2>3, <3>1, <1>5 DEF Valid, hit
      <4>2. CASE f[j] = t
        BY <4>1, <4>2, <2>1, <2>2, <2>3, <1>1, <1>3 DEF Assigns
      <4>3. CASE f[j] # t
        BY <4>1, <4>3, <2>1, <1>1 DEF Assigns
      <4> QED
        BY <4>2, <4>3
    <3> HIDE DEF g
    <3> QED
      BY <3>3, <3>4, <3>5 DEF CountInv, Assigns
  <2>4. CASE k \notin Valid \/ mine = {}
    <3>1. Valid' = Valid
      BY <2>4, <1>6 DEF hit
    <3>2. \A j \in Valid : gP2PSession[j].session # h
      BY <2>4, <1>3 DEF Valid
    <3>3. f \in [Valid' -> Holding']
      BY <3>1, <3>2, <2>2, <1>4
    <3>4. \A j \in Valid : gP2PSession'[j] = gP2PSession[j]
      BY <2>4, <1>5 DEF Valid, hit
    <3> QED
      BY <2>1, <3>1, <3>3, <3>4, <1>1 DEF CountInv, Assigns
  <2> QED
    BY <2>3, <2>4
<1>11. KeptInv'
  <2> SUFFICES ASSUME NEW v \in Holding', owner[tSession[v]] = v, v \notin dropped
               PROVE  \/ \E j \in Valid' : gP2PSession'[j].session = tSession[v]
                      \/ \E u \in Thread : pc'[u] = "close" /\ tSession[u] = tSession[v]
    BY <1>1 DEF KeptInv
  <2>1. v \in Holding /\ v # t
    BY <1>4
  <2>2. CASE tSession[v] = h
    BY <2>2, <1>4
  <2>3. CASE tSession[v] # h
    <3>1. CASE \E j \in Valid : gP2PSession[j].session = tSession[v]
      <4>1. PICK j \in Valid : gP2PSession[j].session = tSession[v]
        BY <3>1
      <4>2. j \notin hit
        BY <4>1, <2>3, <1>5
      <4> QED
        BY <4>1, <4>2, <1>5, <1>6 DEF Valid
    <3>2. CASE \E u \in Thread : pc[u] = "close" /\ tSession[u] = tSession[v]
      BY <3>2, <1>4
    <3> QED
      BY <2>1, <3>1, <3>2 DEF TableInv, KeptInv
  <2> QED
    BY <2>2, <2>3
<1> QED
  BY <1>8, <1>9, <1>10, <1>11 DEF TableInv

-----------------------------------------------------------------------------
(* The phones and the heartbeat change neither entries nor threads, unless  *)
(* the daemon restarts.                                                    *)
LEMMA OutsideStep ==
  ASSUME SessInv, (\E h \in Handle : HangUp(h)) \/ HeartBeat \/ UNCHANGED vars
  PROVE  SessInv'
<1>0. CASE Restart
  BY <1>0, RestartStep
<1> USE DEF table, library, threads, listens, update
<1>1. CASE UNCHANGED vars
  <2>1. TypeOK'
    BY <1>1 DEF SessInv, TypeOK, vars
  <2>2. TableInv'
    BY <1>1, QuietStep DEF vars, Quiet, SessInv, TableInv, HandleInv
  <2> QED
    BY <2>1, <2>2 DEF SessInv
<1>2. CASE \E h \in Handle : HangUp(h)
  <2>1. TypeOK'
    BY <1>2 DEF SessInv, TypeOK, HangUp
  <2>2. TableInv'
    BY <1>2, QuietStep DEF HangUp, Quiet, SessInv, TableInv, HandleInv
  <2> QED
    BY <2>1, <2>2 DEF SessInv
<1>3. CASE /\ ~ (g_get_temp2 + 1 >= HEARTBEATS) /\ g_get_temp2' = g_get_temp2 + 1
           /\ UNCHANGED <<table, library, threads, listens, update>>
  <2>1. TypeOK'
    BY <1>3, Sizes DEF SessInv, TypeOK
  <2>2. TableInv'
    BY <1>3, QuietStep DEF Quiet, SessInv, TableInv, HandleInv
  <2> QED
    BY <2>1, <2>2 DEF SessInv
<1> QED
  BY <1>0, <1>1, <1>2, <1>3 DEF HeartBeat

(* The listener, one action after the other. *)
LEMMA ListenerStep ==
  ASSUME SessInv, Listener
  PROVE  TableInv'
<1> USE DEF table, library, threads, listens, update
<1>1. CASE LoopTop \/ ListenTimeout \/ ListenError
  BY <1>1, QuietStep DEF LoopTop, ListenTimeout, ListenError, Quiet, SessInv, TableInv, HandleInv
<1>2. CASE \E h \in Handle : Accept(h) \/ Reject(h)
  BY <1>2, QuietStep DEF Accept, Reject, Quiet, SessInv, TableInv, HandleInv
<1> QED
  BY <1>1, <1>2, FindStep, AddStep DEF Listener

(* A service thread, one action after the other. *)
LEMMA ServiceStep ==
  ASSUME SessInv, NEW t \in Thread, Service(t)
  PROVE  TableInv'
<1> USE DEF table, library, threads, listens, update
<1>0. /\ pc \in [Thread -> {"none", "auth", "serve", "force", "forceclear", "free", "close"}]
      /\ gP2PSession \in [Slot -> Entry] /\ at \in [Thread -> 0 .. P2P_SESSION_MAX]
  BY DEF SessInv, TypeOK
<1>1. ASSUME UNCHANGED <<gP2PSession, dropped, owner, tSession, listener, hSession, index>>,
             NEW l \in {"auth", "serve", "force", "free"}, pc' = [pc EXCEPT ![t] = l],
             pc[t] \in {"auth", "serve", "force"},
             at' = at \/ at' = [at EXCEPT ![t] = 0]
      PROVE  TableInv'
  <2>1. Quiet
    BY <1>0, <1>1 DEF Quiet, SessInv, TableInv, HandleInv
  <2> QED
    BY <1>1, <2>1, QuietStep DEF SessInv, TableInv, HandleInv
<1>2. CASE AuthOK(t) \/ AuthFail(t)
  BY <1>1, <1>2 DEF AuthOK, AuthFail, Goto, Rest
<1>3. CASE Served(t) \/ StopUpdate(t) \/ StopHalfway(t)
  <2>1. pc' = [pc EXCEPT ![t] = "serve"]
    BY <1>0, <1>3 DEF Served, StopUpdate, StopHalfway
  <2> QED
    BY <1>1, <1>3, <2>1 DEF Served, StopUpdate, StopHalfway, Rest
<1>4. CASE ReadError(t) \/ Undecodable(t) \/ StartUpdate(t)
  BY <1>1, <1>4 DEF ReadError, Undecodable, StartUpdate, Goto, Rest
<1>5. CASE ForceDone(t)
  BY <1>1, <1>5 DEF ForceDone, Goto
<1>6. CASE UpdateDone(t) \/ CloseTwice(t)
  BY <1>6, RestartStep DEF UpdateDone, CloseTwice, SessInv
<1>7. CASE ForceClear(t)
  <2>1. at[t] \in Slot \ NeverUsed
    BY <1>7 DEF ForceClear, SessInv, TableInv, HandleInv
  <2>2. Quiet
    BY <1>7, <1>0 DEF ForceClear, Goto, Quiet, SessInv, TableInv, HandleInv
  <2> QED
    BY <1>7, <2>1, <2>2, DropStep DEF ForceClear, SessInv, TableInv, HandleInv
<1> QED
  BY <1>2, <1>3, <1>4, <1>5, <1>6, <1>7, ForceCloseStep, ReleaseStep, CloseStep DEF Service

\* Whatever the listener, the threads, the phones and the timer do, the invariant
\* holds (p2p_sub_thread_routine, p2p_thread_service, timerHandler).
THEOREM SessInvariant == Spec => []SessInv
<1>1. SessInv /\ [Next]_vars => SessInv'
  <2> SUFFICES ASSUME SessInv, [Next]_vars PROVE SessInv'
    OBVIOUS
  <2>1. CASE Listener
    BY <2>1, ListenerTypes, ListenerStep DEF SessInv
  <2>2. CASE \E t \in Thread : Service(t)
    BY <2>2, ServiceTypes, ServiceStep DEF SessInv
  <2> QED
    BY <2>1, <2>2, OutsideStep DEF Next
<1> QED
  BY <1>1, InitSessInv, PTL DEF Spec

\* The table, the handles and the threads keep their types; the loops stay within
\* the table and the heartbeat below its limit.
THEOREM SessTypeOK == Spec => []TypeOK
<1>1. SessInv => TypeOK
  BY DEF SessInv
<1> QED
  BY <1>1, SessInvariant, PTL

\* However many phones come, are evicted, thrown out or hang up, no entry is left
\* without a thread that will release it, and a connection with two entries has a
\* thread that outlived an earlier connection (addP2PSession, freeP2PSession).
THEOREM SessEntriesAreServed == Spec => []EntriesAreServed
<1>1. SessInv => EntriesAreServed
  <2> SUFFICES ASSUME SessInv, NEW i \in Valid
               PROVE  /\ \E t \in Thread : /\ tSession[t] = gP2PSession[i].session
                                           /\ pc[t] \notin {"none", "close"}
                      /\ \A j \in Valid \ {i} :
                           gP2PSession[j].session = gP2PSession[i].session
                             => \E t \in Outlived : tSession[t] = gP2PSession[i].session
    BY DEF EntriesAreServed
  <2>1. PICK f \in [Valid -> Holding] : Assigns(f)
    BY DEF SessInv, TableInv, CountInv
  <2>2. \A j \in Valid : /\ f[j] \in Thread /\ pc[f[j]] \notin {"none", "close"}
                         /\ f[j] \in Serving /\ tSession[f[j]] = gP2PSession[j].session
    BY <2>1 DEF Assigns, Holding, Serving
  <2>3. ASSUME NEW j \in Valid \ {i}, gP2PSession[j].session = gP2PSession[i].session
        PROVE  \E t \in Outlived : tSession[t] = gP2PSession[i].session
    <3>1. f[i] # f[j]
      BY <2>1 DEF Assigns
    <3>2. f[i] \in Outlived \/ f[j] \in Outlived
      BY <2>2, <2>3, <3>1 DEF Outlived
    <3> QED
      BY <2>2, <2>3, <3>2
  <2> QED
    BY <2>2, <2>3
<1> QED
  BY <1>1, SessInvariant, PTL

\* A phone keeps its entry for as long as its thread serves it, but for the full
\* table, the update and the outlived thread that is about to close its connection
\* (getP2PSessionFreeIndex, freeOtherP2PSession, freeP2PSession).
THEOREM SessServedHasEntry == Spec => []ServedHasEntry
<1>1. SessInv => ServedHasEntry
  <2> SUFFICES ASSUME SessInv, NEW t \in Thread, pc[t] \in {"auth", "serve"},
                      owner[tSession[t]] = t, t \notin dropped
               PROVE  \/ \E i \in Valid : gP2PSession[i].session = tSession[t]
                      \/ \E u \in Outlived : tSession[u] = tSession[t] /\ pc[u] = "close"
    BY DEF ServedHasEntry
  <2>1. t \in Holding
    BY DEF Holding
  <2>2. \A u \in Thread : pc[u] = "close" /\ tSession[u] = tSession[t] => u \in Outlived
    BY DEF Outlived, Serving
  <2> QED
    BY <2>1, <2>2 DEF SessInv, TableInv, KeptInv
<1> QED
  BY <1>1, SessInvariant, PTL
=============================================================================
