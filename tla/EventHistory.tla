----------------------------- MODULE EventHistory -----------------------------
(***************************************************************************)
(* What the event log promises to whoever asks it for a range of times,    *)
(* without files, lists or counters: it is a set of events, told apart by  *)
(* the order in which they were reported.  It gains the event reported,    *)
(* loses its oldest events to make room, loses at most a few of the newest *)
(* when the daemon dies, and is emptied on request.  Nothing disappears    *)
(* from the middle, and nothing that is gone comes back.                   *)
(***************************************************************************)
EXTENDS Naturals, FiniteSets

CONSTANTS Expiring,       \* how many of the oldest events may go at once
          Forgetting      \* how many of the newest a death may cost

VARIABLES known,          \* the events the log can still show
          last            \* the event reported last; 0: none yet

historyVars == <<known, last>>

HistoryInit == known = {} /\ last = 0

\* A report is added.
Record ==
  /\ last' = last + 1
  /\ known' = known \cup {last'}

\* The oldest events go, a limited number of them.
Expire ==
  \E gone \in SUBSET known :
    /\ Cardinality(gone) <= Expiring
    /\ \A e \in gone, f \in known \ gone : e < f
    /\ known' = known \ gone
    /\ UNCHANGED last

\* The daemon dies: the newest events may be forgotten, a limited number.
Forget ==
  \E gone \in SUBSET known :
    /\ Cardinality(gone) <= Forgetting
    /\ \A e \in gone, f \in known \ gone : e > f
    /\ known' = known \ gone
    /\ UNCHANGED last

\* The user clears the log.
Clear == known' = {} /\ UNCHANGED last

HistoryNext == Record \/ Expire \/ Forget \/ Clear

HistorySpec == HistoryInit /\ [][HistoryNext]_historyVars
=============================================================================
