------------------------------ MODULE EventFold ------------------------------
(***************************************************************************)
(* What the God View projector promises, without its workers, locks, pages *)
(* and clocks: every event that becomes part of the journal is accounted   *)
(* for exactly once, in id order.                                          *)
(*                                                                         *)
(* The journal is the set of committed event ids.  The projector owns a    *)
(* cursor; everything at or below the cursor is settled for good.  So an   *)
(* event may join the journal only ABOVE the cursor -- an event that joins *)
(* below it would never be read again -- and a fold takes every journalled *)
(* event up to its new cursor, and only those.                             *)
(***************************************************************************)
EXTENDS Naturals

CONSTANTS
    MaxEvents,      \* ids are 1 .. MaxEvents
    Outcomes,       \* what became of a consumed event
    Unread          \* the outcome of an event no fold has consumed

VARIABLES
    log,            \* ids of the committed rows of `events`
    cursor,         \* projector_state.cursor
    outcome         \* per id: Unread, or what its fold did

vars == <<log, cursor, outcome>>

Ids == 1 .. MaxEvents

TypeOK ==
    /\ log \subseteq Ids
    /\ cursor \in 0 .. MaxEvents
    /\ outcome \in [Ids -> Outcomes \cup {Unread}]

Init ==
    /\ log = {}
    /\ cursor = 0
    /\ outcome = [i \in Ids |-> Unread]

(* The transaction of an emitter commits.                                  *)
Append(i) ==
    /\ i \notin log
    /\ i > cursor
    /\ log' = log \cup {i}
    /\ UNCHANGED <<cursor, outcome>>

(* One batch: the events of (cursor, k] get their outcome, no other does.  *)
Fold(k) ==
    /\ k > cursor
    /\ cursor' = k
    /\ outcome' \in [Ids -> Outcomes \cup {Unread}]
    /\ \A i \in Ids :
          IF i \in log /\ cursor < i /\ i <= k
          THEN outcome'[i] \in Outcomes
          ELSE outcome'[i] = outcome[i]
    /\ UNCHANGED log

Next ==
    \/ \E i \in Ids : Append(i)
    \/ \E k \in log : Fold(k)

Spec == Init /\ [][Next]_vars

-----------------------------------------------------------------------------
(* Everything journalled behind the cursor was consumed, and nothing else. *)
ConsumedIsPrefix ==
    \A i \in Ids : outcome[i] # Unread <=> i \in log /\ i <= cursor
=============================================================================
