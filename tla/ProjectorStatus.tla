--------------------------- MODULE ProjectorStatus ---------------------------
(***************************************************************************)
(* GET /projector/status (api/src/projector/status.py): what an operator   *)
(* is told about the projector of module Projector.  It is one SELECT, so  *)
(* a function of the state, not an action.                                 *)
(***************************************************************************)
EXTENDS Projector

CONSTANTS
    LagWarn,        \* PROJECTOR_LAG_WARN_S
    LagCrit,        \* PROJECTOR_LAG_CRIT_S
    Never           \* SQL's NULL: nothing folded yet

ASSUME LagAssumption == LagWarn \in Nat /\ LagCrit \in Nat /\ Never \notin Int

(* COALESCE(max(id), 0) over the rows that are visible.                    *)
MaxEventId == IF Committed = {} THEN 0 ELSE CHOOSE m \in Committed : \A i \in Committed : i <= m

(* The same over the events that have settled, so that the figure reaches  *)
(* zero while new ones wait.                                               *)
Backlog_Settled ==
    LET settled == {i \in Committed : Settled(i, clock)}
    IN  IF settled = {} THEN 0 - cursor
        ELSE (CHOOSE m \in settled : \A i \in settled : i <= m) - cursor
Backlog == MaxEventId - cursor

(* advance_cursor() writes the ts of the last row consumed, in the UPDATE  *)
(* that moves the cursor to its id.                                        *)
LastEventTs == IF cursor = 0 THEN Never ELSE ts[cursor]

LagSeconds == IF LastEventTs = Never THEN Never ELSE clock - LastEventTs

(* lag > warn instead of lag >= warn.                                      *)
HealthLevel_PastWarn ==
    IF LagSeconds = Never THEN "ok"
    ELSE IF LagSeconds >= LagCrit THEN "crit"
    ELSE IF LagSeconds > LagWarn THEN "warn"
    ELSE "ok"
HealthLevel ==
    IF LagSeconds = Never THEN "ok"
    ELSE IF LagSeconds >= LagCrit THEN "crit"
    ELSE IF LagSeconds >= LagWarn THEN "warn"
    ELSE "ok"

-----------------------------------------------------------------------------
(* The runbook (docs/projector-replay.md:202): "Done when backlog reaches  *)
(* 0".  A backlog of zero means that every event committed so far has been *)
(* consumed, once; and it is never negative.                               *)
DrainedWhenDone ==
    /\ Backlog >= 0
    /\ Backlog = 0 => \A i \in Committed : folds[i] = 1

(* status.py: "wall-clock lag behind the newest folded event".  The lag is *)
(* that of an event already folded, but it bounds the age of those that    *)
(* are not: once something has been folded, "ok" means that no event older *)
(* than LagWarn, and whatever the clocks of the emitters are off, waits.   *)
OkBoundsTheWait ==
    HealthLevel = "ok" /\ LastEventTs # Never =>
        \A i \in Committed : folds[i] = 0 => clock - ts[i] < LagWarn + MaxLead + MaxAhead
=============================================================================
