----------------------- MODULE ProjectorStatus_proofs -----------------------
(***************************************************************************)
(* What the status endpoint's figures mean, for every number of workers,   *)
(* events and faults.                                                      *)
(***************************************************************************)
EXTENDS ProjectorStatus, Projector_proofs, WellFoundedInduction

USE DEF Folding, Locking, Goto, journalVars, tableVars, procVars, batchVars, boundVars

(* max(events.id) exists: the journal is finite.                           *)
LEMMA MaxExists ==
    ASSUME NEW T \in SUBSET Ids, T # {}
    PROVE  \E m \in T : \A i \in T : i <= m
<1> DEFINE below == {MaxEvents - i : i \in T}
<1>1. below \subseteq Nat /\ below # {}
  <2>1. \A i \in T : i \in Int /\ i <= MaxEvents
    BY SizesAssumption DEF Ids
  <2>2. \A i \in T : MaxEvents - i \in Nat
    BY <2>1, SizesAssumption
  <2> QED BY <2>2
<1>2. PICK x \in below : \A y \in below : ~(<<y, x>> \in OpToRel(<, Nat))
  BY <1>1, NatLessThanWellFounded, WFMin
<1>3. PICK m \in T : x = MaxEvents - m
  BY <1>2
<1>4. ASSUME NEW i \in T PROVE i <= m
  <2>1. MaxEvents - i \in below /\ MaxEvents - i \in Nat /\ x \in Nat
    BY <1>1
  <2>2. ~(MaxEvents - i < x)
    BY <2>1, <1>2 DEF OpToRel
  <2> QED BY <2>2, <1>3, SizesAssumption DEF Ids
<1> QED BY <1>4

LEMMA MaxEventIdFacts ==
    ASSUME TypeOK
    PROVE  /\ MaxEventId \in 0 .. MaxEvents
           /\ \A i \in Committed : i <= MaxEventId
           /\ MaxEventId > 0 => MaxEventId \in Committed
<1>1. Committed \in SUBSET Ids
  BY DEF Committed
<1>2. CASE Committed = {}
  BY <1>2, SizesAssumption DEF MaxEventId
<1>3. CASE Committed # {}
  <2>1. \E m \in Committed : \A i \in Committed : i <= m
    BY <1>1, <1>3, MaxExists
  <2>2. MaxEventId \in Committed /\ \A i \in Committed : i <= MaxEventId
    BY <2>1, <1>3 DEF MaxEventId
  <2> QED BY <2>2, <1>1, SizesAssumption DEF Ids
<1> QED BY <1>2, <1>3

-----------------------------------------------------------------------------
(* The cursor stands at zero or at an event that was committed.            *)
CursorInv == cursor = 0 \/ cursor \in Committed

LEMMA CursorInvStep ==
    ASSUME Core, CursorInv, [Next]_vars
    PROVE  CursorInv'
<1> USE DEF Committed
<1>1. CASE Tick \/ Reap \/ UNCHANGED vars \/ \E w \in Workers : Start(w) \/ Fault(w)
  BY <1>1 DEF Tick, Reap, vars, Start, Fault, FailBatch, Crash, LoseLockConn, RequestStop, CursorInv
<1>2. CASE Emitter
  <2>1. ASSUME NEW t \in (0 - MaxLead) .. (MaxClock + MaxAhead), Insert(t) PROVE CursorInv'
    <3>1. status[nextId] = "free"
      BY <2>1, SizesAssumption DEF Insert, Core, SequenceInv, Ids
    <3> QED BY <2>1, <3>1 DEF Insert, Core, TypeOK, CursorInv
  <2>2. ASSUME NEW i \in Ids, Close(i, "aborted") \/ Close(i, "committed") PROVE CursorInv'
    <3>1. /\ cursor' = cursor /\ status[i] = "open"
          /\ \A j \in Ids : j # i => status'[j] = status[j]
      BY <2>2 DEF Close, Core, TypeOK
    <3> QED BY <3>1 DEF CursorInv
  <2> QED BY <1>2, <2>1, <2>2 DEF Emitter
<1>3. ASSUME NEW w \in Workers, Step(w) PROVE CursorInv'
  <2>1. CASE CommitBatch(w)
    <3>1. PageInv(w) /\ TypeOK
      BY <2>1 DEF CommitBatch, Core, FoldInv
    <3>2. cursor' \in {cursor, last[w]} /\ status' = status
      BY <2>1 DEF CommitBatch, AdvanceCursor
    <3>3. last[w] = cursor \/ last[w] \in Committed
      BY <3>1 DEF PageInv, TypeOK
    <3> QED BY <3>2, <3>3 DEF CursorInv
  <2>2. CASE \/ AcquireLock(w) \/ Retry(w) \/ Wake(w) \/ SeeStop(w) \/ Exit(w)
             \/ BeginFold(w) \/ LockCursor(w) \/ SelectBatch(w)
    BY <2>2 DEF AcquireLock, Retry, Wake, SeeStop, Exit, BeginFold, LockCursor, SelectBatch, CursorInv
  <2>3. CASE \E i \in Ids, o \in Outcomes : FoldEvent(w, i, o)
    BY <2>3 DEF FoldEvent, CursorInv
  <2> QED BY <1>3, <2>1, <2>2, <2>3 DEF Step
<1> QED BY <1>1, <1>2, <1>3 DEF Next

LEMMA CursorInvHolds == Spec => []CursorInv
<1>1. Init => CursorInv
  BY DEF Init, CursorInv
<1> QED BY <1>1, CoreHolds, CursorInvStep, PTL DEF Spec

(* "Done when backlog reaches 0" (docs/projector-replay.md:202): with      *)
(* emitters that close within the settle window, a backlog of zero means   *)
(* that every committed event was consumed, once.                          *)
THEOREM DrainedWhenDoneHolds ==
    ASSUME MaxOpen + MaxLead < Settle
    PROVE  Spec => []DrainedWhenDone
<1>1. ASSUME Core, Timed, CursorInv PROVE DrainedWhenDone
  <2>1. TypeOK /\ ExactlyOnce
    BY <1>1 DEF Core, Timed
  <2>2. /\ MaxEventId \in 0 .. MaxEvents /\ cursor \in 0 .. MaxEvents
        /\ \A i \in Committed : i <= MaxEventId
    BY <2>1, MaxEventIdFacts DEF TypeOK
  <2>3. cursor <= MaxEventId
    BY <1>1, <2>2, SizesAssumption DEF CursorInv
  <2>4. ASSUME Backlog = 0, NEW i \in Committed PROVE folds[i] = 1
    <3>1. i <= cursor
      BY <2>2, <2>4, SizesAssumption DEF Backlog
    <3> QED BY <3>1, <2>1 DEF ExactlyOnce, Committed
  <2> QED BY <2>2, <2>3, <2>4, SizesAssumption DEF DrainedWhenDone, Backlog
<1> QED BY <1>1, TimedHolds, CursorInvHolds, PTL

-----------------------------------------------------------------------------
(* An event's ts follows its INSERT by no more than MaxAhead.              *)
AheadInv == \A i \in Ids : i < nextId => ts[i] <= born[i] + MaxAhead

LEMMA AheadInvStep ==
    ASSUME Core, AheadInv, [Next]_vars
    PROVE  AheadInv'
<1>1. CASE UNCHANGED <<nextId, ts, born>>
  BY <1>1 DEF AheadInv
<1>2. ASSUME NEW t \in (0 - MaxLead) .. (MaxClock + MaxAhead), Insert(t) PROVE AheadInv'
  <2>1. /\ nextId \in Ids /\ nextId' = nextId + 1 /\ t <= clock + MaxAhead
        /\ ts' = [ts EXCEPT ![nextId] = t] /\ born' = [born EXCEPT ![nextId] = clock]
    BY <1>2 DEF Insert
  <2>2. ASSUME NEW i \in Ids, i < nextId' PROVE ts'[i] <= born'[i] + MaxAhead
    <3>1. CASE i = nextId
      BY <2>1, <3>1 DEF Core, TypeOK
    <3>2. CASE i # nextId
      <4>1. i < nextId
        BY <2>1, <2>2, <3>2, SizesAssumption DEF Ids
      <4> QED BY <4>1, <3>2, <2>1 DEF AheadInv, Core, TypeOK
    <3> QED BY <3>1, <3>2
  <2> QED BY <2>2 DEF AheadInv
<1>3. ASSUME NEW i \in Ids, Close(i, "committed") \/ Close(i, "aborted") PROVE AheadInv'
  BY <1>1, <1>3 DEF Close
<1>4. ASSUME NEW w \in Workers, Start(w) \/ Step(w) \/ Fault(w) PROVE AheadInv'
  <2>1. UNCHANGED <<nextId, ts, born>>
    BY <1>4 DEF Start, Step, Fault, AcquireLock, Retry, Wake, SeeStop, Exit, BeginFold, LockCursor,
       SelectBatch, FoldEvent, CommitBatch, FailBatch, Crash, LoseLockConn, RequestStop
  <2> QED BY <2>1, <1>1
<1>5. CASE Tick \/ Reap \/ UNCHANGED vars
  BY <1>1, <1>5 DEF Tick, Reap, vars
<1> QED BY <1>2, <1>3, <1>4, <1>5 DEF Next, Emitter

LEMMA AheadInvHolds == Spec => []AheadInv
<1>1. Init => AheadInv
  BY SizesAssumption DEF Init, AheadInv, Ids
<1> QED BY <1>1, CoreHolds, AheadInvStep, PTL DEF Spec

(* "wall-clock lag behind the newest folded event" (status.py:5) bounds    *)
(* the age of what is not folded yet: ids are handed out in the order of   *)
(* the INSERTs, so an unfolded event was not inserted before the last one  *)
(* that was folded.                                                        *)
THEOREM OkBoundsTheWaitHolds ==
    ASSUME MaxOpen + MaxLead < Settle
    PROVE  Spec => []OkBoundsTheWait
<1>1. ASSUME Core, Timed, CursorInv, AheadInv PROVE OkBoundsTheWait
  <2> SUFFICES ASSUME HealthLevel = "ok", LastEventTs # Never, NEW i \in Committed, folds[i] = 0
               PROVE  clock - ts[i] < LagWarn + MaxLead + MaxAhead
    BY DEF OkBoundsTheWait
  <2>1. TypeOK /\ ExactlyOnce /\ BornInv /\ SequenceInv
    BY <1>1 DEF Core, Timed
  <2>2. cursor \in Committed /\ cursor \in Ids /\ i \in Ids /\ LastEventTs = ts[cursor]
    BY <1>1 DEF CursorInv, LastEventTs, Committed
  <2>3. cursor < i
    BY <2>1, <2>2, SizesAssumption DEF ExactlyOnce, Committed, Ids
  <2>4. i < nextId /\ cursor < nextId
    BY <2>1, <2>2, SizesAssumption DEF SequenceInv, Committed, TypeOK, Ids
  <2>5. /\ ts[i] \in Int /\ ts[cursor] \in Int /\ clock \in Int
        /\ born[i] \in Int /\ born[cursor] \in Int
    BY <2>1, <2>2, TimesAssumption DEF TypeOK, Time
  <2>6. /\ born[cursor] <= born[i] /\ born[i] <= ts[i] + MaxLead
        /\ ts[cursor] <= born[cursor] + MaxAhead
    BY <1>1, <2>1, <2>2, <2>3, <2>4 DEF BornInv, AheadInv
  <2>7. clock - ts[cursor] < LagWarn
    BY <2>2, <2>5, LagAssumption DEF HealthLevel, LagSeconds
  <2> QED BY <2>5, <2>6, <2>7, TimesAssumption, LagAssumption
<1> QED BY <1>1, TimedHolds, CursorInvHolds, AheadInvHolds, PTL

============================================================================
