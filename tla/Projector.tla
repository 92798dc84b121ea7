------------------------------ MODULE Projector ------------------------------
(***************************************************************************)
(* The God View projector: worker processes that fold the append-only      *)
(* `events` journal into the summary tables, one batch per transaction     *)
(* (api/src/projector/{worker,lock,fold,cursor,__main__}.py).              *)
(*                                                                         *)
(* Three kinds of actor interleave:                                        *)
(*   - emitters, whose transactions allocate an id from the bigserial      *)
(*     sequence, stay open for a while and commit or abort in any order;   *)
(*   - workers, which hold a session advisory lock on a connection of      *)
(*     their own and fold through other, pooled connections;               *)
(*   - the failures of processes and connections, and the server noticing  *)
(*     them late.                                                          *)
(* What a handler writes is abstracted to an outcome per event; what       *)
(* matters here is which events a committed batch accounts for.            *)
(*                                                                         *)
(* A definition named Op_Something is a mistake one could make in Op.  No  *)
(* specification uses it: it is there to be put in Op's place, to see that *)
(* a property notices.                                                     *)
(***************************************************************************)
EXTENDS Integers, FiniteSets

CONSTANTS
    Workers,        \* processes that may run `python -m src.projector`
    None,           \* nobody owns the lock
    Orphan,         \* owner of a lock whose client is gone, until the server notices
    MaxEvents,      \* bound: ids 1 .. MaxEvents
    Outcomes,       \* the ways a consumed event may end that an instance tells apart
    BatchSize,      \* PROJECTOR_BATCH_SIZE
    Settle,         \* PROJECTOR_SETTLE_MS, in ticks of the clock
    MaxOpen,        \* longest time an emitter's transaction stays open after its INSERT
    MaxLead,        \* longest time by which an event's ts precedes its INSERT
    MaxAhead,       \* longest time by which an event's ts follows its INSERT
    MaxClock,       \* bound on the clock
    MaxFaults,      \* bound on process deaths and failed batches
    MaxLosses,      \* bound on lost lock connections
    MaxStops        \* bound on SIGTERMs

ASSUME WorkersAssumption == None \notin Workers /\ Orphan \notin Workers /\ None # Orphan
ASSUME SizesAssumption == MaxEvents \in Nat /\ BatchSize \in Nat \ {0}
ASSUME OutcomesAssumption == Outcomes \subseteq {"folded", "noop", "missed", "skipped", "late"}
ASSUME TimesAssumption ==
    /\ Settle \in Nat /\ MaxOpen \in Nat /\ MaxLead \in Nat /\ MaxAhead \in Nat
    /\ MaxClock \in Nat
ASSUME BoundsAssumption == MaxFaults \in Nat /\ MaxLosses \in Nat /\ MaxStops \in Nat

VARIABLES
    clock,          \* now() of the database server
    nextId,         \* events_id_seq: the next id it hands out
    status,         \* per id: "free", or the state of the transaction that inserted it
    born,           \* per id: the clock at its INSERT
    ts,             \* per id: events.ts
    cursor,         \* projector_state.cursor
    rowLock,        \* the transaction that locked the projector_state row
    outcome,        \* per id: what the committed folds made of the event
    folds,          \* per id: how many committed batches consumed it
    advisory,       \* the session that holds the advisory lock
    pc,             \* per worker: where ProjectorWorker.run() stands
    holdsLock,      \* per worker: _holds_lock
    connUp,         \* per worker: its lock connection is alive
    stop,           \* per worker: the _stop event is set
    fnow,           \* per worker: now() in its fold transaction, the time of its BEGIN
    batch,          \* per worker: the ids of the page it selected
    last,           \* per worker: last_id
    pending,        \* per worker: outcomes of its uncommitted batch
    faults, losses, stops

journalVars == <<nextId, status, born, ts>>
tableVars   == <<cursor, outcome, folds>>
procVars    == <<holdsLock, connUp, stop>>
batchVars   == <<fnow, batch, last, pending>>
boundVars   == <<faults, losses, stops>>
vars == <<clock, journalVars, tableVars, rowLock, advisory, pc, procVars, batchVars, boundVars>>

-----------------------------------------------------------------------------
Ids == 1 .. MaxEvents
Time == 0 .. MaxClock

(* The ways an event of a batch can end.  folded: its handler ran; noop:   *)
(* no handler is registered; missed: a parent row is absent and the audit  *)
(* says projector.resolve_miss; skipped: the handler raised and the audit  *)
(* says projector.skip; late: the handler ran, but the back-stamp or the   *)
(* exposure derivation after it raised (projector.skip too).               *)
Unread == "unread"

Ended == {"down", "exit"}               \* outside run()
Folding == {"begin", "select", "fold"}  \* inside fold_batch's transaction
Locking == {"select", "fold"}           \* past read_cursor_for_update

PCs == Ended \cup Folding \cup {"acquire", "retry", "drain", "sleep"}

TypeOK ==
    /\ clock \in Time
    /\ nextId \in 1 .. MaxEvents + 1
    /\ status \in [Ids -> {"free", "open", "committed", "aborted"}]
    /\ born \in [Ids -> Time]
    /\ ts \in [Ids -> Int]
    /\ cursor \in 0 .. MaxEvents
    /\ rowLock \in Workers \cup {None, Orphan}
    /\ outcome \in [Ids -> Outcomes \cup {Unread}]
    /\ folds \in [Ids -> Nat]
    /\ advisory \in Workers \cup {None, Orphan}
    /\ pc \in [Workers -> PCs]
    /\ holdsLock \in [Workers -> BOOLEAN]
    /\ connUp \in [Workers -> BOOLEAN]
    /\ stop \in [Workers -> BOOLEAN]
    /\ fnow \in [Workers -> Time]
    /\ batch \in [Workers -> SUBSET Ids]
    /\ last \in [Workers -> 0 .. MaxEvents]
    /\ pending \in [Workers -> [Ids -> Outcomes \cup {Unread}]]
    /\ faults \in 0 .. MaxFaults /\ losses \in 0 .. MaxLosses /\ stops \in 0 .. MaxStops

NoOutcome == [i \in Ids |-> Unread]

Init ==
    /\ clock = 0
    /\ nextId = 1
    /\ status = [i \in Ids |-> "free"]
    /\ born = [i \in Ids |-> 0]
    /\ ts = [i \in Ids |-> 0]
    /\ cursor = 0
    /\ rowLock = None
    /\ outcome = NoOutcome
    /\ folds = [i \in Ids |-> 0]
    /\ advisory = None
    /\ pc = [w \in Workers |-> "down"]
    /\ holdsLock = [w \in Workers |-> FALSE]
    /\ connUp = [w \in Workers |-> FALSE]
    /\ stop = [w \in Workers |-> FALSE]
    /\ fnow = [w \in Workers |-> 0]
    /\ batch = [w \in Workers |-> {}]
    /\ last = [w \in Workers |-> 0]
    /\ pending = [w \in Workers |-> NoOutcome]
    /\ faults = 0 /\ losses = 0 /\ stops = 0

-----------------------------------------------------------------------------
(* The journal and its emitters.                                           *)

(* now() of the database.  An emitter's transaction that has been open for *)
(* MaxOpen ends before the clock moves on: MaxOpen is the environment's    *)
(* promise, and the runs give it values that keep and that break it.       *)
Tick ==
    /\ clock < MaxClock
    /\ \A i \in Ids : status[i] = "open" => clock < born[i] + MaxOpen
    /\ clock' = clock + 1
    /\ UNCHANGED <<journalVars, tableVars, rowLock, advisory, pc, procVars, batchVars, boundVars>>

(* INSERT INTO events: the sequence hands out the id at once, whatever     *)
(* becomes of the transaction.  ts is the time the transaction began (the  *)
(* column's default) or one the client computed.  The guard on the clock   *)
(* leaves room under MaxClock for the event to settle.                     *)
Insert(t) ==
    /\ nextId \in Ids
    /\ clock + MaxAhead + Settle <= MaxClock
    /\ clock <= t + MaxLead
    /\ t <= clock + MaxAhead
    /\ nextId' = nextId + 1
    /\ status' = [status EXCEPT ![nextId] = "open"]
    /\ born' = [born EXCEPT ![nextId] = clock]
    /\ ts' = [ts EXCEPT ![nextId] = t]
    /\ UNCHANGED <<clock, tableVars, rowLock, advisory, pc, procVars, batchVars, boundVars>>

(* The emitter's transaction ends; only a committed row is ever visible.   *)
Close(i, how) ==
    /\ status[i] = "open"
    /\ status' = [status EXCEPT ![i] = how]
    /\ UNCHANGED <<clock, nextId, born, ts, tableVars, rowLock, advisory, pc, procVars,
                   batchVars, boundVars>>

-----------------------------------------------------------------------------
(* The worker's life outside a batch: run() and its lock.                  *)

Goto(w, label) == pc' = [pc EXCEPT ![w] = label]

(* _main(): a fresh process with a fresh lock connection.                  *)
Start(w) ==
    /\ pc[w] = "down"
    /\ Goto(w, "acquire")
    /\ holdsLock' = [holdsLock EXCEPT ![w] = FALSE]
    /\ connUp' = [connUp EXCEPT ![w] = TRUE]
    /\ stop' = [stop EXCEPT ![w] = FALSE]
    /\ UNCHANGED <<clock, journalVars, tableVars, rowLock, advisory, batchVars, boundVars>>

(* The answer of pg_try_advisory_lock is not looked at.                    *)
AcquireLock_Ignored(w) ==
    /\ pc[w] = "acquire" /\ ~stop[w]
    /\ advisory' = IF advisory = None THEN w ELSE advisory
    /\ holdsLock' = [holdsLock EXCEPT ![w] = TRUE]
    /\ Goto(w, "drain")
    /\ UNCHANGED <<clock, journalVars, tableVars, rowLock, connUp, stop, batchVars, boundVars>>

(* pg_try_advisory_lock on the dedicated connection.  On a dead connection *)
(* the call raises and run() ends through its finally.                     *)
AcquireLock(w) ==
    /\ pc[w] = "acquire" /\ ~stop[w]
    /\ \/ /\ connUp[w] /\ advisory = None
          /\ advisory' = w
          /\ holdsLock' = [holdsLock EXCEPT ![w] = TRUE]
          /\ Goto(w, "drain")
       \/ /\ connUp[w] /\ advisory # None
          /\ Goto(w, "retry")
          /\ UNCHANGED <<advisory, holdsLock>>
       \/ /\ ~connUp[w]
          /\ Goto(w, "exit")
          /\ UNCHANGED <<advisory, holdsLock>>
    /\ UNCHANGED <<clock, journalVars, tableVars, rowLock, connUp, stop, batchVars, boundVars>>

(* _sleep(poll) after a failed acquire; a stop wakes it at once.           *)
Retry(w) ==
    /\ pc[w] = "retry"
    /\ Goto(w, "acquire")
    /\ UNCHANGED <<clock, journalVars, tableVars, rowLock, advisory, procVars, batchVars, boundVars>>

(* _sleep(poll) between two drains.                                        *)
Wake(w) ==
    /\ pc[w] = "sleep"
    /\ Goto(w, "drain")
    /\ UNCHANGED <<clock, journalVars, tableVars, rowLock, advisory, procVars, batchVars, boundVars>>

(* The loops test _stop at their heads and leave run().                    *)
SeeStop(w) ==
    /\ pc[w] \in {"acquire", "drain"} /\ stop[w]
    /\ Goto(w, "exit")
    /\ UNCHANGED <<clock, journalVars, tableVars, rowLock, advisory, procVars, batchVars, boundVars>>

(* The session that holds the lock outlives run().                         *)
Exit_KeepsLock(w) ==
    /\ pc[w] = "exit"
    /\ Goto(w, "down")
    /\ holdsLock' = [holdsLock EXCEPT ![w] = FALSE]
    /\ connUp' = [connUp EXCEPT ![w] = FALSE]
    /\ UNCHANGED <<clock, journalVars, tableVars, rowLock, advisory, stop, batchVars, boundVars>>

(* The finally of run() releases the lock if _holds_lock says so, then     *)
(* _main() closes the dedicated connection, which frees it in any case.    *)
Exit(w) ==
    /\ pc[w] = "exit"
    /\ Goto(w, "down")
    /\ advisory' = IF advisory = w THEN None ELSE advisory
    /\ holdsLock' = [holdsLock EXCEPT ![w] = FALSE]
    /\ connUp' = [connUp EXCEPT ![w] = FALSE]
    /\ UNCHANGED <<clock, journalVars, tableVars, rowLock, stop, batchVars, boundVars>>

-----------------------------------------------------------------------------
(* One batch: fold_once() and fold_batch().                                *)

(* The settle boundary taken once, at the first batch.                     *)
BeginFold_OldNow(w) ==
    /\ pc[w] = "drain" /\ ~stop[w]
    /\ Goto(w, "begin")
    /\ fnow' = [fnow EXCEPT ![w] = 0]
    /\ UNCHANGED <<clock, journalVars, tableVars, rowLock, advisory, procVars, batch, last,
                   pending, boundVars>>

(* BEGIN on a pooled connection: now() is fixed here for the whole batch,  *)
(* before the wait for the row lock.  drain() looks at _stop first; nobody *)
(* looks at the advisory lock again.                                       *)
BeginFold(w) ==
    /\ pc[w] = "drain" /\ ~stop[w]
    /\ Goto(w, "begin")
    /\ fnow' = [fnow EXCEPT ![w] = clock]
    /\ UNCHANGED <<clock, journalVars, tableVars, rowLock, advisory, procVars, batch, last,
                   pending, boundVars>>

(* SELECT cursor without FOR UPDATE.                                       *)
LockCursor_NoLock(w) ==
    /\ pc[w] = "begin"
    /\ rowLock' = w
    /\ last' = [last EXCEPT ![w] = cursor]
    /\ Goto(w, "select")
    /\ UNCHANGED <<clock, journalVars, tableVars, advisory, procVars, fnow, batch, pending, boundVars>>

(* SELECT cursor ... FOR UPDATE: waits for the row lock, then reads the    *)
(* row as it is at that moment.                                            *)
LockCursor(w) ==
    /\ pc[w] = "begin"
    /\ rowLock = None
    /\ rowLock' = w
    /\ last' = [last EXCEPT ![w] = cursor]
    /\ Goto(w, "select")
    /\ UNCHANGED <<clock, journalVars, tableVars, advisory, procVars, fnow, batch, pending, boundVars>>

(* SELECT * FROM events WHERE id > $1 ORDER BY id ASC LIMIT $2: a fresh    *)
(* snapshot, taken once the row lock is held.                              *)
Visible(c) == {i \in Ids : status[i] = "committed" /\ i > c}
Page(c) == {i \in Visible(c) : Cardinality({j \in Visible(c) : j < i}) < BatchSize}

SelectBatch(w) ==
    /\ pc[w] = "select"
    /\ \/ /\ Page(last[w]) # {}
          /\ batch' = [batch EXCEPT ![w] = Page(last[w])]
          /\ Goto(w, "fold")
          /\ UNCHANGED rowLock
       \/ /\ Page(last[w]) = {}
          /\ rowLock' = None
          /\ Goto(w, "sleep")
          /\ UNCHANGED batch
    /\ UNCHANGED <<clock, journalVars, tableVars, advisory, procVars, fnow, last, pending, boundVars>>

(* The next row of the page, and the test against the stop boundary.       *)
NextRow(w, i) ==
    /\ i \in batch[w] /\ i > last[w]
    /\ \A j \in batch[w] : j > last[w] => i <= j
Settled_AtOnce(i, t) == ts[i] <= t
Settled(i, t) == ts[i] + Settle <= t

(* A settle window applied as a filter over the page, the design that the  *)
(* stop boundary replaced.                                                 *)
FoldEvent_Filter(w, i, o) ==
    /\ pc[w] = "fold"
    /\ i \in batch[w] /\ i > last[w] /\ Settled(i, fnow[w])
    /\ \A j \in batch[w] : j > last[w] /\ Settled(j, fnow[w]) => i <= j
    /\ pending' = [pending EXCEPT ![w][i] = o]
    /\ last' = [last EXCEPT ![w] = i]
    /\ UNCHANGED <<clock, journalVars, tableVars, rowLock, advisory, pc, procVars, fnow, batch,
                   boundVars>>

(* One event in its savepoint: the handler's writes stand or are rolled    *)
(* back and audited; either way the event is consumed.                     *)
FoldEvent(w, i, o) ==
    /\ pc[w] = "fold"
    /\ NextRow(w, i)
    /\ Settled(i, fnow[w])
    /\ pending' = [pending EXCEPT ![w][i] = o]
    /\ last' = [last EXCEPT ![w] = i]
    /\ UNCHANGED <<clock, journalVars, tableVars, rowLock, advisory, pc, procVars, fnow, batch,
                   boundVars>>

Consumed(w) == {i \in Ids : pending[w][i] # Unread}
Processed(w) == Cardinality(Consumed(w))

(* drain(): a page that is not full means caught up.  The no-ops count     *)
(* among the processed, or a page of unmapped traffic would look partial.  *)
PartialPage_Handled(w) == Cardinality({i \in Consumed(w) : pending[w][i] # "noop"}) < BatchSize
PartialPage(w) == Processed(w) < BatchSize

AtBoundary(w) == \A i \in Ids : NextRow(w, i) => ~Settled(i, fnow[w])

(* advance_cursor: WHERE id = 1 AND cursor < $1.                           *)
AdvanceCursor_Beyond(w) == cursor' = last[w] + 1
AdvanceCursor(w) == cursor' = IF cursor < last[w] THEN last[w] ELSE cursor

ForgetBatch(w) ==
    /\ batch' = [batch EXCEPT ![w] = {}]
    /\ pending' = [pending EXCEPT ![w] = NoOutcome]

(* The cursor set to the last row of the page, not to the last consumed.   *)
CommitBatch_WholePage(w) ==
    /\ pc[w] = "fold" /\ AtBoundary(w)
    /\ \E k \in batch[w] : (\A j \in batch[w] : j <= k) /\ cursor' = k
    /\ outcome' = [i \in Ids |-> IF i \in Consumed(w) THEN pending[w][i] ELSE outcome[i]]
    /\ folds' = [i \in Ids |-> IF i \in Consumed(w) THEN folds[i] + 1 ELSE folds[i]]
    /\ Goto(w, IF PartialPage(w) THEN "sleep" ELSE "drain")
    /\ rowLock' = None
    /\ ForgetBatch(w)
    /\ UNCHANGED <<clock, journalVars, advisory, procVars, fnow, last, boundVars>>

(* End of the page or the stop boundary: the upserts, the audit rows and   *)
(* the cursor commit together, and drain() decides on a full page.         *)
CommitBatch(w) ==
    /\ pc[w] = "fold" /\ AtBoundary(w)
    /\ IF Processed(w) > 0 THEN AdvanceCursor(w) ELSE UNCHANGED cursor
    /\ outcome' = [i \in Ids |-> IF i \in Consumed(w) THEN pending[w][i] ELSE outcome[i]]
    /\ folds' = [i \in Ids |-> IF i \in Consumed(w) THEN folds[i] + 1 ELSE folds[i]]
    /\ Goto(w, IF PartialPage(w) THEN "sleep" ELSE "drain")
    /\ rowLock' = None
    /\ ForgetBatch(w)
    /\ UNCHANGED <<clock, journalVars, advisory, procVars, fnow, last, boundVars>>

-----------------------------------------------------------------------------
(* What goes wrong.                                                        *)

(* The server side of a broken connection goes away at once or later.      *)
Drop(lock, w) == IF lock = w THEN {None, Orphan} ELSE {lock}

(* An exception that leaves fold_batch (the pooled connection fails, an    *)
(* audit INSERT fails): the transaction is rolled back and run() ends      *)
(* through its finally.                                                    *)
FailBatch(w) ==
    /\ faults < MaxFaults
    /\ pc[w] \in Folding
    /\ rowLock' \in Drop(rowLock, w)
    /\ Goto(w, "exit")
    /\ ForgetBatch(w)
    /\ faults' = faults + 1
    /\ UNCHANGED <<clock, journalVars, tableVars, advisory, procVars, fnow, last, losses, stops>>

(* SIGKILL, out of memory, loss of the host: both connections break.       *)
Crash(w) ==
    /\ faults < MaxFaults
    /\ pc[w] # "down"
    /\ Goto(w, "down")
    /\ rowLock' \in Drop(rowLock, w)
    /\ advisory' \in Drop(advisory, w)
    /\ holdsLock' = [holdsLock EXCEPT ![w] = FALSE]
    /\ connUp' = [connUp EXCEPT ![w] = FALSE]
    /\ ForgetBatch(w)
    /\ faults' = faults + 1
    /\ UNCHANGED <<clock, journalVars, tableVars, stop, fnow, last, losses, stops>>

(* The lock connection breaks (idle timeout on the way, backend            *)
(* terminated) while the process and its pool live on.                     *)
LoseLockConn(w) ==
    /\ losses < MaxLosses
    /\ pc[w] # "down" /\ connUp[w]
    /\ connUp' = [connUp EXCEPT ![w] = FALSE]
    /\ advisory' \in Drop(advisory, w)
    /\ losses' = losses + 1
    /\ UNCHANGED <<clock, journalVars, tableVars, rowLock, pc, holdsLock, stop, batchVars,
                   faults, stops>>

(* The server notices a broken connection: its locks go, its transaction   *)
(* is rolled back.                                                         *)
Reap ==
    \/ /\ rowLock = Orphan
       /\ rowLock' = None
       /\ UNCHANGED <<clock, journalVars, tableVars, advisory, pc, procVars, batchVars, boundVars>>
    \/ /\ advisory = Orphan
       /\ advisory' = None
       /\ UNCHANGED <<clock, journalVars, tableVars, rowLock, pc, procVars, batchVars, boundVars>>

(* SIGTERM or SIGINT: the handler only sets the event.                     *)
RequestStop(w) ==
    /\ stops < MaxStops
    /\ pc[w] \notin Ended /\ ~stop[w]
    /\ stop' = [stop EXCEPT ![w] = TRUE]
    /\ stops' = stops + 1
    /\ UNCHANGED <<clock, journalVars, tableVars, rowLock, advisory, pc, holdsLock, connUp,
                   batchVars, faults, losses>>

-----------------------------------------------------------------------------
Emitter ==
    \/ \E t \in (0 - MaxLead) .. (MaxClock + MaxAhead) : Insert(t)
    \/ \E i \in Ids : Close(i, "committed")
    \/ \E i \in Ids : Close(i, "aborted")

(* Every step a live worker takes of its own accord.                       *)
Step(w) ==
    \/ AcquireLock(w) \/ Retry(w) \/ Wake(w) \/ SeeStop(w) \/ Exit(w)
    \/ BeginFold(w) \/ LockCursor(w) \/ SelectBatch(w)
    \/ \E i \in Ids, o \in Outcomes : FoldEvent(w, i, o)
    \/ CommitBatch(w)

Fault(w) == FailBatch(w) \/ Crash(w) \/ LoseLockConn(w) \/ RequestStop(w)

Next ==
    \/ Tick
    \/ Emitter
    \/ \E w \in Workers : Start(w)
    \/ \E w \in Workers : Step(w)
    \/ \E w \in Workers : Fault(w)
    \/ Reap

Spec == Init /\ [][Next]_vars

(* Fairness.  A worker is a loop that only awaits the database, and waits  *)
(* for the row lock in the server's queue (hence SF); the container        *)
(* restarts a process that died but not one that was told to stop; the     *)
(* server reaps broken connections; time passes; a transaction ends.       *)
Fairness ==
    /\ \A w \in Workers :
          /\ WF_vars(Step(w))
          /\ SF_vars(LockCursor(w))
          /\ WF_vars(~stop[w] /\ Start(w))
    /\ WF_vars(Reap)
    /\ WF_vars(Tick)
    /\ \A i \in Ids : WF_vars(Close(i, "committed") \/ Close(i, "aborted"))

FairSpec == Spec /\ Fairness

-----------------------------------------------------------------------------
(* At-least-once (fold.py: "a held-back low-id event is never jumped       *)
(* over"): the cursor never stands at or above an event that may still     *)
(* commit, because nobody would read that event again.                     *)
NoEventJumped == \A i \in Ids : i <= cursor => status[i] \in {"committed", "aborted"}

(* A committed event at or below the cursor was consumed by exactly one    *)
(* committed batch, and no other event by any: the writes of a batch and   *)
(* the cursor advance stand or fall together.                              *)
ExactlyOnce ==
    \A i \in Ids : folds[i] = IF status[i] = "committed" /\ i <= cursor THEN 1 ELSE 0

(* What remains of it whatever the emitters and the lock connection do: no *)
(* event is projected or audited twice, none above the cursor.             *)
NeverTwice ==
    \A i \in Ids : folds[i] <= 1 /\ (folds[i] = 1 => i <= cursor /\ outcome[i] # Unread)

(* A batch works on the cursor as it is: the row lock keeps everyone else  *)
(* from moving it between the read and the commit.                         *)
BatchOnCursor ==
    \A w \in Workers : pc[w] \in Locking =>
        /\ rowLock = w
        /\ \A i \in Ids : i > cursor /\ i <= last[w] /\ status[i] = "committed" =>
               pending[w][i] # Unread

(* worker.py: "never two folders at once (single-writer)".                 *)
SingleWriter == \A v, w \in Workers : pc[v] \in Folding /\ pc[w] \in Folding => v = w

(* drain() idles only when it is caught up: whatever had settled, with     *)
(* everything before it, when the batch began is behind the cursor when    *)
(* the worker goes to sleep.                                               *)
CaughtUp(w, t) ==
    \A i \in Ids :
        (\A j \in 1 .. i : status[j] = "committed" => Settled(j, t)) /\ status[i] = "committed"
            => i <= cursor
IdlesOnlyWhenCaughtUp ==
    [][\A w \in Workers : pc[w] \in Locking /\ pc'[w] = "sleep" => CaughtUp(w, fnow[w])']_vars

(* Every committed event is consumed, through crashes, fail-over and late  *)
(* reaping, unless every worker has been told to stop.                     *)
EveryEventConsumed ==
    \A i \in Ids : status[i] = "committed" ~> (folds[i] > 0 \/ \A w \in Workers : stop[w])

(* A worker told to stop ends, and its lock is free for the next one.      *)
StopReleasesLock ==
    \A w \in Workers : stop[w] ~> (pc[w] = "down" /\ advisory # w)

(* The projector implements the abstract fold.                             *)
Committed == {i \in Ids : status[i] = "committed"}
Abstract == INSTANCE EventFold WITH log <- Committed
FoldsEvents == Abstract!Spec
=============================================================================
