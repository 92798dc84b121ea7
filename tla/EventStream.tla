---------------------------- MODULE EventStream ----------------------------
(***************************************************************************)
(* The live feed: GET /events/stream (api/src/main.py) and the browser     *)
(* that listens to it (frontend/src/App.tsx).                              *)
(*                                                                         *)
(* The server sends the newest rows of `events`, then polls once a second  *)
(* for rows with ts > last_ts.  ts is taken when an emitter's transaction  *)
(* begins and the row is visible when it commits, so rows become visible   *)
(* in an order that is not the order of ts.  EventSource reconnects by     *)
(* itself, to a generator that knows nothing of the one before.            *)
(*                                                                         *)
(* A row the server yields and the browser receives is one step.  Rows     *)
(* that are in the socket when the connection breaks are as good as never  *)
(* yielded: the generator's state dies with its connection.                *)
(*                                                                         *)
(* A definition named Op_Something is a mistake one could make in Op.  No  *)
(* specification uses it: it is there to be put in Op's place, to see that *)
(* a property notices.                                                     *)
(***************************************************************************)
EXTENDS Integers, Sequences, FiniteSets

CONSTANTS
    Events,         \* the rows that emitters may insert
    Recent,         \* LIMIT of the first page (20)
    FeedCap,        \* rows the browser keeps (200)
    MaxLead,        \* longest time by which ts precedes the INSERT
    MaxClock,       \* bound on the clock
    MaxDrops        \* bound on broken connections

ASSUME StreamAssumption ==
    /\ IsFiniteSet(Events)
    /\ Recent \in Nat \ {0} /\ FeedCap \in Nat \ {0}
    /\ MaxLead \in Nat /\ MaxClock \in Nat /\ MaxDrops \in Nat

VARIABLES
    clock,          \* now(), of the database and of the API process
    status,         \* per row: the state of the transaction that inserts it
    ts,             \* per row: events.ts
    late,           \* history: rows committed after a row of the same or a later ts
    link,           \* "down", or the part of the generator a connection is in
    conn,           \* history: connections opened so far
    last,           \* last_ts of the generator
    batch,          \* rows it fetched and has not yielded
    floor,          \* history: now() a connection started from, the table being empty
    old,            \* history: rows committed when the connection was opened
    shown,          \* history, per row: the last connection that brought it, 0 if none
    feed            \* the browser's rows, newest first

journalVars == <<clock, status, ts, late>>
streamVars  == <<link, conn, last, batch, floor, old, shown, feed>>
vars == <<clock, status, ts, late, link, conn, last, batch, floor, old, shown, feed>>

Time == 0 .. MaxClock
Conns == 0 .. MaxDrops + 1
NoFloor == -1

TypeOK ==
    /\ clock \in Time
    /\ status \in [Events -> {"free", "open", "committed", "aborted"}]
    /\ ts \in [Events -> Int]
    /\ late \subseteq Events
    /\ link \in {"down", "page", "loop"}
    /\ conn \in Conns
    /\ last \in Int
    /\ batch \subseteq Events
    /\ floor \in Time \cup {NoFloor}
    /\ old \subseteq Events
    /\ shown \in [Events -> Conns]
    /\ feed \in Seq([row : Events, conn : Conns]) /\ Len(feed) <= FeedCap

Committed == {e \in Events : status[e] = "committed"}

Init ==
    /\ clock = 0
    /\ status = [e \in Events |-> "free"]
    /\ ts = [e \in Events |-> 0]
    /\ late = {}
    /\ link = "down" /\ conn = 0
    /\ last = 0 /\ batch = {} /\ floor = NoFloor /\ old = {}
    /\ shown = [e \in Events |-> 0]
    /\ feed = << >>

-----------------------------------------------------------------------------
(* The journal.                                                            *)

Tick ==
    /\ clock < MaxClock
    /\ clock' = clock + 1
    /\ UNCHANGED <<status, ts, late, streamVars>>

(* INSERT INTO events in a transaction: ts is the column's default, the    *)
(* time the transaction began, or one the emitter computed before.         *)
Emit(e) ==
    /\ status[e] = "free"
    /\ \E lead \in 0 .. MaxLead :
          /\ lead <= clock
          /\ ts' = [ts EXCEPT ![e] = clock - lead]
    /\ status' = [status EXCEPT ![e] = "open"]
    /\ UNCHANGED <<clock, late, streamVars>>

Overtaken(e) == \E f \in Committed : ts[f] >= ts[e]

Commit(e) ==
    /\ status[e] = "open"
    /\ status' = [status EXCEPT ![e] = "committed"]
    /\ late' = IF Overtaken(e) THEN late \cup {e} ELSE late
    /\ UNCHANGED <<clock, ts, streamVars>>

Abort(e) ==
    /\ status[e] = "open"
    /\ status' = [status EXCEPT ![e] = "aborted"]
    /\ UNCHANGED <<clock, ts, late, streamVars>>

-----------------------------------------------------------------------------
(* The generator of one connection.                                        *)

Newest(S) == {e \in S : \A f \in S : ts[f] <= ts[e]}
Oldest(S) == {e \in S : \A f \in S : ts[e] <= ts[f]}

(* A page that ORDER BY ts DESC LIMIT n may return: rows of one ts come in *)
(* any order, so which of them are cut off is open.                        *)
FirstPages(n) ==
    {S \in SUBSET Committed :
        /\ \A e \in S, f \in Committed \ S : ts[f] <= ts[e]
        /\ Cardinality(S) <= n
        /\ S # Committed => Cardinality(S) = n}

(* last_ts is the ts of the first row of the page, or now() when the table *)
(* is empty.  The code assigns it after the page is out; nobody reads it   *)
(* before.                                                                 *)
StartAfter_Now(S) == {clock}            \* last_ts = datetime.now(), always
StartAfter_Oldest(S) ==                 \* rows[-1], the list being reversed
    IF S = {} THEN {clock} ELSE {ts[e] : e \in Oldest(S)}
StartAfter(S) == IF S = {} THEN {clock} ELSE {ts[e] : e \in Newest(S)}

Connect ==
    /\ link = "down"
    /\ conn <= MaxDrops
    /\ \E page \in FirstPages(Recent) :
          /\ batch' = page
          /\ last' \in StartAfter(page)
          /\ floor' = IF page = {} THEN clock ELSE NoFloor
    /\ link' = "page"
    /\ conn' = conn + 1
    /\ old' = Committed
    /\ UNCHANGED <<journalVars, shown, feed>>

Kept_All(rows) == rows                  \* [ev, ...prev], never cut
Kept(rows) == SubSeq(rows, 1, IF Len(rows) < FeedCap THEN Len(rows) ELSE FeedCap)

(* One row goes out: those of the first page in reverse, those of a poll   *)
(* in the order of ts.  onmessage puts it at the head of the feed.  Only   *)
(* the rows of a poll move last_ts.                                        *)
Yield ==
    /\ link # "down"
    /\ \E e \in Oldest(batch) :
          /\ batch' = batch \ {e}
          /\ last' = IF link = "loop" THEN ts[e] ELSE last
          /\ shown' = [shown EXCEPT ![e] = conn]
          /\ feed' = Kept(<<[row |-> e, conn |-> conn]>> \o feed)
    /\ UNCHANGED <<journalVars, link, conn, floor, old>>

(* The query of the loop, once the rows before are out.                    *)
Poll_Clock ==               \* last_ts is set to now() when the poll returns
    /\ link # "down"
    /\ batch = {}
    /\ link' = "loop"
    /\ batch' = {e \in Committed : ts[e] > last}
    /\ last' = clock
    /\ UNCHANGED <<journalVars, conn, floor, old, shown, feed>>
Poll ==
    /\ link # "down"
    /\ batch = {}
    /\ link' = "loop"
    /\ batch' = {e \in Committed : ts[e] > last}
    /\ UNCHANGED <<journalVars, conn, last, floor, old, shown, feed>>

(* The connection breaks or the API restarts; the generator is cancelled   *)
(* wherever it stands.                                                     *)
Disconnect ==
    /\ link # "down"
    /\ conn <= MaxDrops
    /\ link' = "down"
    /\ batch' = {}
    /\ UNCHANGED <<journalVars, conn, last, floor, old, shown, feed>>

-----------------------------------------------------------------------------
Next ==
    \/ Tick
    \/ \E e \in Events : Emit(e) \/ Commit(e) \/ Abort(e)
    \/ Connect
    \/ Yield
    \/ Poll
    \/ Disconnect

Spec == Init /\ [][Next]_vars

(* EventSource reconnects, and the generator's loop goes on, as long as    *)
(* the browser and the API run.  Nothing is assumed of the emitters.       *)
Fairness == WF_vars(Connect) /\ WF_vars(Yield) /\ WF_vars(Poll)

FairSpec == Spec /\ Fairness

-----------------------------------------------------------------------------
(* A row that no later query of this connection selects and that is not    *)
(* about to be sent either.                                                *)
Missed(e) ==
    /\ e \in Committed
    /\ shown[e] # conn
    /\ e \notin batch
    /\ \/ ts[e] <= last
       \/ \E b \in batch : ts[e] <= ts[b]

(* There are as many other rows, no older, as a first page holds.          *)
PushedOut(e) == Cardinality({f \in Committed \ {e} : ts[f] >= ts[e]}) >= Recent

(* What a connection can miss (main.py:384-400): a row that committed      *)
(* after one of the same or a later ts; a row that was there before the    *)
(* connection, behind a full first page; a row of a transaction begun      *)
(* before the connection was opened on an empty table.  Every other row    *)
(* has been sent, is about to be, or has a ts the next poll asks for.      *)
OnlyLateRowsMissed ==
    link # "down" =>
        \A e \in Events : Missed(e) =>
            \/ e \in late
            \/ e \in old /\ PushedOut(e)
            \/ ts[e] <= floor

(* The rows that one connection brought stand in the feed newest first,    *)
(* none of them twice, above those of earlier connections (App.tsx:25-28): *)
(* a row is repeated only because the browser reconnected.                 *)
FeedInOrder ==
    \A i, j \in 1 .. Len(feed) : i < j =>
        /\ feed[i].conn >= feed[j].conn
        /\ feed[i].conn = feed[j].conn =>
              /\ feed[i].row # feed[j].row
              /\ ts[feed[i].row] >= ts[feed[j].row]

(* A row that commits in the order of ts reaches the browser, whatever     *)
(* connections break in between, unless a first page's worth of rows is as *)
(* new as it is (main.py:381-400 with App.tsx:24-30).                      *)
EveryRowShown ==
    \A e \in Events :
        (status[e] = "committed" /\ e \notin late)
            ~> (shown[e] > 0 \/ PushedOut(e) \/ ts[e] <= floor)
=============================================================================
