---------------------------- MODULE KeysetPaging ----------------------------
(***************************************************************************)
(* The lists of the registry and of the God View, read page by page        *)
(* (api/src/registry/{reads,paging}.py, api/src/godview/{ad_runs,events,   *)
(* systems,paging}.py and their routes in api/src/main.py).                *)
(*                                                                         *)
(* A client follows next_cursor through one list while other transactions  *)
(* change it.  Every page is one SELECT with its own snapshot; between     *)
(* two pages the server keeps nothing but the cursor it gave away, which   *)
(* is the position the last row of the page had at that time.              *)
(*   names       organizations, locations, systems, screen groups, cameras *)
(*               and displays: by name, ascending; devices are renamed and *)
(*               regrouped                                                 *)
(*   systems     the God View's systems: by name, with a decoder of its own*)
(*   ad_runs     the God View's ad runs: newest first, filtered by status  *)
(*   unresolved  unknown devices: last seen first; the projector bumps     *)
(*               them, an adoption removes them                            *)
(*   health      device and system health events: newest first             *)
(*   audit       three kinds of journal rows merged by descending id       *)
(* Rows are the ids (uuids, for audit the bigserial of events) in their    *)
(* order; a key is a name or a time.  The lists show a row once, but for   *)
(* health: it joins an event with the cameras and displays that carry the  *)
(* event's device_id, which is unique in neither table, and comes back     *)
(* with one result row per combination, all at the event's position.       *)
(***************************************************************************)
EXTENDS Integers, FiniteSets

CONSTANTS
    Rows,           \* ids, in their order
    MaxKey,         \* bound: keys are 0 .. MaxKey; for names 0 is NULL, shown as ''
    Barred,         \* the names that contain a '|'
    Branches,       \* the kinds of journal rows that the audit trail merges
    RawLimits,      \* values of ?limit= that clients send
    MaxLimit,       \* the largest page the routes allow (100)
    MaxCopies,      \* bound: result rows that the joins make of one health event
    Nil,            \* no row, no cursor
    MaxChanges      \* bound on the changes made during the walk

ASSUME RowsAssumption == Rows \subseteq Int /\ IsFiniteSet(Rows)
ASSUME KeysAssumption == MaxKey \in Nat /\ Barred \subseteq 0 .. MaxKey /\ Nil \notin Int
ASSUME CursorAssumption == Nil \notin Int \X Rows
ASSUME LimitsAssumption == RawLimits \subseteq Int /\ MaxLimit \in Nat \ {0} /\ MaxChanges \in Nat
ASSUME CopiesAssumption == MaxCopies \in Nat \ {0}

VARIABLES
    list,           \* the list this client walks through
    key,            \* per row: its sort key, or Nil while there is no such row
    listed,         \* the rows that match the list's scope and filters
    branch,         \* per row: the kind of journal row it is
    copies,         \* per row: result rows that the list's joins make of it
    walk,           \* "first" (no page yet), "more" (a cursor in hand), "end", "refused"
    cursor,         \* next_cursor of the last page
    shown,          \* per row: how many pages showed it
    repeated,       \* history: rows that a page showed more than once
    steady,         \* history: rows listed since the first page, never moved
    renamed,        \* history: rows renamed during the walk
    changes

walkVars == <<walk, cursor, shown, repeated>>
vars == <<list, key, listed, branch, copies, walkVars, steady, renamed, changes>>

-----------------------------------------------------------------------------
Keys == 0 .. MaxKey
Ascending == {"names", "systems"}
Descending == {"ad_runs", "unresolved", "health", "audit"}
Stamped == {"ad_runs", "unresolved"}    \* the key is now() of the projector's batch
Positions == Keys \X Rows

TypeOK ==
    /\ list \in Ascending \cup Descending
    /\ key \in [Rows -> Keys \cup {Nil}]
    /\ listed \in SUBSET {i \in Rows : key[i] # Nil}
    /\ branch \in [Rows -> Branches]
    /\ copies \in [Rows -> 1 .. MaxCopies]
    /\ list # "health" => \A i \in Rows : copies[i] = 1
    /\ walk \in {"first", "more", "end", "refused"}
    /\ cursor \in Positions \cup {Nil}
    /\ walk = "more" => cursor # Nil
    /\ shown \in [Rows -> Nat]
    /\ repeated \in SUBSET Rows
    /\ steady \in SUBSET listed /\ renamed \in SUBSET Rows
    /\ changes \in 0 .. MaxChanges

(* The walk may start on any list with any content.  Only devices can be   *)
(* outside the group that is listed, only ad runs can miss the filter,     *)
(* journal rows have nothing but their id to sort by, and only the device  *)
(* of a health event can be registered several times (POST /cameras and    *)
(* /displays accept the device_id of an existing device).                  *)
Init ==
    /\ list \in Ascending \cup Descending
    /\ key \in [Rows -> (IF list = "audit" THEN {0} ELSE Keys) \cup {Nil}]
    /\ listed \in SUBSET {i \in Rows : key[i] # Nil}
    /\ list \notin {"names", "ad_runs"} => \A i \in Rows : key[i] # Nil => i \in listed
    /\ branch \in [Rows -> Branches]
    /\ list # "audit" => branch = [i \in Rows |-> CHOOSE b \in Branches : TRUE]
    /\ copies \in [Rows -> 1 .. IF list = "health" THEN MaxCopies ELSE 1]
    /\ walk = "first" /\ cursor = Nil
    /\ shown = [i \in Rows |-> 0] /\ repeated = {}
    /\ steady = {} /\ renamed = {}
    /\ changes = 0

-----------------------------------------------------------------------------
(* The order of a list: by key, then by id, both in the same direction.    *)
Less(p, q) == p[1] < q[1] \/ (p[1] = q[1] /\ p[2] < q[2])
Ahead(p, q) == IF list \in Ascending THEN Less(p, q) ELSE Less(q, p)
Position(i) == <<key[i], i>>

(* WHERE (key, id) > the cursor, or < it in the descending lists.          *)
Left(c) == {i \in listed : c = Nil \/ Ahead(c, Position(i))}

(* What the SELECT makes of the rows S before it cuts them.                *)
Results(S) == {r \in S \X (1 .. MaxCopies) : r[2] <= copies[r[1]]}

(* ORDER BY key, id LIMIT n of the result rows R: at most n of them, with  *)
(* which everything ahead of them is taken too, and all of R if it has no  *)
(* more than n.  Which of several copies of one row come first is open.    *)
Pages(R, n) ==
    {P \in SUBSET R :
        /\ Cardinality(P) <= n
        /\ Cardinality(P) < n => P = R
        /\ \A p \in P, q \in R : Ahead(Position(q[1]), Position(p[1])) => q \in P}

(* The audit trail probes each kind of row for itself and merges them.     *)
OfKind(R, b) == {r \in R : branch[r[1]] = b}
Probes_ShortBranch(R, n) ==
    IF list = "audit"
    THEN UNION {Pages(UNION {kind[b] : b \in Branches}, n) :
                   kind \in {f \in [Branches -> SUBSET R] :
                                \A b \in Branches : f[b] \in Pages(OfKind(R, b), n - 1)}}
    ELSE Pages(R, n)
Probes(R, n) ==
    IF list = "audit"
    THEN UNION {Pages(UNION {kind[b] : b \in Branches}, n) :
                   kind \in {f \in [Branches -> SUBSET R] :
                                \A b \in Branches : f[b] \in Pages(OfKind(R, b), n)}}
    ELSE Pages(R, n)

(* max(1, min(limit, 100)) of the routes.                                  *)
Clamp(raw) == IF raw < 1 THEN 1 ELSE IF raw > MaxLimit THEN MaxLimit ELSE raw

(* The registry splits a cursor at its last bar, and uuids have none; the  *)
(* God View's systems split at the first, and what follows a bar inside    *)
(* the name is no uuid.                                                    *)
Decodes_FirstBar(c) == list \in Ascending => c[1] \notin Barred
Decodes(c) == list = "systems" => c[1] \notin Barred

(* The first limit rows of a probe for limit + 1, and a cursor to the last *)
(* of them if the probe found more.  Copies of the last row that were cut  *)
(* off are not beyond the cursor, so no page shows them.                   *)
On(items) == {r[1] : r \in items}
Twice(items) == {i \in On(items) : \E p, q \in items : p # q /\ p[1] = i /\ q[1] = i}
FetchPage ==
    /\ walk = "first" \/ (walk = "more" /\ Decodes(cursor))
    /\ \E raw \in RawLimits :
       \E probe \in Probes(Results(Left(cursor)), Clamp(raw) + 1) :
       \E items \in Pages(probe, Clamp(raw)) :
          /\ shown' = [i \in Rows |-> IF i \in On(items) THEN shown[i] + 1 ELSE shown[i]]
          /\ repeated' = repeated \cup Twice(items)
          /\ \/ /\ Cardinality(probe) > Clamp(raw)
                /\ \E i \in On(items) :
                      /\ \A j \in On(items) : ~Ahead(Position(i), Position(j))
                      /\ cursor' = Position(i)
                /\ walk' = "more"
             \/ /\ Cardinality(probe) <= Clamp(raw)
                /\ cursor' = Nil
                /\ walk' = "end"
    /\ steady' = IF walk = "first" THEN listed ELSE steady
    /\ UNCHANGED <<list, key, listed, branch, copies, renamed, changes>>

(* uuid.UUID raises on the rest of a wrongly split cursor: status 500.     *)
Refuse ==
    /\ walk = "more" /\ ~Decodes(cursor)
    /\ walk' = "refused"
    /\ UNCHANGED <<list, key, listed, branch, copies, cursor, shown, repeated, steady, renamed,
                   changes>>

-----------------------------------------------------------------------------
(* What other transactions do to the list between two pages.  What they    *)
(* did before the first page, Init has.                                    *)
Change ==
    /\ walk = "more"
    /\ changes < MaxChanges
    /\ changes' = changes + 1
    /\ UNCHANGED <<list, branch, walkVars>>

(* POST /cameras, POST /displays, provisioning; an emitter of health or    *)
(* journal rows, which commit in any order of their times and ids.         *)
Insert(i, k) ==
    /\ Change
    /\ list \notin Stamped
    /\ key[i] = Nil
    /\ list = "audit" => k = 0
    /\ key' = [key EXCEPT ![i] = k]
    /\ listed' = listed \cup {i}
    /\ UNCHANGED <<copies, steady, renamed>>

(* last_seen_at set to the time of the event instead of now().             *)
FoldBatch_EventTime(S, k) ==
    /\ Change
    /\ list \in Stamped
    /\ \A i \in S : key[i] = Nil \/ (list = "unresolved" /\ i \in listed)
    /\ key' = [i \in Rows |-> IF i \in S THEN k ELSE key[i]]
    /\ listed' = listed \cup S
    /\ steady' = steady \ S
    /\ UNCHANGED <<copies, renamed>>

(* A batch of the projector: new ad runs get created_at = now(), unknown   *)
(* devices last_seen_at = now(), which is later than all before and the    *)
(* same for the whole batch.  (Two folders may disorder that; Projector    *)
(* says when there are two.)                                               *)
FoldBatch(S, k) ==
    /\ Change
    /\ list \in Stamped
    /\ \A i \in S : key[i] = Nil \/ (list = "unresolved" /\ i \in listed)
    /\ \A i \in Rows : key[i] # Nil => key[i] < k
    /\ key' = [i \in Rows |-> IF i \in S THEN k ELSE key[i]]
    /\ listed' = listed \cup S
    /\ steady' = steady \ S
    /\ UNCHANGED <<copies, renamed>>

(* PATCH name.                                                             *)
Rename(i, k) ==
    /\ Change
    /\ list = "names"
    /\ key[i] # Nil /\ k # key[i]
    /\ key' = [key EXCEPT ![i] = k]
    /\ steady' = steady \ {i}
    /\ renamed' = renamed \cup {i}
    /\ UNCHANGED <<listed, copies>>

(* The filter applied without looking whether there is such a row.         *)
Match_Missing(i) ==
    /\ Change
    /\ list \in {"names", "ad_runs"}
    /\ i \notin listed
    /\ listed' = listed \cup {i}
    /\ UNCHANGED <<key, copies, steady, renamed>>

(* PATCH screen_group_id into the group that is listed or out of it; a     *)
(* later ad_run event moves the run's status into the filter or out of it. *)
Match(i) ==
    /\ Change
    /\ list \in {"names", "ad_runs"}
    /\ key[i] # Nil /\ i \notin listed
    /\ listed' = listed \cup {i}
    /\ UNCHANGED <<key, copies, steady, renamed>>

(* The same in the other direction, and an adoption, which deletes the row *)
(* of the unknown device: a later sighting would get a new id.             *)
Unmatch(i) ==
    /\ Change
    /\ list \in {"names", "ad_runs", "unresolved"}
    /\ i \in listed
    /\ listed' = listed \ {i}
    /\ steady' = steady \ {i}
    /\ UNCHANGED <<key, copies, renamed>>

(* POST /cameras or /displays with the device_id of a device that has one  *)
(* already: more result rows for S, the events of that device.             *)
Register(S, n) ==
    /\ Change
    /\ list = "health"
    /\ \A i \in S : copies[i] < n
    /\ copies' = [i \in Rows |-> IF i \in S THEN n ELSE copies[i]]
    /\ UNCHANGED <<key, listed, steady, renamed>>

Next ==
    \/ FetchPage
    \/ Refuse
    \/ \E i \in Rows, k \in Keys : Insert(i, k)
    \/ \E S \in SUBSET Rows \ {{}}, k \in Keys : FoldBatch(S, k)
    \/ \E i \in Rows, k \in Keys : Rename(i, k)
    \/ \E i \in Rows : Match(i)
    \/ \E i \in Rows : Unmatch(i)
    \/ \E S \in SUBSET Rows \ {{}}, n \in 1 .. MaxCopies : Register(S, n)

Spec == Init /\ [][Next]_vars

(* A client that goes on as long as it gets a cursor, as fast as changes   *)
(* come.                                                                   *)
FairSpec == Spec /\ WF_vars(FetchPage) /\ WF_vars(Refuse)

-----------------------------------------------------------------------------
(* ad_runs.py: "so the cursor is stable"; reads.py: "keyset lists".  A     *)
(* walk that reached the end has shown every row that was in the list from *)
(* the first page on and kept its place, on exactly one page, whatever was *)
(* inserted, renamed, bumped, regrouped or deleted around it, whatever     *)
(* limits were asked for and however keys tie.  It is once on that page,   *)
(* if the list is not health.                                              *)
SteadyRowsOnce ==
    walk = "end" =>
        /\ \A i \in steady : shown[i] = 1
        /\ list # "health" => steady \cap repeated = {}

(* Only a device that is renamed while somebody walks is shown by a second *)
(* page.  In particular an unknown device that is seen again, and an ad    *)
(* run whose status leaves and re-enters the filter, are not, nor are the  *)
(* copies of a health event that the end of a page has cut off.  Within    *)
(* one page nothing is repeated but a health event whose device is         *)
(* registered more than once.                                              *)
NoRowTwice ==
    /\ \A i \in Rows \ renamed : shown[i] <= 1
    /\ \A i \in repeated : list = "health" /\ copies[i] > 1

(* Every walk comes to its end: no cursor leads back to itself, none is    *)
(* refused by the server that issued it, except by the God View's systems. *)
WalkEnds == <>(walk = "end" \/ (walk = "refused" /\ list = "systems"))
=============================================================================
