---------------------------- MODULE DeviceRegistry ----------------------------
(***************************************************************************)
(* The device registry between its two writers: the administrators, who    *)
(* create, adopt and patch cameras and displays (api/src/registry,         *)
(* api/src/cameras.py), and the projector, whose ScopeResolver reads it    *)
(* for every event and notes unknown devices in unresolved_devices         *)
(* (api/src/projector/scope.py).                                           *)
(*                                                                         *)
(* Both run transactions at READ COMMITTED: a statement sees what was      *)
(* committed when it began, a row lock is held to the end of the           *)
(* transaction.  A step is a statement that reads or locks, or a commit    *)
(* together with the writes no one else could see before.                  *)
(*                                                                         *)
(* A definition named Op_Something is a mistake one could make in Op; no   *)
(* specification uses it.                                                  *)
(***************************************************************************)
EXTENDS Integers, Sequences, FiniteSetsExt

CONSTANTS
    NoRow,
    Screens,        \* screen_ids; UNIQUE over each device table
    KindOf,         \* "camera" or "display"
    Admins,         \* requests that may be in flight together
    Asked,          \* the statuses a PATCH asks for
    MaxEvents, MaxWrites, MaxRaises, MaxAborts     \* bounds

ASSUME AskedAssumption == Asked \subseteq {"active", "degraded", "offline", "retired"}
ASSUME NoRowAssumption == NoRow \notin {"active", "degraded", "offline", "retired"} \cup Nat
ASSUME KindAssumption == KindOf \in [Screens -> {"camera", "display"}]
ASSUME BoundAssumption == {MaxEvents, MaxWrites, MaxRaises, MaxAborts} \subseteq Nat

VARIABLES
    log,            \* the screen of each event to fold
    cursor,
    device,         \* per screen: NoRow or the status of its row
    journal,        \* camera_admin and registry_admin events, by id
    unresolved,     \* per screen: NoRow or seen_count
    scope,          \* per event: "unfolded", "resolved", "null" or "skipped"
    batch,          \* the projector's transaction and its resolver
    request,        \* per admin: its transaction
    raises, aborts, \* faults so far
    sightings,      \* history: committed records of each screen
    answers         \* history: what the registry said since the batch began

vars == <<log, cursor, device, journal, unresolved, scope, batch, request,
          raises, aborts, sightings, answers>>

Statuses == {"active", "degraded", "offline", "retired"}
Scopes == {"unfolded", "resolved", "null", "skipped"}

(* The query of ScopeResolver: a device row that is not retired.           *)
Answer(d, s) == IF d[s] \in Statuses \ {"retired"} THEN "resolved" ELSE "null"

NoBatch ==
    [ pc    |-> "idle",
      at    |-> 0,                              \* the event being folded
      got   |-> "null",                         \* what resolve returned for it
      cache |-> [s \in Screens |-> "none"],     \* ScopeResolver._cache
      seen  |-> [s \in Screens |-> 0],          \* uncommitted bumps of seen_count
      mine  |-> FALSE,                          \* this event bumped one of them
      scope |-> [i \in 1 .. MaxEvents |-> "unfolded"] ]
NoRequest == [pc |-> "idle"]

Init ==
    /\ log \in [1 .. MaxEvents -> Screens]
    /\ cursor = 0
    /\ device = [s \in Screens |-> NoRow]
    /\ journal = <<>>
    /\ unresolved = [s \in Screens |-> NoRow]
    /\ scope = [i \in 1 .. MaxEvents |-> "unfolded"]
    /\ batch = NoBatch
    /\ request = [a \in Admins |-> NoRequest]
    /\ raises = 0 /\ aborts = 0
    /\ sightings = [s \in Screens |-> 0]
    /\ answers = [s \in Screens |-> {}]

registryVars == <<device, journal, request>>
projectorVars == <<log, cursor, scope, batch, raises, aborts, sightings>>

-----------------------------------------------------------------------------
(* Row locks.                                                              *)

DeviceHeld(s) == \E a \in Admins : request[a].pc = "patching" /\ request[a].screen = s
                                   /\ request[a].locked
HeldByAdopter(s) == \E a \in Admins : request[a].pc = "adopting" /\ request[a].screen = s
                                      /\ request[a].locked
HeldByProjector(s) == batch.pc # "idle" /\ batch.seen[s] > 0

-----------------------------------------------------------------------------
(* The projector: one transaction per batch, a savepoint per event.        *)

(* A resolver of its own for every batch.                                  *)
BeginBatch_KeepsCache ==
    LET stamped(s) == {i \in 1 .. cursor : log[i] = s /\ scope[i] # "skipped"} IN
    /\ batch.pc = "idle" /\ cursor < MaxEvents
    /\ batch' = [NoBatch EXCEPT !.pc = "ready", !.at = cursor + 1,
            !.cache = [s \in Screens |-> IF stamped(s) = {} THEN "none" ELSE scope[Max(stamped(s))]]]
    /\ answers' = [s \in Screens |-> {Answer(device, s)}]
    /\ UNCHANGED <<log, cursor, scope, raises, aborts, sightings, unresolved, registryVars>>
BeginBatch ==
    /\ batch.pc = "idle" /\ cursor < MaxEvents
    /\ batch' = [NoBatch EXCEPT !.pc = "ready", !.at = cursor + 1]
    /\ answers' = [s \in Screens |-> {Answer(device, s)}]
    /\ UNCHANGED <<log, cursor, scope, raises, aborts, sightings, unresolved, registryVars>>

(* A step inside the transaction: nobody else sees it.                     *)
inBatch == <<log, cursor, scope, aborts, sightings, unresolved, answers, registryVars>>

ResolveCached ==
    /\ batch.pc = "ready" /\ batch.at <= MaxEvents
    /\ batch.cache[log[batch.at]] # "none"
    /\ batch' = [batch EXCEPT !.pc = "handling", !.got = batch.cache[log[batch.at]]]
    /\ UNCHANGED <<raises, inBatch>>

(* A miss asks the registry; ...                                           *)
FetchFound ==
    /\ batch.pc = "ready" /\ batch.at <= MaxEvents
    /\ batch.cache[log[batch.at]] = "none"
    /\ Answer(device, log[batch.at]) = "resolved"
    /\ batch' = [batch EXCEPT !.pc = "handling", !.got = "resolved",
                              !.cache[log[batch.at]] = "resolved"]
    /\ UNCHANGED <<raises, inBatch>>

(* ... an unknown device is recorded before it is cached.                  *)
FetchUnknown ==
    /\ batch.pc = "ready" /\ batch.at <= MaxEvents
    /\ batch.cache[log[batch.at]] = "none"
    /\ Answer(device, log[batch.at]) = "null"
    /\ batch' = [batch EXCEPT !.pc = "unknown"]
    /\ UNCHANGED <<raises, inBatch>>

(* INSERT ... ON CONFLICT DO UPDATE waits for whoever holds the row.       *)
RecordUnresolved ==
    /\ batch.pc = "unknown"
    /\ ~HeldByAdopter(log[batch.at])
    /\ batch' = [batch EXCEPT !.pc = "handling", !.got = "null", !.mine = TRUE,
                              !.cache[log[batch.at]] = "null", !.seen[log[batch.at]] = @ + 1]
    /\ UNCHANGED <<raises, inBatch>>

(* An entry outlives its ttl.                                              *)
Expire(s) ==
    /\ batch.pc = "ready" /\ batch.cache[s] # "none"
    /\ batch' = [batch EXCEPT !.cache[s] = "none"]
    /\ UNCHANGED <<raises, inBatch>>

(* The handler and the back-stamp succeed and the savepoint is released.   *)
Stamp ==
    /\ batch.pc = "handling"
    /\ batch' = [batch EXCEPT !.pc = "ready", !.at = @ + 1, !.mine = FALSE,
                              !.scope[batch.at] = batch.got]
    /\ UNCHANGED <<raises, inBatch>>

(* Something raises: the savepoint takes the record with it, the cache     *)
(* stays.                                                                  *)
Raise_AlwaysUndoes ==
    /\ batch.pc \in {"unknown", "handling"} /\ raises < MaxRaises
    /\ raises' = raises + 1
    /\ batch' = [batch EXCEPT !.pc = "ready", !.at = @ + 1, !.mine = FALSE,
                              !.scope[batch.at] = "skipped", !.seen[log[batch.at]] = @ - 1]
    /\ UNCHANGED inBatch
Raise ==
    /\ batch.pc \in {"unknown", "handling"} /\ raises < MaxRaises
    /\ raises' = raises + 1
    /\ batch' = [batch EXCEPT !.pc = "ready", !.at = @ + 1, !.mine = FALSE,
                              !.scope[batch.at] = "skipped",
                              !.seen[log[batch.at]] = IF batch.mine THEN @ - 1 ELSE @]
    /\ UNCHANGED inBatch

(* At the settle boundary or at the end of the page.                       *)
CommitBatch ==
    /\ batch.pc = "ready" /\ batch.at > cursor + 1
    /\ cursor' = batch.at - 1
    /\ scope' = [i \in 1 .. MaxEvents |-> IF i \in cursor + 1 .. batch.at - 1 THEN batch.scope[i]
                                          ELSE scope[i]]
    /\ unresolved' = [s \in Screens |->
            IF batch.seen[s] = 0 THEN unresolved[s]
            ELSE batch.seen[s] + (IF unresolved[s] = NoRow THEN 0 ELSE unresolved[s])]
    /\ sightings' = [s \in Screens |-> sightings[s] + batch.seen[s]]
    /\ batch' = NoBatch
    /\ UNCHANGED <<log, raises, aborts, answers, registryVars>>

(* The transaction fails or the process dies; the batch is folded again.   *)
AbortBatch ==
    /\ batch.pc # "idle" /\ aborts < MaxAborts
    /\ aborts' = aborts + 1
    /\ batch' = NoBatch
    /\ UNCHANGED <<log, cursor, scope, raises, sightings, unresolved, answers, registryVars>>

-----------------------------------------------------------------------------
(* The administrators.                                                     *)

Writable(a) == request[a].pc = "idle" /\ Len(journal) < MaxWrites

Open(a, req) ==
    /\ request' = [request EXCEPT ![a] = req]
    /\ UNCHANGED <<device, journal, unresolved, answers, projectorVars>>

(* The row and its journal entry, in one transaction.                      *)
Write(s, status, entries) ==
    /\ device' = [device EXCEPT ![s] = status]
    /\ journal' = journal \o entries
    /\ answers' = [answers EXCEPT ![s] = @ \cup {Answer(device', s)}]
    /\ UNCHANGED projectorVars

Entry(s, action, from, to, seen) ==
    [screen |-> s, action |-> action, from |-> from, to |-> to, seen |-> seen]

(* POST /cameras, POST /displays: staged offline; a second row for the     *)
(* screen is a unique violation.  unresolved_devices is not looked at.     *)
Create(a, s) ==
    /\ Writable(a)
    /\ device[s] = NoRow
    /\ Write(s, "offline", <<Entry(s, "create", NoRow, "offline", 0)>>)
    /\ UNCHANGED <<unresolved, request>>

(* POST /displays/adopt, a display only: lock the row, ...                 *)
AdoptLock_NoLock(a, s) ==
    /\ Writable(a)
    /\ unresolved[s] # NoRow /\ KindOf[s] = "display"
    /\ Open(a, [pc |-> "adopting", screen |-> s, seen |-> unresolved[s], locked |-> FALSE])
AdoptLock(a, s) ==
    /\ Writable(a)
    /\ unresolved[s] # NoRow /\ KindOf[s] = "display"
    /\ ~HeldByAdopter(s) /\ ~HeldByProjector(s)
    /\ Open(a, [pc |-> "adopting", screen |-> s, seen |-> unresolved[s], locked |-> TRUE])

(* ... create the display, delete the row, ...                             *)
AdoptCommit(a) ==
    LET s == request[a].screen IN
    /\ request[a].pc = "adopting" /\ device[s] = NoRow
    /\ Write(s, "offline", <<Entry(s, "adopt", NoRow, "offline", request[a].seen)>>)
    /\ unresolved' = [unresolved EXCEPT ![s] = NoRow]
    /\ request' = [request EXCEPT ![a] = NoRequest]

(* ... unless the screen has a display: 409, nothing happened.             *)
AdoptConflict(a) ==
    /\ request[a].pc = "adopting" /\ device[request[a].screen] # NoRow
    /\ Open(a, NoRequest)

(* Same-status writes are no-ops, a live device may take any status,       *)
(* retired is terminal.                                                    *)
Allowed(current, new) == new = current \/ current # "retired"

(* PATCH /cameras, PATCH /displays: SELECT ... FOR UPDATE and the check,   *)
PatchLock_NoLock(a, s, new) ==
    /\ Writable(a)
    /\ device[s] # NoRow /\ Allowed(device[s], new)
    /\ Open(a, [pc |-> "patching", screen |-> s, before |-> device[s], to |-> new, locked |-> FALSE])
PatchLock(a, s, new) ==
    /\ Writable(a)
    /\ device[s] # NoRow /\ ~DeviceHeld(s)
    /\ Allowed(device[s], new)
    /\ Open(a, [pc |-> "patching", screen |-> s, before |-> device[s], to |-> new, locked |-> TRUE])

(* then the update, journalled if it changed something.                    *)
PatchCommit_LifecycleOnly(a) ==
    LET r == request[a] IN
    /\ r.pc = "patching"
    /\ Write(r.screen, r.to,
             IF r.to = "retired" THEN <<Entry(r.screen, "lifecycle", r.before, r.to, 0)>> ELSE <<>>)
    /\ request' = [request EXCEPT ![a] = NoRequest]
    /\ UNCHANGED unresolved
PatchCommit(a) ==
    LET r == request[a] IN
    /\ r.pc = "patching"
    /\ Write(r.screen, r.to,
             IF r.before # r.to THEN <<Entry(r.screen, "lifecycle", r.before, r.to, 0)>> ELSE <<>>)
    /\ request' = [request EXCEPT ![a] = NoRequest]
    /\ UNCHANGED unresolved

(* The request dies with its connection.                                   *)
Rollback(a) == request[a].pc # "idle" /\ Open(a, NoRequest)

-----------------------------------------------------------------------------
Next ==
    \/ BeginBatch \/ ResolveCached \/ FetchFound \/ FetchUnknown \/ RecordUnresolved
    \/ Stamp \/ Raise \/ CommitBatch \/ AbortBatch
    \/ \E s \in Screens : Expire(s)
    \/ \E a \in Admins : AdoptCommit(a) \/ AdoptConflict(a) \/ PatchCommit(a) \/ Rollback(a)
    \/ \E a \in Admins, s \in Screens : Create(a, s) \/ AdoptLock(a, s)
    \/ \E a \in Admins, s \in Screens, new \in Asked : PatchLock(a, s, new)

Spec == Init /\ [][Next]_vars

-----------------------------------------------------------------------------
(* Properties.                                                             *)

Batches ==
    [ pc : {"idle", "ready", "unknown", "handling"}, at : 0 .. MaxEvents + 1,
      got : {"resolved", "null"}, cache : [Screens -> {"none", "resolved", "null"}],
      seen : [Screens -> Nat], mine : BOOLEAN, scope : [1 .. MaxEvents -> Scopes] ]
Requests ==
    [pc : {"idle"}]
    \cup [pc : {"adopting"}, screen : Screens, seen : Nat, locked : BOOLEAN]
    \cup [pc : {"patching"}, screen : Screens, before : Statuses, to : Statuses, locked : BOOLEAN]

(* Rows, counters and the two kinds of transaction have their types, and   *)
(* exactly the events up to the cursor are folded.                         *)
TypeOK ==
    /\ log \in [1 .. MaxEvents -> Screens] /\ cursor \in 0 .. MaxEvents
    /\ device \in [Screens -> Statuses \cup {NoRow}]
    /\ journal \in Seq([ screen : Screens, action : {"create", "adopt", "lifecycle"},
                         from : Statuses \cup {NoRow}, to : Statuses, seen : Nat ])
    /\ unresolved \in [Screens -> Nat \cup {NoRow}]
    /\ scope \in [1 .. MaxEvents -> Scopes]
    /\ \A i \in 1 .. MaxEvents : scope[i] = "unfolded" <=> i > cursor
    /\ batch \in Batches /\ request \in [Admins -> Requests]
    /\ raises \in Nat /\ aborts \in Nat
    /\ sightings \in [Screens -> Nat] /\ answers \in [Screens -> SUBSET {"resolved", "null"}]

(* Retired is terminal (registry/lifecycle.py): no request revives a       *)
(* device, not even one that checked it just before another retired it.    *)
RetiredIsFinal == [][\A s \in Screens : device[s] = "retired" => device'[s] = "retired"]_vars

Entries(s) == {i \in DOMAIN journal : journal[i].screen = s}

(* An audited write happens with its journal entry or not at all: the      *)
(* entries of a device, in id order, each begin where the one before       *)
(* ended, the first with no row, and the last one ends at the device's row *)
(* (registry/writes.py, cameras.py: the write and its entry in one         *)
(* transaction).                                                           *)
JournalMatchesRegistry ==
    \A s \in Screens :
        /\ device[s] = NoRow <=> Entries(s) = {}
        /\ \A i \in Entries(s) :
              /\ (\A j \in Entries(s) : i <= j) => journal[i].from = NoRow
              /\ (\A j \in Entries(s) : j <= i) => journal[i].to = device[s]
              /\ \A j \in Entries(s) :
                    j < i /\ (\A k \in Entries(s) : k <= j \/ i <= k)
                        => journal[i].from = journal[j].to

(* Every committed sighting of an unknown device is in the seen_count of   *)
(* its row, or in the count its adoption journalled: the projector and an  *)
(* adopter never lose one between them (scope.py:88-98, adopt.py:30-49).   *)
NoSightingLost ==
    \A s \in Screens :
        LET adoptions == {i \in Entries(s) : journal[i].action = "adopt"}
            row == IF unresolved[s] = NoRow THEN 0 ELSE unresolved[s]
        IN  /\ adoptions = {} => sightings[s] = row
            /\ \A i \in adoptions : sightings[s] = row + journal[i].seen

(* The cache never serves an answer from before its batch: the scope an    *)
(* event is stamped with is one the registry gave while the batch ran, and *)
(* a device is recorded as unknown only if it was in that time.            *)
ScopeIsRecent ==
    batch.pc # "idle" =>
        /\ \A i \in cursor + 1 .. batch.at - 1 :
              batch.scope[i] \in {"skipped"} \cup answers[log[i]]
        /\ \A s \in Screens : batch.seen[s] > 0 => "null" \in answers[s]

(* A batch that stamps an event without scope has the device on its list   *)
(* of unknown ones, unless an event of that device raised in the batch.    *)
NullScopeRecorded ==
    batch.pc # "idle" =>
        \A i \in cursor + 1 .. batch.at - 1 :
            batch.scope[i] = "null" =>
                \/ batch.seen[log[i]] > 0
                \/ \E j \in cursor + 1 .. batch.at - 1 :
                       log[j] = log[i] /\ batch.scope[j] = "skipped"

(* What projector/scope.py:5-7 and db/migrations/020_device_registry.sql:17 *)
(* say and the cache breaks: a device without scope is recorded in         *)
(* unresolved_devices.                                                     *)
UnregisteredIsRecorded ==
    \A i \in 1 .. MaxEvents : scope[i] = "null" => sightings[log[i]] > 0
=============================================================================
