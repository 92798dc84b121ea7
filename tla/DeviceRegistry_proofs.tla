------------------------ MODULE DeviceRegistry_proofs ------------------------
(***************************************************************************)
(* Theorems about DeviceRegistry, for any devices, admins, events and      *)
(* bounds.  Each is an inductive invariant of its own on top of the types: *)
(* Locks for the life cycle and the audit trail, Fresh for the cache,      *)
(* RowLocks for the sightings, Recorded for the list of unknown devices.   *)
(***************************************************************************)
EXTENDS DeviceRegistry, TLAPS

USE BoundAssumption, AskedAssumption, NoRowAssumption

(* Where an open batch stands.                                             *)
Position ==
    batch.pc # "idle" =>
        /\ cursor < batch.at
        /\ batch.pc \in {"unknown", "handling"} => batch.at <= MaxEvents
        /\ \A i \in cursor + 1 .. batch.at - 1 : batch.scope[i] # "unfolded"
        /\ batch.mine => batch.pc = "handling" /\ batch.seen[log[batch.at]] > 0

Typed == TypeOK /\ Position

(* An open PATCH holds its row, has checked the status that is there, and  *)
(* is alone.                                                               *)
Locks ==
    /\ \A a \in Admins : request[a].pc = "patching" =>
          /\ request[a].locked
          /\ device[request[a].screen] = request[a].before
          /\ Allowed(request[a].before, request[a].to)
    /\ \A a, b \in Admins :
          (request[a].pc = "patching" /\ request[b].pc = "patching"
              /\ request[a].screen = request[b].screen) => a = b

(* All the resolver knows, the registry said while the batch was open.     *)
Fresh ==
    batch.pc # "idle" =>
        /\ \A s \in Screens : /\ Answer(device, s) \in answers[s]
                              /\ batch.cache[s] # "none" => batch.cache[s] \in answers[s]
        /\ batch.pc = "handling" => batch.got \in answers[log[batch.at]]
        /\ batch.pc = "unknown" => "null" \in answers[log[batch.at]]

(* On the list, or known to have raised.                                   *)
Listed(s) ==
    \/ batch.seen[s] > 0
    \/ \E j \in cursor + 1 .. batch.at - 1 : log[j] = s /\ batch.scope[j] = "skipped"

Recorded ==
    batch.pc # "idle" =>
        /\ \A s \in Screens : batch.cache[s] = "null" => Listed(s)
        /\ (batch.pc = "handling" /\ batch.got = "null") => Listed(log[batch.at])

-----------------------------------------------------------------------------
(* The steps of the projector and of the administrators, each with what it *)
(* leaves alone.                                                           *)
Folding ==
    \/ BeginBatch \/ ResolveCached \/ FetchFound \/ FetchUnknown \/ RecordUnresolved
    \/ Stamp \/ Raise \/ CommitBatch \/ AbortBatch
    \/ \E s \in Screens : Expire(s)
Administration ==
    \/ \E a \in Admins : AdoptCommit(a) \/ AdoptConflict(a) \/ PatchCommit(a) \/ Rollback(a)
    \/ \E a \in Admins, s \in Screens : Create(a, s) \/ AdoptLock(a, s)
    \/ \E a \in Admins, s \in Screens, new \in Asked : PatchLock(a, s, new)

LEMMA TwoSides ==
    ASSUME [Next]_vars
    PROVE  \/ Folding /\ UNCHANGED registryVars
           \/ Administration /\ UNCHANGED projectorVars
           \/ UNCHANGED vars
<1>1. CASE Next
  <2>1. CASE Folding
    BY <2>1 DEF Folding, BeginBatch, ResolveCached, FetchFound, FetchUnknown, RecordUnresolved,
                Stamp, Raise, CommitBatch, AbortBatch, Expire, inBatch, registryVars
  <2>2. CASE Administration
    BY <2>2 DEF Administration, AdoptCommit, AdoptConflict, PatchCommit, Rollback, Create,
                AdoptLock, PatchLock, Write, Open, projectorVars
  <2> QED BY <1>1, <2>1, <2>2 DEF Next, Folding, Administration
<1> QED BY <1>1

-----------------------------------------------------------------------------
(* An entry of the journal has the type of one.                            *)
LEMMA JournalType ==
    ASSUME TypeOK, NEW s \in Screens, NEW to \in Statuses,
           NEW action \in {"create", "adopt", "lifecycle"},
           NEW from \in Statuses \cup {NoRow}, NEW n \in Nat
    PROVE  journal \o <<Entry(s, action, from, to, n)>>
              \in Seq([ screen : Screens, action : {"create", "adopt", "lifecycle"},
                        from : Statuses \cup {NoRow}, to : Statuses, seen : Nat ])
BY DEF TypeOK, Entry

(* A batch is typed when its fields are.                                   *)
LEMMA BatchType ==
    ASSUME NEW pc \in {"idle", "ready", "unknown", "handling"}, NEW at \in 0 .. MaxEvents + 1,
           NEW got \in {"resolved", "null"}, NEW cache \in [Screens -> {"none", "resolved", "null"}],
           NEW seen \in [Screens -> Nat], NEW mine \in BOOLEAN, NEW sc \in [1 .. MaxEvents -> Scopes]
    PROVE  [ pc |-> pc, at |-> at, got |-> got, cache |-> cache, seen |-> seen,
             mine |-> mine, scope |-> sc ] \in Batches
BY DEF Batches

LEMMA InitTyped == Init => Typed
BY DEF Init, Typed, TypeOK, Position, Batches, Requests, NoBatch, NoRequest, Scopes

(* The projector's steps keep the types and the position of the batch.     *)
LEMMA FoldingTyped ==
    ASSUME Typed, Folding, UNCHANGED registryVars
    PROVE  Typed'
<1> USE DEF Typed, TypeOK, Position, Batches, registryVars
<1> SUFFICES ASSUME TRUE PROVE TypeOK' /\ Position' OBVIOUS
<1>1. CASE BeginBatch
  <2>1. \A t \in Screens : Answer(device, t) \in {"resolved", "null"} BY DEF Answer
  <2>2. batch' = [NoBatch EXCEPT !.pc = "ready", !.at = cursor + 1] /\ cursor + 1 \in 0 .. MaxEvents + 1
    BY <1>1 DEF BeginBatch
  <2>3. NoBatch.cache \in [Screens -> {"none", "resolved", "null"}] /\ NoBatch.seen \in [Screens -> Nat]
        /\ NoBatch.scope \in [1 .. MaxEvents -> Scopes]
    BY DEF NoBatch, Scopes
  <2>4. batch' = [ pc |-> "ready", at |-> cursor + 1, got |-> "null", cache |-> NoBatch.cache,
                   seen |-> NoBatch.seen, mine |-> FALSE, scope |-> NoBatch.scope ]
    BY <2>2 DEF NoBatch
  <2>5. batch' \in Batches
    <3> DEFINE c == NoBatch.cache
               n == NoBatch.seen
               e == NoBatch.scope
    <3> HIDE DEF c, n, e, Typed, TypeOK, Position
    <3>1. c \in [Screens -> {"none", "resolved", "null"}] /\ n \in [Screens -> Nat]
          /\ e \in [1 .. MaxEvents -> Scopes]
      BY <2>3 DEF c, n, e
    <3>2. batch' = [ pc |-> "ready", at |-> cursor + 1, got |-> "null", cache |-> c,
                     seen |-> n, mine |-> FALSE, scope |-> e ]
      BY <2>4 DEF c, n, e
    <3>3. cursor + 1 \in 0 .. MaxEvents + 1 BY <2>2
    <3> QED BY <3>1, <3>2, <3>3
  <2> QED BY <1>1, <2>1, <2>5 DEF BeginBatch, NoBatch
<1>2. CASE ResolveCached
  <2>1. log[batch.at] \in Screens BY <1>2 DEF ResolveCached
  <2>2. batch.cache[log[batch.at]] \in {"resolved", "null"} BY <1>2, <2>1 DEF ResolveCached
  <2>3. batch' \in Batches BY <1>2, <2>2 DEF ResolveCached
  <2> QED BY <1>2, <2>3 DEF ResolveCached, inBatch
<1>3. CASE FetchFound BY <1>3 DEF FetchFound, inBatch
<1>4. CASE FetchUnknown BY <1>4 DEF FetchUnknown, inBatch
<1>5. CASE RecordUnresolved
  <2>1. log[batch.at] \in Screens BY <1>5 DEF RecordUnresolved
  <2> DEFINE s == log[batch.at]
  <2>5. [batch.cache EXCEPT ![s] = "null"] \in [Screens -> {"none", "resolved", "null"}]
        /\ [batch.seen EXCEPT ![s] = @ + 1] \in [Screens -> Nat]
    <3>1. batch.cache \in [Screens -> {"none", "resolved", "null"}] /\ batch.seen \in [Screens -> Nat]
      OBVIOUS
    <3>2. batch.seen[s] + 1 \in Nat BY <2>1, <3>1
    <3> HIDE DEF s, Batches, Typed, TypeOK, Position
    <3> QED BY <2>1, <3>1, <3>2
  <2>6. batch' = [ pc |-> "handling", at |-> batch.at, got |-> "null",
                   cache |-> [batch.cache EXCEPT ![s] = "null"],
                   seen |-> [batch.seen EXCEPT ![s] = @ + 1], mine |-> TRUE, scope |-> batch.scope ]
    BY <1>5 DEF RecordUnresolved
  <2>2. batch' \in Batches BY <2>5, <2>6, BatchType
  <2>3. batch'.seen[log[batch.at]] > 0 BY <1>5, <2>1 DEF RecordUnresolved
  <2> QED BY <1>5, <2>2, <2>3 DEF RecordUnresolved, inBatch
<1>6. CASE Stamp
  <2> DEFINE stamped == [batch.scope EXCEPT ![batch.at] = batch.got]
  <2>7. stamped \in [1 .. MaxEvents -> Scopes] /\ batch.at + 1 \in 0 .. MaxEvents + 1
    BY <1>6 DEF Stamp, Scopes
  <2>8. batch' = [ pc |-> "ready", at |-> batch.at + 1, got |-> batch.got, cache |-> batch.cache,
                   seen |-> batch.seen, mine |-> FALSE, scope |-> stamped ]
    BY <1>6 DEF Stamp
  <2>1. batch' \in Batches BY <2>7, <2>8, BatchType
  <2>2. batch.got # "unfolded" /\ batch.at \in 1 .. MaxEvents BY <1>6 DEF Stamp
  <2>3. /\ batch'.at = batch.at + 1 /\ batch'.pc = "ready" /\ batch'.mine = FALSE
        /\ \A i \in 1 .. MaxEvents : batch'.scope[i] = IF i = batch.at THEN batch.got ELSE batch.scope[i]
    BY <1>6, <2>2 DEF Stamp
  <2>4. UNCHANGED inBatch /\ UNCHANGED raises BY <1>6 DEF Stamp
  <2>5. TypeOK' BY <2>1, <2>4 DEF inBatch
  <2>6. Position' BY <2>2, <2>3, <2>4, <1>6 DEF inBatch, Stamp
  <2> QED BY <2>5, <2>6
<1>7. CASE Raise
  <2>1. log[batch.at] \in Screens /\ batch.at \in 1 .. MaxEvents BY <1>7 DEF Raise
  <2>2. (IF batch.mine THEN batch.seen[log[batch.at]] - 1 ELSE batch.seen[log[batch.at]]) \in Nat
    BY <1>7, <2>1 DEF Raise
  <2> DEFINE s == log[batch.at]
             skipped == [batch.scope EXCEPT ![batch.at] = "skipped"]
             kept == [batch.seen EXCEPT ![s] = IF batch.mine THEN @ - 1 ELSE @]
  <2>8. skipped \in [1 .. MaxEvents -> Scopes] /\ kept \in [Screens -> Nat]
        /\ batch.at + 1 \in 0 .. MaxEvents + 1
    BY <2>1, <2>2 DEF Scopes
  <2>9. batch' = [ pc |-> "ready", at |-> batch.at + 1, got |-> batch.got, cache |-> batch.cache,
                   seen |-> kept, mine |-> FALSE, scope |-> skipped ]
    BY <1>7 DEF Raise
  <2>3. batch' \in Batches BY <2>8, <2>9, BatchType
  <2>4. /\ batch'.at = batch.at + 1 /\ batch'.pc = "ready" /\ batch'.mine = FALSE
        /\ \A i \in 1 .. MaxEvents : batch'.scope[i] = IF i = batch.at THEN "skipped" ELSE batch.scope[i]
    BY <1>7, <2>1 DEF Raise
  <2>5. UNCHANGED inBatch /\ raises' \in Nat BY <1>7 DEF Raise
  <2>6. TypeOK' BY <2>3, <2>5 DEF inBatch
  <2>7. Position' BY <2>1, <2>4, <2>5, <1>7 DEF inBatch, Raise
  <2> QED BY <2>6, <2>7
<1>8. CASE CommitBatch BY <1>8 DEF CommitBatch, NoBatch, Scopes
<1>9. CASE AbortBatch BY <1>9 DEF AbortBatch, NoBatch, Scopes
<1>10. ASSUME NEW s \in Screens, Expire(s) PROVE TypeOK' /\ Position'
  BY <1>10 DEF Expire, inBatch
<1> QED BY <1>1, <1>2, <1>3, <1>4, <1>5, <1>6, <1>7, <1>8, <1>9, <1>10 DEF Folding

(* So do the administrators': each either opens or closes a request, or    *)
(* writes one row and at most one entry.                                   *)
EntryType == [ screen : Screens, action : {"create", "adopt", "lifecycle"},
             from : Statuses \cup {NoRow}, to : Statuses, seen : Nat ]

LEMMA OpenTyped ==
    ASSUME Typed, NEW a \in Admins, NEW req \in Requests, Open(a, req)
    PROVE  Typed'
<1>1. request' \in [Admins -> Requests]
  <2>1. request \in [Admins -> Requests] BY DEF Typed, TypeOK
  <2> QED BY <2>1 DEF Open
<1>2. UNCHANGED <<device, journal, unresolved, answers, projectorVars>> BY DEF Open
<1> QED BY <1>1, <1>2 DEF Typed, TypeOK, Position, projectorVars

LEMMA WriteTyped ==
    ASSUME Typed, NEW s \in Screens, NEW to \in Statuses, NEW entries,
           journal \o entries \in Seq(EntryType), Write(s, to, entries),
           request' \in [Admins -> Requests], unresolved' \in [Screens -> Nat \cup {NoRow}]
    PROVE  Typed'
<1>1. device' \in [Screens -> Statuses \cup {NoRow}]
  <2>1. device \in [Screens -> Statuses \cup {NoRow}] BY DEF Typed, TypeOK
  <2> QED BY <2>1 DEF Write
<1>2. answers' \in [Screens -> SUBSET {"resolved", "null"}]
  <2>1. answers \in [Screens -> SUBSET {"resolved", "null"}] BY DEF Typed, TypeOK
  <2>2. Answer(device', s) \in {"resolved", "null"} BY DEF Answer
  <2>3. answers[s] \cup {Answer(device', s)} \in SUBSET {"resolved", "null"} BY <2>1, <2>2
  <2> QED BY <2>1, <2>3 DEF Write
<1>3. journal' \in Seq(EntryType) /\ UNCHANGED projectorVars BY DEF Write
<1> QED BY <1>1, <1>2, <1>3 DEF Typed, TypeOK, Position, projectorVars, EntryType

LEMMA AdministrationTyped ==
    ASSUME Typed, Administration
    PROVE  Typed'
<1>0. /\ NoRequest \in Requests /\ request \in [Admins -> Requests]
      /\ device \in [Screens -> Statuses \cup {NoRow}] /\ unresolved \in [Screens -> Nat \cup {NoRow}]
      /\ journal \in Seq(EntryType) /\ TypeOK
  BY DEF Typed, TypeOK, EntryType, Requests, NoRequest
<1>1. ASSUME NEW a \in Admins, AdoptCommit(a) PROVE Typed'
  <2> DEFINE s == request[a].screen
             e == Entry(s, "adopt", NoRow, "offline", request[a].seen)
  <2>1. s \in Screens /\ request[a].seen \in Nat BY <1>0, <1>1 DEF AdoptCommit, Requests
  <2>2. Write(s, "offline", <<e>>) BY <1>1 DEF AdoptCommit
  <2>3. journal \o <<e>> \in Seq(EntryType) BY <1>0, <2>1, JournalType DEF EntryType, Statuses
  <2>4. request' \in [Admins -> Requests] BY <1>0, <1>1 DEF AdoptCommit
  <2>5. unresolved' \in [Screens -> Nat \cup {NoRow}] BY <1>0, <1>1 DEF AdoptCommit
  <2> HIDE DEF s, e
  <2> QED BY <2>1, <2>2, <2>3, <2>4, <2>5, WriteTyped DEF Statuses
<1>2. ASSUME NEW a \in Admins, AdoptConflict(a) PROVE Typed'
  BY <1>0, <1>2, OpenTyped DEF AdoptConflict
<1>3. ASSUME NEW a \in Admins, PatchCommit(a) PROVE Typed'
  <2> DEFINE r == request[a]
             e == Entry(r.screen, "lifecycle", r.before, r.to, 0)
             entries == IF r.before # r.to THEN <<e>> ELSE <<>>
  <2>1. r.screen \in Screens /\ r.before \in Statuses /\ r.to \in Statuses
    BY <1>0, <1>3 DEF PatchCommit, Requests
  <2>2. Write(r.screen, r.to, entries) BY <1>3 DEF PatchCommit
  <2>3. journal \o <<e>> \in Seq(EntryType) BY <1>0, <2>1, JournalType DEF EntryType
  <2>4. journal \o <<>> = journal BY <1>0
  <2>5. journal \o entries \in Seq(EntryType) BY <1>0, <2>3, <2>4
  <2>6. request' \in [Admins -> Requests] BY <1>0, <1>3 DEF PatchCommit
  <2>7. unresolved' \in [Screens -> Nat \cup {NoRow}] BY <1>0, <1>3 DEF PatchCommit
  <2> HIDE DEF r, entries
  <2> QED BY <2>1, <2>2, <2>5, <2>6, <2>7, WriteTyped
<1>4. ASSUME NEW a \in Admins, Rollback(a) PROVE Typed'
  BY <1>0, <1>4, OpenTyped DEF Rollback
<1>5. ASSUME NEW a \in Admins, NEW s \in Screens, Create(a, s) PROVE Typed'
  <2> DEFINE e == Entry(s, "create", NoRow, "offline", 0)
  <2>1. Write(s, "offline", <<e>>) /\ UNCHANGED <<unresolved, request>> BY <1>5 DEF Create
  <2>2. journal \o <<e>> \in Seq(EntryType) BY <1>0, JournalType DEF EntryType, Statuses
  <2> HIDE DEF e
  <2> QED BY <1>0, <2>1, <2>2, WriteTyped DEF Statuses
<1>6. ASSUME NEW a \in Admins, NEW s \in Screens, AdoptLock(a, s) PROVE Typed'
  <2> DEFINE req == [pc |-> "adopting", screen |-> s, seen |-> unresolved[s], locked |-> TRUE]
  <2>1. Open(a, req) /\ unresolved[s] \in Nat BY <1>0, <1>6 DEF AdoptLock
  <2>2. req \in Requests BY <2>1 DEF Requests
  <2> HIDE DEF req
  <2> QED BY <2>1, <2>2, OpenTyped
<1>7. ASSUME NEW a \in Admins, NEW s \in Screens, NEW new \in Asked, PatchLock(a, s, new)
      PROVE  Typed'
  <2> DEFINE req == [pc |-> "patching", screen |-> s, before |-> device[s], to |-> new, locked |-> TRUE]
  <2>1. Open(a, req) /\ device[s] \in Statuses /\ new \in Statuses
    BY <1>0, <1>7 DEF PatchLock, Statuses
  <2>2. req \in Requests BY <2>1 DEF Requests
  <2> HIDE DEF req
  <2> QED BY <2>1, <2>2, OpenTyped
<1> QED BY <1>1, <1>2, <1>3, <1>4, <1>5, <1>6, <1>7 DEF Administration

LEMMA StepTyped == Typed /\ [Next]_vars => Typed'
<1> SUFFICES ASSUME Typed, [Next]_vars PROVE Typed' OBVIOUS
<1>1. CASE Folding /\ UNCHANGED registryVars BY <1>1, FoldingTyped
<1>2. CASE Administration BY <1>2, AdministrationTyped
<1>3. CASE UNCHANGED vars BY <1>3 DEF Typed, TypeOK, Position, vars
<1> QED BY <1>1, <1>2, <1>3, TwoSides

(* Rows, counters and transactions keep their types, and exactly the       *)
(* events up to the cursor are folded, whatever the bounds.                *)
THEOREM TypeCorrect == Spec => []TypeOK
<1>1. Typed => TypeOK BY DEF Typed
<1> QED BY InitTyped, StepTyped, <1>1, PTL DEF Spec

-----------------------------------------------------------------------------
(* The life cycle.                                                         *)
LEMMA StepLocks == Typed /\ Locks /\ [Next]_vars => Locks'
<1> SUFFICES ASSUME Typed, Locks, [Next]_vars PROVE Locks' OBVIOUS
<1>0. request \in [Admins -> Requests] /\ device \in [Screens -> Statuses \cup {NoRow}]
  BY DEF Typed, TypeOK
<1>1. CASE Folding /\ UNCHANGED registryVars BY <1>1 DEF Locks, registryVars
<1>2. CASE UNCHANGED vars BY <1>2 DEF Locks, vars
<1>3. ASSUME NEW a \in Admins, request' = [request EXCEPT ![a] = NoRequest],
             \A b \in Admins \ {a} : request[b].pc = "patching"
                 => device'[request[b].screen] = device[request[b].screen]
      PROVE  Locks'
  BY <1>0, <1>3 DEF Locks, NoRequest
<1>4. ASSUME NEW a \in Admins, AdoptCommit(a) PROVE Locks'
  <2>1. \A b \in Admins : request[b].pc = "patching" =>
            request[b].before \in Statuses /\ request[b].screen \in Screens
            /\ device[request[b].screen] = request[b].before
    BY <1>0 DEF Locks, Requests
  <2>2. device[request[a].screen] = NoRow BY <1>4 DEF AdoptCommit
  <2>3. NoRow \notin Statuses BY DEF Statuses
  <2>4. \A b \in Admins : request[b].pc = "patching" => request[b].screen # request[a].screen
    BY <2>1, <2>2, <2>3
  <2>5. \A b \in Admins : request[b].pc = "patching"
            => device'[request[b].screen] = device[request[b].screen]
    BY <1>0, <1>4, <2>1, <2>4 DEF AdoptCommit, Write
  <2>6. request' = [request EXCEPT ![a] = NoRequest] BY <1>4 DEF AdoptCommit
  <2> QED BY <1>3, <2>5, <2>6
<1>5. ASSUME NEW a \in Admins, AdoptConflict(a) PROVE Locks'
  BY <1>3, <1>5 DEF AdoptConflict, Open
<1>6. ASSUME NEW a \in Admins, PatchCommit(a) PROVE Locks'
  <2>1. \A b \in Admins \ {a} : request[b].pc = "patching" => request[b].screen # request[a].screen
    BY <1>6 DEF Locks, PatchCommit
  <2>2. \A b \in Admins : request[b].pc = "patching" => request[b].screen \in Screens
    BY <1>0 DEF Requests
  <2>3. device' = [device EXCEPT ![request[a].screen] = request[a].to]
        /\ request' = [request EXCEPT ![a] = NoRequest]
    BY <1>6 DEF PatchCommit, Write
  <2>4. \A b \in Admins \ {a} : request[b].pc = "patching"
            => device'[request[b].screen] = device[request[b].screen]
    BY <1>0, <2>1, <2>2, <2>3
  <2> QED BY <1>3, <2>3, <2>4
<1>7. ASSUME NEW a \in Admins, Rollback(a) PROVE Locks'
  BY <1>3, <1>7 DEF Rollback, Open
<1>8. ASSUME NEW a \in Admins, NEW s \in Screens, Create(a, s) PROVE Locks'
  <2>1. \A b \in Admins : request[b].pc = "patching" =>
            request[b].before \in Statuses /\ request[b].screen \in Screens
            /\ device[request[b].screen] = request[b].before
    BY <1>0 DEF Locks, Requests
  <2>2. device[s] = NoRow /\ UNCHANGED request BY <1>8 DEF Create
  <2>3. NoRow \notin Statuses BY DEF Statuses
  <2>4. \A b \in Admins : request[b].pc = "patching"
            => device'[request[b].screen] = device[request[b].screen]
    BY <1>0, <1>8, <2>1, <2>2, <2>3 DEF Create, Write
  <2> QED BY <2>2, <2>4 DEF Locks
<1>9. ASSUME NEW a \in Admins, NEW s \in Screens, AdoptLock(a, s) PROVE Locks'
  BY <1>0, <1>9 DEF AdoptLock, Open, Locks
<1>10. ASSUME NEW a \in Admins, NEW s \in Screens, NEW new \in Asked, PatchLock(a, s, new)
       PROVE  Locks'
  <2>1. \A b \in Admins : request[b].pc = "patching" => request[b].screen # s
    BY <1>10 DEF Locks, PatchLock, DeviceHeld
  <2> QED BY <1>0, <1>10, <2>1 DEF PatchLock, Open, Locks
<1> QED BY <1>1, <1>2, <1>4, <1>5, <1>6, <1>7, <1>8, <1>9, <1>10, TwoSides DEF Administration

(* What retires a device is final: under the row lock the checked status   *)
(* is still the row's when the PATCH commits.                              *)
THEOREM RetiredHolds == Spec => RetiredIsFinal
<1>1. Init => Locks BY DEF Init, Locks, NoRequest
<1>2. Typed /\ Locks /\ [Next]_vars
          => [\A s \in Screens : device[s] = "retired" => device'[s] = "retired"]_vars
  <2> SUFFICES ASSUME Typed, Locks, [Next]_vars, NEW s \in Screens, device[s] = "retired"
               PROVE  device'[s] = "retired"
    OBVIOUS
  <2>0. device \in [Screens -> Statuses \cup {NoRow}] /\ request \in [Admins -> Requests] /\ NoRow # "retired"
    BY DEF Typed, TypeOK
  <2>1. CASE Folding /\ UNCHANGED registryVars BY <2>1 DEF registryVars
  <2>2. CASE UNCHANGED vars BY <2>2 DEF vars
  <2>3. ASSUME NEW a \in Admins, NEW t \in Screens, Create(a, t) PROVE device'[s] = "retired"
    BY <2>0, <2>3 DEF Create, Write
  <2>4. ASSUME NEW a \in Admins, AdoptCommit(a) PROVE device'[s] = "retired"
    BY <2>0, <2>4 DEF AdoptCommit, Write
  <2>5. ASSUME NEW a \in Admins, PatchCommit(a) PROVE device'[s] = "retired"
    BY <2>0, <2>5 DEF PatchCommit, Write, Locks, Allowed
  <2>6. ASSUME NEW a \in Admins, NEW req, Open(a, req) PROVE device'[s] = "retired"
    BY <2>6 DEF Open
  <2> QED BY <2>1, <2>2, <2>3, <2>4, <2>5, <2>6, TwoSides
          DEF Administration, AdoptConflict, Rollback, AdoptLock, PatchLock
<1> QED BY InitTyped, StepTyped, StepLocks, <1>1, <1>2, PTL DEF Spec, RetiredIsFinal

-----------------------------------------------------------------------------
(* The cache.                                                              *)
LEMMA AdministrationFresh ==
    ASSUME Typed, Fresh, ScopeIsRecent, Administration, UNCHANGED projectorVars
    PROVE  Fresh' /\ ScopeIsRecent'
<1>0. answers \in [Screens -> SUBSET {"resolved", "null"}] /\ device \in [Screens -> Statuses \cup {NoRow}]
      /\ request \in [Admins -> Requests] /\ log \in [1 .. MaxEvents -> Screens]
  BY DEF Typed, TypeOK
<1>1. ASSUME \A s \in Screens : answers[s] \subseteq answers'[s] /\ Answer(device', s) \in answers'[s]
      PROVE  Fresh' /\ ScopeIsRecent'
  <2>1. batch.pc # "idle" => /\ \A i \in cursor + 1 .. batch.at - 1 : log[i] \in Screens
                             /\ batch.pc \in {"unknown", "handling"} => log[batch.at] \in Screens
    <3>1. /\ batch.at \in 0 .. MaxEvents + 1 /\ cursor \in 0 .. MaxEvents /\ MaxEvents \in Nat
          /\ batch.pc # "idle" => cursor < batch.at
          /\ batch.pc \in {"unknown", "handling"} => batch.at <= MaxEvents
      BY DEF Typed, TypeOK, Position, Batches
    <3>2. \A i \in cursor + 1 .. batch.at - 1 : i \in 1 .. MaxEvents BY <3>1
    <3>3. batch.pc \in {"unknown", "handling"} => batch.at \in 1 .. MaxEvents BY <3>1
    <3> QED BY <1>0, <3>2, <3>3
  <2>2. Fresh' BY <1>1, <2>1 DEF Fresh, projectorVars
  <2>3. ScopeIsRecent' BY <1>1, <2>1 DEF ScopeIsRecent, projectorVars
  <2> QED BY <2>2, <2>3
<1>2. ASSUME batch.pc = "idle" PROVE Fresh' /\ ScopeIsRecent'
  BY <1>2 DEF Fresh, ScopeIsRecent, projectorVars
<1>3. ASSUME batch.pc # "idle", NEW s \in Screens, NEW to, NEW entries, Write(s, to, entries)
      PROVE  Fresh' /\ ScopeIsRecent'
  <2>1. \A t \in Screens : Answer(device, t) \in answers[t] BY <1>3 DEF Fresh
  <2>2. answers' = [answers EXCEPT ![s] = @ \cup {Answer(device', s)}] BY <1>3 DEF Write
  <2>3. \A t \in Screens \ {s} : device'[t] = device[t] BY <1>0, <1>3 DEF Write
  <2>4. \A t \in Screens \ {s} : Answer(device', t) = Answer(device, t) BY <2>3 DEF Answer
  <2> QED BY <1>0, <1>1, <2>1, <2>2, <2>4
<1>4. ASSUME batch.pc # "idle", NEW a \in Admins, NEW req, Open(a, req) PROVE Fresh' /\ ScopeIsRecent'
  BY <1>1, <1>4 DEF Open, Fresh, Answer
<1>5. \A a \in Admins : request[a].pc # "idle" => request[a].screen \in Screens
  BY <1>0 DEF Requests
<1> QED BY <1>2, <1>3, <1>4, <1>5
        DEF Administration, AdoptCommit, AdoptConflict, PatchCommit, Rollback, Create, AdoptLock, PatchLock

LEMMA FoldingFresh ==
    ASSUME Typed, Fresh, ScopeIsRecent, Folding, UNCHANGED registryVars
    PROVE  Fresh' /\ ScopeIsRecent'
<1>0. answers \in [Screens -> SUBSET {"resolved", "null"}] /\ batch \in Batches
      /\ log \in [1 .. MaxEvents -> Screens] /\ cursor \in 0 .. MaxEvents
  BY DEF Typed, TypeOK
<1>1. CASE BeginBatch
  <2>1. /\ \A s \in Screens : Answer(device', s) = Answer(device, s) /\ answers'[s] = {Answer(device, s)}
        /\ log' = log /\ cursor' = cursor
    BY <1>1 DEF BeginBatch, Answer, registryVars
  <2>2. /\ batch'.pc = "ready" /\ batch'.at = cursor + 1
        /\ \A s \in Screens : batch'.cache[s] = "none" /\ batch'.seen[s] = 0
    BY <1>1 DEF BeginBatch, NoBatch
  <2> QED BY <1>0, <2>1, <2>2 DEF Fresh, ScopeIsRecent
<1>2. CASE ResolveCached \/ FetchFound
  <2> DEFINE s == log[batch.at]
             got == IF batch.cache[s] # "none" THEN batch.cache[s] ELSE "resolved"
  <2>1. s \in Screens /\ batch.pc = "ready" /\ UNCHANGED inBatch
    BY <1>0, <1>2 DEF ResolveCached, FetchFound, Typed, Position, Batches
  <2>2. got \in answers[s] BY <1>2, <2>1 DEF Fresh, ResolveCached, FetchFound
  <2>3. /\ batch'.pc = "handling" /\ batch'.got = got /\ batch'.at = batch.at
        /\ batch'.scope = batch.scope /\ batch'.seen = batch.seen
        /\ \A t \in Screens : batch'.cache[t] = IF t = s THEN got ELSE batch.cache[t]
    <3>1. CASE ResolveCached BY <1>0, <2>1, <3>1 DEF ResolveCached, Batches
    <3>2. CASE FetchFound BY <1>0, <2>1, <3>2 DEF FetchFound, Batches
    <3> QED BY <1>2, <3>1, <3>2
  <2>4. \A t \in Screens : Answer(device', t) = Answer(device, t) BY <2>1 DEF inBatch, registryVars
  <2> HIDE DEF got
  <2>5. Fresh' BY <2>1, <2>2, <2>3, <2>4 DEF Fresh, inBatch
  <2>6. ScopeIsRecent' BY <2>1, <2>3 DEF ScopeIsRecent, inBatch
  <2> QED BY <2>5, <2>6
<1>3. CASE FetchUnknown
  <2>1. log[batch.at] \in Screens BY <1>0, <1>3 DEF FetchUnknown, Typed, Position, Batches
  <2>2. "null" \in answers[log[batch.at]] BY <1>3, <2>1 DEF Fresh, FetchUnknown
  <2>3. /\ batch'.pc = "unknown" /\ batch'.at = batch.at /\ batch'.scope = batch.scope
        /\ batch'.seen = batch.seen /\ batch'.cache = batch.cache /\ batch.pc = "ready" /\ UNCHANGED inBatch
    BY <1>0, <1>3 DEF FetchUnknown, Batches
  <2>4. \A t \in Screens : Answer(device', t) = Answer(device, t) BY <2>3 DEF inBatch, registryVars
  <2>5. Fresh' BY <2>2, <2>3, <2>4 DEF Fresh, inBatch
  <2>6. ScopeIsRecent' BY <2>3 DEF ScopeIsRecent, inBatch
  <2> QED BY <2>5, <2>6
<1>4. CASE RecordUnresolved
  <2> DEFINE s == log[batch.at]
  <2>1. s \in Screens BY <1>0, <1>4 DEF RecordUnresolved, Typed, Position, Batches
  <2>2. "null" \in answers[s] BY <1>4 DEF Fresh, RecordUnresolved
  <2>3. /\ batch'.pc = "handling" /\ batch'.got = "null" /\ batch'.at = batch.at
        /\ batch'.scope = batch.scope /\ batch.pc = "unknown" /\ UNCHANGED inBatch
        /\ \A t \in Screens : batch'.cache[t] = IF t = s THEN "null" ELSE batch.cache[t]
        /\ \A t \in Screens : t # s => batch'.seen[t] = batch.seen[t]
    BY <1>0, <1>4, <2>1 DEF RecordUnresolved, Batches
  <2>4. \A t \in Screens : Answer(device', t) = Answer(device, t) BY <2>3 DEF inBatch, registryVars
  <2>5. Fresh' BY <2>1, <2>2, <2>3, <2>4 DEF Fresh, inBatch
  <2>6. ScopeIsRecent' BY <2>1, <2>2, <2>3 DEF ScopeIsRecent, inBatch
  <2> QED BY <2>5, <2>6
<1>5. CASE Stamp \/ Raise
  <2> DEFINE stamp == IF Stamp THEN batch.got ELSE "skipped"
  <2>1. log[batch.at] \in Screens /\ batch.at \in 1 .. MaxEvents /\ cursor < batch.at
    BY <1>0, <1>5 DEF Stamp, Raise, Typed, Position, Batches
  <2>2. stamp \in {"skipped"} \cup answers[log[batch.at]] BY <1>5 DEF Fresh, Stamp, Raise
  <2>3. /\ batch'.pc = "ready" /\ batch'.at = batch.at + 1 /\ batch'.cache = batch.cache
        /\ batch.pc # "idle" /\ UNCHANGED inBatch
    BY <1>0, <1>5 DEF Stamp, Raise, Batches
  <2>4. batch'.scope = [batch.scope EXCEPT ![batch.at] = stamp]
    <3>1. CASE Stamp BY <1>0, <3>1 DEF Stamp, Batches
    <3>2. CASE Raise
      <4>2. batch'.scope[batch.at] = "skipped" BY <1>0, <2>1, <3>2 DEF Raise, Batches
      <4>3. Stamp => batch'.scope[batch.at] = batch.got BY <1>0, <2>1 DEF Stamp, Batches
      <4>4. batch.got # "skipped" BY <1>0 DEF Batches
      <4>1. ~Stamp BY <4>2, <4>3, <4>4
      <4> QED BY <1>0, <3>2, <4>1 DEF Raise, Batches
    <3> QED BY <1>5, <3>1, <3>2
  <2>5. \A t \in Screens : batch'.seen[t] > 0 => batch.seen[t] > 0
    <3>1. CASE Stamp BY <1>0, <3>1 DEF Stamp, Batches
    <3>2. CASE Raise BY <1>0, <2>1, <3>2 DEF Raise, Batches
    <3> QED BY <1>5, <3>1, <3>2
  <2>6. \A t \in Screens : Answer(device', t) = Answer(device, t) BY <2>3 DEF inBatch, registryVars
  <2> HIDE DEF stamp
  <2>7. Fresh' BY <2>3, <2>6 DEF Fresh, inBatch
  <2>8. \A i \in cursor + 1 .. batch.at : batch'.scope[i] \in {"skipped"} \cup answers[log[i]]
    <3> SUFFICES ASSUME NEW i \in cursor + 1 .. batch.at
                 PROVE  batch'.scope[i] \in {"skipped"} \cup answers[log[i]]
      OBVIOUS
    <3>1. batch.at \in Int /\ cursor \in Int /\ i \in 1 .. MaxEvents BY <1>0, <2>1
    <3>2. batch.scope \in [1 .. MaxEvents -> Scopes] BY <1>0 DEF Batches
    <3>3. CASE i = batch.at BY <2>1, <2>2, <2>4, <3>2, <3>3
    <3>4. CASE i # batch.at
      <4>1. i \in cursor + 1 .. batch.at - 1 BY <3>1, <3>4
      <4>2. batch'.scope[i] = batch.scope[i] BY <2>4, <3>1, <3>2, <3>4
      <4> QED BY <2>3, <4>1, <4>2 DEF ScopeIsRecent
    <3> QED BY <3>3, <3>4
  <2>9. ScopeIsRecent' BY <1>0, <2>1, <2>3, <2>5, <2>8 DEF ScopeIsRecent, inBatch
  <2> QED BY <2>7, <2>9
<1>6. CASE CommitBatch \/ AbortBatch
  BY <1>6 DEF CommitBatch, AbortBatch, NoBatch, Fresh, ScopeIsRecent
<1>7. ASSUME NEW t \in Screens, Expire(t) PROVE Fresh' /\ ScopeIsRecent'
  <2>1. /\ batch'.pc = "ready" /\ batch.pc = "ready" /\ batch'.at = batch.at /\ batch'.scope = batch.scope
        /\ batch'.seen = batch.seen /\ UNCHANGED inBatch
        /\ \A s \in Screens : batch'.cache[s] \in {"none", batch.cache[s]}
    BY <1>0, <1>7 DEF Expire, Batches
  <2>2. \A s \in Screens : Answer(device', s) = Answer(device, s) BY <2>1 DEF inBatch, registryVars
  <2>3. Fresh' BY <2>1, <2>2 DEF Fresh, inBatch
  <2>4. ScopeIsRecent' BY <2>1 DEF ScopeIsRecent, inBatch
  <2> QED BY <2>3, <2>4
<1> QED BY <1>1, <1>2, <1>3, <1>4, <1>5, <1>6, <1>7 DEF Folding

(* No scope is stamped, and no device recorded as unknown, on an answer    *)
(* from before the batch: the cache lives and dies with its resolver.      *)
THEOREM ScopeIsRecentHolds == Spec => []ScopeIsRecent
<1>1. Init => Fresh /\ ScopeIsRecent BY DEF Init, NoBatch, Fresh, ScopeIsRecent
<1>2. Typed /\ Fresh /\ ScopeIsRecent /\ [Next]_vars => Fresh' /\ ScopeIsRecent'
  <2> SUFFICES ASSUME Typed, Fresh, ScopeIsRecent, [Next]_vars PROVE Fresh' /\ ScopeIsRecent' OBVIOUS
  <2>1. CASE UNCHANGED vars
    <3>1. Fresh' BY <2>1 DEF Fresh, Answer, vars
    <3>2. ScopeIsRecent' BY <2>1 DEF ScopeIsRecent, vars
    <3> QED BY <3>1, <3>2
  <2> QED BY <2>1, TwoSides, FoldingFresh, AdministrationFresh
<1> QED BY InitTyped, StepTyped, <1>1, <1>2, PTL DEF Spec

-----------------------------------------------------------------------------
(* The audit trail.  An entry that begins at the device's row and is       *)
(* written with it keeps the chain.                                        *)
LEMMA ChainExtended ==
    ASSUME Typed, JournalMatchesRegistry, NEW s \in Screens, NEW to \in Statuses,
           NEW action \in {"create", "adopt", "lifecycle"}, NEW n \in Nat,
           journal' = journal \o <<Entry(s, action, device[s], to, n)>>,
           device' = [device EXCEPT ![s] = to]
    PROVE  JournalMatchesRegistry'
<1> DEFINE new == Len(journal) + 1
<1>1. /\ journal \in Seq(EntryType) /\ device \in [Screens -> Statuses \cup {NoRow}]
      /\ NoRow \notin Statuses
  BY DEF Typed, TypeOK, EntryType, Statuses
<1>2. /\ Len(journal) \in Nat /\ DOMAIN journal = 1 .. Len(journal)
      /\ DOMAIN journal' = 1 .. new
      /\ \A i \in 1 .. Len(journal) : journal'[i] = journal[i]
      /\ journal'[new] = Entry(s, action, device[s], to, n)
  BY <1>1
<1>3. /\ journal'[new].screen = s /\ journal'[new].from = device[s] /\ journal'[new].to = to
  BY <1>2 DEF Entry
<1> HIDE DEF new
<1>4. \A t \in Screens : Entries(t) \subseteq 1 .. Len(journal)
  BY <1>2 DEF Entries
<1>5. \A t \in Screens \ {s} : Entries(t)' = Entries(t)
  BY <1>2, <1>3 DEF Entries, new
<1>6. Entries(s)' = Entries(s) \cup {new}
  BY <1>2, <1>3 DEF Entries, new
<1>7. \A i \in Entries(s) : i < new /\ i \in Int /\ i # new
  BY <1>2, <1>4 DEF new
<1>8. new \in Int
  BY <1>2 DEF new
<1>9. ASSUME NEW t \in Screens \ {s}
      PROVE  /\ device'[t] = NoRow <=> Entries(t)' = {}
             /\ \A i \in Entries(t)' :
                   /\ (\A j \in Entries(t)' : i <= j) => journal'[i].from = NoRow
                   /\ (\A j \in Entries(t)' : j <= i) => journal'[i].to = device'[t]
                   /\ \A j \in Entries(t)' :
                         j < i /\ (\A k \in Entries(t)' : k <= j \/ i <= k)
                             => journal'[i].from = journal'[j].to
  <2>1. device'[t] = device[t] /\ \A i \in Entries(t) : journal'[i] = journal[i]
    BY <1>1, <1>2, <1>4
  <2>2. /\ device[t] = NoRow <=> Entries(t) = {}
        /\ \A i \in Entries(t) :
              /\ (\A j \in Entries(t) : i <= j) => journal[i].from = NoRow
              /\ (\A j \in Entries(t) : j <= i) => journal[i].to = device[t]
              /\ \A j \in Entries(t) :
                    j < i /\ (\A k \in Entries(t) : k <= j \/ i <= k)
                        => journal[i].from = journal[j].to
    BY DEF JournalMatchesRegistry
  <2>3. Entries(t)' = Entries(t)
    BY <1>5
  <2> HIDE DEF new
  <2>4. device'[t] = NoRow <=> Entries(t)' = {}
    BY <2>1, <2>2, <2>3
  <2>5. ASSUME NEW i \in Entries(t)', \A j \in Entries(t)' : i <= j
        PROVE  journal'[i].from = NoRow
    BY <2>1, <2>2, <2>3, <2>5
  <2>6. ASSUME NEW i \in Entries(t)', \A j \in Entries(t)' : j <= i
        PROVE  journal'[i].to = device'[t]
    BY <2>1, <2>2, <2>3, <2>6
  <2>7. ASSUME NEW i \in Entries(t)', NEW j \in Entries(t)', j < i,
               \A k \in Entries(t)' : k <= j \/ i <= k
        PROVE  journal'[i].from = journal'[j].to
    BY <2>1, <2>2, <2>3, <2>7
  <2> QED
    BY <2>4, <2>5, <2>6, <2>7
<1>10. device'[s] = to /\ \A i \in Entries(s) : journal'[i] = journal[i]
  BY <1>1, <1>2, <1>4
<1>11. device'[s] = NoRow <=> Entries(s)' = {}
  BY <1>1, <1>6, <1>10
<1>12. ASSUME NEW i \in Entries(s)', \A j \in Entries(s)' : i <= j
       PROVE  journal'[i].from = NoRow
  <2>1. CASE i = new
    <3>1. Entries(s) = {}
      BY <1>6, <1>7, <1>8, <1>12, <2>1
    <3> QED
      BY <1>3, <2>1, <3>1 DEF JournalMatchesRegistry
  <2>2. CASE i \in Entries(s)
    BY <1>6, <1>10, <1>12, <2>2 DEF JournalMatchesRegistry
  <2> QED
    BY <1>6, <2>1, <2>2
<1>13. ASSUME NEW i \in Entries(s)', \A j \in Entries(s)' : j <= i
       PROVE  journal'[i].to = device'[s]
  <2>1. new <= i
    BY <1>6, <1>13
  <2>2. i = new
    BY <1>6, <1>7, <1>8, <2>1
  <2> QED
    BY <1>3, <1>10, <2>2
<1>14. ASSUME NEW i \in Entries(s)', NEW j \in Entries(s)', j < i,
              \A k \in Entries(s)' : k <= j \/ i <= k
       PROVE  journal'[i].from = journal'[j].to
  <2>1. j \in Entries(s)
    BY <1>6, <1>7, <1>8, <1>14
  <2>2. CASE i = new
    <3>1. \A k \in Entries(s) : k <= j
      BY <1>6, <1>7, <1>8, <1>14, <2>2
    <3>2. journal[j].to = device[s]
      BY <2>1, <3>1 DEF JournalMatchesRegistry
    <3> QED
      BY <1>3, <1>10, <2>1, <2>2, <3>2
  <2>3. CASE i \in Entries(s)
    <3>1. \A k \in Entries(s) : k <= j \/ i <= k
      BY <1>6, <1>14
    <3>2. journal[i].from = journal[j].to
      BY <1>14, <2>1, <2>3, <3>1 DEF JournalMatchesRegistry
    <3> QED
      BY <1>10, <2>1, <2>3, <3>2
  <2> QED
    BY <1>6, <2>2, <2>3
<1> QED
  BY <1>9, <1>11, <1>12, <1>13, <1>14 DEF JournalMatchesRegistry

LEMMA ChainKept ==
    ASSUME JournalMatchesRegistry, UNCHANGED <<device, journal>>
    PROVE  JournalMatchesRegistry'
BY DEF JournalMatchesRegistry, Entries

LEMMA StepChain == Typed /\ Locks /\ JournalMatchesRegistry /\ [Next]_vars => JournalMatchesRegistry'
<1> SUFFICES ASSUME Typed, Locks, JournalMatchesRegistry, [Next]_vars
             PROVE  JournalMatchesRegistry'
  OBVIOUS
<1>0. /\ request \in [Admins -> Requests] /\ device \in [Screens -> Statuses \cup {NoRow}]
      /\ journal \in Seq(EntryType)
  BY DEF Typed, TypeOK, EntryType
<1>1. CASE Folding /\ UNCHANGED registryVars
  BY <1>1, ChainKept DEF registryVars
<1>2. CASE UNCHANGED vars
  BY <1>2, ChainKept DEF vars
<1>3. ASSUME NEW a \in Admins, NEW req, Open(a, req) PROVE JournalMatchesRegistry'
  BY <1>3, ChainKept DEF Open
<1>4. ASSUME NEW a \in Admins, NEW s \in Screens, Create(a, s) PROVE JournalMatchesRegistry'
  BY <1>4, ChainExtended DEF Create, Write, Statuses
<1>5. ASSUME NEW a \in Admins, AdoptCommit(a) PROVE JournalMatchesRegistry'
  <2>1. request[a].screen \in Screens /\ request[a].seen \in Nat
    BY <1>0, <1>5 DEF AdoptCommit, Requests
  <2> QED
    BY <1>5, <2>1, ChainExtended DEF AdoptCommit, Write, Statuses
<1>6. ASSUME NEW a \in Admins, PatchCommit(a) PROVE JournalMatchesRegistry'
  <2> DEFINE r == request[a]
  <2>1. /\ r.screen \in Screens /\ r.to \in Statuses /\ device[r.screen] = r.before
        /\ device' = [device EXCEPT ![r.screen] = r.to]
        /\ journal' = journal \o (IF r.before # r.to
                                  THEN <<Entry(r.screen, "lifecycle", r.before, r.to, 0)>> ELSE <<>>)
    BY <1>0, <1>6 DEF PatchCommit, Write, Requests, Locks
  <2> HIDE DEF r
  <2>2. CASE r.before # r.to
    BY <2>1, <2>2, ChainExtended
  <2>3. CASE r.before = r.to
    <3>1. journal' = journal
      BY <1>0, <2>1, <2>3
    <3>2. device' = device
      BY <1>0, <2>1, <2>3
    <3> QED
      BY <3>1, <3>2, ChainKept
  <2> QED
    BY <2>2, <2>3
<1> QED
  BY <1>1, <1>2, <1>3, <1>4, <1>5, <1>6, TwoSides
  DEF Administration, AdoptConflict, Rollback, AdoptLock, PatchLock

(* Every write of a device is in the audit trail, in the order in which it *)
(* happened, and nothing else is: the row lock makes the status that is    *)
(* journalled as the old one the one that is replaced.                     *)
THEOREM JournalMatchesRegistryHolds == Spec => []JournalMatchesRegistry
<1>1. Init => Locks /\ JournalMatchesRegistry
  BY DEF Init, Locks, NoRequest, JournalMatchesRegistry, Entries
<1> QED
  BY InitTyped, StepTyped, StepLocks, StepChain, <1>1, PTL DEF Spec

-----------------------------------------------------------------------------
(* The sightings.                                                          *)
Adoptions(s) == {i \in Entries(s) : journal[i].action = "adopt"}
Listing(s) == IF unresolved[s] = NoRow THEN 0 ELSE unresolved[s]

(* An open adoption holds its row: the count it has read is the one that   *)
(* is there, no batch has bumped it, and no other adoption has it.         *)
RowLocks ==
    /\ \A a \in Admins : request[a].pc = "adopting" =>
          /\ request[a].locked
          /\ unresolved[request[a].screen] = request[a].seen
          /\ batch.pc # "idle" => batch.seen[request[a].screen] = 0
    /\ \A a, b \in Admins :
          (request[a].pc = "adopting" /\ request[b].pc = "adopting"
              /\ request[a].screen = request[b].screen) => a = b

(* As long as nobody writes to the journal, the rows account for the new   *)
(* sightings.                                                              *)
LEMMA Bumped ==
    ASSUME Typed, NoSightingLost, journal' = journal, NEW n \in [Screens -> Nat],
           \A s \in Screens : /\ Listing(s)' = Listing(s) + n[s]
                              /\ sightings'[s] = sightings[s] + n[s]
    PROVE  NoSightingLost'
<1>1. /\ journal \in Seq(EntryType) /\ sightings \in [Screens -> Nat]
      /\ \A s \in Screens : Listing(s) \in Nat
  BY DEF Typed, TypeOK, EntryType, Listing
<1>2. \A s \in Screens : /\ Entries(s)' = Entries(s)
                         /\ \A i \in Entries(s) : journal[i].seen \in Nat
  <2>1. \A s \in Screens : Entries(s)' = Entries(s)
    BY DEF Entries
  <2>2. \A i \in DOMAIN journal : journal[i] \in EntryType
    BY <1>1
  <2> QED
    BY <2>1, <2>2 DEF Entries, EntryType
<1>3. ASSUME NEW s \in Screens
      PROVE  /\ Adoptions(s)' = {} => sightings'[s] = Listing(s)'
             /\ \A i \in Adoptions(s)' : sightings'[s] = Listing(s)' + journal'[i].seen
  <2>1. Adoptions(s)' = Adoptions(s)
    BY <1>2 DEF Adoptions
  <2>2. Adoptions(s) = {} => sightings[s] = Listing(s)
    BY DEF NoSightingLost, Adoptions, Listing
  <2>3. \A i \in Adoptions(s) : sightings[s] = Listing(s) + journal[i].seen /\ journal[i].seen \in Nat
    BY <1>2 DEF NoSightingLost, Adoptions, Listing
  <2>4. n[s] \in Nat /\ Listing(s) \in Nat /\ sightings[s] \in Nat
    BY <1>1
  <2>5. sightings'[s] = sightings[s] + n[s] /\ Listing(s)' = Listing(s) + n[s]
    OBVIOUS
  <2>6. Adoptions(s)' = {} => sightings'[s] = Listing(s)'
    BY <2>1, <2>2, <2>5
  <2>7. ASSUME NEW i \in Adoptions(s)'
        PROVE  sightings'[s] = Listing(s)' + journal'[i].seen
    <3>1. sightings[s] = Listing(s) + journal[i].seen /\ journal[i].seen \in Nat
      BY <2>1, <2>3, <2>7
    <3>2. journal'[i].seen = journal[i].seen
      OBVIOUS
    <3> HIDE DEF Listing
    <3> QED
      BY <2>4, <2>5, <3>1, <3>2
  <2> QED
    BY <2>6, <2>7
<1> QED
  BY <1>3 DEF NoSightingLost, Adoptions, Listing

LEMMA SightingsKept ==
    ASSUME NoSightingLost, UNCHANGED <<journal, unresolved, sightings>>
    PROVE  NoSightingLost'
BY DEF NoSightingLost, Entries

(* The adoptions after one more entry.                                     *)
LEMMA AdoptionsExtended ==
    ASSUME Typed, NEW s \in Screens, NEW to \in Statuses, NEW from \in Statuses \cup {NoRow},
           NEW action \in {"create", "adopt", "lifecycle"}, NEW n \in Nat,
           journal' = journal \o <<Entry(s, action, from, to, n)>>
    PROVE  /\ \A t \in Screens : \A i \in Adoptions(t) : journal'[i].seen = journal[i].seen
           /\ \A t \in Screens \ {s} : Adoptions(t)' = Adoptions(t)
           /\ action # "adopt" => Adoptions(s)' = Adoptions(s)
           /\ \A i \in Adoptions(s)' : i \in Adoptions(s) \/ journal'[i].seen = n
           /\ action = "adopt" => Adoptions(s)' # {}
<1> DEFINE new == Len(journal) + 1
<1>1. journal \in Seq(EntryType)
  BY DEF Typed, TypeOK, EntryType
<1>2. /\ Len(journal) \in Nat /\ DOMAIN journal = 1 .. Len(journal)
      /\ DOMAIN journal' = 1 .. new
      /\ \A i \in 1 .. Len(journal) : journal'[i] = journal[i]
      /\ journal'[new] = Entry(s, action, from, to, n)
  BY <1>1
<1>3. /\ journal'[new].screen = s /\ journal'[new].action = action /\ journal'[new].seen = n
  BY <1>2 DEF Entry
<1>4. DOMAIN journal' = DOMAIN journal \cup {new}
  BY <1>2
<1> HIDE DEF new
<1>5. \A t \in Screens : \A i : i \in Adoptions(t) <=>
            i \in DOMAIN journal /\ journal'[i].screen = t /\ journal'[i].action = "adopt"
  BY <1>2 DEF Adoptions, Entries
<1>6. \A t \in Screens : \A i : i \in Adoptions(t)' <=>
            i \in DOMAIN journal' /\ journal'[i].screen = t /\ journal'[i].action = "adopt"
  BY DEF Adoptions, Entries
<1>7. \A t \in Screens : \A i \in Adoptions(t) : journal'[i].seen = journal[i].seen
  BY <1>2, <1>5
<1>8. \A t \in Screens \ {s} : Adoptions(t)' = Adoptions(t)
  <2> TAKE t \in Screens \ {s}
  <2>1. \A i : i \in Adoptions(t)' <=> i \in Adoptions(t)
    BY <1>3, <1>4, <1>5, <1>6
  <2> QED
    BY <2>1 DEF Adoptions
<1>9. action # "adopt" => Adoptions(s)' = Adoptions(s)
  <2> SUFFICES ASSUME action # "adopt" PROVE Adoptions(s)' = Adoptions(s)
    OBVIOUS
  <2>1. \A i : i \in Adoptions(s)' <=> i \in Adoptions(s)
    BY <1>3, <1>4, <1>5, <1>6
  <2> QED
    BY <2>1 DEF Adoptions
<1>10. \A i \in Adoptions(s)' : i \in Adoptions(s) \/ journal'[i].seen = n
  BY <1>3, <1>4, <1>5, <1>6
<1>11. action = "adopt" => Adoptions(s)' # {}
  BY <1>3, <1>4, <1>6
<1> QED
  BY <1>7, <1>8, <1>9, <1>10, <1>11

(* An entry that is no adoption changes no account.                        *)
LEMMA OtherEntry ==
    ASSUME Typed, NoSightingLost, NEW s \in Screens, NEW to \in Statuses,
           NEW from \in Statuses \cup {NoRow}, NEW action \in {"create", "lifecycle"}, NEW n \in Nat,
           journal' = journal \o <<Entry(s, action, from, to, n)>>,
           UNCHANGED <<unresolved, sightings>>
    PROVE  NoSightingLost'
<1>1. /\ \A t \in Screens : Adoptions(t)' = Adoptions(t)
      /\ \A t \in Screens : \A i \in Adoptions(t) : journal'[i].seen = journal[i].seen
  <2>1. /\ \A t \in Screens : \A i \in Adoptions(t) : journal'[i].seen = journal[i].seen
        /\ \A t \in Screens \ {s} : Adoptions(t)' = Adoptions(t)
        /\ Adoptions(s)' = Adoptions(s)
    BY AdoptionsExtended
  <2>2. ASSUME NEW t \in Screens PROVE Adoptions(t)' = Adoptions(t)
    <3>1. CASE t = s
      BY <2>1, <3>1 DEF Adoptions, Entries
    <3>2. CASE t # s
      BY <2>1, <3>2
    <3> QED
      BY <3>1, <3>2
  <2> QED
    BY <2>1, <2>2
<1>2. ASSUME NEW t \in Screens
      PROVE  /\ Adoptions(t)' = {} => sightings'[t] = Listing(t)'
             /\ \A i \in Adoptions(t)' : sightings'[t] = Listing(t)' + journal'[i].seen
  <2>1. /\ Adoptions(t) = {} => sightings[t] = Listing(t)
        /\ \A i \in Adoptions(t) : sightings[t] = Listing(t) + journal[i].seen
    BY DEF NoSightingLost, Adoptions, Listing
  <2>2. Listing(t)' = Listing(t)
    BY DEF Listing
  <2> QED
    BY <1>1, <2>1, <2>2
<1> QED
  BY <1>2 DEF NoSightingLost, Adoptions, Listing

LEMMA FoldingSightings ==
    ASSUME Typed, RowLocks, NoSightingLost, Folding, UNCHANGED registryVars
    PROVE  RowLocks' /\ NoSightingLost'
<1>0. /\ batch \in Batches /\ log \in [1 .. MaxEvents -> Screens] /\ cursor \in 0 .. MaxEvents
      /\ request \in [Admins -> Requests] /\ unresolved \in [Screens -> Nat \cup {NoRow}]
      /\ sightings \in [Screens -> Nat] /\ UNCHANGED request
  BY DEF Typed, TypeOK, registryVars
<1>1. \A a \in Admins : request[a].pc = "adopting" => request[a].screen \in Screens
  BY <1>0 DEF Requests
<1>2. CASE BeginBatch
  <2>1. UNCHANGED <<unresolved, sightings, journal>> /\ \A s \in Screens : batch'.seen[s] = 0
    BY <1>2 DEF BeginBatch, NoBatch, registryVars
  <2> QED
    BY <1>0, <1>1, <2>1, SightingsKept DEF RowLocks
<1>3. CASE ResolveCached \/ FetchFound \/ FetchUnknown \/ Stamp \/ \E s \in Screens : Expire(s)
  <2>1. UNCHANGED <<unresolved, sightings, journal>> /\ batch'.seen = batch.seen /\ batch.pc # "idle"
    BY <1>0, <1>3 DEF ResolveCached, FetchFound, FetchUnknown, Stamp, Expire, inBatch, registryVars, Batches
  <2> QED
    BY <1>0, <1>1, <2>1, SightingsKept DEF RowLocks
<1>4. CASE RecordUnresolved
  <2> DEFINE s == log[batch.at]
  <2>1. /\ s \in Screens /\ batch.pc # "idle" /\ UNCHANGED <<unresolved, sightings, journal>>
        /\ \A t \in Screens \ {s} : batch'.seen[t] = batch.seen[t]
    BY <1>0, <1>4 DEF RecordUnresolved, inBatch, registryVars, Batches, Typed, Position
  <2>2. \A a \in Admins : request[a].pc = "adopting" => request[a].screen # s
    BY <1>4 DEF RecordUnresolved, HeldByAdopter, RowLocks
  <2> HIDE DEF s
  <2> QED
    BY <1>0, <1>1, <2>1, <2>2, SightingsKept DEF RowLocks
<1>5. CASE Raise
  <2> DEFINE s == log[batch.at]
  <2>1. /\ s \in Screens /\ batch.pc # "idle" /\ UNCHANGED <<unresolved, sightings, journal>>
        /\ \A t \in Screens : batch.seen[t] = 0 => batch'.seen[t] = 0
    BY <1>0, <1>5 DEF Raise, inBatch, registryVars, Batches, Typed, Position
  <2> QED
    BY <1>0, <1>1, <2>1, SightingsKept DEF RowLocks
<1>6. CASE CommitBatch
  <2>1. /\ batch.seen \in [Screens -> Nat] /\ batch.pc # "idle" /\ batch'.pc = "idle"
        /\ journal' = journal
        /\ \A s \in Screens : /\ sightings'[s] = sightings[s] + batch.seen[s]
                              /\ unresolved'[s] = IF batch.seen[s] = 0 THEN unresolved[s]
                                                  ELSE batch.seen[s] + Listing(s)
    BY <1>0, <1>6 DEF CommitBatch, Batches, NoBatch, registryVars, Listing
  <2>2. \A s \in Screens : Listing(s)' = Listing(s) + batch.seen[s]
    <3> TAKE s \in Screens
    <3>1. batch.seen[s] \in Nat /\ Listing(s) \in Nat
      BY <1>0, <2>1 DEF Listing
    <3>2. CASE batch.seen[s] = 0
      BY <2>1, <3>1, <3>2 DEF Listing
    <3>3. CASE batch.seen[s] # 0
      <4>1. unresolved'[s] = batch.seen[s] + Listing(s) /\ unresolved'[s] \in Nat
        BY <2>1, <3>1, <3>3
      <4>2. Listing(s)' = unresolved'[s]
        BY <4>1 DEF Listing
      <4> QED
        BY <3>1, <4>1, <4>2
    <3> QED
      BY <3>2, <3>3
  <2>3. NoSightingLost'
    BY <2>1, <2>2, Bumped
  <2>4. \A a \in Admins : request[a].pc = "adopting" =>
              unresolved'[request[a].screen] = unresolved[request[a].screen]
    BY <1>1, <2>1 DEF RowLocks
  <2> QED
    BY <1>0, <2>1, <2>3, <2>4 DEF RowLocks
<1>7. CASE AbortBatch
  BY <1>0, <1>7, SightingsKept DEF AbortBatch, NoBatch, RowLocks, registryVars
<1> QED
  BY <1>2, <1>3, <1>4, <1>5, <1>6, <1>7 DEF Folding

LEMMA AdministrationSightings ==
    ASSUME Typed, RowLocks, JournalMatchesRegistry, NoSightingLost,
           Administration, UNCHANGED projectorVars
    PROVE  RowLocks' /\ NoSightingLost'
<1>0. /\ request \in [Admins -> Requests] /\ unresolved \in [Screens -> Nat \cup {NoRow}]
      /\ sightings \in [Screens -> Nat] /\ device \in [Screens -> Statuses \cup {NoRow}]
      /\ journal \in Seq(EntryType) /\ UNCHANGED <<batch, sightings>>
  BY DEF Typed, TypeOK, EntryType, projectorVars
<1>1. ASSUME NEW a \in Admins, Rollback(a) \/ AdoptConflict(a)
      PROVE  RowLocks' /\ NoSightingLost'
  <2>1. /\ request' = [request EXCEPT ![a] = NoRequest]
        /\ UNCHANGED <<journal, unresolved>>
    BY <1>1 DEF Rollback, AdoptConflict, Open
  <2>2. RowLocks'
    BY <1>0, <2>1 DEF RowLocks, NoRequest
  <2> QED
    BY <1>0, <2>1, <2>2, SightingsKept
<1>2. ASSUME NEW a \in Admins, NEW s \in Screens, Create(a, s)
      PROVE  RowLocks' /\ NoSightingLost'
  <2>1. NoSightingLost'
    BY <1>0, <1>2, OtherEntry DEF Create, Write, Statuses
  <2> QED
    BY <1>0, <1>2, <2>1 DEF Create, RowLocks
<1>3. ASSUME NEW a \in Admins, NEW s \in Screens, NEW new \in Asked, PatchLock(a, s, new)
      PROVE  RowLocks' /\ NoSightingLost'
  BY <1>0, <1>3, SightingsKept DEF PatchLock, Open, RowLocks
<1>4. ASSUME NEW a \in Admins, PatchCommit(a)
      PROVE  RowLocks' /\ NoSightingLost'
  <2> DEFINE r == request[a]
  <2>1. /\ r.screen \in Screens /\ r.to \in Statuses /\ r.before \in Statuses
        /\ UNCHANGED unresolved /\ request' = [request EXCEPT ![a] = NoRequest]
        /\ journal' = journal \o (IF r.before # r.to
                                  THEN <<Entry(r.screen, "lifecycle", r.before, r.to, 0)>> ELSE <<>>)
    BY <1>0, <1>4 DEF PatchCommit, Write, Requests
  <2>2. RowLocks'
    BY <1>0, <2>1 DEF RowLocks, NoRequest
  <2> HIDE DEF r
  <2>3. CASE r.before # r.to
    BY <1>0, <2>1, <2>2, <2>3, OtherEntry
  <2>4. CASE r.before = r.to
    <3>1. journal' = journal
      BY <1>0, <2>1, <2>4
    <3> QED
      BY <1>0, <2>1, <2>2, <3>1, SightingsKept
  <2> QED
    BY <2>3, <2>4
<1>5. ASSUME NEW a \in Admins, NEW s \in Screens, AdoptLock(a, s)
      PROVE  RowLocks' /\ NoSightingLost'
  <2>1. /\ UNCHANGED <<unresolved, journal>>
        /\ request' = [request EXCEPT ![a] =
              [pc |-> "adopting", screen |-> s, seen |-> unresolved[s], locked |-> TRUE]]
        /\ batch.pc # "idle" => ~(batch.seen[s] > 0)
        /\ \A b \in Admins : request[b].pc = "adopting" => request[b].screen # s
    BY <1>5 DEF AdoptLock, Open, HeldByAdopter, HeldByProjector, RowLocks
  <2>2. batch.pc # "idle" => batch.seen[s] = 0
    <3>1. batch.seen[s] \in Nat
      BY DEF Typed, TypeOK, Batches
    <3> QED
      BY <2>1, <3>1
  <2> QED
    BY <1>0, <2>1, <2>2, SightingsKept DEF RowLocks
<1>6. ASSUME NEW a \in Admins, AdoptCommit(a)
      PROVE  RowLocks' /\ NoSightingLost'
  <2>0. PICK s \in Screens, n \in Nat : request[a].screen = s /\ request[a].seen = n
    BY <1>0, <1>6 DEF AdoptCommit, Requests
  <2>1. /\ unresolved[s] = n /\ device[s] = NoRow
        /\ journal' = journal \o <<Entry(s, "adopt", NoRow, "offline", n)>>
        /\ unresolved' = [unresolved EXCEPT ![s] = NoRow]
        /\ request' = [request EXCEPT ![a] = NoRequest] /\ request[a].pc = "adopting"
    BY <1>0, <1>6, <2>0 DEF AdoptCommit, Write, RowLocks
  <2>2. \A b \in Admins \ {a} : request[b].pc = "adopting" => request[b].screen # s
    BY <2>0, <2>1 DEF RowLocks
  <2>3. \A b \in Admins : request[b].pc = "adopting" => request[b].screen \in Screens
    BY <1>0 DEF Requests
  <2>4. RowLocks'
    BY <1>0, <2>1, <2>2, <2>3 DEF RowLocks, NoRequest
  <2>5. Adoptions(s) = {} /\ sightings[s] = n
    BY <2>1 DEF JournalMatchesRegistry, NoSightingLost, Adoptions
  <2>6. /\ \A t \in Screens : \A i \in Adoptions(t) : journal'[i].seen = journal[i].seen
        /\ \A t \in Screens \ {s} : Adoptions(t)' = Adoptions(t)
        /\ \A i \in Adoptions(s)' : journal'[i].seen = n
        /\ Adoptions(s)' # {}
    <3>1. "offline" \in Statuses /\ NoRow \in Statuses \cup {NoRow}
      BY DEF Statuses
    <3>2. /\ \A t \in Screens : \A i \in Adoptions(t) : journal'[i].seen = journal[i].seen
          /\ \A t \in Screens \ {s} : Adoptions(t)' = Adoptions(t)
          /\ \A i \in Adoptions(s)' : i \in Adoptions(s) \/ journal'[i].seen = n
          /\ Adoptions(s)' # {}
      <4>1. journal' = journal \o <<Entry(s, "adopt", NoRow, "offline", n)>>
        BY <2>1
      <4>2. \A t \in Screens : \A i \in Adoptions(t) : journal'[i].seen = journal[i].seen
        BY <3>1, <4>1, AdoptionsExtended
      <4>3. \A t \in Screens \ {s} : Adoptions(t)' = Adoptions(t)
        BY <3>1, <4>1, AdoptionsExtended
      <4>4. \A i \in Adoptions(s)' : i \in Adoptions(s) \/ journal'[i].seen = n
        BY <3>1, <4>1, AdoptionsExtended
      <4>5. Adoptions(s)' # {}
        BY <3>1, <4>1, AdoptionsExtended
      <4> QED
        BY <4>2, <4>3, <4>4, <4>5
    <3> QED
      BY <2>5, <3>2
  <2>7. /\ Listing(s)' = 0 /\ \A t \in Screens \ {s} : Listing(t)' = Listing(t)
    <3>1. unresolved'[s] = NoRow /\ \A t \in Screens \ {s} : unresolved'[t] = unresolved[t]
      BY <1>0, <2>1
    <3> QED
      BY <3>1 DEF Listing
  <2>8. \A t \in Screens : /\ Adoptions(t) = {} => sightings[t] = Listing(t)
                           /\ \A i \in Adoptions(t) : sightings[t] = Listing(t) + journal[i].seen
    BY DEF NoSightingLost, Adoptions, Listing
  <2>9. ASSUME NEW t \in Screens
        PROVE  /\ Adoptions(t)' = {} => sightings'[t] = Listing(t)'
               /\ \A i \in Adoptions(t)' : sightings'[t] = Listing(t)' + journal'[i].seen
    <3>1. CASE t = s
      <4>1. /\ Adoptions(s)' # {}
            /\ \A i \in Adoptions(s)' : sightings'[s] = Listing(s)' + journal'[i].seen
        <5>1. sightings'[s] = n /\ Listing(s)' = 0 /\ n \in Nat
          BY <1>0, <2>5, <2>7
        <5> QED
          BY <2>6, <5>1
      <4> QED
        BY <3>1, <4>1 DEF Adoptions, Entries, Listing
    <3>2. CASE t # s
      BY <1>0, <2>6, <2>7, <2>8, <3>2
    <3> QED
      BY <3>1, <3>2
  <2>10. NoSightingLost'
    BY <2>9 DEF NoSightingLost, Adoptions, Listing
  <2> QED
    BY <2>4, <2>10
<1> QED
  BY <1>1, <1>2, <1>3, <1>4, <1>5, <1>6 DEF Administration

(* No sighting of an unknown device is lost between the projector, which   *)
(* bumps its row, and the adopter, who reads, journals and deletes it: the *)
(* row lock keeps a bump from coming between the reading and the deletion. *)
THEOREM NoSightingLostHolds == Spec => []NoSightingLost
<1>1. Init => Locks /\ RowLocks /\ JournalMatchesRegistry /\ NoSightingLost
  BY DEF Init, Locks, RowLocks, NoRequest, JournalMatchesRegistry, NoSightingLost, Entries
<1>2. Typed /\ Locks /\ JournalMatchesRegistry /\ RowLocks /\ NoSightingLost /\ [Next]_vars
         => RowLocks' /\ NoSightingLost'
  <2> SUFFICES ASSUME Typed, JournalMatchesRegistry, RowLocks, NoSightingLost, [Next]_vars
               PROVE  RowLocks' /\ NoSightingLost'
    OBVIOUS
  <2>1. CASE UNCHANGED vars
    BY <2>1, SightingsKept DEF RowLocks, vars
  <2> QED
    BY <2>1, TwoSides, FoldingSightings, AdministrationSightings
<1> QED
  BY InitTyped, StepTyped, StepLocks, StepChain, <1>1, <1>2, PTL DEF Spec

-----------------------------------------------------------------------------
(* The list of unknown devices.                                            *)
LEMMA FoldingRecorded ==
    ASSUME Typed, Recorded, NullScopeRecorded, Folding
    PROVE  Recorded' /\ NullScopeRecorded'
<1>0. batch \in Batches /\ log \in [1 .. MaxEvents -> Screens] /\ cursor \in 0 .. MaxEvents
      /\ batch.at \in 0 .. MaxEvents + 1 /\ MaxEvents \in Nat
  BY DEF Typed, TypeOK, Batches
<1>1. CASE BeginBatch
  <2>1. batch'.at = cursor + 1 /\ batch'.pc = "ready" /\ UNCHANGED <<log, cursor>>
        /\ \A s \in Screens : batch'.cache[s] = "none"
    BY <1>1 DEF BeginBatch, NoBatch
  <2> QED BY <1>0, <2>1 DEF Recorded, NullScopeRecorded
<1>2. ASSUME batch.pc # "idle", UNCHANGED <<log, cursor>>, batch'.at = batch.at,
             batch'.scope = batch.scope, \A s \in Screens : batch.seen[s] > 0 => batch'.seen[s] > 0
      PROVE  NullScopeRecorded' /\ \A s \in Screens : Listed(s) => Listed(s)'
  <2>1. \A i \in cursor + 1 .. batch.at - 1 : log[i] \in Screens
    BY <1>0
  <2>2. NullScopeRecorded' BY <1>2, <2>1 DEF NullScopeRecorded
  <2>3. \A s \in Screens : Listed(s) => Listed(s)' BY <1>2 DEF Listed
  <2> QED BY <2>2, <2>3
<1>3. CASE ResolveCached \/ FetchFound
  <2> DEFINE s == log[batch.at]
             got == IF batch.cache[s] # "none" THEN batch.cache[s] ELSE "resolved"
  <2>1. s \in Screens /\ batch.pc = "ready" /\ UNCHANGED <<log, cursor>>
    BY <1>0, <1>3 DEF ResolveCached, FetchFound, inBatch, Typed, Position
  <2>2. /\ batch'.pc = "handling" /\ batch'.got = got /\ batch'.at = batch.at
        /\ batch'.scope = batch.scope /\ batch'.seen = batch.seen
        /\ \A t \in Screens : batch'.cache[t] = IF t = s THEN got ELSE batch.cache[t]
    <3>1. CASE ResolveCached BY <1>0, <2>1, <3>1 DEF ResolveCached, Batches
    <3>2. CASE FetchFound BY <1>0, <2>1, <3>2 DEF FetchFound, Batches
    <3> QED BY <1>3, <3>1, <3>2
  <2>3. got = "null" => Listed(s) BY <2>1 DEF Recorded
  <2>4. NullScopeRecorded' /\ \A t \in Screens : Listed(t) => Listed(t)' BY <1>2, <2>1, <2>2
  <2>5. \A t \in Screens : batch'.cache[t] = "null" => Listed(t)
    BY <2>1, <2>2, <2>3 DEF Recorded
  <2> HIDE DEF got
  <2>6. log'[batch'.at] = s BY <2>1, <2>2
  <2> QED BY <2>1, <2>2, <2>3, <2>4, <2>5, <2>6 DEF Recorded
<1>4. CASE FetchUnknown
  <2>1. /\ batch'.pc = "unknown" /\ batch'.at = batch.at /\ batch'.scope = batch.scope
        /\ batch'.seen = batch.seen /\ batch'.cache = batch.cache /\ batch.pc = "ready"
        /\ UNCHANGED <<log, cursor>>
    BY <1>0, <1>4 DEF FetchUnknown, inBatch, Batches
  <2>2. NullScopeRecorded' /\ \A t \in Screens : Listed(t) => Listed(t)' BY <1>2, <2>1
  <2> QED BY <2>1, <2>2 DEF Recorded
<1>5. CASE RecordUnresolved
  <2> DEFINE s == log[batch.at]
  <2>1. s \in Screens BY <1>0, <1>5 DEF RecordUnresolved, Typed, Position
  <2>2. /\ batch'.pc = "handling" /\ batch'.at = batch.at
        /\ batch'.scope = batch.scope /\ batch.pc = "unknown" /\ UNCHANGED <<log, cursor>>
        /\ \A t \in Screens : batch'.cache[t] = IF t = s THEN "null" ELSE batch.cache[t]
        /\ \A t \in Screens : batch'.seen[t] = IF t = s THEN batch.seen[t] + 1 ELSE batch.seen[t]
        /\ \A t \in Screens : batch.seen[t] \in Nat
    BY <1>0, <1>5, <2>1 DEF RecordUnresolved, inBatch, Batches
  <2>3. NullScopeRecorded' /\ \A t \in Screens : Listed(t) => Listed(t)' BY <1>2, <2>2
  <2>4. Listed(s)' BY <2>1, <2>2 DEF Listed
  <2>5. \A t \in Screens : batch'.cache[t] = "null" => Listed(t)'
    BY <2>2, <2>3, <2>4 DEF Recorded
  <2>6. log'[batch'.at] = s BY <2>2
  <2> QED BY <2>2, <2>3, <2>4, <2>5, <2>6 DEF Recorded, Listed
<1>6. CASE Stamp
  <2> DEFINE s == log[batch.at]
  <2>1. s \in Screens /\ batch.at \in 1 .. MaxEvents /\ cursor < batch.at
    BY <1>0, <1>6 DEF Stamp, Typed, Position
  <2>2. /\ batch'.pc = "ready" /\ batch'.at = batch.at + 1 /\ batch'.cache = batch.cache
        /\ batch'.seen = batch.seen /\ batch.pc = "handling" /\ UNCHANGED <<log, cursor>>
        /\ batch'.scope = [batch.scope EXCEPT ![batch.at] = batch.got]
    BY <1>0, <1>6 DEF Stamp, inBatch, Batches
  <2>3. batch.scope \in [1 .. MaxEvents -> Scopes] BY <1>0 DEF Batches
  <2>4. \A i \in cursor + 1 .. batch.at - 1 :
            i \in 1 .. MaxEvents /\ i # batch.at /\ i \in cursor + 1 .. batch.at
    BY <1>0
  <2>5. \A i \in cursor + 1 .. batch.at - 1 : batch'.scope[i] = batch.scope[i]
    BY <2>1, <2>2, <2>3, <2>4
  <2>6. \A t \in Screens : Listed(t) => Listed(t)'
    <3> SUFFICES ASSUME NEW t \in Screens, Listed(t) PROVE Listed(t)' OBVIOUS
    <3>1. cursor' = cursor /\ log' = log /\ batch'.at - 1 = batch.at BY <1>0, <2>2
    <3>2. CASE batch.seen[t] > 0 BY <2>2, <3>2 DEF Listed
    <3>3. ASSUME NEW j \in cursor + 1 .. batch.at - 1, log[j] = t, batch.scope[j] = "skipped"
          PROVE  Listed(t)'
      <4>1. j \in cursor + 1 .. batch.at /\ batch'.scope[j] = "skipped" BY <2>4, <2>5, <3>3
      <4> QED BY <3>1, <3>3, <4>1 DEF Listed
    <3> QED BY <3>2, <3>3 DEF Listed
  <2>7. Recorded' BY <2>2, <2>6 DEF Recorded
  <2>8. ASSUME NEW i \in cursor + 1 .. batch.at, batch'.scope[i] = "null" PROVE Listed(log[i])'
    <3>3. log' = log BY <2>2
    <3>1. CASE i = batch.at BY <2>1, <2>2, <2>3, <2>6, <2>8, <3>1 DEF Recorded
    <3>2. CASE i # batch.at
      <4>1. i \in cursor + 1 .. batch.at - 1 /\ log[i] \in Screens BY <1>0, <2>1, <3>2
      <4>2. batch.scope[i] = "null" BY <2>5, <2>8, <4>1
      <4>3. Listed(log[i]) BY <2>2, <4>1, <4>2 DEF NullScopeRecorded, Listed
      <4> QED BY <2>6, <3>3, <4>1, <4>3
    <3> QED BY <3>1, <3>2
  <2>9. NullScopeRecorded' BY <1>0, <2>1, <2>2, <2>8 DEF NullScopeRecorded, Listed
  <2> QED BY <2>7, <2>9
<1>7. CASE Raise
  <2> DEFINE s == log[batch.at]
  <2>1. s \in Screens /\ batch.at \in 1 .. MaxEvents /\ cursor < batch.at
    BY <1>0, <1>7 DEF Raise, Typed, Position
  <2>2. /\ batch'.pc = "ready" /\ batch'.at = batch.at + 1 /\ batch'.cache = batch.cache
        /\ batch.pc # "idle" /\ UNCHANGED <<log, cursor>>
        /\ batch'.scope = [batch.scope EXCEPT ![batch.at] = "skipped"]
        /\ \A t \in Screens : t # s => batch'.seen[t] = batch.seen[t]
    BY <1>0, <1>7, <2>1 DEF Raise, inBatch, Batches
  <2>3. batch.scope \in [1 .. MaxEvents -> Scopes] BY <1>0 DEF Batches
  <2>4. \A i \in cursor + 1 .. batch.at - 1 :
            i \in 1 .. MaxEvents /\ i # batch.at /\ i \in cursor + 1 .. batch.at
    BY <1>0
  <2>5. \A i \in cursor + 1 .. batch.at - 1 : batch'.scope[i] = batch.scope[i]
    BY <2>1, <2>2, <2>3, <2>4
  <2>6. batch'.scope[batch.at] = "skipped" /\ batch.at \in cursor + 1 .. batch.at
    BY <1>0, <2>1, <2>2, <2>3
  <2>7. \A t \in Screens : t = s => Listed(t)'
    <3>1. cursor' = cursor /\ log' = log /\ batch'.at - 1 = batch.at BY <1>0, <2>2
    <3> QED BY <2>6, <3>1 DEF Listed
  <2>8. \A t \in Screens : Listed(t) => Listed(t)'
    <3> SUFFICES ASSUME NEW t \in Screens, Listed(t), t # s PROVE Listed(t)' BY <2>7
    <3>1. cursor' = cursor /\ log' = log /\ batch'.at - 1 = batch.at BY <1>0, <2>2
    <3>2. CASE batch.seen[t] > 0 BY <2>2, <3>2 DEF Listed
    <3>3. ASSUME NEW j \in cursor + 1 .. batch.at - 1, log[j] = t, batch.scope[j] = "skipped"
          PROVE  Listed(t)'
      <4>1. j \in cursor + 1 .. batch.at /\ batch'.scope[j] = "skipped" BY <2>4, <2>5, <3>3
      <4> QED BY <3>1, <3>3, <4>1 DEF Listed
    <3> QED BY <3>2, <3>3 DEF Listed
  <2>9. Recorded' BY <2>2, <2>8 DEF Recorded
  <2>10. ASSUME NEW i \in cursor + 1 .. batch.at, batch'.scope[i] = "null" PROVE Listed(log[i])'
    <3>1. i # batch.at BY <2>6, <2>10
    <3>2. i \in cursor + 1 .. batch.at - 1 /\ log[i] \in Screens BY <1>0, <2>1, <3>1
    <3>3. batch.scope[i] = "null" BY <2>5, <2>10, <3>2
    <3>4. Listed(log[i]) BY <2>2, <3>2, <3>3 DEF NullScopeRecorded, Listed
    <3>5. log' = log BY <2>2
    <3> QED BY <2>8, <3>2, <3>4, <3>5
  <2>11. NullScopeRecorded' BY <1>0, <2>1, <2>2, <2>10 DEF NullScopeRecorded, Listed
  <2> QED BY <2>9, <2>11
<1>8. CASE CommitBatch \/ AbortBatch
  BY <1>8 DEF CommitBatch, AbortBatch, NoBatch, Recorded, NullScopeRecorded
<1>9. ASSUME NEW t \in Screens, Expire(t) PROVE Recorded' /\ NullScopeRecorded'
  <2>1. /\ batch'.pc = "ready" /\ batch.pc = "ready" /\ batch'.at = batch.at /\ batch'.scope = batch.scope
        /\ batch'.seen = batch.seen /\ UNCHANGED <<log, cursor>>
        /\ \A s \in Screens : batch'.cache[s] \in {"none", batch.cache[s]}
    BY <1>0, <1>9 DEF Expire, inBatch, Batches
  <2>2. NullScopeRecorded' /\ \A s \in Screens : Listed(s) => Listed(s)' BY <1>2, <2>1
  <2> QED BY <2>1, <2>2 DEF Recorded
<1> QED BY <1>1, <1>3, <1>4, <1>5, <1>6, <1>7, <1>8, <1>9 DEF Folding

(* A batch leaves no event without scope and its device off the list,      *)
(* except behind an event that raised.                                     *)
THEOREM NullScopeRecordedHolds == Spec => []NullScopeRecorded
<1>1. Init => Recorded /\ NullScopeRecorded BY DEF Init, NoBatch, Recorded, NullScopeRecorded
<1>2. Typed /\ Recorded /\ NullScopeRecorded /\ [Next]_vars => Recorded' /\ NullScopeRecorded'
  <2> SUFFICES ASSUME Typed, Recorded, NullScopeRecorded, [Next]_vars
               PROVE  Recorded' /\ NullScopeRecorded'
    OBVIOUS
  <2>1. CASE UNCHANGED <<log, cursor, batch>>
    BY <2>1 DEF Recorded, NullScopeRecorded, Listed
  <2> QED BY <2>1, TwoSides, FoldingRecorded DEF vars, projectorVars
<1> QED BY InitTyped, StepTyped, <1>1, <1>2, PTL DEF Spec
=============================================================================
