------------------------------ MODULE Projection ------------------------------
(***************************************************************************)
(* What the folds write: the handlers' keyed upserts, the back-stamp on    *)
(* the journal and the derivation of viewer_exposures                      *)
(* (api/src/projector/{handlers,derivations,fold,routing}.py), with the    *)
(* cursor reset of docs/projector-replay.md and a device registry that     *)
(* moves underneath.                                                       *)
(*                                                                         *)
(* One step folds one event, as Projector guarantees: every committed      *)
(* event once, in id order, unless somebody rewinds the cursor.  A row is  *)
(* keyed as the migrations key it; a column is kept when a join, a link or *)
(* a measurement depends on it.  Random uuids, by which ties are broken,   *)
(* come in one of two opposite orders.                                     *)
(*                                                                         *)
(* A definition named Op_Something is a mistake one could make in Op; no   *)
(* specification uses it.                                                  *)
(***************************************************************************)
EXTENDS Integers, Sequences

CONSTANTS
    NULL,           \* SQL NULL
    NoRow,          \* no row under this key
    Alphabet,       \* the events an instance emits (ids are journal positions)
    MaxEvents,      \* bound on the journal
    Triggers, Screens, Systems, Tracks, Subjects,
    Whole,          \* an attending_fraction of one
    SystemOf,       \* per screen: the system its device belongs to, once registered
    Registered,     \* the screens registered at the start
    Lookback,       \* PROJECTOR_TARGET_LOOKBACK_S
    MaxDrifts       \* bound on changes of the registry

ASSUME BoundsAssumption == {MaxEvents, MaxDrifts, Lookback, Whole} \subseteq Nat
ASSUME ScreensAssumption == SystemOf \in [Screens -> Systems] /\ Registered \subseteq Screens

VARIABLES
    log,            \* the committed rows of `events`, in id order
    cursor,         \* projector_state.cursor
    device,         \* per screen: "unknown", "live" or "retired"
    descending,     \* the uuids of later rows sort before those of earlier ones
    db,             \* the summary tables and the back-stamps, see Empty
    drifts

vars == <<log, cursor, device, descending, db, drifts>>

Ids == 1 .. MaxEvents
Opt(S) == S \cup {NULL}
Playbacks == Triggers \X Screens        \* UNIQUE (trigger_id, screen_id)
Exposures == Triggers \X Ids            \* UNIQUE (ad_run_id, subject_observation_id)

(* The statuses that routing.py has a handler for; an event with another   *)
(* one is folded by none.                                                  *)
CompStatus == {"queued", "rendering", "rendered", "failed"}
RunStatus == {"planned", "dispatched", "playing", "completed", "failed"}
PlayStatus == {"dispatched", "started", "ended", "interrupted"}

(* What the handlers read of an event of each kind.                        *)
Events ==
    [kind : {"track"}, screen : Screens, track : Tracks, count : Nat]
    \cup [kind : {"detection"}, screen : Screens, trig : Opt(Triggers), subj : Opt(Subjects),
          track : Opt(Tracks), ts : Nat, att : Opt(0 .. Whole)]
    \cup [kind : {"gaze"}, screen : Screens, subj : Opt(Subjects), track : Opt(Tracks), ts : Nat,
          frac : Opt(0 .. Whole)]
    \cup [kind : {"match"}, screen : {NULL}, trig : Triggers, det : Opt(Ids)]
    \cup [kind : {"decision"}, screen : {NULL}, trig : Triggers]
    \cup [kind : {"composition"}, screen : {NULL}, trig : Triggers, status : CompStatus]
    \cup [kind : {"ad_run"}, screen : Opt(Screens), trig : Triggers, target : Opt(Subjects),
          status : RunStatus]
    \cup [kind : {"playback"}, screen : Screens, trig : Triggers, of : Opt(Triggers),
          start : Opt(Nat), end : Opt(Nat), status : PlayStatus]

(* The tables, by key.  An ad_run or a composition is its trigger, an      *)
(* observation and a decision are their event.                             *)
TrackRows == [sys : Opt(Systems), count : Nat]
ObsRows == [trig : Opt(Triggers), sys : Opt(Systems), at : Nat, subj : Opt(Subjects),
            track : Opt(Tracks), att : Opt(0 .. Whole), linked : BOOLEAN]
CompRows == [decision : Opt(Ids), status : CompStatus]
RunRows == [decision : Opt(Ids), target : Opt(Subjects), sys : Opt(Systems), comp : Opt(Triggers),
            status : RunStatus]
PlayRows == [run : Opt(Triggers), sys : Opt(Systems), start : Opt(Nat), end : Opt(Nat),
             status : PlayStatus]
ExpoRows == [play : Playbacks, role : {"target", "bystander"}, watched : Opt(BOOLEAN),
             prob : Opt(0 .. Whole)]
Table(keys, rows) == [keys -> rows \cup {NoRow}]
Databases ==
    [ tracks    : Table(Screens \X Tracks, TrackRows),
      obs       : Table(Ids, ObsRows),
      matches   : SUBSET Ids,
      decisions : SUBSET Ids,
      comps     : Table(Triggers, CompRows),
      runs      : Table(Triggers, RunRows),
      plays     : Table(Playbacks, PlayRows),
      expo      : Table(Exposures, ExpoRows),
      stamp     : [Ids -> Opt(Systems)] ]      \* events.system_id
Empty ==
    [ tracks    |-> [k \in Screens \X Tracks |-> NoRow],
      obs       |-> [i \in Ids |-> NoRow],
      matches   |-> {},
      decisions |-> {},
      comps     |-> [t \in Triggers |-> NoRow],
      runs      |-> [t \in Triggers |-> NoRow],
      plays     |-> [p \in Playbacks |-> NoRow],
      expo      |-> [x \in Exposures |-> NoRow],
      stamp     |-> [i \in Ids |-> NULL] ]

-----------------------------------------------------------------------------
(* NULL is no value, a row is not no row.                                  *)
ASSUME NullAssumption ==
    NULL \notin Triggers \cup Screens \cup Systems \cup Tracks \cup Subjects \cup Nat \cup BOOLEAN
                \cup CompStatus \cup {"target", "bystander"}
ASSUME NoRowAssumption ==
    NoRow \notin TrackRows \cup ObsRows \cup CompRows \cup RunRows \cup PlayRows \cup ExpoRows

(* The emitters write what the handlers read; the events of one playback   *)
(* agree on its window and on its ad_run, those of one ad_run on its       *)
(* target.                                                                 *)
ASSUME AlphabetAssumption == Alphabet \subseteq Events
Agree(a, b) == a = b \/ NULL \in {a, b}
PlayedRun(e) == IF e.of # NULL THEN e.of ELSE e.trig
ASSUME AgreementAssumption ==
    \A e, f \in Alphabet : e.kind = f.kind =>
        /\ e.kind = "playback" /\ e.trig = f.trig /\ e.screen = f.screen =>
              PlayedRun(e) = PlayedRun(f) /\ Agree(e.start, f.start) /\ Agree(e.end, f.end)
        /\ e.kind = "ad_run" /\ e.trig = f.trig => Agree(e.target, f.target)

Init ==
    /\ log = <<>>
    /\ cursor = 0
    /\ device = [s \in Screens |-> IF s \in Registered THEN "live" ELSE "unknown"]
    /\ descending \in BOOLEAN
    /\ db = Empty
    /\ drifts = 0

-----------------------------------------------------------------------------
Coalesce(new, old) == IF new # NULL THEN new ELSE old
Larger(a, b) == IF a > b THEN a ELSE b

(* ORDER BY id on a random uuid.                                           *)
UuidBefore(i, j) == IF descending THEN i > j ELSE i < j

(* The row a query with ORDER BY ... LIMIT 1 returns, NULL if there is none. *)
First(rows, Before(_, _)) ==
    IF rows = {} THEN NULL ELSE CHOOSE r \in rows : \A o \in rows : o # r => Before(r, o)

(* ScopeResolver: a registered device that is not retired, or no scope.    *)
Scope(s) == IF device[s] = "live" THEN SystemOf[s] ELSE NULL

-----------------------------------------------------------------------------
(* The handlers.  d is the database, e the event, i its id, sys its scope. *)

HandleTrack_Sums(d, e, sys) ==
    LET k == <<e.screen, e.track>>
        old == d.tracks[k]
    IN  [d EXCEPT !.tracks[k] =
            IF old = NoRow THEN [sys |-> sys, count |-> e.count]
            ELSE [sys |-> Coalesce(sys, old.sys), count |-> e.count + old.count]]

HandleTrack(d, e, sys) ==
    LET k == <<e.screen, e.track>>
        old == d.tracks[k]
    IN  [d EXCEPT !.tracks[k] =
            IF old = NoRow THEN [sys |-> sys, count |-> e.count]
            ELSE [sys |-> Coalesce(sys, old.sys), count |-> Larger(e.count, old.count)]]

HandleDetection_Overwrites(d, i, e, sys) ==
    [d EXCEPT !.obs[i] = [trig |-> e.trig, sys |-> sys, at |-> e.ts, subj |-> e.subj,
                          track |-> e.track, att |-> e.att,
                          linked |-> e.track # NULL /\ d.tracks[<<e.screen, e.track>>] # NoRow]]

HandleDetection(d, i, e, sys) ==
    LET old == d.obs[i]
        hasTrack == e.track # NULL /\ d.tracks[<<e.screen, e.track>>] # NoRow
    IN  [d EXCEPT !.obs[i] =
            [trig |-> e.trig, at |-> e.ts, subj |-> e.subj, track |-> e.track, att |-> e.att,
             sys |-> IF old = NoRow THEN sys ELSE Coalesce(sys, old.sys),
             linked |-> hasTrack \/ (old # NoRow /\ old.linked)]]

(* The observation by its event, else by the trigger; ResolveMiss if there *)
(* is none: the savepoint is rolled back and the event is audited.         *)
MatchedObservation(d, e) ==
    IF e.det # NULL
    THEN IF d.obs[e.det] # NoRow THEN e.det ELSE NULL
    ELSE First({o \in Ids : d.obs[o] # NoRow /\ d.obs[o].trig = e.trig}, UuidBefore)

HandleIdentityMatch(d, e) ==
    LET o == MatchedObservation(d, e)
    IN  IF o = NULL THEN d ELSE [d EXCEPT !.matches = @ \cup {o}]

HandleDecision(d, i) == [d EXCEPT !.decisions = @ \cup {i}]

(* N variants share a trigger: LIMIT 1 takes a representative.             *)
Decision(d, t) == First({i \in d.decisions : log[i].trig = t}, UuidBefore)

HandleComposition(d, e) ==
    LET old == d.comps[e.trig]
        decision == Decision(d, e.trig)
    IN  [d EXCEPT !.comps[e.trig] =
            [decision |-> IF old = NoRow THEN decision ELSE Coalesce(decision, old.decision),
             status |-> e.status]]

HandleAdRun(d, e, sys) ==
    LET old == d.runs[e.trig]
        new == [decision |-> Decision(d, e.trig), target |-> e.target, sys |-> sys,
                comp |-> IF d.comps[e.trig] # NoRow THEN e.trig ELSE NULL]
        kept == [c \in DOMAIN new |-> IF old = NoRow THEN new[c] ELSE Coalesce(new[c], old[c])]
    IN  [d EXCEPT !.runs[e.trig] =
            [decision |-> kept.decision, target |-> kept.target, sys |-> kept.sys,
             comp |-> kept.comp, status |-> e.status]]

(* ad_run_trigger_id when the relay stamps one, else the own trigger.      *)
HandlePlayback_Overwrites(d, e, sys) ==
    LET of == Coalesce(e.of, e.trig)
    IN  [d EXCEPT !.plays[<<e.trig, e.screen>>] =
            [run |-> IF d.runs[of] # NoRow THEN of ELSE NULL, sys |-> sys,
             start |-> e.start, end |-> e.end, status |-> e.status]]
HandlePlayback_LinksOnce(d, e, sys) ==
    LET p == <<e.trig, e.screen>>
        old == d.plays[p]
        of == Coalesce(e.of, e.trig)
        new == [run |-> IF old = NoRow /\ d.runs[of] # NoRow THEN of ELSE NULL, sys |-> sys,
                start |-> e.start, end |-> e.end]
        kept == [c \in DOMAIN new |-> IF old = NoRow THEN new[c] ELSE Coalesce(new[c], old[c])]
    IN  [d EXCEPT !.plays[p] =
            [run |-> kept.run, sys |-> kept.sys, start |-> kept.start, end |-> kept.end,
             status |-> e.status]]
HandlePlayback_LinksAnyway(d, e, sys) ==
    LET p == <<e.trig, e.screen>>
        old == d.plays[p]
        new == [run |-> Coalesce(e.of, e.trig), sys |-> sys, start |-> e.start, end |-> e.end]
        kept == [c \in DOMAIN new |-> IF old = NoRow THEN new[c] ELSE Coalesce(new[c], old[c])]
    IN  [d EXCEPT !.plays[p] =
            [run |-> kept.run, sys |-> kept.sys, start |-> kept.start, end |-> kept.end,
             status |-> e.status]]
HandlePlayback(d, e, sys) ==
    LET p == <<e.trig, e.screen>>
        old == d.plays[p]
        of == PlayedRun(e)
        new == [run |-> IF d.runs[of] # NoRow THEN of ELSE NULL, sys |-> sys,
                start |-> e.start, end |-> e.end]
        kept == [c \in DOMAIN new |-> IF old = NoRow THEN new[c] ELSE Coalesce(new[c], old[c])]
    IN  [d EXCEPT !.plays[p] =
            [run |-> kept.run, sys |-> kept.sys, start |-> kept.start, end |-> kept.end,
             status |-> e.status]]

-----------------------------------------------------------------------------
(* derive_viewer_exposures_for_playback.                                   *)

During(pb, t) == pb.start <= t /\ t <= pb.end

(* The gaze rows of the journal that join an observation.                  *)
GazeRows_AnySystem(d, pb, o) ==
    {g \in 1 .. Len(log) :
        /\ log[g].kind = "gaze" /\ During(pb, log[g].ts)
        /\ \/ log[g].track = d.obs[o].track /\ d.obs[o].track # NULL
           \/ log[g].subj = d.obs[o].subj /\ d.obs[o].subj # NULL}
GazeRows(d, pb, o) ==
    {g \in 1 .. Len(log) :
        /\ log[g].kind = "gaze" /\ During(pb, log[g].ts)
        /\ d.stamp[g] = pb.sys
        /\ \/ log[g].track = d.obs[o].track /\ d.obs[o].track # NULL
           \/ log[g].subj = d.obs[o].subj /\ d.obs[o].subj # NULL}

(* MAX(attending_fraction) over a set of values with NULLs.                *)
MaxFraction(vs) ==
    LET known == vs \ {NULL}
    IN  IF known = {} THEN NULL ELSE CHOOSE v \in known : \A u \in known : u <= v
Attending(v) == IF v = NULL THEN NULL ELSE v > 0

(* The causal observation: by trigger whenever it was, else the most       *)
(* recent of the ad_run's target on this system before the playback, not   *)
(* older than the lookback.                                                *)
CausalObservation(d, t) ==
    First({o \in Ids : d.obs[o] # NoRow /\ d.obs[o].trig = t},
          LAMBDA a, b : \/ d.obs[a].at < d.obs[b].at
                        \/ d.obs[a].at = d.obs[b].at /\ UuidBefore(a, b))
RecentObservation(d, pb) ==
    First({o \in Ids :
              /\ d.obs[o] # NoRow /\ d.runs[pb.run].target # NULL
              /\ d.obs[o].subj = d.runs[pb.run].target /\ d.obs[o].sys = pb.sys
              /\ d.obs[o].at <= pb.start /\ pb.start - Lookback <= d.obs[o].at},
          LAMBDA a, b : \/ d.obs[a].at > d.obs[b].at
                        \/ d.obs[a].at = d.obs[b].at /\ UuidBefore(b, a))
TargetObservation(d, pb) == Coalesce(CausalObservation(d, pb.run), RecentObservation(d, pb))

(* Gaze first; no gaze for a tracked target means it did not watch; a      *)
(* target without a track falls back to its in-window re-observations.     *)
Watched(d, pb, o) ==
    LET gaze == GazeRows(d, pb, o)
        again == {b \in Ids : /\ d.obs[b] # NoRow /\ d.obs[b].sys = pb.sys
                              /\ d.obs[b].subj = d.obs[o].subj /\ During(pb, d.obs[b].at)}
    IN  IF gaze # {} THEN \E g \in gaze : log[g].frac # NULL /\ log[g].frac > 0
        ELSE IF d.obs[o].track # NULL THEN FALSE
        ELSE IF d.obs[o].subj = NULL THEN NULL
        ELSE Attending(MaxFraction({d.obs[b].att : b \in again}))

WatchProbability(d, pb, o) ==
    LET gaze == GazeRows(d, pb, o)
    IN  IF gaze # {} THEN MaxFraction({log[g].frac : g \in gaze}) ELSE d.obs[o].att

Bystanders_AnySystem(d, pb) ==
    {o \in Ids : /\ d.obs[o] # NoRow /\ During(pb, d.obs[o].at)
                 /\ o # TargetObservation(d, pb)}
Bystanders(d, pb) ==
    {o \in Ids : /\ d.obs[o] # NoRow /\ d.obs[o].sys = pb.sys /\ During(pb, d.obs[o].at)
                 /\ o # TargetObservation(d, pb)}

(* A NULL of this derivation keeps the measurement of an earlier one.      *)
UpsertExposure_Adds(old, p, role, watched, prob) ==
    [play |-> p, role |-> role,
     watched |-> IF old = NoRow THEN watched ELSE Coalesce(watched, old.watched),
     prob |-> IF old = NoRow THEN prob
              ELSE IF prob # NULL /\ old.prob # NULL THEN prob + old.prob
              ELSE Coalesce(prob, old.prob)]
UpsertExposure(old, p, role, watched, prob) ==
    [play |-> p, role |-> role,
     watched |-> IF old = NoRow THEN watched ELSE Coalesce(watched, old.watched),
     prob |-> IF old = NoRow THEN prob ELSE Coalesce(prob, old.prob)]

Closed(pb) ==
    /\ pb # NoRow
    /\ pb.start # NULL /\ pb.end # NULL
    /\ pb.run # NULL /\ pb.sys # NULL

DeriveViewerExposures(d, p) ==
    LET pb == d.plays[p]
        target == TargetObservation(d, pb)
    IN  IF ~Closed(pb) THEN d
        ELSE [d EXCEPT !.expo =
                [x \in Exposures |->
                    LET o == x[2] IN
                    IF x[1] # pb.run THEN @[x]
                    ELSE IF o = target
                    THEN UpsertExposure(@[x], p, "target", Watched(d, pb, o), NULL)
                    ELSE IF o \in Bystanders(d, pb)
                    THEN UpsertExposure(@[x], p, "bystander", NULL, WatchProbability(d, pb, o))
                    ELSE @[x]]]

-----------------------------------------------------------------------------
(* One event of a batch: scope, handler by (service, event_type, status),  *)
(* back-stamp, derivation.                                                 *)
Handle(d, i, e, sys) ==
    CASE e.kind = "track"       -> HandleTrack(d, e, sys)
      [] e.kind = "detection"   -> HandleDetection(d, i, e, sys)
      [] e.kind = "match"       -> HandleIdentityMatch(d, e)
      [] e.kind = "decision"    -> HandleDecision(d, i)
      [] e.kind = "composition" -> HandleComposition(d, e)
      [] e.kind = "ad_run"      -> HandleAdRun(d, e, sys)
      [] e.kind = "playback"    -> HandlePlayback(d, e, sys)
      [] e.kind = "gaze"        -> d              \* no handler

Backstamp(d, i, e, sys) == IF e.screen # NULL THEN [d EXCEPT !.stamp[i] = sys] ELSE d

Closes_EndedOnly(e) == e.kind = "playback" /\ e.status = "ended"
Closes(e) == e.kind = "playback" /\ e.status \in {"ended", "interrupted"}

FoldEvent_DerivesFirst(d, i) ==
    LET e == log[i]
        sys == IF e.screen # NULL THEN Scope(e.screen) ELSE NULL
        derived == IF Closes(e) THEN DeriveViewerExposures(d, <<e.trig, e.screen>>) ELSE d
    IN  Backstamp(Handle(derived, i, e, sys), i, e, sys)
FoldEvent(d, i) ==
    LET e == log[i]
        sys == IF e.screen # NULL THEN Scope(e.screen) ELSE NULL
        handled == Backstamp(Handle(d, i, e, sys), i, e, sys)
    IN  IF Closes(e) THEN DeriveViewerExposures(handled, <<e.trig, e.screen>>) ELSE handled

(* The tables after a fold of the whole journal over what is there.        *)
Refold(d) ==
    LET after[n \in 0 .. Len(log)] == IF n = 0 THEN d ELSE FoldEvent(after[n - 1], n)
    IN  after[Len(log)]

-----------------------------------------------------------------------------
Emit(e) ==
    /\ Len(log) < MaxEvents
    /\ log' = Append(log, e)
    /\ UNCHANGED <<cursor, device, descending, db, drifts>>

FoldNext ==
    /\ cursor < Len(log)
    /\ db' = FoldEvent(db, cursor + 1)
    /\ cursor' = cursor + 1
    /\ UNCHANGED <<log, device, descending, drifts>>

(* The runbook: UPDATE projector_state SET cursor = c, with the projector  *)
(* stopped.                                                                *)
Rewind(c) ==
    /\ c < cursor
    /\ cursor' = c
    /\ UNCHANGED <<log, device, descending, db, drifts>>

(* The device is created or adopted, or retired for good.                  *)
Register(s) ==
    /\ drifts < MaxDrifts
    /\ device[s] = "unknown"
    /\ device' = [device EXCEPT ![s] = "live"]
    /\ drifts' = drifts + 1
    /\ UNCHANGED <<log, cursor, descending, db>>
Retire(s) ==
    /\ drifts < MaxDrifts
    /\ device[s] = "live"
    /\ device' = [device EXCEPT ![s] = "retired"]
    /\ drifts' = drifts + 1
    /\ UNCHANGED <<log, cursor, descending, db>>

Next ==
    \/ \E e \in Alphabet : Emit(e)
    \/ FoldNext
    \/ \E c \in 0 .. MaxEvents : Rewind(c)
    \/ \E s \in Screens : Register(s) \/ Retire(s)

Spec == Init /\ [][Next]_vars

-----------------------------------------------------------------------------
(* Properties.                                                             *)

(* A link points to a row that exists, a back-stamp is the system of the   *)
(* event's own device.                                                     *)
Linked(d) ==
    /\ d.matches \cup d.decisions \subseteq 1 .. Len(log)
    /\ \A t \in Triggers :
          /\ d.comps[t] # NoRow => d.comps[t].decision \in Opt(d.decisions)
          /\ d.runs[t] # NoRow => /\ d.runs[t].decision \in Opt(d.decisions)
                                  /\ d.runs[t].comp # NULL => d.comps[t] # NoRow
    /\ \A p \in Playbacks :
          d.plays[p] # NoRow /\ d.plays[p].run # NULL => d.runs[d.plays[p].run] # NoRow
    /\ \A x \in Exposures : d.expo[x] # NoRow => d.plays[d.expo[x].play] # NoRow
    /\ \A i \in Ids : d.stamp[i] # NULL =>
          i <= Len(log) /\ log[i].screen # NULL /\ d.stamp[i] = SystemOf[log[i].screen]

(* Every row of every table has the columns of its migration, links and    *)
(* back-stamps are sound, and the cursor is in the journal.                *)
TypeOK ==
    /\ log \in Seq(Alphabet) /\ Len(log) <= MaxEvents /\ cursor \in 0 .. Len(log)
    /\ device \in [Screens -> {"unknown", "live", "retired"}]
    /\ descending \in BOOLEAN /\ drifts \in 0 .. MaxDrifts
    /\ db \in Databases /\ Linked(db)

(* An exposure comes from a playback of its ad_run that the journal closed *)
(* (an open window fabricates nothing); a target is the triggering         *)
(* observation or the run's target seen on this system shortly before the  *)
(* playback, a bystander was there while it ran.  Out-of-order folds,      *)
(* replays and a moving registry included.                                 *)
Justified(d, x) ==
    LET row == d.expo[x]
        pb == d.plays[row.play]
        o == d.obs[x[2]]
        sameSystem == o.sys = SystemOf[row.play[2]]
    IN  /\ Closed(pb) /\ pb.run = x[1] /\ o # NoRow
        /\ \E i \in 1 .. Len(log) : Closes(log[i]) /\ <<log[i].trig, log[i].screen>> = row.play
        /\ row.role = "target" =>
              \/ o.trig = x[1]
              \/ /\ o.subj # NULL /\ o.subj = d.runs[x[1]].target /\ sameSystem
                 /\ pb.start - Lookback <= o.at /\ o.at <= pb.start
        /\ row.role = "bystander" => sameSystem /\ During(pb, o.at)
ExposureJustified == \A x \in Exposures : db.expo[x] # NoRow => Justified(db, x)

(* watched = TRUE is never made up: some closed playback of the run was on *)
(* screen while a camera of the same system saw this track or this person  *)
(* looking.  A tracker id reused by a camera elsewhere does not count.     *)
SeenLooking(o, pb, p) ==
    \E i \in 1 .. Len(log) :
        /\ log[i].kind \in {"gaze", "detection"} /\ During(pb, log[i].ts)
        /\ SystemOf[log[i].screen] = SystemOf[p[2]]
        /\ \/ o.track # NULL /\ log[i].track = o.track
           \/ o.subj # NULL /\ log[i].subj = o.subj
        /\ IF log[i].kind = "gaze" THEN log[i].frac # NULL /\ log[i].frac > 0
                                   ELSE log[i].att # NULL /\ log[i].att > 0
Measured(d, x) ==
    \E p \in Playbacks : /\ Closed(d.plays[p]) /\ d.plays[p].run = x[1]
                         /\ SeenLooking(d.obs[x[2]], d.plays[p], p)
WatchedIsMeasured ==
    \A x \in Exposures : db.expo[x] # NoRow /\ db.expo[x].watched = TRUE => Measured(db, x)

(* The non-NULL links, scopes and measurements, each with its place.       *)
KnownFacts(d) ==
    LET columns(table, keys, cols) ==
            {f \in keys \X cols : table[f[1]] # NoRow /\ table[f[1]][f[2]] # NULL}
    IN  [ tracks |-> columns(d.tracks, Screens \X Tracks, {"sys", "count"}),
          obs    |-> columns(d.obs, Ids, {"trig", "sys", "subj", "track", "att", "linked"}),
          comps  |-> columns(d.comps, Triggers, {"decision", "status"}),
          runs   |-> columns(d.runs, Triggers, {"decision", "comp", "target", "sys"}),
          plays  |-> columns(d.plays, Playbacks, {"run", "sys", "start", "end"}),
          expo   |-> columns(d.expo, Exposures, {"role", "watched", "prob"}) ]

(* No fold wipes what an earlier one knew: a link, a scope or a            *)
(* measurement that was recorded stays recorded, also when the event is    *)
(* folded again after its device was retired or in another order.  (The    *)
(* back-stamps on the journal are not in it: a replay does wipe those.)    *)
NothingForgotten ==
    [][\A table \in DOMAIN KnownFacts(db) : KnownFacts(db)[table] \subseteq KnownFacts(db')[table]]_vars

(* Whatever was folded when, two replays of the journal settle the tables; *)
(* one does if every event was folded before under this registry.          *)
ReplayIsStable ==
    LET once == Refold(db)
        twice == Refold(once)
    IN  /\ Refold(twice) = twice
        /\ (cursor = Len(log) /\ drifts = 0) => twice = once

(* The order in which the emitters of one impression write.                *)
Stage(e) ==
    CASE e.kind = "track"       -> 1
      [] e.kind = "detection"   -> 2
      [] e.kind = "match"       -> 3
      [] e.kind = "decision"    -> 4
      [] e.kind = "composition" -> 5
      [] e.kind = "ad_run"      -> 6
      [] e.kind = "gaze"        -> 7
      [] e.kind = "playback"    -> IF Closes(e) THEN 9 ELSE 8
InOrder == \A i, j \in 1 .. Len(log) : i < j => Stage(log[i]) <= Stage(log[j])

(* Replay is free: if every event came after what it refers to and the     *)
(* registry did not change, folding the journal again from any earlier id  *)
(* to its end gives the same rows, statuses and measurements.              *)
InOrderReplayChangesNothing ==
    (InOrder /\ drifts = 0 /\ cursor = Len(log)) => Refold(db) = db

(* The tables are a function of the journal: under the same conditions     *)
(* they are what one fold from empty tables gives, whatever batches,       *)
(* rewinds and partial replays they came from.                             *)
RecomputableFromTheLog ==
    (InOrder /\ drifts = 0 /\ cursor = Len(log)) => db = Refold(Empty)

(* What an event that came too early missed, a replay repairs: the links   *)
(* of match, composition, ad_run and playback to rows that exist, and the  *)
(* exposures of every closed playback to its causal observation and to     *)
(* everybody in its window.                                                *)
ReplayHeals ==
    LET d == Refold(Refold(db)) IN
    \A i \in 1 .. Len(log) :
        LET e == log[i] IN
        /\ e.kind = "match" /\ MatchedObservation(d, e) # NULL
               => MatchedObservation(d, e) \in d.matches
        /\ e.kind = "composition" /\ Decision(d, e.trig) # NULL
               => d.comps[e.trig].decision # NULL
        /\ e.kind = "ad_run" /\ d.comps[e.trig] # NoRow => d.runs[e.trig].comp = e.trig
        /\ e.kind = "playback" /\ d.runs[Coalesce(e.of, e.trig)] # NoRow
               => d.plays[<<e.trig, e.screen>>].run # NULL
        /\ e.kind = "playback" /\ e.status \in {"ended", "interrupted"}
           /\ Closed(d.plays[<<e.trig, e.screen>>]) =>
               LET pb == d.plays[<<e.trig, e.screen>>]
                   causal == CausalObservation(d, pb.run)
               IN  /\ \A o \in Bystanders(d, pb) : d.expo[<<pb.run, o>>] # NoRow
                   /\ causal # NULL => d.expo[<<pb.run, causal>>] # NoRow
                                       /\ d.expo[<<pb.run, causal>>].role = "target"

(* What the documents say and the code does not do.                        *)

(* docs/projector-replay.md, 2.4: the gaze join reads only the journal, so *)
(* on a stable device registry it recomputes identically on replay.        *)
GazeRecomputesIdentically ==
    (drifts = 0 /\ cursor = Len(log)) =>
        \A x \in Exposures : db.expo[x] # NoRow => Refold(db).expo[x].watched = db.expo[x].watched
=============================================================================
