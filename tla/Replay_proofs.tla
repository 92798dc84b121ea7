----------------------------- MODULE Replay_proofs -----------------------------
(***************************************************************************)
(* What the runbook of docs/projector-replay.md promises, for any journal  *)
(* and any tables: folding the journal again settles the tables, repairs   *)
(* what came too early, changes nothing that was written in order, and     *)
(* gives what the tables are anyway, a function of the journal.            *)
(*                                                                         *)
(* A fold is described column by column (Folded).  One replay records what *)
(* every event says for itself (Recorded); from then on no event moves a   *)
(* row that another refers to (RowsKept), so a second replay resolves      *)
(* every link (Resolved) and leaves in every column that events overwrite  *)
(* the value of the last one (StatusesSettled, ExposuresSettled).  Tables  *)
(* like these (Final) are what a replay returns to: at each event they     *)
(* differ at most in columns that a later event writes again (Near).       *)
(*                                                                         *)
(* Tables that hold nothing but what some event brought (From) and are     *)
(* final are the only ones of their kind (Told), so they are those of one  *)
(* fold from empty tables.                                                 *)
(***************************************************************************)
EXTENDS Projection_proofs

-----------------------------------------------------------------------------
(* What one fold does to each table.                                       *)
ScopeOf(i) == IF log[i].screen # NULL THEN Scope(log[i].screen) ELSE NULL
PlayOf(i) == <<log[i].trig, log[i].screen>>
Merged(new, old, column) == IF old = NoRow THEN new ELSE Coalesce(new, old[column])

FoldedTracks(d, i, n) ==
    \A k \in Screens \X Tracks :
        n.tracks[k] =
            IF log[i].kind = "track" /\ k = <<log[i].screen, log[i].track>>
            THEN [sys   |-> Merged(ScopeOf(i), d.tracks[k], "sys"),
                  count |-> IF d.tracks[k] = NoRow THEN log[i].count
                            ELSE Larger(log[i].count, d.tracks[k].count)]
            ELSE d.tracks[k]
FoldedObs(d, i, n) ==
    LET e == log[i]
        hasTrack == e.track # NULL /\ d.tracks[<<e.screen, e.track>>] # NoRow
    IN  \A j \in Ids :
            n.obs[j] = IF e.kind = "detection" /\ j = i
                       THEN [trig |-> e.trig, at |-> e.ts, subj |-> e.subj, track |-> e.track,
                             att |-> e.att, sys |-> Merged(ScopeOf(i), d.obs[i], "sys"),
                             linked |-> hasTrack \/ (d.obs[i] # NoRow /\ d.obs[i].linked)]
                       ELSE d.obs[j]
FoldedSets(d, i, n) ==
    /\ n.matches = IF log[i].kind = "match" /\ MatchedObservation(d, log[i]) # NULL
                   THEN d.matches \cup {MatchedObservation(d, log[i])} ELSE d.matches
    /\ n.decisions = IF log[i].kind = "decision" THEN d.decisions \cup {i} ELSE d.decisions
FoldedComps(d, i, n) ==
    \A t \in Triggers :
        n.comps[t] = IF log[i].kind = "composition" /\ t = log[i].trig
                     THEN [decision |-> Merged(Decision(d, t), d.comps[t], "decision"),
                           status |-> log[i].status]
                     ELSE d.comps[t]
FoldedRuns(d, i, n) ==
    \A t \in Triggers :
        n.runs[t] = IF log[i].kind = "ad_run" /\ t = log[i].trig
                    THEN [decision |-> Merged(Decision(d, t), d.runs[t], "decision"),
                          target |-> Merged(log[i].target, d.runs[t], "target"),
                          sys |-> Merged(ScopeOf(i), d.runs[t], "sys"),
                          comp |-> Merged(IF d.comps[t] # NoRow THEN t ELSE NULL, d.runs[t], "comp"),
                          status |-> log[i].status]
                    ELSE d.runs[t]
FoldedPlays(d, i, n) ==
    \A p \in Playbacks :
        n.plays[p] = IF log[i].kind = "playback" /\ p = PlayOf(i)
                     THEN [run |-> Merged(IF d.runs[PlayedRun(log[i])] # NoRow
                                          THEN PlayedRun(log[i]) ELSE NULL, d.plays[p], "run"),
                           sys |-> Merged(ScopeOf(i), d.plays[p], "sys"),
                           start |-> Merged(log[i].start, d.plays[p], "start"),
                           end |-> Merged(log[i].end, d.plays[p], "end"),
                           status |-> log[i].status]
                     ELSE d.plays[p]
FoldedStamps(d, i, n) ==
    \A j \in Ids : n.stamp[j] = IF log[i].screen # NULL /\ j = i THEN ScopeOf(i) ELSE d.stamp[j]

(* What the derivation of a playback writes at a key: all of it is a       *)
(* function of rows that the derivation itself does not touch.  pb is the  *)
(* playback, or what is known of it once its event is folded (Window).     *)
IsTarget(d, pb, x) == x[2] = TargetObservation(d, pb)
Hit(d, pb, x) == x[1] = pb.run /\ (IsTarget(d, pb, x) \/ x[2] \in Bystanders(d, pb))
Role(d, pb, x) == IF IsTarget(d, pb, x) THEN "target" ELSE "bystander"
WatchedBy(d, pb, x) == IF IsTarget(d, pb, x) THEN Watched(d, pb, x[2]) ELSE NULL
ProbableBy(d, pb, x) == IF IsTarget(d, pb, x) THEN NULL ELSE WatchProbability(d, pb, x[2])
Window(d, i) ==
    LET pb == d.plays[PlayOf(i)]
    IN  [run |-> PlayedRun(log[i]), sys |-> pb.sys, start |-> pb.start, end |-> pb.end]
Derives(d, i) ==
    LET pb == d.plays[PlayOf(i)]
    IN  /\ Closes(log[i]) /\ d.runs[PlayedRun(log[i])] # NoRow
        /\ pb # NoRow /\ pb.sys # NULL /\ pb.start # NULL /\ pb.end # NULL
Writes(d, i, x) == Derives(d, i) /\ Hit(d, Window(d, i), x)
FoldedExpo(d, i, n) ==
    LET w == Window(n, i)
    IN  \A x \in Exposures :
            n.expo[x] = IF Writes(n, i, x)
                        THEN UpsertExposure(d.expo[x], PlayOf(i), Role(n, w, x), WatchedBy(n, w, x),
                                            ProbableBy(n, w, x))
                        ELSE d.expo[x]

Folded(d, i, n) ==
    /\ Sound(d) /\ Sound(n) /\ Grows(d, n)
    /\ FoldedTracks(d, i, n) /\ FoldedObs(d, i, n) /\ FoldedSets(d, i, n)
    /\ FoldedComps(d, i, n) /\ FoldedRuns(d, i, n) /\ FoldedPlays(d, i, n)
    /\ FoldedStamps(d, i, n) /\ FoldedExpo(d, i, n)

(* A derivation sees the observations, the targets of the ad_runs and the  *)
(* scopes of the gaze rows: databases that agree on these derive alike.    *)
SameView(s, n) ==
    /\ \A o \in Ids :
          /\ s.obs[o] = NoRow <=> n.obs[o] = NoRow
          /\ s.obs[o].trig = n.obs[o].trig /\ s.obs[o].sys = n.obs[o].sys
          /\ s.obs[o].at = n.obs[o].at /\ s.obs[o].subj = n.obs[o].subj
          /\ s.obs[o].track = n.obs[o].track /\ s.obs[o].att = n.obs[o].att
    /\ \A t \in Triggers : s.runs[t].target = n.runs[t].target
    /\ \A g \in 1 .. Len(log) : log[g].kind = "gaze" => s.stamp[g] = n.stamp[g]
SameWindow(pb, qb) ==
    pb.run = qb.run /\ pb.sys = qb.sys /\ pb.start = qb.start /\ pb.end = qb.end

LEMMA CausalAlike ==
    ASSUME NEW s, NEW n, SameView(s, n), NEW r
    PROVE  CausalObservation(s, r) = CausalObservation(n, r)
<1> DEFINE rows(d) == {o \in Ids : d.obs[o] # NoRow /\ d.obs[o].trig = r}
           before(d, a, b) == \/ d.obs[a].at < d.obs[b].at
                              \/ d.obs[a].at = d.obs[b].at /\ UuidBefore(a, b)
<1>1. rows(s) = rows(n)
  BY DEF SameView
<1>2. \A a, b \in Ids : before(s, a, b) <=> before(n, a, b)
  BY DEF SameView
<1>3. rows(s) \subseteq Ids
  OBVIOUS
<1>4. CausalObservation(s, r) = IF rows(s) = {} THEN NULL
          ELSE CHOOSE x \in rows(s) : \A o \in rows(s) : o # x => before(s, x, o)
  BY DEF CausalObservation, First
<1>5. CausalObservation(n, r) = IF rows(n) = {} THEN NULL
          ELSE CHOOSE x \in rows(n) : \A o \in rows(n) : o # x => before(n, x, o)
  BY DEF CausalObservation, First
<1> HIDE DEF rows, before
<1>6. \A x \in rows(s) : (\A o \in rows(s) : o # x => before(s, x, o))
                          <=> (\A o \in rows(n) : o # x => before(n, x, o))
  BY <1>1, <1>2, <1>3
<1>7. (CHOOSE x \in rows(s) : \A o \in rows(s) : o # x => before(s, x, o))
      = (CHOOSE x \in rows(s) : \A o \in rows(n) : o # x => before(n, x, o))
  BY <1>6, Zenon
<1>8. (CHOOSE x \in rows(s) : \A o \in rows(n) : o # x => before(n, x, o))
      = (CHOOSE x \in rows(n) : \A o \in rows(n) : o # x => before(n, x, o))
  BY <1>1, Zenon
<1>9. CASE rows(s) = {}
  BY <1>1, <1>4, <1>5, <1>9, Zenon
<1>10. CASE rows(s) # {}
  BY <1>1, <1>4, <1>5, <1>7, <1>8, <1>10, Zenon
<1> QED BY <1>9, <1>10

LEMMA RecentAlike ==
    ASSUME NEW s, NEW n, SameView(s, n), NEW pb, NEW qb, SameWindow(pb, qb), pb.run \in Triggers
    PROVE  RecentObservation(s, pb) = RecentObservation(n, qb)
<1> DEFINE rows(d, w) == {o \in Ids :
               /\ d.obs[o] # NoRow /\ d.runs[w.run].target # NULL
               /\ d.obs[o].subj = d.runs[w.run].target /\ d.obs[o].sys = w.sys
               /\ d.obs[o].at <= w.start /\ w.start - Lookback <= d.obs[o].at}
           before(d, a, b) == \/ d.obs[a].at > d.obs[b].at
                              \/ d.obs[a].at = d.obs[b].at /\ UuidBefore(b, a)
<1>1. rows(s, pb) = rows(n, qb)
  BY DEF SameView, SameWindow
<1>2. \A a, b \in Ids : before(s, a, b) <=> before(n, a, b)
  BY DEF SameView
<1>3. rows(s, pb) \subseteq Ids
  OBVIOUS
<1>4. RecentObservation(s, pb) = IF rows(s, pb) = {} THEN NULL
          ELSE CHOOSE x \in rows(s, pb) : \A o \in rows(s, pb) : o # x => before(s, x, o)
  BY DEF RecentObservation, First
<1>5. RecentObservation(n, qb) = IF rows(n, qb) = {} THEN NULL
          ELSE CHOOSE x \in rows(n, qb) : \A o \in rows(n, qb) : o # x => before(n, x, o)
  BY DEF RecentObservation, First
<1> HIDE DEF rows, before
<1>6. \A x \in rows(s, pb) : (\A o \in rows(s, pb) : o # x => before(s, x, o))
                              <=> (\A o \in rows(n, qb) : o # x => before(n, x, o))
  BY <1>1, <1>2, <1>3
<1>7. (CHOOSE x \in rows(s, pb) : \A o \in rows(s, pb) : o # x => before(s, x, o))
      = (CHOOSE x \in rows(s, pb) : \A o \in rows(n, qb) : o # x => before(n, x, o))
  BY <1>6, Zenon
<1>8. (CHOOSE x \in rows(s, pb) : \A o \in rows(n, qb) : o # x => before(n, x, o))
      = (CHOOSE x \in rows(n, qb) : \A o \in rows(n, qb) : o # x => before(n, x, o))
  BY <1>1, Zenon
<1>9. CASE rows(s, pb) = {}
  BY <1>1, <1>4, <1>5, <1>9, Zenon
<1>10. CASE rows(s, pb) # {}
  BY <1>1, <1>4, <1>5, <1>7, <1>8, <1>10, Zenon
<1> QED BY <1>9, <1>10

LEMMA SeenAlike ==
    ASSUME NEW s, NEW n, SameView(s, n), NEW pb, NEW qb, SameWindow(pb, qb), pb.run \in Triggers,
           NEW x \in Exposures
    PROVE  /\ IsTarget(s, pb, x) <=> IsTarget(n, qb, x)
           /\ Hit(s, pb, x) <=> Hit(n, qb, x)
           /\ Role(s, pb, x) = Role(n, qb, x)
           /\ WatchedBy(s, pb, x) = WatchedBy(n, qb, x)
           /\ ProbableBy(s, pb, x) = ProbableBy(n, qb, x)
<1> DEFINE o == x[2]
<1>1. o \in Ids
  BY DEF Exposures
<1>2. TargetObservation(s, pb) = TargetObservation(n, qb)
  BY CausalAlike, RecentAlike DEF TargetObservation, SameWindow
<1>3. Bystanders(s, pb) = Bystanders(n, qb)
  BY <1>2 DEF Bystanders, SameView, SameWindow, During
<1>4. GazeRows(s, pb, o) = GazeRows(n, qb, o)
  BY <1>1 DEF GazeRows, SameView, SameWindow, During
<1>5. Watched(s, pb, o) = Watched(n, qb, o)
  <2> DEFINE again(d, w) == {b \in Ids : /\ d.obs[b] # NoRow /\ d.obs[b].sys = w.sys
                                         /\ d.obs[b].subj = d.obs[o].subj
                                         /\ During(w, d.obs[b].at)}
             seen(d, w) == {d.obs[b].att : b \in again(d, w)}
  <2>1. again(s, pb) = again(n, qb)
    BY <1>1 DEF SameView, SameWindow, During
  <2>2. again(s, pb) \subseteq Ids
    OBVIOUS
  <2>3. /\ Watched(s, pb, o) =
              IF GazeRows(s, pb, o) # {}
              THEN \E g \in GazeRows(s, pb, o) : log[g].frac # NULL /\ log[g].frac > 0
              ELSE IF s.obs[o].track # NULL THEN FALSE
              ELSE IF s.obs[o].subj = NULL THEN NULL
              ELSE Attending(MaxFraction(seen(s, pb)))
        /\ Watched(n, qb, o) =
              IF GazeRows(n, qb, o) # {}
              THEN \E g \in GazeRows(n, qb, o) : log[g].frac # NULL /\ log[g].frac > 0
              ELSE IF n.obs[o].track # NULL THEN FALSE
              ELSE IF n.obs[o].subj = NULL THEN NULL
              ELSE Attending(MaxFraction(seen(n, qb)))
    BY Zenon DEF Watched
  <2> HIDE DEF again
  <2>4. seen(s, pb) = seen(n, qb)
    BY <2>1, <2>2 DEF SameView
  <2> HIDE DEF seen
  <2>5. s.obs[o].track = n.obs[o].track /\ s.obs[o].subj = n.obs[o].subj
    BY <1>1 DEF SameView
  <2> HIDE DEF o
  <2>6. Watched(s, pb, o) =
              IF GazeRows(n, qb, o) # {}
              THEN \E g \in GazeRows(n, qb, o) : log[g].frac # NULL /\ log[g].frac > 0
              ELSE IF n.obs[o].track # NULL THEN FALSE
              ELSE IF n.obs[o].subj = NULL THEN NULL
              ELSE Attending(MaxFraction(seen(n, qb)))
    BY <1>4, <2>3, <2>4, <2>5
  <2> QED BY <2>3, <2>6
<1>6. WatchProbability(s, pb, o) = WatchProbability(n, qb, o)
  BY <1>1, <1>4 DEF WatchProbability, SameView
<1>7. IsTarget(s, pb, x) <=> IsTarget(n, qb, x)
  BY <1>2 DEF IsTarget
<1>8. Hit(s, pb, x) <=> Hit(n, qb, x)
  BY <1>3, <1>7 DEF Hit, SameWindow
<1> QED BY <1>5, <1>6, <1>7, <1>8 DEF Role, WatchedBy, ProbableBy

(* The rows that a handler leaves alone, and the one it writes.            *)
LEMMA HandledShape ==
    ASSUME Control, NEW d, Inv(d), NEW i \in 1 .. Len(log),
           NEW n, n = Handle(d, i, log[i], ScopeOf(i))
    PROVE  /\ FoldedTracks(d, i, n) /\ FoldedObs(d, i, n) /\ FoldedSets(d, i, n)
           /\ FoldedComps(d, i, n) /\ FoldedRuns(d, i, n) /\ FoldedPlays(d, i, n)
           /\ n.stamp = d.stamp /\ n.expo = d.expo
<1> DEFINE e == log[i]
           s == ScopeOf(i)
<1> USE DEF FoldedTracks, FoldedObs, FoldedSets, FoldedComps, FoldedRuns, FoldedPlays
<1>1. e \in Alphabet /\ d \in Databases /\ i \in Ids
  BY BoundsAssumption DEF Control, Inv, Ids
<1>2. /\ d.tracks \in [Screens \X Tracks -> TrackRows \cup {NoRow}]
      /\ d.obs \in [Ids -> ObsRows \cup {NoRow}]
      /\ d.comps \in [Triggers -> CompRows \cup {NoRow}]
      /\ d.runs \in [Triggers -> RunRows \cup {NoRow}]
      /\ d.plays \in [Playbacks -> PlayRows \cup {NoRow}]
  BY <1>1, DatabaseFields DEF Table
<1>a. n.stamp = d.stamp /\ n.expo = d.expo
  BY HandleKeeps DEF Kept, ScopeOf
<1>3. CASE e.kind = "track"
  <2> DEFINE k == <<e.screen, e.track>>
             old == d.tracks[k]
             row == [sys |-> Merged(s, old, "sys"),
                     count |-> IF old = NoRow THEN e.count ELSE Larger(e.count, old.count)]
  <2>1. k \in Screens \X Tracks
    BY <1>1, <1>3, EventColumns
  <2>2. n = [d EXCEPT !.tracks[k] = row]
    BY <1>3 DEF Handle, HandleTrack, Merged
  <2> HIDE DEF row
  <2>3. /\ n.tracks = [d.tracks EXCEPT ![k] = row] /\ n.obs = d.obs /\ n.matches = d.matches
        /\ n.decisions = d.decisions /\ n.comps = d.comps /\ n.runs = d.runs /\ n.plays = d.plays
    BY <1>1, <2>2 DEF Databases
  <2>4. \A j \in Screens \X Tracks : n.tracks[j] = IF j = k THEN row ELSE d.tracks[j]
    BY <1>2, <2>1, <2>3
  <2> QED BY <1>3, <1>a, <2>3, <2>4 DEF row
<1>4. CASE e.kind = "detection"
  <2> DEFINE old == d.obs[i]
             hasTrack == e.track # NULL /\ d.tracks[<<e.screen, e.track>>] # NoRow
             row == [trig |-> e.trig, at |-> e.ts, subj |-> e.subj, track |-> e.track,
                     att |-> e.att, sys |-> Merged(s, old, "sys"),
                     linked |-> hasTrack \/ (old # NoRow /\ old.linked)]
  <2>2. n = [d EXCEPT !.obs[i] = row]
    BY <1>4 DEF Handle, HandleDetection, Merged
  <2> HIDE DEF row
  <2>3. /\ n.obs = [d.obs EXCEPT ![i] = row] /\ n.tracks = d.tracks /\ n.matches = d.matches
        /\ n.decisions = d.decisions /\ n.comps = d.comps /\ n.runs = d.runs /\ n.plays = d.plays
    BY <1>1, <2>2 DEF Databases
  <2>4. \A j \in Ids : n.obs[j] = IF j = i THEN row ELSE d.obs[j]
    BY <1>1, <1>2, <2>3
  <2> QED BY <1>4, <1>a, <2>3, <2>4 DEF row
<1>5. CASE e.kind = "match"
  <2>1. n = HandleIdentityMatch(d, e)
    BY <1>5 DEF Handle
  <2>2. /\ n.obs = d.obs /\ n.tracks = d.tracks
        /\ n.matches = IF MatchedObservation(d, e) # NULL
                       THEN d.matches \cup {MatchedObservation(d, e)} ELSE d.matches
        /\ n.decisions = d.decisions /\ n.comps = d.comps /\ n.runs = d.runs /\ n.plays = d.plays
    BY <1>1, <2>1 DEF HandleIdentityMatch, Databases
  <2> QED BY <1>5, <1>a, <2>2
<1>6. CASE e.kind = "decision"
  <2>1. n = HandleDecision(d, i)
    BY <1>6 DEF Handle
  <2>2. /\ n.obs = d.obs /\ n.tracks = d.tracks /\ n.matches = d.matches
        /\ n.decisions = d.decisions \cup {i}
        /\ n.comps = d.comps /\ n.runs = d.runs /\ n.plays = d.plays
    BY <1>1, <2>1 DEF HandleDecision, Databases
  <2> QED BY <1>6, <1>a, <2>2
<1>7. CASE e.kind = "composition"
  <2> DEFINE t == e.trig
             row == [decision |-> Merged(Decision(d, t), d.comps[t], "decision"),
                     status |-> e.status]
  <2>1. t \in Triggers
    BY <1>1, <1>7, EventColumns
  <2>2. n = [d EXCEPT !.comps[t] = row]
    BY <1>7 DEF Handle, HandleComposition, Merged
  <2> HIDE DEF row
  <2>3. /\ n.comps = [d.comps EXCEPT ![t] = row] /\ n.tracks = d.tracks /\ n.matches = d.matches
        /\ n.decisions = d.decisions /\ n.obs = d.obs /\ n.runs = d.runs /\ n.plays = d.plays
    BY <1>1, <2>2 DEF Databases
  <2>4. \A j \in Triggers : n.comps[j] = IF j = t THEN row ELSE d.comps[j]
    BY <1>2, <2>1, <2>3
  <2> QED BY <1>7, <1>a, <2>3, <2>4 DEF row
<1>8. CASE e.kind = "ad_run"
  <2> DEFINE t == e.trig
             row == [decision |-> Merged(Decision(d, t), d.runs[t], "decision"),
                     target |-> Merged(e.target, d.runs[t], "target"),
                     sys |-> Merged(s, d.runs[t], "sys"),
                     comp |-> Merged(IF d.comps[t] # NoRow THEN t ELSE NULL, d.runs[t], "comp"),
                     status |-> e.status]
  <2>1. t \in Triggers
    BY <1>1, <1>8, EventColumns
  <2>2. n = [d EXCEPT !.runs[t] = row]
    BY <1>8 DEF Handle, HandleAdRun, Merged
  <2> HIDE DEF row
  <2>3. /\ n.runs = [d.runs EXCEPT ![t] = row] /\ n.tracks = d.tracks /\ n.matches = d.matches
        /\ n.decisions = d.decisions /\ n.obs = d.obs /\ n.comps = d.comps /\ n.plays = d.plays
    BY <1>1, <2>2 DEF Databases
  <2>4. \A j \in Triggers : n.runs[j] = IF j = t THEN row ELSE d.runs[j]
    BY <1>2, <2>1, <2>3
  <2> QED BY <1>8, <1>a, <2>3, <2>4 DEF row
<1>9. CASE e.kind = "playback"
  <2> DEFINE p == PlayOf(i)
             of == PlayedRun(e)
             row == [run |-> Merged(IF d.runs[of] # NoRow THEN of ELSE NULL, d.plays[p], "run"),
                     sys |-> Merged(s, d.plays[p], "sys"),
                     start |-> Merged(e.start, d.plays[p], "start"),
                     end |-> Merged(e.end, d.plays[p], "end"), status |-> e.status]
  <2>1. p \in Playbacks
    BY <1>1, <1>9, EventColumns DEF Playbacks, PlayOf
  <2>2. n = [d EXCEPT !.plays[p] = row]
    BY <1>9 DEF Handle, HandlePlayback, Merged, PlayOf
  <2> HIDE DEF row, p
  <2>3. /\ n.plays = [d.plays EXCEPT ![p] = row] /\ n.tracks = d.tracks /\ n.matches = d.matches
        /\ n.decisions = d.decisions /\ n.obs = d.obs /\ n.comps = d.comps /\ n.runs = d.runs
    BY <1>1, <2>2 DEF Databases
  <2>4. \A j \in Playbacks : n.plays[j] = IF j = p THEN row ELSE d.plays[j]
    BY <1>2, <2>1, <2>3
  <2> QED BY <1>9, <1>a, <2>3, <2>4 DEF row, p
<1>10. CASE e.kind = "gaze"
  <2>1. n = d
    BY <1>10 DEF Handle
  <2> QED BY <1>10, <2>1
<1> QED BY <1>1, <1>3, <1>4, <1>5, <1>6, <1>7, <1>8, <1>9, <1>10, EventColumns

(* The derivation reads what it does not write.                            *)
LEMMA DerivedShape ==
    ASSUME Control, NEW d, Sound(d), NEW p \in Playbacks, NEW n, n = DeriveViewerExposures(d, p),
           NEW w, Closed(d.plays[p]) => SameWindow(d.plays[p], w)
    PROVE  /\ n.tracks = d.tracks /\ n.obs = d.obs /\ n.matches = d.matches
           /\ n.decisions = d.decisions /\ n.comps = d.comps /\ n.runs = d.runs
           /\ n.plays = d.plays /\ n.stamp = d.stamp
           /\ \A x \in Exposures :
                 n.expo[x] = IF Closed(n.plays[p]) /\ Hit(n, w, x)
                             THEN UpsertExposure(d.expo[x], p, Role(n, w, x), WatchedBy(n, w, x),
                                                 ProbableBy(n, w, x))
                             ELSE d.expo[x]
<1> DEFINE pb == d.plays[p]
           new(x) == IF x[2] = TargetObservation(d, pb)
                     THEN UpsertExposure(d.expo[x], p, "target", Watched(d, pb, x[2]), NULL)
                     ELSE UpsertExposure(d.expo[x], p, "bystander", NULL,
                                         WatchProbability(d, pb, x[2]))
           hit(x) == x[1] = pb.run /\ (x[2] = TargetObservation(d, pb) \/ x[2] \in Bystanders(d, pb))
<1>1. d \in Databases
  BY DEF Sound, Inv
<1>2. CASE ~Closed(pb)
  BY <1>2 DEF DeriveViewerExposures
<1>3. CASE Closed(pb)
  <2>1. n = [d EXCEPT !.expo = [x \in Exposures |-> IF hit(x) THEN new(x) ELSE d.expo[x]]]
    BY <1>3, Zenon DEF DeriveViewerExposures
  <2>2. \A x : hit(x) = Hit(d, pb, x)
    BY DEF Hit, IsTarget
  <2>3. \A x : new(x) = UpsertExposure(d.expo[x], p, Role(d, pb, x), WatchedBy(d, pb, x),
                                        ProbableBy(d, pb, x))
    BY DEF Role, WatchedBy, ProbableBy, IsTarget
  <2> HIDE DEF new, hit
  <2>4. /\ n.tracks = d.tracks /\ n.obs = d.obs /\ n.matches = d.matches
        /\ n.decisions = d.decisions /\ n.comps = d.comps /\ n.runs = d.runs
        /\ n.plays = d.plays /\ n.stamp = d.stamp
        /\ n.expo = [x \in Exposures |-> IF hit(x) THEN new(x) ELSE d.expo[x]]
    BY <1>1, <2>1 DEF Databases
  <2>5. SameView(d, n) /\ SameWindow(pb, w)
    BY <1>3, <2>4 DEF SameView
  <2>6. pb.run \in Triggers
    BY <1>1, <1>3, DatabaseFields DEF Table, PlayRows, Opt, Closed
  <2>7. \A x \in Exposures : /\ Hit(d, pb, x) <=> Hit(n, w, x)
                             /\ Role(d, pb, x) = Role(n, w, x)
                             /\ WatchedBy(d, pb, x) = WatchedBy(n, w, x)
                             /\ ProbableBy(d, pb, x) = ProbableBy(n, w, x)
    BY <2>5, <2>6, SeenAlike
  <2>8. \A x \in Exposures : n.expo[x] = IF hit(x) THEN new(x) ELSE d.expo[x]
    BY <2>4
  <2> QED BY <1>3, <2>2, <2>3, <2>4, <2>7, <2>8
<1> QED BY <1>2, <1>3

(* Together: one event of a batch.                                         *)
LEMMA FoldShape ==
    ASSUME Control, NEW d, Sound(d), NEW i \in 1 .. Len(log)
    PROVE  Folded(d, i, FoldEvent(d, i))
<1> DEFINE e == log[i]
           p == <<e.trig, e.screen>>
           first == Handle(d, i, e, ScopeOf(i))
           handled == Backstamp(first, i, e, ScopeOf(i))
           n == FoldEvent(d, i)
<1>1. Inv(d) /\ i \in Ids /\ d \in Databases
  BY BoundsAssumption DEF Control, Sound, Inv, Ids
<1>2. /\ FoldedTracks(d, i, first) /\ FoldedObs(d, i, first) /\ FoldedSets(d, i, first)
      /\ FoldedComps(d, i, first) /\ FoldedRuns(d, i, first) /\ FoldedPlays(d, i, first)
      /\ first.stamp = d.stamp /\ first.expo = d.expo
  BY <1>1, HandledShape
<1>3. Inv(first) /\ Grows(d, first)
  BY <1>1, HandleKeeps DEF Kept, ScopeOf
<1> HIDE DEF first
<1>4. /\ handled.tracks = first.tracks /\ handled.obs = first.obs /\ handled.matches = first.matches
      /\ handled.decisions = first.decisions /\ handled.comps = first.comps
      /\ handled.runs = first.runs /\ handled.plays = first.plays /\ handled.expo = first.expo
      /\ handled.stamp = IF e.screen # NULL THEN [first.stamp EXCEPT ![i] = ScopeOf(i)]
                         ELSE first.stamp
  BY <1>3 DEF Backstamp, Inv, Databases
<1>5. Inv(handled) /\ Grows(first, handled)
  BY <1>3, BackstampKeeps DEF ScopeOf
<1>6. n = IF Closes(e) THEN DeriveViewerExposures(handled, p) ELSE handled
  BY DEF FoldEvent, ScopeOf, first
<1> HIDE DEF handled
<1>7. Grows(d, handled)
  BY <1>3, <1>5, GrowsOn
<1>8. Sound(handled)
  BY <1>2, <1>4, <1>5, <1>7, SoundStays
<1>9. Sound(n) /\ Grows(d, n)
  BY FoldKeeps
<1> HIDE DEF n
<1>10. ASSUME Closes(e)
       PROVE  /\ Closed(handled.plays[p]) <=> Derives(handled, i)
              /\ Closed(handled.plays[p]) => SameWindow(handled.plays[p], Window(handled, i))
  <2> DEFINE of == PlayedRun(e)
             pb == handled.plays[p]
  <2>1. e \in Alphabet /\ e.kind = "playback"
    BY <1>10 DEF Control, Closes
  <2>2. p \in Playbacks /\ p = PlayOf(i) /\ of \in Triggers /\ of # NULL
    BY <2>1, EventColumns, NullAssumption DEF Playbacks, PlayOf, PlayedRun, Opt
  <2>3. handled.runs[of] = d.runs[of]
    BY <1>2, <1>4, <2>1, <2>2 DEF FoldedRuns
  <2>4. pb # NoRow => pb.run \in Opt({of}) /\ (pb.run # NULL => handled.runs[pb.run] # NoRow)
    BY <1>8, <2>1, <2>2 DEF Sound, Inv, PlayInv, Linked
  <2>5. d.runs[of] # NoRow => pb.run = of
    <3>1. pb.run = Merged(IF d.runs[of] # NoRow THEN of ELSE NULL, d.plays[p], "run")
      <4> DEFINE q == PlayOf(i)
      <4>1. q \in Playbacks /\ pb = first.plays[q]
        BY <1>4, <2>2
      <4> HIDE DEF q, pb, of
      <4>2. FoldedPlays(d, i, first) /\ log[i].kind = "playback" /\ q = PlayOf(i)
        BY <1>2, <2>1 DEF q
      <4> DEFINE link == IF d.runs[PlayedRun(log[i])] # NoRow THEN PlayedRun(log[i]) ELSE NULL
      <4>3. first.plays[q] = [run |-> Merged(link, d.plays[q], "run"),
                              sys |-> Merged(ScopeOf(i), d.plays[q], "sys"),
                              start |-> Merged(log[i].start, d.plays[q], "start"),
                              end |-> Merged(log[i].end, d.plays[q], "end"),
                              status |-> log[i].status]
        BY <4>1, <4>2, Zenon DEF FoldedPlays
      <4>4. first.plays[q].run = Merged(link, d.plays[q], "run")
        BY <4>3
      <4> QED BY <2>2, <4>1, <4>4 DEF of, q
    <3> QED BY <2>2, <3>1 DEF Merged, Coalesce
  <2>6. Closed(pb) => pb.run = of /\ handled.runs[of] # NoRow
    BY <2>4 DEF Closed, Opt
  <2> HIDE DEF p, pb, of
  <2>7. Derives(handled, i) <=> /\ handled.runs[of] # NoRow /\ pb # NoRow /\ pb.sys # NULL
                                /\ pb.start # NULL /\ pb.end # NULL
    BY <1>10, <2>2 DEF Derives, of, pb
  <2>8. Closed(pb) <=> Derives(handled, i)
    BY <2>2, <2>3, <2>5, <2>6, <2>7 DEF Closed
  <2>9. Closed(pb) => SameWindow(pb, Window(handled, i))
    BY <2>2, <2>6 DEF SameWindow, Window, pb, of
  <2> QED BY <2>8, <2>9 DEF pb
<1>11. /\ n.tracks = handled.tracks /\ n.obs = handled.obs /\ n.matches = handled.matches
       /\ n.decisions = handled.decisions /\ n.comps = handled.comps /\ n.runs = handled.runs
       /\ n.plays = handled.plays /\ n.stamp = handled.stamp
       /\ \A x \in Exposures :
             n.expo[x] = IF Writes(n, i, x)
                         THEN UpsertExposure(handled.expo[x], PlayOf(i), Role(n, Window(n, i), x),
                                             WatchedBy(n, Window(n, i), x),
                                             ProbableBy(n, Window(n, i), x))
                         ELSE handled.expo[x]
  <2>1. CASE Closes(e)
    <3>1. p \in Playbacks /\ p = PlayOf(i)
      BY <2>1, EventColumns DEF Control, Closes, Playbacks, PlayOf
    <3>2. n = DeriveViewerExposures(handled, p)
      BY <1>6, <2>1
    <3> HIDE DEF p
    <3> DEFINE w == Window(handled, i)
    <3>3. Closed(handled.plays[p]) => SameWindow(handled.plays[p], w)
      BY <1>10, <2>1 DEF p
    <3> HIDE DEF w
    <3>4. /\ n.tracks = handled.tracks /\ n.obs = handled.obs /\ n.matches = handled.matches
          /\ n.decisions = handled.decisions /\ n.comps = handled.comps /\ n.runs = handled.runs
          /\ n.plays = handled.plays /\ n.stamp = handled.stamp
          /\ \A x \in Exposures :
                n.expo[x] = IF Closed(n.plays[p]) /\ Hit(n, w, x)
                            THEN UpsertExposure(handled.expo[x], p, Role(n, w, x),
                                                WatchedBy(n, w, x), ProbableBy(n, w, x))
                            ELSE handled.expo[x]
      BY <1>8, <3>1, <3>2, <3>3, DerivedShape
    <3>5. Window(n, i) = w /\ (Derives(n, i) <=> Derives(handled, i))
      BY <3>4 DEF Window, Derives, w
    <3>6. Closed(n.plays[p]) <=> Derives(n, i)
      BY <1>10, <2>1, <3>4, <3>5 DEF p
    <3> QED BY <3>1, <3>4, <3>5, <3>6 DEF Writes
  <2>2. CASE ~Closes(e)
    BY <1>6, <2>2 DEF Writes, Derives
  <2> QED BY <2>1, <2>2
<1>12. FoldedExpo(d, i, n)
  BY <1>2, <1>4, <1>11 DEF FoldedExpo
<1>13. FoldedStamps(d, i, n)
  BY <1>1, <1>2, <1>4, <1>11, DatabaseFields DEF FoldedStamps
<1>14. FoldedTracks(d, i, n) /\ FoldedObs(d, i, n) /\ FoldedSets(d, i, n)
  BY <1>2, <1>4, <1>11 DEF FoldedTracks, FoldedObs, FoldedSets
<1>15. FoldedComps(d, i, n)
  BY <1>2, <1>4, <1>11 DEF FoldedComps
<1>16. FoldedRuns(d, i, n)
  <2>1. n.runs = first.runs
    BY <1>4, <1>11
  <2> QED BY <1>2, <2>1 DEF FoldedRuns
<1>17. FoldedPlays(d, i, n)
  BY <1>2, <1>4, <1>11 DEF FoldedPlays
<1> QED BY <1>9, <1>12, <1>13, <1>14, <1>15, <1>16, <1>17 DEF Folded, n

-----------------------------------------------------------------------------
(* A replay folds the events of the journal one after the other.           *)
LEMMA UpTo ==
    ASSUME NEW L \in Nat, NEW S, 0 \in S, \A k \in 1 .. L : k - 1 \in S => k \in S
    PROVE  L \in S
<1> SUFFICES ASSUME L \notin S PROVE FALSE
  OBVIOUS
<1> DEFINE T == {k \in 0 .. L : k \notin S}
<1>1. T \in SUBSET Nat /\ T # {}
  OBVIOUS
<1>2. PICK m \in T : \A k \in T : m <= k
  BY <1>1, LeastExists
<1>3. m \in 1 .. L /\ m - 1 \in 0 .. L
  BY <1>2
<1>4. m - 1 \in S
  <2>1. m - 1 \notin T
    BY <1>2, <1>3
  <2> QED BY <1>3, <2>1
<1> QED BY <1>2, <1>3, <1>4

LEMMA Pass ==
    ASSUME Len(log) \in Nat, NEW d
    PROVE  \E a : /\ a[0] = d /\ Refold(d) = a[Len(log)]
                  /\ \A k \in 1 .. Len(log) : a[k] = FoldEvent(a[k - 1], k)
<1> DEFINE L == Len(log)
           Is(a, m) == a = [k \in 0 .. m |-> IF k = 0 THEN d ELSE FoldEvent(a[k - 1], k)]
           S == {m \in 0 .. L : \E a : Is(a, m)}
<1>1. 0 \in S
  <2> DEFINE a == [k \in 0 .. 0 |-> d]
  <2>1. a = [k \in 0 .. 0 |-> IF k = 0 THEN d ELSE FoldEvent(a[k - 1], k)]
    OBVIOUS
  <2> HIDE DEF a
  <2>2. 0 \in 0 .. L
    OBVIOUS
  <2> QED BY <2>1, <2>2
<1>2. ASSUME NEW m \in 1 .. L, m - 1 \in S PROVE m \in S
  <2>1. PICK a : a = [k \in 0 .. m - 1 |-> IF k = 0 THEN d ELSE FoldEvent(a[k - 1], k)]
    BY <1>2
  <2> DEFINE b == [k \in 0 .. m |-> IF k = m THEN FoldEvent(a[m - 1], m) ELSE a[k]]
  <2>2. \A k \in 0 .. m - 1 : b[k] = a[k]
    OBVIOUS
  <2>3. ASSUME NEW k \in 0 .. m
        PROVE  b[k] = IF k = 0 THEN d ELSE FoldEvent(b[k - 1], k)
    <3>1. CASE k = m
      <4>1. b[m] = FoldEvent(a[m - 1], m) /\ b[m - 1] = a[m - 1]
        BY <2>2
      <4> QED BY <3>1, <4>1
    <3>2. CASE k # m
      <4>1. b[k] = a[k] /\ k \in 0 .. m - 1
        BY <3>2
      <4>2. a[k] = IF k = 0 THEN d ELSE FoldEvent(a[k - 1], k)
        BY <2>1, <4>1
      <4>3. k # 0 => b[k - 1] = a[k - 1]
        BY <2>2, <4>1
      <4> QED BY <4>1, <4>2, <4>3
    <3> QED BY <3>1, <3>2
  <2>4. b = [k \in 0 .. m |-> IF k = 0 THEN d ELSE FoldEvent(b[k - 1], k)]
    BY <2>3
  <2> HIDE DEF b
  <2> QED BY <2>4
<1>3. L \in S
  <2> HIDE DEF S
  <2> QED BY <1>1, <1>2, UpTo
<1> DEFINE a == CHOOSE x : x = [k \in 0 .. L |-> IF k = 0 THEN d ELSE FoldEvent(x[k - 1], k)]
<1>4. a = [k \in 0 .. L |-> IF k = 0 THEN d ELSE FoldEvent(a[k - 1], k)]
  BY <1>3
<1>5. Refold(d) = a[L]
  BY Zenon DEF Refold
<1> HIDE DEF a
<1>6. a[0] = d /\ \A k \in 1 .. L : a[k] = FoldEvent(a[k - 1], k)
  BY <1>4
<1> QED BY <1>5, <1>6

-----------------------------------------------------------------------------
(* What an event says for itself is in the tables: the row, and of its     *)
(* columns those that are only read off the event.                         *)
Recorded(d, i) ==
    LET e == log[i]
        s == ScopeOf(i)
    IN  /\ e.screen # NULL => d.stamp[i] = s
        /\ e.kind = "track" =>
              LET row == d.tracks[<<e.screen, e.track>>]
              IN  row # NoRow /\ Stays(s, row.sys) /\ e.count <= row.count
        /\ e.kind = "detection" => d.obs[i] # NoRow /\ Stays(s, d.obs[i].sys)
        /\ e.kind = "decision" => i \in d.decisions
        /\ e.kind = "composition" => d.comps[e.trig] # NoRow
        /\ e.kind = "ad_run" => d.runs[e.trig] # NoRow /\ Stays(e.target, d.runs[e.trig].target)
        /\ e.kind = "playback" =>
              LET pb == d.plays[PlayOf(i)]
              IN  /\ pb # NoRow /\ Stays(s, pb.sys)
                  /\ Stays(e.start, pb.start) /\ Stays(e.end, pb.end)

LEMMA EventPlaces ==
    ASSUME Control, NEW i \in 1 .. Len(log)
    PROVE  /\ i \in Ids /\ log[i] \in Alphabet
           /\ log[i].kind = "track" => <<log[i].screen, log[i].track>> \in Screens \X Tracks
                                       /\ log[i].count \in Nat
           /\ log[i].kind \in {"composition", "ad_run"} => log[i].trig \in Triggers
           /\ log[i].kind = "playback" => PlayOf(i) \in Playbacks /\ PlayedRun(log[i]) \in Triggers
           /\ ScopeOf(i) \in Opt({SystemOf[log[i].screen]})
<1>1. i \in Ids /\ log[i] \in Alphabet
  BY BoundsAssumption DEF Control, Ids
<1>2. ScopeOf(i) \in Opt({SystemOf[log[i].screen]})
  BY DEF ScopeOf, Scope, Opt
<1>3. log[i].kind = "playback" => PlayOf(i) \in Playbacks /\ PlayedRun(log[i]) \in Triggers
  BY <1>1, EventColumns DEF PlayOf, Playbacks, PlayedRun, Opt
<1> QED BY <1>1, <1>2, <1>3, EventColumns

LEMMA RecordedAtOnce ==
    ASSUME Control, NEW d, NEW n, NEW i \in 1 .. Len(log), Folded(d, i, n)
    PROVE  Recorded(n, i)
<1> DEFINE e == log[i]
           s == ScopeOf(i)
<1>1. /\ FoldedTracks(d, i, n) /\ FoldedObs(d, i, n) /\ FoldedSets(d, i, n)
      /\ FoldedComps(d, i, n) /\ FoldedRuns(d, i, n) /\ FoldedPlays(d, i, n)
      /\ FoldedStamps(d, i, n) /\ Sound(n) /\ Sound(d)
  BY DEF Folded
<1>2. d \in Databases /\ n \in Databases
  BY <1>1 DEF Sound, Inv
<1>3. e.screen # NULL => n.stamp[i] = s
  BY <1>1, EventPlaces DEF FoldedStamps
<1>4. e.kind = "track" =>
        LET row == n.tracks[<<e.screen, e.track>>]
        IN  row # NoRow /\ Stays(s, row.sys) /\ e.count <= row.count
  <2> SUFFICES ASSUME e.kind = "track"
               PROVE  LET row == n.tracks[<<e.screen, e.track>>]
                      IN  row # NoRow /\ Stays(s, row.sys) /\ e.count <= row.count
    OBVIOUS
  <2> DEFINE k == <<e.screen, e.track>>
  <2>1. k \in Screens \X Tracks /\ e.count \in Nat
    BY EventPlaces
  <2>2. n.tracks[k] = [sys   |-> Merged(s, d.tracks[k], "sys"),
                       count |-> IF d.tracks[k] = NoRow THEN e.count
                                 ELSE Larger(e.count, d.tracks[k].count)]
    BY <1>1, <2>1 DEF FoldedTracks
  <2>3. n.tracks[k] \in TrackRows \cup {NoRow} /\ d.tracks[k] \in TrackRows \cup {NoRow}
    BY <1>2, <2>1, DatabaseFields DEF Table
  <2>4. n.tracks[k] # NoRow
    BY <1>1, <1>2, <2>1, <2>2, <2>3, NoRowAssumption, EventPlaces, ScreensAssumption, EventColumns
       DEF TrackRows, Merged, Coalesce, Larger, Opt
  <2> QED BY <2>1, <2>2, <2>3, <2>4 DEF Stays, Merged, Coalesce, Larger, TrackRows
<1>5. e.kind = "detection" => n.obs[i] # NoRow /\ Stays(s, n.obs[i].sys)
  <2> SUFFICES ASSUME e.kind = "detection" PROVE n.obs[i] # NoRow /\ Stays(s, n.obs[i].sys)
    OBVIOUS
  <2> DEFINE linked == \/ e.track # NULL /\ d.tracks[<<e.screen, e.track>>] # NoRow
                       \/ d.obs[i] # NoRow /\ d.obs[i].linked
             row == [trig |-> e.trig, at |-> e.ts, subj |-> e.subj, track |-> e.track,
                     att |-> e.att, sys |-> Merged(s, d.obs[i], "sys"), linked |-> linked]
  <2>1. n.obs[i] = row
    BY <1>1, EventPlaces DEF FoldedObs
  <2>2. d.obs[i] \in ObsRows \cup {NoRow} /\ e \in Alphabet /\ s \in Opt(Systems)
    <3>1. d.obs[i] \in ObsRows \cup {NoRow} /\ e \in Alphabet
      BY <1>2, DatabaseFields, EventPlaces DEF Table
    <3>2. s \in Opt(Systems)
      BY <3>1, ScreensAssumption, EventColumns DEF Opt, ScopeOf, Scope
    <3> QED BY <3>1, <3>2
  <2>3. linked \in BOOLEAN
    BY <2>2 DEF ObsRows
  <2>4. Merged(s, d.obs[i], "sys") \in Opt(Systems)
    BY <2>2 DEF Merged, Coalesce, ObsRows
  <2> HIDE DEF linked
  <2>5. row \in ObsRows
    BY <2>2, <2>3, <2>4, EventColumns DEF ObsRows
  <2> QED BY <2>1, <2>5, NoRowAssumption DEF Stays, Merged, Coalesce
<1>6. e.kind = "decision" => i \in n.decisions
  BY <1>1 DEF FoldedSets
<1>7. e.kind = "composition" => n.comps[e.trig] # NoRow
  <2> SUFFICES ASSUME e.kind = "composition" PROVE n.comps[e.trig] # NoRow
    OBVIOUS
  <2> DEFINE t == e.trig
             decision == Merged(Decision(d, t), d.comps[t], "decision")
  <2>1. t \in Triggers /\ e \in Alphabet
    BY EventPlaces
  <2>2. n.comps[t] = [decision |-> decision, status |-> e.status]
    BY <1>1, <2>1 DEF FoldedComps
  <2>3. decision \in Opt(Ids)
    BY <1>2, <2>1, DecisionFound, DatabaseFields DEF Control, Table, CompRows, Merged, Coalesce, Opt
  <2> HIDE DEF decision
  <2>4. [decision |-> decision, status |-> e.status] \in CompRows
    BY <2>1, <2>3, EventColumns DEF CompRows
  <2> QED BY <2>2, <2>4, NoRowAssumption
<1>8. e.kind = "ad_run" => n.runs[e.trig] # NoRow /\ Stays(e.target, n.runs[e.trig].target)
  <2> SUFFICES ASSUME e.kind = "ad_run"
               PROVE  n.runs[e.trig] # NoRow /\ Stays(e.target, n.runs[e.trig].target)
    OBVIOUS
  <2> DEFINE t == e.trig
             old == d.runs[t]
             decision == Merged(Decision(d, t), old, "decision")
             comp == Merged(IF d.comps[t] # NoRow THEN t ELSE NULL, old, "comp")
             row == [decision |-> decision, target |-> Merged(e.target, old, "target"),
                     sys |-> Merged(s, old, "sys"), comp |-> comp, status |-> e.status]
  <2>1. t \in Triggers /\ e \in Alphabet /\ e.target \in Opt(Subjects) /\ e.status \in RunStatus
        /\ e.screen \in Opt(Screens)
    BY EventPlaces, EventColumns
  <2>2. n.runs[t] = row
    BY <1>1, <2>1 DEF FoldedRuns
  <2>3. old \in RunRows \cup {NoRow} /\ s \in Opt(Systems)
    BY <1>2, <2>1, DatabaseFields, ScreensAssumption DEF Table, Opt, ScopeOf, Scope
  <2>4. decision \in Opt(Ids)
    BY <1>2, <2>3, DecisionFound, DatabaseFields DEF Control, RunRows, Merged, Coalesce, Opt
  <2>5. /\ comp \in Opt(Triggers) /\ Merged(e.target, old, "target") \in Opt(Subjects)
        /\ Merged(s, old, "sys") \in Opt(Systems)
    BY <2>1, <2>3 DEF RunRows, Merged, Coalesce, Opt
  <2> HIDE DEF decision, comp
  <2>6. row \in RunRows
    BY <2>1, <2>4, <2>5 DEF RunRows
  <2> QED BY <2>2, <2>6, NoRowAssumption DEF Stays, Merged, Coalesce
<1>9. e.kind = "playback" =>
        LET pb == n.plays[PlayOf(i)]
        IN  /\ pb # NoRow /\ Stays(s, pb.sys) /\ Stays(e.start, pb.start) /\ Stays(e.end, pb.end)
  <2> DEFINE p == PlayOf(i)
             of == PlayedRun(e)
             old == d.plays[p]
             run == Merged(IF d.runs[of] # NoRow THEN of ELSE NULL, old, "run")
             row == [run |-> run, sys |-> Merged(s, old, "sys"),
                     start |-> Merged(e.start, old, "start"), end |-> Merged(e.end, old, "end"),
                     status |-> e.status]
  <2> SUFFICES ASSUME e.kind = "playback"
               PROVE  /\ n.plays[p] # NoRow /\ Stays(s, n.plays[p].sys)
                      /\ Stays(e.start, n.plays[p].start) /\ Stays(e.end, n.plays[p].end)
    OBVIOUS
  <2>1. /\ p \in Playbacks /\ of \in Triggers /\ e.start \in Opt(Nat) /\ e.end \in Opt(Nat)
        /\ e.status \in PlayStatus /\ e.screen \in Screens
    BY EventPlaces, EventColumns
  <2>2. n.plays[p] = row
    BY <1>1, <2>1, Zenon DEF FoldedPlays
  <2> HIDE DEF p, of
  <2>3. old \in PlayRows \cup {NoRow} /\ s \in Opt(Systems)
    BY <1>2, <2>1, DatabaseFields, ScreensAssumption DEF Table, Opt, ScopeOf, Scope
  <2>4. /\ run \in Opt(Triggers) /\ Merged(s, old, "sys") \in Opt(Systems)
        /\ Merged(e.start, old, "start") \in Opt(Nat) /\ Merged(e.end, old, "end") \in Opt(Nat)
    BY <2>1, <2>3 DEF PlayRows, Merged, Coalesce, Opt
  <2> HIDE DEF run
  <2>5. row \in PlayRows
    BY <2>1, <2>4 DEF PlayRows
  <2> QED BY <2>2, <2>5, NoRowAssumption DEF Stays, Merged, Coalesce
<1> QED BY <1>3, <1>4, <1>5, <1>6, <1>7, <1>8, <1>9, Zenon DEF Recorded

LEMMA RecordedStays ==
    ASSUME Control, NEW d, NEW n, NEW j \in 1 .. Len(log), Folded(d, j, n),
           NEW i \in 1 .. Len(log), Recorded(d, i)
    PROVE  Recorded(n, i)
<1> DEFINE e == log[i]
           s == ScopeOf(i)
<1>1. CASE i = j
  BY <1>1, RecordedAtOnce
<1>2. CASE i # j
  <2>1. /\ FoldedTracks(d, j, n) /\ FoldedObs(d, j, n) /\ FoldedStamps(d, j, n)
        /\ Grows(d, n) /\ d \in Databases /\ i \in Ids
    BY EventPlaces DEF Folded, Sound, Inv
  <2>2. n.stamp[i] = d.stamp[i] /\ n.obs[i] = d.obs[i]
    BY <1>2, <2>1 DEF FoldedStamps, FoldedObs
  <2>3. e.kind = "track" =>
          LET row == n.tracks[<<e.screen, e.track>>]
          IN  row # NoRow /\ Stays(s, row.sys) /\ e.count <= row.count
    <3> DEFINE k == <<e.screen, e.track>>
               old == d.tracks[k]
    <3> SUFFICES ASSUME e.kind = "track"
                 PROVE  n.tracks[k] # NoRow /\ Stays(s, n.tracks[k].sys) /\ e.count <= n.tracks[k].count
      OBVIOUS
    <3>1. k \in Screens \X Tracks /\ old # NoRow /\ Stays(s, old.sys) /\ e.count <= old.count
      BY EventPlaces DEF Recorded
    <3>2. old \in TrackRows /\ e.count \in Nat
      BY <2>1, <3>1, DatabaseFields, EventPlaces DEF Table
    <3>3. CASE log[j].kind = "track" /\ k = <<log[j].screen, log[j].track>>
      <4>1. ScopeOf(j) = s /\ log[j].count \in Nat
        BY <3>3, EventPlaces DEF ScopeOf
      <4>2. n.tracks[k] = [sys   |-> Merged(s, old, "sys"),
                           count |-> Larger(log[j].count, old.count)]
        BY <2>1, <3>1, <3>3, <4>1 DEF FoldedTracks
      <4>3. n.tracks[k] # NoRow
        BY <2>1, <3>1 DEF Grows
      <4> QED BY <3>1, <3>2, <4>1, <4>2, <4>3 DEF Stays, Merged, Coalesce, Larger, TrackRows
    <3>4. CASE ~(log[j].kind = "track" /\ k = <<log[j].screen, log[j].track>>)
      BY <2>1, <3>1, <3>4 DEF FoldedTracks
    <3> QED BY <3>3, <3>4
  <2>4. e.kind = "decision" => i \in n.decisions
    BY <2>1 DEF Recorded, Grows
  <2>5. e.kind = "composition" => n.comps[e.trig] # NoRow
    BY <2>1, EventPlaces DEF Recorded, Grows
  <2>6. e.kind = "ad_run" => n.runs[e.trig] # NoRow /\ Stays(e.target, n.runs[e.trig].target)
    BY <2>1, EventPlaces DEF Recorded, Grows, Stays
  <2>7. e.kind = "playback" =>
          LET pb == n.plays[PlayOf(i)]
          IN  /\ pb # NoRow /\ Stays(s, pb.sys) /\ Stays(e.start, pb.start) /\ Stays(e.end, pb.end)
    BY <2>1, EventPlaces DEF Recorded, Grows, Stays
  <2>8. /\ e.screen # NULL => n.stamp[i] = s
        /\ e.kind = "detection" => n.obs[i] # NoRow /\ Stays(s, n.obs[i].sys)
    BY <2>2 DEF Recorded
  <2> QED BY <2>3, <2>4, <2>5, <2>6, <2>7, <2>8, Zenon DEF Recorded
<1> QED BY <1>1, <1>2

(* Once all events are recorded, a fold moves no link's target, no window  *)
(* and no observation: everything an event refers to stays as it is.       *)
SameRows(d, n) ==
    /\ n.tracks = d.tracks /\ n.decisions = d.decisions
    /\ SameView(d, n)
    /\ \A t \in Triggers : /\ d.comps[t] = NoRow <=> n.comps[t] = NoRow
                           /\ d.runs[t] = NoRow <=> n.runs[t] = NoRow
    /\ \A p \in Playbacks : /\ d.plays[p] = NoRow <=> n.plays[p] = NoRow
                            /\ d.plays[p].sys = n.plays[p].sys
                            /\ d.plays[p].start = n.plays[p].start
                            /\ d.plays[p].end = n.plays[p].end

LEMMA RowsKept ==
    ASSUME Control, NEW d, NEW n, NEW j \in 1 .. Len(log), Folded(d, j, n), Recorded(d, j)
    PROVE  SameRows(d, n) /\ n.stamp = d.stamp
<1> DEFINE e == log[j]
           s == ScopeOf(j)
<1>1. /\ FoldedTracks(d, j, n) /\ FoldedObs(d, j, n) /\ FoldedSets(d, j, n)
      /\ FoldedComps(d, j, n) /\ FoldedRuns(d, j, n) /\ FoldedPlays(d, j, n)
      /\ FoldedStamps(d, j, n) /\ Grows(d, n)
  BY DEF Folded
<1>2. d \in Databases /\ n \in Databases /\ Inv(d)
  BY DEF Folded, Sound, Inv
<1>3. n.tracks = d.tracks
  <2>1. ASSUME NEW k \in Screens \X Tracks PROVE n.tracks[k] = d.tracks[k]
    <3>1. CASE e.kind = "track" /\ k = <<e.screen, e.track>>
      <4> DEFINE old == d.tracks[k]
      <4>1. old # NoRow /\ Stays(s, old.sys) /\ e.count <= old.count
        BY <3>1 DEF Recorded
      <4>2. old \in TrackRows /\ e.count \in Nat
        BY <1>2, <2>1, <4>1, DatabaseFields, EventPlaces, <3>1 DEF Table
      <4>3. n.tracks[k] = [sys |-> Merged(s, old, "sys"), count |-> Larger(e.count, old.count)]
        BY <1>1, <2>1, <3>1, <4>1 DEF FoldedTracks
      <4>4. Merged(s, old, "sys") = old.sys /\ Larger(e.count, old.count) = old.count
        BY <4>1, <4>2 DEF Stays, Merged, Coalesce, Larger, TrackRows
      <4>5. old = [sys |-> old.sys, count |-> old.count]
        BY <4>2 DEF TrackRows
      <4> QED BY <4>3, <4>4, <4>5
    <3>2. CASE ~(e.kind = "track" /\ k = <<e.screen, e.track>>)
      BY <1>1, <3>2 DEF FoldedTracks
    <3> QED BY <3>1, <3>2
  <2> QED BY <1>2, <2>1, DatabaseFields DEF Table
<1>4. n.decisions = d.decisions
  BY <1>1 DEF FoldedSets, Recorded
<1>5. n.stamp = d.stamp
  <2>1. \A i \in Ids : n.stamp[i] = d.stamp[i]
    BY <1>1 DEF FoldedStamps, Recorded
  <2> QED BY <1>2, <2>1, DatabaseFields
<1>6. \A o \in Ids :
          /\ d.obs[o] = NoRow <=> n.obs[o] = NoRow
          /\ d.obs[o].trig = n.obs[o].trig /\ d.obs[o].sys = n.obs[o].sys
          /\ d.obs[o].at = n.obs[o].at /\ d.obs[o].subj = n.obs[o].subj
          /\ d.obs[o].track = n.obs[o].track /\ d.obs[o].att = n.obs[o].att
  <2> SUFFICES ASSUME NEW o \in Ids
               PROVE  /\ d.obs[o] = NoRow <=> n.obs[o] = NoRow
                      /\ d.obs[o].trig = n.obs[o].trig /\ d.obs[o].sys = n.obs[o].sys
                      /\ d.obs[o].at = n.obs[o].at /\ d.obs[o].subj = n.obs[o].subj
                      /\ d.obs[o].track = n.obs[o].track /\ d.obs[o].att = n.obs[o].att
    OBVIOUS
  <2>1. CASE e.kind = "detection" /\ o = j
    <3>1. d.obs[o] # NoRow /\ Stays(s, d.obs[o].sys)
      BY <2>1 DEF Recorded
    <3>2. n.obs[o] # NoRow
      BY <1>1, <3>1 DEF Grows
    <3>3. n.obs[o].sys = Merged(s, d.obs[o], "sys")
      BY <1>1, <2>1 DEF FoldedObs
    <3>4. n.obs[o].sys = d.obs[o].sys
      BY <3>1, <3>3 DEF Stays, Merged, Coalesce
    <3> QED BY <1>1, <3>1, <3>2, <3>4 DEF Grows
  <2>2. CASE ~(e.kind = "detection" /\ o = j)
    BY <1>1, <2>2 DEF FoldedObs
  <2> QED BY <2>1, <2>2
<1>7. ASSUME NEW t \in Triggers
      PROVE  d.comps[t] = NoRow <=> n.comps[t] = NoRow
  <2>1. CASE e.kind = "composition" /\ t = e.trig
    BY <1>1, <2>1 DEF Recorded, Grows
  <2>2. CASE ~(e.kind = "composition" /\ t = e.trig)
    BY <1>1, <2>2 DEF FoldedComps
  <2> QED BY <2>1, <2>2
<1>8. ASSUME NEW t \in Triggers
      PROVE  (d.runs[t] = NoRow <=> n.runs[t] = NoRow) /\ d.runs[t].target = n.runs[t].target
  <2>1. CASE e.kind = "ad_run" /\ t = e.trig
    <3>1. d.runs[t] # NoRow /\ Stays(e.target, d.runs[t].target)
      BY <2>1 DEF Recorded
    <3>2. n.runs[t] # NoRow
      BY <1>1, <3>1 DEF Grows
    <3>3. n.runs[t] =
              [decision |-> Merged(Decision(d, t), d.runs[t], "decision"),
               target |-> Merged(e.target, d.runs[t], "target"), sys |-> Merged(s, d.runs[t], "sys"),
               comp |-> Merged(IF d.comps[t] # NoRow THEN t ELSE NULL, d.runs[t], "comp"),
               status |-> e.status]
      BY <1>1, <2>1, Zenon DEF FoldedRuns
    <3>4. n.runs[t].target = Merged(e.target, d.runs[t], "target")
      BY <3>3
    <3> QED BY <3>1, <3>2, <3>4 DEF Stays, Merged, Coalesce
  <2>2. CASE ~(e.kind = "ad_run" /\ t = e.trig)
    BY <1>1, <2>2 DEF FoldedRuns
  <2> QED BY <2>1, <2>2
<1>9. ASSUME NEW p \in Playbacks
      PROVE  /\ d.plays[p] = NoRow <=> n.plays[p] = NoRow
             /\ d.plays[p].sys = n.plays[p].sys /\ d.plays[p].start = n.plays[p].start
             /\ d.plays[p].end = n.plays[p].end
  <2> DEFINE old == d.plays[p]
  <2>1. CASE e.kind = "playback" /\ p = PlayOf(j)
    <3>1. old # NoRow /\ Stays(s, old.sys) /\ Stays(e.start, old.start) /\ Stays(e.end, old.end)
      BY <2>1 DEF Recorded
    <3>2. n.plays[p] # NoRow
      BY <1>1, <3>1 DEF Grows
    <3>3. n.plays[p] = [run |-> Merged(IF d.runs[PlayedRun(e)] # NoRow
                                       THEN PlayedRun(e) ELSE NULL, old, "run"),
                        sys |-> Merged(s, old, "sys"), start |-> Merged(e.start, old, "start"),
                        end |-> Merged(e.end, old, "end"), status |-> e.status]
      BY <1>1, <2>1, Zenon DEF FoldedPlays
    <3>4. /\ n.plays[p].sys = Merged(s, old, "sys") /\ n.plays[p].start = Merged(e.start, old, "start")
          /\ n.plays[p].end = Merged(e.end, old, "end")
      BY <3>3
    <3> QED BY <3>1, <3>2, <3>4 DEF Stays, Merged, Coalesce
  <2>2. CASE ~(e.kind = "playback" /\ p = PlayOf(j))
    BY <1>1, <2>2 DEF FoldedPlays
  <2> QED BY <2>1, <2>2
<1>10. SameView(d, n)
  <2>1. \A g \in 1 .. Len(log) : d.stamp[g] = n.stamp[g]
    BY <1>5
  <2> QED BY <1>6, <1>8, <2>1 DEF SameView
<1> QED BY <1>3, <1>4, <1>5, <1>7, <1>8, <1>9, <1>10 DEF SameRows

-----------------------------------------------------------------------------
(* What an event refers to is resolved: its link points to the row that    *)
(* the tables have for it, if they have one.                               *)
Resolved(d, i) ==
    LET e == log[i]
    IN  /\ e.kind = "detection" /\ e.track # NULL /\ d.tracks[<<e.screen, e.track>>] # NoRow
               => d.obs[i].linked = TRUE
        /\ e.kind = "match" /\ MatchedObservation(d, e) # NULL => MatchedObservation(d, e) \in d.matches
        /\ e.kind = "composition" => Stays(Decision(d, e.trig), d.comps[e.trig].decision)
        /\ e.kind = "ad_run" => /\ Stays(Decision(d, e.trig), d.runs[e.trig].decision)
                                /\ d.comps[e.trig] # NoRow => d.runs[e.trig].comp = e.trig
        /\ e.kind = "playback" /\ d.runs[PlayedRun(e)] # NoRow
               => d.plays[PlayOf(i)].run = PlayedRun(e)

(* The rows that an event refers to are the same in d and in n.            *)
SameRefs(d, n, i) ==
    LET e == log[i]
    IN  /\ e.kind = "detection" /\ e.track # NULL =>
              (d.tracks[<<e.screen, e.track>>] = NoRow <=> n.tracks[<<e.screen, e.track>>] = NoRow)
        /\ e.kind = "match" => MatchedObservation(d, e) = MatchedObservation(n, e)
        /\ e.kind \in {"composition", "ad_run"} => Decision(d, e.trig) = Decision(n, e.trig)
        /\ e.kind = "ad_run" => (d.comps[e.trig] = NoRow <=> n.comps[e.trig] = NoRow)
        /\ e.kind = "playback" => (d.runs[PlayedRun(e)] = NoRow <=> n.runs[PlayedRun(e)] = NoRow)

(* The shape of the rows that an event writes.                             *)
LEMMA WrittenRows ==
    ASSUME Control, NEW d, NEW n, NEW i \in 1 .. Len(log), Folded(d, i, n)
    PROVE  LET e == log[i]
               t == e.trig
               p == PlayOf(i)
           IN  /\ e.kind = "detection" =>
                     n.obs[i].linked = (\/ e.track # NULL /\ d.tracks[<<e.screen, e.track>>] # NoRow
                                        \/ d.obs[i] # NoRow /\ d.obs[i].linked)
               /\ e.kind = "composition" =>
                     n.comps[t].decision = Merged(Decision(d, t), d.comps[t], "decision")
               /\ e.kind = "ad_run" =>
                     /\ n.runs[t].decision = Merged(Decision(d, t), d.runs[t], "decision")
                     /\ n.runs[t].comp =
                            Merged(IF d.comps[t] # NoRow THEN t ELSE NULL, d.runs[t], "comp")
                     /\ n.runs[t].sys = Merged(ScopeOf(i), d.runs[t], "sys")
               /\ e.kind = "playback" =>
                     n.plays[p].run = Merged(IF d.runs[PlayedRun(e)] # NoRow
                                             THEN PlayedRun(e) ELSE NULL, d.plays[p], "run")
<1> DEFINE e == log[i]
           t == e.trig
           p == PlayOf(i)
           s == ScopeOf(i)
<1>1. /\ FoldedObs(d, i, n) /\ FoldedComps(d, i, n) /\ FoldedRuns(d, i, n) /\ FoldedPlays(d, i, n)
      /\ i \in Ids
  BY EventPlaces DEF Folded
<1>2. CASE e.kind = "detection"
  <2> DEFINE linked == \/ e.track # NULL /\ d.tracks[<<e.screen, e.track>>] # NoRow
                       \/ d.obs[i] # NoRow /\ d.obs[i].linked
  <2>1. n.obs[i] = [trig |-> e.trig, at |-> e.ts, subj |-> e.subj, track |-> e.track,
                    att |-> e.att, sys |-> Merged(s, d.obs[i], "sys"), linked |-> linked]
    BY <1>1, <1>2, Zenon DEF FoldedObs
  <2> HIDE DEF linked
  <2>2. n.obs[i].linked = linked
    BY <2>1
  <2> QED BY <1>2, <2>2, Zenon DEF linked
<1>3. CASE e.kind = "composition"
  <2>1. n.comps[t] = [decision |-> Merged(Decision(d, t), d.comps[t], "decision"),
                      status |-> e.status]
    BY <1>1, <1>3, EventPlaces DEF FoldedComps
  <2> QED BY <1>3, <2>1
<1>4. CASE e.kind = "ad_run"
  <2> HIDE DEF t
  <2>1. t \in Triggers
    BY <1>4, EventPlaces DEF t
  <2>2. n.runs[t] =
              [decision |-> Merged(Decision(d, t), d.runs[t], "decision"),
               target |-> Merged(e.target, d.runs[t], "target"), sys |-> Merged(s, d.runs[t], "sys"),
               comp |-> Merged(IF d.comps[t] # NoRow THEN t ELSE NULL, d.runs[t], "comp"),
               status |-> e.status]
    BY <1>1, <1>4, <2>1, Zenon DEF FoldedRuns, t
  <2> QED BY <1>4, <2>2 DEF t
<1>5. CASE e.kind = "playback"
  <2> HIDE DEF p
  <2>1. p \in Playbacks
    BY <1>5, EventPlaces DEF p
  <2>2. n.plays[p] = [run |-> Merged(IF d.runs[PlayedRun(e)] # NoRow
                                     THEN PlayedRun(e) ELSE NULL, d.plays[p], "run"),
                      sys |-> Merged(s, d.plays[p], "sys"),
                      start |-> Merged(e.start, d.plays[p], "start"),
                      end |-> Merged(e.end, d.plays[p], "end"), status |-> e.status]
    BY <1>1, <1>5, <2>1, Zenon DEF FoldedPlays, p
  <2>3. n.plays[p].run = Merged(IF d.runs[PlayedRun(e)] # NoRow
                                THEN PlayedRun(e) ELSE NULL, d.plays[p], "run")
    BY <2>2
  <2> QED BY <1>5, <2>3 DEF p
<1> QED BY <1>2, <1>3, <1>4, <1>5

LEMMA WrittenStatus ==
    ASSUME Control, NEW d, NEW n, NEW i \in 1 .. Len(log), Folded(d, i, n)
    PROVE  LET e == log[i]
           IN  /\ e.kind = "composition" => n.comps[e.trig].status = e.status
               /\ e.kind = "ad_run" => n.runs[e.trig].status = e.status
               /\ e.kind = "playback" => n.plays[PlayOf(i)].status = e.status
<1> DEFINE e == log[i]
           t == e.trig
           p == PlayOf(i)
           s == ScopeOf(i)
<1>1. /\ FoldedComps(d, i, n) /\ FoldedRuns(d, i, n) /\ FoldedPlays(d, i, n)
      /\ i \in Ids
  BY EventPlaces DEF Folded
<1>3. CASE e.kind = "composition"
  <2>1. n.comps[t] = [decision |-> Merged(Decision(d, t), d.comps[t], "decision"),
                      status |-> e.status]
    BY <1>1, <1>3, EventPlaces DEF FoldedComps
  <2> QED BY <1>3, <2>1
<1>4. CASE e.kind = "ad_run"
  <2> HIDE DEF t
  <2>1. t \in Triggers
    BY <1>4, EventPlaces DEF t
  <2>2. n.runs[t] =
              [decision |-> Merged(Decision(d, t), d.runs[t], "decision"),
               target |-> Merged(e.target, d.runs[t], "target"), sys |-> Merged(s, d.runs[t], "sys"),
               comp |-> Merged(IF d.comps[t] # NoRow THEN t ELSE NULL, d.runs[t], "comp"),
               status |-> e.status]
    BY <1>1, <1>4, <2>1, Zenon DEF FoldedRuns, t
  <2> QED BY <1>4, <2>2 DEF t
<1>5. CASE e.kind = "playback"
  <2> HIDE DEF p
  <2>1. p \in Playbacks
    BY <1>5, EventPlaces DEF p
  <2>2. n.plays[p] = [run |-> Merged(IF d.runs[PlayedRun(e)] # NoRow
                                     THEN PlayedRun(e) ELSE NULL, d.plays[p], "run"),
                      sys |-> Merged(s, d.plays[p], "sys"),
                      start |-> Merged(e.start, d.plays[p], "start"),
                      end |-> Merged(e.end, d.plays[p], "end"), status |-> e.status]
    BY <1>1, <1>5, <2>1, Zenon DEF FoldedPlays, p
  <2>3. n.plays[p].status = e.status
    BY <2>2
  <2> QED BY <1>5, <2>3 DEF p
<1> QED BY <1>3, <1>4, <1>5

LEMMA MergedSays ==
    ASSUME NEW new, NEW old, NEW column
    PROVE  Stays(new, Merged(new, old, column))
BY DEF Stays, Merged, Coalesce

LEMMA ResolvedAtOnce ==
    ASSUME Control, NEW d, NEW n, NEW i \in 1 .. Len(log), Folded(d, i, n)
    PROVE  Resolved(n, i)
<1> DEFINE e == log[i]
           t == e.trig
<1>1. /\ FoldedTracks(d, i, n) /\ FoldedObs(d, i, n) /\ FoldedSets(d, i, n)
      /\ FoldedComps(d, i, n) /\ FoldedRuns(d, i, n) /\ FoldedPlays(d, i, n)
      /\ d \in Databases /\ n \in Databases
  BY DEF Folded, Sound, Inv
<1>2. CASE e.kind = "detection"
  <2>1. ASSUME e.track # NULL, n.tracks[<<e.screen, e.track>>] # NoRow
        PROVE  n.obs[i].linked = TRUE
    <3>1. <<e.screen, e.track>> \in Screens \X Tracks
      BY <1>2, <2>1, EventPlaces, EventColumns DEF Opt
    <3>2. d.tracks[<<e.screen, e.track>>] # NoRow
      BY <1>1, <1>2, <2>1, <3>1 DEF FoldedTracks
    <3> QED BY <1>2, <2>1, <3>2, WrittenRows
  <2> QED BY <1>2, <2>1 DEF Resolved
<1>3. CASE e.kind = "match"
  <2>1. \A o \in Ids : n.obs[o] = d.obs[o]
    BY <1>1, <1>3 DEF FoldedObs
  <2>2. MatchedObservation(n, e) = MatchedObservation(d, e)
    <3>1. e.det \in Opt(Ids)
      BY <1>3, EventPlaces, EventColumns
    <3>2. {o \in Ids : n.obs[o] # NoRow /\ n.obs[o].trig = e.trig}
          = {o \in Ids : d.obs[o] # NoRow /\ d.obs[o].trig = e.trig}
      BY <2>1
    <3> QED BY <2>1, <3>1, <3>2 DEF MatchedObservation, Opt
  <2> QED BY <1>1, <1>3, <2>2 DEF Resolved, FoldedSets
<1>4. CASE e.kind \in {"composition", "ad_run"}
  <2>1. n.decisions = d.decisions /\ t \in Triggers /\ t # NULL
    BY <1>1, <1>4, EventPlaces, NullAssumption DEF FoldedSets
  <2>2. Decision(n, t) = Decision(d, t)
    BY <2>1 DEF Decision
  <2>3. CASE e.kind = "composition"
    <3>1. n.comps[t].decision = Merged(Decision(d, t), d.comps[t], "decision")
      BY <2>3, WrittenRows
    <3> QED BY <2>2, <2>3, <3>1, MergedSays DEF Resolved
  <2>4. CASE e.kind = "ad_run"
    <3>1. n.comps[t] = d.comps[t]
      BY <1>1, <2>1, <2>4 DEF FoldedComps
    <3>2. /\ n.runs[t].decision = Merged(Decision(d, t), d.runs[t], "decision")
          /\ n.runs[t].comp = Merged(IF d.comps[t] # NoRow THEN t ELSE NULL, d.runs[t], "comp")
      BY <2>4, WrittenRows
    <3>3. Stays(Decision(n, t), n.runs[t].decision)
      BY <2>2, <3>2, MergedSays
    <3>4. n.comps[t] # NoRow => n.runs[t].comp = t
      BY <2>1, <3>1, <3>2, MergedSays DEF Stays
    <3> QED BY <2>4, <3>3, <3>4 DEF Resolved
  <2> QED BY <1>4, <2>3, <2>4
<1>5. CASE e.kind = "playback"
  <2>1. PlayedRun(e) \in Triggers /\ PlayedRun(e) # NULL
    BY <1>5, EventPlaces, NullAssumption
  <2>2. n.runs[PlayedRun(e)] = d.runs[PlayedRun(e)]
    BY <1>1, <1>5, <2>1 DEF FoldedRuns
  <2>3. n.plays[PlayOf(i)].run = Merged(IF d.runs[PlayedRun(e)] # NoRow
                                        THEN PlayedRun(e) ELSE NULL, d.plays[PlayOf(i)], "run")
    BY <1>5, WrittenRows
  <2>4. n.runs[PlayedRun(e)] # NoRow => n.plays[PlayOf(i)].run = PlayedRun(e)
    BY <2>1, <2>2, <2>3, MergedSays DEF Stays
  <2> QED BY <1>5, <2>4 DEF Resolved
<1> QED BY <1>2, <1>3, <1>4, <1>5 DEF Resolved

LEMMA ResolvedStays ==
    ASSUME Control, NEW d, NEW n, NEW j \in 1 .. Len(log), Folded(d, j, n),
           NEW i \in 1 .. Len(log), Recorded(d, i), Resolved(d, i), SameRefs(d, n, i)
    PROVE  Resolved(n, i)
<1> DEFINE e == log[i]
           t == e.trig
<1>1. /\ FoldedObs(d, j, n) /\ FoldedComps(d, j, n) /\ FoldedRuns(d, j, n) /\ Grows(d, n)
      /\ i \in Ids
  BY EventPlaces DEF Folded
<1>2. CASE e.kind = "detection"
  <2>1. d.obs[i].linked = TRUE => n.obs[i].linked = TRUE
    <3>1. CASE i = j
      <4>1. d.obs[i] # NoRow
        BY <1>2 DEF Recorded
      <4> QED BY <1>2, <3>1, <4>1, WrittenRows
    <3>2. CASE i # j
      BY <1>1, <3>2 DEF FoldedObs
    <3> QED BY <3>1, <3>2
  <2> QED BY <1>2, <2>1 DEF Resolved, SameRefs
<1>3. CASE e.kind = "match"
  BY <1>1, <1>3 DEF Resolved, SameRefs, Grows
<1>4. CASE e.kind = "composition"
  <2>1. Decision(d, t) = Decision(n, t) /\ Stays(Decision(d, t), d.comps[t].decision) /\ t \in Triggers
    BY <1>4, EventPlaces DEF Resolved, SameRefs
  <2>2. CASE log[j].kind = "composition" /\ t = log[j].trig
    <3> DEFINE u == log[j].trig
    <3>a. n.comps[u].decision = Merged(Decision(d, u), d.comps[u], "decision")
      BY <2>2, WrittenRows
    <3>1. n.comps[t].decision = Merged(Decision(d, t), d.comps[t], "decision")
      BY <2>2, <3>a
    <3> QED BY <1>4, <2>1, <3>1, MergedSays DEF Resolved
  <2>3. CASE ~(log[j].kind = "composition" /\ t = log[j].trig)
    BY <1>1, <1>4, <2>1, <2>3 DEF Resolved, FoldedComps
  <2> QED BY <2>2, <2>3
<1>5. CASE e.kind = "ad_run"
  <2>1. /\ Decision(d, t) = Decision(n, t) /\ Stays(Decision(d, t), d.runs[t].decision)
        /\ d.comps[t] = NoRow <=> n.comps[t] = NoRow
        /\ d.comps[t] # NoRow => d.runs[t].comp = t
        /\ t \in Triggers /\ t # NULL
    BY <1>5, EventPlaces, NullAssumption DEF Resolved, SameRefs
  <2>2. CASE log[j].kind = "ad_run" /\ t = log[j].trig
    <3> DEFINE u == log[j].trig
    <3>a. /\ n.runs[u].decision = Merged(Decision(d, u), d.runs[u], "decision")
          /\ n.runs[u].comp = Merged(IF d.comps[u] # NoRow THEN u ELSE NULL, d.runs[u], "comp")
      BY <2>2, WrittenRows
    <3>1. /\ n.runs[t].decision = Merged(Decision(d, t), d.runs[t], "decision")
          /\ n.runs[t].comp = Merged(IF d.comps[t] # NoRow THEN t ELSE NULL, d.runs[t], "comp")
      BY <2>2, <3>a
    <3>2. Stays(Decision(n, t), n.runs[t].decision)
      BY <2>1, <3>1, MergedSays
    <3>3. n.comps[t] # NoRow => n.runs[t].comp = t
      BY <2>1, <3>1, MergedSays DEF Stays
    <3> QED BY <1>5, <3>2, <3>3 DEF Resolved
  <2>3. CASE ~(log[j].kind = "ad_run" /\ t = log[j].trig)
    BY <1>1, <1>5, <2>1, <2>3 DEF Resolved, FoldedRuns
  <2> QED BY <2>2, <2>3
<1>6. CASE e.kind = "playback"
  <2>1. /\ PlayOf(i) \in Playbacks /\ d.plays[PlayOf(i)] # NoRow /\ PlayedRun(e) # NULL
    BY <1>6, EventPlaces, NullAssumption DEF Recorded
  <2>2. Stays(d.plays[PlayOf(i)].run, n.plays[PlayOf(i)].run)
    BY <1>1, <2>1 DEF Grows
  <2> QED BY <1>6, <2>1, <2>2 DEF Resolved, SameRefs, Stays
<1> QED BY <1>2, <1>3, <1>4, <1>5, <1>6 DEF Resolved

LEMMA RefsKept ==
    ASSUME Control, NEW d, NEW n, SameRows(d, n), NEW i \in 1 .. Len(log)
    PROVE  SameRefs(d, n, i)
<1> DEFINE e == log[i]
<1>1. e.kind = "match" => MatchedObservation(d, e) = MatchedObservation(n, e)
  <2> SUFFICES ASSUME e.kind = "match"
               PROVE  MatchedObservation(d, e) = MatchedObservation(n, e)
    OBVIOUS
  <2>1. e.det \in Opt(Ids)
    BY EventPlaces, EventColumns
  <2>2. {o \in Ids : n.obs[o] # NoRow /\ n.obs[o].trig = e.trig}
        = {o \in Ids : d.obs[o] # NoRow /\ d.obs[o].trig = e.trig}
    BY DEF SameRows, SameView
  <2>3. e.det # NULL => (d.obs[e.det] = NoRow <=> n.obs[e.det] = NoRow)
    BY <2>1 DEF SameRows, SameView, Opt
  <2> QED BY <2>2, <2>3 DEF MatchedObservation
<1>2. Decision(d, e.trig) = Decision(n, e.trig)
  BY DEF Decision, SameRows
<1>3. n.tracks = d.tracks
  BY DEF SameRows
<1>4. e.kind = "ad_run" => (d.comps[e.trig] = NoRow <=> n.comps[e.trig] = NoRow)
  BY EventPlaces DEF SameRows
<1>5. e.kind = "playback" => (d.runs[PlayedRun(e)] = NoRow <=> n.runs[PlayedRun(e)] = NoRow)
  BY EventPlaces DEF SameRows
<1> QED BY <1>1, <1>2, <1>3, <1>4, <1>5 DEF SameRefs

-----------------------------------------------------------------------------
(* A column that the last event to write it decides: the statuses, the     *)
(* scope of an ad_run, and what the derivations write.  It is settled up   *)
(* to c if every event up to c that no later event of the journal          *)
(* overwrites has left its value there.                                    *)
Later(i) == i + 1 .. Len(log)
SameRow(i, j) ==
    /\ log[i].kind = log[j].kind /\ log[i].trig = log[j].trig
    /\ log[i].kind = "playback" => log[i].screen = log[j].screen
StatusesSettled(d, c) ==
    \A i \in 1 .. c :
        LET e == log[i]
            s == ScopeOf(i)
        IN  /\ (\A j \in Later(i) : ~SameRow(i, j)) =>
                  /\ e.kind = "composition" => d.comps[e.trig].status = e.status
                  /\ e.kind = "ad_run" => d.runs[e.trig].status = e.status
                  /\ e.kind = "playback" => d.plays[PlayOf(i)].status = e.status
            /\ /\ e.kind = "ad_run" /\ s # NULL
               /\ \A j \in Later(i) : SameRow(i, j) => ScopeOf(j) = NULL
               => d.runs[e.trig].sys = s
ExposureSettled(d, i, x) ==
    LET row == d.expo[x]
        w == Window(d, i)
    IN  /\ row # NoRow
        /\ x[2] = CausalObservation(d, x[1]) => row.role = "target"
        /\ (\A j \in Later(i) : ~Writes(d, j, x)) => row.play = PlayOf(i) /\ row.role = Role(d, w, x)
        /\ /\ WatchedBy(d, w, x) # NULL
           /\ \A j \in Later(i) : Writes(d, j, x) => WatchedBy(d, Window(d, j), x) = NULL
           => row.watched = WatchedBy(d, w, x)
        /\ /\ ProbableBy(d, w, x) # NULL
           /\ \A j \in Later(i) : Writes(d, j, x) => ProbableBy(d, Window(d, j), x) = NULL
           => row.prob = ProbableBy(d, w, x)
ExposuresSettled(d, c) ==
    \A i \in 1 .. c : \A x \in Exposures : Writes(d, i, x) => ExposureSettled(d, i, x)

LEMMA StatusesSettle ==
    ASSUME Control, NEW d, NEW n, NEW k \in 1 .. Len(log), Folded(d, k, n),
           \A i \in 1 .. k - 1 : Recorded(d, i), StatusesSettled(d, k - 1)
    PROVE  StatusesSettled(n, k)
<1>1. FoldedComps(d, k, n) /\ FoldedRuns(d, k, n) /\ FoldedPlays(d, k, n)
  BY DEF Folded
<1>2. Len(log) \in Nat
  BY DEF Control
<1> DEFINE f == log[k]
<1>a. /\ f.kind = "composition" => n.comps[f.trig].status = f.status
      /\ f.kind = "ad_run" => /\ n.runs[f.trig].status = f.status
                              /\ n.runs[f.trig].sys = Merged(ScopeOf(k), d.runs[f.trig], "sys")
      /\ f.kind = "playback" => n.plays[PlayOf(k)].status = f.status
  <2>1. Folded(d, k, n)
    OBVIOUS
  <2>2. f.kind = "ad_run" => n.runs[f.trig].sys = Merged(ScopeOf(k), d.runs[f.trig], "sys")
    BY <2>1, WrittenRows
  <2> QED BY <2>1, <2>2, WrittenStatus
<1> SUFFICES ASSUME NEW i \in 1 .. k
             PROVE  LET e == log[i]
                        s == ScopeOf(i)
                    IN  /\ (\A j \in Later(i) : ~SameRow(i, j)) =>
                              /\ e.kind = "composition" => n.comps[e.trig].status = e.status
                              /\ e.kind = "ad_run" => n.runs[e.trig].status = e.status
                              /\ e.kind = "playback" => n.plays[PlayOf(i)].status = e.status
                        /\ /\ e.kind = "ad_run" /\ s # NULL
                           /\ \A j \in Later(i) : SameRow(i, j) => ScopeOf(j) = NULL
                           => n.runs[e.trig].sys = s
  BY DEF StatusesSettled
<1> DEFINE e == log[i]
           s == ScopeOf(i)
           t == e.trig
<1>3. CASE i = k
  <2>1. f.kind = "ad_run" /\ ScopeOf(k) # NULL => n.runs[f.trig].sys = ScopeOf(k)
    BY <1>a, MergedSays DEF Stays
  <2> QED BY <1>3, <1>a, <2>1
<1>4. CASE i # k
  <2>1. i \in 1 .. k - 1 /\ i \in 1 .. Len(log) /\ k \in Later(i)
    BY <1>2, <1>4 DEF Later
  <2>2. ASSUME e.kind = "composition", \A j \in Later(i) : ~SameRow(i, j)
        PROVE  n.comps[t].status = e.status
    <3>1. t \in Triggers /\ ~(log[k].kind = "composition" /\ t = log[k].trig)
      BY <2>1, <2>2, EventPlaces DEF SameRow
    <3>2. n.comps[t] = d.comps[t]
      BY <1>1, <3>1 DEF FoldedComps
    <3> QED BY <2>1, <2>2, <3>2 DEF StatusesSettled
  <2>3. ASSUME e.kind = "ad_run", \A j \in Later(i) : ~SameRow(i, j)
        PROVE  n.runs[t].status = e.status
    <3>1. t \in Triggers /\ ~(log[k].kind = "ad_run" /\ t = log[k].trig)
      BY <2>1, <2>3, EventPlaces DEF SameRow
    <3>2. n.runs[t] = d.runs[t]
      BY <1>1, <3>1 DEF FoldedRuns
    <3> QED BY <2>1, <2>3, <3>2 DEF StatusesSettled
  <2>4. ASSUME e.kind = "playback", \A j \in Later(i) : ~SameRow(i, j)
        PROVE  n.plays[PlayOf(i)].status = e.status
    <3>1. PlayOf(i) \in Playbacks /\ ~(log[k].kind = "playback" /\ PlayOf(i) = PlayOf(k))
      BY <2>1, <2>4, EventPlaces DEF SameRow, PlayOf
    <3>2. n.plays[PlayOf(i)] = d.plays[PlayOf(i)]
      BY <1>1, <3>1, Zenon DEF FoldedPlays
    <3> QED BY <2>1, <2>4, <3>2 DEF StatusesSettled
  <2>5. ASSUME e.kind = "ad_run", s # NULL, \A j \in Later(i) : SameRow(i, j) => ScopeOf(j) = NULL
        PROVE  n.runs[t].sys = s
    <3>1. t \in Triggers /\ d.runs[t] # NoRow /\ d.runs[t].sys = s
      BY <2>1, <2>5, EventPlaces DEF Recorded, StatusesSettled
    <3>2. CASE log[k].kind = "ad_run" /\ t = log[k].trig
      <4> DEFINE u == log[k].trig
      <4>1. n.runs[u].sys = Merged(ScopeOf(k), d.runs[u], "sys")
        BY <3>2, WrittenRows
      <4>2. ScopeOf(k) = NULL
        BY <2>1, <2>5, <3>2 DEF SameRow
      <4> QED BY <3>1, <3>2, <4>1, <4>2 DEF Merged, Coalesce
    <3>3. CASE ~(log[k].kind = "ad_run" /\ t = log[k].trig)
      BY <1>1, <3>1, <3>3 DEF FoldedRuns
    <3> QED BY <3>2, <3>3
  <2> QED BY <2>2, <2>3, <2>4, <2>5
<1> QED BY <1>3, <1>4

(* The exposure that a derivation has just written.                        *)
LEMMA ExposureWritten ==
    ASSUME Control, NEW d, NEW n, NEW k \in 1 .. Len(log), Folded(d, k, n),
           NEW x \in Exposures, Writes(n, k, x)
    PROVE  LET w == Window(n, k)
               row == n.expo[x]
           IN  /\ row # NoRow /\ row.play = PlayOf(k) /\ row.role = Role(n, w, x)
               /\ row.watched = Merged(WatchedBy(n, w, x), d.expo[x], "watched")
               /\ row.prob = Merged(ProbableBy(n, w, x), d.expo[x], "prob")
<1> DEFINE w == Window(n, k)
           p == PlayOf(k)
           pb == n.plays[p]
           o == x[2]
           row == [play |-> p, role |-> Role(n, w, x),
                   watched |-> Merged(WatchedBy(n, w, x), d.expo[x], "watched"),
                   prob |-> Merged(ProbableBy(n, w, x), d.expo[x], "prob")]
<1>1. Derives(n, k) /\ Hit(n, w, x) /\ log[k].kind = "playback" /\ Inv(n) /\ d \in Databases
  BY DEF Writes, Derives, Closes, Folded, Sound, Inv
<1>2. p \in Playbacks /\ PlayedRun(log[k]) \in Triggers /\ PlayedRun(log[k]) # NULL /\ o \in Ids
  BY <1>1, EventPlaces, NullAssumption DEF Exposures
<1>3. pb.run = PlayedRun(log[k])
  BY <1>1, ResolvedAtOnce DEF Resolved, Derives
<1>4. Closed(pb) /\ SameWindow(w, pb)
  BY <1>1, <1>2, <1>3 DEF Derives, Closed, SameWindow, Window
<1>5. n.obs[o] # NoRow
  <2>1. w.run \in Triggers
    BY <1>2 DEF Window
  <2>2. IsTarget(n, w, x) <=> IsTarget(n, pb, x)
    BY <1>4, <2>1, SeenAlike DEF SameView
  <2>3. CASE IsTarget(n, w, x)
    BY <1>1, <1>2, <1>4, <2>2, <2>3, TargetFound DEF IsTarget
  <2>4. CASE ~IsTarget(n, w, x)
    BY <1>1, <2>4 DEF Hit, Bystanders
  <2> QED BY <2>3, <2>4
<1>6. n.expo[x] = row
  <2>1. FoldedExpo(d, k, n)
    BY DEF Folded
  <2> HIDE DEF w, p
  <2>2. n.expo[x] = UpsertExposure(d.expo[x], p, Role(n, w, x), WatchedBy(n, w, x),
                                   ProbableBy(n, w, x))
    BY <2>1, Zenon DEF FoldedExpo, w, p
  <2> QED BY <2>2 DEF UpsertExposure, Merged
<1>7. row \in ExpoRows
  <2>1. WatchedBy(n, w, x) \in Opt(BOOLEAN) /\ ProbableBy(n, w, x) \in Opt(0 .. Whole)
    BY <1>1, <1>2, <1>5, MeasurementsTyped DEF WatchedBy, ProbableBy, Opt
  <2>2. Role(n, w, x) \in {"target", "bystander"}
    BY DEF Role
  <2>3. d.expo[x] \in ExpoRows \cup {NoRow}
    BY <1>1, DatabaseFields DEF Table
  <2>4. /\ Merged(WatchedBy(n, w, x), d.expo[x], "watched") \in Opt(BOOLEAN)
        /\ Merged(ProbableBy(n, w, x), d.expo[x], "prob") \in Opt(0 .. Whole)
    BY <2>1, <2>3 DEF ExpoRows, Merged, Coalesce
  <2> HIDE DEF w, p
  <2> QED BY <1>2, <2>2, <2>4 DEF ExpoRows
<1> HIDE DEF w, p
<1>8. n.expo[x] # NoRow
  BY <1>6, <1>7, NoRowAssumption
<1>9. /\ n.expo[x].play = p /\ n.expo[x].role = Role(n, w, x)
      /\ n.expo[x].watched = Merged(WatchedBy(n, w, x), d.expo[x], "watched")
      /\ n.expo[x].prob = Merged(ProbableBy(n, w, x), d.expo[x], "prob")
  BY <1>6
<1> QED BY <1>8, <1>9 DEF w, p

(* A playback that derives goes on deriving from the same window.          *)
LEMMA DerivesOn ==
    ASSUME Control, NEW d, NEW n, Grows(d, n), NEW i \in 1 .. Len(log), Derives(d, i)
    PROVE  Derives(n, i) /\ Window(n, i) = Window(d, i)
<1> DEFINE of == PlayedRun(log[i])
           p == PlayOf(i)
<1>1. p \in Playbacks /\ of \in Triggers
  BY EventPlaces DEF Derives, Closes
<1>2. /\ d.plays[p] # NoRow /\ d.plays[p].sys # NULL /\ d.plays[p].start # NULL
      /\ d.plays[p].end # NULL /\ d.runs[of] # NoRow /\ Closes(log[i])
  BY DEF Derives
<1> HIDE DEF p, of
<1>3. /\ n.plays[p] # NoRow /\ n.plays[p].sys = d.plays[p].sys
      /\ n.plays[p].start = d.plays[p].start /\ n.plays[p].end = d.plays[p].end
      /\ n.runs[of] # NoRow
  BY <1>1, <1>2 DEF Grows, Stays
<1> QED BY <1>2, <1>3 DEF Derives, Window, p, of

LEMMA DerivesAlike ==
    ASSUME Control, NEW d, NEW n, SameRows(d, n), NEW i \in 1 .. Len(log)
    PROVE  /\ Derives(d, i) <=> Derives(n, i)
           /\ Derives(d, i) => Window(n, i) = Window(d, i)
<1> DEFINE of == PlayedRun(log[i])
           p == PlayOf(i)
<1>1. CASE log[i].kind = "playback"
  <2>1. p \in Playbacks /\ of \in Triggers
    BY <1>1, EventPlaces
  <2> HIDE DEF p, of
  <2>2. /\ d.plays[p] = NoRow <=> n.plays[p] = NoRow
        /\ d.plays[p].sys = n.plays[p].sys /\ d.plays[p].start = n.plays[p].start
        /\ d.plays[p].end = n.plays[p].end
        /\ d.runs[of] = NoRow <=> n.runs[of] = NoRow
    BY <2>1 DEF SameRows
  <2>3. Derives(d, i) <=> Derives(n, i)
    BY <2>2 DEF Derives, p, of
  <2>4. Window(n, i) = Window(d, i)
    BY <2>2 DEF Window, p
  <2> QED BY <2>3, <2>4
<1>2. CASE log[i].kind # "playback"
  BY <1>2 DEF Derives, Closes
<1> QED BY <1>1, <1>2

(* What a later playback finds does not depend on the folds between.       *)
LEMMA WritesAlike ==
    ASSUME Control, NEW d, NEW n, SameView(d, n), NEW i \in 1 .. Len(log),
           Derives(d, i), Derives(n, i), Window(n, i) = Window(d, i), NEW x \in Exposures
    PROVE  /\ Writes(n, i, x) <=> Writes(d, i, x)
           /\ Role(n, Window(n, i), x) = Role(d, Window(d, i), x)
           /\ WatchedBy(n, Window(n, i), x) = WatchedBy(d, Window(d, i), x)
           /\ ProbableBy(n, Window(n, i), x) = ProbableBy(d, Window(d, i), x)
<1>1. PlayedRun(log[i]) \in Triggers
  BY EventPlaces DEF Derives, Closes
<1>2. SameWindow(Window(d, i), Window(n, i)) /\ Window(d, i).run \in Triggers
  BY <1>1 DEF SameWindow, Window
<1>3. /\ Hit(d, Window(d, i), x) <=> Hit(n, Window(n, i), x)
      /\ Role(d, Window(d, i), x) = Role(n, Window(n, i), x)
      /\ WatchedBy(d, Window(d, i), x) = WatchedBy(n, Window(n, i), x)
      /\ ProbableBy(d, Window(d, i), x) = ProbableBy(n, Window(n, i), x)
  BY <1>2, SeenAlike
<1> QED BY <1>3 DEF Writes

(* A fold that moves nothing a derivation sees settles its own exposures   *)
(* and leaves the others: a window that it completed is one it closes.     *)
LEMMA ExposuresSettle ==
    ASSUME Control, NEW d, NEW n, NEW k \in 1 .. Len(log), Folded(d, k, n),
           \A i \in 1 .. k - 1 : Closes(log[i]) => SameView(d, n),
           \A i \in 1 .. k - 1 : Derives(n, i) /\ ~Derives(d, i) =>
               Closes(log[k]) /\ PlayOf(k) = PlayOf(i),
           ExposuresSettled(d, k - 1)
    PROVE  ExposuresSettled(n, k)
<1> SUFFICES ASSUME NEW i \in 1 .. k, NEW x \in Exposures, Writes(n, i, x)
             PROVE  ExposureSettled(n, i, x)
  BY DEF ExposuresSettled
<1> DEFINE row == n.expo[x]
           w == Window(n, i)
<1>1. /\ Len(log) \in Nat /\ i \in 1 .. Len(log) /\ Grows(d, n) /\ n \in Databases /\ d \in Databases
      /\ Len(log) <= MaxEvents
  BY DEF Control, Folded, Sound, Inv
<1>2. x[2] # NULL /\ Derives(n, i) /\ Hit(n, w, x) /\ x[1] = w.run
  BY NullAssumption DEF Exposures, Ids, Writes, Hit
<1>3. CASE i = k
  <2>1. /\ row # NoRow /\ row.play = PlayOf(i) /\ row.role = Role(n, w, x)
        /\ row.watched = Merged(WatchedBy(n, w, x), d.expo[x], "watched")
        /\ row.prob = Merged(ProbableBy(n, w, x), d.expo[x], "prob")
    BY <1>3, ExposureWritten
  <2>2. x[2] = CausalObservation(n, x[1]) => row.role = "target"
    BY <1>2, <2>1 DEF Role, IsTarget, TargetObservation, Coalesce
  <2> QED BY <2>1, <2>2, MergedSays DEF ExposureSettled, Stays
<1>4. CASE i # k
  <2>1. i \in 1 .. k - 1 /\ k \in Later(i)
    BY <1>1, <1>4 DEF Later
  <2> SameView(d, n)
    BY <1>2, <2>1 DEF Derives
  <2>2. \A r : CausalObservation(d, r) = CausalObservation(n, r)
    BY CausalAlike
  <2>3. ASSUME NEW j \in Later(i), Writes(d, j, x)
        PROVE  /\ Writes(n, j, x)
               /\ WatchedBy(n, Window(n, j), x) = WatchedBy(d, Window(d, j), x)
               /\ ProbableBy(n, Window(n, j), x) = ProbableBy(d, Window(d, j), x)
    <3>1. j \in 1 .. Len(log)
      BY <1>1, <2>1 DEF Later
    <3>2. Derives(d, j) /\ Derives(n, j) /\ Window(n, j) = Window(d, j)
      BY <1>1, <2>3, <3>1, DerivesOn DEF Writes
    <3> QED BY <2>3, <3>1, <3>2, WritesAlike
  <2>4. CASE Derives(d, i)
    <3>1. /\ Writes(d, i, x) /\ w = Window(d, i)
          /\ Role(n, w, x) = Role(d, w, x) /\ WatchedBy(n, w, x) = WatchedBy(d, w, x)
          /\ ProbableBy(n, w, x) = ProbableBy(d, w, x)
      <4>1. Window(n, i) = Window(d, i)
        BY <1>1, <2>4, DerivesOn
      <4> QED BY <1>1, <1>2, <2>4, <4>1, WritesAlike
    <3>2. ExposureSettled(d, i, x)
      BY <2>1, <3>1 DEF ExposuresSettled
    <3> HIDE DEF w
    <3>3. CASE ~Writes(n, k, x)
      <4>1. row = d.expo[x]
        BY <3>3, Zenon DEF Folded, FoldedExpo
      <4> QED BY <2>2, <2>3, <3>1, <3>2, <4>1 DEF ExposureSettled, w
    <3>4. CASE Writes(n, k, x)
      <4> DEFINE v == Window(n, k)
      <4>1. /\ row # NoRow /\ row.role = Role(n, v, x)
            /\ row.watched = Merged(WatchedBy(n, v, x), d.expo[x], "watched")
            /\ row.prob = Merged(ProbableBy(n, v, x), d.expo[x], "prob")
        BY <3>4, ExposureWritten
      <4>2. x[2] = CausalObservation(n, x[1]) => row.role = "target"
        BY <1>2, <3>4, <4>1 DEF Writes, Hit, Role, IsTarget, TargetObservation, Coalesce
      <4>3. d.expo[x] # NoRow
        BY <3>2 DEF ExposureSettled
      <4> HIDE DEF v
      <4>4. ASSUME WatchedBy(n, w, x) # NULL,
                   \A j \in Later(i) : Writes(n, j, x) => WatchedBy(n, Window(n, j), x) = NULL
            PROVE  row.watched = WatchedBy(n, w, x)
        <5>1. WatchedBy(n, v, x) = NULL
          BY <2>1, <3>4, <4>4 DEF v
        <5>2. row.watched = d.expo[x].watched
          BY <4>1, <4>3, <5>1 DEF Merged, Coalesce
        <5>3. d.expo[x].watched = WatchedBy(d, w, x)
          BY <2>3, <3>1, <3>2, <4>4 DEF ExposureSettled, w
        <5> QED BY <3>1, <5>2, <5>3
      <4>5. ASSUME ProbableBy(n, w, x) # NULL,
                   \A j \in Later(i) : Writes(n, j, x) => ProbableBy(n, Window(n, j), x) = NULL
            PROVE  row.prob = ProbableBy(n, w, x)
        <5>1. ProbableBy(n, v, x) = NULL
          BY <2>1, <3>4, <4>5 DEF v
        <5>2. row.prob = d.expo[x].prob
          BY <4>1, <4>3, <5>1 DEF Merged, Coalesce
        <5>3. d.expo[x].prob = ProbableBy(d, w, x)
          BY <2>3, <3>1, <3>2, <4>5 DEF ExposureSettled, w
        <5> QED BY <3>1, <5>2, <5>3
      <4> QED BY <2>1, <3>4, <4>1, <4>2, <4>4, <4>5 DEF ExposureSettled, w
    <3> QED BY <3>3, <3>4
  <2>5. CASE ~Derives(d, i)
    <3>1. Closes(log[k]) /\ PlayOf(k) = PlayOf(i)
      BY <1>2, <2>1, <2>5
    <3>2. log[i] \in Alphabet /\ log[k] \in Alphabet /\ log[i].kind = "playback" /\ log[k].kind = "playback"
      BY <1>1, <1>2, <3>1, EventPlaces DEF Derives, Closes
    <3>3. PlayedRun(log[k]) = PlayedRun(log[i])
      BY <3>1, <3>2, AgreementAssumption DEF PlayOf
    <3>4. Window(n, k) = w /\ Derives(n, k)
      BY <1>2, <3>1, <3>3 DEF Window, Derives
    <3>5. Writes(n, k, x)
      BY <1>2, <3>4 DEF Writes
    <3> HIDE DEF w
    <3>6. /\ row # NoRow /\ row.role = Role(n, w, x)
          /\ row.watched = Merged(WatchedBy(n, w, x), d.expo[x], "watched")
          /\ row.prob = Merged(ProbableBy(n, w, x), d.expo[x], "prob")
      BY <3>4, <3>5, ExposureWritten
    <3>7. x[2] = CausalObservation(n, x[1]) => row.role = "target"
      BY <1>2, <3>6 DEF Hit, Role, IsTarget, TargetObservation, Coalesce
    <3> QED BY <2>1, <3>4, <3>5, <3>6, <3>7, MergedSays DEF ExposureSettled, Stays, w
  <2> QED BY <2>4, <2>5
<1> QED BY <1>3, <1>4

-----------------------------------------------------------------------------
(* One replay records everything, a second one settles it.                 *)
Ready(d) == \A i \in 1 .. Len(log) : Recorded(d, i)
Final(d) ==
    /\ Ready(d)
    /\ \A i \in 1 .. Len(log) : Resolved(d, i)
    /\ StatusesSettled(d, Len(log)) /\ ExposuresSettled(d, Len(log))

LEMMA ReplayRecords ==
    ASSUME Control, NEW d, Sound(d)
    PROVE  Sound(Refold(d)) /\ Ready(Refold(d))
<1> DEFINE L == Len(log)
<1>1. L \in Nat
  BY DEF Control
<1>2. PICK a : /\ a[0] = d /\ Refold(d) = a[L]
               /\ \A k \in 1 .. L : a[k] = FoldEvent(a[k - 1], k)
  BY <1>1, Pass
<1> DEFINE S == {m \in 0 .. L : Sound(a[m]) /\ \A i \in 1 .. m : Recorded(a[m], i)}
<1>3. 0 \in S
  BY <1>1, <1>2
<1>4. ASSUME NEW k \in 1 .. L, k - 1 \in S PROVE k \in S
  <2>1. Sound(a[k - 1]) /\ \A i \in 1 .. k - 1 : Recorded(a[k - 1], i)
    BY <1>4
  <2>2. Folded(a[k - 1], k, a[k])
    BY <1>2, <2>1, FoldShape
  <2>3. ASSUME NEW i \in 1 .. k PROVE Recorded(a[k], i)
    <3>1. CASE i = k
      BY <2>2, <3>1, RecordedAtOnce
    <3>2. CASE i # k
      <4>1. i \in 1 .. k - 1 /\ i \in 1 .. L
        BY <1>1, <3>2
      <4> QED BY <2>1, <2>2, <4>1, RecordedStays
    <3> QED BY <3>1, <3>2
  <2> QED BY <2>2, <2>3 DEF Folded
<1> HIDE DEF S
<1>5. L \in S
  BY <1>1, <1>3, <1>4, UpTo
<1> QED BY <1>2, <1>5 DEF S, Ready

LEMMA ReadyStays ==
    ASSUME Control, NEW d, NEW n, NEW k \in 1 .. Len(log), Folded(d, k, n), Ready(d)
    PROVE  Ready(n) /\ SameRows(d, n)
<1>1. Ready(n)
  BY RecordedStays DEF Ready
<1>2. SameRows(d, n)
  BY RowsKept DEF Ready
<1> QED BY <1>1, <1>2

LEMMA ReplaySettles ==
    ASSUME Control, NEW d, Sound(d), Ready(d)
    PROVE  Sound(Refold(d)) /\ Final(Refold(d))
<1> DEFINE L == Len(log)
           Settled(n, c) == /\ Sound(n) /\ Ready(n)
                            /\ \A i \in 1 .. c : Resolved(n, i)
                            /\ StatusesSettled(n, c) /\ ExposuresSettled(n, c)
<1>1. L \in Nat
  BY DEF Control
<1>2. PICK a : /\ a[0] = d /\ Refold(d) = a[L]
               /\ \A k \in 1 .. L : a[k] = FoldEvent(a[k - 1], k)
  BY <1>1, Pass
<1> DEFINE S == {m \in 0 .. L : Settled(a[m], m)}
<1>3. 0 \in S
  BY <1>1, <1>2 DEF StatusesSettled, ExposuresSettled
<1>4. ASSUME NEW k \in 1 .. L, k - 1 \in S PROVE k \in S
  <2> DEFINE n == a[k]
             m == a[k - 1]
  <2>1. Settled(m, k - 1)
    BY <1>4
  <2>2. Folded(m, k, n)
    BY <1>2, <2>1, FoldShape
  <2> HIDE DEF n, m
  <2>3. Sound(n) /\ Ready(n) /\ SameRows(m, n)
    BY <2>1, <2>2, ReadyStays DEF Folded
  <2>4. ASSUME NEW i \in 1 .. k PROVE Resolved(n, i)
    <3>1. CASE i = k
      BY <2>2, <3>1, ResolvedAtOnce
    <3>2. CASE i # k
      <4>1. i \in 1 .. k - 1 /\ i \in 1 .. L
        BY <1>1, <3>2
      <4>2. Recorded(m, i) /\ Resolved(m, i) /\ SameRefs(m, n, i)
        BY <2>1, <2>3, <4>1, RefsKept DEF Ready
      <4> QED BY <2>2, <4>1, <4>2, ResolvedStays
    <3> QED BY <3>1, <3>2
  <2>5. StatusesSettled(n, k)
    <3>1. \A i \in 1 .. k - 1 : Recorded(m, i)
      BY <1>1, <2>1 DEF Ready
    <3> QED BY <2>1, <2>2, <3>1, StatusesSettle
  <2>6. ExposuresSettled(n, k)
    <3>1. \A i \in 1 .. k - 1 : ~(Derives(n, i) /\ ~Derives(m, i))
      BY <1>1, <2>3, DerivesAlike
    <3>2. SameView(m, n)
      BY <2>3 DEF SameRows
    <3> QED BY <2>1, <2>2, <3>1, <3>2, ExposuresSettle
  <2> QED BY <2>3, <2>4, <2>5, <2>6 DEF n
<1> HIDE DEF S
<1>5. L \in S
  BY <1>1, <1>3, <1>4, UpTo
<1> QED BY <1>2, <1>5 DEF S, Final

-----------------------------------------------------------------------------
(* A replay of final tables: at event c the tables m differ from d at most *)
(* in columns that a later event writes again.                             *)
NearComps(d, m, c) ==
    \A t \in Triggers :
        /\ m.comps[t].decision = d.comps[t].decision
        /\ \/ m.comps[t].status = d.comps[t].status
           \/ \E j \in c + 1 .. Len(log) : log[j].kind = "composition" /\ log[j].trig = t
NearRuns(d, m, c) ==
    \A t \in Triggers :
        /\ m.runs[t].decision = d.runs[t].decision /\ m.runs[t].comp = d.runs[t].comp
        /\ \/ m.runs[t].status = d.runs[t].status
           \/ \E j \in c + 1 .. Len(log) : log[j].kind = "ad_run" /\ log[j].trig = t
        /\ \/ m.runs[t].sys = d.runs[t].sys
           \/ \E j \in c + 1 .. Len(log) :
                 log[j].kind = "ad_run" /\ log[j].trig = t /\ ScopeOf(j) # NULL
NearPlays(d, m, c) ==
    \A p \in Playbacks :
        /\ m.plays[p].run = d.plays[p].run
        /\ \/ m.plays[p].status = d.plays[p].status
           \/ \E j \in c + 1 .. Len(log) : log[j].kind = "playback" /\ PlayOf(j) = p
NearExpo(d, m, c) ==
    \A x \in Exposures :
        /\ m.expo[x] = NoRow <=> d.expo[x] = NoRow
        /\ \/ m.expo[x].play = d.expo[x].play /\ m.expo[x].role = d.expo[x].role
           \/ \E j \in c + 1 .. Len(log) : Writes(d, j, x)
        /\ \/ m.expo[x].watched = d.expo[x].watched
           \/ \E j \in c + 1 .. Len(log) : Writes(d, j, x) /\ WatchedBy(d, Window(d, j), x) # NULL
        /\ \/ m.expo[x].prob = d.expo[x].prob
           \/ \E j \in c + 1 .. Len(log) : Writes(d, j, x) /\ ProbableBy(d, Window(d, j), x) # NULL
Near(d, m, c) ==
    /\ Sound(m) /\ SameRows(d, m)
    /\ m.obs = d.obs /\ m.matches = d.matches /\ m.stamp = d.stamp
    /\ NearComps(d, m, c) /\ NearRuns(d, m, c) /\ NearPlays(d, m, c) /\ NearExpo(d, m, c)

LEMMA SameRowsOn ==
    ASSUME NEW d, NEW m, NEW n, SameRows(d, m), SameRows(m, n)
    PROVE  SameRows(d, n)
<1>1. SameView(d, n)
  BY DEF SameRows, SameView
<1> QED BY <1>1 DEF SameRows

LEMMA NearReady ==
    ASSUME Control, NEW d, Final(d), NEW c, NEW m, Near(d, m, c), NEW i \in 1 .. Len(log)
    PROVE  Recorded(m, i) /\ Resolved(m, i)
<1> DEFINE e == log[i]
<1>1. Recorded(d, i) /\ Resolved(d, i) /\ SameRefs(d, m, i)
  BY RefsKept DEF Final, Ready, Near
<1>2. /\ m.tracks = d.tracks /\ m.decisions = d.decisions /\ m.obs = d.obs /\ m.stamp = d.stamp
      /\ m.matches = d.matches
  BY DEF Near, SameRows
<1>3. e.kind = "composition" => /\ d.comps[e.trig] = NoRow <=> m.comps[e.trig] = NoRow
                                /\ m.comps[e.trig].decision = d.comps[e.trig].decision
  BY EventPlaces DEF Near, NearComps, SameRows
<1>4. e.kind = "ad_run" => /\ d.runs[e.trig] = NoRow <=> m.runs[e.trig] = NoRow
                           /\ d.comps[e.trig] = NoRow <=> m.comps[e.trig] = NoRow
                           /\ m.runs[e.trig].target = d.runs[e.trig].target
                           /\ m.runs[e.trig].decision = d.runs[e.trig].decision
                           /\ m.runs[e.trig].comp = d.runs[e.trig].comp
  BY EventPlaces DEF Near, NearRuns, SameRows, SameView
<1>5. e.kind = "playback" => /\ d.plays[PlayOf(i)] = NoRow <=> m.plays[PlayOf(i)] = NoRow
                             /\ m.plays[PlayOf(i)].run = d.plays[PlayOf(i)].run
                             /\ m.plays[PlayOf(i)].sys = d.plays[PlayOf(i)].sys
                             /\ m.plays[PlayOf(i)].start = d.plays[PlayOf(i)].start
                             /\ m.plays[PlayOf(i)].end = d.plays[PlayOf(i)].end
                             /\ d.runs[PlayedRun(e)] = NoRow <=> m.runs[PlayedRun(e)] = NoRow
  BY EventPlaces DEF Near, NearPlays, SameRows
<1>6. Recorded(m, i)
  BY <1>1, <1>2, <1>3, <1>4, <1>5 DEF Recorded
<1>7. Resolved(m, i)
  BY <1>1, <1>2, <1>3, <1>4, <1>5 DEF Resolved, SameRefs
<1> QED BY <1>6, <1>7

LEMMA NearStep ==
    ASSUME Control, NEW d, Final(d), NEW k \in 1 .. Len(log), NEW m, Near(d, m, k - 1),
           NEW n, Folded(m, k, n)
    PROVE  Near(d, n, k)
<1> DEFINE e == log[k]
           L == Len(log)
<1>1. Recorded(m, k) /\ Resolved(m, k) /\ k \in Ids
  BY NearReady, EventPlaces
<1>2. SameRows(m, n) /\ n.stamp = m.stamp /\ SameRows(d, m) /\ Sound(n) /\ L \in Nat
  BY <1>1, RowsKept DEF Near, Folded, Control
<1>3. SameRows(d, n)
  BY <1>2, SameRowsOn
<1>4. /\ FoldedObs(m, k, n) /\ FoldedSets(m, k, n) /\ FoldedComps(m, k, n) /\ FoldedRuns(m, k, n)
      /\ FoldedPlays(m, k, n) /\ FoldedExpo(m, k, n)
      /\ m \in Databases /\ n \in Databases
  BY DEF Folded, Sound, Inv
<1>5. /\ NearComps(d, m, k - 1) /\ NearRuns(d, m, k - 1) /\ NearPlays(d, m, k - 1)
      /\ NearExpo(d, m, k - 1)
      /\ m.obs = d.obs /\ m.matches = d.matches /\ m.stamp = d.stamp
  BY DEF Near
<1>6. \A j : j \in k .. L <=> j = k \/ j \in k + 1 .. L
  BY <1>2
<1>a. k - 1 + 1 = k
  OBVIOUS
<1>b. Recorded(d, k) /\ StatusesSettled(d, L) /\ ExposuresSettled(d, L) /\ Later(k) = k + 1 .. L
  BY DEF Final, Ready, Later
<1>7. n.obs = m.obs
  <2>1. ASSUME NEW o \in Ids PROVE n.obs[o] = m.obs[o]
    <3>1. CASE e.kind = "detection" /\ o = k
      <4> DEFINE old == m.obs[o]
                 new == n.obs[o]
      <4>1. old # NoRow /\ new # NoRow
        BY <1>1, <1>2, <3>1 DEF Recorded, SameRows, SameView
      <4>2. old \in ObsRows /\ new \in ObsRows
        BY <1>4, <4>1, DatabaseFields DEF Table
      <4>3. /\ new.trig = old.trig /\ new.sys = old.sys /\ new.at = old.at /\ new.subj = old.subj
            /\ new.track = old.track /\ new.att = old.att
        BY <1>2 DEF SameRows, SameView
      <4>4. new.linked = old.linked
        <5>1. new.linked = (\/ e.track # NULL /\ m.tracks[<<e.screen, e.track>>] # NoRow
                            \/ old # NoRow /\ old.linked)
          BY <3>1, WrittenRows
        <5>2. old.linked \in BOOLEAN
          BY <4>2 DEF ObsRows
        <5>3. e.track # NULL /\ m.tracks[<<e.screen, e.track>>] # NoRow => old.linked = TRUE
          BY <1>1, <3>1 DEF Resolved
        <5> QED BY <4>1, <5>1, <5>2, <5>3
      <4> QED BY <4>2, <4>3, <4>4 DEF ObsRows
    <3>2. CASE ~(e.kind = "detection" /\ o = k)
      BY <1>4, <3>2 DEF FoldedObs
    <3> QED BY <3>1, <3>2
  <2> QED BY <1>4, <2>1, DatabaseFields DEF Table
<1>8. n.matches = m.matches
  BY <1>1, <1>4 DEF FoldedSets, Resolved
<1>9. NearComps(d, n, k)
  <2> SUFFICES ASSUME NEW t \in Triggers
               PROVE  /\ n.comps[t].decision = d.comps[t].decision
                      /\ \/ n.comps[t].status = d.comps[t].status
                         \/ \E j \in k + 1 .. L : log[j].kind = "composition" /\ log[j].trig = t
    BY DEF NearComps
  <2>1. /\ m.comps[t].decision = d.comps[t].decision
        /\ \/ m.comps[t].status = d.comps[t].status
           \/ \E j \in k .. L : log[j].kind = "composition" /\ log[j].trig = t
    BY <1>5, <1>a DEF NearComps
  <2>2. CASE e.kind = "composition" /\ e.trig = t
    <3>1. n.comps[e.trig].decision = Merged(Decision(m, e.trig), m.comps[e.trig], "decision")
      BY <2>2, WrittenRows
    <3>2. n.comps[e.trig].status = e.status
      BY <2>2, WrittenStatus
    <3>3. m.comps[t] # NoRow /\ Stays(Decision(m, t), m.comps[t].decision)
      BY <1>1, <2>2 DEF Recorded, Resolved
    <3>4. n.comps[t].decision = m.comps[t].decision
      BY <2>2, <3>1, <3>3 DEF Stays, Merged, Coalesce
    <3>5. CASE \A j \in Later(k) : ~SameRow(k, j)
      BY <1>b, <2>1, <2>2, <3>2, <3>4, <3>5 DEF StatusesSettled
    <3>6. CASE \E j \in Later(k) : SameRow(k, j)
      BY <1>b, <2>1, <2>2, <3>4, <3>6 DEF SameRow
    <3> QED BY <3>5, <3>6
  <2>3. CASE ~(e.kind = "composition" /\ e.trig = t)
    <3>1. n.comps[t] = m.comps[t]
      BY <1>4, <2>3 DEF FoldedComps
    <3> QED BY <1>6, <2>1, <2>3, <3>1
  <2> QED BY <2>2, <2>3
<1>10. NearRuns(d, n, k)
  <2> SUFFICES ASSUME NEW t \in Triggers
               PROVE  /\ n.runs[t].decision = d.runs[t].decision /\ n.runs[t].comp = d.runs[t].comp
                      /\ \/ n.runs[t].status = d.runs[t].status
                         \/ \E j \in k + 1 .. L : log[j].kind = "ad_run" /\ log[j].trig = t
                      /\ \/ n.runs[t].sys = d.runs[t].sys
                         \/ \E j \in k + 1 .. L :
                               log[j].kind = "ad_run" /\ log[j].trig = t /\ ScopeOf(j) # NULL
    BY DEF NearRuns
  <2>1. /\ m.runs[t].decision = d.runs[t].decision /\ m.runs[t].comp = d.runs[t].comp
        /\ \/ m.runs[t].status = d.runs[t].status
           \/ \E j \in k .. L : log[j].kind = "ad_run" /\ log[j].trig = t
        /\ \/ m.runs[t].sys = d.runs[t].sys
           \/ \E j \in k .. L : log[j].kind = "ad_run" /\ log[j].trig = t /\ ScopeOf(j) # NULL
    BY <1>5, <1>a DEF NearRuns
  <2>2. CASE e.kind = "ad_run" /\ e.trig = t
    <3> DEFINE old == m.runs[e.trig]
    <3>1. /\ n.runs[e.trig].decision = Merged(Decision(m, e.trig), old, "decision")
          /\ n.runs[e.trig].comp =
                 Merged(IF m.comps[e.trig] # NoRow THEN e.trig ELSE NULL, old, "comp")
          /\ n.runs[e.trig].sys = Merged(ScopeOf(k), old, "sys")
      BY <2>2, WrittenRows
    <3>2. n.runs[e.trig].status = e.status
      BY <2>2, WrittenStatus
    <3>3. /\ old # NoRow /\ Stays(Decision(m, e.trig), old.decision)
          /\ m.comps[e.trig] # NoRow => old.comp = e.trig
      BY <1>1, <2>2 DEF Recorded, Resolved
    <3>4. n.runs[t].decision = m.runs[t].decision /\ n.runs[t].comp = m.runs[t].comp
      BY <2>2, <3>1, <3>3 DEF Stays, Merged, Coalesce
    <3>5. \/ n.runs[t].status = d.runs[t].status
          \/ \E j \in k + 1 .. L : log[j].kind = "ad_run" /\ log[j].trig = t
      <4>1. CASE \A j \in Later(k) : ~SameRow(k, j)
        BY <1>b, <2>2, <3>2, <4>1 DEF StatusesSettled
      <4>2. CASE \E j \in Later(k) : SameRow(k, j)
        BY <1>b, <2>2, <4>2 DEF SameRow
      <4> QED BY <4>1, <4>2
    <3>6. \/ n.runs[t].sys = d.runs[t].sys
          \/ \E j \in k + 1 .. L : log[j].kind = "ad_run" /\ log[j].trig = t /\ ScopeOf(j) # NULL
      <4>1. CASE ScopeOf(k) = NULL
        <5>1. n.runs[t].sys = m.runs[t].sys
          BY <2>2, <3>1, <3>3, <4>1 DEF Merged, Coalesce
        <5> QED BY <1>6, <2>1, <4>1, <5>1
      <4>2. CASE ScopeOf(k) # NULL
        <5>1. n.runs[t].sys = ScopeOf(k)
          BY <2>2, <3>1, <4>2 DEF Merged, Coalesce
        <5>2. CASE \A j \in Later(k) : SameRow(k, j) => ScopeOf(j) = NULL
          BY <1>b, <2>2, <4>2, <5>1, <5>2 DEF StatusesSettled
        <5>3. CASE \E j \in Later(k) : SameRow(k, j) /\ ScopeOf(j) # NULL
          BY <1>b, <2>2, <5>3 DEF SameRow
        <5> QED BY <5>2, <5>3
      <4> QED BY <4>1, <4>2
    <3> QED BY <2>1, <3>4, <3>5, <3>6
  <2>3. CASE ~(e.kind = "ad_run" /\ e.trig = t)
    <3>1. n.runs[t] = m.runs[t]
      BY <1>4, <2>3 DEF FoldedRuns
    <3> QED BY <1>6, <2>1, <2>3, <3>1
  <2> QED BY <2>2, <2>3
<1>11. NearPlays(d, n, k)
  <2> SUFFICES ASSUME NEW p \in Playbacks
               PROVE  /\ n.plays[p].run = d.plays[p].run
                      /\ \/ n.plays[p].status = d.plays[p].status
                         \/ \E j \in k + 1 .. L : log[j].kind = "playback" /\ PlayOf(j) = p
    BY DEF NearPlays
  <2>1. /\ m.plays[p].run = d.plays[p].run
        /\ \/ m.plays[p].status = d.plays[p].status
           \/ \E j \in k .. L : log[j].kind = "playback" /\ PlayOf(j) = p
    BY <1>5, <1>a DEF NearPlays
  <2>2. CASE e.kind = "playback" /\ PlayOf(k) = p
    <3> DEFINE old == m.plays[PlayOf(k)]
               of == PlayedRun(e)
    <3>1. n.plays[PlayOf(k)].run = Merged(IF m.runs[of] # NoRow THEN of ELSE NULL, old, "run")
      BY <2>2, WrittenRows
    <3>2. n.plays[PlayOf(k)].status = e.status
      BY <2>2, WrittenStatus
    <3>3. old # NoRow /\ (m.runs[of] # NoRow => old.run = of)
      BY <1>1, <2>2 DEF Recorded, Resolved
    <3>4. n.plays[p].run = m.plays[p].run
      BY <2>2, <3>1, <3>3 DEF Merged, Coalesce
    <3>5. CASE \A j \in Later(k) : ~SameRow(k, j)
      BY <1>b, <2>1, <2>2, <3>2, <3>4, <3>5 DEF StatusesSettled
    <3>6. CASE \E j \in Later(k) : SameRow(k, j)
      BY <1>b, <2>1, <2>2, <3>4, <3>6 DEF SameRow, PlayOf
    <3> QED BY <3>5, <3>6
  <2>3. CASE ~(e.kind = "playback" /\ PlayOf(k) = p)
    <3>1. n.plays[p] = m.plays[p]
      BY <1>4, <2>3, Zenon DEF FoldedPlays
    <3> QED BY <1>6, <2>1, <2>3, <3>1
  <2> QED BY <2>2, <2>3
<1>12. NearExpo(d, n, k)
  <2> SUFFICES ASSUME NEW x \in Exposures
               PROVE  /\ n.expo[x] = NoRow <=> d.expo[x] = NoRow
                      /\ \/ n.expo[x].play = d.expo[x].play /\ n.expo[x].role = d.expo[x].role
                         \/ \E j \in k + 1 .. L : Writes(d, j, x)
                      /\ \/ n.expo[x].watched = d.expo[x].watched
                         \/ \E j \in k + 1 .. L :
                               Writes(d, j, x) /\ WatchedBy(d, Window(d, j), x) # NULL
                      /\ \/ n.expo[x].prob = d.expo[x].prob
                         \/ \E j \in k + 1 .. L :
                               Writes(d, j, x) /\ ProbableBy(d, Window(d, j), x) # NULL
    BY DEF NearExpo
  <2>1. /\ m.expo[x] = NoRow <=> d.expo[x] = NoRow
        /\ \/ m.expo[x].play = d.expo[x].play /\ m.expo[x].role = d.expo[x].role
           \/ \E j \in k .. L : Writes(d, j, x)
        /\ \/ m.expo[x].watched = d.expo[x].watched
           \/ \E j \in k .. L : Writes(d, j, x) /\ WatchedBy(d, Window(d, j), x) # NULL
        /\ \/ m.expo[x].prob = d.expo[x].prob
           \/ \E j \in k .. L : Writes(d, j, x) /\ ProbableBy(d, Window(d, j), x) # NULL
    BY <1>5, <1>a DEF NearExpo
  <2>2. SameView(d, n)
    BY <1>3 DEF SameRows
  <2>3. Derives(d, k) <=> Derives(n, k)
    BY <1>3, DerivesAlike
  <2>4. CASE Writes(n, k, x)
    <3> DEFINE w == Window(d, k)
               old == m.expo[x]
    <3>1. Derives(n, k) /\ Derives(d, k) /\ Window(n, k) = w
      BY <1>3, <2>3, <2>4, DerivesAlike DEF Writes
    <3>2. /\ Writes(d, k, x) /\ Role(n, Window(n, k), x) = Role(d, w, x)
          /\ WatchedBy(n, Window(n, k), x) = WatchedBy(d, w, x)
          /\ ProbableBy(n, Window(n, k), x) = ProbableBy(d, w, x)
      BY <2>2, <2>4, <3>1, WritesAlike
    <3> HIDE DEF w
    <3>3. /\ n.expo[x] # NoRow /\ n.expo[x].play = PlayOf(k)
          /\ n.expo[x].role = Role(n, Window(n, k), x)
          /\ n.expo[x].watched = Merged(WatchedBy(n, Window(n, k), x), old, "watched")
          /\ n.expo[x].prob = Merged(ProbableBy(n, Window(n, k), x), old, "prob")
      BY <2>4, ExposureWritten
    <3>4. ExposureSettled(d, k, x)
      BY <1>b, <3>2 DEF ExposuresSettled
    <3>5. d.expo[x] # NoRow /\ old # NoRow
      BY <2>1, <3>4 DEF ExposureSettled
    <3>6. \/ n.expo[x].play = d.expo[x].play /\ n.expo[x].role = d.expo[x].role
          \/ \E j \in k + 1 .. L : Writes(d, j, x)
      BY <1>b, <3>2, <3>3, <3>4 DEF ExposureSettled, w
    <3>7. \/ n.expo[x].watched = d.expo[x].watched
          \/ \E j \in k + 1 .. L : Writes(d, j, x) /\ WatchedBy(d, Window(d, j), x) # NULL
      <4>1. CASE WatchedBy(d, w, x) = NULL
        <5>1. n.expo[x].watched = old.watched
          BY <3>2, <3>3, <3>5, <4>1 DEF Merged, Coalesce
        <5> QED BY <1>6, <2>1, <4>1, <5>1 DEF w
      <4>2. CASE WatchedBy(d, w, x) # NULL
        <5>1. n.expo[x].watched = WatchedBy(d, w, x)
          BY <3>2, <3>3, <4>2 DEF Merged, Coalesce
        <5> QED BY <1>b, <3>4, <4>2, <5>1 DEF ExposureSettled, w
      <4> QED BY <4>1, <4>2
    <3>8. \/ n.expo[x].prob = d.expo[x].prob
          \/ \E j \in k + 1 .. L : Writes(d, j, x) /\ ProbableBy(d, Window(d, j), x) # NULL
      <4>1. CASE ProbableBy(d, w, x) = NULL
        <5>1. n.expo[x].prob = old.prob
          BY <3>2, <3>3, <3>5, <4>1 DEF Merged, Coalesce
        <5> QED BY <1>6, <2>1, <4>1, <5>1 DEF w
      <4>2. CASE ProbableBy(d, w, x) # NULL
        <5>1. n.expo[x].prob = ProbableBy(d, w, x)
          BY <3>2, <3>3, <4>2 DEF Merged, Coalesce
        <5> QED BY <1>b, <3>4, <4>2, <5>1 DEF ExposureSettled, w
      <4> QED BY <4>1, <4>2
    <3> QED BY <3>3, <3>5, <3>6, <3>7, <3>8
  <2>5. CASE ~Writes(n, k, x)
    <3>1. n.expo[x] = m.expo[x]
      BY <1>4, <2>5, Zenon DEF FoldedExpo
    <3>2. ~Writes(d, k, x)
      <4>1. CASE Derives(d, k)
        <5>1. Derives(n, k) /\ Window(n, k) = Window(d, k)
          BY <1>3, <4>1, DerivesAlike
        <5> QED BY <2>2, <2>5, <4>1, <5>1, WritesAlike
      <4>2. CASE ~Derives(d, k)
        BY <4>2 DEF Writes
      <4> QED BY <4>1, <4>2
    <3> QED BY <1>6, <2>1, <3>1, <3>2
  <2> QED BY <2>4, <2>5
<1> QED BY <1>2, <1>3, <1>5, <1>7, <1>8, <1>9, <1>10, <1>11, <1>12 DEF Near

(* Tables whose rows agree column by column are the same.                  *)
LEMMA NearAtEnd ==
    ASSUME Len(log) \in Nat, NEW d, Sound(d), NEW m, Near(d, m, Len(log))
    PROVE  m = d
<1> DEFINE L == Len(log)
<1>1. \A j : j \notin L + 1 .. L
  OBVIOUS
<1>2. /\ m \in Databases /\ d \in Databases
      /\ m.obs = d.obs /\ m.matches = d.matches /\ m.stamp = d.stamp /\ m.tracks = d.tracks
      /\ m.decisions = d.decisions
  BY DEF Near, Sound, Inv, SameRows
<1>3. m.comps = d.comps
  <2>1. ASSUME NEW t \in Triggers PROVE m.comps[t] = d.comps[t]
    <3>1. m.comps[t] = NoRow <=> d.comps[t] = NoRow
      BY DEF Near, SameRows
    <3>2. m.comps[t].decision = d.comps[t].decision /\ m.comps[t].status = d.comps[t].status
      BY <1>1 DEF Near, NearComps
    <3>3. m.comps[t] \in CompRows \cup {NoRow} /\ d.comps[t] \in CompRows \cup {NoRow}
      BY <1>2, DatabaseFields DEF Table
    <3> QED BY <3>1, <3>2, <3>3 DEF CompRows
  <2> QED BY <1>2, <2>1, DatabaseFields DEF Table
<1>4. m.runs = d.runs
  <2>1. ASSUME NEW t \in Triggers PROVE m.runs[t] = d.runs[t]
    <3>1. m.runs[t] = NoRow <=> d.runs[t] = NoRow
      BY DEF Near, SameRows
    <3>2. /\ m.runs[t].decision = d.runs[t].decision /\ m.runs[t].status = d.runs[t].status
          /\ m.runs[t].comp = d.runs[t].comp /\ m.runs[t].sys = d.runs[t].sys
      BY <1>1 DEF Near, NearRuns
    <3>3. m.runs[t].target = d.runs[t].target
      BY DEF Near, SameRows, SameView
    <3>4. m.runs[t] \in RunRows \cup {NoRow} /\ d.runs[t] \in RunRows \cup {NoRow}
      BY <1>2, DatabaseFields DEF Table
    <3> QED BY <3>1, <3>2, <3>3, <3>4 DEF RunRows
  <2> QED BY <1>2, <2>1, DatabaseFields DEF Table
<1>5. m.plays = d.plays
  <2>1. ASSUME NEW p \in Playbacks PROVE m.plays[p] = d.plays[p]
    <3>1. /\ m.plays[p] = NoRow <=> d.plays[p] = NoRow
          /\ m.plays[p].sys = d.plays[p].sys /\ m.plays[p].start = d.plays[p].start
          /\ m.plays[p].end = d.plays[p].end
      BY DEF Near, SameRows
    <3>2. m.plays[p].run = d.plays[p].run /\ m.plays[p].status = d.plays[p].status
      BY <1>1 DEF Near, NearPlays
    <3>3. m.plays[p] \in PlayRows \cup {NoRow} /\ d.plays[p] \in PlayRows \cup {NoRow}
      BY <1>2, DatabaseFields DEF Table
    <3> QED BY <3>1, <3>2, <3>3 DEF PlayRows
  <2> QED BY <1>2, <2>1, DatabaseFields DEF Table
<1>6. m.expo = d.expo
  <2>1. ASSUME NEW x \in Exposures PROVE m.expo[x] = d.expo[x]
    <3>1. /\ m.expo[x] = NoRow <=> d.expo[x] = NoRow
          /\ m.expo[x].play = d.expo[x].play /\ m.expo[x].role = d.expo[x].role
          /\ m.expo[x].watched = d.expo[x].watched /\ m.expo[x].prob = d.expo[x].prob
      BY <1>1 DEF Near, NearExpo
    <3>2. m.expo[x] \in ExpoRows \cup {NoRow} /\ d.expo[x] \in ExpoRows \cup {NoRow}
      BY <1>2, DatabaseFields DEF Table
    <3> QED BY <3>1, <3>2 DEF ExpoRows
  <2> QED BY <1>2, <2>1, DatabaseFields DEF Table
<1> QED BY <1>2, <1>3, <1>4, <1>5, <1>6 DEF Databases

LEMMA FinalIsStable ==
    ASSUME Control, NEW d, Sound(d), Final(d)
    PROVE  Refold(d) = d
<1> DEFINE L == Len(log)
<1>1. L \in Nat
  BY DEF Control
<1>2. PICK a : /\ a[0] = d /\ Refold(d) = a[L]
               /\ \A k \in 1 .. L : a[k] = FoldEvent(a[k - 1], k)
  BY <1>1, Pass
<1> DEFINE S == {m \in 0 .. L : Near(d, a[m], m)}
<1>3. Near(d, a[0], 0)
  <2>1. SameRows(d, d)
    BY DEF SameRows, SameView
  <2> QED BY <1>2, <2>1 DEF Near, NearComps, NearRuns, NearPlays, NearExpo
<1>4. ASSUME NEW k \in 1 .. L, k - 1 \in S PROVE k \in S
  <2>1. Near(d, a[k - 1], k - 1) /\ Sound(a[k - 1])
    BY <1>4 DEF Near
  <2>2. Folded(a[k - 1], k, a[k])
    BY <1>2, <2>1, FoldShape
  <2> QED BY <2>1, <2>2, NearStep
<1>5. L \in S
  <2>1. 0 \in S
    BY <1>1, <1>3
  <2> HIDE DEF S
  <2> QED BY <1>1, <1>4, <2>1, UpTo
<1> QED BY <1>1, <1>2, <1>5, NearAtEnd

-----------------------------------------------------------------------------
(* Everything the cursor has passed is recorded, as long as the registry   *)
(* gives the scopes that it gave when the events were folded; and, as long *)
(* as the journal is in order, it is resolved and settled too.             *)
PassedRecorded == drifts = 0 => \A i \in 1 .. cursor : Recorded(db, i)
PassedSettled ==
    drifts = 0 /\ InOrder =>
        /\ \A i \in 1 .. cursor : Resolved(db, i)
        /\ StatusesSettled(db, cursor) /\ ExposuresSettled(db, cursor)

LEMMA FoldNextShape ==
    ASSUME IInv, FoldNext
    PROVE  Control /\ cursor + 1 \in 1 .. Len(log) /\ Folded(db, cursor + 1, db')
<1>1. Control /\ cursor + 1 \in 1 .. Len(log) /\ Sound(db)
  BY DEF FoldNext, IInv, TypeOK, Control
<1> QED BY <1>1, FoldShape DEF FoldNext

(* What a longer journal, under the same registry, leaves as it is.        *)
Extended ==
    /\ Len(log) \in Nat /\ Len(log') \in Nat /\ Len(log) <= Len(log')
    /\ \A i \in 1 .. Len(log) : log'[i] = log[i]
    /\ device' = device /\ descending' = descending

LEMMA RecordedExtended ==
    ASSUME Extended, NEW i \in 1 .. Len(log), Recorded(db', i)
    PROVE  Recorded(db, i)'
BY DEF Extended, Recorded, ScopeOf, Scope, PlayOf

LEMMA ResolvedExtended ==
    ASSUME Extended, NEW i \in 1 .. Len(log), db'.decisions \subseteq 1 .. Len(log),
           Resolved(db', i)
    PROVE  Resolved(db, i)'
<1>1. log'[i] = log[i] /\ PlayOf(i)' = PlayOf(i)
  BY DEF Extended, PlayOf
<1>2. \A t : Decision(db, t)' = Decision(db', t)
  <2> SUFFICES ASSUME NEW t PROVE Decision(db, t)' = Decision(db', t)
    OBVIOUS
  <2> DEFINE rows == {j \in db'.decisions : log[j].trig = t}
             next == {j \in db'.decisions : log'[j].trig = t}
  <2>1. next = rows
    BY DEF Extended
  <2>2. Decision(db', t) = IF rows = {} THEN NULL
            ELSE CHOOSE r \in rows : \A o \in rows : o # r => IF descending THEN r > o ELSE r < o
    BY DEF Decision, First, UuidBefore
  <2>3. Decision(db, t)' = IF next = {} THEN NULL
            ELSE CHOOSE r \in next : \A o \in next : o # r => IF descending' THEN r > o ELSE r < o
    BY DEF Decision, First, UuidBefore
  <2>4. descending' = descending
    BY DEF Extended
  <2> HIDE DEF rows, next
  <2> QED BY <2>1, <2>2, <2>3, <2>4
<1>3. \A e : MatchedObservation(db, e)' = MatchedObservation(db', e)
  BY DEF Extended, MatchedObservation, First, UuidBefore
<1> QED BY <1>1, <1>2, <1>3 DEF Resolved

LEMMA StatusesExtended ==
    ASSUME Extended, cursor' \in 0 .. Len(log), StatusesSettled(db', cursor')
    PROVE  StatusesSettled(db, cursor)'
<1>1. \A i \in 1 .. Len(log) : /\ log'[i] = log[i] /\ ScopeOf(i)' = ScopeOf(i)
                               /\ PlayOf(i)' = PlayOf(i)
  BY DEF Extended, ScopeOf, Scope, PlayOf
<1> SUFFICES ASSUME NEW i \in 1 .. cursor'
             PROVE  /\ (\A j \in Later(i)' : ~SameRow(i, j)') =>
                          /\ log[i].kind = "composition" => db'.comps[log[i].trig].status = log[i].status
                          /\ log[i].kind = "ad_run" => db'.runs[log[i].trig].status = log[i].status
                          /\ log[i].kind = "playback" => db'.plays[PlayOf(i)].status = log[i].status
                    /\ /\ log[i].kind = "ad_run" /\ ScopeOf(i) # NULL
                       /\ \A j \in Later(i)' : SameRow(i, j)' => ScopeOf(j)' = NULL
                       => db'.runs[log[i].trig].sys = ScopeOf(i)
  BY <1>1 DEF StatusesSettled, Extended
<1>2. \A j \in Later(i) : j \in Later(i)' /\ j \in 1 .. Len(log)
  BY DEF Extended, Later
<1>3. \A j \in Later(i) : SameRow(i, j)' <=> SameRow(i, j)
  BY <1>1, <1>2 DEF SameRow, Extended
<1>4. /\ (\A j \in Later(i)' : ~SameRow(i, j)') => \A j \in Later(i) : ~SameRow(i, j)
      /\ (\A j \in Later(i)' : SameRow(i, j)' => ScopeOf(j)' = NULL)
         => \A j \in Later(i) : SameRow(i, j) => ScopeOf(j) = NULL
  BY <1>1, <1>2, <1>3
<1> QED BY <1>4 DEF StatusesSettled

(* No gaze that came with it: a derivation sees what it saw.               *)
Unwatched == \A g \in Len(log) + 1 .. Len(log') : log'[g].kind # "gaze"

LEMMA TargetExtended ==
    ASSUME Extended
    PROVE  /\ \A r : CausalObservation(db, r)' = CausalObservation(db', r)
           /\ \A pb : TargetObservation(db, pb)' = TargetObservation(db', pb)
           /\ \A pb : Bystanders(db, pb)' = Bystanders(db', pb)
<1>1. \A r : CausalObservation(db, r)' = CausalObservation(db', r)
  BY DEF Extended, CausalObservation, First, UuidBefore
<1>2. \A pb : RecentObservation(db, pb)' = RecentObservation(db', pb)
  BY DEF Extended, RecentObservation, First, UuidBefore
<1>3. \A pb : TargetObservation(db, pb)' = TargetObservation(db', pb)
  BY <1>1, <1>2 DEF TargetObservation
<1>4. \A pb : Bystanders(db, pb)' = Bystanders(db', pb)
  BY <1>3 DEF Bystanders
<1> QED BY <1>1, <1>3, <1>4

LEMMA GazeExtended ==
    ASSUME Extended, Unwatched
    PROVE  /\ \A pb, o : GazeRows(db, pb, o)' = GazeRows(db', pb, o)
           /\ \A pb, o : Watched(db, pb, o)' = Watched(db', pb, o)
           /\ \A pb, o : WatchProbability(db, pb, o)' = WatchProbability(db', pb, o)
<1>1. \A pb, o : GazeRows(db, pb, o)' = GazeRows(db', pb, o)
  BY DEF Extended, Unwatched, GazeRows
<1>2. \A pb, o : \A g \in GazeRows(db', pb, o) : log'[g] = log[g]
  BY DEF Extended, GazeRows
<1>3. \A pb, o : Watched(db, pb, o)' = Watched(db', pb, o)
  <2> SUFFICES ASSUME NEW pb, NEW o PROVE Watched(db, pb, o)' = Watched(db', pb, o)
    OBVIOUS
  <2> DEFINE seen == {db'.obs[b].att : b \in {b \in Ids :
                         /\ db'.obs[b] # NoRow /\ db'.obs[b].sys = pb.sys
                         /\ db'.obs[b].subj = db'.obs[o].subj /\ During(pb, db'.obs[b].at)}}
             gaze == GazeRows(db', pb, o)
  <2>1. Watched(db', pb, o) =
            IF gaze # {} THEN \E g \in gaze : log[g].frac # NULL /\ log[g].frac > 0
            ELSE IF db'.obs[o].track # NULL THEN FALSE
            ELSE IF db'.obs[o].subj = NULL THEN NULL
            ELSE Attending(MaxFraction(seen))
    BY Zenon DEF Watched
  <2>2. Watched(db, pb, o)' =
            IF gaze # {} THEN \E g \in gaze : log'[g].frac # NULL /\ log'[g].frac > 0
            ELSE IF db'.obs[o].track # NULL THEN FALSE
            ELSE IF db'.obs[o].subj = NULL THEN NULL
            ELSE Attending(MaxFraction(seen))
    BY <1>1, Zenon DEF Watched
  <2> DEFINE looked == \E g \in gaze : log[g].frac # NULL /\ log[g].frac > 0
             looks == \E g \in gaze : log'[g].frac # NULL /\ log'[g].frac > 0
             rest == IF db'.obs[o].track # NULL THEN FALSE
                     ELSE IF db'.obs[o].subj = NULL THEN NULL
                     ELSE Attending(MaxFraction(seen))
  <2>3. looks = looked
    BY <1>2
  <2>4. Watched(db', pb, o) = (IF gaze # {} THEN looked ELSE rest)
    BY <2>1, Zenon
  <2>5. Watched(db, pb, o)' = (IF gaze # {} THEN looks ELSE rest)
    BY <2>2, Zenon
  <2> HIDE DEF gaze, looked, looks, rest
  <2> QED BY <2>3, <2>4, <2>5
<1>4. \A pb, o : {log'[g].frac : g \in GazeRows(db', pb, o)} = {log[g].frac : g \in GazeRows(db', pb, o)}
  BY <1>2
<1>5. \A pb, o : WatchProbability(db, pb, o)' = WatchProbability(db', pb, o)
  BY <1>1, <1>4 DEF WatchProbability
<1> QED BY <1>1, <1>3, <1>5

LEMMA WritesExtended ==
    ASSUME Extended, Unwatched, NEW i \in 1 .. Len(log)
    PROVE  /\ Window(db, i)' = Window(db', i)
           /\ Derives(db, i)' <=> Derives(db', i)
           /\ \A x \in Exposures :
                 /\ Writes(db, i, x)' <=> Writes(db', i, x)
                 /\ Role(db, Window(db, i), x)' = Role(db', Window(db', i), x)
                 /\ WatchedBy(db, Window(db, i), x)' = WatchedBy(db', Window(db', i), x)
                 /\ ProbableBy(db, Window(db, i), x)' = ProbableBy(db', Window(db', i), x)
<1>1. log'[i] = log[i] /\ PlayOf(i)' = PlayOf(i)
  BY DEF Extended, PlayOf
<1>2. Window(db, i)' = Window(db', i)
  BY <1>1 DEF Window
<1>3. Derives(db, i)' <=> Derives(db', i)
  BY <1>1 DEF Derives
<1>4. \A pb, x : IsTarget(db, pb, x)' <=> IsTarget(db', pb, x)
  BY TargetExtended DEF IsTarget
<1>5. \A pb, x : Hit(db, pb, x)' <=> Hit(db', pb, x)
  BY TargetExtended, <1>4 DEF Hit
<1>6. \A pb, x : Role(db, pb, x)' = Role(db', pb, x)
  BY <1>4 DEF Role
<1>7. \A pb, x : WatchedBy(db, pb, x)' = WatchedBy(db', pb, x)
  BY <1>4, GazeExtended DEF WatchedBy
<1>8. \A pb, x : ProbableBy(db, pb, x)' = ProbableBy(db', pb, x)
  BY <1>4, GazeExtended DEF ProbableBy
<1>9. \A x : Writes(db, i, x)' <=> Writes(db', i, x)
  BY <1>2, <1>3, <1>5 DEF Writes
<1> QED BY <1>2, <1>3, <1>6, <1>7, <1>8, <1>9

LEMMA ExposuresExtended ==
    ASSUME Extended, cursor' \in 0 .. Len(log), \A i \in 1 .. cursor' : Closes(log[i]) => Unwatched,
           ExposuresSettled(db', cursor')
    PROVE  ExposuresSettled(db, cursor)'
<1> SUFFICES ASSUME NEW i \in 1 .. cursor', NEW x \in Exposures, Writes(db, i, x)'
             PROVE  ExposureSettled(db, i, x)'
  BY DEF ExposuresSettled
<1>1. i \in 1 .. Len(log) /\ log'[i] = log[i] /\ PlayOf(i)' = PlayOf(i)
  BY DEF Extended, PlayOf
<1>2. Unwatched
  BY <1>1 DEF Writes, Derives, Closes
<1>3. /\ Window(db, i)' = Window(db', i)
      /\ Role(db, Window(db, i), x)' = Role(db', Window(db', i), x)
      /\ WatchedBy(db, Window(db, i), x)' = WatchedBy(db', Window(db', i), x)
      /\ ProbableBy(db, Window(db, i), x)' = ProbableBy(db', Window(db', i), x)
      /\ Writes(db', i, x)
  BY <1>1, <1>2, WritesExtended
<1>4. ASSUME NEW j \in Later(i), Writes(db', j, x)
      PROVE  /\ j \in Later(i)' /\ Writes(db, j, x)'
             /\ WatchedBy(db, Window(db, j), x)' = WatchedBy(db', Window(db', j), x)
             /\ ProbableBy(db, Window(db, j), x)' = ProbableBy(db', Window(db', j), x)
  <2>1. j \in 1 .. Len(log) /\ j \in Later(i)'
    BY DEF Extended, Later
  <2> QED BY <1>2, <1>4, <2>1, WritesExtended
<1>5. ExposureSettled(db', i, x)
  BY <1>3 DEF ExposuresSettled
<1>6. CausalObservation(db, x[1])' = CausalObservation(db', x[1])
  BY TargetExtended
<1> QED BY <1>1, <1>3, <1>4, <1>5, <1>6 DEF ExposureSettled

(* An event that comes later in the order of the lanes moves nothing that  *)
(* an earlier one refers to.                                               *)
LEMMA NextRefs ==
    ASSUME Control, NEW d, NEW n, NEW k \in 1 .. Len(log), Folded(d, k, n),
           NEW i \in 1 .. k - 1, Stage(log[i]) <= Stage(log[k])
    PROVE  SameRefs(d, n, i)
<1> DEFINE e == log[i]
           f == log[k]
<1>1. i \in 1 .. Len(log) /\ e \in Alphabet /\ f \in Alphabet /\ d \in Databases /\ n \in Databases
  BY EventPlaces DEF Control, Folded, Sound, Inv
<1>2. {e.kind, f.kind} \subseteq {"track", "detection", "match", "decision", "composition", "ad_run",
                                "gaze", "playback"}
  BY <1>1, AlphabetAssumption DEF Events
<1>3. /\ e.kind = "detection" => f.kind # "track"
      /\ e.kind = "match" => f.kind # "detection"
      /\ e.kind \in {"composition", "ad_run"} => f.kind # "decision"
      /\ e.kind = "ad_run" => f.kind # "composition"
      /\ e.kind = "playback" => f.kind # "ad_run"
  BY <1>2 DEF Stage
<1>4. e.kind = "detection" /\ e.track # NULL =>
          n.tracks[<<e.screen, e.track>>] = d.tracks[<<e.screen, e.track>>]
  <2>1. e.kind = "detection" /\ e.track # NULL => <<e.screen, e.track>> \in Screens \X Tracks
    BY <1>1, EventColumns DEF Opt
  <2> QED BY <1>3, <2>1 DEF Folded, FoldedTracks
<1>5. e.kind = "match" => MatchedObservation(d, e) = MatchedObservation(n, e)
  <2> SUFFICES ASSUME e.kind = "match"
               PROVE  MatchedObservation(d, e) = MatchedObservation(n, e)
    OBVIOUS
  <2>1. e.det \in Opt(Ids)
    BY <1>1, EventColumns
  <2>2. \A o \in Ids : n.obs[o] = d.obs[o]
    BY <1>3 DEF Folded, FoldedObs
  <2>3. {o \in Ids : n.obs[o] # NoRow /\ n.obs[o].trig = e.trig}
        = {o \in Ids : d.obs[o] # NoRow /\ d.obs[o].trig = e.trig}
    BY <2>2
  <2> QED BY <2>1, <2>2, <2>3 DEF MatchedObservation, Opt
<1>6. e.kind \in {"composition", "ad_run"} => n.decisions = d.decisions
  BY <1>3 DEF Folded, FoldedSets
<1>7. e.kind = "ad_run" => n.comps[e.trig] = d.comps[e.trig]
  BY <1>1, <1>3, EventPlaces DEF Folded, FoldedComps
<1>8. e.kind = "playback" => n.runs[PlayedRun(e)] = d.runs[PlayedRun(e)]
  BY <1>1, <1>3, EventPlaces DEF Folded, FoldedRuns
<1> QED BY <1>4, <1>5, <1>6, <1>7, <1>8 DEF SameRefs, Decision

(* Once a playback has closed, only closing playbacks follow.              *)
LEMMA NextView ==
    ASSUME Control, NEW d, NEW n, NEW k \in 1 .. Len(log), Folded(d, k, n),
           NEW i \in 1 .. k - 1, Closes(log[i]), Stage(log[i]) <= Stage(log[k])
    PROVE  /\ Closes(log[k]) /\ SameView(d, n)
           /\ Derives(n, i) /\ ~Derives(d, i) => PlayOf(k) = PlayOf(i)
<1>1. i \in 1 .. Len(log) /\ log[i] \in Alphabet /\ log[k] \in Alphabet
  BY EventPlaces DEF Control
<1>2. log[k].kind \in {"track", "detection", "match", "decision", "composition", "ad_run", "gaze",
                       "playback"}
  BY <1>1, AlphabetAssumption DEF Events
<1>3. log[i].kind = "playback" /\ Closes(log[k]) /\ log[k].kind = "playback"
  BY <1>2 DEF Stage, Closes
<1>4. /\ \A o \in Ids : n.obs[o] = d.obs[o]
      /\ \A t \in Triggers : n.runs[t] = d.runs[t]
      /\ \A g \in Ids : log[g].kind = "gaze" => n.stamp[g] = d.stamp[g]
  BY <1>3 DEF Folded, FoldedObs, FoldedRuns, FoldedStamps
<1>5. SameView(d, n)
  <2>1. \A g \in 1 .. Len(log) : g \in Ids
    BY BoundsAssumption DEF Control, Ids
  <2> QED BY <1>4, <2>1 DEF SameView
<1>6. ASSUME PlayOf(k) # PlayOf(i)
      PROVE  Derives(n, i) <=> Derives(d, i)
  <2>1. PlayOf(i) \in Playbacks /\ PlayedRun(log[i]) \in Triggers
    BY <1>1, <1>3, EventPlaces
  <2>2. n.plays[PlayOf(i)] = d.plays[PlayOf(i)]
    BY <1>6, <2>1 DEF Folded, FoldedPlays
  <2> QED BY <1>4, <2>1, <2>2 DEF Derives
<1> QED BY <1>3, <1>5, <1>6

-----------------------------------------------------------------------------
(* The invariant: what the cursor has passed stays recorded and, in order, *)
(* settled, through every step.                                            *)
LEMMA NextRecorded ==
    ASSUME Control, NEW d, NEW n, NEW k \in 1 .. Len(log), Folded(d, k, n),
           \A i \in 1 .. k - 1 : Recorded(d, i)
    PROVE  \A i \in 1 .. k : Recorded(n, i)
<1> SUFFICES ASSUME NEW i \in 1 .. k PROVE Recorded(n, i)
  OBVIOUS
<1>1. CASE i = k
  BY <1>1, RecordedAtOnce
<1>2. CASE i # k
  <2>1. i \in 1 .. k - 1 /\ i \in 1 .. Len(log)
    BY <1>2 DEF Control
  <2> QED BY <2>1, RecordedStays
<1> QED BY <1>1, <1>2

LEMMA NextSettles ==
    ASSUME Control, InOrder, NEW d, NEW n, NEW k \in 1 .. Len(log), Folded(d, k, n),
           \A i \in 1 .. k - 1 : Recorded(d, i) /\ Resolved(d, i),
           StatusesSettled(d, k - 1), ExposuresSettled(d, k - 1)
    PROVE  /\ \A i \in 1 .. k : Resolved(n, i)
           /\ StatusesSettled(n, k) /\ ExposuresSettled(n, k)
<1>1. \A i \in 1 .. k - 1 : i \in 1 .. Len(log) /\ Stage(log[i]) <= Stage(log[k])
  BY DEF Control, InOrder
<1>2. ASSUME NEW i \in 1 .. k PROVE Resolved(n, i)
  <2>1. CASE i = k
    BY <2>1, ResolvedAtOnce
  <2>2. CASE i # k
    <3>1. i \in 1 .. k - 1
      BY <2>2
    <3>2. SameRefs(d, n, i)
      BY <1>1, <3>1, NextRefs
    <3> QED BY <1>1, <3>1, <3>2, ResolvedStays
  <2> QED BY <2>1, <2>2
<1>3. StatusesSettled(n, k)
  BY StatusesSettle
<1>4. \A i \in 1 .. k - 1 : Closes(log[i]) =>
          /\ Closes(log[k]) /\ SameView(d, n)
          /\ Derives(n, i) /\ ~Derives(d, i) => PlayOf(k) = PlayOf(i)
  BY <1>1, NextView
<1>5. \A i \in 1 .. k - 1 : Derives(n, i) /\ ~Derives(d, i) =>
          Closes(log[k]) /\ PlayOf(k) = PlayOf(i)
  BY <1>4 DEF Derives
<1>6. ExposuresSettled(n, k)
  BY <1>4, <1>5, ExposuresSettle
<1> QED BY <1>2, <1>3, <1>6

LEMMA FoldPasses ==
    ASSUME IInv, PassedRecorded, PassedSettled, FoldNext, drifts = 0
    PROVE  /\ \A i \in 1 .. cursor' : Recorded(db', i)
           /\ InOrder => /\ \A i \in 1 .. cursor' : Resolved(db', i)
                         /\ StatusesSettled(db', cursor') /\ ExposuresSettled(db', cursor')
<1> DEFINE k == cursor + 1
<1>1. /\ Control /\ k \in 1 .. Len(log) /\ Folded(db, k, db') /\ cursor' = k /\ cursor = k - 1
  BY FoldNextShape DEF FoldNext, IInv, TypeOK
<1>2. /\ \A i \in 1 .. k - 1 : Recorded(db, i)
      /\ InOrder => /\ \A i \in 1 .. k - 1 : Resolved(db, i)
                    /\ StatusesSettled(db, k - 1) /\ ExposuresSettled(db, k - 1)
  BY <1>1 DEF PassedRecorded, PassedSettled
<1> QED BY <1>1, <1>2, NextRecorded, NextSettles

LEMMA StepPassed ==
    IInv /\ PassedRecorded /\ PassedSettled /\ [Next]_vars => PassedRecorded' /\ PassedSettled'
<1> SUFFICES ASSUME IInv, PassedRecorded, PassedSettled, [Next]_vars, drifts' = 0
             PROVE  PassedRecorded' /\ PassedSettled'
  BY DEF PassedRecorded, PassedSettled
<1>1. /\ log \in Seq(Alphabet) /\ Len(log) \in Nat /\ cursor \in 0 .. Len(log) /\ drifts \in Nat
      /\ db.decisions \subseteq 1 .. Len(log)
  BY BoundsAssumption DEF IInv, TypeOK, Linked
<1>2. ASSUME Extended, cursor' \in 0 .. Len(log), db'.decisions \subseteq 1 .. Len(log),
             \A i \in 1 .. cursor' : Recorded(db', i),
             InOrder' => /\ \A i \in 1 .. cursor' : Resolved(db', i) /\ (Closes(log[i]) => Unwatched)
                         /\ StatusesSettled(db', cursor') /\ ExposuresSettled(db', cursor')
      PROVE  PassedRecorded' /\ PassedSettled'
  <2>1. \A i \in 1 .. cursor' : i \in 1 .. Len(log)
    BY <1>2 DEF Extended
  <2>2. \A i \in 1 .. cursor' : Recorded(db, i)'
    BY <1>2, <2>1, RecordedExtended
  <2>3. ASSUME InOrder'
        PROVE  /\ \A i \in 1 .. cursor' : Resolved(db, i)'
               /\ StatusesSettled(db, cursor)' /\ ExposuresSettled(db, cursor)'
    BY <1>2, <2>1, <2>3, ResolvedExtended, StatusesExtended, ExposuresExtended
  <2> QED BY <2>2, <2>3 DEF PassedRecorded, PassedSettled
<1>3. ASSUME log' = log, device' = device, descending' = descending
      PROVE  Extended /\ Unwatched /\ (InOrder' <=> InOrder)
  BY <1>1, <1>3 DEF Extended, Unwatched, InOrder, Stage, Closes
<1>4. ASSUME NEW e \in Alphabet, Emit(e) PROVE PassedRecorded' /\ PassedSettled'
  <2>1. /\ log' = Append(log, e) /\ UNCHANGED <<cursor, device, descending, db, drifts>>
    BY <1>4 DEF Emit
  <2>2. /\ Len(log') = Len(log) + 1 /\ log'[Len(log) + 1] = e
        /\ \A i \in 1 .. Len(log) : log'[i] = log[i]
    BY <1>1, <2>1
  <2>3. Extended
    BY <1>1, <2>1, <2>2 DEF Extended
  <2>4. InOrder' => InOrder
    <3>1. \A i \in 1 .. Len(log) : i \in 1 .. Len(log') /\ log'[i] = log[i]
      BY <1>1, <2>2
    <3> QED BY <3>1 DEF InOrder
  <2>5. ASSUME InOrder', NEW i \in 1 .. cursor', Closes(log[i]) PROVE Unwatched
    <3>1. Stage(log[i]) <= Stage(e)
      <4>1. /\ i \in 1 .. Len(log') /\ Len(log) + 1 \in 1 .. Len(log') /\ i < Len(log) + 1
            /\ log'[i] = log[i] /\ log'[Len(log) + 1] = e
        BY <1>1, <2>1, <2>2
      <4> QED BY <2>5, <4>1 DEF InOrder
    <3>2. e.kind # "gaze"
      BY <2>5, <3>1 DEF Stage, Closes
    <3> QED BY <1>1, <2>2, <3>2 DEF Unwatched
  <2> QED BY <1>1, <1>2, <2>1, <2>3, <2>4, <2>5 DEF PassedRecorded, PassedSettled
<1>5. CASE FoldNext
  <2>1. log' = log /\ device' = device /\ descending' = descending /\ drifts = 0
    BY <1>5 DEF FoldNext
  <2>2. cursor' \in 0 .. Len(log) /\ db'.decisions \subseteq 1 .. Len(log)
    <3>1. cursor' = cursor + 1 /\ cursor + 1 \in 1 .. Len(log)
      BY <1>5, FoldNextShape DEF FoldNext
    <3>2. Linked(db')
      BY <1>5, FoldNextShape, Zenon DEF Folded, Sound, Inv
    <3> QED BY <1>1, <3>1, <3>2 DEF Linked
  <2> QED BY <1>2, <1>3, <1>5, <2>1, <2>2, FoldPasses
<1>6. ASSUME NEW c \in 0 .. MaxEvents, Rewind(c) PROVE PassedRecorded' /\ PassedSettled'
  <2>1. /\ cursor' = c /\ c < cursor /\ UNCHANGED <<log, device, descending, db, drifts>>
    BY <1>6 DEF Rewind
  <2>2. c \in Nat
    BY BoundsAssumption
  <2>3. /\ cursor' \in 0 .. Len(log) /\ \A i \in 1 .. cursor' : i \in 1 .. cursor
    BY <1>1, <2>1, <2>2
  <2>4. /\ StatusesSettled(db, cursor) => StatusesSettled(db, cursor')
        /\ ExposuresSettled(db, cursor) => ExposuresSettled(db, cursor')
    BY <2>3, Zenon DEF StatusesSettled, ExposuresSettled
  <2> QED BY <1>1, <1>2, <1>3, <2>1, <2>3, <2>4 DEF PassedRecorded, PassedSettled
<1>7. ASSUME NEW s \in Screens, Register(s) \/ Retire(s) PROVE FALSE
  BY <1>1, <1>7 DEF Register, Retire
<1>8. CASE UNCHANGED vars
  BY <1>1, <1>2, <1>3, <1>8 DEF vars, PassedRecorded, PassedSettled
<1> QED BY <1>4, <1>5, <1>6, <1>7, <1>8 DEF Next

LEMMA InitPassed == Init => PassedRecorded /\ PassedSettled
BY DEF Init, PassedRecorded, PassedSettled, StatusesSettled, ExposuresSettled

LEMMA PassedInvariant == Spec => [](IInv /\ PassedRecorded /\ PassedSettled)
BY InitIInv, StepIInv, InitPassed, StepPassed, PTL DEF Spec

(* docs/projector-replay.md: folding the journal again from its start      *)
(* settles the tables, by the second time whatever was folded when, by the *)
(* first if every event was folded before under the same registry.         *)
THEOREM ReplayIsStableHolds == Spec => []ReplayIsStable
<1>1. IInv /\ PassedRecorded => ReplayIsStable
  <2> SUFFICES ASSUME IInv, PassedRecorded PROVE ReplayIsStable
    OBVIOUS
  <2> DEFINE once == Refold(db)
             twice == Refold(once)
  <2>1. Control /\ Sound(db)
    BY DEF IInv, TypeOK, Control
  <2>2. Sound(once) /\ Ready(once)
    BY <2>1, ReplayRecords
  <2>3. Sound(twice) /\ Final(twice)
    BY <2>1, <2>2, ReplaySettles
  <2>4. Refold(twice) = twice
    BY <2>1, <2>3, FinalIsStable
  <2>5. ASSUME cursor = Len(log), drifts = 0
        PROVE  twice = once
    <3>1. Final(once)
      BY <2>1, <2>5, ReplaySettles DEF PassedRecorded, Ready
    <3> QED BY <2>1, <2>2, <3>1, FinalIsStable
  <2> QED BY <2>4, <2>5 DEF ReplayIsStable
<1> QED BY <1>1, PassedInvariant, PTL

(* docs/projector-replay.md: a replay of a journal that was written in     *)
(* order, under the registry of the first fold, changes no row, no status  *)
(* and no measurement.                                                     *)
THEOREM InOrderReplayChangesNothingHolds == Spec => []InOrderReplayChangesNothing
<1>1. IInv /\ PassedRecorded /\ PassedSettled => InOrderReplayChangesNothing
  <2> SUFFICES ASSUME IInv, PassedRecorded, PassedSettled, InOrder, drifts = 0, cursor = Len(log)
               PROVE  Refold(db) = db
    BY DEF InOrderReplayChangesNothing
  <2>1. Control /\ Sound(db)
    BY DEF IInv, TypeOK, Control
  <2>2. Final(db)
    BY DEF PassedRecorded, PassedSettled, Final, Ready
  <2> QED BY <2>1, <2>2, FinalIsStable
<1> QED BY <1>1, PassedInvariant, PTL

(* docs/projector-replay.md: what an event that came too early missed, two *)
(* replays repair: the links to rows that exist, and the exposures of      *)
(* every closed playback.                                                  *)
THEOREM ReplayHealsHolds == Spec => []ReplayHeals
<1>1. IInv => ReplayHeals
  <2> SUFFICES ASSUME IInv PROVE ReplayHeals
    OBVIOUS
  <2> DEFINE d == Refold(Refold(db))
  <2>1. Control /\ Sound(db)
    BY DEF IInv, TypeOK, Control
  <2>2. Sound(d) /\ Final(d)
    BY <2>1, ReplayRecords, ReplaySettles
  <2> HIDE DEF d
  <2>3. ASSUME NEW i \in 1 .. Len(log)
        PROVE  LET e == log[i] IN
               /\ e.kind = "match" /\ MatchedObservation(d, e) # NULL
                      => MatchedObservation(d, e) \in d.matches
               /\ e.kind = "composition" /\ Decision(d, e.trig) # NULL
                      => d.comps[e.trig].decision # NULL
               /\ e.kind = "ad_run" /\ d.comps[e.trig] # NoRow => d.runs[e.trig].comp = e.trig
               /\ e.kind = "playback" /\ d.runs[PlayedRun(e)] # NoRow
                      => d.plays[PlayOf(i)].run # NULL
    <3>1. Resolved(d, i)
      BY <2>2 DEF Final
    <3>2. log[i].kind = "playback" => PlayedRun(log[i]) # NULL
      BY <2>1, EventPlaces, NullAssumption
    <3> QED BY <3>1, <3>2 DEF Resolved, Stays
  <2>4. ASSUME NEW i \in 1 .. Len(log), Closes(log[i]), Closed(d.plays[PlayOf(i)])
        PROVE  LET pb == d.plays[PlayOf(i)]
                   causal == CausalObservation(d, pb.run)
               IN  /\ \A o \in Bystanders(d, pb) : d.expo[<<pb.run, o>>] # NoRow
                   /\ causal # NULL => /\ d.expo[<<pb.run, causal>>] # NoRow
                                       /\ d.expo[<<pb.run, causal>>].role = "target"
    <3> DEFINE pb == d.plays[PlayOf(i)]
               causal == CausalObservation(d, pb.run)
               w == Window(d, i)
    <3>1. log[i] \in Alphabet /\ log[i].kind = "playback" /\ PlayOf(i) \in Playbacks
          /\ PlayedRun(log[i]) \in Triggers
      BY <2>1, <2>4, EventPlaces DEF Closes
    <3>2. pb.run = PlayedRun(log[i]) /\ d.runs[PlayedRun(log[i])] # NoRow
      BY <2>2, <2>4, <3>1 DEF Sound, Inv, PlayInv, Linked, Closed, Opt, PlayOf
    <3>3. Derives(d, i) /\ SameWindow(pb, w)
      BY <2>4, <3>2 DEF Derives, Closed, SameWindow, Window
    <3>4. \A x \in Exposures : Hit(d, pb, x) => Writes(d, i, x)
      <4>1. SameView(d, d)
        BY DEF SameView
      <4> QED BY <3>1, <3>2, <3>3, <4>1, SeenAlike DEF Writes
    <3>5. \A x \in Exposures : Hit(d, pb, x) => ExposureSettled(d, i, x)
      BY <2>1, <2>2, <3>4 DEF Final, ExposuresSettled
    <3>6. ASSUME NEW o \in Bystanders(d, pb) PROVE d.expo[<<pb.run, o>>] # NoRow
      <4>1. <<pb.run, o>> \in Exposures
        BY <3>1, <3>2 DEF Exposures, Bystanders
      <4> QED BY <3>5, <4>1 DEF Hit, ExposureSettled
    <3>7. ASSUME causal # NULL
          PROVE  d.expo[<<pb.run, causal>>] # NoRow /\ d.expo[<<pb.run, causal>>].role = "target"
      <4>1. causal \in Ids
        BY <2>1, <2>2, <3>7, CausalFound DEF Sound, Opt
      <4>2. <<pb.run, causal>> \in Exposures
        BY <3>1, <3>2, <4>1 DEF Exposures
      <4>3. Hit(d, pb, <<pb.run, causal>>)
        BY <3>7 DEF Hit, IsTarget, TargetObservation, Coalesce
      <4> QED BY <3>5, <4>2, <4>3 DEF ExposureSettled
    <3> QED BY <3>6, <3>7
  <2> QED BY <2>3, <2>4 DEF ReplayHeals, d, PlayOf, PlayedRun, Coalesce, Closes
<1> QED BY <1>1, Invariant, PTL

-----------------------------------------------------------------------------
(* Nothing in the tables comes from elsewhere: every row and every value   *)
(* has an event up to h that brought it, though other events may have      *)
(* brought the same.                                                       *)
TracksFrom(d, h) ==
    \A k \in Screens \X Tracks : d.tracks[k] # NoRow =>
        /\ \E i \in 1 .. h : /\ log[i].kind = "track" /\ <<log[i].screen, log[i].track>> = k
                             /\ log[i].count = d.tracks[k].count
        /\ d.tracks[k].sys \in Opt({Scope(k[1])})
ObsFrom(d) ==
    \A j \in Ids : d.obs[j] # NoRow =>
        /\ d.obs[j].sys \in Opt({ScopeOf(j)})
        /\ d.obs[j].linked = TRUE =>
              log[j].track # NULL /\ d.tracks[<<log[j].screen, log[j].track>>] # NoRow
SetsFrom(d, h) ==
    /\ \A o \in d.matches : \E i \in 1 .. h : log[i].kind = "match" /\ MatchedObservation(d, log[i]) = o
    /\ \A i \in d.decisions : log[i].kind = "decision"
CompsFrom(d, h) ==
    \A t \in Triggers : d.comps[t] # NoRow =>
        /\ \E i \in 1 .. h : log[i].kind = "composition" /\ log[i].trig = t
        /\ d.comps[t].decision # NULL => log[d.comps[t].decision].trig = t
RunsFrom(d, h) ==
    \A t \in Triggers : d.runs[t] # NoRow =>
        /\ \E i \in 1 .. h : log[i].kind = "ad_run" /\ log[i].trig = t
        /\ d.runs[t].decision # NULL => log[d.runs[t].decision].trig = t
        /\ d.runs[t].target # NULL => \E i \in 1 .. h :
              log[i].kind = "ad_run" /\ log[i].trig = t /\ log[i].target = d.runs[t].target
        /\ d.runs[t].sys # NULL => \E i \in 1 .. h :
              log[i].kind = "ad_run" /\ log[i].trig = t /\ ScopeOf(i) # NULL
PlaysFrom(d, h) ==
    \A p \in Playbacks : d.plays[p] # NoRow =>
        /\ \E i \in 1 .. h : log[i].kind = "playback" /\ PlayOf(i) = p
        /\ d.plays[p].sys \in Opt({Scope(p[2])})
        /\ d.plays[p].start # NULL => \E i \in 1 .. h :
              log[i].kind = "playback" /\ PlayOf(i) = p /\ log[i].start = d.plays[p].start
        /\ d.plays[p].end # NULL => \E i \in 1 .. h :
              log[i].kind = "playback" /\ PlayOf(i) = p /\ log[i].end = d.plays[p].end
ExpoFrom(d, h) ==
    \A x \in Exposures : d.expo[x] # NoRow =>
        /\ \E i \in 1 .. h : Writes(d, i, x)
        /\ d.expo[x].watched # NULL =>
              \E i \in 1 .. h : Writes(d, i, x) /\ WatchedBy(d, Window(d, i), x) # NULL
        /\ d.expo[x].prob # NULL =>
              \E i \in 1 .. h : Writes(d, i, x) /\ ProbableBy(d, Window(d, i), x) # NULL
From(d, h) ==
    /\ TracksFrom(d, h) /\ ObsFrom(d) /\ SetsFrom(d, h) /\ CompsFrom(d, h)
    /\ RunsFrom(d, h) /\ PlaysFrom(d, h) /\ ExpoFrom(d, h)

(* An observation repeats its event.                                       *)
LEMMA ObservationOf ==
    ASSUME Control, NEW d, Sound(d), NEW j \in Ids, d.obs[j] # NoRow
    PROVE  /\ j \in 1 .. Len(log) /\ log[j].kind = "detection"
           /\ d.obs[j].trig = log[j].trig /\ d.obs[j].at = log[j].ts /\ d.obs[j].subj = log[j].subj
           /\ d.obs[j].track = log[j].track /\ d.obs[j].att = log[j].att
<1>1. ObsInv(d)
  BY DEF Sound, Inv
<1>2. /\ j <= Len(log) /\ log[j].kind = "detection"
      /\ d.obs[j].trig = log[j].trig /\ d.obs[j].at = log[j].ts /\ d.obs[j].subj = log[j].subj
      /\ d.obs[j].track = log[j].track /\ d.obs[j].att = log[j].att
  BY <1>1, Zenon DEF ObsInv
<1>3. MaxEvents \in Nat /\ Len(log) \in Nat
  BY BoundsAssumption DEF Control
<1>4. j \in 1 .. Len(log)
  BY <1>2, <1>3 DEF Ids
<1> QED BY <1>2, <1>4

(* A fold adds only what its own event brings.                             *)
LEMMA TracksFromFold ==
    ASSUME Control, NEW d, NEW n, NEW k \in 1 .. Len(log), Folded(d, k, n),
           NEW h \in Nat, NEW g \in Nat, h <= g, k <= g, TracksFrom(d, h), ObsFrom(d)
    PROVE  TracksFrom(n, g) /\ ObsFrom(n)
<1> DEFINE e == log[k]
           s == ScopeOf(k)
<1>0. e \in Alphabet /\ k \in Ids
  BY EventPlaces
<1>1. e \in Alphabet /\ k \in Ids /\ k \in 1 .. g /\ \A i \in 1 .. h : i \in 1 .. g
  BY <1>0 DEF Control
<1>2. ASSUME NEW q \in Screens \X Tracks, n.tracks[q] # NoRow
      PROVE  /\ \E i \in 1 .. g : /\ log[i].kind = "track" /\ <<log[i].screen, log[i].track>> = q
                                  /\ log[i].count = n.tracks[q].count
             /\ n.tracks[q].sys \in Opt({Scope(q[1])})
  <2>1. CASE ~(e.kind = "track" /\ q = <<e.screen, e.track>>)
    <3>1. n.tracks[q] = d.tracks[q]
      BY <2>1, Zenon DEF Folded, FoldedTracks
    <3> QED BY <1>1, <1>2, <3>1 DEF TracksFrom
  <2>2. CASE e.kind = "track" /\ q = <<e.screen, e.track>>
    <3>1. n.tracks[q] = [sys   |-> Merged(s, d.tracks[q], "sys"),
                         count |-> IF d.tracks[q] = NoRow THEN e.count
                                   ELSE Larger(e.count, d.tracks[q].count)]
      BY <2>2, Zenon DEF Folded, FoldedTracks
    <3>2. s = Scope(q[1])
      BY <1>1, <2>2, EventColumns, NullAssumption DEF ScopeOf
    <3>3. n.tracks[q].sys \in Opt({Scope(q[1])})
      BY <3>1, <3>2 DEF TracksFrom, Merged, Coalesce, Opt
    <3>4. n.tracks[q].count = e.count \/ (d.tracks[q] # NoRow /\ n.tracks[q].count = d.tracks[q].count)
      BY <3>1 DEF Larger
    <3>5. CASE n.tracks[q].count = e.count
      BY <1>1, <2>2, <3>3, <3>5
    <3>6. CASE d.tracks[q] # NoRow /\ n.tracks[q].count = d.tracks[q].count
      BY <1>1, <3>3, <3>6 DEF TracksFrom
    <3> QED BY <3>4, <3>5, <3>6
  <2> QED BY <2>1, <2>2
<1>3. ASSUME NEW j \in Ids, n.obs[j] # NoRow
      PROVE  /\ n.obs[j].sys \in Opt({ScopeOf(j)})
             /\ n.obs[j].linked = TRUE =>
                   log[j].track # NULL /\ n.tracks[<<log[j].screen, log[j].track>>] # NoRow
  <2>1. log[j].kind = "detection" /\ j \in 1 .. Len(log)
    BY <1>3, ObservationOf DEF Folded
  <2>2. log[j].track # NULL /\ d.tracks[<<log[j].screen, log[j].track>>] # NoRow =>
            n.tracks[<<log[j].screen, log[j].track>>] # NoRow
    <3>1. log[j].track # NULL => <<log[j].screen, log[j].track>> \in Screens \X Tracks
      BY <2>1, EventPlaces, EventColumns DEF Opt
    <3> QED BY <3>1 DEF Folded, Grows
  <2>3. CASE ~(e.kind = "detection" /\ j = k)
    <3>1. n.obs[j] = d.obs[j]
      BY <2>3, Zenon DEF Folded, FoldedObs
    <3> QED BY <1>3, <2>2, <3>1 DEF ObsFrom
  <2>4. CASE e.kind = "detection" /\ j = k
    <3>1. n.obs[k] = [trig |-> e.trig, at |-> e.ts, subj |-> e.subj, track |-> e.track,
                      att |-> e.att, sys |-> Merged(s, d.obs[k], "sys"),
                      linked |-> (e.track # NULL /\ d.tracks[<<e.screen, e.track>>] # NoRow)
                                 \/ (d.obs[k] # NoRow /\ d.obs[k].linked)]
      BY <1>1, <2>4, Zenon DEF Folded, FoldedObs
    <3>2. n.obs[j].sys \in Opt({ScopeOf(j)})
      BY <2>4, <3>1 DEF ObsFrom, Merged, Coalesce, Opt
    <3>3. d.obs[k] # NoRow => d.obs[k].linked \in BOOLEAN
      BY <1>1, DatabaseFields DEF Folded, Sound, Inv, Table, ObsRows
    <3>4. n.obs[k].linked = ((e.track # NULL /\ d.tracks[<<e.screen, e.track>>] # NoRow)
                             \/ (d.obs[k] # NoRow /\ d.obs[k].linked))
      BY <3>1
    <3>5. ASSUME n.obs[k].linked = TRUE
          PROVE  e.track # NULL /\ d.tracks[<<e.screen, e.track>>] # NoRow
      <4>1. CASE d.obs[k] # NoRow /\ d.obs[k].linked = TRUE
        BY <1>1, <4>1, Zenon DEF ObsFrom
      <4> QED BY <3>3, <3>4, <3>5, <4>1
    <3> QED BY <2>2, <2>4, <3>2, <3>5
  <2> QED BY <2>3, <2>4
<1> QED BY <1>2, <1>3 DEF TracksFrom, ObsFrom

LEMMA SetsFromFold ==
    ASSUME Control, NEW d, NEW n, NEW k \in 1 .. Len(log), Folded(d, k, n),
           NEW h \in Nat, NEW g \in Nat, h <= g, k <= g, SetsFrom(d, h),
           \A i \in 1 .. h : log[i].kind = "match" =>
               MatchedObservation(d, log[i]) = MatchedObservation(n, log[i])
    PROVE  SetsFrom(n, g)
<1>1. k \in 1 .. g /\ \A i \in 1 .. h : i \in 1 .. g
  BY DEF Control
<1>2. log[k].kind = "match" => MatchedObservation(d, log[k]) = MatchedObservation(n, log[k])
  <2> SUFFICES ASSUME log[k].kind = "match"
               PROVE  MatchedObservation(d, log[k]) = MatchedObservation(n, log[k])
    OBVIOUS
  <2>1. \A o \in Ids : n.obs[o] = d.obs[o]
    BY DEF Folded, FoldedObs
  <2>2. log[k].det \in Opt(Ids)
    BY EventPlaces, EventColumns
  <2>3. {o \in Ids : n.obs[o] # NoRow /\ n.obs[o].trig = log[k].trig}
        = {o \in Ids : d.obs[o] # NoRow /\ d.obs[o].trig = log[k].trig}
    BY <2>1
  <2> QED BY <2>1, <2>2, <2>3 DEF MatchedObservation, Opt
<1>3. \A o \in n.matches : o \in d.matches
                           \/ (log[k].kind = "match" /\ MatchedObservation(n, log[k]) = o)
  BY <1>2 DEF Folded, FoldedSets
<1>4. \A i \in n.decisions : i \in d.decisions \/ log[i].kind = "decision"
  BY DEF Folded, FoldedSets
<1> QED BY <1>1, <1>3, <1>4 DEF SetsFrom

(* A decision that a row links belongs to the row's trigger.               *)
LEMMA DecisionOwn ==
    ASSUME Control, NEW d, Sound(d), NEW t, Decision(d, t) # NULL
    PROVE  Decision(d, t) \in d.decisions /\ log[Decision(d, t)].trig = t
<1> DEFINE rows == {i \in d.decisions : log[i].trig = t}
<1>1. rows \in SUBSET Ids /\ descending \in BOOLEAN
  BY DatabaseFields DEF Control, Sound, Inv
<1>2. rows # {}
  BY DEF Decision, First
<1>3. \E r \in rows : \A o \in rows : o # r => UuidBefore(r, o)
  BY <1>1, <1>2, FirstByUuid
<1>4. Decision(d, t) \in rows
  BY <1>2, <1>3 DEF Decision, First
<1> QED BY <1>4

LEMMA CompsFromFold ==
    ASSUME Control, NEW d, NEW n, NEW k \in 1 .. Len(log), Folded(d, k, n),
           NEW h \in Nat, NEW g \in Nat, h <= g, k <= g, CompsFrom(d, h), RunsFrom(d, h)
    PROVE  CompsFrom(n, g) /\ RunsFrom(n, g)
<1> DEFINE e == log[k]
           s == ScopeOf(k)
<1>1. Sound(d) /\ k \in 1 .. g /\ \A i \in 1 .. h : i \in 1 .. g
  BY DEF Control, Folded
<1>2. \A t : Decision(d, t) # NULL => log[Decision(d, t)].trig = t
  BY <1>1, DecisionOwn
<1>3. ASSUME NEW t \in Triggers, n.comps[t] # NoRow
      PROVE  /\ \E i \in 1 .. g : log[i].kind = "composition" /\ log[i].trig = t
             /\ n.comps[t].decision # NULL => log[n.comps[t].decision].trig = t
  <2>1. CASE ~(e.kind = "composition" /\ t = e.trig)
    <3>1. n.comps[t] = d.comps[t]
      BY <2>1, Zenon DEF Folded, FoldedComps
    <3> QED BY <1>1, <1>3, <3>1 DEF CompsFrom
  <2>2. CASE e.kind = "composition" /\ t = e.trig
    <3>1. n.comps[t].decision = Merged(Decision(d, t), d.comps[t], "decision")
      BY <2>2, WrittenRows
    <3> QED BY <1>1, <1>2, <2>2, <3>1 DEF CompsFrom, Merged, Coalesce
  <2> QED BY <2>1, <2>2
<1>4. ASSUME NEW t \in Triggers, n.runs[t] # NoRow
      PROVE  /\ \E i \in 1 .. g : log[i].kind = "ad_run" /\ log[i].trig = t
             /\ n.runs[t].decision # NULL => log[n.runs[t].decision].trig = t
             /\ n.runs[t].target # NULL => \E i \in 1 .. g :
                   log[i].kind = "ad_run" /\ log[i].trig = t /\ log[i].target = n.runs[t].target
             /\ n.runs[t].sys # NULL => \E i \in 1 .. g :
                   log[i].kind = "ad_run" /\ log[i].trig = t /\ ScopeOf(i) # NULL
  <2>1. CASE ~(e.kind = "ad_run" /\ t = e.trig)
    <3>1. n.runs[t] = d.runs[t]
      BY <2>1, Zenon DEF Folded, FoldedRuns
    <3> QED BY <1>1, <1>4, <3>1 DEF RunsFrom
  <2>2. CASE e.kind = "ad_run" /\ t = e.trig
    <3>1. /\ n.runs[t].decision = Merged(Decision(d, t), d.runs[t], "decision")
          /\ n.runs[t].sys = Merged(s, d.runs[t], "sys")
      BY <2>2, WrittenRows
    <3>2. n.runs[t].target = Merged(e.target, d.runs[t], "target")
      <4>1. n.runs[t] = [decision |-> Merged(Decision(d, t), d.runs[t], "decision"),
                         target |-> Merged(e.target, d.runs[t], "target"),
                         sys |-> Merged(s, d.runs[t], "sys"),
                         comp |-> Merged(IF d.comps[t] # NoRow THEN t ELSE NULL, d.runs[t], "comp"),
                         status |-> e.status]
        BY <2>2, Zenon DEF Folded, FoldedRuns
      <4> QED BY <4>1
    <3>3. n.runs[t].decision # NULL => log[n.runs[t].decision].trig = t
      BY <1>2, <3>1 DEF RunsFrom, Merged, Coalesce
    <3>4. n.runs[t].target = e.target
          \/ (d.runs[t] # NoRow /\ n.runs[t].target = d.runs[t].target /\ d.runs[t].target # NULL)
          \/ n.runs[t].target = NULL
      BY <3>2 DEF Merged, Coalesce
    <3>5. n.runs[t].target # NULL => \E i \in 1 .. g :
              log[i].kind = "ad_run" /\ log[i].trig = t /\ log[i].target = n.runs[t].target
      BY <1>1, <2>2, <3>4 DEF RunsFrom
    <3>6. s # NULL \/ (d.runs[t] # NoRow /\ d.runs[t].sys # NULL) \/ n.runs[t].sys = NULL
      BY <3>1 DEF Merged, Coalesce
    <3>7. n.runs[t].sys # NULL => \E i \in 1 .. g :
              log[i].kind = "ad_run" /\ log[i].trig = t /\ ScopeOf(i) # NULL
      BY <1>1, <2>2, <3>6 DEF RunsFrom
    <3> QED BY <1>1, <2>2, <3>3, <3>5, <3>7
  <2> QED BY <2>1, <2>2
<1> QED BY <1>3, <1>4 DEF CompsFrom, RunsFrom

LEMMA PlaysFromFold ==
    ASSUME Control, NEW d, NEW n, NEW k \in 1 .. Len(log), Folded(d, k, n),
           NEW h \in Nat, NEW g \in Nat, h <= g, k <= g, PlaysFrom(d, h)
    PROVE  PlaysFrom(n, g)
<1> DEFINE e == log[k]
           s == ScopeOf(k)
<1>1. k \in 1 .. g /\ \A i \in 1 .. h : i \in 1 .. g
  BY DEF Control
<1> SUFFICES ASSUME NEW p \in Playbacks, n.plays[p] # NoRow
             PROVE  /\ \E i \in 1 .. g : log[i].kind = "playback" /\ PlayOf(i) = p
                    /\ n.plays[p].sys \in Opt({Scope(p[2])})
                    /\ n.plays[p].start # NULL => \E i \in 1 .. g :
                          log[i].kind = "playback" /\ PlayOf(i) = p /\ log[i].start = n.plays[p].start
                    /\ n.plays[p].end # NULL => \E i \in 1 .. g :
                          log[i].kind = "playback" /\ PlayOf(i) = p /\ log[i].end = n.plays[p].end
  BY DEF PlaysFrom
<1>2. CASE ~(e.kind = "playback" /\ p = PlayOf(k))
  <2>1. n.plays[p] = d.plays[p]
    BY <1>2, Zenon DEF Folded, FoldedPlays
  <2> QED BY <1>1, <2>1 DEF PlaysFrom
<1>3. CASE e.kind = "playback" /\ p = PlayOf(k)
  <2>1. n.plays[p] = [run |-> Merged(IF d.runs[PlayedRun(e)] # NoRow THEN PlayedRun(e) ELSE NULL,
                                     d.plays[p], "run"),
                      sys |-> Merged(s, d.plays[p], "sys"),
                      start |-> Merged(e.start, d.plays[p], "start"),
                      end |-> Merged(e.end, d.plays[p], "end"),
                      status |-> e.status]
    BY <1>3, Zenon DEF Folded, FoldedPlays
  <2>2. s = Scope(p[2])
    <3>1. e.screen \in Screens
      BY <1>3, EventPlaces, EventColumns
    <3> QED BY <1>3, <3>1, NullAssumption DEF ScopeOf, PlayOf
  <2>3. n.plays[p].sys \in Opt({Scope(p[2])})
    BY <2>1, <2>2 DEF PlaysFrom, Merged, Coalesce, Opt
  <2>4. n.plays[p].start = e.start
        \/ (d.plays[p] # NoRow /\ n.plays[p].start = d.plays[p].start /\ d.plays[p].start # NULL)
        \/ n.plays[p].start = NULL
    BY <2>1 DEF Merged, Coalesce
  <2>5. n.plays[p].end = e.end
        \/ (d.plays[p] # NoRow /\ n.plays[p].end = d.plays[p].end /\ d.plays[p].end # NULL)
        \/ n.plays[p].end = NULL
    BY <2>1 DEF Merged, Coalesce
  <2>6. n.plays[p].start # NULL => \E i \in 1 .. g :
            log[i].kind = "playback" /\ PlayOf(i) = p /\ log[i].start = n.plays[p].start
    BY <1>1, <1>3, <2>4 DEF PlaysFrom
  <2>7. n.plays[p].end # NULL => \E i \in 1 .. g :
            log[i].kind = "playback" /\ PlayOf(i) = p /\ log[i].end = n.plays[p].end
    BY <1>1, <1>3, <2>5 DEF PlaysFrom
  <2> QED BY <1>1, <1>3, <2>3, <2>6, <2>7
<1> QED BY <1>2, <1>3

LEMMA ExpoFromFold ==
    ASSUME Control, NEW d, NEW n, NEW k \in 1 .. Len(log), Folded(d, k, n),
           NEW h \in 0 .. Len(log), NEW g \in Nat, h <= g, k <= g, ExpoFrom(d, h),
           \A i \in 1 .. h : Closes(log[i]) => SameView(d, n)
    PROVE  ExpoFrom(n, g)
<1>1. k \in 1 .. g /\ Len(log) \in Nat /\ \A i \in 1 .. h : i \in 1 .. g /\ i \in 1 .. Len(log)
  BY DEF Control
<1> SUFFICES ASSUME NEW x \in Exposures, n.expo[x] # NoRow
             PROVE  /\ \E i \in 1 .. g : Writes(n, i, x)
                    /\ n.expo[x].watched # NULL =>
                          \E i \in 1 .. g : Writes(n, i, x) /\ WatchedBy(n, Window(n, i), x) # NULL
                    /\ n.expo[x].prob # NULL =>
                          \E i \in 1 .. g : Writes(n, i, x) /\ ProbableBy(n, Window(n, i), x) # NULL
  BY DEF ExpoFrom
<1>2. ASSUME NEW i \in 1 .. h, Writes(d, i, x)
      PROVE  /\ Writes(n, i, x)
             /\ WatchedBy(n, Window(n, i), x) = WatchedBy(d, Window(d, i), x)
             /\ ProbableBy(n, Window(n, i), x) = ProbableBy(d, Window(d, i), x)
  <2>1. Derives(d, i) /\ SameView(d, n) /\ i \in 1 .. Len(log)
    BY <1>1, <1>2 DEF Writes, Derives
  <2>2. Derives(n, i) /\ Window(n, i) = Window(d, i)
    BY <2>1, DerivesOn DEF Folded
  <2> QED BY <1>2, <2>1, <2>2, WritesAlike
<1>3. d.expo[x] # NoRow =>
          /\ \E i \in 1 .. g : Writes(n, i, x)
          /\ d.expo[x].watched # NULL =>
                \E i \in 1 .. g : Writes(n, i, x) /\ WatchedBy(n, Window(n, i), x) # NULL
          /\ d.expo[x].prob # NULL =>
                \E i \in 1 .. g : Writes(n, i, x) /\ ProbableBy(n, Window(n, i), x) # NULL
  BY <1>1, <1>2 DEF ExpoFrom
<1>4. CASE ~Writes(n, k, x)
  <2>1. n.expo[x] = d.expo[x]
    BY <1>4, Zenon DEF Folded, FoldedExpo
  <2> QED BY <1>3, <2>1
<1>5. CASE Writes(n, k, x)
  <2>1. /\ n.expo[x].watched = Merged(WatchedBy(n, Window(n, k), x), d.expo[x], "watched")
        /\ n.expo[x].prob = Merged(ProbableBy(n, Window(n, k), x), d.expo[x], "prob")
    BY <1>5, ExposureWritten
  <2>2. WatchedBy(n, Window(n, k), x) # NULL \/ n.expo[x].watched = NULL
        \/ (d.expo[x] # NoRow /\ d.expo[x].watched # NULL)
    BY <2>1 DEF Merged, Coalesce
  <2>3. ProbableBy(n, Window(n, k), x) # NULL \/ n.expo[x].prob = NULL
        \/ (d.expo[x] # NoRow /\ d.expo[x].prob # NULL)
    BY <2>1 DEF Merged, Coalesce
  <2> QED BY <1>1, <1>3, <1>5, <2>2, <2>3
<1> QED BY <1>4, <1>5

LEMMA FromFold ==
    ASSUME Control, NEW d, NEW n, NEW k \in 1 .. Len(log), Folded(d, k, n),
           NEW h \in 0 .. Len(log), NEW g \in Nat, h <= g, k <= g, From(d, h),
           \A i \in 1 .. h : log[i].kind = "match" =>
               MatchedObservation(d, log[i]) = MatchedObservation(n, log[i]),
           \A i \in 1 .. h : Closes(log[i]) => SameView(d, n)
    PROVE  From(n, g)
<1>1. h \in Nat
  BY DEF Control
<1>2. TracksFrom(n, g) /\ ObsFrom(n)
  BY <1>1, TracksFromFold DEF From
<1>3. SetsFrom(n, g)
  BY <1>1, SetsFromFold DEF From
<1>4. CompsFrom(n, g) /\ RunsFrom(n, g)
  BY <1>1, CompsFromFold DEF From
<1>5. PlaysFrom(n, g)
  BY <1>1, PlaysFromFold DEF From
<1>6. ExpoFrom(n, g)
  BY ExpoFromFold DEF From
<1> QED BY <1>2, <1>3, <1>4, <1>5, <1>6 DEF From

LEMMA NextFrom ==
    ASSUME Control, InOrder, NEW d, NEW n, NEW k \in 1 .. Len(log), Folded(d, k, n), From(d, k - 1)
    PROVE  From(n, k)
<1>1. /\ k - 1 \in 0 .. Len(log) /\ k \in Nat
      /\ \A i \in 1 .. k - 1 : i \in 1 .. Len(log) /\ Stage(log[i]) <= Stage(log[k])
  BY DEF Control, InOrder
<1>2. \A i \in 1 .. k - 1 : log[i].kind = "match" =>
          MatchedObservation(d, log[i]) = MatchedObservation(n, log[i])
  BY <1>1, NextRefs DEF SameRefs
<1>3. \A i \in 1 .. k - 1 : Closes(log[i]) => SameView(d, n)
  BY <1>1, NextView
<1> QED BY <1>1, <1>2, <1>3, FromFold

(* An event that is folded again brings what it brought before.            *)
LEMMA AgainFrom ==
    ASSUME Control, NEW d, NEW n, NEW k \in 1 .. Len(log), Folded(d, k, n), Recorded(d, k),
           NEW h \in k .. Len(log), From(d, h)
    PROVE  From(n, h)
<1>1. h \in 0 .. Len(log) /\ h \in Nat /\ k <= h /\ \A i \in 1 .. h : i \in 1 .. Len(log)
  BY DEF Control
<1>2. SameRows(d, n)
  BY RowsKept
<1>3. \A i \in 1 .. h : log[i].kind = "match" =>
          MatchedObservation(d, log[i]) = MatchedObservation(n, log[i])
  BY <1>1, <1>2, RefsKept DEF SameRefs
<1> QED BY <1>1, <1>2, <1>3, FromFold DEF SameRows

(* The tables that one fold of the journal makes of empty ones.            *)
LEMMA RebuildSettles ==
    ASSUME Control, InOrder
    PROVE  Sound(Refold(Empty)) /\ Final(Refold(Empty)) /\ From(Refold(Empty), Len(log))
<1> DEFINE L == Len(log)
           Built(n, c) == /\ Sound(n) /\ \A i \in 1 .. c : Recorded(n, i) /\ Resolved(n, i)
                          /\ StatusesSettled(n, c) /\ ExposuresSettled(n, c) /\ From(n, c)
<1>1. L \in Nat
  BY DEF Control
<1>2. PICK a : /\ a[0] = Empty /\ Refold(Empty) = a[L]
               /\ \A k \in 1 .. L : a[k] = FoldEvent(a[k - 1], k)
  BY <1>1, Pass
<1> DEFINE S == {m \in 0 .. L : Built(a[m], m)}
<1>3. 0 \in S
  <2>1. From(Empty, 0)
    BY DEF From, Empty, TracksFrom, ObsFrom, SetsFrom, CompsFrom, RunsFrom, PlaysFrom, ExpoFrom
  <2> QED BY <1>1, <1>2, <2>1, EmptySound DEF StatusesSettled, ExposuresSettled
<1>4. ASSUME NEW k \in 1 .. L, k - 1 \in S PROVE k \in S
  <2> DEFINE n == a[k]
             m == a[k - 1]
  <2>1. Built(m, k - 1)
    BY <1>4
  <2>2. Folded(m, k, n)
    BY <1>2, <2>1, FoldShape
  <2> HIDE DEF n, m
  <2>3. Sound(n)
    BY <2>2 DEF Folded
  <2>4. \A i \in 1 .. k : Recorded(n, i)
    BY <2>1, <2>2, NextRecorded
  <2>5. /\ \A i \in 1 .. k : Resolved(n, i)
        /\ StatusesSettled(n, k) /\ ExposuresSettled(n, k)
    BY <2>1, <2>2, NextSettles
  <2>6. From(n, k)
    BY <2>1, <2>2, NextFrom
  <2> QED BY <2>3, <2>4, <2>5, <2>6 DEF n
<1> HIDE DEF S
<1>5. L \in S
  BY <1>1, <1>3, <1>4, UpTo
<1> QED BY <1>2, <1>5 DEF S, Final, Ready

LEMMA FromExtended ==
    ASSUME Control, Extended, NEW h \in 0 .. Len(log), \A i \in 1 .. h : Closes(log[i]) => Unwatched,
           Sound(db'), From(db', h)
    PROVE  From(db, h)'
<1>1. \A i \in 1 .. Len(log) : /\ log'[i] = log[i] /\ ScopeOf(i)' = ScopeOf(i)
                               /\ PlayOf(i)' = PlayOf(i)
  BY DEF Extended, ScopeOf, Scope, PlayOf
<1>2. /\ \A i \in 1 .. h : i \in 1 .. Len(log)
      /\ \A s : Scope(s)' = Scope(s)
      /\ \A e : MatchedObservation(db, e)' = MatchedObservation(db', e)
  BY DEF Extended, Scope, MatchedObservation, First, UuidBefore
<1>3. /\ \A j \in Ids : db'.obs[j] # NoRow => j \in 1 .. Len(log)
      /\ \A i \in db'.decisions : i \in 1 .. Len(log)
  BY ObservationOf DEF Sound, Inv, Linked
<1>4. TracksFrom(db, h)'
  <2> SUFFICES ASSUME NEW q \in Screens \X Tracks, db'.tracks[q] # NoRow
               PROVE  /\ \E i \in 1 .. h : /\ log'[i].kind = "track"
                                          /\ <<log'[i].screen, log'[i].track>> = q
                                          /\ log'[i].count = db'.tracks[q].count
                      /\ db'.tracks[q].sys \in Opt({Scope(q[1])'})
    BY DEF TracksFrom, Opt
  <2>1. PICK i \in 1 .. h : /\ log[i].kind = "track" /\ <<log[i].screen, log[i].track>> = q
                            /\ log[i].count = db'.tracks[q].count
    BY DEF From, TracksFrom
  <2>2. db'.tracks[q].sys \in Opt({Scope(q[1])})
    BY DEF From, TracksFrom
  <2>3. Scope(q[1])' = Scope(q[1])
    BY <1>2
  <2> QED BY <1>1, <1>2, <2>1, <2>2, <2>3
<1>5. ObsFrom(db)'
  BY <1>1, <1>3 DEF From, ObsFrom
<1>6. SetsFrom(db, h)'
  BY <1>1, <1>2, <1>3 DEF From, SetsFrom
<1>7. CompsFrom(db, h)'
  <2>1. \A t \in Triggers : db'.comps[t] # NoRow /\ db'.comps[t].decision # NULL =>
            db'.comps[t].decision \in 1 .. Len(log)
    BY <1>3 DEF Sound, Inv, Linked, Opt
  <2> QED BY <1>1, <1>2, <2>1 DEF From, CompsFrom
<1>8. RunsFrom(db, h)'
  <2>1. \A t \in Triggers : db'.runs[t] # NoRow /\ db'.runs[t].decision # NULL =>
            db'.runs[t].decision \in 1 .. Len(log)
    BY <1>3 DEF Sound, Inv, Linked, Opt
  <2> QED BY <1>1, <1>2, <2>1 DEF From, RunsFrom
<1>9. PlaysFrom(db, h)'
  <2> SUFFICES ASSUME NEW p \in Playbacks, db'.plays[p] # NoRow
               PROVE  /\ \E i \in 1 .. h : log'[i].kind = "playback" /\ PlayOf(i)' = p
                      /\ db'.plays[p].sys \in Opt({Scope(p[2])'})
                      /\ db'.plays[p].start # NULL => \E i \in 1 .. h :
                            log'[i].kind = "playback" /\ PlayOf(i)' = p
                            /\ log'[i].start = db'.plays[p].start
                      /\ db'.plays[p].end # NULL => \E i \in 1 .. h :
                            log'[i].kind = "playback" /\ PlayOf(i)' = p
                            /\ log'[i].end = db'.plays[p].end
    BY DEF PlaysFrom, Opt
  <2>1. Scope(p[2])' = Scope(p[2])
    BY <1>2
  <2>2. /\ \E i \in 1 .. h : log[i].kind = "playback" /\ PlayOf(i) = p
        /\ db'.plays[p].sys \in Opt({Scope(p[2])})
        /\ db'.plays[p].start # NULL => \E i \in 1 .. h :
              log[i].kind = "playback" /\ PlayOf(i) = p /\ log[i].start = db'.plays[p].start
        /\ db'.plays[p].end # NULL => \E i \in 1 .. h :
              log[i].kind = "playback" /\ PlayOf(i) = p /\ log[i].end = db'.plays[p].end
    BY DEF From, PlaysFrom
  <2> QED BY <1>1, <1>2, <2>1, <2>2
<1>10. ExpoFrom(db, h)'
  <2>1. ASSUME NEW x \in Exposures, NEW i \in 1 .. h, Writes(db', i, x)
        PROVE  /\ Writes(db, i, x)'
               /\ WatchedBy(db, Window(db, i), x)' = WatchedBy(db', Window(db', i), x)
               /\ ProbableBy(db, Window(db, i), x)' = ProbableBy(db', Window(db', i), x)
    <3>1. Unwatched /\ i \in 1 .. Len(log)
      BY <1>2, <2>1 DEF Writes, Derives
    <3> QED BY <2>1, <3>1, WritesExtended
  <2> QED BY <2>1 DEF From, ExpoFrom
<1> QED BY <1>4, <1>5, <1>6, <1>7, <1>8, <1>9, <1>10 DEF From

(* However often the cursor was set back, the tables hold only what events *)
(* up to some h have brought, all of which are recorded.                   *)
PassedFrom ==
    drifts = 0 /\ InOrder =>
        \E h \in cursor .. Len(log) : From(db, h) /\ \A i \in 1 .. h : Recorded(db, i)

LEMMA StepFrom == IInv /\ PassedFrom /\ [Next]_vars => PassedFrom'
<1> SUFFICES ASSUME IInv, PassedFrom, [Next]_vars, drifts' = 0, InOrder'
             PROVE  (\E h \in cursor .. Len(log) : From(db, h) /\ \A i \in 1 .. h : Recorded(db, i))'
  BY DEF PassedFrom
<1>1. /\ Control /\ log \in Seq(Alphabet) /\ Len(log) \in Nat /\ cursor \in 0 .. Len(log)
      /\ drifts \in Nat /\ Sound(db)
  BY BoundsAssumption DEF IInv, TypeOK, Control
<1>2. ASSUME Extended, Sound(db'), cursor' \in Nat,
             \E h \in cursor' .. Len(log) :
                 /\ From(db', h) /\ \A i \in 1 .. h : Recorded(db', i) /\ (Closes(log[i]) => Unwatched)
      PROVE  (\E h \in cursor .. Len(log) : From(db, h) /\ \A i \in 1 .. h : Recorded(db, i))'
  <2>1. PICK h \in cursor' .. Len(log) :
            From(db', h) /\ \A i \in 1 .. h : Recorded(db', i) /\ (Closes(log[i]) => Unwatched)
    BY <1>2
  <2>2. h \in 0 .. Len(log) /\ h \in cursor' .. Len(log') /\ \A i \in 1 .. h : i \in 1 .. Len(log)
    BY <1>1, <1>2 DEF Extended
  <2>3. From(db, h)'
    BY <1>1, <1>2, <2>1, <2>2, FromExtended
  <2>4. \A i \in 1 .. h : Recorded(db, i)'
    BY <1>2, <2>1, <2>2, RecordedExtended
  <2> QED BY <2>2, <2>3, <2>4
<1>3. ASSUME log' = log, device' = device, descending' = descending
      PROVE  Extended /\ Unwatched /\ InOrder
  <2>1. InOrder
    BY <1>3 DEF InOrder
  <2> QED BY <1>1, <1>3, <2>1 DEF Extended, Unwatched
<1>4. ASSUME NEW e \in Alphabet, Emit(e)
      PROVE  (\E h \in cursor .. Len(log) : From(db, h) /\ \A i \in 1 .. h : Recorded(db, i))'
  <2>1. /\ log' = Append(log, e) /\ UNCHANGED <<cursor, device, descending, db, drifts>>
    BY <1>4 DEF Emit
  <2>2. /\ Len(log') = Len(log) + 1 /\ log'[Len(log) + 1] = e
        /\ \A i \in 1 .. Len(log) : i \in 1 .. Len(log') /\ log'[i] = log[i]
    BY <1>1, <2>1
  <2>3. Extended
    BY <1>1, <2>1, <2>2 DEF Extended
  <2>4. InOrder
    BY <2>2 DEF InOrder
  <2>5. ASSUME NEW i \in 1 .. Len(log), Closes(log[i]) PROVE Unwatched
    <3>1. Stage(log[i]) <= Stage(e)
      <4>1. /\ i \in 1 .. Len(log') /\ Len(log) + 1 \in 1 .. Len(log') /\ i < Len(log) + 1
            /\ log'[i] = log[i] /\ log'[Len(log) + 1] = e
        BY <1>1, <2>1, <2>2
      <4> QED BY <4>1 DEF InOrder
    <3>2. e.kind # "gaze"
      BY <2>5, <3>1 DEF Stage, Closes
    <3> QED BY <1>1, <2>2, <3>2 DEF Unwatched
  <2>6. PICK h \in cursor .. Len(log) : From(db, h) /\ \A i \in 1 .. h : Recorded(db, i)
    BY <2>1, <2>4 DEF PassedFrom
  <2>7. \A i \in 1 .. h : i \in 1 .. Len(log)
    BY <1>1
  <2> QED BY <1>1, <1>2, <2>1, <2>3, <2>5, <2>6, <2>7
<1>5. CASE FoldNext
  <2> DEFINE k == cursor + 1
  <2>1. /\ log' = log /\ device' = device /\ descending' = descending /\ drifts = 0 /\ cursor' = k
        /\ k \in 1 .. Len(log) /\ Folded(db, k, db') /\ cursor = k - 1 /\ Sound(db') /\ k \in Nat
    BY <1>1, <1>5, FoldNextShape DEF FoldNext, Folded
  <2>2. PICK h \in cursor .. Len(log) : From(db, h) /\ \A i \in 1 .. h : Recorded(db, i)
    BY <1>3, <2>1 DEF PassedFrom
  <2> HIDE DEF k
  <2>3. CASE h = cursor
    <3>1. From(db', k) /\ \A i \in 1 .. k : Recorded(db', i)
      BY <1>1, <1>3, <2>1, <2>2, <2>3, NextFrom, NextRecorded
    <3>2. k \in cursor' .. Len(log)
      BY <2>1
    <3> QED BY <1>2, <1>3, <2>1, <3>1, <3>2
  <2>4. CASE h # cursor
    <3>1. h \in k .. Len(log) /\ k \in 1 .. h /\ \A i \in 1 .. h : i \in 1 .. Len(log)
      BY <1>1, <2>1, <2>4
    <3>2. From(db', h)
      BY <1>1, <2>1, <2>2, <3>1, AgainFrom
    <3>3. \A i \in 1 .. h : Recorded(db', i)
      BY <1>1, <2>1, <2>2, <3>1, RecordedStays
    <3> QED BY <1>2, <1>3, <2>1, <3>1, <3>2, <3>3
  <2> QED BY <2>3, <2>4
<1>6. ASSUME NEW c \in 0 .. MaxEvents, Rewind(c)
      PROVE  (\E h \in cursor .. Len(log) : From(db, h) /\ \A i \in 1 .. h : Recorded(db, i))'
  <2>1. /\ cursor' = c /\ c < cursor /\ c \in Nat /\ UNCHANGED <<log, device, descending, db, drifts>>
    BY <1>6, BoundsAssumption DEF Rewind
  <2>2. PICK h \in cursor .. Len(log) : From(db, h) /\ \A i \in 1 .. h : Recorded(db, i)
    BY <1>3, <2>1 DEF PassedFrom
  <2>3. h \in cursor' .. Len(log)
    BY <1>1, <2>1
  <2> QED BY <1>1, <1>2, <1>3, <2>1, <2>2, <2>3
<1>7. ASSUME NEW s \in Screens, Register(s) \/ Retire(s) PROVE FALSE
  BY <1>1, <1>7 DEF Register, Retire
<1>8. CASE UNCHANGED vars
  <2>1. UNCHANGED <<log, cursor, device, descending, db, drifts>> /\ cursor' \in Nat
    BY <1>1, <1>8 DEF vars
  <2>2. PICK h \in cursor .. Len(log) : From(db, h) /\ \A i \in 1 .. h : Recorded(db, i)
    BY <1>3, <2>1 DEF PassedFrom
  <2> QED BY <1>1, <1>2, <1>3, <2>1, <2>2
<1> QED BY <1>4, <1>5, <1>6, <1>7, <1>8 DEF Next

LEMMA InitFrom == Init => PassedFrom
<1> SUFFICES ASSUME Init PROVE From(db, 0)
  BY DEF Init, PassedFrom
<1> QED BY DEF Init, From, Empty, TracksFrom, ObsFrom, SetsFrom, CompsFrom, RunsFrom, PlaysFrom, ExpoFrom

LEMMA FromInvariant == Spec => [](IInv /\ PassedRecorded /\ PassedSettled /\ PassedFrom)
BY InitIInv, StepIInv, InitPassed, StepPassed, InitFrom, StepFrom, PTL DEF Spec

-----------------------------------------------------------------------------
(* The journal leaves such tables no choice: column by column, what they   *)
(* must record and settle is what they may hold.                           *)
Told(d) == Sound(d) /\ Final(d) /\ From(d, Len(log))

LEMMA LastOne ==
    ASSUME Len(log) \in Nat, NEW T \in SUBSET (1 .. Len(log)), T # {}
    PROVE  \E m \in T : \A j \in Later(m) : j \notin T
<1>1. T \in SUBSET (0 .. Len(log))
  OBVIOUS
<1>2. PICK m \in T : \A i \in T : i <= m
  BY <1>1, GreatestExists
<1>3. \A j \in Later(m) : j > m /\ m \in Nat /\ j \in Nat
  BY DEF Later
<1> QED BY <1>2, <1>3

LEMMA StampsTold ==
    ASSUME Control, NEW d, Told(d), NEW e, Told(e)
    PROVE  d.stamp = e.stamp
<1>1. d.stamp \in [Ids -> Opt(Systems)] /\ e.stamp \in [Ids -> Opt(Systems)]
  BY DatabaseFields DEF Told, Sound, Inv
<1>2. ASSUME NEW i \in Ids PROVE d.stamp[i] = e.stamp[i]
  <2>1. CASE i <= Len(log) /\ log[i].screen # NULL
    <3>1. i \in 1 .. Len(log)
      BY <2>1, BoundsAssumption DEF Control, Ids
    <3> QED BY <2>1, <3>1 DEF Told, Final, Ready, Recorded
  <2>2. CASE ~(i <= Len(log) /\ log[i].screen # NULL)
    BY <2>2 DEF Told, Sound, Inv, Linked
  <2> QED BY <2>1, <2>2
<1> QED BY <1>1, <1>2

LEMMA TracksTold ==
    ASSUME Control, NEW d, Told(d), NEW e, Told(e)
    PROVE  d.tracks = e.tracks
<1>1. /\ d.tracks \in Table(Screens \X Tracks, TrackRows)
      /\ e.tracks \in Table(Screens \X Tracks, TrackRows)
  BY DatabaseFields DEF Told, Sound, Inv
<1>2. ASSUME NEW a, Told(a), NEW b, Told(b), NEW k \in Screens \X Tracks, a.tracks[k] # NoRow
      PROVE  /\ b.tracks[k] # NoRow /\ b.tracks[k].sys = Scope(k[1])
             /\ a.tracks[k].count <= b.tracks[k].count
  <2>1. PICK i \in 1 .. Len(log) : /\ log[i].kind = "track" /\ <<log[i].screen, log[i].track>> = k
                                   /\ log[i].count = a.tracks[k].count
    BY <1>2 DEF Told, From, TracksFrom
  <2>2. ScopeOf(i) = Scope(k[1])
    BY <2>1, NullAssumption DEF ScopeOf
  <2>3. b.tracks[k] # NoRow /\ Stays(Scope(k[1]), b.tracks[k].sys) /\ log[i].count <= b.tracks[k].count
    BY <1>2, <2>1, <2>2 DEF Told, Final, Ready, Recorded
  <2>4. b.tracks[k].sys \in Opt({Scope(k[1])})
    BY <1>2, <2>3 DEF Told, From, TracksFrom
  <2> QED BY <2>1, <2>3, <2>4 DEF Stays, Opt
<1>3. ASSUME NEW k \in Screens \X Tracks PROVE d.tracks[k] = e.tracks[k]
  <2>1. d.tracks[k] \in TrackRows \cup {NoRow} /\ e.tracks[k] \in TrackRows \cup {NoRow}
    BY <1>1 DEF Table
  <2>2. CASE d.tracks[k] = NoRow
    BY <1>2, <2>2
  <2>3. CASE d.tracks[k] # NoRow
    <3>1. /\ e.tracks[k] # NoRow /\ d.tracks[k].sys = e.tracks[k].sys
          /\ d.tracks[k].count <= e.tracks[k].count /\ e.tracks[k].count <= d.tracks[k].count
      BY <1>2, <2>3
    <3> QED BY <2>1, <2>3, <3>1 DEF TrackRows
  <2> QED BY <2>2, <2>3
<1> QED BY <1>1, <1>3 DEF Table

LEMMA ObsTold ==
    ASSUME Control, NEW d, Told(d), NEW e, Told(e)
    PROVE  d.obs = e.obs
<1>1. /\ d.obs \in Table(Ids, ObsRows) /\ e.obs \in Table(Ids, ObsRows)
  BY DatabaseFields DEF Told, Sound, Inv
<1>2. d.tracks = e.tracks
  BY TracksTold
<1> DEFINE Fixed(a, j) ==
             LET row == a.obs[j] IN
             /\ j \in 1 .. Len(log) /\ log[j].kind = "detection"
             /\ row.trig = log[j].trig /\ row.at = log[j].ts /\ row.subj = log[j].subj
             /\ row.track = log[j].track /\ row.att = log[j].att /\ row.sys = ScopeOf(j)
             /\ row.linked = TRUE <=> /\ log[j].track # NULL
                                      /\ a.tracks[<<log[j].screen, log[j].track>>] # NoRow
<1>3. ASSUME NEW a, Told(a), NEW j \in Ids, a.obs[j] # NoRow PROVE Fixed(a, j)
  <2>1. /\ j \in 1 .. Len(log) /\ log[j].kind = "detection"
        /\ a.obs[j].trig = log[j].trig /\ a.obs[j].at = log[j].ts /\ a.obs[j].subj = log[j].subj
        /\ a.obs[j].track = log[j].track /\ a.obs[j].att = log[j].att
    BY <1>3, ObservationOf DEF Told
  <2>2. Recorded(a, j) /\ Resolved(a, j) /\ ObsFrom(a)
    BY <1>3, <2>1 DEF Told, Final, Ready, From
  <2>3. a.obs[j].sys = ScopeOf(j)
    BY <1>3, <2>1, <2>2 DEF Recorded, ObsFrom, Stays, Opt
  <2>4. a.obs[j].linked = TRUE <=> /\ log[j].track # NULL
                                   /\ a.tracks[<<log[j].screen, log[j].track>>] # NoRow
    BY <1>3, <2>1, <2>2 DEF Resolved, ObsFrom
  <2> QED BY <2>1, <2>3, <2>4
<1> HIDE DEF Fixed
<1>4. ASSUME NEW a, Told(a), NEW b, Told(b), NEW j \in Ids, a.obs[j] # NoRow
      PROVE  b.obs[j] # NoRow
  <2>1. j \in 1 .. Len(log) /\ log[j].kind = "detection"
    BY <1>3, <1>4 DEF Fixed
  <2> QED BY <1>4, <2>1 DEF Told, Final, Ready, Recorded
<1>5. ASSUME NEW j \in Ids PROVE d.obs[j] = e.obs[j]
  <2>1. d.obs[j] \in ObsRows \cup {NoRow} /\ e.obs[j] \in ObsRows \cup {NoRow}
    BY <1>1 DEF Table
  <2>2. CASE d.obs[j] = NoRow
    BY <1>4, <2>2
  <2>3. CASE d.obs[j] # NoRow
    <3>1. e.obs[j] # NoRow /\ Fixed(d, j) /\ Fixed(e, j)
      BY <1>3, <1>4, <2>3
    <3>2. /\ d.obs[j].trig = e.obs[j].trig /\ d.obs[j].at = e.obs[j].at
          /\ d.obs[j].subj = e.obs[j].subj /\ d.obs[j].track = e.obs[j].track
          /\ d.obs[j].att = e.obs[j].att /\ d.obs[j].sys = e.obs[j].sys
          /\ d.obs[j].linked = TRUE <=> e.obs[j].linked = TRUE
      BY <1>2, <3>1 DEF Fixed
    <3>3. d.obs[j].linked = e.obs[j].linked
      BY <2>1, <2>3, <3>1, <3>2 DEF ObsRows
    <3> QED BY <2>1, <2>3, <3>1, <3>2, <3>3 DEF ObsRows
  <2> QED BY <2>2, <2>3
<1> QED BY <1>1, <1>5 DEF Table

LEMMA SetsTold ==
    ASSUME Control, NEW d, Told(d), NEW e, Told(e)
    PROVE  d.matches = e.matches /\ d.decisions = e.decisions
<1>1. ASSUME NEW a, Told(a), NEW b, Told(b)
      PROVE  a.matches \subseteq b.matches /\ a.decisions \subseteq b.decisions
  <2>1. a.obs = b.obs
    BY <1>1, ObsTold
  <2>2. \A f : MatchedObservation(a, f) = MatchedObservation(b, f)
    BY <2>1 DEF MatchedObservation
  <2>3. a.matches \in SUBSET Ids /\ a.decisions \subseteq 1 .. Len(log)
    BY <1>1, DatabaseFields DEF Told, Sound, Inv, Linked
  <2>4. ASSUME NEW o \in a.matches PROVE o \in b.matches
    <3>1. PICK i \in 1 .. Len(log) : log[i].kind = "match" /\ MatchedObservation(a, log[i]) = o
      BY <1>1 DEF Told, From, SetsFrom
    <3>2. o # NULL
      BY <2>3, BoundsAssumption, NullAssumption DEF Ids
    <3>3. Resolved(b, i)
      BY <1>1 DEF Told, Final
    <3> QED BY <2>2, <3>1, <3>2, <3>3 DEF Resolved
  <2>5. ASSUME NEW i \in a.decisions PROVE i \in b.decisions
    BY <1>1, <2>3 DEF Told, From, SetsFrom, Final, Ready, Recorded
  <2> QED BY <2>4, <2>5
<1>2. /\ d.matches \subseteq e.matches /\ e.matches \subseteq d.matches
      /\ d.decisions \subseteq e.decisions /\ e.decisions \subseteq d.decisions
  BY <1>1
<1> QED BY <1>2

(* A decision that a row links is the representative of its trigger.       *)
LEMMA DecisionTold ==
    ASSUME Control, NEW d, Told(d), NEW e, Told(e), NEW t
    PROVE  /\ Decision(d, t) = Decision(e, t)
           /\ \A i \in d.decisions : log[i].trig = t => Decision(d, t) # NULL
<1>1. d.decisions = e.decisions
  BY SetsTold
<1>2. ASSUME NEW i \in d.decisions, log[i].trig = t PROVE Decision(d, t) # NULL
  <2> DEFINE rows == {o \in d.decisions : log[o].trig = t}
  <2>1. rows \in SUBSET Ids /\ rows # {} /\ descending \in BOOLEAN
    BY <1>2, DatabaseFields DEF Control, Told, Sound, Inv
  <2>2. \E r \in rows : \A o \in rows : o # r => UuidBefore(r, o)
    BY <2>1, FirstByUuid
  <2>3. Decision(d, t) \in rows
    BY <2>1, <2>2 DEF Decision, First
  <2> QED BY <2>1, <2>3, BoundsAssumption, NullAssumption DEF Ids
<1> QED BY <1>1, <1>2 DEF Decision

LEMMA SameLast ==
    ASSUME Len(log) \in Nat, NEW i \in 1 .. Len(log)
    PROVE  \E m \in 1 .. Len(log) : SameRow(m, i) /\ \A j \in Later(m) : ~SameRow(m, j)
<1> DEFINE T == {m \in 1 .. Len(log) : SameRow(m, i)}
<1>1. i \in T
  BY DEF SameRow
<1>2. PICK m \in T : \A j \in Later(m) : j \notin T
  BY <1>1, LastOne
<1>3. \A j \in Later(m) : j \in 1 .. Len(log)
  BY DEF Later
<1>4. \A j \in Later(m) : ~SameRow(m, j)
  BY <1>2, <1>3 DEF SameRow
<1> QED BY <1>2, <1>4

LEMMA CompsTold ==
    ASSUME Control, NEW d, Told(d), NEW e, Told(e)
    PROVE  d.comps = e.comps
<1>1. /\ d.comps \in Table(Triggers, CompRows) /\ e.comps \in Table(Triggers, CompRows)
      /\ Len(log) \in Nat
  BY DatabaseFields DEF Told, Sound, Inv, Control
<1>2. ASSUME NEW a, Told(a), NEW b, Told(b), NEW t \in Triggers, a.comps[t] # NoRow
      PROVE  /\ b.comps[t] # NoRow
             /\ a.comps[t].decision = Decision(a, t) /\ b.comps[t].decision = Decision(b, t)
             /\ a.comps[t].status = b.comps[t].status
  <2>1. PICK i \in 1 .. Len(log) : log[i].kind = "composition" /\ log[i].trig = t
    BY <1>2 DEF Told, From, CompsFrom
  <2>2. ASSUME NEW c, Told(c) PROVE c.comps[t] # NoRow /\ c.comps[t].decision = Decision(c, t)
    <3>1. c.comps[t] # NoRow /\ Stays(Decision(c, t), c.comps[t].decision)
      BY <2>1, <2>2 DEF Told, Final, Ready, Recorded, Resolved
    <3>2. c.comps[t].decision \in Opt(c.decisions)
      BY <2>2, <3>1 DEF Told, Sound, Inv, Linked
    <3>3. c.comps[t].decision # NULL => log[c.comps[t].decision].trig = t
      BY <2>2, <3>1 DEF Told, From, CompsFrom
    <3>4. c.comps[t].decision # NULL => Decision(c, t) # NULL
      BY <2>2, <3>2, <3>3, DecisionTold DEF Opt
    <3> QED BY <3>1, <3>4 DEF Stays
  <2>3. PICK m \in 1 .. Len(log) : SameRow(m, i) /\ \A j \in Later(m) : ~SameRow(m, j)
    BY <1>1, SameLast
  <2>4. ASSUME NEW c, Told(c) PROVE c.comps[t].status = log[m].status
    <3>1. StatusesSettled(c, Len(log)) /\ log[m].kind = "composition" /\ log[m].trig = t
      BY <2>1, <2>3, <2>4 DEF Told, Final, SameRow
    <3> QED BY <2>3, <3>1 DEF StatusesSettled
  <2> QED BY <1>2, <2>2, <2>4
<1>3. ASSUME NEW t \in Triggers PROVE d.comps[t] = e.comps[t]
  <2>1. d.comps[t] \in CompRows \cup {NoRow} /\ e.comps[t] \in CompRows \cup {NoRow}
    BY <1>1 DEF Table
  <2>2. CASE d.comps[t] = NoRow
    BY <1>2, <2>2
  <2>3. CASE d.comps[t] # NoRow
    <3>1. /\ e.comps[t] # NoRow /\ d.comps[t].decision = e.comps[t].decision
          /\ d.comps[t].status = e.comps[t].status
      BY <1>2, <2>3, DecisionTold
    <3> QED BY <2>1, <2>3, <3>1 DEF CompRows
  <2> QED BY <2>2, <2>3
<1> QED BY <1>1, <1>3 DEF Table

LEMMA RunsTold ==
    ASSUME Control, NEW d, Told(d), NEW e, Told(e)
    PROVE  d.runs = e.runs
<1>1. /\ d.runs \in Table(Triggers, RunRows) /\ e.runs \in Table(Triggers, RunRows)
      /\ Len(log) \in Nat
  BY DatabaseFields DEF Told, Sound, Inv, Control
<1>2. ASSUME NEW a, Told(a), NEW b, Told(b), NEW t \in Triggers, a.runs[t] # NoRow
      PROVE  /\ b.runs[t] # NoRow
             /\ a.runs[t].decision = b.runs[t].decision /\ a.runs[t].comp = b.runs[t].comp
             /\ a.runs[t].status = b.runs[t].status
             /\ Stays(a.runs[t].target, b.runs[t].target) /\ Stays(a.runs[t].sys, b.runs[t].sys)
  <2>1. PICK i \in 1 .. Len(log) : log[i].kind = "ad_run" /\ log[i].trig = t
    BY <1>2 DEF Told, From, RunsFrom
  <2>2. ASSUME NEW c, Told(c)
        PROVE  /\ c.runs[t] # NoRow /\ c.runs[t].decision = Decision(c, t)
               /\ c.runs[t].comp = IF c.comps[t] # NoRow THEN t ELSE NULL
    <3>1. /\ c.runs[t] # NoRow /\ Stays(Decision(c, t), c.runs[t].decision)
          /\ c.comps[t] # NoRow => c.runs[t].comp = t
      BY <2>1, <2>2 DEF Told, Final, Ready, Recorded, Resolved
    <3>2. /\ c.runs[t].decision \in Opt(c.decisions)
          /\ c.runs[t].comp # NULL => c.comps[t] # NoRow
      BY <2>2, <3>1 DEF Told, Sound, Inv, Linked
    <3>3. c.runs[t].decision # NULL => log[c.runs[t].decision].trig = t
      BY <2>2, <3>1 DEF Told, From, RunsFrom
    <3>4. c.runs[t].decision # NULL => Decision(c, t) # NULL
      BY <2>2, <3>2, <3>3, DecisionTold DEF Opt
    <3> QED BY <3>1, <3>2, <3>4 DEF Stays
  <2>3. a.comps = b.comps /\ Decision(a, t) = Decision(b, t)
    BY <1>2, CompsTold, DecisionTold
  <2>4. PICK m \in 1 .. Len(log) : SameRow(m, i) /\ \A j \in Later(m) : ~SameRow(m, j)
    BY <1>1, SameLast
  <2>5. ASSUME NEW c, Told(c) PROVE c.runs[t].status = log[m].status
    <3>1. StatusesSettled(c, Len(log)) /\ log[m].kind = "ad_run" /\ log[m].trig = t
      BY <2>1, <2>4, <2>5 DEF Told, Final, SameRow
    <3> QED BY <2>4, <3>1 DEF StatusesSettled
  <2>6. Stays(a.runs[t].target, b.runs[t].target)
    <3> SUFFICES ASSUME a.runs[t].target # NULL PROVE b.runs[t].target = a.runs[t].target
      BY DEF Stays
    <3>1. PICK j \in 1 .. Len(log) :
              log[j].kind = "ad_run" /\ log[j].trig = t /\ log[j].target = a.runs[t].target
      BY <1>2 DEF Told, From, RunsFrom
    <3>2. Recorded(b, j)
      BY <1>2 DEF Told, Final, Ready
    <3> QED BY <3>1, <3>2 DEF Recorded, Stays
  <2>7. Stays(a.runs[t].sys, b.runs[t].sys)
    <3> SUFFICES ASSUME a.runs[t].sys # NULL PROVE b.runs[t].sys = a.runs[t].sys
      BY DEF Stays
    <3> DEFINE T == {j \in 1 .. Len(log) :
                        log[j].kind = "ad_run" /\ log[j].trig = t /\ ScopeOf(j) # NULL}
    <3>1. T # {}
      BY <1>2 DEF Told, From, RunsFrom
    <3>2. PICK k \in T : \A j \in Later(k) : j \notin T
      BY <1>1, <3>1, LastOne
    <3>3. \A j \in Later(k) : j \in 1 .. Len(log)
      BY DEF Later
    <3>4. \A j \in Later(k) : SameRow(k, j) => ScopeOf(j) = NULL
      BY <3>2, <3>3 DEF SameRow
    <3>5. ASSUME NEW c, Told(c) PROVE c.runs[t].sys = ScopeOf(k)
      <4>1. StatusesSettled(c, Len(log))
        BY <3>5 DEF Told, Final
      <4> QED BY <3>2, <3>4, <4>1 DEF StatusesSettled
    <3> QED BY <1>2, <3>5
  <2> QED BY <1>2, <2>2, <2>3, <2>5, <2>6, <2>7
<1>3. ASSUME NEW t \in Triggers PROVE d.runs[t] = e.runs[t]
  <2>1. d.runs[t] \in RunRows \cup {NoRow} /\ e.runs[t] \in RunRows \cup {NoRow}
    BY <1>1 DEF Table
  <2>2. CASE d.runs[t] = NoRow
    BY <1>2, <2>2
  <2>3. CASE d.runs[t] # NoRow
    <3>1. /\ e.runs[t] # NoRow
          /\ d.runs[t].decision = e.runs[t].decision /\ d.runs[t].comp = e.runs[t].comp
          /\ d.runs[t].status = e.runs[t].status
          /\ Stays(d.runs[t].target, e.runs[t].target) /\ Stays(d.runs[t].sys, e.runs[t].sys)
      BY <1>2, <2>3
    <3>2. Stays(e.runs[t].target, d.runs[t].target) /\ Stays(e.runs[t].sys, d.runs[t].sys)
      BY <1>2, <3>1
    <3>3. d.runs[t].target = e.runs[t].target /\ d.runs[t].sys = e.runs[t].sys
      BY <3>1, <3>2 DEF Stays
    <3> QED BY <2>1, <2>3, <3>1, <3>3 DEF RunRows
  <2> QED BY <2>2, <2>3
<1> QED BY <1>1, <1>3 DEF Table

LEMMA PlaysTold ==
    ASSUME Control, NEW d, Told(d), NEW e, Told(e)
    PROVE  d.plays = e.plays
<1>1. /\ d.plays \in Table(Playbacks, PlayRows) /\ e.plays \in Table(Playbacks, PlayRows)
      /\ Len(log) \in Nat
  BY DatabaseFields DEF Told, Sound, Inv, Control
<1>2. ASSUME NEW a, Told(a), NEW b, Told(b), NEW p \in Playbacks, a.plays[p] # NoRow
      PROVE  /\ b.plays[p] # NoRow
             /\ a.plays[p].run = b.plays[p].run /\ a.plays[p].sys = b.plays[p].sys
             /\ a.plays[p].status = b.plays[p].status
             /\ Stays(a.plays[p].start, b.plays[p].start) /\ Stays(a.plays[p].end, b.plays[p].end)
  <2>1. PICK i \in 1 .. Len(log) : log[i].kind = "playback" /\ PlayOf(i) = p
    BY <1>2 DEF Told, From, PlaysFrom
  <2> DEFINE of == PlayedRun(log[i])
  <2>2. log[i] \in Alphabet /\ p = <<log[i].trig, log[i].screen>> /\ ScopeOf(i) = Scope(p[2])
    BY <2>1, EventPlaces, EventColumns, NullAssumption DEF ScopeOf, PlayOf
  <2>3. ASSUME NEW c, Told(c)
        PROVE  /\ c.plays[p] # NoRow /\ c.plays[p].sys = Scope(p[2])
               /\ c.plays[p].run = IF c.runs[of] # NoRow THEN of ELSE NULL
    <3>1. Recorded(c, i) /\ Resolved(c, i)
      BY <2>3 DEF Told, Final, Ready
    <3>2. /\ c.plays[p] # NoRow /\ Stays(Scope(p[2]), c.plays[p].sys)
          /\ c.runs[of] # NoRow => c.plays[p].run = of
      <4>1. /\ c.plays[PlayOf(i)] # NoRow /\ Stays(ScopeOf(i), c.plays[PlayOf(i)].sys)
        BY <2>1, <3>1 DEF Recorded
      <4>2. c.runs[of] # NoRow => c.plays[PlayOf(i)].run = of
        BY <2>1, <3>1 DEF Resolved
      <4> QED BY <2>1, <2>2, <4>1, <4>2
    <3>3. c.plays[p].sys \in Opt({Scope(p[2])})
      BY <2>3, <3>2 DEF Told, From, PlaysFrom
    <3>4. /\ c.plays[p].run \in Opt({of})
          /\ c.plays[p].run # NULL => c.runs[c.plays[p].run] # NoRow
      BY <2>1, <2>2, <2>3, <3>2 DEF Told, Sound, Inv, PlayInv, Linked
    <3> HIDE DEF of
    <3> QED BY <3>2, <3>3, <3>4 DEF Stays, Opt
  <2>4. a.runs = b.runs
    BY <1>2, RunsTold
  <2>5. PICK m \in 1 .. Len(log) : SameRow(m, i) /\ \A j \in Later(m) : ~SameRow(m, j)
    BY <1>1, SameLast
  <2>6. ASSUME NEW c, Told(c) PROVE c.plays[p].status = log[m].status
    <3>1. StatusesSettled(c, Len(log)) /\ log[m].kind = "playback" /\ PlayOf(m) = p
      BY <2>1, <2>5, <2>6 DEF Told, Final, SameRow, PlayOf
    <3> QED BY <2>5, <3>1 DEF StatusesSettled
  <2>7. Stays(a.plays[p].start, b.plays[p].start)
    <3> SUFFICES ASSUME a.plays[p].start # NULL PROVE b.plays[p].start = a.plays[p].start
      BY DEF Stays
    <3>1. PICK j \in 1 .. Len(log) :
              log[j].kind = "playback" /\ PlayOf(j) = p /\ log[j].start = a.plays[p].start
      BY <1>2 DEF Told, From, PlaysFrom
    <3>2. Recorded(b, j)
      BY <1>2 DEF Told, Final, Ready
    <3> QED BY <3>1, <3>2 DEF Recorded, Stays
  <2>8. Stays(a.plays[p].end, b.plays[p].end)
    <3> SUFFICES ASSUME a.plays[p].end # NULL PROVE b.plays[p].end = a.plays[p].end
      BY DEF Stays
    <3>1. PICK j \in 1 .. Len(log) :
              log[j].kind = "playback" /\ PlayOf(j) = p /\ log[j].end = a.plays[p].end
      BY <1>2 DEF Told, From, PlaysFrom
    <3>2. Recorded(b, j)
      BY <1>2 DEF Told, Final, Ready
    <3> QED BY <3>1, <3>2 DEF Recorded, Stays
  <2> HIDE DEF of
  <2> QED BY <1>2, <2>3, <2>4, <2>6, <2>7, <2>8
<1>3. ASSUME NEW p \in Playbacks PROVE d.plays[p] = e.plays[p]
  <2>1. d.plays[p] \in PlayRows \cup {NoRow} /\ e.plays[p] \in PlayRows \cup {NoRow}
    BY <1>1 DEF Table
  <2>2. CASE d.plays[p] = NoRow
    BY <1>2, <2>2
  <2>3. CASE d.plays[p] # NoRow
    <3>1. /\ e.plays[p] # NoRow
          /\ d.plays[p].run = e.plays[p].run /\ d.plays[p].sys = e.plays[p].sys
          /\ d.plays[p].status = e.plays[p].status
          /\ Stays(d.plays[p].start, e.plays[p].start) /\ Stays(d.plays[p].end, e.plays[p].end)
      BY <1>2, <2>3
    <3>2. Stays(e.plays[p].start, d.plays[p].start) /\ Stays(e.plays[p].end, d.plays[p].end)
      BY <1>2, <3>1
    <3>3. d.plays[p].start = e.plays[p].start /\ d.plays[p].end = e.plays[p].end
      BY <3>1, <3>2 DEF Stays
    <3> QED BY <2>1, <2>3, <3>1, <3>3 DEF PlayRows
  <2> QED BY <2>2, <2>3
<1> QED BY <1>1, <1>3 DEF Table

(* The same observations, ad_runs and playbacks derive the same exposures. *)
LEMMA DerivedAlike ==
    ASSUME Control, NEW d, Told(d), NEW e, Told(e), NEW x \in Exposures, NEW i \in 1 .. Len(log)
    PROVE  /\ Writes(d, i, x) <=> Writes(e, i, x)
           /\ Writes(d, i, x) =>
                 /\ Role(d, Window(d, i), x) = Role(e, Window(e, i), x)
                 /\ WatchedBy(d, Window(d, i), x) = WatchedBy(e, Window(e, i), x)
                 /\ ProbableBy(d, Window(d, i), x) = ProbableBy(e, Window(e, i), x)
<1>1. /\ d.obs = e.obs /\ d.runs = e.runs /\ d.plays = e.plays /\ d.stamp = e.stamp
  BY ObsTold, RunsTold, PlaysTold, StampsTold
<1>2. SameView(d, e) /\ Window(d, i) = Window(e, i) /\ (Derives(d, i) <=> Derives(e, i))
  BY <1>1 DEF SameView, Window, Derives
<1>3. CASE Derives(d, i)
  BY <1>2, <1>3, WritesAlike
<1>4. CASE ~Derives(d, i)
  BY <1>2, <1>4 DEF Writes
<1> QED BY <1>3, <1>4

LEMMA ExpoTold ==
    ASSUME Control, NEW d, Told(d), NEW e, Told(e)
    PROVE  d.expo = e.expo
<1>1. /\ d.expo \in Table(Exposures, ExpoRows) /\ e.expo \in Table(Exposures, ExpoRows)
      /\ Len(log) \in Nat
  BY DatabaseFields DEF Told, Sound, Inv, Control
<1>2. ASSUME NEW a, Told(a), NEW b, Told(b), NEW x \in Exposures, a.expo[x] # NoRow
      PROVE  /\ b.expo[x] # NoRow
             /\ a.expo[x].play = b.expo[x].play /\ a.expo[x].role = b.expo[x].role
             /\ Stays(a.expo[x].watched, b.expo[x].watched)
             /\ Stays(a.expo[x].prob, b.expo[x].prob)
  <2>1. /\ \E i \in 1 .. Len(log) : Writes(a, i, x)
        /\ a.expo[x].watched # NULL =>
              \E i \in 1 .. Len(log) : Writes(a, i, x) /\ WatchedBy(a, Window(a, i), x) # NULL
        /\ a.expo[x].prob # NULL =>
              \E i \in 1 .. Len(log) : Writes(a, i, x) /\ ProbableBy(a, Window(a, i), x) # NULL
    BY <1>2 DEF Told, From, ExpoFrom
  <2>2. ASSUME NEW i \in 1 .. Len(log)
        PROVE  /\ Writes(a, i, x) <=> Writes(b, i, x)
               /\ Writes(a, i, x) =>
                     /\ Role(a, Window(a, i), x) = Role(b, Window(b, i), x)
                     /\ WatchedBy(a, Window(a, i), x) = WatchedBy(b, Window(b, i), x)
                     /\ ProbableBy(a, Window(a, i), x) = ProbableBy(b, Window(b, i), x)
    BY <1>2, DerivedAlike
  <2>3. ASSUME NEW c, Told(c), NEW i \in 1 .. Len(log), Writes(c, i, x)
        PROVE  ExposureSettled(c, i, x)
    BY <2>3 DEF Told, Final, ExposuresSettled
  <2>4. \A i \in 1 .. Len(log) : \A j \in Later(i) : j \in 1 .. Len(log)
    BY DEF Later
  <2>5. /\ b.expo[x] # NoRow
        /\ a.expo[x].play = b.expo[x].play /\ a.expo[x].role = b.expo[x].role
    <3> DEFINE T == {i \in 1 .. Len(log) : Writes(a, i, x)}
    <3>1. PICK m \in T : \A j \in Later(m) : j \notin T
      BY <1>1, <2>1, LastOne
    <3>2. \A j \in Later(m) : ~Writes(a, j, x) /\ ~Writes(b, j, x)
      BY <2>2, <2>4, <3>1
    <3>3. ExposureSettled(a, m, x) /\ ExposureSettled(b, m, x)
      BY <1>2, <2>2, <2>3, <3>1
    <3> QED BY <2>2, <3>1, <3>2, <3>3 DEF ExposureSettled
  <2>6. Stays(a.expo[x].watched, b.expo[x].watched)
    <3> SUFFICES ASSUME a.expo[x].watched # NULL PROVE b.expo[x].watched = a.expo[x].watched
      BY DEF Stays
    <3> DEFINE T == {i \in 1 .. Len(log) :
                        Writes(a, i, x) /\ WatchedBy(a, Window(a, i), x) # NULL}
    <3>1. PICK m \in T : \A j \in Later(m) : j \notin T
      BY <1>1, <2>1, LastOne
    <3>2. \A j \in Later(m) : /\ Writes(a, j, x) => WatchedBy(a, Window(a, j), x) = NULL
                              /\ Writes(b, j, x) => WatchedBy(b, Window(b, j), x) = NULL
      BY <2>2, <2>4, <3>1
    <3>3. ExposureSettled(a, m, x) /\ ExposureSettled(b, m, x)
      BY <1>2, <2>2, <2>3, <3>1
    <3> QED BY <2>2, <3>1, <3>2, <3>3 DEF ExposureSettled
  <2>7. Stays(a.expo[x].prob, b.expo[x].prob)
    <3> SUFFICES ASSUME a.expo[x].prob # NULL PROVE b.expo[x].prob = a.expo[x].prob
      BY DEF Stays
    <3> DEFINE T == {i \in 1 .. Len(log) :
                        Writes(a, i, x) /\ ProbableBy(a, Window(a, i), x) # NULL}
    <3>1. PICK m \in T : \A j \in Later(m) : j \notin T
      BY <1>1, <2>1, LastOne
    <3>2. \A j \in Later(m) : /\ Writes(a, j, x) => ProbableBy(a, Window(a, j), x) = NULL
                              /\ Writes(b, j, x) => ProbableBy(b, Window(b, j), x) = NULL
      BY <2>2, <2>4, <3>1
    <3>3. ExposureSettled(a, m, x) /\ ExposureSettled(b, m, x)
      BY <1>2, <2>2, <2>3, <3>1
    <3> QED BY <2>2, <3>1, <3>2, <3>3 DEF ExposureSettled
  <2> QED BY <2>5, <2>6, <2>7
<1>3. ASSUME NEW x \in Exposures PROVE d.expo[x] = e.expo[x]
  <2>1. d.expo[x] \in ExpoRows \cup {NoRow} /\ e.expo[x] \in ExpoRows \cup {NoRow}
    BY <1>1 DEF Table
  <2>2. CASE d.expo[x] = NoRow
    BY <1>2, <2>2
  <2>3. CASE d.expo[x] # NoRow
    <3>1. /\ e.expo[x] # NoRow
          /\ d.expo[x].play = e.expo[x].play /\ d.expo[x].role = e.expo[x].role
          /\ Stays(d.expo[x].watched, e.expo[x].watched) /\ Stays(d.expo[x].prob, e.expo[x].prob)
      BY <1>2, <2>3
    <3>2. Stays(e.expo[x].watched, d.expo[x].watched) /\ Stays(e.expo[x].prob, d.expo[x].prob)
      BY <1>2, <3>1
    <3>3. d.expo[x].watched = e.expo[x].watched /\ d.expo[x].prob = e.expo[x].prob
      BY <3>1, <3>2 DEF Stays
    <3> QED BY <2>1, <2>3, <3>1, <3>3 DEF ExpoRows
  <2> QED BY <2>2, <2>3
<1> QED BY <1>1, <1>3 DEF Table

(* docs/projector-replay.md: the projection is recomputable from the log.  *)
(* However often the cursor was set back and however far it came each      *)
(* time, the tables are those of one fold from empty ones.                 *)
THEOREM RecomputableFromTheLogHolds == Spec => []RecomputableFromTheLog
<1>1. IInv /\ PassedRecorded /\ PassedSettled /\ PassedFrom => RecomputableFromTheLog
  <2> SUFFICES ASSUME IInv, PassedRecorded, PassedSettled, PassedFrom,
                      InOrder, drifts = 0, cursor = Len(log)
               PROVE  db = Refold(Empty)
    BY DEF RecomputableFromTheLog
  <2> DEFINE new == Refold(Empty)
  <2>1. Control /\ Sound(db) /\ Len(log) \in Nat
    BY DEF IInv, TypeOK, Control
  <2>2. Final(db)
    BY DEF PassedRecorded, PassedSettled, Final, Ready
  <2>3. From(db, Len(log))
    BY <2>1 DEF PassedFrom
  <2>4. Told(db) /\ Told(new)
    BY <2>1, <2>2, <2>3, RebuildSettles DEF Told
  <2> HIDE DEF new
  <2>5. /\ db.tracks = new.tracks /\ db.obs = new.obs /\ db.matches = new.matches
        /\ db.decisions = new.decisions /\ db.comps = new.comps /\ db.runs = new.runs
        /\ db.plays = new.plays /\ db.expo = new.expo /\ db.stamp = new.stamp
    BY <2>1, <2>4, TracksTold, ObsTold, SetsTold, CompsTold, RunsTold, PlaysTold, ExpoTold, StampsTold
  <2>6. db \in Databases /\ new \in Databases
    BY <2>4 DEF Told, Sound, Inv
  <2> QED BY <2>5, <2>6 DEF Databases, new
<1> QED BY <1>1, FromInvariant, PTL

=============================================================================
