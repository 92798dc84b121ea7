--------------------------- MODULE Projection_proofs ---------------------------
(***************************************************************************)
(* What the folds write, for any vocabulary of events, any devices and any *)
(* journal: folded in any order, again after a rewind, under a registry    *)
(* that moves.                                                             *)
(*                                                                         *)
(* One lemma per handler says that it keeps the tables in accordance with  *)
(* the journal (Inv) and only adds to what they know (Grows).  What an     *)
(* exposure rests on is among what never changes once it is known, so an   *)
(* exposure that was justified stays so (SoundStays); a derivation writes  *)
(* only justified ones (DeriveKeeps).                                      *)
(***************************************************************************)
EXTENDS Projection, WellFoundedInduction, TLAPS

-----------------------------------------------------------------------------
(* What a query with ORDER BY ... LIMIT 1 returns is one of its rows: ids  *)
(* and times are numbers, so there is a first one.                         *)
LEMMA LeastExists ==
    ASSUME NEW T \in SUBSET Nat, T # {}
    PROVE  \E m \in T : \A i \in T : m <= i
<1>1. PICK m \in T : \A i \in T : ~(<<i, m>> \in OpToRel(<, Nat))
  BY NatLessThanWellFounded, WFMin
<1>2. \A i \in T : ~(i < m)
  BY <1>1 DEF OpToRel
<1> QED
  BY <1>2

LEMMA GreatestExists ==
    ASSUME NEW b \in Nat, NEW T \in SUBSET (0 .. b), T # {}
    PROVE  \E m \in T : \A i \in T : i <= m
<1> DEFINE below == {b - i : i \in T}
<1>1. below \in SUBSET Nat /\ below # {}
  <2>1. \A i \in T : b - i \in Nat
    OBVIOUS
  <2> QED BY <2>1
<1>2. PICK x \in below : \A y \in below : x <= y
  BY <1>1, LeastExists
<1>3. PICK m \in T : x = b - m
  BY <1>2
<1>4. ASSUME NEW i \in T PROVE i <= m
  BY <1>2, <1>3
<1> QED BY <1>4

LEMMA FirstByUuid ==
    ASSUME NEW rows \in SUBSET Ids, rows # {}, descending \in BOOLEAN
    PROVE  \E r \in rows : \A o \in rows : o # r => UuidBefore(r, o)
<1>1. rows \in SUBSET Nat /\ rows \in SUBSET (0 .. MaxEvents) /\ MaxEvents \in Nat
  BY BoundsAssumption DEF Ids
<1>2. PICK least \in rows : \A o \in rows : least <= o
  BY <1>1, LeastExists
<1>3. PICK greatest \in rows : \A o \in rows : o <= greatest
  BY <1>1, GreatestExists
<1>4. CASE descending
  BY <1>1, <1>3, <1>4 DEF UuidBefore
<1>5. CASE ~descending
  BY <1>1, <1>2, <1>5 DEF UuidBefore
<1> QED BY <1>4, <1>5

LEMMA DecisionFound ==
    ASSUME descending \in BOOLEAN, NEW d, d.decisions \in SUBSET Ids, NEW t
    PROVE  Decision(d, t) \in Opt(d.decisions)
<1> DEFINE rows == {i \in d.decisions : log[i].trig = t}
<1>1. CASE rows = {}
  BY <1>1 DEF Decision, First, Opt
<1>2. CASE rows # {}
  <2>1. \E r \in rows : \A o \in rows : o # r => UuidBefore(r, o)
    BY <1>2, FirstByUuid
  <2>2. Decision(d, t) \in rows
    BY <1>2, <2>1 DEF Decision, First
  <2> QED BY <2>2 DEF Opt
<1> QED BY <1>1, <1>2

LEMMA MatchFound ==
    ASSUME descending \in BOOLEAN, NEW d, NEW e, e.det \in Opt(Ids)
    PROVE  MatchedObservation(d, e) \in Opt({o \in Ids : d.obs[o] # NoRow})
<1> DEFINE rows == {o \in Ids : d.obs[o] # NoRow /\ d.obs[o].trig = e.trig}
<1>1. CASE e.det # NULL
  BY <1>1 DEF MatchedObservation, Opt
<1>2. CASE e.det = NULL /\ rows = {}
  BY <1>2 DEF MatchedObservation, First, Opt
<1>3. CASE e.det = NULL /\ rows # {}
  <2>1. \E r \in rows : \A o \in rows : o # r => UuidBefore(r, o)
    BY <1>3, FirstByUuid
  <2>2. MatchedObservation(d, e) \in rows
    BY <1>3, <2>1 DEF MatchedObservation, First
  <2> QED BY <2>2 DEF Opt
<1> QED BY <1>1, <1>2, <1>3

(* The first row by time and, among those of one time, by some order of    *)
(* the uuids.                                                              *)
LEMMA FirstByTime ==
    ASSUME NEW rows \in SUBSET Ids, rows # {}, NEW time \in [rows -> Nat], NEW before,
           \A T \in SUBSET Ids : T # {} =>
               \E r \in T : \A o \in T : o # r => <<r, o>> \in before
    PROVE  \E r \in rows : \A o \in rows : o # r =>
               time[r] < time[o] \/ (time[r] = time[o] /\ <<r, o>> \in before)
<1> DEFINE times == {time[r] : r \in rows}
<1>1. PICK t \in times : \A u \in times : t <= u
  <2>1. times \in SUBSET Nat /\ times # {}
    OBVIOUS
  <2> QED BY <2>1, LeastExists
<1> DEFINE ties == {r \in rows : time[r] = t}
<1>2. ties \in SUBSET Ids /\ ties # {}
  BY <1>1
<1>3. PICK r \in ties : \A o \in ties : o # r => <<r, o>> \in before
  BY <1>2
<1>4. ASSUME NEW o \in rows, o # r
      PROVE  time[r] < time[o] \/ (time[r] = time[o] /\ <<r, o>> \in before)
  <2>1. time[o] \in Nat /\ time[r] = t /\ t \in Nat /\ t <= time[o]
    BY <1>1, <1>3
  <2>2. CASE time[o] = t
    BY <1>3, <1>4, <2>1, <2>2
  <2>3. CASE time[o] # t
    BY <2>1, <2>3
  <2> QED BY <2>2, <2>3
<1> QED BY <1>3, <1>4

LEMMA LastByUuid ==
    ASSUME NEW rows \in SUBSET Ids, rows # {}, descending \in BOOLEAN
    PROVE  \E r \in rows : \A o \in rows : o # r => UuidBefore(o, r)
<1>1. rows \in SUBSET Nat /\ rows \in SUBSET (0 .. MaxEvents) /\ MaxEvents \in Nat
  BY BoundsAssumption DEF Ids
<1>2. PICK least \in rows : \A o \in rows : least <= o
  BY <1>1, LeastExists
<1>3. PICK greatest \in rows : \A o \in rows : o <= greatest
  BY <1>1, GreatestExists
<1>4. CASE descending
  BY <1>1, <1>2, <1>4 DEF UuidBefore
<1>5. CASE ~descending
  BY <1>1, <1>3, <1>5 DEF UuidBefore
<1> QED BY <1>4, <1>5

-----------------------------------------------------------------------------
Control == log \in Seq(Alphabet) /\ Len(log) <= MaxEvents /\ descending \in BOOLEAN

(* An observation repeats its event, a playback and an ad_run agree with   *)
(* every event of theirs, and a scope is that of the own device.           *)
ObsInv(d) ==
    \A i \in Ids : d.obs[i] # NoRow =>
        /\ i <= Len(log) /\ log[i].kind = "detection"
        /\ d.obs[i].trig = log[i].trig /\ d.obs[i].at = log[i].ts /\ d.obs[i].subj = log[i].subj
        /\ d.obs[i].track = log[i].track /\ d.obs[i].att = log[i].att
        /\ d.obs[i].sys \in Opt({SystemOf[log[i].screen]})
PlayInv(d) ==
    \A p \in Playbacks : d.plays[p] # NoRow =>
        /\ d.plays[p].sys \in Opt({SystemOf[p[2]]})
        /\ \A e \in Alphabet : e.kind = "playback" /\ p = <<e.trig, e.screen>> =>
              /\ d.plays[p].run \in Opt({PlayedRun(e)})
              /\ Agree(d.plays[p].start, e.start) /\ Agree(d.plays[p].end, e.end)
RunInv(d) ==
    \A t \in Triggers : d.runs[t] # NoRow =>
        \A e \in Alphabet : e.kind = "ad_run" /\ e.trig = t => Agree(d.runs[t].target, e.target)
Inv(d) == d \in Databases /\ Linked(d) /\ ObsInv(d) /\ PlayInv(d) /\ RunInv(d)

(* What n keeps of d: Stays for a column that keeps its value once it has  *)
(* one, Known for one that keeps having a value.                           *)
Stays(a, b) == a # NULL => b = a
Known(a, b) == a # NULL => b # NULL
Grows(d, n) ==
    /\ \A k \in Screens \X Tracks : d.tracks[k] # NoRow =>
          n.tracks[k] # NoRow /\ Known(d.tracks[k].sys, n.tracks[k].sys)
    /\ \A i \in Ids : d.obs[i] # NoRow =>
          /\ n.obs[i] # NoRow /\ n.obs[i].trig = d.obs[i].trig /\ n.obs[i].at = d.obs[i].at
          /\ n.obs[i].subj = d.obs[i].subj /\ n.obs[i].track = d.obs[i].track
          /\ n.obs[i].att = d.obs[i].att /\ Stays(d.obs[i].sys, n.obs[i].sys)
    /\ d.matches \subseteq n.matches /\ d.decisions \subseteq n.decisions
    /\ \A t \in Triggers : d.comps[t] # NoRow =>
          n.comps[t] # NoRow /\ Known(d.comps[t].decision, n.comps[t].decision)
    /\ \A t \in Triggers : d.runs[t] # NoRow =>
          /\ n.runs[t] # NoRow /\ Known(d.runs[t].decision, n.runs[t].decision)
          /\ Known(d.runs[t].comp, n.runs[t].comp) /\ Known(d.runs[t].sys, n.runs[t].sys)
          /\ Stays(d.runs[t].target, n.runs[t].target)
    /\ \A p \in Playbacks : d.plays[p] # NoRow =>
          /\ n.plays[p] # NoRow
          /\ Stays(d.plays[p].run, n.plays[p].run) /\ Stays(d.plays[p].sys, n.plays[p].sys)
          /\ Stays(d.plays[p].start, n.plays[p].start) /\ Stays(d.plays[p].end, n.plays[p].end)
    /\ \A x \in Exposures : d.expo[x] # NoRow =>
          /\ n.expo[x] # NoRow /\ Known(d.expo[x].watched, n.expo[x].watched)
          /\ Known(d.expo[x].prob, n.expo[x].prob)
Kept(d, n) == Inv(n) /\ Grows(d, n) /\ n.expo = d.expo /\ n.stamp = d.stamp

-----------------------------------------------------------------------------
(* The columns of the tables and of the events.                            *)
LEMMA DatabaseFields ==
    ASSUME NEW d \in Databases
    PROVE  /\ d.tracks \in Table(Screens \X Tracks, TrackRows)
           /\ d.obs \in Table(Ids, ObsRows)
           /\ d.matches \in SUBSET Ids /\ d.decisions \in SUBSET Ids
           /\ d.comps \in Table(Triggers, CompRows)
           /\ d.runs \in Table(Triggers, RunRows)
           /\ d.plays \in Table(Playbacks, PlayRows)
           /\ d.expo \in Table(Exposures, ExpoRows)
           /\ d.stamp \in [Ids -> Opt(Systems)]
BY DEF Databases

LEMMA EventColumns ==
    ASSUME NEW e \in Alphabet
    PROVE  /\ e.kind = "track" => e.screen \in Screens /\ e.track \in Tracks /\ e.count \in Nat
           /\ e.kind = "detection" => /\ e.screen \in Screens /\ e.trig \in Opt(Triggers)
                                      /\ e.subj \in Opt(Subjects) /\ e.track \in Opt(Tracks)
                                      /\ e.ts \in Nat /\ e.att \in Opt(0 .. Whole)
           /\ e.kind = "gaze" => e.screen \in Screens /\ e.ts \in Nat /\ e.frac \in Opt(0 .. Whole)
           /\ e.kind = "match" => e.screen = NULL /\ e.trig \in Triggers /\ e.det \in Opt(Ids)
           /\ e.kind = "decision" => e.screen = NULL /\ e.trig \in Triggers
           /\ e.kind = "composition" => e.screen = NULL /\ e.trig \in Triggers /\ e.status \in CompStatus
           /\ e.kind = "ad_run" => /\ e.screen \in Opt(Screens) /\ e.trig \in Triggers
                                   /\ e.target \in Opt(Subjects) /\ e.status \in RunStatus
           /\ e.kind = "playback" => /\ e.screen \in Screens /\ e.trig \in Triggers
                                     /\ e.of \in Opt(Triggers) /\ e.start \in Opt(Nat)
                                     /\ e.end \in Opt(Nat) /\ e.status \in PlayStatus
           /\ e.kind \in {"track", "detection", "gaze", "match", "decision", "composition", "ad_run",
                          "playback"}
BY AlphabetAssumption DEF Events

-----------------------------------------------------------------------------
(* The handlers, one by one.                                               *)
LEMMA TrackKeeps ==
    ASSUME Control, NEW d, Inv(d), NEW e \in Alphabet, e.kind = "track", NEW sys \in Opt(Systems)
    PROVE  Kept(d, HandleTrack(d, e, sys))
<1> DEFINE k == <<e.screen, e.track>>
           old == d.tracks[k]
           row == IF old = NoRow THEN [sys |-> sys, count |-> e.count]
                  ELSE [sys |-> Coalesce(sys, old.sys), count |-> Larger(e.count, old.count)]
           n == HandleTrack(d, e, sys)
<1>1. /\ k \in Screens \X Tracks /\ e.count \in Nat /\ d \in Databases
      /\ old \in TrackRows \cup {NoRow}
  BY EventColumns, DatabaseFields DEF Inv, Table
<1>2. row \in TrackRows /\ row # NoRow /\ (old # NoRow => Known(old.sys, row.sys))
  BY <1>1, NoRowAssumption DEF TrackRows, Coalesce, Larger, Known, Opt
<1>3. n = [d EXCEPT !.tracks[k] = row]
  BY DEF HandleTrack
<1> HIDE DEF row, n
<1>4. /\ n \in Databases /\ n.tracks = [d.tracks EXCEPT ![k] = row]
      /\ n.obs = d.obs /\ n.matches = d.matches /\ n.decisions = d.decisions
      /\ n.comps = d.comps /\ n.runs = d.runs /\ n.plays = d.plays
      /\ n.expo = d.expo /\ n.stamp = d.stamp
  BY <1>1, <1>2, <1>3 DEF Databases, Table
<1>5. Inv(n)
  <2>1. Linked(n)
    BY <1>4 DEF Inv, Linked
  <2>2. ObsInv(n)
    BY <1>4 DEF Inv, ObsInv
  <2>3. PlayInv(n) /\ RunInv(n)
    BY <1>4 DEF Inv, PlayInv, RunInv
  <2> QED BY <1>4, <2>1, <2>2, <2>3 DEF Inv
<1>6. \A j \in Screens \X Tracks : d.tracks[j] # NoRow =>
          n.tracks[j] # NoRow /\ Known(d.tracks[j].sys, n.tracks[j].sys)
  BY <1>1, <1>2, <1>4, DatabaseFields DEF Table, Known
<1>7. Grows(d, n)
  BY <1>4, <1>6 DEF Grows, Stays, Known
<1> QED BY <1>4, <1>5, <1>7 DEF Kept, n

LEMMA DetectionKeeps ==
    ASSUME Control, NEW d, Inv(d), NEW i \in 1 .. Len(log), log[i].kind = "detection",
           NEW sys \in Opt({SystemOf[log[i].screen]})
    PROVE  Kept(d, HandleDetection(d, i, log[i], sys))
<1> DEFINE e == log[i]
           old == d.obs[i]
           hasTrack == e.track # NULL /\ d.tracks[<<e.screen, e.track>>] # NoRow
           row == [trig |-> e.trig, at |-> e.ts, subj |-> e.subj, track |-> e.track,
                   att |-> e.att,
                   sys |-> IF old = NoRow THEN sys ELSE Coalesce(sys, old.sys),
                   linked |-> hasTrack \/ (old # NoRow /\ old.linked)]
           n == HandleDetection(d, i, e, sys)
<1>1. /\ i \in Ids /\ e \in Alphabet /\ d \in Databases /\ old \in ObsRows \cup {NoRow}
  BY DatabaseFields, BoundsAssumption DEF Control, Inv, Table, Ids
<1>2. /\ e.screen \in Screens /\ e.trig \in Opt(Triggers) /\ e.subj \in Opt(Subjects)
      /\ e.track \in Opt(Tracks) /\ e.ts \in Nat /\ e.att \in Opt(0 .. Whole)
  BY <1>1, EventColumns
<1>3. sys \in Opt(Systems) /\ sys \in Opt({SystemOf[e.screen]})
  BY <1>2, ScreensAssumption DEF Opt
<1>4. old # NoRow => /\ old.trig = e.trig /\ old.at = e.ts /\ old.subj = e.subj
                     /\ old.track = e.track /\ old.att = e.att
                     /\ old.sys \in Opt({SystemOf[e.screen]})
  BY <1>1 DEF Inv, ObsInv
<1>5. row \in ObsRows
  <2>1. row.sys \in Opt(Systems)
    BY <1>1, <1>3 DEF ObsRows, Coalesce, Opt
  <2>2. row.linked \in BOOLEAN
    BY <1>1 DEF ObsRows
  <2> QED BY <1>2, <2>1, <2>2 DEF ObsRows
<1>6. /\ row.trig = e.trig /\ row.at = e.ts /\ row.subj = e.subj /\ row.track = e.track
      /\ row.att = e.att /\ row.sys \in Opt({SystemOf[e.screen]})
      /\ old # NoRow => Stays(old.sys, row.sys)
  BY <1>3, <1>4 DEF Coalesce, Opt, Stays
<1>7. n = [d EXCEPT !.obs[i] = row]
  BY DEF HandleDetection
<1>8. row # NoRow
  BY <1>5, NoRowAssumption
<1> HIDE DEF row, n
<1>9. /\ n \in Databases /\ n.obs = [d.obs EXCEPT ![i] = row]
      /\ n.tracks = d.tracks /\ n.matches = d.matches /\ n.decisions = d.decisions
      /\ n.comps = d.comps /\ n.runs = d.runs /\ n.plays = d.plays
      /\ n.expo = d.expo /\ n.stamp = d.stamp
  BY <1>1, <1>5, <1>7 DEF Databases, Table
<1>10. \A j \in Ids : n.obs[j] = IF j = i THEN row ELSE d.obs[j]
  BY <1>1, <1>9, DatabaseFields DEF Table
<1>11. Inv(n)
  <2>1. Linked(n)
    BY <1>9 DEF Inv, Linked
  <2>2. ObsInv(n)
    <3>1. i <= Len(log) /\ log[i].kind = "detection" /\ n.obs[i] = row
      BY <1>1, <1>10
    <3>2. \A j \in Ids : j # i => n.obs[j] = d.obs[j]
      BY <1>10
    <3> QED BY <1>6, <3>1, <3>2 DEF Inv, ObsInv
  <2>3. PlayInv(n) /\ RunInv(n)
    BY <1>9 DEF Inv, PlayInv, RunInv
  <2> QED BY <1>9, <2>1, <2>2, <2>3 DEF Inv
<1>12. \A j \in Ids : d.obs[j] # NoRow =>
          /\ n.obs[j] # NoRow /\ n.obs[j].trig = d.obs[j].trig /\ n.obs[j].at = d.obs[j].at
          /\ n.obs[j].subj = d.obs[j].subj /\ n.obs[j].track = d.obs[j].track
          /\ n.obs[j].att = d.obs[j].att /\ Stays(d.obs[j].sys, n.obs[j].sys)
  BY <1>4, <1>6, <1>8, <1>10 DEF Stays
<1>13. Grows(d, n)
  BY <1>9, <1>12 DEF Grows, Stays, Known
<1> QED BY <1>9, <1>11, <1>13 DEF Kept, n

LEMMA MatchKeeps ==
    ASSUME Control, NEW d, Inv(d), NEW e \in Alphabet, e.kind = "match"
    PROVE  Kept(d, HandleIdentityMatch(d, e))
<1> DEFINE o == MatchedObservation(d, e)
           n == HandleIdentityMatch(d, e)
<1>1. o \in Opt({j \in Ids : d.obs[j] # NoRow})
  BY EventColumns, MatchFound DEF Control
<1>2. CASE o = NULL
  BY <1>2 DEF HandleIdentityMatch, Kept, Grows, Stays, Known
<1>3. CASE o # NULL
  <2>1. o \in Ids /\ o <= Len(log) /\ o \in 1 .. Len(log) /\ d \in Databases
    BY <1>1, <1>3 DEF Inv, ObsInv, Opt, Ids
  <2>2. n = [d EXCEPT !.matches = @ \cup {o}]
    BY <1>3 DEF HandleIdentityMatch
  <2> HIDE DEF o, n
  <2>3. /\ n \in Databases /\ n.matches = d.matches \cup {o}
        /\ n.tracks = d.tracks /\ n.obs = d.obs /\ n.decisions = d.decisions
        /\ n.comps = d.comps /\ n.runs = d.runs /\ n.plays = d.plays
        /\ n.expo = d.expo /\ n.stamp = d.stamp
    BY <2>1, <2>2 DEF Databases
  <2>4. Inv(n)
    <3>1. Linked(n)
      BY <2>1, <2>3 DEF Inv, Linked
    <3>2. ObsInv(n)
      BY <2>3 DEF Inv, ObsInv
    <3>3. PlayInv(n) /\ RunInv(n)
      BY <2>3 DEF Inv, PlayInv, RunInv
    <3> QED BY <2>3, <3>1, <3>2, <3>3 DEF Inv
  <2>5. Grows(d, n)
    BY <2>3 DEF Grows, Stays, Known
  <2> QED BY <2>3, <2>4, <2>5 DEF Kept, n
<1> QED BY <1>2, <1>3

LEMMA DecisionKeeps ==
    ASSUME Control, NEW d, Inv(d), NEW i \in 1 .. Len(log)
    PROVE  Kept(d, HandleDecision(d, i))
<1> DEFINE n == HandleDecision(d, i)
<1>1. d \in Databases /\ i \in Ids
  BY BoundsAssumption DEF Control, Inv, Ids
<1>2. n = [d EXCEPT !.decisions = @ \cup {i}]
  BY DEF HandleDecision
<1> HIDE DEF n
<1>3. /\ n \in Databases /\ n.decisions = d.decisions \cup {i}
      /\ n.tracks = d.tracks /\ n.obs = d.obs /\ n.matches = d.matches
      /\ n.comps = d.comps /\ n.runs = d.runs /\ n.plays = d.plays
      /\ n.expo = d.expo /\ n.stamp = d.stamp
  BY <1>1, <1>2 DEF Databases
<1>4. Inv(n)
  <2>1. Linked(n)
    <3>1. \A v : v \in Opt(d.decisions) => v \in Opt(n.decisions)
      BY <1>3 DEF Opt
    <3>2. n.matches \cup n.decisions \subseteq 1 .. Len(log)
      BY <1>3 DEF Inv, Linked
    <3>3. \A t \in Triggers :
             /\ n.comps[t] # NoRow => n.comps[t].decision \in Opt(n.decisions)
             /\ n.runs[t] # NoRow => /\ n.runs[t].decision \in Opt(n.decisions)
                                     /\ n.runs[t].comp # NULL => n.comps[t] # NoRow
      <4> TAKE t \in Triggers
      <4>1. /\ d.comps[t] # NoRow => d.comps[t].decision \in Opt(d.decisions)
            /\ d.runs[t] # NoRow => /\ d.runs[t].decision \in Opt(d.decisions)
                                    /\ d.runs[t].comp # NULL => d.comps[t] # NoRow
        BY DEF Inv, Linked
      <4>2. n.comps = d.comps /\ n.runs = d.runs
        BY <1>3
      <4> QED BY <3>1, <4>1, <4>2
    <3> QED BY <1>3, <3>2, <3>3 DEF Inv, Linked
  <2>2. ObsInv(n)
    BY <1>3 DEF Inv, ObsInv
  <2>3. PlayInv(n) /\ RunInv(n)
    BY <1>3 DEF Inv, PlayInv, RunInv
  <2> QED BY <1>3, <2>1, <2>2, <2>3 DEF Inv
<1>5. Grows(d, n)
  BY <1>3 DEF Grows, Stays, Known
<1> QED BY <1>3, <1>4, <1>5 DEF Kept, n

LEMMA CompositionKeeps ==
    ASSUME Control, NEW d, Inv(d), NEW e \in Alphabet, e.kind = "composition"
    PROVE  Kept(d, HandleComposition(d, e))
<1> DEFINE t == e.trig
           old == d.comps[t]
           found == Decision(d, t)
           row == [decision |-> IF old = NoRow THEN found ELSE Coalesce(found, old.decision),
                   status |-> e.status]
           n == HandleComposition(d, e)
<1>1. /\ t \in Triggers /\ e.status \in CompStatus /\ d \in Databases
      /\ old \in CompRows \cup {NoRow}
  BY EventColumns, DatabaseFields DEF Inv, Table
<1>2. found \in Opt(d.decisions) /\ d.decisions \subseteq Ids
  BY <1>1, DatabaseFields, DecisionFound DEF Control
<1>3. old # NoRow => old.decision \in Opt(d.decisions)
  BY <1>1 DEF Inv, Linked
<1> HIDE DEF found
<1>4. /\ row \in CompRows /\ row.decision \in Opt(d.decisions)
      /\ old # NoRow => Known(old.decision, row.decision)
  BY <1>1, <1>2, <1>3 DEF CompRows, Coalesce, Known, Opt
<1>5. row # NoRow
  BY <1>4, NoRowAssumption
<1>6. n = [d EXCEPT !.comps[t] = row]
  BY DEF HandleComposition, found
<1> HIDE DEF row, n
<1>7. /\ n \in Databases /\ n.comps = [d.comps EXCEPT ![t] = row]
      /\ n.tracks = d.tracks /\ n.obs = d.obs /\ n.matches = d.matches
      /\ n.decisions = d.decisions /\ n.runs = d.runs /\ n.plays = d.plays
      /\ n.expo = d.expo /\ n.stamp = d.stamp
  BY <1>1, <1>4, <1>6 DEF Databases, Table
<1>8. \A u \in Triggers : n.comps[u] = IF u = t THEN row ELSE d.comps[u]
  BY <1>1, <1>7, DatabaseFields DEF Table
<1>9. Inv(n)
  <2>1. Linked(n)
    BY <1>4, <1>5, <1>7, <1>8 DEF Inv, Linked
  <2>2. ObsInv(n)
    BY <1>7 DEF Inv, ObsInv
  <2>3. PlayInv(n) /\ RunInv(n)
    BY <1>7 DEF Inv, PlayInv, RunInv
  <2> QED BY <1>7, <2>1, <2>2, <2>3 DEF Inv
<1>10. \A u \in Triggers : d.comps[u] # NoRow =>
          n.comps[u] # NoRow /\ Known(d.comps[u].decision, n.comps[u].decision)
  BY <1>4, <1>5, <1>8 DEF Known
<1>11. Grows(d, n)
  BY <1>7, <1>10 DEF Grows, Stays, Known
<1> QED BY <1>7, <1>9, <1>11 DEF Kept, n

LEMMA AdRunKeeps ==
    ASSUME Control, NEW d, Inv(d), NEW e \in Alphabet, e.kind = "ad_run", NEW sys \in Opt(Systems)
    PROVE  Kept(d, HandleAdRun(d, e, sys))
<1> DEFINE t == e.trig
           old == d.runs[t]
           found == Decision(d, t)
           new == [decision |-> found, target |-> e.target, sys |-> sys,
                   comp |-> IF d.comps[t] # NoRow THEN t ELSE NULL]
           kept == [c \in DOMAIN new |-> IF old = NoRow THEN new[c] ELSE Coalesce(new[c], old[c])]
           row == [decision |-> kept.decision, target |-> kept.target, sys |-> kept.sys,
                   comp |-> kept.comp, status |-> e.status]
           n == HandleAdRun(d, e, sys)
<1>1. /\ t \in Triggers /\ e.status \in RunStatus /\ e.target \in Opt(Subjects)
      /\ d \in Databases /\ old \in RunRows \cup {NoRow}
  BY EventColumns, DatabaseFields DEF Inv, Table
<1>2. found \in Opt(d.decisions) /\ d.decisions \subseteq Ids
  BY <1>1, DatabaseFields, DecisionFound DEF Control
<1>3. old # NoRow => /\ old.decision \in Opt(d.decisions)
                     /\ old.comp # NULL => d.comps[t] # NoRow
  BY <1>1 DEF Inv, Linked
<1> HIDE DEF found
<1>4. /\ row.decision = IF old = NoRow THEN found ELSE Coalesce(found, old.decision)
      /\ row.target = IF old = NoRow THEN e.target ELSE Coalesce(e.target, old.target)
      /\ row.sys = IF old = NoRow THEN sys ELSE Coalesce(sys, old.sys)
      /\ row.comp = IF old = NoRow THEN new.comp ELSE Coalesce(new.comp, old.comp)
      /\ row.status = e.status
      /\ row = [decision |-> row.decision, target |-> row.target, sys |-> row.sys,
                comp |-> row.comp, status |-> row.status]
  OBVIOUS
<1>5. n = [d EXCEPT !.runs[t] = row]
  BY DEF HandleAdRun, found
<1> HIDE DEF row, n, kept
<1>6. /\ row.decision \in Opt(d.decisions)
      /\ row.comp # NULL => d.comps[t] # NoRow
      /\ old # NoRow => Known(old.decision, row.decision) /\ Known(old.comp, row.comp)
                        /\ Known(old.sys, row.sys)
  BY <1>1, <1>2, <1>3, <1>4 DEF Coalesce, Known, Opt
<1>7. row \in RunRows
  BY <1>1, <1>2, <1>4, <1>6 DEF RunRows, Coalesce, Opt
<1>8. row # NoRow
  BY <1>7, NoRowAssumption
<1>9. \A f \in Alphabet : f.kind = "ad_run" /\ f.trig = t =>
          Agree(e.target, f.target) /\ (old # NoRow => Agree(old.target, f.target))
  BY <1>1, AgreementAssumption DEF Inv, RunInv
<1>10. /\ \A f \in Alphabet : f.kind = "ad_run" /\ f.trig = t => Agree(row.target, f.target)
       /\ old # NoRow => Stays(old.target, row.target)
  BY <1>4, <1>9 DEF Agree, Coalesce, Stays
<1>11. /\ n \in Databases /\ n.runs = [d.runs EXCEPT ![t] = row]
       /\ n.tracks = d.tracks /\ n.obs = d.obs /\ n.matches = d.matches
       /\ n.decisions = d.decisions /\ n.comps = d.comps /\ n.plays = d.plays
       /\ n.expo = d.expo /\ n.stamp = d.stamp
  BY <1>1, <1>5, <1>7 DEF Databases, Table
<1>12. \A u \in Triggers : n.runs[u] = IF u = t THEN row ELSE d.runs[u]
  BY <1>1, <1>11, DatabaseFields DEF Table
<1>13. Inv(n)
  <2>1. Linked(n)
    <3>1. \A u \in Triggers :
             n.runs[u] # NoRow => /\ n.runs[u].decision \in Opt(n.decisions)
                                  /\ n.runs[u].comp # NULL => n.comps[u] # NoRow
      BY <1>6, <1>11, <1>12 DEF Inv, Linked
    <3>2. ASSUME NEW p \in Playbacks, n.plays[p] # NoRow, n.plays[p].run # NULL
          PROVE  n.runs[n.plays[p].run] # NoRow
      <4>1. d.plays[p] \in PlayRows /\ d.plays[p].run \in Triggers
        BY <1>1, <1>11, <3>2, DatabaseFields DEF Table, PlayRows, Opt
      <4>2. d.runs[d.plays[p].run] # NoRow
        BY <1>11, <3>2 DEF Inv, Linked
      <4> QED BY <1>8, <1>11, <1>12, <4>1, <4>2
    <3> QED BY <1>11, <3>1, <3>2 DEF Inv, Linked
  <2>2. ObsInv(n)
    BY <1>11 DEF Inv, ObsInv
  <2>3. PlayInv(n)
    BY <1>11 DEF Inv, PlayInv
  <2>4. RunInv(n)
    BY <1>10, <1>12 DEF Inv, RunInv
  <2> QED BY <1>11, <2>1, <2>2, <2>3, <2>4 DEF Inv
<1>14. \A u \in Triggers : d.runs[u] # NoRow =>
          /\ n.runs[u] # NoRow /\ Known(d.runs[u].decision, n.runs[u].decision)
          /\ Known(d.runs[u].comp, n.runs[u].comp) /\ Known(d.runs[u].sys, n.runs[u].sys)
          /\ Stays(d.runs[u].target, n.runs[u].target)
  BY <1>6, <1>8, <1>10, <1>12 DEF Known, Stays
<1>15. Grows(d, n)
  BY <1>11, <1>14 DEF Grows, Stays, Known
<1> QED BY <1>11, <1>13, <1>15 DEF Kept, n

LEMMA PlaybackKeeps ==
    ASSUME Control, NEW d, Inv(d), NEW e \in Alphabet, e.kind = "playback",
           NEW sys \in Opt({SystemOf[e.screen]})
    PROVE  Kept(d, HandlePlayback(d, e, sys))
<1> DEFINE p == <<e.trig, e.screen>>
           old == d.plays[p]
           of == PlayedRun(e)
           new == [run |-> IF d.runs[of] # NoRow THEN of ELSE NULL, sys |-> sys,
                   start |-> e.start, end |-> e.end]
           kept == [c \in DOMAIN new |-> IF old = NoRow THEN new[c] ELSE Coalesce(new[c], old[c])]
           row == [run |-> kept.run, sys |-> kept.sys, start |-> kept.start, end |-> kept.end,
                   status |-> e.status]
           n == HandlePlayback(d, e, sys)
<1>1. /\ e.trig \in Triggers /\ e.screen \in Screens /\ e.of \in Opt(Triggers)
      /\ e.start \in Opt(Nat) /\ e.end \in Opt(Nat) /\ e.status \in PlayStatus
      /\ d \in Databases
  BY EventColumns DEF Inv
<1>2. p \in Playbacks /\ p[2] = e.screen /\ of \in Triggers /\ old \in PlayRows \cup {NoRow}
  BY <1>1, DatabaseFields DEF Playbacks, PlayedRun, Opt, Table
<1>3. sys \in Opt(Systems)
  BY <1>1, ScreensAssumption DEF Opt
<1>4. /\ row.run = IF old = NoRow THEN new.run ELSE Coalesce(new.run, old.run)
      /\ row.sys = IF old = NoRow THEN sys ELSE Coalesce(sys, old.sys)
      /\ row.start = IF old = NoRow THEN e.start ELSE Coalesce(e.start, old.start)
      /\ row.end = IF old = NoRow THEN e.end ELSE Coalesce(e.end, old.end)
      /\ row.status = e.status
      /\ row = [run |-> row.run, sys |-> row.sys, start |-> row.start, end |-> row.end,
                status |-> row.status]
  OBVIOUS
<1>5. n = [d EXCEPT !.plays[p] = row]
  BY DEF HandlePlayback
<1> HIDE DEF row, n, kept
<1>6. old # NoRow => /\ old.sys \in Opt({SystemOf[e.screen]})
                     /\ old.run \in Opt({of})
                     /\ old.run # NULL => d.runs[old.run] # NoRow
                     /\ Agree(old.start, e.start) /\ Agree(old.end, e.end)
  BY <1>1, <1>2 DEF Inv, PlayInv, Linked
<1>7. row \in PlayRows
  BY <1>1, <1>2, <1>3, <1>4 DEF PlayRows, Coalesce, Opt
<1>8. row # NoRow
  BY <1>7, NoRowAssumption
<1>9. /\ row.sys \in Opt({SystemOf[e.screen]}) /\ row.run \in Opt({of})
      /\ row.run # NULL => d.runs[row.run] # NoRow
      /\ old # NoRow => /\ Stays(old.run, row.run) /\ Stays(old.sys, row.sys)
                        /\ Stays(old.start, row.start) /\ Stays(old.end, row.end)
  <2>1. CASE old = NoRow
    BY <1>4, <2>1 DEF Opt
  <2>2. CASE old # NoRow
    <3>1. /\ row.run = Coalesce(new.run, old.run) /\ row.sys = Coalesce(sys, old.sys)
          /\ row.start = Coalesce(e.start, old.start) /\ row.end = Coalesce(e.end, old.end)
      BY <1>4, <2>2
    <3>2. row.run \in Opt({of}) /\ (row.run # NULL => d.runs[row.run] # NoRow)
      BY <1>6, <2>2, <3>1 DEF Coalesce, Opt
    <3>3. Stays(old.run, row.run)
      BY <1>6, <2>2, <3>1 DEF Coalesce, Opt, Stays
    <3>4. row.sys \in Opt({SystemOf[e.screen]}) /\ Stays(old.sys, row.sys)
      BY <1>6, <2>2, <3>1 DEF Coalesce, Opt, Stays
    <3>5. Stays(old.start, row.start) /\ Stays(old.end, row.end)
      BY <1>6, <2>2, <3>1 DEF Coalesce, Agree, Stays
    <3> QED BY <3>2, <3>3, <3>4, <3>5
  <2> QED BY <2>1, <2>2
<1>10. \A f \in Alphabet : f.kind = "playback" /\ p = <<f.trig, f.screen>> =>
           /\ PlayedRun(f) = of /\ Agree(e.start, f.start) /\ Agree(e.end, f.end)
           /\ old # NoRow => Agree(old.start, f.start) /\ Agree(old.end, f.end)
  <2> TAKE f \in Alphabet
  <2> HAVE f.kind = "playback" /\ p = <<f.trig, f.screen>>
  <2>1. PlayedRun(f) = of /\ Agree(e.start, f.start) /\ Agree(e.end, f.end)
    BY AgreementAssumption
  <2>2. old # NoRow => Agree(old.start, f.start) /\ Agree(old.end, f.end)
    BY <1>2 DEF Inv, PlayInv
  <2> QED BY <2>1, <2>2
<1>11. \A f \in Alphabet : f.kind = "playback" /\ p = <<f.trig, f.screen>> =>
           /\ row.run \in Opt({PlayedRun(f)})
           /\ Agree(row.start, f.start) /\ Agree(row.end, f.end)
  BY <1>4, <1>9, <1>10 DEF Agree, Coalesce
<1>12. /\ n \in Databases /\ n.plays = [d.plays EXCEPT ![p] = row]
       /\ n.tracks = d.tracks /\ n.obs = d.obs /\ n.matches = d.matches
       /\ n.decisions = d.decisions /\ n.comps = d.comps /\ n.runs = d.runs
       /\ n.expo = d.expo /\ n.stamp = d.stamp
  BY <1>1, <1>2, <1>5, <1>7 DEF Databases, Table
<1>13. \A q \in Playbacks : n.plays[q] = IF q = p THEN row ELSE d.plays[q]
  BY <1>1, <1>2, <1>12, DatabaseFields DEF Table
<1>14. Inv(n)
  <2>1. Linked(n)
    BY <1>8, <1>9, <1>12, <1>13, DatabaseFields DEF Inv, Linked, Table, ExpoRows
  <2>2. ObsInv(n)
    BY <1>12 DEF Inv, ObsInv
  <2>3. PlayInv(n)
    <3>1. ASSUME NEW q \in Playbacks, q # p, n.plays[q] # NoRow
          PROVE  /\ n.plays[q].sys \in Opt({SystemOf[q[2]]})
                 /\ \A f \in Alphabet : f.kind = "playback" /\ q = <<f.trig, f.screen>> =>
                       /\ n.plays[q].run \in Opt({PlayedRun(f)})
                       /\ Agree(n.plays[q].start, f.start) /\ Agree(n.plays[q].end, f.end)
      BY <1>13, <3>1 DEF Inv, PlayInv
    <3>2. n.plays[p] = row
      BY <1>2, <1>13
    <3> HIDE DEF p
    <3> QED BY <1>2, <1>9, <1>11, <3>1, <3>2 DEF PlayInv
  <2>4. RunInv(n)
    BY <1>12 DEF Inv, RunInv
  <2> QED BY <1>12, <2>1, <2>2, <2>3, <2>4 DEF Inv
<1>15. \A q \in Playbacks : d.plays[q] # NoRow =>
          /\ n.plays[q] # NoRow
          /\ Stays(d.plays[q].run, n.plays[q].run) /\ Stays(d.plays[q].sys, n.plays[q].sys)
          /\ Stays(d.plays[q].start, n.plays[q].start) /\ Stays(d.plays[q].end, n.plays[q].end)
  BY <1>8, <1>9, <1>13 DEF Stays
<1>16. Grows(d, n)
  BY <1>12, <1>15 DEF Grows, Stays, Known
<1> QED BY <1>12, <1>14, <1>16 DEF Kept, n

LEMMA ScopeOwn ==
    ASSUME NEW s \in Screens
    PROVE  Scope(s) \in Opt({SystemOf[s]}) /\ Scope(s) \in Opt(Systems)
BY ScreensAssumption DEF Scope, Opt

LEMMA HandleKeeps ==
    ASSUME Control, NEW d, Inv(d), NEW i \in 1 .. Len(log), NEW sys,
           sys = IF log[i].screen # NULL THEN Scope(log[i].screen) ELSE NULL
    PROVE  Kept(d, Handle(d, i, log[i], sys))
<1> DEFINE e == log[i]
<1>1. e \in Alphabet
  BY DEF Control
<1>2. sys \in Opt(Systems)
  <2>1. e.screen # NULL => e.screen \in Screens
    BY <1>1, EventColumns DEF Opt
  <2> QED BY <2>1, ScopeOwn DEF Opt
<1>3. e.screen \in Screens => sys \in Opt({SystemOf[e.screen]})
  BY ScopeOwn, NullAssumption
<1>4. CASE e.kind = "track"
  BY <1>1, <1>2, <1>4, TrackKeeps DEF Handle
<1>5. CASE e.kind = "detection"
  <2>1. sys \in Opt({SystemOf[e.screen]})
    BY <1>1, <1>3, <1>5, EventColumns
  <2> QED BY <1>5, <2>1, DetectionKeeps DEF Handle
<1>6. CASE e.kind = "match"
  BY <1>1, <1>6, MatchKeeps DEF Handle
<1>7. CASE e.kind = "decision"
  BY <1>7, DecisionKeeps DEF Handle
<1>8. CASE e.kind = "composition"
  BY <1>1, <1>8, CompositionKeeps DEF Handle
<1>9. CASE e.kind = "ad_run"
  BY <1>1, <1>2, <1>9, AdRunKeeps DEF Handle
<1>10. CASE e.kind = "playback"
  <2>1. sys \in Opt({SystemOf[e.screen]})
    BY <1>1, <1>3, <1>10, EventColumns
  <2> QED BY <1>1, <1>10, <2>1, PlaybackKeeps DEF Handle
<1>11. CASE e.kind = "gaze"
  BY <1>11 DEF Handle, Kept, Grows, Stays, Known
<1> QED BY <1>1, <1>4, <1>5, <1>6, <1>7, <1>8, <1>9, <1>10, <1>11, EventColumns

LEMMA BackstampKeeps ==
    ASSUME Control, NEW d, Inv(d), NEW i \in 1 .. Len(log), NEW sys,
           sys = IF log[i].screen # NULL THEN Scope(log[i].screen) ELSE NULL
    PROVE  /\ Inv(Backstamp(d, i, log[i], sys)) /\ Grows(d, Backstamp(d, i, log[i], sys))
           /\ Backstamp(d, i, log[i], sys).expo = d.expo
<1> DEFINE e == log[i]
           n == Backstamp(d, i, e, sys)
<1>1. CASE e.screen = NULL
  BY <1>1 DEF Backstamp, Grows, Stays, Known
<1>2. CASE e.screen # NULL
  <2>1. e.screen \in Screens
    BY <1>2, EventColumns DEF Control, Opt
  <2>2. sys \in Opt({SystemOf[e.screen]}) /\ sys \in Opt(Systems)
    BY <1>2, <2>1, ScopeOwn
  <2>3. i \in Ids /\ d \in Databases
    BY BoundsAssumption DEF Control, Inv, Ids
  <2>4. n = [d EXCEPT !.stamp[i] = sys]
    BY <1>2 DEF Backstamp
  <2> HIDE DEF n
  <2>5. /\ n \in Databases /\ n.stamp = [d.stamp EXCEPT ![i] = sys]
        /\ n.tracks = d.tracks /\ n.obs = d.obs /\ n.matches = d.matches
        /\ n.decisions = d.decisions /\ n.comps = d.comps /\ n.runs = d.runs
        /\ n.plays = d.plays /\ n.expo = d.expo
    BY <2>2, <2>3, <2>4 DEF Databases
  <2>6. \A j \in Ids : n.stamp[j] = IF j = i THEN sys ELSE d.stamp[j]
    BY <2>3, <2>5, DatabaseFields
  <2>7. Inv(n)
    <3>1. \A j \in Ids : n.stamp[j] # NULL =>
              j <= Len(log) /\ log[j].screen # NULL /\ n.stamp[j] = SystemOf[log[j].screen]
      BY <1>2, <2>2, <2>6 DEF Inv, Linked, Opt
    <3>2. Linked(n)
      BY <2>5, <3>1 DEF Inv, Linked
    <3>3. ObsInv(n)
      BY <2>5 DEF Inv, ObsInv
    <3>4. PlayInv(n) /\ RunInv(n)
      BY <2>5 DEF Inv, PlayInv, RunInv
    <3> QED BY <2>5, <3>2, <3>3, <3>4 DEF Inv
  <2>8. Grows(d, n)
    BY <2>5 DEF Grows, Stays, Known
  <2> QED BY <2>5, <2>7, <2>8 DEF n
<1> QED BY <1>1, <1>2

-----------------------------------------------------------------------------
(* What the derivation reads.                                              *)
LEMMA CausalFound ==
    ASSUME Control, NEW d, Inv(d), NEW t
    PROVE  CausalObservation(d, t) \in Opt({o \in Ids : d.obs[o] # NoRow /\ d.obs[o].trig = t})
<1> DEFINE rows == {o \in Ids : d.obs[o] # NoRow /\ d.obs[o].trig = t}
           time == [r \in rows |-> d.obs[r].at]
           before == {b \in Ids \X Ids : UuidBefore(b[1], b[2])}
<1>1. CASE rows = {}
  BY <1>1 DEF CausalObservation, First, Opt
<1>2. CASE rows # {}
  <2>1. time \in [rows -> Nat]
    <3>1. \A r \in rows : d.obs[r].at \in Nat
      BY DatabaseFields DEF Inv, Table, ObsRows
    <3> QED BY <3>1
  <2>2. \A T \in SUBSET Ids : T # {} => \E r \in T : \A o \in T : o # r => <<r, o>> \in before
    <3> SUFFICES ASSUME NEW T \in SUBSET Ids, T # {}
                 PROVE  \E r \in T : \A o \in T : o # r => <<r, o>> \in before
      OBVIOUS
    <3>1. PICK r \in T : \A o \in T : o # r => UuidBefore(r, o)
      BY FirstByUuid DEF Control
    <3> QED BY <3>1
  <2> HIDE DEF before
  <2>3. PICK r \in rows : \A o \in rows : o # r =>
             time[r] < time[o] \/ (time[r] = time[o] /\ <<r, o>> \in before)
    BY <1>2, <2>1, <2>2, FirstByTime
  <2>4. \A o \in rows : o # r => \/ d.obs[r].at < d.obs[o].at
                                 \/ d.obs[r].at = d.obs[o].at /\ UuidBefore(r, o)
    BY <2>3 DEF before
  <2>5. CausalObservation(d, t) \in rows
    BY <1>2, <2>4 DEF CausalObservation, First
  <2> QED BY <2>5 DEF Opt
<1> QED BY <1>1, <1>2

LEMMA RecentFound ==
    ASSUME Control, NEW d, Inv(d), NEW pb, pb.start \in Nat
    PROVE  RecentObservation(d, pb) \in
               Opt({o \in Ids :
                       /\ d.obs[o] # NoRow /\ d.runs[pb.run].target # NULL
                       /\ d.obs[o].subj = d.runs[pb.run].target /\ d.obs[o].sys = pb.sys
                       /\ d.obs[o].at <= pb.start /\ pb.start - Lookback <= d.obs[o].at})
<1> DEFINE rows == {o \in Ids :
                       /\ d.obs[o] # NoRow /\ d.runs[pb.run].target # NULL
                       /\ d.obs[o].subj = d.runs[pb.run].target /\ d.obs[o].sys = pb.sys
                       /\ d.obs[o].at <= pb.start /\ pb.start - Lookback <= d.obs[o].at}
           time == [r \in rows |-> pb.start - d.obs[r].at]
           before == {b \in Ids \X Ids : UuidBefore(b[2], b[1])}
<1>1. CASE rows = {}
  BY <1>1 DEF RecentObservation, First, Opt
<1>2. CASE rows # {}
  <2>1. \A r \in rows : d.obs[r].at \in Nat /\ d.obs[r].at <= pb.start
    BY DatabaseFields DEF Inv, Table, ObsRows
  <2>2. time \in [rows -> Nat]
    BY <2>1
  <2>3. \A T \in SUBSET Ids : T # {} => \E r \in T : \A o \in T : o # r => <<r, o>> \in before
    <3> SUFFICES ASSUME NEW T \in SUBSET Ids, T # {}
                 PROVE  \E r \in T : \A o \in T : o # r => <<r, o>> \in before
      OBVIOUS
    <3>1. PICK r \in T : \A o \in T : o # r => UuidBefore(o, r)
      BY LastByUuid DEF Control
    <3> QED BY <3>1
  <2>4. rows \in SUBSET Ids
    OBVIOUS
  <2> HIDE DEF rows, time, before
  <2>5. PICK r \in rows : \A o \in rows : o # r =>
             time[r] < time[o] \/ (time[r] = time[o] /\ <<r, o>> \in before)
    BY <1>2, <2>2, <2>3, <2>4, FirstByTime
  <2>6. \A o \in rows : o # r => \/ d.obs[r].at > d.obs[o].at
                                 \/ d.obs[r].at = d.obs[o].at /\ UuidBefore(o, r)
    <3> TAKE o \in rows
    <3> HAVE o # r
    <3>1. d.obs[r].at \in Nat /\ d.obs[o].at \in Nat
      BY <2>1 DEF rows
    <3>2. \/ pb.start - d.obs[r].at < pb.start - d.obs[o].at
          \/ pb.start - d.obs[r].at = pb.start - d.obs[o].at /\ UuidBefore(o, r)
      BY <2>5 DEF time, before
    <3> QED BY <3>1, <3>2
  <2>7. RecentObservation(d, pb) \in rows
    BY <1>2, <2>6 DEF RecentObservation, First, rows
  <2> QED BY <2>7 DEF Opt, rows
<1> QED BY <1>1, <1>2

LEMMA MaxFractionFound ==
    ASSUME NEW vs \in SUBSET Opt(0 .. Whole)
    PROVE  MaxFraction(vs) \in Opt(0 .. Whole) /\ MaxFraction(vs) \in Opt(vs)
<1> DEFINE known == vs \ {NULL}
<1>1. CASE known = {}
  BY <1>1 DEF MaxFraction, Opt
<1>2. CASE known # {}
  <2>1. known \in SUBSET (0 .. Whole) /\ Whole \in Nat
    BY BoundsAssumption DEF Opt
  <2>2. PICK v \in known : \A u \in known : u <= v
    BY <1>2, <2>1, GreatestExists
  <2>3. MaxFraction(vs) \in known
    BY <1>2, <2>2 DEF MaxFraction
  <2> QED BY <2>1, <2>3 DEF Opt
<1> QED BY <1>1, <1>2

LEMMA ClosedWindow ==
    ASSUME NEW d, Inv(d), NEW p \in Playbacks, Closed(d.plays[p])
    PROVE  /\ d.plays[p].start \in Nat /\ d.plays[p].end \in Nat /\ d.plays[p].run \in Triggers
           /\ d.plays[p].sys \in Systems /\ d.plays[p].sys = SystemOf[p[2]]
           /\ d.runs[d.plays[p].run] # NoRow
<1>1. d.plays[p] # NoRow /\ d.plays[p].sys # NULL /\ d.plays[p].run # NULL
  BY DEF Closed
<1>2. d.plays[p] \in PlayRows
  BY <1>1, DatabaseFields DEF Inv, Table
<1>3. /\ d.plays[p].start \in Nat /\ d.plays[p].end \in Nat /\ d.plays[p].run \in Triggers
      /\ d.plays[p].sys \in Systems
  BY <1>2 DEF Closed, PlayRows, Opt
<1>4. d.plays[p].sys = SystemOf[p[2]]
  BY <1>1 DEF Inv, PlayInv, Opt
<1>5. d.runs[d.plays[p].run] # NoRow
  BY <1>1 DEF Inv, Linked
<1> QED BY <1>3, <1>4, <1>5

LEMMA TargetFound ==
    ASSUME Control, NEW d, Inv(d), NEW p \in Playbacks, Closed(d.plays[p]),
           NEW o \in Ids, o = TargetObservation(d, d.plays[p])
    PROVE  /\ d.obs[o] # NoRow
           /\ \/ d.obs[o].trig = d.plays[p].run
              \/ /\ d.obs[o].subj # NULL /\ d.obs[o].subj = d.runs[d.plays[p].run].target
                 /\ d.obs[o].sys = SystemOf[p[2]]
                 /\ d.plays[p].start - Lookback <= d.obs[o].at /\ d.obs[o].at <= d.plays[p].start
<1> DEFINE pb == d.plays[p]
<1>1. pb.start \in Nat /\ pb.sys = SystemOf[p[2]]
  BY ClosedWindow
<1>2. o # NULL
  BY NullAssumption DEF Ids
<1>3. CASE CausalObservation(d, pb.run) # NULL
  <2>1. o = CausalObservation(d, pb.run)
    BY <1>3 DEF TargetObservation, Coalesce
  <2> QED BY <1>3, <2>1, CausalFound DEF Opt
<1>4. CASE CausalObservation(d, pb.run) = NULL
  <2>1. o = RecentObservation(d, pb)
    BY <1>4 DEF TargetObservation, Coalesce
  <2> QED BY <1>1, <1>2, <2>1, RecentFound DEF Opt
<1> QED BY <1>3, <1>4

LEMMA MeasurementsTyped ==
    ASSUME Control, NEW d, Inv(d), NEW pb, NEW o \in Ids, d.obs[o] # NoRow
    PROVE  Watched(d, pb, o) \in Opt(BOOLEAN) /\ WatchProbability(d, pb, o) \in Opt(0 .. Whole)
<1> DEFINE gaze == GazeRows(d, pb, o)
           again == {b \in Ids : /\ d.obs[b] # NoRow /\ d.obs[b].sys = pb.sys
                                 /\ d.obs[b].subj = d.obs[o].subj /\ During(pb, d.obs[b].at)}
<1>1. \A g \in gaze : log[g].frac \in Opt(0 .. Whole)
  <2> TAKE g \in gaze
  <2>1. g \in 1 .. Len(log) /\ log[g].kind = "gaze"
    BY DEF GazeRows
  <2> QED BY <2>1, EventColumns DEF Control
<1>2. \A b \in Ids : d.obs[b] # NoRow => d.obs[b].att \in Opt(0 .. Whole)
  BY DatabaseFields DEF Inv, Table, ObsRows
<1>3. Watched(d, pb, o) \in Opt(BOOLEAN)
  <2>1. MaxFraction({d.obs[b].att : b \in again}) \in Opt(0 .. Whole)
    BY <1>2, MaxFractionFound
  <2>2. \A v \in Opt(0 .. Whole) : Attending(v) \in Opt(BOOLEAN)
    BY BoundsAssumption DEF Attending, Opt
  <2>3. Attending(MaxFraction({d.obs[b].att : b \in again})) \in Opt(BOOLEAN)
    BY <2>1, <2>2
  <2> QED BY <2>3 DEF Watched, Opt
<1>4. WatchProbability(d, pb, o) \in Opt(0 .. Whole)
  <2>1. MaxFraction({log[g].frac : g \in gaze}) \in Opt(0 .. Whole)
    BY <1>1, MaxFractionFound
  <2> QED BY <1>2, <2>1 DEF WatchProbability
<1> QED BY <1>3, <1>4

LEMMA WatchedSeen ==
    ASSUME Control, NEW d, Inv(d), NEW p \in Playbacks, Closed(d.plays[p]),
           NEW o \in Ids, d.obs[o] # NoRow, Watched(d, d.plays[p], o) = TRUE
    PROVE  SeenLooking(d.obs[o], d.plays[p], p)
<1> DEFINE pb == d.plays[p]
           gaze == GazeRows(d, pb, o)
           again == {b \in Ids : /\ d.obs[b] # NoRow /\ d.obs[b].sys = pb.sys
                                 /\ d.obs[b].subj = d.obs[o].subj /\ During(pb, d.obs[b].at)}
           atts == {d.obs[b].att : b \in again}
<1>1. pb.sys \in Systems /\ pb.sys # NULL /\ pb.sys = SystemOf[p[2]]
  BY ClosedWindow, NullAssumption
<1>2. TRUE # NULL /\ FALSE # NULL /\ TRUE # FALSE
  BY NullAssumption
<1>3. CASE gaze # {}
  <2>1. PICK g \in gaze : log[g].frac # NULL /\ log[g].frac > 0
    BY <1>3 DEF Watched
  <2>2. /\ g \in 1 .. Len(log) /\ log[g].kind = "gaze" /\ During(pb, log[g].ts)
        /\ d.stamp[g] = pb.sys
        /\ \/ log[g].track = d.obs[o].track /\ d.obs[o].track # NULL
           \/ log[g].subj = d.obs[o].subj /\ d.obs[o].subj # NULL
    BY DEF GazeRows
  <2>3. g \in Ids
    BY <2>2, BoundsAssumption DEF Control, Ids
  <2>4. d.stamp[g] = SystemOf[log[g].screen]
    BY <1>1, <2>2, <2>3 DEF Inv, Linked
  <2> QED BY <1>1, <2>1, <2>2, <2>4 DEF SeenLooking
<1>4. CASE gaze = {}
  <2>1. d.obs[o].track = NULL /\ d.obs[o].subj # NULL /\ Attending(MaxFraction(atts)) = TRUE
    BY <1>2, <1>4 DEF Watched
  <2>2. MaxFraction(atts) # NULL /\ MaxFraction(atts) > 0
    BY <1>2, <2>1 DEF Attending
  <2>3. atts \in SUBSET Opt(0 .. Whole)
    BY DatabaseFields DEF Inv, Table, ObsRows
  <2>4. MaxFraction(atts) \in atts
    BY <2>2, <2>3, MaxFractionFound DEF Opt
  <2>5. PICK b \in again : d.obs[b].att # NULL /\ d.obs[b].att > 0
    BY <2>2, <2>4
  <2>6. /\ b \in 1 .. Len(log) /\ log[b].kind = "detection" /\ d.obs[b].at = log[b].ts
        /\ d.obs[b].subj = log[b].subj /\ d.obs[b].att = log[b].att
        /\ d.obs[b].sys \in Opt({SystemOf[log[b].screen]})
    BY <2>5 DEF Inv, ObsInv, Ids
  <2>7. SystemOf[log[b].screen] = SystemOf[p[2]]
    BY <1>1, <2>5, <2>6 DEF Opt
  <2> QED BY <2>1, <2>5, <2>6, <2>7 DEF SeenLooking
<1> QED BY <1>3, <1>4

-----------------------------------------------------------------------------
(* Every exposure is justified, every watched one measured.                *)
Sound(d) ==
    /\ Inv(d)
    /\ \A x \in Exposures : d.expo[x] # NoRow => Justified(d, x)
    /\ \A x \in Exposures : d.expo[x] # NoRow /\ d.expo[x].watched = TRUE => Measured(d, x)

(* A handler writes no exposure and moves nothing an exposure rests on.    *)
LEMMA ClosedStays ==
    ASSUME NEW d, NEW n, Inv(d), Grows(d, n), NEW p \in Playbacks, Closed(d.plays[p])
    PROVE  /\ Closed(n.plays[p]) /\ n.plays[p].run = d.plays[p].run
           /\ n.plays[p].start = d.plays[p].start /\ n.plays[p].end = d.plays[p].end
BY DEF Grows, Closed, Stays

LEMMA SoundStays ==
    ASSUME Control, NEW d, NEW n, Sound(d), Inv(n), Grows(d, n), n.expo = d.expo
    PROVE  Sound(n)
<1>1. ASSUME NEW x \in Exposures, n.expo[x] # NoRow
      PROVE  /\ Justified(n, x)
             /\ n.expo[x].watched = TRUE => Measured(n, x)
  <2> DEFINE row == d.expo[x]
             pb == d.plays[row.play]
             o == d.obs[x[2]]
  <2>1. /\ Justified(d, x) /\ n.expo[x] = row
        /\ row.watched = TRUE => Measured(d, x)
    BY <1>1 DEF Sound
  <2>2. row.play \in Playbacks /\ x[1] \in Triggers /\ x[2] \in Ids
    BY <1>1, <2>1, DatabaseFields DEF Sound, Inv, Table, ExpoRows, Exposures
  <2>3. Closed(pb) /\ pb.run = x[1] /\ o # NoRow
    BY <2>1 DEF Justified
  <2>4. /\ Closed(n.plays[row.play]) /\ n.plays[row.play].run = x[1]
        /\ n.plays[row.play].start = pb.start /\ n.plays[row.play].end = pb.end
    BY <2>2, <2>3, ClosedStays DEF Sound
  <2>5. /\ n.obs[x[2]] # NoRow /\ n.obs[x[2]].trig = o.trig /\ n.obs[x[2]].at = o.at
        /\ n.obs[x[2]].subj = o.subj /\ n.obs[x[2]].track = o.track /\ Stays(o.sys, n.obs[x[2]].sys)
    BY <2>2, <2>3 DEF Grows
  <2>6. o.sys = SystemOf[row.play[2]] => n.obs[x[2]].sys = o.sys
    <3>1. SystemOf[row.play[2]] # NULL
      BY <2>2, ScreensAssumption, NullAssumption DEF Playbacks
    <3> QED BY <2>5, <3>1 DEF Stays
  <2>7. o.subj # NULL /\ o.subj = d.runs[x[1]].target => n.runs[x[1]].target = o.subj
    <3>1. d.runs[x[1]] # NoRow
      BY <2>2, <2>3, ClosedWindow DEF Sound
    <3> QED BY <2>2, <3>1 DEF Grows, Stays
  <2>8. Justified(n, x)
    <3>1. \E i \in 1 .. Len(log) : Closes(log[i]) /\ <<log[i].trig, log[i].screen>> = row.play
      BY <2>1 DEF Justified
    <3>2. row.role = "target" =>
              \/ n.obs[x[2]].trig = x[1]
              \/ /\ n.obs[x[2]].subj # NULL /\ n.obs[x[2]].subj = n.runs[x[1]].target
                 /\ n.obs[x[2]].sys = SystemOf[row.play[2]]
                 /\ n.plays[row.play].start - Lookback <= n.obs[x[2]].at
                 /\ n.obs[x[2]].at <= n.plays[row.play].start
      BY <2>1, <2>4, <2>5, <2>6, <2>7 DEF Justified
    <3>3. row.role = "bystander" =>
              n.obs[x[2]].sys = SystemOf[row.play[2]] /\ During(n.plays[row.play], n.obs[x[2]].at)
      BY <2>1, <2>4, <2>5, <2>6 DEF Justified, During
    <3> QED BY <2>1, <2>4, <2>5, <3>1, <3>2, <3>3 DEF Justified
  <2>9. ASSUME row.watched = TRUE PROVE Measured(n, x)
    <3>1. PICK p \in Playbacks : /\ Closed(d.plays[p]) /\ d.plays[p].run = x[1]
                                 /\ SeenLooking(o, d.plays[p], p)
      BY <2>1, <2>9 DEF Measured
    <3>2. /\ Closed(n.plays[p]) /\ n.plays[p].run = x[1]
          /\ n.plays[p].start = d.plays[p].start /\ n.plays[p].end = d.plays[p].end
      BY <3>1, ClosedStays DEF Sound
    <3>3. SeenLooking(n.obs[x[2]], n.plays[p], p)
      BY <2>5, <3>1, <3>2 DEF SeenLooking, During
    <3> QED BY <3>2, <3>3 DEF Measured
  <2> QED BY <2>1, <2>8, <2>9
<1> QED BY <1>1 DEF Sound

LEMMA DeriveKeeps ==
    ASSUME Control, NEW d, Sound(d), NEW p \in Playbacks,
           \E i \in 1 .. Len(log) : Closes(log[i]) /\ <<log[i].trig, log[i].screen>> = p
    PROVE  Sound(DeriveViewerExposures(d, p)) /\ Grows(d, DeriveViewerExposures(d, p))
<1> DEFINE pb == d.plays[p]
           n == DeriveViewerExposures(d, p)
           new(x) == IF x[2] = TargetObservation(d, pb)
                     THEN UpsertExposure(d.expo[x], p, "target", Watched(d, pb, x[2]), NULL)
                     ELSE UpsertExposure(d.expo[x], p, "bystander", NULL,
                                         WatchProbability(d, pb, x[2]))
           Hit(x) == x[1] = pb.run /\ (x[2] = TargetObservation(d, pb) \/ x[2] \in Bystanders(d, pb))
<1>1. CASE ~Closed(pb)
  BY <1>1 DEF DeriveViewerExposures, Grows, Stays, Known
<1>2. CASE Closed(pb)
  <2>1. Inv(d) /\ d \in Databases
    BY DEF Sound, Inv
  <2>2. pb # NoRow /\ pb.sys = SystemOf[p[2]]
    BY <1>2, <2>1, ClosedWindow DEF Closed
  <2>3. n = [d EXCEPT !.expo = [x \in Exposures |-> IF Hit(x) THEN new(x) ELSE d.expo[x]]]
    BY <1>2, Zenon DEF DeriveViewerExposures
  <2> HIDE DEF n, new, Hit
  <2>4. /\ n.tracks = d.tracks /\ n.obs = d.obs /\ n.matches = d.matches
        /\ n.decisions = d.decisions /\ n.comps = d.comps /\ n.runs = d.runs
        /\ n.plays = d.plays /\ n.stamp = d.stamp
        /\ n.expo = [x \in Exposures |-> IF Hit(x) THEN new(x) ELSE d.expo[x]]
    BY <2>1, <2>3 DEF Databases
  <2>5. ASSUME NEW x \in Exposures, Hit(x)
        PROVE  /\ new(x) \in ExpoRows /\ new(x) # NoRow /\ new(x).play = p
               /\ d.expo[x] # NoRow => /\ Known(d.expo[x].watched, new(x).watched)
                                       /\ Known(d.expo[x].prob, new(x).prob)
               /\ x[1] = pb.run /\ d.obs[x[2]] # NoRow
               /\ new(x).role = "target" => x[2] = TargetObservation(d, pb)
               /\ new(x).role = "bystander" => x[2] \in Bystanders(d, pb)
               /\ new(x).watched = TRUE => \/ d.expo[x] # NoRow /\ d.expo[x].watched = TRUE
                                           \/ Watched(d, pb, x[2]) = TRUE
    <3> DEFINE o == x[2]
               old == d.expo[x]
               row == new(x)
    <3>1. o \in Ids /\ x[1] = pb.run /\ old \in ExpoRows \cup {NoRow}
      BY <2>1, <2>5, DatabaseFields DEF Exposures, Table, Hit
    <3>2. d.obs[o] # NoRow
      BY <1>2, <2>1, <2>5, <3>1, TargetFound DEF Hit, Bystanders
    <3>3. Watched(d, pb, o) \in Opt(BOOLEAN) /\ WatchProbability(d, pb, o) \in Opt(0 .. Whole)
      BY <2>1, <3>1, <3>2, MeasurementsTyped
    <3>4. PICK role \in {"target", "bystander"}, w \in Opt(BOOLEAN), pr \in Opt(0 .. Whole) :
               /\ row = UpsertExposure(old, p, role, w, pr)
               /\ w = TRUE => Watched(d, pb, o) = TRUE
               /\ role = "target" => o = TargetObservation(d, pb)
               /\ role = "bystander" => o \in Bystanders(d, pb)
      <4>1. CASE o = TargetObservation(d, pb)
        <5>1. row = UpsertExposure(old, p, "target", Watched(d, pb, o), NULL)
          BY <4>1 DEF new
        <5> QED BY <3>3, <4>1, <5>1 DEF Opt
      <4>2. CASE o # TargetObservation(d, pb)
        <5>1. row = UpsertExposure(old, p, "bystander", NULL, WatchProbability(d, pb, o))
          BY <4>2 DEF new
        <5>2. o \in Bystanders(d, pb) /\ NULL # TRUE
          BY <2>5, <4>2, NullAssumption DEF Hit
        <5> QED BY <3>3, <5>1, <5>2 DEF Opt
      <4> QED BY <4>1, <4>2
    <3> HIDE DEF row
    <3>5. /\ row = [play |-> p, role |-> role,
                    watched |-> IF old = NoRow THEN w ELSE Coalesce(w, old.watched),
                    prob |-> IF old = NoRow THEN pr ELSE Coalesce(pr, old.prob)]
      BY <3>4 DEF UpsertExposure
    <3>6. row.watched \in Opt(BOOLEAN) /\ row.prob \in Opt(0 .. Whole)
      BY <3>1, <3>5 DEF ExpoRows, Coalesce
    <3>7. row \in ExpoRows
      BY <3>5, <3>6 DEF ExpoRows
    <3>8. old # NoRow => Known(old.watched, row.watched) /\ Known(old.prob, row.prob)
      BY <3>5 DEF Known, Coalesce
    <3>9. row.watched = TRUE => (old # NoRow /\ old.watched = TRUE) \/ w = TRUE
      BY <3>5 DEF Coalesce
    <3> QED BY <3>1, <3>2, <3>4, <3>5, <3>7, <3>8, <3>9, NoRowAssumption DEF row
  <2>6. \A x \in Exposures : n.expo[x] = IF Hit(x) THEN new(x) ELSE d.expo[x]
    BY <2>4
  <2>7. Inv(n)
    <3>1. n.expo \in Table(Exposures, ExpoRows)
      <4>1. \A x \in Exposures : (IF Hit(x) THEN new(x) ELSE d.expo[x]) \in ExpoRows \cup {NoRow}
        BY <2>1, <2>5, DatabaseFields DEF Table
      <4> QED BY <2>4, <4>1 DEF Table
    <3>2. n \in Databases
      BY <2>1, <2>3, <2>4, <3>1 DEF Databases
    <3>3. \A x \in Exposures : n.expo[x] # NoRow => n.plays[n.expo[x].play] # NoRow
      BY <2>1, <2>2, <2>4, <2>5, <2>6 DEF Inv, Linked
    <3>4. Linked(n)
      BY <2>1, <2>4, <3>3 DEF Inv, Linked
    <3>5. ObsInv(n)
      BY <2>1, <2>4 DEF Inv, ObsInv
    <3>6. PlayInv(n) /\ RunInv(n)
      BY <2>1, <2>4 DEF Inv, PlayInv, RunInv
    <3> QED BY <3>2, <3>4, <3>5, <3>6 DEF Inv
  <2>8. Grows(d, n)
    <3>1. \A x \in Exposures : d.expo[x] # NoRow =>
              /\ n.expo[x] # NoRow /\ Known(d.expo[x].watched, n.expo[x].watched)
              /\ Known(d.expo[x].prob, n.expo[x].prob)
      BY <2>5, <2>6 DEF Known
    <3> QED BY <2>4, <3>1 DEF Grows, Stays, Known
  <2>9. ASSUME NEW x \in Exposures, n.expo[x] # NoRow
        PROVE  /\ Justified(n, x)
               /\ n.expo[x].watched = TRUE => Measured(n, x)
    <3>1. CASE ~Hit(x)
      <4>1. n.expo[x] = d.expo[x]
        BY <2>6, <3>1
      <4>2. Justified(n, x)
        BY <2>4, <2>9, <4>1 DEF Sound, Justified
      <4>3. n.expo[x].watched = TRUE => Measured(n, x)
        BY <2>4, <2>9, <4>1 DEF Sound, Measured
      <4> QED BY <4>2, <4>3
    <3>2. CASE Hit(x)
      <4> DEFINE o == x[2]
      <4>1. n.expo[x] = new(x) /\ o \in Ids
        BY <2>6, <3>2 DEF Exposures
      <4>2. n.expo[x].role = "target" =>
               \/ d.obs[o].trig = x[1]
               \/ /\ d.obs[o].subj # NULL /\ d.obs[o].subj = d.runs[x[1]].target
                  /\ d.obs[o].sys = SystemOf[p[2]]
                  /\ pb.start - Lookback <= d.obs[o].at /\ d.obs[o].at <= pb.start
        <5>1. n.expo[x].role = "target" => o = TargetObservation(d, pb)
          BY <2>5, <3>2, <4>1
        <5>2. x[1] = pb.run
          BY <2>5, <3>2
        <5> HIDE DEF o
        <5> QED BY <1>2, <2>1, <4>1, <5>1, <5>2, TargetFound
      <4>3. n.expo[x].role = "bystander" =>
               d.obs[o].sys = SystemOf[p[2]] /\ During(pb, d.obs[o].at)
        BY <2>2, <2>5, <3>2, <4>1 DEF Bystanders
      <4>4. n.expo[x].play = p /\ pb.run = x[1] /\ d.obs[o] # NoRow
        BY <2>5, <3>2, <4>1
      <4>5. Justified(n, x)
        BY <1>2, <2>4, <4>2, <4>3, <4>4 DEF Justified
      <4>6. ASSUME n.expo[x].watched = TRUE PROVE Measured(n, x)
        <5>1. CASE d.expo[x] # NoRow /\ d.expo[x].watched = TRUE
          BY <2>4, <5>1 DEF Sound, Measured
        <5>2. CASE Watched(d, pb, o) = TRUE
          <6>1. SeenLooking(d.obs[o], pb, p)
            BY <1>2, <2>1, <4>1, <4>4, <5>2, WatchedSeen
          <6> QED BY <1>2, <2>4, <4>4, <6>1 DEF Measured
        <5> QED BY <2>5, <3>2, <4>1, <4>6, <5>1, <5>2
      <4> QED BY <4>5, <4>6
    <3> QED BY <3>1, <3>2
  <2> QED BY <2>7, <2>8, <2>9 DEF Sound, n
<1> QED BY <1>1, <1>2

-----------------------------------------------------------------------------
(* One event folded: handler, back-stamp, derivation.                      *)
LEMMA GrowsOn ==
    ASSUME NEW a, NEW b, NEW c, Grows(a, b), Grows(b, c)
    PROVE  Grows(a, c)
<1>1. \A k \in Screens \X Tracks : a.tracks[k] # NoRow =>
          c.tracks[k] # NoRow /\ Known(a.tracks[k].sys, c.tracks[k].sys)
  BY DEF Grows, Known
<1>2. \A i \in Ids : a.obs[i] # NoRow =>
          /\ c.obs[i] # NoRow /\ c.obs[i].trig = a.obs[i].trig /\ c.obs[i].at = a.obs[i].at
          /\ c.obs[i].subj = a.obs[i].subj /\ c.obs[i].track = a.obs[i].track
          /\ c.obs[i].att = a.obs[i].att /\ Stays(a.obs[i].sys, c.obs[i].sys)
  BY DEF Grows, Stays
<1>3. a.matches \subseteq c.matches /\ a.decisions \subseteq c.decisions
  BY DEF Grows
<1>4. \A t \in Triggers : a.comps[t] # NoRow =>
          c.comps[t] # NoRow /\ Known(a.comps[t].decision, c.comps[t].decision)
  BY DEF Grows, Known
<1>5. \A t \in Triggers : a.runs[t] # NoRow =>
          /\ c.runs[t] # NoRow /\ Known(a.runs[t].decision, c.runs[t].decision)
          /\ Known(a.runs[t].comp, c.runs[t].comp) /\ Known(a.runs[t].sys, c.runs[t].sys)
          /\ Stays(a.runs[t].target, c.runs[t].target)
  BY DEF Grows, Known, Stays
<1>6. \A p \in Playbacks : a.plays[p] # NoRow =>
          /\ c.plays[p] # NoRow
          /\ Stays(a.plays[p].run, c.plays[p].run) /\ Stays(a.plays[p].sys, c.plays[p].sys)
          /\ Stays(a.plays[p].start, c.plays[p].start) /\ Stays(a.plays[p].end, c.plays[p].end)
  BY DEF Grows, Stays
<1>7. \A x \in Exposures : a.expo[x] # NoRow =>
          /\ c.expo[x] # NoRow /\ Known(a.expo[x].watched, c.expo[x].watched)
          /\ Known(a.expo[x].prob, c.expo[x].prob)
  BY DEF Grows, Known
<1> QED BY <1>1, <1>2, <1>3, <1>4, <1>5, <1>6, <1>7 DEF Grows

LEMMA FoldKeeps ==
    ASSUME Control, NEW d, Sound(d), NEW i \in 1 .. Len(log)
    PROVE  Sound(FoldEvent(d, i)) /\ Grows(d, FoldEvent(d, i))
<1> DEFINE e == log[i]
           sys == IF e.screen # NULL THEN Scope(e.screen) ELSE NULL
           first == Handle(d, i, e, sys)
           handled == Backstamp(first, i, e, sys)
<1>1. Inv(first) /\ Grows(d, first) /\ first.expo = d.expo
  BY HandleKeeps DEF Sound, Kept
<1> HIDE DEF first
<1>2. Inv(handled) /\ Grows(first, handled) /\ handled.expo = first.expo
  BY <1>1, BackstampKeeps
<1> HIDE DEF handled
<1>3. Grows(d, handled)
  BY <1>1, <1>2, GrowsOn
<1>4. Sound(handled)
  BY <1>1, <1>2, <1>3, SoundStays
<1>5. FoldEvent(d, i) = IF Closes(e) THEN DeriveViewerExposures(handled, <<e.trig, e.screen>>)
                        ELSE handled
  BY DEF FoldEvent, handled, first
<1>6. CASE ~Closes(e)
  BY <1>3, <1>4, <1>5, <1>6
<1>7. CASE Closes(e)
  <2>1. <<e.trig, e.screen>> \in Playbacks
    BY <1>7, EventColumns DEF Control, Closes, Playbacks
  <2>2. \E j \in 1 .. Len(log) : Closes(log[j]) /\ <<log[j].trig, log[j].screen>> = <<e.trig, e.screen>>
    BY <1>7
  <2>3. /\ Sound(DeriveViewerExposures(handled, <<e.trig, e.screen>>))
        /\ Grows(handled, DeriveViewerExposures(handled, <<e.trig, e.screen>>))
    BY <1>4, <2>1, <2>2, DeriveKeeps
  <2>4. Grows(d, DeriveViewerExposures(handled, <<e.trig, e.screen>>))
    BY <1>3, <2>3, GrowsOn
  <2> QED BY <1>5, <1>7, <2>3, <2>4
<1> QED BY <1>6, <1>7

LEMMA GrowsKnown ==
    ASSUME NEW d \in Databases, NEW n \in Databases, Grows(d, n)
    PROVE  \A table \in DOMAIN KnownFacts(d) : KnownFacts(d)[table] \subseteq KnownFacts(n)[table]
<1> DEFINE F == KnownFacts(d)
           G == KnownFacts(n)
<1>1. F.tracks \subseteq G.tracks
  <2>1. \A k \in Screens \X Tracks : n.tracks[k] # NoRow => n.tracks[k].count # NULL
    BY DatabaseFields, NullAssumption DEF Table, TrackRows
  <2> QED BY <2>1 DEF KnownFacts, Grows, Known
<1>2. F.obs \subseteq G.obs
  <2>1. \A i \in Ids : n.obs[i] # NoRow => n.obs[i].linked # NULL
    BY DatabaseFields, NullAssumption DEF Table, ObsRows
  <2> QED BY <2>1 DEF KnownFacts, Grows, Stays
<1>3. F.comps \subseteq G.comps
  <2>1. \A t \in Triggers : n.comps[t] # NoRow => n.comps[t].status # NULL
    BY DatabaseFields, NullAssumption DEF Table, CompRows
  <2> QED BY <2>1 DEF KnownFacts, Grows, Known
<1>4. F.runs \subseteq G.runs
  BY DEF KnownFacts, Grows, Known, Stays
<1>5. F.plays \subseteq G.plays
  BY DEF KnownFacts, Grows, Stays
<1>6. F.expo \subseteq G.expo
  <2>1. \A x \in Exposures : n.expo[x] # NoRow => n.expo[x].role # NULL
    BY DatabaseFields, NullAssumption DEF Table, ExpoRows
  <2> QED BY <2>1 DEF KnownFacts, Grows, Known
<1>7. DOMAIN F = {"tracks", "obs", "comps", "runs", "plays", "expo"}
  BY DEF KnownFacts
<1> QED BY <1>1, <1>2, <1>3, <1>4, <1>5, <1>6, <1>7

-----------------------------------------------------------------------------
(* The inductive invariant: the tables repeat what the journal says and    *)
(* every exposure rests on rows that never move again.                     *)
IInv == TypeOK /\ Sound(db)

LEMMA EmptySound == Sound(Empty)
<1>1. Empty \in Databases
  BY DEF Empty, Databases, Table, Opt
<1>2. Linked(Empty) /\ ObsInv(Empty) /\ PlayInv(Empty) /\ RunInv(Empty)
  BY DEF Empty, Linked, ObsInv, PlayInv, RunInv
<1> QED BY <1>1, <1>2 DEF Sound, Inv, Empty

LEMMA InitIInv == Init => IInv
<1> SUFFICES ASSUME Init PROVE IInv
  OBVIOUS
<1>1. Sound(db)
  BY EmptySound DEF Init
<1>2. /\ log \in Seq(Alphabet) /\ Len(log) <= MaxEvents /\ cursor \in 0 .. Len(log)
      /\ device \in [Screens -> {"unknown", "live", "retired"}]
      /\ descending \in BOOLEAN /\ drifts \in 0 .. MaxDrifts
  BY BoundsAssumption DEF Init
<1> QED BY <1>1, <1>2 DEF IInv, TypeOK, Sound, Inv

(* A longer journal takes nothing away.                                    *)
LEMMA SoundAppend ==
    ASSUME NEW L \in Nat, L = Len(log), L <= Len(log'), Len(log') \in Nat,
           \A i \in 1 .. L : log'[i] = log[i], Sound(db), db' = db
    PROVE  Sound(db)'
<1>1. db' \in Databases
  BY DEF Sound, Inv
<1>2. Linked(db)'
  BY DEF Sound, Inv, Linked, Ids
<1>3. ObsInv(db)'
  <2>1. ASSUME NEW i \in Ids, db.obs[i] # NoRow
        PROVE  i <= Len(log') /\ log'[i] = log[i]
    <3>1. i \in 1 .. MaxEvents /\ MaxEvents \in Nat
      BY BoundsAssumption DEF Ids
    <3>2. i <= L
      BY <2>1 DEF Sound, Inv, ObsInv
    <3> QED BY <3>1, <3>2
  <2> QED BY <2>1 DEF Sound, Inv, ObsInv
<1>4. PlayInv(db)' /\ RunInv(db)'
  BY DEF Sound, Inv, PlayInv, RunInv
<1>5. \A x \in Exposures : db.expo[x] # NoRow => Justified(db, x)'
  BY DEF Sound, Justified
<1>6. \A x \in Exposures : db.expo[x] # NoRow /\ db.expo[x].watched = TRUE => Measured(db, x)'
  BY DEF Sound, Measured, SeenLooking
<1> QED BY <1>1, <1>2, <1>3, <1>4, <1>5, <1>6 DEF Sound, Inv

LEMMA StepIInv == IInv /\ [Next]_vars => IInv'
<1> SUFFICES ASSUME IInv, [Next]_vars PROVE IInv'
  OBVIOUS
<1>1. Control /\ Sound(db) /\ Len(log) \in Nat
  BY DEF IInv, TypeOK, Control
<1>2. ASSUME log' = log, Sound(db'), cursor' \in 0 .. Len(log),
             device' \in [Screens -> {"unknown", "live", "retired"}],
             descending' = descending, drifts' \in 0 .. MaxDrifts
      PROVE  IInv'
  <2>1. Linked(db') => Linked(db)'
    BY <1>2 DEF Linked
  <2>2. ObsInv(db') => ObsInv(db)'
    BY <1>2 DEF ObsInv
  <2>3. PlayInv(db') /\ RunInv(db') => PlayInv(db)' /\ RunInv(db)'
    BY DEF PlayInv, RunInv
  <2>4. \A x : Justified(db', x) => Justified(db, x)'
    BY <1>2 DEF Justified
  <2>5. \A x : Measured(db', x) => Measured(db, x)'
    BY <1>2 DEF Measured, SeenLooking
  <2>6. Sound(db)'
    BY <1>2, <2>1, <2>2, <2>3, <2>4, <2>5 DEF Sound, Inv
  <2>7. db' \in Databases /\ Linked(db)'
    BY <2>6 DEF Sound, Inv
  <2> QED BY <1>2, <2>6, <2>7 DEF IInv, TypeOK
<1>3. ASSUME NEW e \in Alphabet, Emit(e) PROVE IInv'
  <2>1. /\ log' \in Seq(Alphabet) /\ Len(log') = Len(log) + 1 /\ Len(log') <= MaxEvents
        /\ \A i \in 1 .. Len(log) : log'[i] = log[i]
    BY <1>1, <1>3, BoundsAssumption DEF Emit, Control
  <2>2. Sound(db)'
    BY <1>1, <1>3, <2>1, SoundAppend DEF Emit
  <2>3. db' \in Databases /\ Linked(db)'
    BY <2>2 DEF Sound, Inv
  <2> QED BY <1>1, <1>3, <2>1, <2>2, <2>3 DEF IInv, TypeOK, Emit
<1>4. CASE FoldNext
  <2>1. cursor + 1 \in 1 .. Len(log) /\ cursor' \in 0 .. Len(log)
    BY <1>1, <1>4 DEF FoldNext, IInv, TypeOK
  <2>2. Sound(db')
    BY <1>1, <1>4, <2>1, FoldKeeps DEF FoldNext
  <2> QED BY <1>2, <1>4, <2>1, <2>2 DEF FoldNext, IInv, TypeOK
<1>5. ASSUME NEW c \in 0 .. MaxEvents, Rewind(c) PROVE IInv'
  <2>1. cursor' \in 0 .. Len(log)
    BY <1>1, <1>5, BoundsAssumption DEF Rewind, IInv, TypeOK
  <2> QED BY <1>1, <1>2, <1>5, <2>1 DEF Rewind, IInv, TypeOK
<1>6. ASSUME NEW s \in Screens, Register(s) \/ Retire(s) PROVE IInv'
  <2>1. /\ device' \in [Screens -> {"unknown", "live", "retired"}] /\ drifts' \in 0 .. MaxDrifts
        /\ UNCHANGED <<log, cursor, descending, db>>
    BY <1>6, BoundsAssumption DEF Register, Retire, IInv, TypeOK
  <2> QED BY <1>1, <1>2, <2>1 DEF IInv, TypeOK
<1>7. CASE UNCHANGED vars
  BY <1>1, <1>2, <1>7 DEF vars, IInv, TypeOK
<1> QED BY <1>3, <1>4, <1>5, <1>6, <1>7 DEF Next

LEMMA Invariant == Spec => []IInv
BY InitIInv, StepIInv, PTL DEF Spec

(* The tables are well-typed, every link points to a row that exists and   *)
(* every back-stamp is the system of the event's own device.               *)
THEOREM TypeCorrect == Spec => []TypeOK
<1>1. IInv => TypeOK
  BY DEF IInv
<1> QED BY <1>1, Invariant, PTL

(* derivations.py: an exposure always has a closed playback of its ad_run  *)
(* and an observation that qualifies, whatever was folded in what order,   *)
(* folded again, or scoped by a registry that moved.                       *)
THEOREM ExposureJustifiedHolds == Spec => []ExposureJustified
<1>1. IInv => ExposureJustified
  BY DEF IInv, Sound, ExposureJustified
<1> QED BY <1>1, Invariant, PTL

(* derivations.py: a target is watched only if a camera of the playback's  *)
(* own system saw this track or this person look during one of its run's   *)
(* closed playbacks.                                                       *)
THEOREM WatchedIsMeasuredHolds == Spec => []WatchedIsMeasured
<1>1. IInv => WatchedIsMeasured
  BY DEF IInv, Sound, WatchedIsMeasured
<1> QED BY <1>1, Invariant, PTL

(* handlers.py: the COALESCEs of the upserts wipe no link, scope or        *)
(* measurement, in whatever order and however often events are folded.     *)
THEOREM NothingForgottenHolds == Spec => NothingForgotten
<1>1. IInv /\ [Next]_vars =>
          [\A table \in DOMAIN KnownFacts(db) :
              KnownFacts(db)[table] \subseteq KnownFacts(db')[table]]_vars
  <2> SUFFICES ASSUME IInv, [Next]_vars
               PROVE  \A table \in DOMAIN KnownFacts(db) :
                          KnownFacts(db)[table] \subseteq KnownFacts(db')[table]
    OBVIOUS
  <2>1. CASE FoldNext
    <3>1. Control /\ cursor + 1 \in 1 .. Len(log) /\ Sound(db)
      BY <2>1 DEF FoldNext, IInv, TypeOK, Control
    <3>2. Grows(db, db') /\ Sound(db')
      BY <2>1, <3>1, FoldKeeps DEF FoldNext
    <3> QED BY <3>1, <3>2, GrowsKnown DEF Sound, Inv
  <2>2. CASE db' = db
    BY <2>2
  <2> QED BY <2>1, <2>2 DEF Next, Emit, Rewind, Register, Retire, vars
<1> QED BY <1>1, Invariant, PTL DEF Spec, NothingForgotten
=============================================================================
