----------------------------- MODULE MCProjection -----------------------------
(* Instances of Projection for TLC: small vocabularies of events.  The      *)
(* window of a playback is 2..4; an observation at 1 precedes it, one at 3  *)
(* is inside it, one at 2 is both the latest before it and inside.          *)
EXTENDS Projection

CONSTANTS t1, t2, cam, far, screen, here, there, tracker, person

MCSystemOf == [s \in Screens |-> IF s = far THEN there ELSE here]

Detection(trig, s, subj, track, ts, att) ==
    [kind |-> "detection", trig |-> trig, screen |-> s, subj |-> subj, track |-> track,
     ts |-> ts, att |-> att]
Gaze(s, subj, track, ts, frac) ==
    [kind |-> "gaze", screen |-> s, subj |-> subj, track |-> track, ts |-> ts, frac |-> frac]
AdRun(trig, target, status) ==
    [kind |-> "ad_run", screen |-> screen, trig |-> trig, target |-> target, status |-> status]
Playback(trig, s, of, start, end, status) ==
    [kind |-> "playback", screen |-> s, trig |-> trig, of |-> of, start |-> start,
     end |-> end, status |-> status]
Track(s, count) == [kind |-> "track", screen |-> s, track |-> tracker, count |-> count]
Match(trig, det) == [kind |-> "match", screen |-> NULL, trig |-> trig, det |-> det]
Made(trig) == [kind |-> "decision", screen |-> NULL, trig |-> trig]
Composed(trig, status) == [kind |-> "composition", screen |-> NULL, trig |-> trig, status |-> status]

(* One impression of an orchestrated round: the round's trigger t2 is not   *)
(* the trigger t1 of the person's detection; another camera reuses the      *)
(* track id in another system.                                              *)
Impression ==
    { Detection(t1, cam, person, tracker, 1, 1),
      Detection(NULL, cam, person, NULL, 2, 1),
      Detection(t2, far, NULL, tracker, 3, 1),
      Gaze(cam, NULL, tracker, 3, 1),
      Gaze(far, NULL, tracker, 3, 2),
      AdRun(t2, person, "playing"),
      Playback(t2, screen, NULL, 2, 4, "ended") }

(* The links between the lanes of the pipeline.                             *)
Links ==
    { Track(cam, 1), Track(cam, 2),
      Detection(t1, cam, person, tracker, 3, 1),
      Match(t1, NULL), Match(t1, 1), Made(t1),
      Composed(t1, "rendering"), AdRun(t1, NULL, "planned"),
      Playback(t2, screen, t1, 2, NULL, "started"),
      Playback(t2, screen, t1, NULL, 4, "interrupted") }
=============================================================================
