--------------------------- MODULE Authoring_proofs ---------------------------
(* BundleMatchesRow, ListsMatchTables and TypeOK for every set of slugs and *)
(* sources and every number of requests and faults.  For the first, the     *)
(* invariant says which uploads can be under way while a slug counts as     *)
(* settled: none that the API has given up on, and an upload marked alone   *)
(* is the only one of its slug and has its source in the sidecar once it is *)
(* ready.   For the second it follows one id from the request to the row,   *)
(* the answer and the page.  For the third it says whose number is whose.   *)
EXTENDS Authoring, TLAPS

\* What the argument needs of the shape of rows and uploads.
Shape ==
    /\ bundle \in [Slugs -> Sources \cup {None}]
    /\ components \subseteq Components
    /\ uploads \subseteq Uploads
    /\ settled \subseteq Slugs
    /\ asked \in Ids

Alone == \A u, w \in uploads : u.alone /\ w.slug = u.slug => w = u
Stored == \A u \in uploads : u.alone /\ u.at = "ready" => bundle[u.slug] = u.source
NoStraggler == \A u \in uploads : u.at = "given_up" => u.slug \notin settled
StoreInv == Shape /\ Alone /\ Stored /\ NoStraggler /\ BundleMatchesRow

\* The steps of the page and of the deletes: no bundle, no upload, no new row.
Aside ==
    /\ UNCHANGED <<bundle, uploads, settled>>
    /\ components' \subseteq components
    /\ asked' \in {asked, asked + 1} /\ asked' \in Ids

LEMMA AsideKeeps == ASSUME StoreInv, Aside PROVE StoreInv'
BY DEF StoreInv, Shape, Alone, Stored, NoStraggler, BundleMatchesRow, Aside, Ids

(* Every step that is not one of the five of an upload is aside.            *)
LEMMA PageStepsAside ==
    ASSUME StoreInv,
           \/ AskCreate \/ AskDeleteAd \/ AskDeleteComponent
           \/ \E c \in calls : Execute(c) \/ HearCreate(c) \/ HearDelete(c) \/ LoseCall(c)
           \/ \E a \in ads : Play(a)
           \/ \E t \in Tables : ReadList(t) \/ ShowList(t) \/ LoseList(t)
           \/ OpenAnew
           \/ \E e \in Shown("ads") : PreviewAd(e)
           \/ \E p \in previews : SettlePreview(p)
           \/ ClosePopup
    PROVE  Aside
<1> USE BoundsAssumption
<1>0. asked \in Ids
  BY DEF StoreInv, Shape
<1>a. asked' = asked => asked' \in {asked, asked + 1} /\ asked' \in Ids
  BY <1>0
<1>b. Ask => asked' \in {asked, asked + 1} /\ asked' \in Ids
  BY <1>0 DEF Ask, Fresh, Ids
<1>1. CASE AskCreate \/ AskDeleteAd \/ AskDeleteComponent
  BY <1>1, <1>b DEF Aside, AskCreate, AskDeleteAd, AskDeleteComponent, AskCall, server, store
<1>2. ASSUME NEW c \in calls, Execute(c) PROVE Aside
  BY <1>2, <1>a DEF Aside, Execute, CreateAd, Delete, store
<1>3. ASSUME NEW c \in calls, HearCreate(c) \/ HearDelete(c) \/ LoseCall(c) PROVE Aside
  BY <1>3, <1>a DEF Aside, HearCreate, HearDelete, LoseCall, server, store
<1>4. ASSUME NEW a \in ads, Play(a) PROVE Aside
  BY <1>4, <1>a DEF Aside, Play, store
<1>5. ASSUME NEW t \in Tables, ReadList(t) \/ ShowList(t) \/ LoseList(t) PROVE Aside
  BY <1>5, <1>a DEF Aside, ReadList, ShowList, LoseList, server, store
<1>6. CASE OpenAnew
  BY <1>6, <1>b DEF Aside, OpenAnew, server, store
<1>7. ASSUME NEW e \in Shown("ads"), PreviewAd(e) PROVE Aside
  BY <1>7, <1>b DEF Aside, PreviewAd, server, store
<1>8. ASSUME NEW p \in previews, SettlePreview(p) PROVE Aside
  BY <1>8, <1>a DEF Aside, SettlePreview, server, store
<1>9. CASE ClosePopup
  BY <1>9, <1>a DEF Aside, ClosePopup, server, store
<1> QED
  BY <1>1, <1>2, <1>3, <1>4, <1>5, <1>6, <1>7, <1>8, <1>9

LEMMA UploadKeeps ==
    ASSUME StoreInv, NEW s \in Slugs, NEW v \in Sources, Upload(s, v)
    PROVE  StoreInv'
<1> USE BoundsAssumption DEF StoreInv
<1> DEFINE New == [id |-> Fresh, slug |-> s, source |-> v, at |-> "sent",
                   alone |-> \A u \in uploads : u.slug # s]
           Marked(u) == [u EXCEPT !.alone = @ /\ u.slug # s]
<1>1. /\ uploads' = {Marked(u) : u \in uploads} \cup {New}
      /\ UNCHANGED <<bundle, components, settled>>
      /\ Fresh \in Ids /\ asked' \in Ids
  BY DEF Upload, Ask, server, Fresh, Ids, Shape
<1>2. \A u \in uploads : /\ Marked(u) \in Uploads
                         /\ Marked(u).slug = u.slug /\ Marked(u).at = u.at
                         /\ Marked(u).source = u.source
                         /\ Marked(u).alone <=> u.alone /\ u.slug # s
  BY DEF Shape, Uploads
<1>3. New \in Uploads /\ New.slug = s /\ New.at = "sent"
  BY <1>1 DEF Uploads
<1>a. \A w \in uploads' : w = New \/ \E x \in uploads : w = Marked(x)
  BY <1>1
<1>b. \A x \in uploads : Marked(x) \in uploads'
  BY <1>1
<1>c. New \in uploads'
  BY <1>1
<1>d. New.alone => \A u \in uploads : u.slug # s
  OBVIOUS
<1> HIDE DEF New, Marked
<1>4. Shape'
  BY <1>1, <1>2, <1>3, <1>a DEF Shape
<1>5. Alone'
  <2> SUFFICES ASSUME NEW u \in uploads', NEW w \in uploads', u.alone, w.slug = u.slug
               PROVE  w = u
    BY DEF Alone
  <2>1. CASE u = New
    BY <2>1, <1>a, <1>2, <1>3, <1>d
  <2>2. CASE u # New
    <3>1. PICK x \in uploads : u = Marked(x)
      BY <1>a, <2>2
    <3>2. x.alone /\ x.slug # s /\ w.slug = x.slug
      BY <3>1, <1>2
    <3>3. PICK y \in uploads : w = Marked(y)
      BY <3>2, <1>a, <1>3
    <3> QED
      BY <3>1, <3>2, <3>3, <1>2 DEF Alone
  <2> QED
    BY <2>1, <2>2
<1>6. Stored'
  <2> SUFFICES ASSUME NEW w \in uploads', w.alone, w.at = "ready"
               PROVE  bundle'[w.slug] = w.source
    BY DEF Stored
  <2>1. PICK x \in uploads : w = Marked(x)
    BY <1>a, <1>3
  <2> QED
    BY <2>1, <1>1, <1>2 DEF Stored
<1>7. NoStraggler'
  <2> SUFFICES ASSUME NEW w \in uploads', w.at = "given_up" PROVE w.slug \notin settled'
    BY DEF NoStraggler
  <2>1. PICK x \in uploads : w = Marked(x)
    BY <1>a, <1>3
  <2> QED
    BY <2>1, <1>1, <1>2 DEF NoStraggler
<1>8. BundleMatchesRow'
  <2> SUFFICES ASSUME NEW c \in components', c.status = "ready", c.slug \in settled',
                      \A u \in uploads' : u.slug # c.slug
               PROVE  bundle'[c.slug] = c.source
    BY DEF BundleMatchesRow
  <2>1. \A u \in uploads : u.slug # c.slug
    BY <1>b, <1>2
  <2> QED
    BY <2>1, <1>1 DEF BundleMatchesRow
<1> QED
  BY <1>4, <1>5, <1>6, <1>7, <1>8

LEMMA StoreBundleKeeps ==
    ASSUME StoreInv, NEW u \in uploads, StoreBundle(u) PROVE StoreInv'
<1> USE DEF StoreInv
<1> DEFINE Done == [u EXCEPT !.at = "ready"]
<1>1. /\ u.at \in {"sent", "given_up"}
      /\ bundle' = [bundle EXCEPT ![u.slug] = u.source]
      /\ uploads' = (uploads \ {u}) \cup (IF u.at = "sent" THEN {Done} ELSE {})
      /\ UNCHANGED <<components, settled, asked>>
  BY DEF StoreBundle
<1>2. /\ u \in Uploads /\ Done \in Uploads /\ Done.slug = u.slug
      /\ Done.source = u.source /\ Done.alone = u.alone /\ Done.at = "ready"
  BY DEF Shape, Uploads
<1>3. Shape'
  BY <1>1, <1>2 DEF Shape, Uploads
<1>a. \A w \in uploads' : w = Done \/ w \in uploads \ {u}
  BY <1>1
<1> HIDE DEF Done
<1>4. Alone'
  <2> SUFFICES ASSUME NEW w \in uploads', NEW x \in uploads', w.alone, x.slug = w.slug
               PROVE  x = w
    BY DEF Alone
  <2>1. CASE w = Done /\ x # Done
    BY <2>1, <1>a, <1>2 DEF Alone
  <2>2. CASE w # Done
    BY <2>2, <1>a, <1>2 DEF Alone
  <2> QED
    BY <2>1, <2>2
<1>5. bundle'[u.slug] = u.source /\ \A s \in Slugs \ {u.slug} : bundle'[s] = bundle[s]
  BY <1>1, <1>2 DEF Shape, Uploads
<1>6. Stored'
  <2> SUFFICES ASSUME NEW w \in uploads', w.alone, w.at = "ready"
               PROVE  bundle'[w.slug] = w.source
    BY DEF Stored
  <2>1. CASE w = Done
    BY <2>1, <1>2, <1>5
  <2>2. CASE w \in uploads /\ w # u
    <3>1. w.slug # u.slug /\ w.slug \in Slugs
      BY <2>2 DEF Alone, Shape, Uploads
    <3> QED
      BY <3>1, <2>2, <1>5 DEF Stored
  <2> QED
    BY <2>1, <2>2, <1>1
<1>7. NoStraggler'
  BY <1>1, <1>2 DEF NoStraggler
<1>8. BundleMatchesRow'
  <2> SUFFICES ASSUME NEW c \in components', c.status = "ready", c.slug \in settled',
                      \A w \in uploads' : w.slug # c.slug
               PROVE  bundle'[c.slug] = c.source
    BY DEF BundleMatchesRow
  <2>1. c.slug # u.slug
    BY <1>1, <1>2 DEF NoStraggler
  <2>2. \A w \in uploads : w.slug # c.slug
    BY <2>1, <1>1
  <2> QED
    BY <2>1, <2>2, <1>1, <1>5 DEF BundleMatchesRow, Shape
<1> QED
  BY <1>3, <1>4, <1>6, <1>7, <1>8

LEMMA FailBuildKeeps ==
    ASSUME StoreInv, NEW u \in uploads, FailBuild(u) PROVE StoreInv'
<1> USE DEF StoreInv
<1> DEFINE Done == [u EXCEPT !.at = "failed"]
<1>1. PICK b \in {bundle[u.slug], None} : bundle' = [bundle EXCEPT ![u.slug] = b]
  BY DEF FailBuild
<1>2. /\ u.at \in {"sent", "given_up"}
      /\ uploads' = (uploads \ {u}) \cup (IF u.at = "sent" THEN {Done} ELSE {})
      /\ UNCHANGED <<components, settled, asked>>
  BY DEF FailBuild
<1>3. /\ u \in Uploads /\ Done \in Uploads /\ Done.slug = u.slug
      /\ Done.alone = u.alone /\ Done.at = "failed"
  BY DEF Shape, Uploads
<1>4. Shape'
  BY <1>1, <1>2, <1>3 DEF Shape, Uploads
<1>a. \A w \in uploads' : w = Done \/ w \in uploads \ {u}
  BY <1>2
<1> HIDE DEF Done
<1>5. \A s \in Slugs \ {u.slug} : bundle'[s] = bundle[s]
  BY <1>1 DEF Shape
<1>6. Alone'
  <2> SUFFICES ASSUME NEW w \in uploads', NEW x \in uploads', w.alone, x.slug = w.slug
               PROVE  x = w
    BY DEF Alone
  <2>1. CASE w = Done /\ x # Done
    BY <2>1, <1>a, <1>3 DEF Alone
  <2>2. CASE w # Done
    BY <2>2, <1>a, <1>3 DEF Alone
  <2> QED
    BY <2>1, <2>2
<1>7. Stored'
  <2> SUFFICES ASSUME NEW w \in uploads', w.alone, w.at = "ready"
               PROVE  bundle'[w.slug] = w.source
    BY DEF Stored
  <2>1. w \in uploads /\ w # u
    BY <1>a, <1>3
  <2>2. w.slug # u.slug /\ w.slug \in Slugs
    BY <2>1 DEF Alone, Shape, Uploads
  <2> QED
    BY <2>1, <2>2, <1>5 DEF Stored
<1>8. NoStraggler'
  BY <1>2, <1>3 DEF NoStraggler
<1>9. BundleMatchesRow'
  <2> SUFFICES ASSUME NEW c \in components', c.status = "ready", c.slug \in settled',
                      \A w \in uploads' : w.slug # c.slug
               PROVE  bundle'[c.slug] = c.source
    BY DEF BundleMatchesRow
  <2>1. c.slug # u.slug
    BY <1>2, <1>3 DEF NoStraggler
  <2>2. c.slug \in Slugs /\ \A w \in uploads : w.slug # c.slug
    BY <2>1, <1>2 DEF Shape
  <2> QED
    BY <2>1, <2>2, <1>2, <1>5 DEF BundleMatchesRow
<1> QED
  BY <1>4, <1>6, <1>7, <1>8, <1>9

LEMMA SaveComponentKeeps ==
    ASSUME StoreInv, NEW u \in uploads, SaveComponent(u) PROVE StoreInv'
<1> USE DEF StoreInv
<1>1. /\ u.at \in {"ready", "failed"}
      /\ uploads' = uploads \ {u}
      /\ settled' = IF u.alone THEN settled \cup {u.slug} ELSE settled \ {u.slug}
      /\ UNCHANGED <<bundle, asked>>
  BY DEF SaveComponent
<1>2. \A c \in components' : \/ c \in components /\ c.slug # u.slug
                             \/ /\ c \in Components /\ c.status = u.at
                                /\ c.slug = u.slug /\ c.source = u.source
  BY DEF SaveComponent, Shape, Uploads, Components
<1>3. Shape'
  BY <1>1, <1>2 DEF Shape, Uploads
<1>4. Alone' /\ Stored'
  BY <1>1 DEF Alone, Stored
<1>5. NoStraggler'
  <2> SUFFICES ASSUME NEW w \in uploads', w.at = "given_up" PROVE w.slug \notin settled'
    BY DEF NoStraggler
  <2>1. u.alone => w.slug # u.slug
    BY <1>1 DEF Alone
  <2> QED
    BY <2>1, <1>1 DEF NoStraggler
<1>6. BundleMatchesRow'
  <2> SUFFICES ASSUME NEW c \in components', c.status = "ready", c.slug \in settled',
                      \A w \in uploads' : w.slug # c.slug
               PROVE  bundle'[c.slug] = c.source
    BY DEF BundleMatchesRow
  <2>1. CASE c.slug = u.slug
    BY <2>1, <1>1, <1>2 DEF Stored
  <2>2. CASE c.slug # u.slug
    BY <2>2, <1>1, <1>2 DEF BundleMatchesRow
  <2> QED
    BY <2>1, <2>2
<1> QED
  BY <1>3, <1>4, <1>5, <1>6

LEMMA FailUploadKeeps ==
    ASSUME StoreInv, NEW u \in uploads, FailUpload(u) PROVE StoreInv'
<1> USE DEF StoreInv
<1> DEFINE Left == [u EXCEPT !.at = "given_up"]
<1>1. /\ UNCHANGED <<bundle, components, asked>>
      /\ settled' = settled \ {u.slug}
      /\ \/ uploads' = (uploads \ {u}) \cup {Left}
         \/ uploads' = uploads \ {u}
  BY DEF FailUpload, server
<1>2. /\ u \in Uploads /\ Left \in Uploads /\ Left.slug = u.slug
      /\ Left.alone = u.alone /\ Left.at = "given_up"
  BY DEF Shape, Uploads
<1>3. Shape'
  BY <1>1, <1>2 DEF Shape
<1>4. Alone' /\ Stored'
  BY <1>1, <1>2 DEF Alone, Stored
<1>5. NoStraggler'
  BY <1>1, <1>2 DEF NoStraggler
<1>6. BundleMatchesRow'
  <2> SUFFICES ASSUME NEW c \in components', c.status = "ready", c.slug \in settled',
                      \A w \in uploads' : w.slug # c.slug
               PROVE  bundle'[c.slug] = c.source
    BY DEF BundleMatchesRow
  <2>1. c.slug # u.slug /\ \A w \in uploads : w.slug # c.slug
    BY <1>1
  <2> QED
    BY <2>1, <1>1 DEF BundleMatchesRow
<1> QED
  BY <1>3, <1>4, <1>5, <1>6

LEMMA StoreInvHolds == Spec => []StoreInv
<1>1. Init => StoreInv
  BY BoundsAssumption DEF Init, StoreInv, Shape, Components, Alone, Stored, NoStraggler, BundleMatchesRow, Ids
<1>2. StoreInv /\ [Next]_vars => StoreInv'
  <2> SUFFICES ASSUME StoreInv, [Next]_vars PROVE StoreInv'
    OBVIOUS
  <2>1. CASE UNCHANGED vars
    BY <2>1 DEF vars, server, store, StoreInv, Shape, Alone, Stored, NoStraggler, BundleMatchesRow
  <2>2. CASE \E s \in Slugs, v \in Sources : Upload(s, v)
    BY <2>2, UploadKeeps
  <2>3. CASE \E u \in uploads : StoreBundle(u) \/ FailBuild(u) \/ SaveComponent(u) \/ FailUpload(u)
    BY <2>3, StoreBundleKeeps, FailBuildKeeps, SaveComponentKeeps, FailUploadKeeps
  <2>4. CASE ~(\E s \in Slugs, v \in Sources : Upload(s, v))
             /\ ~(\E u \in uploads : StoreBundle(u) \/ FailBuild(u) \/ SaveComponent(u) \/ FailUpload(u)) /\ Next
    BY <2>4, PageStepsAside, AsideKeeps DEF Next
  <2> QED
    BY <2>1, <2>2, <2>3, <2>4
<1> QED
  BY <1>1, <1>2, PTL DEF Spec

(* Once an upload of a component has run to its end alone, its row and its  *)
(* bundle agree, however many failed, overlapped or came late before it     *)
(* (main.py upload_component: the sidecar first, then the upsert by slug).  *)
THEOREM BundleMatchesRowHolds == Spec => []BundleMatchesRow
<1>1. StoreInv => BundleMatchesRow
  BY DEF StoreInv
<1> QED
  BY <1>1, StoreInvHolds, PTL
-----------------------------------------------------------------------------
(* ListsMatchTables.  The invariant follows one row through the page: before *)
(* its create is executed it is nowhere; after a create the first list did   *)
(* not read, it is in the table only, until the answer is heard; a delete    *)
(* that succeeded leaves it out of the table for good.  What the page shows  *)
(* then differs from the table only for rows with an answer on its way.      *)

Typed ==
    /\ ads \subseteq [id : Ids, component : Ids]
    /\ calls \subseteq Calls
    /\ loads \in [Tables -> {"asked", "taken", "landed", "failed"}]
    /\ taken \in [Tables -> SUBSET Ids]
    /\ lists \in [Tables -> [Entries -> Nat]]
    /\ asked \in Ids

NoDelete(i) == \A d \in calls : d.kind = "delete_ad" => d.of # i
Absent(i) == i \notin taken["ads"] /\ lists["ads"][i] = 0 /\ NoDelete(i)

OneCall == \A c, d \in calls : c.id = d.id => c = d
Heard == \A c \in calls : c.answer # "pending" => c.page
Unused == \A i \in Ids : i > asked => i \notin Rows("ads") /\ Absent(i) /\ \A c \in calls : c.id # i
Unborn == \A c \in calls : c.kind = "create" /\ c.answer = "pending" =>
              c.id \notin Rows("ads") /\ Absent(c.id)
Born == \A c \in calls : c.kind = "create" /\ c.answer = "ok" /\ ~c.early =>
            c.id \in Rows("ads") /\ Absent(c.id) /\ loads["ads"] # "asked"
Gone == \A c \in calls : c.kind = "delete_ad" /\ c.answer = "ok" => c.of \notin Rows("ads")
LifeInv == Typed /\ OneCall /\ Heard /\ Unused /\ Unborn /\ Born /\ Gone

Late(i, t) == \E c \in calls : c.answer = "ok" /\ ~c.early /\ Table(c) = t /\ Row(c) = i
AdsInStep ==
    \A i \in Ids \ doubtful : ~Late(i, "ads") =>
        /\ loads["ads"] = "taken" => (i \in taken["ads"] <=> i \in Rows("ads"))
        /\ loads["ads"] = "landed" => lists["ads"][i] = IF i \in Rows("ads") THEN 1 ELSE 0
ComponentsInStep ==
    \A i \in Ids \ doubtful : ~Late(i, "components") =>
        /\ loads["components"] = "taken" /\ i \in taken["components"] => i \in Rows("components")
        /\ loads["components"] = "landed" /\ lists["components"][i] > 0 => i \in Rows("components")
ListInv == LifeInv /\ AdsInStep /\ ComponentsInStep

\* What a step that sends, hears and executes nothing may change.
Elsewhere ==
    /\ UNCHANGED <<ads, calls, listing, doubtful>>
    /\ Rows("components") \subseteq Rows("components")'
    /\ asked' \in {asked, asked + 1} /\ asked' \in Ids

LEMMA ElsewhereKeeps == ASSUME ListInv, Elsewhere PROVE ListInv'
<1> USE BoundsAssumption DEF ListInv, LifeInv
<1>1. /\ UNCHANGED <<ads, calls, loads, taken, lists, doubtful>>
      /\ asked \in Ids /\ asked' \in Ids /\ asked' >= asked
      /\ Rows("ads")' = Rows("ads")
  BY DEF Elsewhere, listing, Typed, Ids, Rows
<1>2. Typed' /\ OneCall' /\ Heard'
  BY <1>1 DEF Typed, OneCall, Heard
<1>3. Unused'
  BY <1>1 DEF Unused, Absent, NoDelete, Ids
<1>4. Unborn' /\ Born' /\ Gone'
  BY <1>1 DEF Unborn, Born, Gone, Absent, NoDelete
<1>5. AdsInStep'
  BY <1>1 DEF AdsInStep, Late, Table, Row
<1>6. ComponentsInStep'
  BY <1>1 DEF ComponentsInStep, Late, Table, Row, Elsewhere
<1> QED
  BY <1>2, <1>3, <1>4, <1>5, <1>6

LEMMA AskKeeps ==
    ASSUME ListInv, NEW kind \in {"create", "delete_ad", "delete_component"},
           NEW of \in Entries \cup {None}, AskCall(kind, of),
           kind = "delete_ad" => of \in Shown("ads")
    PROVE  ListInv'
<1> USE BoundsAssumption DEF ListInv, LifeInv
<1> DEFINE New == [id |-> Fresh, kind |-> kind, of |-> of, answer |-> "pending",
                   early |-> FALSE, page |-> TRUE]
<1>1. /\ calls' = calls \cup {New}
      /\ UNCHANGED <<ads, loads, taken, lists, doubtful>>
      /\ asked' = asked + 1 /\ asked \in Nat /\ asked' \in Ids /\ Fresh = asked'
      /\ Rows("ads")' = Rows("ads") /\ Rows("components")' = Rows("components")
  BY DEF AskCall, Ask, Fresh, listing, server, Typed, Ids, Rows
<1>2. /\ New \in Calls /\ New.id = asked' /\ New.kind = kind /\ New.of = of
      /\ New.answer = "pending" /\ New.page
  BY <1>1 DEF Calls
<1> HIDE DEF New
<1>3. asked' \notin Rows("ads") /\ Absent(asked') /\ \A c \in calls : c.id # asked'
  BY <1>1 DEF Unused
<1>4. Typed' /\ OneCall' /\ Heard'
  BY <1>1, <1>2, <1>3 DEF Typed, OneCall, Heard
<1>5. \A i \in Ids : lists["ads"][i] = 0 /\ NoDelete(i) => NoDelete(i)'
  <2> SUFFICES ASSUME NEW i \in Ids, lists["ads"][i] = 0, NoDelete(i) PROVE NoDelete(i)'
    OBVIOUS
  <2>1. New.kind = "delete_ad" => New.of # i
    BY <1>2 DEF Shown
  <2> QED
    BY <2>1, <1>1 DEF NoDelete
<1>6. \A i \in Ids : Absent(i) => Absent(i)'
  BY <1>1, <1>5 DEF Absent
<1>7. Unused'
  BY <1>1, <1>2, <1>6 DEF Unused, Ids
<1>8. \A c \in calls : c.id \in Ids
  BY DEF Typed, Calls
<1>9. Unborn' /\ Born'
  BY <1>1, <1>2, <1>3, <1>6, <1>8 DEF Unborn, Born
<1>10. Gone'
  BY <1>1, <1>2 DEF Gone
<1>11. \A i, t : Late(i, t) => Late(i, t)'
  BY <1>1 DEF Late, Table, Row
<1>12. AdsInStep' /\ ComponentsInStep'
  BY <1>1, <1>11 DEF AdsInStep, ComponentsInStep
<1> QED
  BY <1>4, <1>7, <1>9, <1>10, <1>12

\* A list is read: nobody has executed a create unseen by it yet.
LEMMA ReadListKeeps ==
    ASSUME ListInv, Shape, NEW t \in Tables, ReadList(t) PROVE ListInv'
<1> USE DEF ListInv, LifeInv
<1>1. /\ UNCHANGED <<ads, components, calls, doubtful, asked, lists>>
      /\ Rows("ads")' = Rows("ads") /\ Rows("components")' = Rows("components")
      /\ loads[t] = "asked" /\ loads' = [loads EXCEPT ![t] = "taken"]
      /\ taken' = [taken EXCEPT ![t] = Rows(t)]
  BY DEF ReadList, server, Rows
<1>2. Rows("ads") \subseteq Ids /\ Rows("components") \subseteq Ids
  BY DEF Rows, Typed, Shape, Components
<1>3. t \in {"ads", "components"} /\ Rows(t) \subseteq Ids
  BY <1>2 DEF Tables
<1>4. Typed'
  BY <1>1, <1>3 DEF Typed
<1>5. OneCall' /\ Heard' /\ Gone'
  BY <1>1 DEF OneCall, Heard, Gone
<1>6. \A i : i \notin Rows("ads") /\ Absent(i) => Absent(i)'
  BY <1>1, <1>3 DEF Absent, NoDelete, Typed
<1>7. Unused' /\ Unborn'
  BY <1>1, <1>6 DEF Unused, Unborn
<1>8. Born'
  <2>1. CASE t = "ads"
    BY <2>1, <1>1 DEF Born, Typed
  <2>2. CASE t = "components"
    <3>1. taken'["ads"] = taken["ads"] /\ loads'["ads"] = loads["ads"]
      BY <2>2, <1>1 DEF Typed
    <3> QED
      BY <3>1, <1>1 DEF Born, Absent, NoDelete
  <2> QED
    BY <2>1, <2>2, <1>3
<1>9. \A i, x : Late(i, x)' <=> Late(i, x)
  BY <1>1 DEF Late, Table, Row
<1>10. AdsInStep'
  BY <1>1, <1>3, <1>9 DEF AdsInStep, Typed
<1>11. ComponentsInStep'
  BY <1>1, <1>3, <1>9 DEF ComponentsInStep, Typed
<1> QED
  BY <1>4, <1>5, <1>7, <1>8, <1>10, <1>11

LEMMA ShowListKeeps ==
    ASSUME ListInv, NEW t \in Tables, ShowList(t) \/ LoseList(t) PROVE ListInv'
<1> USE DEF ListInv, LifeInv
<1>1. /\ UNCHANGED <<ads, components, calls, doubtful, asked, taken>>
      /\ Rows("ads")' = Rows("ads") /\ Rows("components")' = Rows("components")
      /\ \/ /\ loads[t] = "taken" /\ loads' = [loads EXCEPT ![t] = "landed"]
            /\ lists' = [lists EXCEPT ![t] = [e \in Entries |-> IF e \in taken[t] THEN 1 ELSE 0]]
         \/ loads' = [loads EXCEPT ![t] = "failed"] /\ lists' = lists
  BY DEF ShowList, LoseList, server, Rows
<1>2. t \in {"ads", "components"}
  BY DEF Tables
<1>3. /\ \A x \in Tables \ {t} : loads'[x] = loads[x] /\ lists'[x] = lists[x]
      /\ \/ loads'[t] = "landed" /\ loads[t] = "taken"
            /\ \A i \in Ids : lists'[t][i] = IF i \in taken[t] THEN 1 ELSE 0
         \/ loads'[t] = "failed" /\ lists'[t] = lists[t]
  BY <1>1 DEF Typed, Entries
<1>4. [e \in Entries |-> IF e \in taken[t] THEN 1 ELSE 0] \in [Entries -> Nat]
  OBVIOUS
<1>5. Typed'
  BY <1>1, <1>4 DEF Typed
<1>6. OneCall' /\ Heard' /\ Gone'
  BY <1>1 DEF OneCall, Heard, Gone
<1>7. \A i \in Ids : Absent(i) => Absent(i)'
  BY <1>1, <1>2, <1>3 DEF Absent, NoDelete, Tables
<1>8. \A c \in calls : c.id \in Ids
  BY DEF Typed, Calls
<1>9. Unused' /\ Unborn'
  BY <1>1, <1>7, <1>8 DEF Unused, Unborn
<1>10. Born'
  BY <1>1, <1>2, <1>3, <1>7, <1>8 DEF Born, Tables
<1>11. \A i, x : Late(i, x)' <=> Late(i, x)
  BY <1>1 DEF Late, Table, Row
<1>12. AdsInStep'
  BY <1>1, <1>2, <1>3, <1>11 DEF AdsInStep, Tables
<1>13. ComponentsInStep'
  BY <1>1, <1>2, <1>3, <1>11 DEF ComponentsInStep, Tables
<1> QED
  BY <1>5, <1>6, <1>9, <1>10, <1>12, <1>13

LEMMA OpenAnewKeeps == ASSUME ListInv, OpenAnew PROVE ListInv'
<1> USE BoundsAssumption DEF ListInv, LifeInv
<1> DEFINE Left(d) == [d EXCEPT !.page = FALSE]
<1>1. /\ UNCHANGED <<ads, components>>
      /\ Rows("ads")' = Rows("ads")
      /\ asked' = asked + 1 /\ asked \in Nat /\ asked' \in Ids
      /\ loads' = [x \in Tables |-> "asked"] /\ taken' = [x \in Tables |-> {}]
      /\ lists' = [x \in Tables |-> Nothing]
  BY DEF OpenAnew, Ask, Fresh, server, Rows, Typed, Ids
<1>2. \A c \in calls' : \E d \in calls : d.answer = "pending" /\ c = Left(d)
  BY DEF OpenAnew
<1>3. \A d \in calls : /\ Left(d) \in Calls /\ Left(d).id = d.id /\ Left(d).kind = d.kind
                        /\ Left(d).of = d.of /\ Left(d).answer = d.answer
  BY DEF Typed, Calls
<1> HIDE DEF Left
<1>4. Nothing \in [Entries -> Nat] /\ \A i \in Ids : Nothing[i] = 0
  BY DEF Nothing, Entries
<1>5. Typed' /\ OneCall' /\ Heard'
  <2>1. Typed'
    BY <1>1, <1>2, <1>3, <1>4 DEF Typed
  <2>2. OneCall'
    BY <1>2, <1>3 DEF OneCall
  <2>3. Heard'
    BY <1>2, <1>3 DEF Heard
  <2> QED
    BY <2>1, <2>2, <2>3
<1>6. \A i \in Ids : NoDelete(i) => Absent(i)'
  <2> SUFFICES ASSUME NEW i \in Ids, NoDelete(i) PROVE Absent(i)'
    OBVIOUS
  <2>1. NoDelete(i)'
    BY <1>2, <1>3 DEF NoDelete
  <2> QED
    BY <2>1, <1>1, <1>4 DEF Absent, Tables
<1>7. Unused'
  <2> SUFFICES ASSUME NEW i \in Ids, i > asked'
               PROVE  i \notin Rows("ads")' /\ Absent(i)' /\ \A c \in calls' : c.id # i
    BY DEF Unused
  <2>1. i > asked
    BY <1>1 DEF Ids
  <2>2. i \notin Rows("ads") /\ Absent(i) /\ \A d \in calls : d.id # i
    BY <2>1 DEF Unused
  <2>3. Absent(i)'
    BY <2>2, <1>6 DEF Absent
  <2>4. \A c \in calls' : c.id # i
    BY <2>2, <1>2, <1>3
  <2> QED
    BY <2>2, <2>3, <2>4, <1>1
<1>8. Unborn'
  <2> SUFFICES ASSUME NEW c \in calls', c.kind = "create"
               PROVE  c.id \notin Rows("ads")' /\ Absent(c.id)'
    BY DEF Unborn
  <2>1. PICK d \in calls : d.answer = "pending" /\ c = Left(d)
    BY <1>2
  <2>2. d.kind = "create" /\ d.id = c.id /\ d.id \in Ids
    BY <2>1, <1>3 DEF Typed, Calls
  <2> QED
    BY <2>1, <2>2, <1>1, <1>6 DEF Unborn, Absent
<1>9. \A c \in calls' : c.answer = "pending"
  BY <1>2, <1>3
<1>10. Born' /\ Gone'
  BY <1>9 DEF Born, Gone
<1>11. AdsInStep' /\ ComponentsInStep'
  BY <1>1 DEF AdsInStep, ComponentsInStep, Tables
<1> QED
  BY <1>5, <1>7, <1>8, <1>10, <1>11

LEMMA LoseCallKeeps == ASSUME ListInv, NEW c \in calls, LoseCall(c) PROVE ListInv'
<1> USE DEF ListInv, LifeInv
<1> DEFINE Left == [c EXCEPT !.page = FALSE]
<1>1. /\ UNCHANGED <<ads, components, loads, taken, lists, asked>>
      /\ Rows("ads")' = Rows("ads") /\ Rows("components")' = Rows("components")
      /\ \A d \in calls' : d \in calls \ {c} \/ (c.answer = "pending" /\ d = Left)
      /\ \A d \in calls \ {c} : d \in calls'
      /\ doubtful \subseteq doubtful'
      /\ c.answer = "ok" /\ ~c.early => Row(c) \in doubtful'
  BY DEF LoseCall, server, listing, Rows
<1>2. /\ c \in Calls /\ Left \in Calls /\ Left.id = c.id /\ Left.kind = c.kind
      /\ Left.of = c.of /\ Left.answer = c.answer
  BY DEF Typed, Calls
<1> HIDE DEF Left
<1>3. Typed'
  BY <1>1, <1>2 DEF Typed
<1>4. OneCall' /\ Heard'
  BY <1>1, <1>2 DEF OneCall, Heard
<1>5. \A i : Absent(i) => Absent(i)'
  BY <1>1, <1>2 DEF Absent, NoDelete
<1>6. Unused'
  BY <1>1, <1>2, <1>5 DEF Unused
<1>7. Unborn'
  BY <1>1, <1>2, <1>5 DEF Unborn
<1>8. Born' /\ Gone'
  BY <1>1, <1>2, <1>5 DEF Born, Gone
<1>9. \A i, x : Late(i, x) => Late(i, x)' \/ i \in doubtful'
  BY <1>1 DEF Late, Table, Row
<1>10. AdsInStep' /\ ComponentsInStep'
  BY <1>1, <1>9 DEF AdsInStep, ComponentsInStep
<1> QED
  BY <1>3, <1>4, <1>6, <1>7, <1>8, <1>10

LEMMA ExecuteKeeps == ASSUME ListInv, Shape, NEW c \in calls, Execute(c) PROVE ListInv'
<1> USE DEF ListInv, LifeInv
<1> DEFINE early == loads[Table(c)] = "asked"
           Done == [c EXCEPT !.answer = Answer(c), !.early = early]
<1>1. /\ UNCHANGED <<loads, taken, lists, asked>>
      /\ c.answer = "pending"
      /\ \A d \in calls' : d \in calls \ {c} \/ (c.page /\ d = Done)
      /\ \A d \in calls \ {c} : d \in calls'
      /\ c.page => Done \in calls'
      /\ doubtful \subseteq doubtful'
      /\ ~c.page /\ ~early /\ Answer(c) = "ok" => Row(c) \in doubtful'
  BY DEF Execute, listing
<1>2. Answer(c) \in {"ok", "refused", "error"}
  BY DEF Answer, AdAnswer
<1>3. /\ c \in Calls /\ Done \in Calls /\ Done.id = c.id /\ Done.kind = c.kind
      /\ Done.of = c.of /\ Done.answer = Answer(c) /\ Done.early = early /\ Done.page = c.page
      /\ Table(Done) = Table(c) /\ Row(Done) = Row(c)
  BY <1>2 DEF Typed, Calls, Table, Row
<1> HIDE DEF Done
<1>4. \A d \in calls' : d.kind = "delete_ad" => \E e \in calls : e.kind = "delete_ad" /\ e.of = d.of
  BY <1>1, <1>3
<1>5. \A i : Absent(i) => Absent(i)'
  BY <1>1, <1>4 DEF Absent, NoDelete
<1>6. OneCall' /\ Heard'
  BY <1>1, <1>3 DEF OneCall, Heard
<1>7. \A i, x : Late(i, x)' => Late(i, x) \/ (i = Row(c) /\ x = Table(c) /\ Answer(c) = "ok")
  BY <1>1, <1>3 DEF Late
<1>8. \A i, x : Late(i, x) => Late(i, x)'
  BY <1>1 DEF Late
<1>9. Answer(c) = "ok" /\ ~early => Late(Row(c), Table(c))' \/ Row(c) \in doubtful'
  BY <1>1, <1>3 DEF Late
<1>10. CASE c.kind = "create"
  <2>1. c.of \in Rows("components") => c.of # None
    BY ValuesAssumption DEF Rows, Shape, Components, Ids
  <2>2. Answer(c) = "ok" <=> c.of \in Rows("components")
    BY <1>10, <2>1 DEF Answer, AdAnswer
  <2>3. /\ components' = components
        /\ ads' = IF Answer(c) = "ok" THEN ads \cup {[id |-> c.id, component |-> c.of]} ELSE ads
    BY <1>10, <2>2 DEF Execute, CreateAd
  <2>4. /\ Rows("components")' = Rows("components")
        /\ Rows("ads")' = IF Answer(c) = "ok" THEN Rows("ads") \cup {c.id} ELSE Rows("ads")
    <3>1. Rows("ads") = {r.id : r \in ads} /\ Rows("ads")' = {r.id : r \in ads'}
      BY DEF Rows
    <3>2. [id |-> c.id, component |-> c.of].id = c.id
      OBVIOUS
    <3>3. CASE Answer(c) = "ok"
      BY <3>1, <3>2, <3>3, <2>3 DEF Rows
    <3>4. CASE Answer(c) # "ok"
      BY <3>1, <3>4, <2>3 DEF Rows
    <3> QED
      BY <3>3, <3>4
  <2>5. Typed'
    <3>1. c.of \in Rows("components") => c.of \in Ids
      BY DEF Rows, Shape, Components
    <3> QED
      BY <2>2, <2>3, <3>1, <1>1, <1>3 DEF Typed, Calls
  <2>6. c.id \in Ids /\ c.id \notin Rows("ads") /\ Absent(c.id) /\ Row(c) = c.id /\ Table(c) = "ads"
    BY <1>1, <1>3, <1>10 DEF Unborn, Calls, Row, Table
  <2>7. Unused'
    <3> SUFFICES ASSUME NEW i \in Ids, i > asked'
                 PROVE  i \notin Rows("ads")' /\ Absent(i)' /\ \A d \in calls' : d.id # i
      BY DEF Unused
    <3>1. i \notin Rows("ads") /\ Absent(i) /\ \A d \in calls : d.id # i
      BY <1>1 DEF Unused
    <3> QED
      BY <3>1, <1>1, <1>3, <1>5, <2>4
  <2>8. Unborn'
    <3> SUFFICES ASSUME NEW d \in calls', d.kind = "create", d.answer = "pending"
                 PROVE  d.id \notin Rows("ads")' /\ Absent(d.id)'
      BY DEF Unborn
    <3>1. d \in calls /\ d # c
      BY <1>1, <1>2, <1>3
    <3>2. d.id # c.id
      BY <3>1 DEF OneCall
    <3> QED
      BY <3>1, <3>2, <1>5, <2>4 DEF Unborn
  <2>9. Born'
    <3> SUFFICES ASSUME NEW d \in calls', d.kind = "create", d.answer = "ok", ~d.early
                 PROVE  d.id \in Rows("ads")' /\ Absent(d.id)' /\ loads'["ads"] # "asked"
      BY DEF Born
    <3>1. CASE d \in calls
      BY <3>1, <1>1, <1>5, <2>4 DEF Born
    <3>2. CASE d = Done
      BY <3>2, <1>1, <1>3, <1>5, <2>4, <2>6
    <3> QED
      BY <3>1, <3>2, <1>1
  <2>10. Gone'
    <3> SUFFICES ASSUME NEW d \in calls', d.kind = "delete_ad", d.answer = "ok"
                 PROVE  d.of \notin Rows("ads")'
      BY DEF Gone
    <3>1. d \in calls
      BY <1>1, <1>3, <1>10
    <3>2. d.of # c.id
      BY <3>1, <2>6 DEF Absent, NoDelete
    <3> QED
      BY <3>1, <3>2, <2>4 DEF Gone
  <2>11. AdsInStep'
    <3> SUFFICES ASSUME NEW i \in Ids \ doubtful', ~Late(i, "ads")'
                 PROVE  /\ loads["ads"] = "taken" => (i \in taken["ads"] <=> i \in Rows("ads")')
                        /\ loads["ads"] = "landed" =>
                               lists["ads"][i] = IF i \in Rows("ads")' THEN 1 ELSE 0
      BY <1>1 DEF AdsInStep
    <3>1. i \in Ids \ doubtful /\ ~Late(i, "ads")
      BY <1>1, <1>8
    <3>2. Rows("ads")' # Rows("ads") /\ i = c.id => loads["ads"] = "asked"
      BY <1>9, <2>4, <2>6
    <3> QED
      BY <3>1, <3>2, <2>4 DEF AdsInStep
  <2>12. ComponentsInStep'
    BY <1>1, <1>8, <2>4 DEF ComponentsInStep
  <2> QED
    BY <2>5, <1>6, <2>7, <2>8, <2>9, <2>10, <2>11, <2>12
<1>11. CASE c.kind # "create"
  <2>1. /\ ads' = IF c.kind = "delete_ad" /\ Deletable(c) THEN {a \in ads : a.id # c.of} ELSE ads
        /\ components' = IF c.kind = "delete_component" /\ Deletable(c)
                         THEN {d \in components : d.id # c.of} ELSE components
        /\ Answer(c) = IF Deletable(c) THEN "ok" ELSE "error"
        /\ Row(c) = c.of
        /\ c.kind = "delete_ad" => Table(c) = "ads"
        /\ c.kind = "delete_component" => Table(c) = "components"
    BY <1>11 DEF Execute, Delete, Answer, Row, Table
  <2>2. /\ Rows("ads")' = IF c.kind = "delete_ad" /\ Deletable(c)
                          THEN Rows("ads") \ {c.of} ELSE Rows("ads")
        /\ Rows("components")' = IF c.kind = "delete_component" /\ Deletable(c)
                                 THEN Rows("components") \ {c.of} ELSE Rows("components")
    BY <2>1 DEF Rows
  <2>3. Typed'
    BY <2>1, <1>1, <1>3 DEF Typed
  <2>4. Unused'
    <3> SUFFICES ASSUME NEW i \in Ids, i > asked'
                 PROVE  i \notin Rows("ads")' /\ Absent(i)' /\ \A d \in calls' : d.id # i
      BY DEF Unused
    <3>1. i \notin Rows("ads") /\ Absent(i) /\ \A d \in calls : d.id # i
      BY <1>1 DEF Unused
    <3> QED
      BY <3>1, <1>1, <1>3, <1>5, <2>2
  <2>5. \A d \in calls' : d.kind = "create" => d \in calls
    BY <1>1, <1>3, <1>11
  <2>6. Unborn'
    BY <2>5, <1>5, <2>2 DEF Unborn
  <2>7. Born'
    <3> SUFFICES ASSUME NEW d \in calls', d.kind = "create", d.answer = "ok", ~d.early
                 PROVE  d.id \in Rows("ads")' /\ Absent(d.id)' /\ loads'["ads"] # "asked"
      BY DEF Born
    <3>1. d.id \in Rows("ads") /\ Absent(d.id) /\ loads["ads"] # "asked"
      BY <2>5 DEF Born
    <3>2. c.kind = "delete_ad" => c.of # d.id
      BY <3>1 DEF Absent, NoDelete
    <3> QED
      BY <3>1, <3>2, <1>1, <1>5, <2>2
  <2>8. Gone'
    <3> SUFFICES ASSUME NEW d \in calls', d.kind = "delete_ad", d.answer = "ok"
                 PROVE  d.of \notin Rows("ads")'
      BY DEF Gone
    <3>1. CASE d \in calls
      BY <3>1, <2>2 DEF Gone
    <3>2. CASE d = Done
      BY <3>2, <1>3, <2>1, <2>2
    <3> QED
      BY <3>1, <3>2, <1>1
  <2>9. AdsInStep'
    <3> SUFFICES ASSUME NEW i \in Ids \ doubtful', ~Late(i, "ads")'
                 PROVE  /\ loads["ads"] = "taken" => (i \in taken["ads"] <=> i \in Rows("ads")')
                        /\ loads["ads"] = "landed" =>
                               lists["ads"][i] = IF i \in Rows("ads")' THEN 1 ELSE 0
      BY <1>1 DEF AdsInStep
    <3>1. i \in Ids \ doubtful /\ ~Late(i, "ads")
      BY <1>1, <1>8
    <3>2. Rows("ads")' # Rows("ads") /\ i = c.of => loads["ads"] = "asked"
      BY <1>9, <2>1, <2>2
    <3> QED
      BY <3>1, <3>2, <2>2 DEF AdsInStep
  <2>10. ComponentsInStep'
    <3> SUFFICES ASSUME NEW i \in Ids \ doubtful', ~Late(i, "components")'
                 PROVE  /\ loads["components"] = "taken" /\ i \in taken["components"] =>
                               i \in Rows("components")'
                        /\ loads["components"] = "landed" /\ lists["components"][i] > 0 =>
                               i \in Rows("components")'
      BY <1>1 DEF ComponentsInStep
    <3>1. i \in Ids \ doubtful /\ ~Late(i, "components")
      BY <1>1, <1>8
    <3>2. Rows("components")' # Rows("components") /\ i = c.of => loads["components"] = "asked"
      BY <1>9, <2>1, <2>2
    <3> QED
      BY <3>1, <3>2, <2>2 DEF ComponentsInStep
  <2> QED
    BY <2>3, <1>6, <2>4, <2>6, <2>7, <2>8, <2>9, <2>10
<1> QED
  BY <1>10, <1>11

LEMMA HearCreateKeeps == ASSUME ListInv, NEW c \in calls, HearCreate(c) PROVE ListInv'
<1> USE DEF ListInv, LifeInv
<1> DEFINE e == IF c.answer = "ok" THEN c.id ELSE Refusal
<1>1. /\ UNCHANGED <<ads, components, loads, taken, asked>>
      /\ Rows("ads")' = Rows("ads") /\ Rows("components")' = Rows("components")
      /\ c.kind = "create" /\ c.answer # "pending" /\ calls' = calls \ {c}
      /\ lists' = IF c.answer = "error" THEN lists ELSE [lists EXCEPT !["ads"][e] = @ + 1]
      /\ doubtful' = IF c.answer = "ok" /\ Crossed(c) THEN doubtful \cup {c.id} ELSE doubtful
  BY DEF HearCreate, server, Rows
<1>2. c \in Calls /\ c.id \in Ids /\ Row(c) = c.id /\ Table(c) = "ads" /\ e \in Entries
  BY <1>1 DEF Typed, Calls, Row, Table, Entries
<1> HIDE DEF e
<1>3. /\ lists' \in [Tables -> [Entries -> Nat]]
      /\ lists'["components"] = lists["components"]
      /\ \A i \in Entries \ {e} : lists'["ads"][i] = lists["ads"][i]
      /\ c.answer # "error" => lists'["ads"][e] = lists["ads"][e] + 1
      /\ c.answer = "error" => lists' = lists
  BY <1>1, <1>2 DEF Typed, Tables
<1>4. \A i \in Ids : (i = c.id /\ c.answer = "ok") \/ lists'["ads"][i] = lists["ads"][i]
  BY <1>3, ValuesAssumption DEF e, Ids, Entries
<1>5. Typed'
  BY <1>1, <1>3 DEF Typed
<1>6. OneCall' /\ Heard' /\ Gone'
  BY <1>1 DEF OneCall, Heard, Gone
<1>7. \A i \in Ids \ {c.id} : Absent(i) => Absent(i)'
  BY <1>1, <1>4 DEF Absent, NoDelete
<1>8. \A d \in calls' : d \in calls /\ d.id \in Ids \ {c.id}
  BY <1>1 DEF OneCall, Typed, Calls
<1>9. Unused'
  BY <1>1, <1>7, <1>8 DEF Unused
<1>10. Unborn' /\ Born'
  BY <1>1, <1>7, <1>8 DEF Unborn, Born
<1>11. \A i : Late(i, "ads") => Late(i, "ads")' \/ (i = c.id /\ c.answer = "ok" /\ ~c.early)
  BY <1>1, <1>2 DEF Late
<1>12. \A i : Late(i, "components") => Late(i, "components")'
  BY <1>1, <1>2 DEF Late
<1>13. AdsInStep'
  <2> SUFFICES ASSUME NEW i \in Ids \ doubtful', ~Late(i, "ads")'
               PROVE  /\ loads["ads"] = "taken" => (i \in taken["ads"] <=> i \in Rows("ads"))
                      /\ loads["ads"] = "landed" =>
                             lists'["ads"][i] = IF i \in Rows("ads") THEN 1 ELSE 0
    BY <1>1 DEF AdsInStep
  <2>1. i \notin doubtful
    BY <1>1
  <2>2. CASE i = c.id /\ c.answer = "ok"
    <3>1. ~Crossed(c)
      BY <2>2, <1>1
    <3>2. CASE c.early
      <4>1. loads["ads"] # "landed" /\ ~Late(i, "ads")
        BY <3>1, <3>2, <1>2, <1>11 DEF Crossed
      <4> QED
        BY <4>1, <2>1 DEF AdsInStep
    <3>3. CASE ~c.early
      <4>1. loads["ads"] = "landed"
        BY <3>1, <3>3, <1>2 DEF Crossed, Calls
      <4>2. i \in Rows("ads") /\ lists["ads"][i] = 0 /\ e = i
        BY <2>2, <3>3, <1>1 DEF Born, Absent, e
      <4> QED
        BY <4>1, <4>2, <1>3, <2>2
    <3> QED
      BY <3>2, <3>3
  <2>3. CASE ~(i = c.id /\ c.answer = "ok")
    BY <2>1, <2>3, <1>4, <1>11 DEF AdsInStep
  <2> QED
    BY <2>2, <2>3
<1>14. ComponentsInStep'
  BY <1>1, <1>3, <1>12 DEF ComponentsInStep
<1> QED
  BY <1>5, <1>6, <1>9, <1>10, <1>13, <1>14

LEMMA HearDeleteKeeps == ASSUME ListInv, NEW c \in calls, HearDelete(c) PROVE ListInv'
<1> USE DEF ListInv, LifeInv
<1>1. /\ UNCHANGED <<ads, components, loads, taken, asked>>
      /\ Rows("ads")' = Rows("ads") /\ Rows("components")' = Rows("components")
      /\ c.kind # "create" /\ c.answer # "pending" /\ calls' = calls \ {c}
      /\ lists' = IF c.answer = "ok" THEN [lists EXCEPT ![Table(c)][c.of] = 0] ELSE lists
      /\ doubtful' = IF c.answer = "ok" /\ Crossed(c) THEN doubtful \cup {c.of} ELSE doubtful
  BY DEF HearDelete, server, Rows
<1>2. /\ c \in Calls /\ Row(c) = c.of /\ Table(c) \in Tables
      /\ Table(c) = "ads" => c.kind = "delete_ad"
  BY <1>1 DEF Typed, Calls, Row, Table, Tables
<1>3. /\ lists' \in [Tables -> [Entries -> Nat]]
      /\ \A t \in Tables, i \in Entries :
             \/ lists'[t][i] = lists[t][i]
             \/ t = Table(c) /\ i = c.of /\ c.answer = "ok" /\ lists'[t][i] = 0
      /\ c.answer = "ok" /\ c.of \in Entries => lists'[Table(c)][c.of] = 0
  BY <1>1, <1>2 DEF Typed
<1>4. Typed'
  BY <1>1, <1>3 DEF Typed
<1>5. OneCall' /\ Heard' /\ Gone'
  BY <1>1 DEF OneCall, Heard, Gone
<1>6. \A i \in Ids : i \in Entries
  BY DEF Entries
<1>7. \A i \in Ids : Absent(i) => Absent(i)'
  BY <1>1, <1>3, <1>6 DEF Absent, NoDelete, Tables
<1>8. \A d \in calls' : d \in calls /\ d.id \in Ids
  BY <1>1 DEF Typed, Calls
<1>9. Unused'
  BY <1>1, <1>7 DEF Unused
<1>10. Unborn' /\ Born'
  BY <1>1, <1>7, <1>8 DEF Unborn, Born
<1>11. \A i, t : Late(i, t) =>
           Late(i, t)' \/ (i = c.of /\ t = Table(c) /\ c.answer = "ok" /\ ~c.early)
  BY <1>1, <1>2 DEF Late
<1>12. \A i \in Ids : i = c.of /\ c.answer = "ok" /\ i \notin doubtful' =>
          \/ c.early /\ loads[Table(c)] # "landed"
          \/ ~c.early /\ loads[Table(c)] = "landed" /\ lists'[Table(c)][i] = 0
  BY <1>1, <1>2, <1>3, <1>6 DEF Crossed, Calls
<1>13. AdsInStep'
  <2> SUFFICES ASSUME NEW i \in Ids \ doubtful', ~Late(i, "ads")'
               PROVE  /\ loads["ads"] = "taken" => (i \in taken["ads"] <=> i \in Rows("ads"))
                      /\ loads["ads"] = "landed" =>
                             lists'["ads"][i] = IF i \in Rows("ads") THEN 1 ELSE 0
    BY <1>1 DEF AdsInStep
  <2>1. i \notin doubtful
    BY <1>1
  <2>2. CASE i = c.of /\ Table(c) = "ads" /\ c.answer = "ok"
    <3>1. i \notin Rows("ads")
      BY <2>2, <1>2 DEF Gone
    <3>2. CASE c.early
      BY <3>2, <2>1, <2>2, <1>11, <1>12 DEF AdsInStep
    <3>3. CASE ~c.early
      BY <3>1, <3>3, <2>2, <1>12
    <3> QED
      BY <3>2, <3>3
  <2>3. CASE ~(i = c.of /\ Table(c) = "ads" /\ c.answer = "ok")
    BY <2>1, <2>3, <1>3, <1>6, <1>11 DEF AdsInStep, Tables
  <2> QED
    BY <2>2, <2>3
<1>14. ComponentsInStep'
  <2> SUFFICES ASSUME NEW i \in Ids \ doubtful', ~Late(i, "components")'
               PROVE  /\ loads["components"] = "taken" /\ i \in taken["components"] =>
                             i \in Rows("components")
                      /\ loads["components"] = "landed" /\ lists'["components"][i] > 0 =>
                             i \in Rows("components")
    BY <1>1 DEF ComponentsInStep
  <2>1. i \notin doubtful
    BY <1>1
  <2>2. CASE i = c.of /\ Table(c) = "components" /\ c.answer = "ok"
    <3>1. CASE c.early
      BY <3>1, <2>1, <2>2, <1>11, <1>12 DEF ComponentsInStep
    <3>2. CASE ~c.early
      BY <3>2, <2>2, <1>12
    <3> QED
      BY <3>1, <3>2
  <2>3. CASE ~(i = c.of /\ Table(c) = "components" /\ c.answer = "ok")
    BY <2>1, <2>3, <1>3, <1>6, <1>11 DEF ComponentsInStep, Tables
  <2> QED
    BY <2>2, <2>3
<1> QED
  BY <1>4, <1>5, <1>9, <1>10, <1>13, <1>14

(* The steps of uploads, of previews and of the player are elsewhere.       *)
LEMMA OtherStepsElsewhere ==
    ASSUME ListInv,
           \/ \E s \in Slugs, v \in Sources : Upload(s, v)
           \/ \E u \in uploads : StoreBundle(u) \/ FailBuild(u) \/ SaveComponent(u) \/ FailUpload(u)
           \/ \E a \in ads : Play(a)
           \/ \E e \in Shown("ads") : PreviewAd(e)
           \/ \E p \in previews : SettlePreview(p)
           \/ ClosePopup \/ UNCHANGED vars
    PROVE  Elsewhere
<1> USE BoundsAssumption DEF ListInv, LifeInv
<1>1. asked \in Ids /\ (Ask => asked' = asked + 1 /\ asked' \in Ids)
  BY DEF Typed, Ask, Fresh, Ids
<1>2. components' = components => Rows("components")' = Rows("components")
  BY DEF Rows
<1>3. ASSUME NEW s \in Slugs, NEW v \in Sources, Upload(s, v) PROVE Elsewhere
  BY <1>1, <1>2, <1>3 DEF Elsewhere, Upload, server
<1>4. ASSUME NEW u \in uploads, StoreBundle(u) \/ FailBuild(u) \/ FailUpload(u) PROVE Elsewhere
  BY <1>1, <1>2, <1>4 DEF Elsewhere, StoreBundle, FailBuild, FailUpload, server
<1>5. ASSUME NEW u \in uploads, SaveComponent(u) PROVE Elsewhere
  <2>1. Rows("components") \subseteq Rows("components")'
    <3> SUFFICES ASSUME NEW r \in components PROVE \E q \in components' : q.id = r.id
      BY DEF Rows
    <3> DEFINE new == [id |-> r.id, slug |-> u.slug, source |-> u.source, status |-> u.at]
    <3>1. CASE r.slug = u.slug
      <4>1. new \in components'
        BY <1>5, <3>1 DEF SaveComponent
      <4> QED
        BY <4>1
    <3>2. CASE r.slug # u.slug
      BY <1>5, <3>2 DEF SaveComponent
    <3> QED
      BY <3>1, <3>2
  <2> QED
    BY <1>1, <1>5, <2>1 DEF Elsewhere, SaveComponent
<1>6. ASSUME NEW a \in ads, Play(a) PROVE Elsewhere
  BY <1>1, <1>2, <1>6 DEF Elsewhere, Play
<1>7. ASSUME NEW e \in Shown("ads"), PreviewAd(e) PROVE Elsewhere
  BY <1>1, <1>2, <1>7 DEF Elsewhere, PreviewAd, server
<1>8. ASSUME NEW p \in previews, SettlePreview(p) PROVE Elsewhere
  BY <1>1, <1>2, <1>8 DEF Elsewhere, SettlePreview, server
<1>9. CASE ClosePopup \/ UNCHANGED vars
  BY <1>1, <1>2, <1>9 DEF Elsewhere, ClosePopup, vars, server
<1> QED
  BY <1>3, <1>4, <1>5, <1>6, <1>7, <1>8, <1>9

LEMMA ListInvHolds == Spec => []ListInv
<1>1. Init => ListInv
  <2> SUFFICES ASSUME Init PROVE ListInv
    OBVIOUS
  <2>1. Nothing \in [Entries -> Nat] /\ \A i \in Ids : Nothing[i] = 0
    BY DEF Nothing, Entries
  <2>2. Typed
    BY <2>1, BoundsAssumption DEF Init, Typed, Ids
  <2>3. calls = {} /\ ads = {} /\ Rows("ads") = {}
    BY DEF Init, Rows
  <2>4. OneCall /\ Heard /\ Unborn /\ Born /\ Gone
    BY <2>3 DEF OneCall, Heard, Unborn, Born, Gone
  <2>5. Unused
    BY <2>1, <2>3 DEF Init, Unused, Absent, NoDelete, Tables
  <2>6. AdsInStep /\ ComponentsInStep
    BY DEF Init, AdsInStep, ComponentsInStep, Tables
  <2> QED
    BY <2>2, <2>4, <2>5, <2>6 DEF ListInv, LifeInv
<1>2. ListInv /\ StoreInv /\ [Next]_vars => ListInv'
  <2> SUFFICES ASSUME ListInv, StoreInv, [Next]_vars PROVE ListInv'
    OBVIOUS
  <2>1. Shape
    BY DEF StoreInv
  <2>2. CASE AskCreate
    <3>1. PICK x \in Shown("components") \cup {None} : AskCall("create", x)
      BY <2>2 DEF AskCreate
    <3> QED
      BY <3>1, AskKeeps DEF Shown
  <2>3. CASE AskDeleteAd
    BY <2>3, AskKeeps DEF AskDeleteAd, Shown
  <2>4. CASE AskDeleteComponent
    BY <2>4, AskKeeps DEF AskDeleteComponent, Shown
  <2>5. CASE \E c \in calls : Execute(c) \/ HearCreate(c) \/ HearDelete(c) \/ LoseCall(c)
    BY <2>5, <2>1, ExecuteKeeps, HearCreateKeeps, HearDeleteKeeps, LoseCallKeeps
  <2>6. CASE \E t \in Tables : ReadList(t) \/ ShowList(t) \/ LoseList(t)
    BY <2>6, <2>1, ReadListKeeps, ShowListKeeps
  <2>7. CASE OpenAnew
    BY <2>7, OpenAnewKeeps
  <2>8. CASE \/ \E s \in Slugs, v \in Sources : Upload(s, v)
             \/ \E u \in uploads : StoreBundle(u) \/ FailBuild(u) \/ SaveComponent(u) \/ FailUpload(u)
             \/ \E a \in ads : Play(a)
             \/ \E e \in Shown("ads") : PreviewAd(e)
             \/ \E p \in previews : SettlePreview(p)
             \/ ClosePopup \/ UNCHANGED vars
    BY <2>8, OtherStepsElsewhere, ElsewhereKeeps
  <2> QED
    BY <2>2, <2>3, <2>4, <2>5, <2>6, <2>7, <2>8 DEF Next
<1> QED
  BY <1>1, <1>2, StoreInvHolds, PTL DEF Spec

(* The page's lists follow the tables: what they get wrong is about a row   *)
(* whose change the first list crossed or whose answer was lost, and about  *)
(* no other (Authoring.tsx handleCreateAd, handleDeleteAd, useEffect).      *)
THEOREM ListsMatchTablesHolds == Spec => []ListsMatchTables
<1>1. ListInv => ListsMatchTables
  <2> SUFFICES ASSUME ListInv PROVE ListsMatchTables
    OBVIOUS
  <2> DEFINE unheard == {Row(c) : c \in {d \in calls : d.answer = "ok"}}
  <2>1. \A i \in Ids \ (doubtful \cup unheard) : ~Late(i, "ads") /\ ~Late(i, "components")
    BY DEF Late
  <2> HIDE DEF unheard
  <2>2. \A i \in Ids \ (doubtful \cup unheard) :
            /\ loads["ads"] = "landed" => lists["ads"][i] = IF i \in Rows("ads") THEN 1 ELSE 0
            /\ loads["components"] = "landed" =>
                   (lists["components"][i] > 0 => i \in Rows("components"))
    BY <2>1 DEF ListInv, AdsInStep, ComponentsInStep
  <2> QED
    BY <2>2 DEF ListsMatchTables, unheard
<1> QED
  BY <1>1, ListInvHolds, PTL
-----------------------------------------------------------------------------
(* TypeOK.  What Shape and Typed leave open: a number goes to one upload    *)
(* and then to one row, a reference is to a row that is there, and the page *)
(* hears a success only of a row.                                           *)

Numbered ==
    /\ \A c \in components : c.id <= asked
    /\ \A u \in uploads : u.id <= asked /\ \A c \in components : c.id # u.id
    /\ \A u, w \in uploads : u.id = w.id => u = w
    /\ \A c, d \in components : (c.id = d.id \/ c.slug = d.slug) => c = d
Referred ==
    /\ \A a \in ads : a.component \in Rows("components")
    /\ played \subseteq Rows("ads")
Modal ==
    /\ popup \in [rendering : BOOLEAN, video : Entries \cup {None}, error : Entries \cup {None}]
    /\ previews \subseteq [id : Ids, ad : Entries]
    /\ wanted \in Entries \cup {None}
    /\ doubtful \subseteq Ids
    /\ \A c \in calls : c.answer = "ok" => Row(c) \in Ids
    /\ faults \in 0 .. MaxFaults

LEMMA NumberedKeeps == ASSUME StoreInv, Numbered, [Next]_vars PROVE Numbered'
<1> USE BoundsAssumption
<1>1. /\ components \subseteq Components
      /\ uploads \subseteq Uploads /\ asked \in Nat /\ asked \in Ids
  BY DEF StoreInv, Shape, Ids
<1>2. \A u \in uploads : u.id \in Nat /\ u.id \in Ids
  BY <1>1 DEF Uploads, Ids
<1>3. \A c \in components : c.id \in Nat /\ c.id \in Ids
  BY <1>1 DEF Ids, Components
<1>4. CASE \E s \in Slugs, v \in Sources : Upload(s, v)
  <2>1. PICK s \in Slugs, v \in Sources : Upload(s, v)
    BY <1>4
  <2> DEFINE New == [id |-> Fresh, slug |-> s, source |-> v, at |-> "sent",
                     alone |-> \A u \in uploads : u.slug # s]
             Marked(u) == [u EXCEPT !.alone = @ /\ u.slug # s]
  <2>2. /\ uploads' = {Marked(u) : u \in uploads} \cup {New}
        /\ components' = components /\ asked' = asked + 1 /\ Fresh = asked + 1
    BY <2>1 DEF Upload, Ask, server, Fresh
  <2>3. New.id = asked + 1 /\ \A u \in uploads : Marked(u).id = u.id
    BY <1>1, <2>2 DEF Uploads
  <2>4. \A w \in uploads' : w = New \/ \E x \in uploads : w = Marked(x)
    BY <2>2
  <2> HIDE DEF New, Marked
  <2>5. \A w \in uploads' : w.id <= asked' /\ \A c \in components' : c.id # w.id
    BY <1>1, <1>2, <1>3, <2>2, <2>3, <2>4 DEF Numbered
  <2>6. ASSUME NEW w \in uploads', NEW x \in uploads', w.id = x.id PROVE w = x
    <3>1. CASE w = New \/ x = New
      BY <1>1, <1>2, <2>2, <2>3, <2>4, <2>6, <3>1 DEF Numbered
    <3>2. CASE w # New /\ x # New
      BY <2>3, <2>4, <2>6, <3>2 DEF Numbered
    <3> QED BY <3>1, <3>2
  <2>7. \A c \in components' : c.id <= asked'
    BY <1>1, <1>3, <2>2 DEF Numbered
  <2> QED BY <2>2, <2>5, <2>6, <2>7 DEF Numbered
<1>5. ASSUME NEW u \in uploads, StoreBundle(u) \/ FailBuild(u) \/ FailUpload(u) PROVE Numbered'
  <2>1. PICK x : /\ x.id = u.id
                 /\ uploads' \subseteq (uploads \ {u}) \cup {x}
    <3>1. \A v \in {"ready", "failed", "given_up"} : [u EXCEPT !.at = v].id = u.id
      BY <1>1 DEF Uploads
    <3>2. CASE StoreBundle(u)
      BY <3>1, <3>2 DEF StoreBundle
    <3>3. CASE FailBuild(u)
      BY <3>1, <3>3 DEF FailBuild
    <3>4. CASE FailUpload(u)
      BY <3>1, <3>4 DEF FailUpload
    <3> QED BY <1>5, <3>2, <3>3, <3>4
  <2>2. components' = components /\ asked' = asked
    BY <1>5 DEF StoreBundle, FailBuild, FailUpload, server
  <2> QED BY <2>1, <2>2 DEF Numbered
<1>6. ASSUME NEW u \in uploads, SaveComponent(u) PROVE Numbered'
  <2> DEFINE old == {c \in components : c.slug = u.slug}
             ids == IF old = {} THEN {u.id} ELSE {c.id : c \in old}
             new == {[id |-> i, slug |-> u.slug, source |-> u.source, status |-> u.at] : i \in ids}
  <2>1. /\ components' = (components \ old) \cup new
        /\ uploads' = uploads \ {u} /\ asked' = asked
    BY <1>6 DEF SaveComponent
  <2>2. PICK n : /\ ids = {n}
                 /\ n = u.id \/ \E c \in old : n = c.id
    <3>1. CASE old = {}
      BY <3>1
    <3>2. CASE old # {}
      <4>1. PICK c \in old : TRUE
        BY <3>2
      <4>2. old = {c}
        BY <4>1 DEF Numbered
      <4> QED BY <4>1, <4>2
    <3> QED BY <3>1, <3>2
  <2> DEFINE r == [id |-> n, slug |-> u.slug, source |-> u.source, status |-> u.at]
  <2>3. new = {r} /\ r.id = n /\ r.slug = u.slug
    BY <2>2
  <2> HIDE DEF r
  <2>4. \A c \in components' : c = r \/ (c \in components /\ c \notin old /\ c.slug # u.slug)
    BY <2>1, <2>3
  <2>5. \A c \in components \ old : c.id # n
    BY <2>2 DEF Numbered
  <2>6. n <= asked /\ \A w \in uploads' : w.id # n
    BY <2>1, <2>2 DEF Numbered
  <2> HIDE DEF old, ids, new
  <2>7. \A c \in components' : c.id <= asked'
    BY <2>1, <2>3, <2>4, <2>6 DEF Numbered
  <2>8. \A w \in uploads' : w.id <= asked' /\ \A c \in components' : c.id # w.id
    BY <2>1, <2>3, <2>4, <2>6 DEF Numbered
  <2>9. \A c, d \in components' : (c.id = d.id \/ c.slug = d.slug) => c = d
    BY <2>3, <2>4, <2>5 DEF Numbered
  <2>10. \A w, x \in uploads' : w.id = x.id => w = x
    BY <2>1 DEF Numbered
  <2> QED BY <2>7, <2>8, <2>9, <2>10 DEF Numbered
<1>7. ASSUME Aside PROVE Numbered'
  <2>1. uploads' = uploads /\ components' \subseteq components /\ asked' >= asked /\ asked' \in Nat
    BY <1>1, <1>7 DEF Aside
  <2>2. \A k \in Nat : k <= asked => k <= asked'
    BY <1>1, <2>1
  <2> QED BY <1>2, <1>3, <2>1, <2>2 DEF Numbered
<1>8. CASE UNCHANGED vars
  BY <1>8 DEF vars, server, store, Numbered
<1>9. ASSUME Next, ~\E s \in Slugs, v \in Sources : Upload(s, v),
             ~\E u \in uploads : StoreBundle(u) \/ FailBuild(u) \/ SaveComponent(u) \/ FailUpload(u)
      PROVE  Aside
  BY <1>9, PageStepsAside DEF Next
<1> QED BY <1>4, <1>5, <1>6, <1>7, <1>8, <1>9

LEMMA ReferredKeeps == ASSUME StoreInv, LifeInv, Referred, [Next]_vars PROVE Referred'
<1>1. /\ components \subseteq Components
      /\ ads \subseteq [id : Ids, component : Ids] /\ calls \subseteq Calls
  BY DEF StoreInv, Shape, LifeInv, Typed
<1>2. ASSUME Rows("components") \subseteq Rows("components")', UNCHANGED <<ads, played>>
      PROVE  Referred'
  BY <1>2 DEF Referred, Rows
<1>3. ASSUME NEW u \in uploads, SaveComponent(u) PROVE Referred'
  <2> DEFINE old == {c \in components : c.slug = u.slug}
             ids == IF old = {} THEN {u.id} ELSE {c.id : c \in old}
             new == {[id |-> i, slug |-> u.slug, source |-> u.source, status |-> u.at] : i \in ids}
  <2>1. components' = (components \ old) \cup new /\ UNCHANGED <<ads, played>>
    BY <1>3 DEF SaveComponent
  <2>2. ASSUME NEW c \in old PROVE \E r \in new : r.id = c.id
    <3>1. c.id \in ids
      OBVIOUS
    <3>2. [id |-> c.id, slug |-> u.slug, source |-> u.source, status |-> u.at] \in new
      BY <3>1
    <3> QED BY <3>2
  <2> HIDE DEF old, new
  <2>3. \A c \in components : \E r \in components' : r.id = c.id
    BY <2>1, <2>2
  <2>4. Rows("components") \subseteq Rows("components")'
    BY <2>3 DEF Rows
  <2> QED BY <1>2, <2>1, <2>4
<1>4. ASSUME NEW c \in calls, Execute(c) PROVE Referred'
  <2>1. played' = played
    BY <1>4 DEF Execute
  <2>2. CASE c.kind = "create"
    <3>1. /\ components' = components
          /\ ads' = IF c.of \in Rows("components")
                    THEN ads \cup {[id |-> c.id, component |-> c.of]} ELSE ads
      BY <1>4, <2>2 DEF Execute, CreateAd
    <3>2. Rows("components")' = Rows("components") /\ Rows("ads") \subseteq Rows("ads")'
      BY <3>1 DEF Rows
    <3> QED BY <2>1, <3>1, <3>2 DEF Referred
  <2>3. CASE c.kind # "create" /\ ~Deletable(c)
    <3>1. components' = components /\ ads' = ads
      BY <1>4, <2>3 DEF Execute, Delete
    <3> QED BY <1>2, <2>1, <3>1 DEF Rows
  <2>4. CASE c.kind = "delete_ad" /\ Deletable(c)
    <3>1. components' = components /\ ads' = {a \in ads : a.id # c.of} /\ c.of \notin played
      BY <1>4, <2>4 DEF Execute, Delete, Deletable
    <3>2. Rows("components")' = Rows("components")
      BY <3>1 DEF Rows
    <3>3. Rows("ads")' = Rows("ads") \ {c.of}
      BY <3>1 DEF Rows
    <3> QED BY <2>1, <3>1, <3>2, <3>3 DEF Referred
  <2>5. CASE c.kind = "delete_component" /\ Deletable(c)
    <3>1. /\ ads' = ads /\ components' = {d \in components : d.id # c.of}
          /\ \A a \in ads : a.component # c.of
      BY <1>4, <2>5 DEF Execute, Delete, Deletable
    <3>2. Rows("components")' = Rows("components") \ {c.of} /\ Rows("ads")' = Rows("ads")
      BY <3>1 DEF Rows
    <3> QED BY <2>1, <3>1, <3>2 DEF Referred
  <2> QED BY <1>1, <2>2, <2>3, <2>4, <2>5 DEF Calls
<1>5. ASSUME NEW a \in ads, Play(a) PROVE Referred'
  <2>1. played' = played \cup {a.id} /\ UNCHANGED <<ads, components>>
    BY <1>5 DEF Play
  <2>2. Rows("components")' = Rows("components") /\ Rows("ads")' = Rows("ads") /\ a.id \in Rows("ads")
    BY <2>1 DEF Rows
  <2> QED BY <2>1, <2>2 DEF Referred
<1>6. ASSUME UNCHANGED <<components, ads, played>> PROVE Referred'
  BY <1>2, <1>6 DEF Rows
<1>7. ASSUME NEW s \in Slugs, NEW v \in Sources, Upload(s, v) PROVE Referred'
  BY <1>6, <1>7 DEF Upload, server
<1>8. ASSUME NEW u \in uploads, StoreBundle(u) \/ FailBuild(u) \/ FailUpload(u) PROVE Referred'
  BY <1>6, <1>8 DEF StoreBundle, FailBuild, FailUpload, server
<1>9. CASE AskCreate \/ AskDeleteAd \/ AskDeleteComponent \/ OpenAnew \/ ClosePopup
  BY <1>6, <1>9 DEF AskCreate, AskDeleteAd, AskDeleteComponent, AskCall, OpenAnew, ClosePopup, server
<1>10. ASSUME NEW c \in calls, HearCreate(c) \/ HearDelete(c) \/ LoseCall(c) PROVE Referred'
  BY <1>6, <1>10 DEF HearCreate, HearDelete, LoseCall, server
<1>11. ASSUME NEW t \in Tables, ReadList(t) \/ ShowList(t) \/ LoseList(t) PROVE Referred'
  BY <1>6, <1>11 DEF ReadList, ShowList, LoseList, server
<1>12. ASSUME NEW e \in Shown("ads"), PreviewAd(e) PROVE Referred'
  BY <1>6, <1>12 DEF PreviewAd, server
<1>13. ASSUME NEW p \in previews, SettlePreview(p) PROVE Referred'
  BY <1>6, <1>13 DEF SettlePreview, server
<1>14. CASE UNCHANGED vars
  BY <1>6, <1>14 DEF vars, server
<1> QED
  BY <1>3, <1>4, <1>5, <1>7, <1>8, <1>9, <1>10, <1>11, <1>12, <1>13, <1>14 DEF Next

LEMMA ModalKeeps == ASSUME StoreInv, LifeInv, Modal, [Next]_vars PROVE Modal'
<1> USE BoundsAssumption
<1>1. /\ components \subseteq Components
      /\ ads \subseteq [id : Ids, component : Ids] /\ calls \subseteq Calls
      /\ asked \in Ids /\ Ids \subseteq Entries /\ Refusal \in Entries
      /\ faults \in 0 .. MaxFaults /\ doubtful \subseteq Ids
  BY DEF StoreInv, Shape, LifeInv, Typed, Entries, Modal
<1>2. /\ Fault => faults' \in 0 .. MaxFaults
      /\ Ask => Fresh \in Ids
  BY <1>1 DEF Fault, Ask, Fresh, Ids
<1>3. Closed \in [rendering : BOOLEAN, video : Entries \cup {None}, error : Entries \cup {None}]
  BY DEF Closed
<1>4. Rows("ads") \subseteq Ids /\ Rows("components") \subseteq Ids
  BY <1>1 DEF Rows, Components
<1>5. ASSUME UNCHANGED modal, faults' \in 0 .. MaxFaults, doubtful' \subseteq Ids,
             \A c \in calls' : c.answer = "ok" => Row(c) \in Ids
      PROVE  Modal'
  BY <1>5 DEF Modal, modal, Row
<1>6. ASSUME UNCHANGED <<calls, doubtful, modal>>, faults' \in 0 .. MaxFaults PROVE Modal'
  BY <1>5, <1>6 DEF Modal
<1>7. ASSUME NEW n \in Ids, NEW ad \in Entries, RenderAdPreview(n, ad),
             UNCHANGED faults, doubtful' \subseteq Ids, calls' \subseteq calls
      PROVE  Modal'
  <2>1. [Closed EXCEPT !.rendering = TRUE]
            \in [rendering : BOOLEAN, video : Entries \cup {None}, error : Entries \cup {None}]
    BY <1>3
  <2>2. [id |-> n, ad |-> ad] \in [id : Ids, ad : Entries]
    OBVIOUS
  <2>3. \A c \in calls' : c.answer = "ok" => Row(c) \in Ids
    BY <1>7 DEF Modal
  <2> QED BY <1>7, <2>1, <2>2, <2>3 DEF Modal, RenderAdPreview, Row
<1>8. ASSUME NEW s \in Slugs, NEW v \in Sources, Upload(s, v) PROVE Modal'
  BY <1>1, <1>6, <1>8 DEF Upload
<1>9. ASSUME NEW u \in uploads, StoreBundle(u) \/ FailBuild(u) \/ SaveComponent(u) \/ FailUpload(u) PROVE Modal'
  BY <1>1, <1>2, <1>6, <1>9 DEF StoreBundle, FailBuild, SaveComponent, FailUpload
<1>10. ASSUME NEW kind, NEW of, AskCall(kind, of) PROVE Modal'
  BY <1>1, <1>5, <1>10 DEF AskCall, Modal
<1>11. ASSUME NEW c \in calls, Execute(c) PROVE Modal'
  <2>1. /\ UNCHANGED modal /\ faults' = faults
        /\ calls' \subseteq (calls \ {c}) \cup {[c EXCEPT !.answer = Answer(c),
                                                  !.early = loads[Table(c)] = "asked"]}
        /\ doubtful' \subseteq doubtful \cup (IF Answer(c) = "ok" THEN {Row(c)} ELSE {})
    BY <1>11 DEF Execute
  <2>2. Answer(c) = "ok" => Row(c) \in Ids
    <3>1. CASE c.kind = "create"
      BY <1>1, <3>1 DEF Row, Calls
    <3>2. CASE c.kind # "create"
      BY <1>4, <3>2 DEF Row, Answer, Deletable
    <3> QED BY <3>1, <3>2
  <2> DEFINE n == [c EXCEPT !.answer = Answer(c), !.early = loads[Table(c)] = "asked"]
  <2>3. n.kind = c.kind /\ n.id = c.id /\ n.of = c.of /\ n.answer = Answer(c)
    BY <1>1 DEF Calls
  <2>4. n.answer = "ok" => Row(n) \in Ids
    BY <2>2, <2>3 DEF Row
  <2> HIDE DEF n
  <2>5. \A d \in calls' : d.answer = "ok" => Row(d) \in Ids
    BY <2>1, <2>4 DEF Modal, n
  <2>6. doubtful' \subseteq Ids
    BY <1>1, <2>1, <2>2
  <2> QED BY <1>1, <1>5, <2>1, <2>5, <2>6
<1>12. ASSUME NEW c \in calls, HearCreate(c) PROVE Modal'
  <2>1. /\ calls' = calls \ {c} /\ faults' = faults
        /\ doubtful' \subseteq doubtful \cup (IF c.answer = "ok" THEN {c.id} ELSE {})
        /\ UNCHANGED modal \/ \E e \in {c.id, Refusal} : RenderAdPreview(c.id, e)
    BY <1>12 DEF HearCreate
  <2>2. c.id \in Ids /\ c.id \in Entries
    BY <1>1 DEF Calls
  <2>3. doubtful' \subseteq Ids
    BY <1>1, <2>1, <2>2
  <2> QED BY <1>1, <1>5, <1>7, <2>1, <2>2, <2>3 DEF Modal
<1>13. ASSUME NEW c \in calls, HearDelete(c) PROVE Modal'
  <2>1. /\ calls' = calls \ {c} /\ faults' = faults /\ UNCHANGED modal /\ c.kind # "create"
        /\ doubtful' \subseteq doubtful \cup (IF c.answer = "ok" THEN {c.of} ELSE {})
    BY <1>13 DEF HearDelete
  <2>2. c.answer = "ok" => c.of \in Ids
    BY <2>1 DEF Modal, Row
  <2> QED BY <1>1, <1>5, <2>1, <2>2 DEF Modal
<1>14. ASSUME NEW c \in calls, LoseCall(c) PROVE Modal'
  <2>1. /\ UNCHANGED modal /\ Fault
        /\ \A d \in calls' : d \in calls \/ (d = [c EXCEPT !.page = FALSE] /\ c.answer = "pending")
        /\ doubtful' \subseteq doubtful \cup (IF c.answer = "ok" THEN {Row(c)} ELSE {})
    BY <1>14 DEF LoseCall
  <2>2. [c EXCEPT !.page = FALSE].answer = c.answer
    BY <1>1 DEF Calls
  <2>3. \A d \in calls' : d.answer = "ok" => Row(d) \in Ids
    BY <2>1, <2>2 DEF Modal
  <2> QED BY <1>1, <1>2, <1>5, <2>1, <2>3 DEF Modal
<1>15. ASSUME NEW a \in ads, Play(a) PROVE Modal'
  BY <1>1, <1>6, <1>15 DEF Play
<1>16. ASSUME NEW t \in Tables, ReadList(t) \/ ShowList(t) \/ LoseList(t) PROVE Modal'
  BY <1>1, <1>2, <1>6, <1>16 DEF ReadList, ShowList, LoseList
<1>17. CASE OpenAnew
  <2>1. /\ popup' = Closed /\ previews' = {} /\ wanted' = None /\ doubtful' = {} /\ faults' = faults
        /\ calls' = {[c EXCEPT !.page = FALSE] : c \in {d \in calls : d.answer = "pending"}}
    BY <1>17 DEF OpenAnew
  <2>2. \A c \in calls : [c EXCEPT !.page = FALSE].answer = c.answer
    BY <1>1 DEF Calls
  <2>3. \A c \in calls' : c.answer = "pending"
    BY <2>1, <2>2
  <2> QED BY <1>1, <1>3, <2>1, <2>3 DEF Modal
<1>18. ASSUME NEW e \in Shown("ads"), PreviewAd(e) PROVE Modal'
  BY <1>1, <1>2, <1>7, <1>18 DEF PreviewAd, Shown
<1>19. ASSUME NEW p \in previews, SettlePreview(p) PROVE Modal'
  <2>1. p.ad \in Entries
    BY DEF Modal
  <2>2. \A v \in Entries :
           /\ [popup EXCEPT !.rendering = FALSE, !.video = v]
                 \in [rendering : BOOLEAN, video : Entries \cup {None}, error : Entries \cup {None}]
           /\ [popup EXCEPT !.rendering = FALSE, !.error = v]
                 \in [rendering : BOOLEAN, video : Entries \cup {None}, error : Entries \cup {None}]
    BY DEF Modal
  <2>3. UNCHANGED <<calls, doubtful, wanted, faults>> /\ previews' = previews \ {p}
    BY <1>19 DEF SettlePreview
  <2>4. popup' \in [rendering : BOOLEAN, video : Entries \cup {None}, error : Entries \cup {None}]
    BY <1>19, <2>1, <2>2 DEF SettlePreview
  <2> QED BY <2>3, <2>4 DEF Modal, Row
<1>20. CASE ClosePopup
  BY <1>1, <1>3, <1>20 DEF ClosePopup, Modal, Row
<1>21. CASE UNCHANGED vars
  BY <1>1, <1>6, <1>21 DEF vars
<1>22. CASE AskCreate \/ AskDeleteAd \/ AskDeleteComponent
  BY <1>10, <1>22 DEF AskCreate, AskDeleteAd, AskDeleteComponent
<1> QED
  BY <1>8, <1>9, <1>11, <1>12, <1>13, <1>14, <1>15, <1>16, <1>17, <1>18, <1>19, <1>20, <1>21, <1>22
  DEF Next

(* The rows and the page are well-formed at all times: an upsert by slug    *)
(* leaves one row per slug and per id, every ad has its component and every *)
(* play its ad whatever order creates and deletes are executed in, and the  *)
(* page counts and previews only entries it can show (main.py               *)
(* upload_component, create_ad, delete_ad, delete_component; Authoring.tsx). *)
THEOREM TypeCorrect == Spec => []TypeOK
<1> DEFINE I == Numbered /\ Referred /\ Modal
<1>1. Init => I
  <2> SUFFICES ASSUME Init PROVE I
    OBVIOUS
  <2>1. PICK s \in Slugs, v \in Sources : components = {[id |-> 0, slug |-> s, source |-> v, status |-> "ready"]}
    BY DEF Init
  <2>2. Numbered
    BY <2>1 DEF Init, Numbered
  <2>3. Referred
    BY DEF Init, Referred
  <2>4. Modal
    BY BoundsAssumption DEF Init, Modal, Closed
  <2> QED BY <2>2, <2>3, <2>4
<1>2. StoreInv /\ ListInv /\ I /\ [Next]_vars => I'
  BY NumberedKeeps, ReferredKeeps, ModalKeeps DEF ListInv
<1>3. StoreInv /\ ListInv /\ I => TypeOK
  <2> SUFFICES ASSUME StoreInv, ListInv, I PROVE TypeOK
    OBVIOUS
  <2>1. ads \subseteq [id : Ids, component : {c.id : c \in components}]
    BY DEF ListInv, LifeInv, Typed, Referred, Rows
  <2>2. played \subseteq {a.id : a \in ads}
    BY DEF Referred, Rows
  <2> QED BY <2>1, <2>2 DEF TypeOK, StoreInv, Shape, ListInv, LifeInv, Typed, Numbered, Modal
<1> QED
  BY <1>1, <1>2, <1>3, StoreInvHolds, ListInvHolds, PTL DEF Spec
=============================================================================
