------------------------------ MODULE Authoring ------------------------------
(* The authoring of custom ads: the ops-api handlers of components and ads  *)
(* (main.py), the overlay sidecar that keeps the bundle of a component, and *)
(* one page of the advertiser (Authoring.tsx over api.ts).  A request, its  *)
(* execution and its answer are three steps, so answers overtake each other *)
(* and the page's first lists, may be lost, or reach a page that is gone.   *)
(* A row's id is the number of the request that inserted it.                *)
EXTENDS Naturals, FiniteSets

CONSTANTS
    Slugs,       \* component names, as the sidecar normalises them
    Sources,     \* component files
    MaxRequests, \* bound: requests of the page and of other clients
    MaxFaults,   \* bound: requests that fail or whose answer is lost
    None,        \* no value
    Refusal      \* the JSON body of a 422, which the page takes for an ad

ASSUME BoundsAssumption == MaxRequests \in Nat /\ MaxFaults \in Nat
ASSUME ValuesAssumption == None \notin Sources \cup Nat /\ Refusal \notin Nat /\ None # Refusal

Ids == 0 .. MaxRequests
Entries == Ids \cup {Refusal}
Tables == {"components", "ads"}

VARIABLES
    bundle,      \* [Slugs -> Sources or None]: what the sidecar renders a slug with
    components,  \* the rows of components
    ads,         \* the rows of ads
    played,      \* the ads a decision, composition or ad_run refers to
    uploads,     \* the POST /components on their way
    settled,     \* history: slugs whose last upload met no other and was saved
    calls,       \* the page's creates and deletes on their way
    loads,       \* the page's first GET of each table
    taken,       \* the rows that GET has read
    lists,       \* [Tables -> [Entries -> Nat]]: how often the page shows a row
    doubtful,    \* history: rows the page was told of wrongly, or not at all
    popup,       \* the finished-ad preview
    previews,    \* the previews being rendered
    wanted,      \* history: the ad whose preview was opened last, unless closed
    asked,       \* requests so far
    faults       \* faults so far

server == <<bundle, components, ads, played>>
store == <<uploads, settled>>
listing == <<loads, taken, lists>>
modal == <<popup, previews, wanted>>
vars == <<server, store, calls, listing, doubtful, modal, asked, faults>>

-----------------------------------------------------------------------------
Uploads == [id : Ids, slug : Slugs, source : Sources, alone : BOOLEAN,
            at : {"sent", "ready", "failed", "given_up"}]
Components == [id : Ids, slug : Slugs, source : Sources, status : {"ready", "failed"}]
Calls == [id : Ids, kind : {"create", "delete_ad", "delete_component"},
          of : Entries \cup {None}, answer : {"pending", "ok", "refused", "error"},
          early : BOOLEAN, page : BOOLEAN]

TypeOK ==
    /\ bundle \in [Slugs -> Sources \cup {None}]
    /\ components \subseteq Components
    /\ \A c, d \in components : (c.id = d.id \/ c.slug = d.slug) => c = d
    /\ ads \subseteq [id : Ids, component : {c.id : c \in components}]
    /\ played \subseteq {a.id : a \in ads}
    /\ uploads \subseteq Uploads
    /\ settled \subseteq Slugs
    /\ calls \subseteq Calls
    /\ loads \in [Tables -> {"asked", "taken", "landed", "failed"}]
    /\ taken \in [Tables -> SUBSET Ids]
    /\ lists \in [Tables -> [Entries -> Nat]]
    /\ doubtful \subseteq Ids
    /\ popup \in [rendering : BOOLEAN, video : Entries \cup {None}, error : Entries \cup {None}]
    /\ previews \subseteq [id : Ids, ad : Entries]
    /\ wanted \in Entries \cup {None}
    /\ asked \in Ids
    /\ faults \in 0 .. MaxFaults

Closed == [rendering |-> FALSE, video |-> None, error |-> None]
Nothing == [e \in Entries |-> 0]

\* The page opens on a catalog of one component, uploaded without trouble.
Init ==
    /\ \E s \in Slugs, v \in Sources :
           /\ bundle = [t \in Slugs |-> IF t = s THEN v ELSE None]
           /\ components = {[id |-> 0, slug |-> s, source |-> v, status |-> "ready"]}
           /\ settled = {s}
    /\ ads = {} /\ played = {} /\ uploads = {} /\ calls = {}
    /\ loads = [t \in Tables |-> "asked"]
    /\ taken = [t \in Tables |-> {}]
    /\ lists = [t \in Tables |-> Nothing]
    /\ doubtful = {}
    /\ popup = Closed /\ previews = {} /\ wanted = None
    /\ asked = 0 /\ faults = 0

Fresh == asked + 1
Ask == asked < MaxRequests /\ asked' = Fresh
Fault == faults < MaxFaults /\ faults' = faults + 1

-----------------------------------------------------------------------------
(* Components: the sidecar first, the row after (main.py upload_component). *)

Upload(s, v) ==
    /\ Ask
    /\ uploads' = {[u EXCEPT !.alone = @ /\ u.slug # s] : u \in uploads}
                  \cup {[id |-> Fresh, slug |-> s, source |-> v, at |-> "sent",
                         alone |-> \A u \in uploads : u.slug # s]}
    /\ UNCHANGED <<server, settled, calls, listing, doubtful, modal, faults>>

\* The sidecar builds and stores a bundle, also when ops-api waits for it no longer.
StoreBundle(u) ==
    /\ u.at \in {"sent", "given_up"}
    /\ bundle' = [bundle EXCEPT ![u.slug] = u.source]
    /\ uploads' = (uploads \ {u}) \cup (IF u.at = "sent" THEN {[u EXCEPT !.at = "ready"]} ELSE {})
    /\ UNCHANGED <<components, ads, played, settled, calls, listing, doubtful, modal, asked, faults>>

\* It cannot build the source and answers 200 with status "failed": the slug keeps
\* the bundle it had, or is left with none.
FailBuild(u) ==
    /\ u.at \in {"sent", "given_up"}
    /\ \E b \in {bundle[u.slug], None} : bundle' = [bundle EXCEPT ![u.slug] = b]
    /\ uploads' = (uploads \ {u}) \cup (IF u.at = "sent" THEN {[u EXCEPT !.at = "failed"]} ELSE {})
    /\ UNCHANGED <<components, ads, played, settled, calls, listing, doubtful, modal, asked, faults>>

\* ON CONFLICT without the status: the row of a failed build still says ready.
SaveComponent_KeepsStatus(u) ==
    /\ u.at \in {"ready", "failed"}
    /\ LET old == {c \in components : c.slug = u.slug}
       IN  components' = (components \ old) \cup
                         (IF old = {}
                          THEN {[id |-> u.id, slug |-> u.slug, source |-> u.source, status |-> u.at]}
                          ELSE {[c EXCEPT !.source = u.source] : c \in old})
    /\ uploads' = uploads \ {u}
    /\ settled' = IF u.alone THEN settled \cup {u.slug} ELSE settled \ {u.slug}
    /\ UNCHANGED <<bundle, ads, played, calls, listing, doubtful, modal, asked, faults>>

\* INSERT ... ON CONFLICT (slug) DO UPDATE: the id stays, source and status are
\* replaced, whichever status the sidecar answered.
SaveComponent(u) ==
    /\ u.at \in {"ready", "failed"}
    /\ LET old == {c \in components : c.slug = u.slug}
           ids == IF old = {} THEN {u.id} ELSE {c.id : c \in old}
       IN  components' = (components \ old) \cup
               {[id |-> i, slug |-> u.slug, source |-> u.source, status |-> u.at] : i \in ids}
    /\ uploads' = uploads \ {u}
    /\ settled' = IF u.alone THEN settled \cup {u.slug} ELSE settled \ {u.slug}
    /\ UNCHANGED <<bundle, ads, played, calls, listing, doubtful, modal, asked, faults>>

\* The 120 s run out or the sidecar refuses (502); or ops-api fails after it stored.
FailUpload(u) ==
    /\ Fault
    /\ \/ u.at = "sent" /\ uploads' = (uploads \ {u}) \cup {[u EXCEPT !.at = "given_up"]}
       \/ u.at \in {"sent", "ready", "failed"} /\ uploads' = uploads \ {u}
    /\ settled' = settled \ {u.slug}
    /\ UNCHANGED <<server, calls, listing, doubtful, modal, asked>>

-----------------------------------------------------------------------------
(* Ads and deletes: asked by the page, executed by ops-api, answered.       *)

Shown(t) == {e \in Entries : lists[t][e] > 0}
Rows(t) == {r.id : r \in IF t = "ads" THEN ads ELSE components}
Table(c) == IF c.kind = "delete_component" THEN "components" ELSE "ads"
Row(c) == IF c.kind = "create" THEN c.id ELSE c.of

\* A component need not be chosen in the form; a refused ad can be "deleted" too.
AskCall(kind, of) ==
    /\ Ask
    /\ calls' = calls \cup {[id |-> Fresh, kind |-> kind, of |-> of, answer |-> "pending",
                             early |-> FALSE, page |-> TRUE]}
    /\ UNCHANGED <<server, store, listing, doubtful, modal, faults>>

AskCreate == \E c \in Shown("components") \cup {None} : AskCall("create", c)
AskDeleteAd == \E a \in Shown("ads") : AskCall("delete_ad", a)
AskDeleteComponent == \E c \in Shown("components") : AskCall("delete_component", c)

\* What the handler does and answers; the foreign keys are the database's.
CreateAd(c) ==
    /\ ads' = IF c.of \in Rows("components")
              THEN ads \cup {[id |-> c.id, component |-> c.of]} ELSE ads
    /\ UNCHANGED components
AdAnswer(c) ==
    CASE c.of = None -> "refused" [] c.of \in Rows("components") -> "ok" [] OTHER -> "error"

\* ON DELETE left out of account: a component goes whether or not ads use it.
Deletable_InUse(c) ==
    IF c.kind = "delete_ad" THEN c.of \in Rows("ads") \ played ELSE c.of \in Rows("components")

Deletable(c) ==
    IF c.kind = "delete_ad" THEN c.of \in Rows("ads") \ played
    ELSE c.of \in Rows("components") /\ \A a \in ads : a.component # c.of
Delete(c) ==
    /\ ads' = IF c.kind = "delete_ad" /\ Deletable(c) THEN {a \in ads : a.id # c.of} ELSE ads
    /\ components' = IF c.kind = "delete_component" /\ Deletable(c)
                     THEN {d \in components : d.id # c.of} ELSE components

Answer(c) == IF c.kind = "create" THEN AdAnswer(c)
             ELSE IF Deletable(c) THEN "ok" ELSE "error"

\* A page that is gone, or gave up on the call, never hears of it.
Execute(c) ==
    LET early == loads[Table(c)] = "asked" IN
    /\ c.answer = "pending"
    /\ IF c.kind = "create" THEN CreateAd(c) ELSE Delete(c)
    /\ calls' = (calls \ {c}) \cup
                (IF c.page THEN {[c EXCEPT !.answer = Answer(c), !.early = early]} ELSE {})
    /\ doubtful' = IF ~c.page /\ ~early /\ Answer(c) = "ok" THEN doubtful \cup {Row(c)}
                   ELSE doubtful
    /\ UNCHANGED <<bundle, played, store, listing, modal, asked, faults>>

\* The composer and the player refer to an ad in their own tables.
Play(a) ==
    /\ played' = played \cup {a.id}
    /\ UNCHANGED <<bundle, components, ads, store, calls, listing, doubtful, modal, asked, faults>>

RenderAdPreview(n, ad) ==
    /\ popup' = [Closed EXCEPT !.rendering = TRUE]
    /\ previews' = previews \cup {[id |-> n, ad |-> ad]}
    /\ wanted' = ad

\* The list was read on one side of the change and shown on the other side of its answer.
Crossed(c) == c.early = (loads[Table(c)] = "landed")

\* createAd() parses any JSON body, so a refusal is prepended and previewed like an ad.
HearCreate(c) ==
    /\ c.kind = "create" /\ c.page /\ c.answer # "pending"
    /\ IF c.answer = "error" THEN UNCHANGED <<lists, modal>>
       ELSE LET e == IF c.answer = "ok" THEN c.id ELSE Refusal IN
            lists' = [lists EXCEPT !["ads"][e] = @ + 1] /\ RenderAdPreview(c.id, e)
    /\ doubtful' = IF c.answer = "ok" /\ Crossed(c) THEN doubtful \cup {c.id} ELSE doubtful
    /\ calls' = calls \ {c}
    /\ UNCHANGED <<server, store, loads, taken, asked, faults>>

\* deleteAd() without the test of res.ok, as createAd() is.
HearDelete_AnyAnswer(c) ==
    /\ c.kind # "create" /\ c.page /\ c.answer # "pending"
    /\ lists' = [lists EXCEPT ![Table(c)][c.of] = 0]
    /\ doubtful' = IF c.answer = "ok" /\ Crossed(c) THEN doubtful \cup {c.of} ELSE doubtful
    /\ calls' = calls \ {c}
    /\ UNCHANGED <<server, store, loads, taken, modal, asked, faults>>

HearDelete(c) ==
    /\ c.kind # "create" /\ c.page /\ c.answer # "pending"
    /\ lists' = IF c.answer = "ok" THEN [lists EXCEPT ![Table(c)][c.of] = 0] ELSE lists
    /\ doubtful' = IF c.answer = "ok" /\ Crossed(c) THEN doubtful \cup {c.of} ELSE doubtful
    /\ calls' = calls \ {c}
    /\ UNCHANGED <<server, store, loads, taken, modal, asked, faults>>

\* The page shows an error; the request may still be executed.
LoseCall(c) ==
    /\ Fault
    /\ c.page
    /\ calls' = (calls \ {c}) \cup
                (IF c.answer = "pending" THEN {[c EXCEPT !.page = FALSE]} ELSE {})
    /\ doubtful' = IF c.answer = "ok" /\ ~c.early THEN doubtful \cup {Row(c)} ELSE doubtful
    /\ UNCHANGED <<server, store, listing, modal, asked>>

-----------------------------------------------------------------------------
(* The page's first lists, and a page opened anew.                          *)

ReadList(t) ==
    /\ loads[t] = "asked"
    /\ loads' = [loads EXCEPT ![t] = "taken"]
    /\ taken' = [taken EXCEPT ![t] = Rows(t)]
    /\ UNCHANGED <<server, store, calls, lists, doubtful, modal, asked, faults>>

ShowList(t) ==
    /\ loads[t] = "taken"
    /\ loads' = [loads EXCEPT ![t] = "landed"]
    /\ lists' = [lists EXCEPT ![t] = [e \in Entries |-> IF e \in taken[t] THEN 1 ELSE 0]]
    /\ UNCHANGED <<server, store, calls, taken, doubtful, modal, asked, faults>>

LoseList(t) ==
    /\ Fault
    /\ loads[t] \in {"asked", "taken"}
    /\ loads' = [loads EXCEPT ![t] = "failed"]
    /\ UNCHANGED <<server, store, calls, taken, lists, doubtful, modal, asked>>

OpenAnew ==
    /\ Ask
    /\ loads' = [t \in Tables |-> "asked"]
    /\ taken' = [t \in Tables |-> {}]
    /\ lists' = [t \in Tables |-> Nothing]
    /\ calls' = {[c EXCEPT !.page = FALSE] : c \in {d \in calls : d.answer = "pending"}}
    /\ doubtful' = {}
    /\ popup' = Closed /\ previews' = {} /\ wanted' = None
    /\ UNCHANGED <<server, store, faults>>

-----------------------------------------------------------------------------
(* The finished-ad preview.                                                 *)

PreviewAd(e) ==
    /\ Ask
    /\ RenderAdPreview(Fresh, e)
    /\ UNCHANGED <<server, store, calls, listing, doubtful, faults>>

\* The composer answers a url or an error; nothing says which ad it is for.
\* A refused ad has no component to render.
SettlePreview(p) ==
    /\ previews' = previews \ {p}
    /\ \/ p.ad # Refusal /\ popup' = [popup EXCEPT !.rendering = FALSE, !.video = p.ad]
       \/ popup' = [popup EXCEPT !.rendering = FALSE, !.error = p.ad]
    /\ UNCHANGED <<server, store, calls, listing, doubtful, wanted, asked, faults>>

ClosePopup ==
    /\ popup # Closed
    /\ popup' = Closed /\ wanted' = None
    /\ UNCHANGED <<server, store, calls, listing, doubtful, previews, asked, faults>>

-----------------------------------------------------------------------------
Next ==
    \/ \E s \in Slugs, v \in Sources : Upload(s, v)
    \/ \E u \in uploads : StoreBundle(u) \/ FailBuild(u) \/ SaveComponent(u) \/ FailUpload(u)
    \/ AskCreate \/ AskDeleteAd \/ AskDeleteComponent
    \/ \E c \in calls : Execute(c) \/ HearCreate(c) \/ HearDelete(c) \/ LoseCall(c)
    \/ \E a \in ads : Play(a)
    \/ \E t \in Tables : ReadList(t) \/ ShowList(t) \/ LoseList(t)
    \/ OpenAnew
    \/ \E e \in Shown("ads") : PreviewAd(e)
    \/ \E p \in previews : SettlePreview(p)
    \/ ClosePopup

Spec == Init /\ [][Next]_vars

-----------------------------------------------------------------------------
(* A row that says "ready" shows the source its bundle was built from, once *)
(* an upload of it has run to its end with no other under way: what failed  *)
(* or overlapped before is healed by one undisturbed retry, also if a       *)
(* request the API had given up on was stored late.  A build that failed    *)
(* replaces the row's source and not the bundle, but never unsaid: the row  *)
(* is "failed" then (main.py upload_component).                             *)
BundleMatchesRow ==
    \A c \in components :
        c.status = "ready" /\ c.slug \in settled /\ (\A u \in uploads : u.slug # c.slug)
            => bundle[c.slug] = c.source

(* Once a table's first list is shown, the page shows each of its ads once  *)
(* and no ad that is gone, and no component that is gone, but for answers   *)
(* on their way and for rows whose change the list crossed or whose answer  *)
(* was lost (Authoring.tsx: the lists are patched, never read again).       *)
ListsMatchTables ==
    LET unheard == {Row(c) : c \in {d \in calls : d.answer = "ok"}}
        certain == Ids \ (doubtful \cup unheard)
    IN  /\ loads["ads"] = "landed" =>
               \A i \in certain : lists["ads"][i] = IF i \in Rows("ads") THEN 1 ELSE 0
        /\ loads["components"] = "landed" =>
               \A i \in certain : lists["components"][i] > 0 => i \in Rows("components")

(* Authoring.tsx:186-187: the ad's preview is rendered and popped up "so    *)
(* the advertiser can watch what they just made": an open popup plays no    *)
(* other ad than the one it was opened for last.                            *)
PopupShowsLatest == wanted \in Ids => popup.video \in {None, wanted}
=============================================================================
