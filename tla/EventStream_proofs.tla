------------------------ MODULE EventStream_proofs ------------------------
(***************************************************************************)
(* What the live feed guarantees for any number of rows, connections and   *)
(* page sizes.                                                             *)
(*                                                                         *)
(* OnlyLateRowsMissed and FeedInOrder are about what the generator will    *)
(* ask for next, so both rest on where last_ts stands between the rows     *)
(* already sent and those fetched (Position), and on last_ts being the ts  *)
(* of a row the table holds (Anchored).                                    *)
(***************************************************************************)
EXTENDS EventStream, FiniteSetTheorems, TLAPS

-----------------------------------------------------------------------------
(* Rows that went out are committed, and a connection's rows are told from *)
(* those of the connections before it.                                     *)
Sent ==
    /\ batch \subseteq Committed
    /\ link = "down" => batch = {}
    /\ \A e \in Events : shown[e] <= conn
    /\ \A e \in Events : shown[e] > 0 => e \in Committed
    /\ link # "down" => conn > 0

(* last_ts and the rows fetched stand after everything this connection     *)
(* sent.                                                                   *)
Position ==
    link # "down" =>
        /\ \A e \in Events : shown[e] = conn => ts[e] <= last
        /\ \A b \in batch : shown[b] # conn
        /\ \A e \in Events, b \in batch : shown[e] = conn => ts[e] <= ts[b]
        /\ link = "page" => \A b \in batch : ts[b] <= last
        /\ link = "loop" => \A b \in batch : last <= ts[b]

Anchored == link # "down" => last = floor \/ \E f \in Committed : last = ts[f]

(* A row of the feed that this connection brought is one it has shown.     *)
FeedShown ==
    \A k \in 1 .. Len(feed) :
        /\ feed[k].conn <= conn
        /\ feed[k].conn > 0
        /\ feed[k].row \in Committed
        /\ feed[k].conn = conn => shown[feed[k].row] = conn

-----------------------------------------------------------------------------
(* Putting a row at the head of the feed shifts the others and may cut the *)
(* tail (App.tsx:28).                                                      *)
LEMMA KeptShifts ==
    ASSUME NEW S, NEW seq \in Seq(S), NEW x \in S
    PROVE  LET new == Kept(<<x>> \o seq)
           IN  /\ new \in Seq(S)
               /\ Len(new) <= FeedCap
               /\ Len(new) <= Len(seq) + 1
               /\ Len(new) > 0 => new[1] = x
               /\ \A k \in 1 .. Len(new) : k > 1 => k - 1 \in 1 .. Len(seq) /\ new[k] = seq[k - 1]
<1> DEFINE all == <<x>> \o seq
           n == IF Len(all) < FeedCap THEN Len(all) ELSE FeedCap
<1>1. all \in Seq(S) /\ Len(all) = Len(seq) + 1
  OBVIOUS
<1>2. all[1] = x /\ \A k \in 1 .. Len(all) : k > 1 => k - 1 \in 1 .. Len(seq) /\ all[k] = seq[k - 1]
  OBVIOUS
<1>3. n \in Nat /\ n <= Len(all) /\ n <= FeedCap
  BY <1>1, StreamAssumption
<1>4. SubSeq(all, 1, n) \in Seq(S) /\ Len(SubSeq(all, 1, n)) = n
      /\ \A k \in 1 .. n : SubSeq(all, 1, n)[k] = all[k]
  BY <1>1, <1>3
<1> QED
  BY <1>1, <1>2, <1>3, <1>4 DEF Kept

LEMMA TypeCorrectInit == Init => TypeOK
  BY StreamAssumption DEF Init, TypeOK, Time, Conns, NoFloor

LEMMA SeqElement ==
    ASSUME NEW S, NEW seq \in Seq(S), NEW k \in 1 .. Len(seq)
    PROVE  seq[k] \in S
  OBVIOUS

(* The type invariant: the events journal, the generator and the browser's *)
(* bounded feed keep their shape.                                          *)
THEOREM TypeCorrect == Spec => []TypeOK
<1>1. Init => TypeOK
  BY TypeCorrectInit
<1>2. TypeOK /\ [Next]_vars => TypeOK'
  <2> SUFFICES ASSUME TypeOK, [Next]_vars PROVE TypeOK'
    OBVIOUS
  <2> USE StreamAssumption DEF TypeOK, Time, Conns, NoFloor
  <2>1. CASE Tick
    BY <2>1 DEF Tick, streamVars
  <2>2. ASSUME NEW e \in Events, Emit(e) PROVE TypeOK'
    BY <2>2 DEF Emit, streamVars
  <2>3. ASSUME NEW e \in Events, Commit(e) PROVE TypeOK'
    BY <2>3 DEF Commit, streamVars
  <2>4. ASSUME NEW e \in Events, Abort(e) PROVE TypeOK'
    BY <2>4 DEF Abort, streamVars
  <2>5. CASE Connect
    BY <2>5 DEF Connect, FirstPages, Committed, StartAfter, Newest, journalVars
  <2>6. CASE Yield
    <3>1. PICK e \in Oldest(batch) :
            /\ batch' = batch \ {e}
            /\ last' = IF link = "loop" THEN ts[e] ELSE last
            /\ shown' = [shown EXCEPT ![e] = conn]
            /\ feed' = Kept(<<[row |-> e, conn |-> conn]>> \o feed)
      BY <2>6 DEF Yield
    <3>2. e \in Events
      BY <3>1 DEF Oldest
    <3>3. feed' \in Seq([row : Events, conn : Conns]) /\ Len(feed') <= FeedCap
      <4> DEFINE x == [row |-> e, conn |-> conn]
      <4>1. x \in [row : Events, conn : Conns] /\ feed \in Seq([row : Events, conn : Conns])
        BY <3>2
      <4>2. Kept(<<x>> \o feed) \in Seq([row : Events, conn : Conns]) /\ Len(Kept(<<x>> \o feed)) <= FeedCap
        <5> HIDE DEF x
        <5> QED BY <4>1, KeptShifts
      <4> QED
        BY <3>1, <4>2
    <3> QED
      BY <2>6, <3>1, <3>2, <3>3 DEF Yield, journalVars
  <2>7. CASE Poll
    BY <2>7 DEF Poll, Committed, journalVars
  <2>8. CASE Disconnect
    BY <2>8 DEF Disconnect, journalVars
  <2>9. CASE UNCHANGED vars
    BY <2>9 DEF vars
  <2> QED
    BY <2>1, <2>2, <2>3, <2>4, <2>5, <2>6, <2>7, <2>8, <2>9 DEF Next
<1> QED
  BY <1>1, <1>2, PTL DEF Spec

-----------------------------------------------------------------------------
(* A transaction that ends or begins leaves the committed rows committed   *)
(* and their ts as they were.                                              *)
JournalStep ==
    /\ UNCHANGED streamVars
    /\ Committed \subseteq Committed'
    /\ \A e \in Committed : ts'[e] = ts[e]

LEMMA JournalSteps ==
    ASSUME TypeOK, Tick \/ (\E e \in Events : Emit(e) \/ Commit(e) \/ Abort(e))
    PROVE  JournalStep
<1>1. CASE Tick
  BY <1>1 DEF Tick, JournalStep, Committed, streamVars, TypeOK
<1>2. ASSUME NEW e \in Events, Emit(e) PROVE JournalStep
  BY <1>2 DEF Emit, JournalStep, Committed, streamVars, TypeOK
<1>3. ASSUME NEW e \in Events, Commit(e) PROVE JournalStep
  BY <1>3 DEF Commit, JournalStep, Committed, streamVars, TypeOK
<1>4. ASSUME NEW e \in Events, Abort(e) PROVE JournalStep
  BY <1>4 DEF Abort, JournalStep, Committed, streamVars, TypeOK
<1> QED
  BY <1>1, <1>2, <1>3, <1>4

StreamInv == TypeOK /\ Sent /\ Position /\ Anchored /\ FeedShown

(* The rows of the generator and of the browser, step by step.             *)
LEMMA StreamInvHolds == Spec => []StreamInv
<1> USE StreamAssumption
<1>1. Init => StreamInv
  BY TypeCorrectInit DEF Init, StreamInv, Sent, Position, Anchored, FeedShown, Committed
<1>2. TypeOK /\ TypeOK' /\ StreamInv /\ [Next]_vars => StreamInv'
  <2> SUFFICES ASSUME TypeOK, TypeOK', Sent, Position, Anchored, FeedShown, [Next]_vars
               PROVE  Sent' /\ Position' /\ Anchored' /\ FeedShown'
    BY DEF StreamInv
  <2>1. CASE Tick \/ (\E e \in Events : Emit(e) \/ Commit(e) \/ Abort(e))
    <3>1. JournalStep
      BY <2>1, JournalSteps
    <3>2. Sent'
      BY <3>1 DEF JournalStep, streamVars, Sent
    <3>3. \A e \in Events : link # "down" /\ shown[e] = conn => e \in Committed
      BY DEF Sent, TypeOK, Conns
    <3>4. Position'
      BY <3>1, <3>3 DEF JournalStep, streamVars, Position, Sent, TypeOK
    <3>5. Anchored'
      BY <3>1 DEF JournalStep, streamVars, Anchored
    <3>6. FeedShown'
      BY <3>1 DEF JournalStep, streamVars, FeedShown
    <3> QED
      BY <3>2, <3>4, <3>5, <3>6
  <2>2. CASE Connect
    <3> USE <2>2 DEF Connect, journalVars
    <3>1. Committed' = Committed /\ conn' = conn + 1 /\ link' = "page"
      BY DEF Committed
    <3>2. PICK page \in FirstPages(Recent) :
            /\ batch' = page
            /\ last' \in StartAfter(page)
            /\ floor' = IF page = {} THEN clock ELSE NoFloor
      OBVIOUS
    <3>3. \A e \in Events : shown'[e] # conn'
      BY <3>1 DEF Sent, TypeOK, Conns
    <3>4. Sent'
      BY <3>1, <3>2 DEF Sent, FirstPages, TypeOK, Conns
    <3>5. \A b \in batch' : ts[b] <= last'
      BY <3>2 DEF StartAfter, Newest, FirstPages
    <3>6. Position'
      BY <3>1, <3>3, <3>5, <3>4 DEF Position, Sent, Committed
    <3>7. Anchored'
      BY <3>1, <3>2 DEF Anchored, StartAfter, Newest, FirstPages
    <3>8. FeedShown'
      <4>1. feed \in Seq([row : Events, conn : Conns]) /\ conn \in Nat
        BY DEF TypeOK, Conns
      <4>2. ASSUME NEW k \in 1 .. Len(feed)
            PROVE  feed[k].conn <= conn' /\ feed[k].conn # conn'
        <5>1. feed[k] \in [row : Events, conn : Conns]
          BY <4>1, SeqElement
        <5>2. feed[k].conn \in Nat
          BY <5>1 DEF Conns
        <5> QED
          BY <3>1, <4>1, <5>2 DEF FeedShown
      <4> QED
        BY <3>1, <4>2 DEF FeedShown
    <3> QED
      BY <3>4, <3>6, <3>7, <3>8
  <2>3. CASE Yield
    <3>1. PICK e \in Oldest(batch) :
            /\ batch' = batch \ {e}
            /\ last' = IF link = "loop" THEN ts[e] ELSE last
            /\ shown' = [shown EXCEPT ![e] = conn]
            /\ feed' = Kept(<<[row |-> e, conn |-> conn]>> \o feed)
      BY <2>3 DEF Yield
    <3>2. /\ Committed' = Committed /\ ts' = ts /\ link' = link /\ conn' = conn /\ floor' = floor
          /\ link # "down"
      BY <2>3 DEF Yield, journalVars, Committed
    <3>3. e \in batch /\ e \in Committed /\ e \in Events /\ \A b \in batch : ts[e] <= ts[b]
      BY <3>1 DEF Oldest, Sent, Committed
    <3>4. \A f \in Events : shown'[f] = IF f = e THEN conn ELSE shown[f]
      BY <3>1 DEF TypeOK
    <3>5. Sent'
      BY <3>1, <3>2, <3>3, <3>4 DEF Sent, TypeOK, Conns
    <3>6. Position'
      BY <3>1, <3>2, <3>3, <3>4 DEF Position, TypeOK, Sent, Committed
    <3>7. Anchored'
      BY <3>1, <3>2, <3>3 DEF Anchored
    <3>8. FeedShown'
      <4> DEFINE x == [row |-> e, conn |-> conn]
      <4>1. x.row = e /\ x.conn = conn /\ x \in [row : Events, conn : Conns]
        BY <3>3 DEF TypeOK
      <4>2. feed \in Seq([row : Events, conn : Conns]) /\ feed' = Kept(<<x>> \o feed)
        BY <3>1 DEF TypeOK
      <4> HIDE DEF x
      <4>3. /\ Len(feed') > 0 => feed'[1] = x
            /\ Len(feed') \in Nat
            /\ \A k \in 1 .. Len(feed') : k > 1 => k - 1 \in 1 .. Len(feed) /\ feed'[k] = feed[k - 1]
        <5> DEFINE new == Kept(<<x>> \o feed)
        <5>1. /\ new \in Seq([row : Events, conn : Conns])
              /\ Len(new) > 0 => new[1] = x
              /\ \A k \in 1 .. Len(new) : k > 1 => k - 1 \in 1 .. Len(feed) /\ new[k] = feed[k - 1]
          BY <4>1, <4>2, KeptShifts
        <5>2. Len(new) \in Nat
          BY <5>1
        <5> HIDE DEF new
        <5> QED
          BY <4>2, <5>1, <5>2 DEF new
      <4>4. conn > 0
        BY <3>2 DEF Sent
      <4> SUFFICES ASSUME NEW k \in 1 .. Len(feed')
                   PROVE  /\ feed'[k].conn <= conn
                          /\ feed'[k].conn > 0
                          /\ feed'[k].row \in Committed
                          /\ feed'[k].conn = conn => shown'[feed'[k].row] = conn
        BY <3>2 DEF FeedShown
      <4>5. CASE k = 1
        BY <4>1, <4>3, <4>4, <4>5, <3>3, <3>4 DEF TypeOK, Conns
      <4>6. CASE k > 1
        BY <4>3, <4>6, <3>4 DEF FeedShown, Committed
      <4> QED
        BY <4>3, <4>5, <4>6
    <3> QED
      BY <3>5, <3>6, <3>7, <3>8
  <2>4. CASE Poll
    <3> USE <2>4 DEF Poll, journalVars
    <3>1. Committed' = Committed
      BY DEF Committed
    <3>2. Sent'
      BY <3>1 DEF Sent
    <3>3. Position'
      BY <3>1 DEF Position, Committed, TypeOK
    <3> QED
      BY <3>1, <3>2, <3>3 DEF Anchored, FeedShown
  <2>5. CASE Disconnect
    BY <2>5 DEF Disconnect, journalVars, Committed, Sent, Position, Anchored, FeedShown
  <2>6. CASE UNCHANGED vars
    BY <2>6 DEF vars, Committed, Sent, Position, Anchored, FeedShown
  <2> QED
    BY <2>1, <2>2, <2>3, <2>4, <2>5, <2>6 DEF Next
<1> QED
  BY <1>1, <1>2, TypeCorrect, PTL DEF Spec

-----------------------------------------------------------------------------
(* Rows only become more numerous, so a row pushed out stays pushed out.   *)
LEMMA PushedOutStays ==
    ASSUME TypeOK, NEW e \in Events, e \in Committed, PushedOut(e),
           Committed \subseteq Committed', \A f \in Committed : ts'[f] = ts[f]
    PROVE  PushedOut(e)'
<1> DEFINE A == {f \in Committed \ {e} : ts[f] >= ts[e]}
           B == {f \in Committed' \ {e} : ts'[f] >= ts'[e]}
<1>1. A \subseteq B /\ B \subseteq Events
  BY DEF Committed
<1>2. IsFiniteSet(B)
  BY <1>1, FS_Subset, StreamAssumption
<1>3. IsFiniteSet(A) /\ Cardinality(A) <= Cardinality(B)
  BY <1>1, <1>2, FS_Subset
<1>4. Cardinality(A) \in Nat /\ Cardinality(B) \in Nat
  BY <1>2, <1>3, FS_CardinalityType
<1> QED
  BY <1>3, <1>4, StreamAssumption DEF PushedOut

(* A row that is not on a first page stands behind a full one.             *)
LEMMA OffPage ==
    ASSUME TypeOK, NEW page \in FirstPages(Recent), NEW e \in Committed, e \notin page
    PROVE  PushedOut(e)
<1> DEFINE A == {f \in Committed \ {e} : ts[f] >= ts[e]}
<1>1. page \subseteq A /\ Cardinality(page) = Recent
  BY DEF FirstPages, Committed, TypeOK
<1>2. IsFiniteSet(A)
  BY FS_Subset, StreamAssumption DEF Committed
<1>3. Cardinality(page) <= Cardinality(A)
  BY <1>1, <1>2, FS_Subset
<1> QED
  BY <1>1, <1>3 DEF PushedOut

(* What a connection of the live feed can miss (main.py:384-400): only     *)
(* rows that committed out of the order of ts, rows behind a full first    *)
(* page, and rows older than a connection opened on an empty table.        *)
THEOREM OnlyLateRowsMissedHolds == Spec => []OnlyLateRowsMissed
<1> USE StreamAssumption
<1>1. Init => OnlyLateRowsMissed
  BY DEF Init, OnlyLateRowsMissed
<1>2. StreamInv /\ OnlyLateRowsMissed /\ [Next]_vars => OnlyLateRowsMissed'
  <2> SUFFICES ASSUME TypeOK, Sent, Position, Anchored, OnlyLateRowsMissed, [Next]_vars,
                      NEW e \in Events, link' # "down", Missed(e)'
               PROVE  e \in late' \/ (e \in old' /\ PushedOut(e)') \/ ts'[e] <= floor'
    BY DEF StreamInv, OnlyLateRowsMissed
  <2>1. CASE Tick \/ (\E f \in Events : Emit(f) \/ Commit(f) \/ Abort(f))
    <3>1. JournalStep
      BY <2>1, JournalSteps
    <3>2. late \subseteq late'
      BY <2>1 DEF Tick, Emit, Commit, Abort
    <3>3. CASE e \in Committed
      <4>1. Missed(e)
        BY <3>1, <3>3 DEF JournalStep, streamVars, Missed, Sent
      <4>2. e \in late \/ (e \in old /\ PushedOut(e)) \/ ts[e] <= floor
        BY <3>1, <4>1 DEF JournalStep, streamVars, OnlyLateRowsMissed
      <4> QED
        BY <3>1, <3>2, <3>3, <4>2, PushedOutStays DEF JournalStep, streamVars
    <3>4. CASE e \notin Committed
      <4>1. e \in Committed'
        BY DEF Missed
      <4>2. Commit(e)
        BY <2>1, <3>4, <4>1 DEF Tick, Emit, Commit, Abort, Committed, TypeOK
      <4>3. CASE Overtaken(e)
        BY <4>2, <4>3 DEF Commit
      <4>4. CASE ~Overtaken(e)
        <5>1. \A f \in Committed : ts[f] < ts[e]
          BY <4>4 DEF Overtaken, Committed, TypeOK
        <5>2. ts[e] <= last
          BY <3>1, <4>2, <5>1 DEF Missed, JournalStep, streamVars, Sent, Commit, Committed, TypeOK
        <5> QED
          BY <3>1, <4>2, <5>1, <5>2 DEF Anchored, JournalStep, streamVars, Commit, TypeOK, Committed
      <4> QED
        BY <4>3, <4>4
    <3> QED
      BY <3>3, <3>4
  <2>2. CASE Connect
    <3>1. e \in Committed /\ e \notin batch' /\ ts' = ts /\ Committed' = Committed /\ old' = Committed
      BY <2>2 DEF Connect, journalVars, Missed, Committed
    <3>2. batch' \in FirstPages(Recent)
      BY <2>2 DEF Connect
    <3>3. PushedOut(e)
      BY <3>1, <3>2, OffPage
    <3> QED
      BY <3>1, <3>3, PushedOutStays
  <2>3. CASE Yield
    <3>1. PICK f \in Oldest(batch) :
            /\ batch' = batch \ {f}
            /\ last' = IF link = "loop" THEN ts[f] ELSE last
            /\ shown' = [shown EXCEPT ![f] = conn]
      BY <2>3 DEF Yield
    <3>2. UNCHANGED <<ts, late, conn, floor, old, link>> /\ Committed' = Committed
      BY <2>3 DEF Yield, journalVars, Committed
    <3>3. f \in batch /\ f \in Events /\ \A b \in batch : ts[f] <= ts[b]
      BY <3>1 DEF Oldest, Sent, Committed
    <3>4. e # f
      BY <3>1, <3>2, <3>3 DEF Missed, TypeOK
    <3>5. Missed(e)
      BY <3>1, <3>2, <3>3, <3>4 DEF Missed, TypeOK
    <3>6. e \in late \/ (e \in old /\ PushedOut(e)) \/ ts[e] <= floor
      BY <3>2, <3>5 DEF OnlyLateRowsMissed
    <3>7. e \in Committed
      BY <3>5 DEF Missed
    <3> QED
      BY <3>2, <3>6, <3>7, PushedOutStays
  <2>4. CASE Poll
    <3>1. UNCHANGED <<ts, late, conn, floor, old, last, shown>> /\ Committed' = Committed
          /\ batch = {} /\ link # "down" /\ batch' = {f \in Committed : ts[f] > last}
      BY <2>4 DEF Poll, journalVars, Committed
    <3>2. e \in Committed /\ ~(ts[e] > last)
      BY <3>1 DEF Missed
    <3>3. Missed(e)
      BY <3>1, <3>2 DEF Missed, TypeOK
    <3>4. e \in late \/ (e \in old /\ PushedOut(e)) \/ ts[e] <= floor
      BY <3>1, <3>3 DEF OnlyLateRowsMissed
    <3> QED
      BY <3>1, <3>2, <3>4, PushedOutStays
  <2>5. CASE Disconnect
    BY <2>5 DEF Disconnect
  <2>6. CASE UNCHANGED vars
    <3>1. Missed(e) /\ link # "down"
      BY <2>6 DEF vars, Missed, Committed
    <3>2. e \in late \/ (e \in old /\ PushedOut(e)) \/ ts[e] <= floor
      BY <3>1 DEF OnlyLateRowsMissed
    <3> QED
      BY <2>6, <3>2 DEF vars, PushedOut, Committed
  <2> QED
    BY <2>1, <2>2, <2>3, <2>4, <2>5, <2>6 DEF Next
<1> QED
  BY <1>1, <1>2, StreamInvHolds, PTL DEF Spec

(* The feed is newest first per connection and repeats a row only after a  *)
(* reconnection (App.tsx:25-28).                                           *)
THEOREM FeedInOrderHolds == Spec => []FeedInOrder
<1> USE StreamAssumption
<1>1. Init => FeedInOrder
  BY DEF Init, FeedInOrder
<1>2. StreamInv /\ FeedInOrder /\ [Next]_vars => FeedInOrder'
  <2> SUFFICES ASSUME TypeOK, Sent, Position, FeedShown, FeedInOrder, [Next]_vars
               PROVE  FeedInOrder'
    BY DEF StreamInv
  <2>1. CASE feed' = feed /\ \A f \in Committed : ts'[f] = ts[f]
    BY <2>1 DEF FeedInOrder, FeedShown
  <2>2. CASE Yield
    <3>1. PICK e \in Oldest(batch) :
            /\ shown' = [shown EXCEPT ![e] = conn]
            /\ feed' = Kept(<<[row |-> e, conn |-> conn]>> \o feed)
      BY <2>2 DEF Yield
    <3>2. ts' = ts /\ link # "down"
      BY <2>2 DEF Yield, journalVars
    <3>3. e \in batch /\ e \in Events
      BY <3>1 DEF Oldest, Sent, Committed
    <3> DEFINE x == [row |-> e, conn |-> conn]
    <3>4. x.row = e /\ x.conn = conn /\ x \in [row : Events, conn : Conns]
      BY <3>3 DEF TypeOK
    <3>5. feed \in Seq([row : Events, conn : Conns]) /\ feed' = Kept(<<x>> \o feed)
      BY <3>1 DEF TypeOK
    <3> HIDE DEF x
    <3>6. /\ Len(feed') > 0 => feed'[1] = x
          /\ \A k \in 1 .. Len(feed') : k > 1 => k - 1 \in 1 .. Len(feed) /\ feed'[k] = feed[k - 1]
      BY <3>4, <3>5, KeptShifts
    <3>7. Len(feed') \in Nat
      BY <3>4, <3>5, KeptShifts
    <3>8. \A k \in 1 .. Len(feed) :
             /\ feed[k].conn <= conn
             /\ feed[k].conn = conn => feed[k].row # e /\ ts[e] >= ts[feed[k].row]
      BY <3>2, <3>3 DEF FeedShown, Position, Committed
    <3> SUFFICES ASSUME NEW i \in 1 .. Len(feed'), NEW j \in 1 .. Len(feed'), i < j
                 PROVE  /\ feed'[i].conn >= feed'[j].conn
                        /\ feed'[i].conn = feed'[j].conn =>
                              /\ feed'[i].row # feed'[j].row
                              /\ ts[feed'[i].row] >= ts[feed'[j].row]
      BY <3>2 DEF FeedInOrder
    <3>9. j > 1 /\ j - 1 \in 1 .. Len(feed) /\ feed'[j] = feed[j - 1]
      BY <3>6, <3>7
    <3>10. CASE i = 1
      BY <3>4, <3>6, <3>7, <3>8, <3>9, <3>10
    <3>11. CASE i > 1
      <4>1. i - 1 \in 1 .. Len(feed) /\ feed'[i] = feed[i - 1] /\ i - 1 < j - 1
        BY <3>6, <3>7, <3>9, <3>11
      <4> QED
        BY <3>9, <4>1 DEF FeedInOrder
    <3> QED
      BY <3>7, <3>10, <3>11
  <2>3. CASE Tick \/ (\E e \in Events : Emit(e) \/ Commit(e) \/ Abort(e))
    BY <2>1, <2>3, JournalSteps DEF JournalStep, streamVars
  <2>4. CASE Connect \/ Poll \/ Disconnect \/ UNCHANGED vars
    BY <2>1, <2>4 DEF Connect, Poll, Disconnect, journalVars, vars
  <2> QED
    BY <2>2, <2>3, <2>4 DEF Next
<1> QED
  BY <1>1, <1>2, StreamInvHolds, PTL DEF Spec
=============================================================================
