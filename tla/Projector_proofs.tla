-------------------------- MODULE Projector_proofs --------------------------
(***************************************************************************)
(* Theorems about Projector, for every number of workers, events and       *)
(* faults and every page size.                                             *)
(*                                                                         *)
(* Core is inductive without any assumption on time; it gives type         *)
(* correctness and NeverTwice.  Timed adds what the settle window buys and *)
(* needs MaxOpen + MaxLead < Settle; it gives NoEventJumped, ExactlyOnce,  *)
(* BatchOnCursor and the refinement of EventFold.                          *)
(***************************************************************************)
EXTENDS Projector, FiniteSetTheorems, WellFoundedInduction, TLAPS

(* A page in progress: committed rows above the cursor, consumed up to     *)
(* last_id and no further.                                                 *)
PageInv(w) ==
    /\ \A i \in batch[w] : status[i] = "committed" /\ i > cursor
    /\ cursor <= last[w]
    /\ last[w] = cursor \/ last[w] \in batch[w]
    /\ \A i \in Ids : pending[w][i] # Unread <=> i \in batch[w] /\ i <= last[w]

RowLockInv == \A w \in Workers : pc[w] \in Locking => rowLock = w
SelectInv == \A w \in Workers : pc[w] = "select" => last[w] = cursor
QuietInv == \A w \in Workers : pc[w] # "fold" => pending[w] = NoOutcome
FoldInv == \A w \in Workers : pc[w] = "fold" => PageInv(w)
LedgerInv == \A i \in Ids : /\ folds[i] <= 1
                            /\ folds[i] = 1 => /\ i <= cursor
                                               /\ outcome[i] # Unread
                                               /\ status[i] = "committed"

SequenceInv == \A i \in Ids : status[i] = "free" <=> i >= nextId

Core == TypeOK /\ SequenceInv /\ RowLockInv /\ SelectInv /\ QuietInv /\ FoldInv /\ LedgerInv

USE DEF Ended, Folding, Locking, Unread, Goto, journalVars, tableVars, procVars, batchVars, boundVars

(* A lock loses at most the owner whose connection broke.                  *)
LEMMA DropType ==
    ASSUME NEW w \in Workers, NEW lock \in Workers \cup {None, Orphan}
    PROVE  /\ Drop(lock, w) \subseteq Workers \cup {None, Orphan}
           /\ \A v \in Workers \ {w} : lock = v => Drop(lock, w) = {v}
BY WorkersAssumption DEF Drop

(* The steps and faults that touch no transaction.                         *)
Aside(w) ==
    \/ Start(w) \/ AcquireLock(w) \/ Retry(w) \/ Wake(w) \/ SeeStop(w) \/ Exit(w)
    \/ LoseLockConn(w) \/ RequestStop(w)

(* A page in progress is safe from everyone who moves neither the cursor   *)
(* nor the worker's own batch: committed rows stay committed.              *)
LEMMA PageFrame ==
    ASSUME NEW v \in Workers, PageInv(v),
           UNCHANGED <<cursor, batch[v], last[v], pending[v]>>,
           \A i \in batch[v] : status[i] = "committed" => status'[i] = "committed"
    PROVE  PageInv(v)'
BY DEF PageInv

(* processed counts the consumed rows: it is zero for an empty set only.    *)
LEMMA ProcessedPositive ==
    ASSUME NEW w \in Workers
    PROVE  Processed(w) \in Nat /\ (Processed(w) > 0 <=> Consumed(w) # {})
<1>1. IsFiniteSet(Ids)
  BY SizesAssumption, FS_Interval DEF Ids
<1>2. IsFiniteSet(Consumed(w))
  BY <1>1, FS_Subset DEF Consumed
<1> QED
  BY <1>2, FS_CardinalityType, FS_EmptySet DEF Processed

(* The untimed invariant holds before the first worker starts.             *)
LEMMA InitCore == Init => Core
BY SizesAssumption, TimesAssumption, BoundsAssumption
   DEF Init, Core, TypeOK, SequenceInv, RowLockInv, SelectInv, QuietInv, FoldInv, LedgerInv,
       NoOutcome, PCs, Ids, Time

(* The actions that leave the journal's committed rows, the cursor, the    *)
(* row lock and every batch alone: time passes...                          *)
LEMMA CoreTick ==
    ASSUME Core, Tick
    PROVE  Core'
<1> USE DEF Core
<1>1. TypeOK'
  BY SizesAssumption, TimesAssumption, BoundsAssumption, OutcomesAssumption
     DEF Tick, Time, TypeOK, PCs
<1>2. SequenceInv'
  BY DEF Tick, Time, TypeOK, SequenceInv, Ids
<1>3. RowLockInv' /\ SelectInv'
  BY WorkersAssumption DEF Tick, Time, TypeOK, RowLockInv, SelectInv
<1>4. QuietInv'
  BY DEF Tick, Time, TypeOK, QuietInv
<1>5. FoldInv'
  <2> SUFFICES ASSUME NEW v \in Workers, pc'[v] = "fold"
               PROVE  PageInv(v)'
    BY DEF FoldInv
  <2>1. pc[v] = "fold" /\ PageInv(v)
    BY DEF Tick, Time, TypeOK, FoldInv
  <2>2. UNCHANGED <<cursor, batch[v], last[v], pending[v]>>
    BY <2>1, WorkersAssumption DEF Tick, Time, TypeOK
  <2>3. \A i \in batch[v] : status[i] = "committed" => status'[i] = "committed"
    BY <2>1 DEF Tick, Time, TypeOK, SequenceInv
  <2> QED  BY <2>1, <2>2, <2>3, PageFrame
<1>6. LedgerInv'
  BY DEF Tick, Time, TypeOK, SequenceInv, LedgerInv
<1> QED  BY <1>1, <1>2, <1>3, <1>4, <1>5, <1>6

(* ...an emitter inserts an event...                                       *)
LEMMA CoreInsert ==
    ASSUME Core, NEW t \in Int, Insert(t)
    PROVE  Core'
<1> USE DEF Core
<1>1. TypeOK'
  BY SizesAssumption, TimesAssumption, BoundsAssumption, OutcomesAssumption
     DEF Insert, Ids, Time, TypeOK, PCs
<1>2. SequenceInv'
  BY DEF Insert, Ids, Time, TypeOK, SequenceInv
<1>3. RowLockInv' /\ SelectInv'
  BY WorkersAssumption DEF Insert, Ids, Time, TypeOK, RowLockInv, SelectInv
<1>4. QuietInv'
  BY DEF Insert, Ids, Time, TypeOK, QuietInv
<1>5. FoldInv'
  <2> SUFFICES ASSUME NEW v \in Workers, pc'[v] = "fold"
               PROVE  PageInv(v)'
    BY DEF FoldInv
  <2>1. pc[v] = "fold" /\ PageInv(v)
    BY DEF Insert, Ids, Time, TypeOK, FoldInv
  <2>2. UNCHANGED <<cursor, batch[v], last[v], pending[v]>>
    BY <2>1, WorkersAssumption DEF Insert, Ids, Time, TypeOK
  <2>3. \A i \in batch[v] : status[i] = "committed" => status'[i] = "committed"
    BY <2>1 DEF Insert, Ids, Time, TypeOK, SequenceInv
  <2> QED  BY <2>1, <2>2, <2>3, PageFrame
<1>6. LedgerInv'
  BY DEF Insert, Ids, Time, TypeOK, SequenceInv, LedgerInv
<1> QED  BY <1>1, <1>2, <1>3, <1>4, <1>5, <1>6

(* ...or commits or aborts it: only the status of one open id changes.     *)
LEMMA CoreClose ==
    ASSUME Core, NEW i \in Ids, NEW how \in {"committed", "aborted"}, Close(i, how)
    PROVE  Core'
<1> USE DEF Core
<1>1. TypeOK'
  BY SizesAssumption, TimesAssumption, BoundsAssumption, OutcomesAssumption
     DEF Close, TypeOK, PCs
<1>2. SequenceInv'
  BY DEF Close, TypeOK, SequenceInv, Ids
<1>3. RowLockInv' /\ SelectInv'
  BY WorkersAssumption DEF Close, TypeOK, RowLockInv, SelectInv
<1>4. QuietInv'
  BY DEF Close, TypeOK, QuietInv
<1>5. FoldInv'
  <2> SUFFICES ASSUME NEW v \in Workers, pc'[v] = "fold"
               PROVE  PageInv(v)'
    BY DEF FoldInv
  <2>1. pc[v] = "fold" /\ PageInv(v)
    BY DEF Close, TypeOK, FoldInv
  <2>2. UNCHANGED <<cursor, batch[v], last[v], pending[v]>>
    BY <2>1, WorkersAssumption DEF Close, TypeOK
  <2>3. \A j \in batch[v] : status[j] = "committed" => status'[j] = "committed"
    BY <2>1 DEF Close, TypeOK, SequenceInv
  <2> QED  BY <2>1, <2>2, <2>3, PageFrame
<1>6. LedgerInv'
  BY DEF Close, TypeOK, SequenceInv, LedgerInv
<1> QED  BY <1>1, <1>2, <1>3, <1>4, <1>5, <1>6

(* Steps of a worker outside fold_batch, and everything that only moves    *)
(* its pc and its flags.                                                   *)
LEMMA CoreAside ==
    ASSUME Core, NEW w \in Workers, Aside(w)
    PROVE  Core'
<1> USE DEF Core
<1>1. TypeOK'
  <2>1. CASE Start(w) \/ AcquireLock(w) \/ Exit(w)
    BY <2>1 DEF Start, AcquireLock, Exit, TypeOK, PCs
  <2>2. CASE Retry(w) \/ Wake(w) \/ SeeStop(w)
    BY <2>2 DEF Retry, Wake, SeeStop, TypeOK, PCs
  <2>3. CASE LoseLockConn(w)
    BY <2>3, BoundsAssumption DEF LoseLockConn, Drop, TypeOK, PCs
  <2>4. CASE RequestStop(w)
    BY <2>4, BoundsAssumption DEF RequestStop, TypeOK, PCs
  <2> QED  BY <2>1, <2>2, <2>3, <2>4 DEF Aside
<1>2. SequenceInv'
  BY DEF Aside, Start, AcquireLock, Retry, Wake, SeeStop, Exit, LoseLockConn, RequestStop, Drop,
         TypeOK, SequenceInv, Ids
<1>3. RowLockInv' /\ SelectInv'
  BY WorkersAssumption
     DEF Aside, Start, AcquireLock, Retry, Wake, SeeStop, Exit, LoseLockConn, RequestStop, Drop,
         TypeOK, RowLockInv, SelectInv
<1>4. QuietInv'
  BY DEF Aside, Start, AcquireLock, Retry, Wake, SeeStop, Exit, LoseLockConn, RequestStop, Drop,
         TypeOK, QuietInv
<1>5. FoldInv'
  <2> SUFFICES ASSUME NEW v \in Workers, pc'[v] = "fold"
               PROVE  PageInv(v)'
    BY DEF FoldInv
  <2>1. pc[v] = "fold" /\ PageInv(v)
    BY DEF Aside, Start, AcquireLock, Retry, Wake, SeeStop, Exit, LoseLockConn, RequestStop,
           Drop, TypeOK, FoldInv
  <2>2. UNCHANGED <<cursor, batch[v], last[v], pending[v]>>
    BY <2>1, WorkersAssumption
       DEF Aside, Start, AcquireLock, Retry, Wake, SeeStop, Exit, LoseLockConn, RequestStop,
           Drop, TypeOK
  <2>3. \A i \in batch[v] : status[i] = "committed" => status'[i] = "committed"
    BY <2>1
       DEF Aside, Start, AcquireLock, Retry, Wake, SeeStop, Exit, LoseLockConn, RequestStop,
           Drop, TypeOK, SequenceInv
  <2> QED  BY <2>1, <2>2, <2>3, PageFrame
<1>6. LedgerInv'
  BY DEF Aside, Start, AcquireLock, Retry, Wake, SeeStop, Exit, LoseLockConn, RequestStop, Drop,
         TypeOK, SequenceInv, LedgerInv
<1> QED  BY <1>1, <1>2, <1>3, <1>4, <1>5, <1>6

(* BEGIN of a fold transaction only records now().                         *)
LEMMA CoreBegin ==
    ASSUME Core, NEW w \in Workers, BeginFold(w)
    PROVE  Core'
<1> USE DEF Core
<1>1. TypeOK'
  BY SizesAssumption, TimesAssumption, BoundsAssumption, OutcomesAssumption
     DEF BeginFold, TypeOK, PCs
<1>2. SequenceInv'
  BY DEF BeginFold, TypeOK, SequenceInv, Ids
<1>3. RowLockInv' /\ SelectInv'
  BY WorkersAssumption DEF BeginFold, TypeOK, RowLockInv, SelectInv
<1>4. QuietInv'
  BY DEF BeginFold, TypeOK, QuietInv
<1>5. FoldInv'
  <2> SUFFICES ASSUME NEW v \in Workers, pc'[v] = "fold"
               PROVE  PageInv(v)'
    BY DEF FoldInv
  <2>1. pc[v] = "fold" /\ PageInv(v)
    BY DEF BeginFold, TypeOK, FoldInv
  <2>2. UNCHANGED <<cursor, batch[v], last[v], pending[v]>>
    BY <2>1, WorkersAssumption DEF BeginFold, TypeOK
  <2>3. \A i \in batch[v] : status[i] = "committed" => status'[i] = "committed"
    BY <2>1 DEF BeginFold, TypeOK, SequenceInv
  <2> QED  BY <2>1, <2>2, <2>3, PageFrame
<1>6. LedgerInv'
  BY DEF BeginFold, TypeOK, SequenceInv, LedgerInv
<1> QED  BY <1>1, <1>2, <1>3, <1>4, <1>5, <1>6

(* The row lock is taken by one worker, on the cursor as it stands.        *)
LEMMA CoreLock ==
    ASSUME Core, NEW w \in Workers, LockCursor(w)
    PROVE  Core'
<1> USE DEF Core
<1>1. TypeOK'
  BY SizesAssumption, TimesAssumption, BoundsAssumption, OutcomesAssumption
     DEF LockCursor, TypeOK, PCs
<1>2. SequenceInv'
  BY DEF LockCursor, TypeOK, SequenceInv, Ids
<1>3. RowLockInv' /\ SelectInv'
  BY WorkersAssumption DEF LockCursor, TypeOK, RowLockInv, SelectInv
<1>4. QuietInv'
  BY DEF LockCursor, TypeOK, QuietInv
<1>5. FoldInv'
  <2> SUFFICES ASSUME NEW v \in Workers, pc'[v] = "fold"
               PROVE  PageInv(v)'
    BY DEF FoldInv
  <2>1. pc[v] = "fold" /\ PageInv(v)
    BY DEF LockCursor, TypeOK, FoldInv
  <2>2. UNCHANGED <<cursor, batch[v], last[v], pending[v]>>
    BY <2>1, WorkersAssumption DEF LockCursor, TypeOK
  <2>3. \A i \in batch[v] : status[i] = "committed" => status'[i] = "committed"
    BY <2>1 DEF LockCursor, TypeOK, SequenceInv
  <2> QED  BY <2>1, <2>2, <2>3, PageFrame
<1>6. LedgerInv'
  BY DEF LockCursor, TypeOK, SequenceInv, LedgerInv
<1> QED  BY <1>1, <1>2, <1>3, <1>4, <1>5, <1>6

(* A page holds committed ids above the cursor only; an empty page gives   *)
(* the row lock back.                                                      *)
LEMMA CoreSelect ==
    ASSUME Core, NEW w \in Workers, SelectBatch(w)
    PROVE  Core'
<1> USE DEF Core
<1>1. TypeOK'
  <2>1. Page(last[w]) \in SUBSET Ids
    BY DEF Page, Visible
  <2>2. batch' \in [Workers -> SUBSET Ids]
    BY <2>1 DEF SelectBatch, TypeOK
  <2> QED
    BY <2>2, WorkersAssumption DEF SelectBatch, TypeOK, PCs
<1>2. SequenceInv'
  BY DEF SelectBatch, TypeOK, SequenceInv, Ids
<1>3. RowLockInv' /\ SelectInv'
  BY WorkersAssumption DEF SelectBatch, TypeOK, RowLockInv, SelectInv
<1>4. QuietInv'
  BY DEF SelectBatch, TypeOK, QuietInv
<1>5. FoldInv'
  <2> SUFFICES ASSUME NEW v \in Workers, pc'[v] = "fold"
               PROVE  PageInv(v)'
    BY DEF FoldInv
  <2>1. CASE v = w
    <3>1. /\ batch'[w] = Page(last[w]) /\ last'[w] = last[w] /\ last[w] = cursor
          /\ pending'[w] = NoOutcome
      BY <2>1 DEF SelectBatch, TypeOK, SelectInv, QuietInv
    <3>2. \A i \in Page(last[w]) : status[i] = "committed" /\ i > cursor
      BY <3>1 DEF Page, Visible
    <3> QED
      BY <2>1, <3>1, <3>2 DEF PageInv, SelectBatch, NoOutcome, TypeOK, Page, Visible, Ids
  <2>2. CASE v # w
    <3>1. pc[v] = "fold" /\ PageInv(v)
      BY <2>2 DEF SelectBatch, TypeOK, FoldInv
    <3> QED
      BY <2>2, <3>1, PageFrame DEF SelectBatch, TypeOK
  <2> QED  BY <2>1, <2>2
<1>6. LedgerInv'
  BY DEF SelectBatch, TypeOK, SequenceInv, LedgerInv
<1> QED  BY <1>1, <1>2, <1>3, <1>4, <1>5, <1>6

(* One more event of the page is consumed, in id order.                    *)
LEMMA CoreFold ==
    ASSUME Core, NEW w \in Workers, NEW i \in Ids, NEW o \in Outcomes, FoldEvent(w, i, o)
    PROVE  Core'
<1> USE DEF Core
<1>1. TypeOK'
  <2>1. pending' \in [Workers -> [Ids -> Outcomes \cup {Unread}]]
    <3>1. [pending[w] EXCEPT ![i] = o] \in [Ids -> Outcomes \cup {Unread}]
      BY DEF TypeOK
    <3> QED  BY <3>1 DEF FoldEvent, TypeOK
  <2>2. last' \in [Workers -> 0 .. MaxEvents]
    BY SizesAssumption DEF FoldEvent, TypeOK, Ids
  <2> QED
    BY <2>1, <2>2 DEF FoldEvent, TypeOK
<1>2. SequenceInv'
  BY DEF FoldEvent, NextRow, TypeOK, SequenceInv, Ids
<1>3. RowLockInv' /\ SelectInv'
  BY WorkersAssumption DEF FoldEvent, NextRow, TypeOK, RowLockInv, SelectInv
<1>4. QuietInv'
  BY DEF FoldEvent, NextRow, TypeOK, QuietInv
<1>5. FoldInv'
  <2> SUFFICES ASSUME NEW v \in Workers, pc'[v] = "fold"
               PROVE  PageInv(v)'
    BY DEF FoldInv
  <2>1. v = w
    BY WorkersAssumption DEF FoldEvent, RowLockInv
  <2>2. PageInv(w)
    BY DEF FoldEvent, FoldInv
  <2>3. /\ batch'[w] = batch[w] /\ last'[w] = i
        /\ pending'[w] = [pending[w] EXCEPT ![i] = o]
    BY DEF FoldEvent, TypeOK
  <2>4. o # Unread
    BY OutcomesAssumption
  <2>5. \A j \in Ids : pending'[w][j] # Unread <=> j \in batch[w] /\ j <= i
    <3>1. pending[w] \in [Ids -> Outcomes \cup {Unread}] /\ last[w] \in Nat /\ i \in Nat
      BY SizesAssumption DEF TypeOK, Ids
    <3>2. i \in batch[w] /\ i > last[w] /\ \A j \in batch[w] : j > last[w] => i <= j
      BY DEF FoldEvent, NextRow
    <3>3. \A j \in Ids : pending[w][j] # Unread <=> j \in batch[w] /\ j <= last[w]
      BY <2>2 DEF PageInv
    <3> QED  BY <2>3, <2>4, <3>1, <3>2, <3>3, SizesAssumption DEF Ids
  <2> QED
    BY <2>1, <2>2, <2>3, <2>5 DEF PageInv, FoldEvent, NextRow, TypeOK, Ids
<1>6. LedgerInv'
  BY DEF FoldEvent, NextRow, TypeOK, SequenceInv, LedgerInv
<1> QED  BY <1>1, <1>2, <1>3, <1>4, <1>5, <1>6

(* A commit consumes events above the cursor that no batch had consumed,   *)
(* and moves the cursor over them.                                         *)
LEMMA CoreCommit ==
    ASSUME Core, NEW w \in Workers, CommitBatch(w)
    PROVE  Core'
<1> USE DEF Core
<1>1. TypeOK'
  BY SizesAssumption, TimesAssumption, BoundsAssumption, OutcomesAssumption
     DEF CommitBatch, AdvanceCursor, Consumed, ForgetBatch, NoOutcome, TypeOK, PCs
<1>2. SequenceInv'
  BY DEF CommitBatch, AdvanceCursor, Consumed, ForgetBatch, NoOutcome, TypeOK, SequenceInv, Ids
<1>3. RowLockInv' /\ SelectInv'
  BY WorkersAssumption
     DEF CommitBatch, AdvanceCursor, Consumed, ForgetBatch, NoOutcome, TypeOK, RowLockInv,
         SelectInv
<1>4. QuietInv'
  BY DEF CommitBatch, AdvanceCursor, Consumed, ForgetBatch, NoOutcome, TypeOK, QuietInv
<1>5. FoldInv'
  <2> SUFFICES ASSUME NEW v \in Workers, pc'[v] = "fold"
               PROVE  FALSE
    BY DEF FoldInv
  <2>1. CASE v = w
    BY <2>1 DEF CommitBatch, TypeOK
  <2>2. CASE v # w
    BY <2>2 DEF CommitBatch, TypeOK, RowLockInv
  <2> QED  BY <2>1, <2>2
<1>6. LedgerInv'
  <2>1. PageInv(w)
    BY DEF CommitBatch, FoldInv
  <2> SUFFICES ASSUME NEW i \in Ids
               PROVE  /\ folds'[i] <= 1
                      /\ folds'[i] = 1 => /\ i <= cursor'
                                          /\ outcome'[i] # Unread
                                          /\ status'[i] = "committed"
    BY DEF LedgerInv
  <2>2. cursor' >= cursor /\ (Processed(w) > 0 => cursor' = last[w])
    BY <2>1 DEF CommitBatch, AdvanceCursor, PageInv, TypeOK
  <2>3. CASE i \in Consumed(w)
    <3>1. i > cursor /\ i <= last[w] /\ status[i] = "committed"
      BY <2>1, <2>3 DEF PageInv, Consumed
    <3>2. folds[i] = 0
      BY <3>1, SizesAssumption DEF LedgerInv, TypeOK, Ids
    <3>3. Processed(w) > 0
      BY <2>3, ProcessedPositive
    <3> QED
      BY <2>2, <2>3, <3>1, <3>2, <3>3 DEF CommitBatch, Consumed, TypeOK
  <2>4. CASE i \notin Consumed(w)
    BY <2>2, <2>4 DEF CommitBatch, LedgerInv, TypeOK, Ids
  <2> QED  BY <2>3, <2>4
<1> QED  BY <1>1, <1>2, <1>3, <1>4, <1>5, <1>6

(* A batch that fails leaves no trace in the tables.                       *)
LEMMA CoreFail ==
    ASSUME Core, NEW w \in Workers, FailBatch(w) \/ Crash(w)
    PROVE  Core'
<1> USE DEF Core
<1>1. TypeOK'
  <2>1. NoOutcome \in [Ids -> Outcomes \cup {Unread}]
    BY DEF NoOutcome
  <2>2. CASE FailBatch(w)
    BY <2>1, <2>2, BoundsAssumption DEF FailBatch, ForgetBatch, Drop, TypeOK, PCs
  <2>3. CASE Crash(w)
    BY <2>1, <2>3, BoundsAssumption DEF Crash, ForgetBatch, Drop, TypeOK, PCs
  <2> QED  BY <2>2, <2>3
<1>2. SequenceInv'
  BY DEF FailBatch, Crash, ForgetBatch, NoOutcome, Drop, TypeOK, SequenceInv, Ids
<1>3. RowLockInv' /\ SelectInv'
  BY WorkersAssumption
     DEF FailBatch, Crash, ForgetBatch, NoOutcome, Drop, TypeOK, RowLockInv, SelectInv
<1>4. QuietInv'
  BY DEF FailBatch, Crash, ForgetBatch, NoOutcome, Drop, TypeOK, QuietInv
<1>5. FoldInv'
  <2> SUFFICES ASSUME NEW v \in Workers, pc'[v] = "fold"
               PROVE  PageInv(v)'
    BY DEF FoldInv
  <2>1. pc[v] = "fold" /\ PageInv(v)
    BY DEF FailBatch, Crash, ForgetBatch, NoOutcome, Drop, TypeOK, FoldInv
  <2>2. UNCHANGED <<cursor, batch[v], last[v], pending[v]>>
    BY <2>1, WorkersAssumption DEF FailBatch, Crash, ForgetBatch, NoOutcome, Drop, TypeOK
  <2>3. \A i \in batch[v] : status[i] = "committed" => status'[i] = "committed"
    BY <2>1 DEF FailBatch, Crash, ForgetBatch, NoOutcome, Drop, TypeOK, SequenceInv
  <2> QED  BY <2>1, <2>2, <2>3, PageFrame
<1>6. LedgerInv'
  BY DEF FailBatch, Crash, ForgetBatch, NoOutcome, Drop, TypeOK, SequenceInv, LedgerInv
<1> QED  BY <1>1, <1>2, <1>3, <1>4, <1>5, <1>6

(* The server frees the locks of broken connections only.                  *)
LEMMA CoreReap ==
    ASSUME Core, Reap
    PROVE  Core'
<1> USE DEF Core
<1>1. TypeOK'
  BY SizesAssumption, TimesAssumption, BoundsAssumption, OutcomesAssumption
     DEF Reap, TypeOK, PCs
<1>2. SequenceInv'
  BY DEF Reap, TypeOK, SequenceInv, Ids
<1>3. RowLockInv' /\ SelectInv'
  BY WorkersAssumption DEF Reap, TypeOK, RowLockInv, SelectInv
<1>4. QuietInv'
  BY DEF Reap, TypeOK, QuietInv
<1>5. FoldInv'
  <2> SUFFICES ASSUME NEW v \in Workers, pc'[v] = "fold"
               PROVE  PageInv(v)'
    BY DEF FoldInv
  <2>1. pc[v] = "fold" /\ PageInv(v)
    BY DEF Reap, TypeOK, FoldInv
  <2>2. UNCHANGED <<cursor, batch[v], last[v], pending[v]>>
    BY <2>1, WorkersAssumption DEF Reap, TypeOK
  <2>3. \A i \in batch[v] : status[i] = "committed" => status'[i] = "committed"
    BY <2>1 DEF Reap, TypeOK, SequenceInv
  <2> QED  BY <2>1, <2>2, <2>3, PageFrame
<1>6. LedgerInv'
  BY DEF Reap, TypeOK, SequenceInv, LedgerInv
<1> QED  BY <1>1, <1>2, <1>3, <1>4, <1>5, <1>6

(* Every step keeps the untimed invariant: one lemma per kind of action.   *)
LEMMA CoreStep == Core /\ [Next]_vars => Core'
<1> SUFFICES ASSUME Core, [Next]_vars PROVE Core'
  OBVIOUS
<1>1. CASE Tick
  BY <1>1, CoreTick
<1>2. CASE Emitter
  <2>1. CASE \E t \in (0 - MaxLead) .. (MaxClock + MaxAhead) : Insert(t)
    BY <2>1, CoreInsert, TimesAssumption
  <2>2. CASE \E i \in Ids : Close(i, "committed") \/ Close(i, "aborted")
    BY <2>2, CoreClose
  <2> QED  BY <1>2, <2>1, <2>2 DEF Emitter
<1>3. CASE \E w \in Workers : Step(w) \/ Fault(w) \/ Start(w)
  <2> PICK w \in Workers : Step(w) \/ Fault(w) \/ Start(w)
    BY <1>3
  <2>1. CASE Aside(w)
    BY <2>1, CoreAside
  <2>2. CASE FailBatch(w) \/ Crash(w)
    BY <2>2, CoreFail
  <2> QED
    BY <2>1, <2>2, CoreBegin, CoreLock, CoreSelect, CoreFold, CoreCommit DEF Step, Fault, Aside
<1>4. CASE Reap
  BY <1>4, CoreReap
<1>5. CASE UNCHANGED vars
  BY <1>5
     DEF vars, Core, TypeOK, SequenceInv, RowLockInv, SelectInv, QuietInv, FoldInv, PageInv,
         LedgerInv
<1> QED
  BY <1>1, <1>2, <1>3, <1>4, <1>5 DEF Next

(* The untimed invariant holds under every schedule and fault: types, the  *)
(* sequence, row-lock ownership, pages, and the ledger of what each batch  *)
(* consumed.                                                               *)
THEOREM CoreHolds == Spec => []Core
<1> QED  BY InitCore, CoreStep, PTL DEF Spec

(* Every variable keeps its type, whatever the emitters and faults do.     *)
THEOREM TypeCorrect == Spec => []TypeOK
<1>1. Core => TypeOK
  BY DEF Core
<1> QED  BY <1>1, CoreHolds, PTL

(* No event is projected or audited twice, and none above the cursor: not  *)
(* even with several folders and emitters slower than the settle window.   *)
THEOREM NeverTwiceHolds == Spec => []NeverTwice
<1>1. Core => NeverTwice
  BY DEF Core, LedgerInv, NeverTwice
<1> QED  BY <1>1, CoreHolds, PTL
-----------------------------------------------------------------------------
(* What the settle window buys.                                            *)

(* Ids follow the order of the INSERTs, and a ts is not much too early.    *)
BornInv ==
    /\ \A i, j \in Ids : i < j /\ j < nextId => born[i] <= born[j]
    /\ \A i \in Ids : i < nextId => born[i] <= clock /\ born[i] <= ts[i] + MaxLead

OpenInv == \A i \in Ids : status[i] = "open" => clock <= born[i] + MaxOpen
NowInv == \A w \in Workers : fnow[w] <= clock

(* What the page in progress has consumed had settled when its transaction *)
(* began; and an id it passed over without seeing its row either never     *)
(* commits or was inserted so late that it had not.                        *)
GapInv(w) ==
    /\ \A i \in batch[w] : i <= last[w] => Settled(i, fnow[w])
    /\ \A i \in Ids, j \in batch[w] :
          i > cursor /\ i < j /\ i \notin batch[w] =>
             status[i] = "aborted" \/ fnow[w] <= born[i] + MaxOpen
GapsInv == \A w \in Workers : pc[w] = "fold" => GapInv(w)

Timed == BornInv /\ OpenInv /\ NowInv /\ GapsInv /\ NoEventJumped /\ ExactlyOnce

(* A page holds the lowest visible ids: a visible id below one of its ids  *)
(* is in the page too.                                                     *)
LEMMA PageIsPrefix ==
    ASSUME NEW c \in Nat, NEW j \in Page(c), NEW i \in Visible(c), i < j
    PROVE  i \in Page(c)
<1> DEFINE Below(k) == {m \in Visible(c) : m < k}
<1>1. IsFiniteSet(Visible(c))
  <2>1. IsFiniteSet(Ids)
    BY SizesAssumption, FS_Interval DEF Ids
  <2>2. Visible(c) \subseteq Ids
    BY DEF Visible
  <2> QED  BY <2>1, <2>2, FS_Subset
<1>2. IsFiniteSet(Below(j)) /\ IsFiniteSet(Below(i))
  BY <1>1, FS_Subset
<1>3. Below(i) \subseteq Below(j)
  BY SizesAssumption DEF Visible, Page, Ids
<1>4. Cardinality(Below(i)) <= Cardinality(Below(j))
  BY <1>2, <1>3, FS_Subset
<1>5. Cardinality(Below(i)) \in Nat /\ Cardinality(Below(j)) \in Nat
  BY <1>2, FS_CardinalityType
<1>6. Cardinality(Below(j)) < BatchSize
  BY DEF Page
<1> QED
  BY <1>4, <1>5, <1>6, SizesAssumption DEF Page

(* The page in progress of a worker is safe from everyone else.            *)
LEMMA GapFrame ==
    ASSUME Core, NEW v \in Workers, PageInv(v), GapInv(v),
           UNCHANGED <<cursor, batch[v], last[v], fnow[v]>>,
           \A i \in Ids : i < nextId => /\ status[i] = "aborted" => status'[i] = "aborted"
                                        /\ born'[i] = born[i] /\ ts'[i] = ts[i]
    PROVE  GapInv(v)'
<1>1. batch[v] \subseteq Ids
  BY DEF Core, TypeOK
<1>2. \A j \in batch[v] : j < nextId
  BY <1>1, SizesAssumption DEF Core, TypeOK, SequenceInv, PageInv, Ids
<1>3. \A i \in Ids, j \in batch[v] : i < j => i < nextId
  BY <1>1, <1>2, SizesAssumption DEF Core, TypeOK, Ids
<1> QED
  BY <1>1, <1>2, <1>3 DEF GapInv, Settled

(* The heart of the matter: up to last_id the page has consumed every      *)
(* event that was or will ever be committed.                               *)
LEMMA PrefixConsumed ==
    ASSUME MaxOpen + MaxLead < Settle, Core, Timed, NEW w \in Workers, pc[w] = "fold",
           NEW i \in Ids, cursor < i, i <= last[w]
    PROVE  \/ status[i] = "committed" /\ i \in Consumed(w)
           \/ status[i] = "aborted" /\ i \notin Consumed(w)
<1>1. PageInv(w) /\ GapInv(w)
  BY DEF Core, FoldInv, Timed, GapsInv
<1>2. batch[w] \subseteq Ids /\ last[w] \in Nat /\ cursor \in Nat /\ i \in Nat
  BY SizesAssumption DEF Core, TypeOK, Ids
<1>3. CASE i \in batch[w]
  BY <1>1, <1>3 DEF PageInv, Consumed
<1>4. CASE i \notin batch[w]
  <2>1. last[w] \in batch[w] /\ i < last[w]
    BY <1>1, <1>2, <1>4 DEF PageInv
  <2>2. ts[last[w]] + Settle <= fnow[w]
    BY <1>1, <1>2, <2>1 DEF GapInv, Settled
  <2>3. last[w] < nextId
    BY <1>1, <1>2, <2>1, SizesAssumption DEF Core, TypeOK, SequenceInv, PageInv, Ids
  <2>4. born[i] <= born[last[w]] /\ born[last[w]] <= ts[last[w]] + MaxLead
    BY <1>2, <2>1, <2>3 DEF Timed, BornInv
  <2>5. /\ born[i] \in Int /\ born[last[w]] \in Int /\ ts[last[w]] \in Int /\ fnow[w] \in Int
    BY <1>2, <2>1, TimesAssumption DEF Core, TypeOK, Time
  <2>6. ~(fnow[w] <= born[i] + MaxOpen)
    BY <2>2, <2>4, <2>5, TimesAssumption
  <2>7. status[i] = "aborted"
    BY <1>1, <2>1, <2>6, <1>4 DEF GapInv
  <2> QED  BY <1>1, <1>4, <2>7 DEF PageInv, Consumed
<1> QED  BY <1>3, <1>4

(* The timed invariant holds before anything was inserted.                 *)
LEMMA InitTimed == Init => Timed
BY SizesAssumption, TimesAssumption
   DEF Init, Timed, BornInv, OpenInv, NowInv, GapsInv, NoEventJumped, ExactlyOnce, Ids

(* The clock moves on only while no transaction outstays its promise.      *)
LEMMA TimedTick ==
    ASSUME Core, Timed, Tick
    PROVE  Timed'
<1> USE DEF Core, Timed
<1>1. BornInv'
  BY SizesAssumption, TimesAssumption DEF Tick, Time, TypeOK, BornInv, Ids
<1>2. OpenInv' /\ NowInv'
  <2>1. OpenInv'
    BY SizesAssumption, TimesAssumption DEF Tick, Time, TypeOK, OpenInv, Ids
  <2>2. NowInv'
    BY SizesAssumption, TimesAssumption DEF Tick, Time, TypeOK, NowInv
  <2> QED  BY <2>1, <2>2
<1>3. GapsInv'
  <2> SUFFICES ASSUME NEW v \in Workers, pc'[v] = "fold"
               PROVE  GapInv(v)'
    BY DEF GapsInv
  <2>1. pc[v] = "fold" /\ GapInv(v)
    BY DEF Tick, Time, TypeOK, GapsInv
  <2>2. UNCHANGED <<cursor, batch[v], last[v], fnow[v]>>
    BY <2>1, WorkersAssumption DEF Tick, Time, TypeOK
  <2>3. \A i \in Ids : i < nextId => /\ status[i] = "aborted" => status'[i] = "aborted"
                                     /\ born'[i] = born[i] /\ ts'[i] = ts[i]
    BY SizesAssumption DEF Tick, Time, TypeOK, SequenceInv, Ids
  <2>4. PageInv(v)
    BY <2>1 DEF FoldInv
  <2> QED  BY <2>1, <2>2, <2>3, <2>4, GapFrame
<1>4. NoEventJumped' /\ ExactlyOnce'
  <2>1. UNCHANGED <<status, cursor, folds>>
    BY DEF Tick
  <2> QED  BY <2>1 DEF NoEventJumped, ExactlyOnce
<1> QED  BY <1>1, <1>2, <1>3, <1>4

(* A new event is too young for any fold under way to call it settled.     *)
LEMMA TimedInsert ==
    ASSUME Core, Timed, NEW t \in Int, Insert(t)
    PROVE  Timed'
<1> USE DEF Core, Timed
<1>1. BornInv'
  <2>1. /\ nextId \in Ids /\ nextId' = nextId + 1 /\ clock' = clock
        /\ born' = [born EXCEPT ![nextId] = clock] /\ ts' = [ts EXCEPT ![nextId] = t]
        /\ clock <= t + MaxLead
    BY DEF Insert
  <2>2. /\ clock \in Int /\ \A k \in Ids : k \in Int /\ born[k] \in Int /\ ts[k] \in Int
        /\ born \in [Ids -> Time] /\ ts \in [Ids -> Int] /\ nextId \in Int
    BY SizesAssumption, TimesAssumption DEF TypeOK, Ids, Time
  <2>3. /\ born'[nextId] = clock /\ ts'[nextId] = t
        /\ \A k \in Ids : k # nextId => born'[k] = born[k] /\ ts'[k] = ts[k]
    BY <2>1, <2>2
  <2>4. ASSUME NEW k \in Ids, k < nextId'
        PROVE  born'[k] <= clock' /\ born'[k] <= ts'[k] + MaxLead
    <3>1. CASE k = nextId
      BY <2>1, <2>2, <2>3, <3>1
    <3>2. CASE k # nextId
      BY <2>1, <2>2, <2>3, <2>4, <3>2 DEF BornInv
    <3> QED  BY <3>1, <3>2
  <2>5. ASSUME NEW k \in Ids, NEW m \in Ids, k < m, m < nextId'
        PROVE  born'[k] <= born'[m]
    <3>1. k < nextId /\ born'[k] = born[k]
      BY <2>1, <2>2, <2>3, <2>5
    <3>2. CASE m = nextId
      BY <2>2, <2>3, <3>1, <3>2 DEF BornInv
    <3>3. CASE m # nextId
      BY <2>1, <2>2, <2>3, <2>5, <3>1, <3>3 DEF BornInv
    <3> QED  BY <3>2, <3>3
  <2> QED  BY <2>4, <2>5 DEF BornInv
<1>2. OpenInv' /\ NowInv'
  <2>1. OpenInv'
    BY SizesAssumption, TimesAssumption DEF Insert, TypeOK, OpenInv, Ids, Time
  <2>2. NowInv'
    BY SizesAssumption, TimesAssumption DEF Insert, TypeOK, NowInv, Time
  <2> QED  BY <2>1, <2>2
<1>3. GapsInv'
  <2> SUFFICES ASSUME NEW v \in Workers, pc'[v] = "fold"
               PROVE  GapInv(v)'
    BY DEF GapsInv
  <2>1. pc[v] = "fold" /\ GapInv(v)
    BY DEF Insert, TypeOK, GapsInv
  <2>2. UNCHANGED <<cursor, batch[v], last[v], fnow[v]>>
    BY <2>1, WorkersAssumption DEF Insert, TypeOK
  <2>3. \A i \in Ids : i < nextId => /\ status[i] = "aborted" => status'[i] = "aborted"
                                     /\ born'[i] = born[i] /\ ts'[i] = ts[i]
    BY SizesAssumption DEF Insert, TypeOK, SequenceInv, Ids
  <2>4. PageInv(v)
    BY <2>1 DEF FoldInv
  <2> QED  BY <2>1, <2>2, <2>3, <2>4, GapFrame
<1>4. NoEventJumped' /\ ExactlyOnce'
  BY SizesAssumption DEF Insert, TypeOK, SequenceInv, NoEventJumped, ExactlyOnce, Ids
<1> QED  BY <1>1, <1>2, <1>3, <1>4

(* An event that commits was not settled for any fold under way, so no     *)
(* page passed it.                                                         *)
LEMMA TimedClose ==
    ASSUME Core, Timed, NEW i \in Ids, NEW how \in {"committed", "aborted"}, Close(i, how)
    PROVE  Timed'
<1> USE DEF Core, Timed
<1>1. BornInv'
  BY SizesAssumption, TimesAssumption DEF Close, TypeOK, BornInv, Ids, Time
<1>2. OpenInv' /\ NowInv'
  <2>1. OpenInv'
    BY SizesAssumption, TimesAssumption DEF Close, TypeOK, OpenInv, Ids, Time
  <2>2. NowInv'
    BY SizesAssumption, TimesAssumption DEF Close, TypeOK, NowInv, Time
  <2> QED  BY <2>1, <2>2
<1>3. GapsInv'
  <2> SUFFICES ASSUME NEW v \in Workers, pc'[v] = "fold"
               PROVE  GapInv(v)'
    BY DEF GapsInv
  <2>1. pc[v] = "fold" /\ GapInv(v)
    BY DEF Close, TypeOK, GapsInv
  <2>2. UNCHANGED <<cursor, batch[v], last[v], fnow[v]>>
    BY <2>1, WorkersAssumption DEF Close, TypeOK
  <2>3. \A j \in Ids : j < nextId => /\ status[j] = "aborted" => status'[j] = "aborted"
                                     /\ born'[j] = born[j] /\ ts'[j] = ts[j]
    BY SizesAssumption DEF Close, TypeOK, SequenceInv, Ids
  <2>4. PageInv(v)
    BY <2>1 DEF FoldInv
  <2> QED  BY <2>1, <2>2, <2>3, <2>4, GapFrame
<1>4. NoEventJumped' /\ ExactlyOnce'
  BY SizesAssumption DEF Close, TypeOK, SequenceInv, NoEventJumped, ExactlyOnce, Ids
<1> QED  BY <1>1, <1>2, <1>3, <1>4

(* Steps of a worker outside fold_batch do not touch the timed facts.      *)
LEMMA TimedAside ==
    ASSUME Core, Timed, NEW w \in Workers, Aside(w)
    PROVE  Timed'
<1> USE DEF Core, Timed
<1>1. BornInv'
  BY SizesAssumption, TimesAssumption
     DEF Aside, Start, AcquireLock, Retry, Wake, SeeStop, Exit, LoseLockConn, RequestStop, Drop,
         TypeOK, BornInv, Ids, Time
<1>2. OpenInv' /\ NowInv'
  <2>1. OpenInv'
    BY SizesAssumption, TimesAssumption
       DEF Aside, Start, AcquireLock, Retry, Wake, SeeStop, Exit, LoseLockConn, RequestStop,
           Drop, TypeOK, OpenInv, Ids, Time
  <2>2. NowInv'
    BY SizesAssumption, TimesAssumption
       DEF Aside, Start, AcquireLock, Retry, Wake, SeeStop, Exit, LoseLockConn, RequestStop,
           Drop, TypeOK, NowInv, Time
  <2> QED  BY <2>1, <2>2
<1>3. GapsInv'
  <2> SUFFICES ASSUME NEW v \in Workers, pc'[v] = "fold"
               PROVE  GapInv(v)'
    BY DEF GapsInv
  <2>1. pc[v] = "fold" /\ GapInv(v)
    BY DEF Aside, Start, AcquireLock, Retry, Wake, SeeStop, Exit, LoseLockConn, RequestStop,
           Drop, TypeOK, GapsInv
  <2>2. UNCHANGED <<cursor, batch[v], last[v], fnow[v]>>
    BY <2>1, WorkersAssumption
       DEF Aside, Start, AcquireLock, Retry, Wake, SeeStop, Exit, LoseLockConn, RequestStop,
           Drop, TypeOK
  <2>3. \A i \in Ids : i < nextId => /\ status[i] = "aborted" => status'[i] = "aborted"
                                     /\ born'[i] = born[i] /\ ts'[i] = ts[i]
    BY SizesAssumption
       DEF Aside, Start, AcquireLock, Retry, Wake, SeeStop, Exit, LoseLockConn, RequestStop,
           Drop, TypeOK, SequenceInv, Ids
  <2>4. PageInv(v)
    BY <2>1 DEF FoldInv
  <2> QED  BY <2>1, <2>2, <2>3, <2>4, GapFrame
<1>4. NoEventJumped' /\ ExactlyOnce'
  <2>1. UNCHANGED <<status, cursor, folds>>
    BY DEF Aside, Start, AcquireLock, Retry, Wake, SeeStop, Exit, LoseLockConn, RequestStop
  <2> QED  BY <2>1 DEF NoEventJumped, ExactlyOnce
<1> QED  BY <1>1, <1>2, <1>3, <1>4

(* now() of a new fold transaction is not ahead of the clock.              *)
LEMMA TimedBegin ==
    ASSUME Core, Timed, NEW w \in Workers, BeginFold(w)
    PROVE  Timed'
<1> USE DEF Core, Timed
<1>1. BornInv'
  BY SizesAssumption, TimesAssumption DEF BeginFold, TypeOK, BornInv, Ids, Time
<1>2. OpenInv' /\ NowInv'
  <2>1. OpenInv'
    BY SizesAssumption, TimesAssumption DEF BeginFold, TypeOK, OpenInv, Ids, Time
  <2>2. NowInv'
    BY SizesAssumption, TimesAssumption DEF BeginFold, TypeOK, NowInv, Time
  <2> QED  BY <2>1, <2>2
<1>3. GapsInv'
  <2> SUFFICES ASSUME NEW v \in Workers, pc'[v] = "fold"
               PROVE  GapInv(v)'
    BY DEF GapsInv
  <2>1. pc[v] = "fold" /\ GapInv(v)
    BY DEF BeginFold, TypeOK, GapsInv
  <2>2. UNCHANGED <<cursor, batch[v], last[v], fnow[v]>>
    BY <2>1, WorkersAssumption DEF BeginFold, TypeOK
  <2>3. \A i \in Ids : i < nextId => /\ status[i] = "aborted" => status'[i] = "aborted"
                                     /\ born'[i] = born[i] /\ ts'[i] = ts[i]
    BY SizesAssumption DEF BeginFold, TypeOK, SequenceInv, Ids
  <2>4. PageInv(v)
    BY <2>1 DEF FoldInv
  <2> QED  BY <2>1, <2>2, <2>3, <2>4, GapFrame
<1>4. NoEventJumped' /\ ExactlyOnce'
  <2>1. UNCHANGED <<status, cursor, folds>>
    BY DEF BeginFold
  <2> QED  BY <2>1 DEF NoEventJumped, ExactlyOnce
<1> QED  BY <1>1, <1>2, <1>3, <1>4

(* A fold starts at the cursor: nothing is behind it yet.                  *)
LEMMA TimedLock ==
    ASSUME Core, Timed, NEW w \in Workers, LockCursor(w)
    PROVE  Timed'
<1> USE DEF Core, Timed
<1>1. BornInv'
  BY SizesAssumption, TimesAssumption DEF LockCursor, TypeOK, BornInv, Ids, Time
<1>2. OpenInv' /\ NowInv'
  <2>1. OpenInv'
    BY SizesAssumption, TimesAssumption DEF LockCursor, TypeOK, OpenInv, Ids, Time
  <2>2. NowInv'
    BY SizesAssumption, TimesAssumption DEF LockCursor, TypeOK, NowInv, Time
  <2> QED  BY <2>1, <2>2
<1>3. GapsInv'
  <2> SUFFICES ASSUME NEW v \in Workers, pc'[v] = "fold"
               PROVE  GapInv(v)'
    BY DEF GapsInv
  <2>1. pc[v] = "fold" /\ GapInv(v)
    BY DEF LockCursor, TypeOK, GapsInv
  <2>2. UNCHANGED <<cursor, batch[v], last[v], fnow[v]>>
    BY <2>1, WorkersAssumption DEF LockCursor, TypeOK
  <2>3. \A i \in Ids : i < nextId => /\ status[i] = "aborted" => status'[i] = "aborted"
                                     /\ born'[i] = born[i] /\ ts'[i] = ts[i]
    BY SizesAssumption DEF LockCursor, TypeOK, SequenceInv, Ids
  <2>4. PageInv(v)
    BY <2>1 DEF FoldInv
  <2> QED  BY <2>1, <2>2, <2>3, <2>4, GapFrame
<1>4. NoEventJumped' /\ ExactlyOnce'
  <2>1. UNCHANGED <<status, cursor, folds>>
    BY DEF LockCursor
  <2> QED  BY <2>1 DEF NoEventJumped, ExactlyOnce
<1> QED  BY <1>1, <1>2, <1>3, <1>4

(* A batch that fails neither moves the cursor nor loses an event.         *)
LEMMA TimedFail ==
    ASSUME Core, Timed, NEW w \in Workers, FailBatch(w) \/ Crash(w)
    PROVE  Timed'
<1> USE DEF Core, Timed
<1>1. BornInv'
  BY DEF FailBatch, Crash, BornInv
<1>2. OpenInv' /\ NowInv'
  <2>1. OpenInv'
    BY SizesAssumption, TimesAssumption
       DEF FailBatch, Crash, ForgetBatch, TypeOK, OpenInv, Ids, Time
  <2>2. NowInv'
    BY SizesAssumption, TimesAssumption DEF FailBatch, Crash, ForgetBatch, TypeOK, NowInv, Time
  <2> QED  BY <2>1, <2>2
<1>3. GapsInv'
  <2> SUFFICES ASSUME NEW v \in Workers, pc'[v] = "fold"
               PROVE  GapInv(v)'
    BY DEF GapsInv
  <2>1. pc[v] = "fold" /\ GapInv(v)
    BY DEF FailBatch, Crash, ForgetBatch, TypeOK, GapsInv
  <2>2. UNCHANGED <<cursor, batch[v], last[v], fnow[v]>>
    BY <2>1, WorkersAssumption DEF FailBatch, Crash, ForgetBatch, TypeOK
  <2>3. \A i \in Ids : i < nextId => /\ status[i] = "aborted" => status'[i] = "aborted"
                                     /\ born'[i] = born[i] /\ ts'[i] = ts[i]
    BY SizesAssumption DEF FailBatch, Crash, ForgetBatch, TypeOK, SequenceInv, Ids
  <2>4. PageInv(v)
    BY <2>1 DEF FoldInv
  <2> QED  BY <2>1, <2>2, <2>3, <2>4, GapFrame
<1>4. NoEventJumped' /\ ExactlyOnce'
  <2>1. UNCHANGED <<status, cursor, folds>>
    BY DEF FailBatch, Crash
  <2> QED  BY <2>1 DEF NoEventJumped, ExactlyOnce
<1> QED  BY <1>1, <1>2, <1>3, <1>4

(* Reaping a broken connection disturbs no live batch.                     *)
LEMMA TimedReap ==
    ASSUME Core, Timed, Reap
    PROVE  Timed'
<1> USE DEF Core, Timed
<1>1. BornInv'
  BY SizesAssumption, TimesAssumption DEF Reap, TypeOK, BornInv, Ids, Time
<1>2. OpenInv' /\ NowInv'
  <2>1. OpenInv'
    BY SizesAssumption, TimesAssumption DEF Reap, TypeOK, OpenInv, Ids, Time
  <2>2. NowInv'
    BY SizesAssumption, TimesAssumption DEF Reap, TypeOK, NowInv, Time
  <2> QED  BY <2>1, <2>2
<1>3. GapsInv'
  <2> SUFFICES ASSUME NEW v \in Workers, pc'[v] = "fold"
               PROVE  GapInv(v)'
    BY DEF GapsInv
  <2>1. pc[v] = "fold" /\ GapInv(v)
    BY DEF Reap, TypeOK, GapsInv
  <2>2. UNCHANGED <<cursor, batch[v], last[v], fnow[v]>>
    BY <2>1, WorkersAssumption DEF Reap, TypeOK
  <2>3. \A i \in Ids : i < nextId => /\ status[i] = "aborted" => status'[i] = "aborted"
                                     /\ born'[i] = born[i] /\ ts'[i] = ts[i]
    BY SizesAssumption DEF Reap, TypeOK, SequenceInv, Ids
  <2>4. PageInv(v)
    BY <2>1 DEF FoldInv
  <2> QED  BY <2>1, <2>2, <2>3, <2>4, GapFrame
<1>4. NoEventJumped' /\ ExactlyOnce'
  <2>1. UNCHANGED <<status, cursor, folds>>
    BY DEF Reap
  <2> QED  BY <2>1 DEF NoEventJumped, ExactlyOnce
<1> QED  BY <1>1, <1>2, <1>3, <1>4

(* Below an id of the page that is settled, every id has ended: what was   *)
(* not visible to the page is not to come either.                          *)
LEMMA TimedSelect ==
    ASSUME Core, Timed, NEW w \in Workers, SelectBatch(w)
    PROVE  Timed'
<1> USE DEF Core, Timed
<1>1. BornInv'
  BY SizesAssumption, TimesAssumption DEF SelectBatch, TypeOK, BornInv, Ids, Time
<1>2. OpenInv' /\ NowInv'
  <2>1. OpenInv'
    BY SizesAssumption, TimesAssumption DEF SelectBatch, TypeOK, OpenInv, Ids, Time
  <2>2. NowInv'
    BY SizesAssumption, TimesAssumption DEF SelectBatch, TypeOK, NowInv, Time
  <2> QED  BY <2>1, <2>2
<1>3. GapsInv'
  <2> SUFFICES ASSUME NEW v \in Workers, pc'[v] = "fold"
               PROVE  GapInv(v)'
    BY DEF GapsInv
  <2>1. CASE v = w
    <3>1. /\ batch'[w] = Page(cursor) /\ last'[w] = cursor /\ cursor \in Nat
          /\ UNCHANGED <<cursor, fnow, born, ts, status>>
      BY <2>1 DEF SelectBatch, TypeOK, SelectInv
    <3>2. \A i \in batch'[w] : i > last'[w] /\ i \in Nat
      BY <3>1, SizesAssumption DEF Page, Visible, Ids
    <3>3. ASSUME NEW i \in Ids, NEW j \in Page(cursor), i > cursor, i < j, i \notin Page(cursor)
          PROVE  status[i] = "aborted" \/ fnow[w] <= born[i] + MaxOpen
      <4>1. i \notin Visible(cursor)
        BY <3>1, <3>3, PageIsPrefix
      <4>2. status[i] # "committed"
        BY <3>3, <4>1 DEF Visible
      <4>3. j \in Ids /\ status[j] = "committed"
        BY DEF Page, Visible
      <4>4. status[i] # "free"
        <5>1. i \in Int /\ j \in Int /\ nextId \in Int
          BY <4>3, SizesAssumption DEF TypeOK, Ids
        <5>2. j < nextId
          BY <4>3, <5>1 DEF SequenceInv
        <5> QED  BY <3>3, <5>1, <5>2 DEF SequenceInv
      <4>5. CASE status[i] = "open"
        BY <4>5, TimesAssumption DEF TypeOK, OpenInv, NowInv, Time
      <4> QED  BY <4>2, <4>4, <4>5 DEF TypeOK
    <3> QED  BY <2>1, <3>1, <3>2, <3>3 DEF GapInv
  <2>2. CASE v # w
    <3>1. pc[v] = "fold" /\ GapInv(v) /\ PageInv(v)
      BY <2>2 DEF SelectBatch, TypeOK, GapsInv, FoldInv
    <3>2. UNCHANGED <<cursor, batch[v], last[v], fnow[v], status, born, ts>>
      BY <2>2 DEF SelectBatch, TypeOK
    <3> QED  BY <3>1, <3>2, GapFrame
  <2> QED  BY <2>1, <2>2
<1>4. NoEventJumped' /\ ExactlyOnce'
  <2>1. UNCHANGED <<status, cursor, folds>>
    BY DEF SelectBatch
  <2> QED  BY <2>1 DEF NoEventJumped, ExactlyOnce
<1> QED  BY <1>1, <1>2, <1>3, <1>4

(* Consuming a settled event keeps everything behind last_id consumed.     *)
LEMMA TimedFold ==
    ASSUME Core, Timed, NEW w \in Workers, NEW i \in Ids, NEW o \in Outcomes, FoldEvent(w, i, o)
    PROVE  Timed'
<1> USE DEF Core, Timed
<1>1. BornInv'
  BY SizesAssumption, TimesAssumption DEF FoldEvent, TypeOK, BornInv, Ids, Time
<1>2. OpenInv' /\ NowInv'
  <2>1. OpenInv'
    BY SizesAssumption, TimesAssumption DEF FoldEvent, TypeOK, OpenInv, Ids, Time
  <2>2. NowInv'
    BY SizesAssumption, TimesAssumption DEF FoldEvent, TypeOK, NowInv, Time
  <2> QED  BY <2>1, <2>2
<1>3. GapsInv'
  <2> SUFFICES ASSUME NEW v \in Workers, pc'[v] = "fold"
               PROVE  GapInv(v)'
    BY DEF GapsInv
  <2>1. v = w
    BY WorkersAssumption DEF FoldEvent, RowLockInv
  <2>2. GapInv(w)
    BY DEF FoldEvent, GapsInv
  <2>3. /\ last'[w] = i /\ i \in Nat /\ last[w] \in Nat /\ batch[w] \subseteq Ids
        /\ UNCHANGED <<cursor, batch, fnow, born, ts, status>>
    BY SizesAssumption DEF FoldEvent, TypeOK, Ids
  <2>4. Settled(i, fnow[w]) /\ \A j \in batch[w] : j > last[w] => i <= j
    BY DEF FoldEvent, NextRow
  <2>5. \A j \in batch[w] : j <= i => Settled(j, fnow[w])
    BY <2>2, <2>3, <2>4, SizesAssumption DEF GapInv, Ids
  <2> QED
    BY <2>1, <2>2, <2>3, <2>5 DEF GapInv, Settled
<1>4. NoEventJumped' /\ ExactlyOnce'
  <2>1. UNCHANGED <<status, cursor, folds>>
    BY DEF FoldEvent
  <2> QED  BY <2>1 DEF NoEventJumped, ExactlyOnce
<1> QED  BY <1>1, <1>2, <1>3, <1>4

(* A commit accounts for exactly the committed ids it passes.              *)
LEMMA TimedCommit ==
    ASSUME MaxOpen + MaxLead < Settle, Core, Timed, NEW w \in Workers, CommitBatch(w)
    PROVE  Timed'
<1> USE DEF Core, Timed
<1>1. BornInv'
  BY SizesAssumption, TimesAssumption DEF CommitBatch, TypeOK, BornInv, Ids, Time
<1>2. OpenInv' /\ NowInv'
  <2>1. OpenInv'
    BY SizesAssumption, TimesAssumption DEF CommitBatch, TypeOK, OpenInv, Ids, Time
  <2>2. NowInv'
    BY SizesAssumption, TimesAssumption DEF CommitBatch, TypeOK, NowInv, Time
  <2> QED  BY <2>1, <2>2
<1>3. GapsInv'
  <2> SUFFICES ASSUME NEW v \in Workers, pc'[v] = "fold"
               PROVE  FALSE
    BY DEF GapsInv
  <2>1. CASE v = w
    BY <2>1 DEF CommitBatch, TypeOK
  <2>2. CASE v # w
    BY <2>2 DEF CommitBatch, TypeOK, RowLockInv
  <2> QED  BY <2>1, <2>2
<1>4. NoEventJumped' /\ ExactlyOnce'
  <2> SUFFICES ASSUME NEW i \in Ids
               PROVE  /\ i <= cursor' => status'[i] \in {"committed", "aborted"}
                      /\ folds'[i] = IF status'[i] = "committed" /\ i <= cursor' THEN 1 ELSE 0
    BY DEF NoEventJumped, ExactlyOnce
  <2>1. PageInv(w) /\ pc[w] = "fold"
    BY DEF CommitBatch, FoldInv
  <2>2. cursor' = IF Processed(w) > 0 THEN last[w] ELSE cursor
    BY <2>1 DEF CommitBatch, AdvanceCursor, PageInv, TypeOK
  <2>3. status' = status /\ i \in Nat /\ cursor \in Nat /\ last[w] \in Nat /\ last[w] >= cursor
    BY <2>1, SizesAssumption DEF CommitBatch, TypeOK, Ids, PageInv
  <2>4. folds'[i] = IF i \in Consumed(w) THEN folds[i] + 1 ELSE folds[i]
    BY DEF CommitBatch, TypeOK
  <2>5. /\ i <= cursor => status[i] \in {"committed", "aborted"}
        /\ folds[i] = IF status[i] = "committed" /\ i <= cursor THEN 1 ELSE 0
    BY DEF NoEventJumped, ExactlyOnce
  <2>6. CASE i <= cursor
    <3>1. i \notin Consumed(w)
      BY <2>1, <2>3, <2>6 DEF PageInv, Consumed
    <3> QED  BY <2>2, <2>3, <2>4, <2>5, <2>6, <3>1
  <2>7. CASE cursor < i /\ i <= last[w]
    <3>1. \/ status[i] = "committed" /\ i \in Consumed(w)
          \/ status[i] = "aborted" /\ i \notin Consumed(w)
      BY <2>1, <2>7, PrefixConsumed
    <3>2. i \in Consumed(w) => Processed(w) > 0
      BY ProcessedPositive
    <3> QED  BY <2>2, <2>3, <2>4, <2>5, <2>7, <3>1, <3>2
  <2>8. CASE i > last[w]
    <3>1. i \notin Consumed(w)
      BY <2>1, <2>3, <2>8 DEF PageInv, Consumed
    <3> QED  BY <2>2, <2>3, <2>4, <2>5, <2>8, <3>1
  <2> QED  BY <2>3, <2>6, <2>7, <2>8
<1> QED  BY <1>1, <1>2, <1>3, <1>4

(* Every step keeps the timed invariant.                                   *)
LEMMA TimedStep ==
    ASSUME MaxOpen + MaxLead < Settle, Core, Timed, [Next]_vars
    PROVE  Timed'
<1>1. CASE Tick
  BY <1>1, TimedTick
<1>2. CASE Emitter
  <2>1. CASE \E t \in (0 - MaxLead) .. (MaxClock + MaxAhead) : Insert(t)
    BY <2>1, TimedInsert, TimesAssumption
  <2>2. CASE \E i \in Ids : Close(i, "committed") \/ Close(i, "aborted")
    BY <2>2, TimedClose
  <2> QED  BY <1>2, <2>1, <2>2 DEF Emitter
<1>3. CASE \E w \in Workers : Step(w) \/ Fault(w) \/ Start(w)
  <2> PICK w \in Workers : Step(w) \/ Fault(w) \/ Start(w)
    BY <1>3
  <2>1. CASE Aside(w)
    BY <2>1, TimedAside
  <2>2. CASE FailBatch(w) \/ Crash(w)
    BY <2>2, TimedFail
  <2> QED
    BY <2>1, <2>2, TimedBegin, TimedLock, TimedSelect, TimedFold, TimedCommit
       DEF Step, Fault, Aside
<1>4. CASE Reap
  BY <1>4, TimedReap
<1>5. CASE UNCHANGED vars
  BY <1>5
     DEF vars, Timed, BornInv, OpenInv, NowInv, GapsInv, GapInv, Settled, NoEventJumped,
         ExactlyOnce
<1> QED
  BY <1>1, <1>2, <1>3, <1>4, <1>5 DEF Next

(* The timed invariant, and with it the two properties it contains, holds  *)
(* when an event settles later than its transaction can still be open.     *)
THEOREM TimedHolds ==
    ASSUME MaxOpen + MaxLead < Settle
    PROVE  Spec => [](Core /\ Timed)
<1>1. Init => Core /\ Timed
  BY InitCore, InitTimed
<1>2. Core /\ Timed /\ [Next]_vars => (Core /\ Timed)'
  BY CoreStep, TimedStep
<1> QED  BY <1>1, <1>2, PTL DEF Spec

(* At-least-once: when emitters close their transactions within the settle *)
(* window, the cursor never passes an id that may still commit.            *)
THEOREM NoEventJumpedHolds ==
    ASSUME MaxOpen + MaxLead < Settle
    PROVE  Spec => []NoEventJumped
<1>1. Core /\ Timed => NoEventJumped
  BY DEF Timed
<1> QED  BY <1>1, TimedHolds, PTL

(* Exactly-once: the committed events up to the cursor were consumed by    *)
(* one committed batch each, through crashes, lost locks and two folders.  *)
THEOREM ExactlyOnceHolds ==
    ASSUME MaxOpen + MaxLead < Settle
    PROVE  Spec => []ExactlyOnce
<1>1. Core /\ Timed => ExactlyOnce
  BY DEF Timed
<1> QED  BY <1>1, TimedHolds, PTL

(* The row lock alone keeps a batch on the cursor it read: nothing that    *)
(* commits meanwhile lands in the part of the page already consumed.       *)
THEOREM BatchOnCursorHolds ==
    ASSUME MaxOpen + MaxLead < Settle
    PROVE  Spec => []BatchOnCursor
<1>1. Core /\ Timed => BatchOnCursor
  <2> SUFFICES ASSUME Core, Timed, NEW w \in Workers, pc[w] \in Locking
               PROVE  /\ rowLock = w
                      /\ \A i \in Ids : i > cursor /\ i <= last[w] /\ status[i] = "committed" =>
                             pending[w][i] # Unread
    BY DEF BatchOnCursor
  <2>1. rowLock = w
    BY DEF Core, RowLockInv
  <2>2. CASE pc[w] = "select"
    BY <2>1, <2>2, SizesAssumption DEF Core, SelectInv, TypeOK, Ids
  <2>3. CASE pc[w] = "fold"
    <3> SUFFICES ASSUME NEW i \in Ids, i > cursor, i <= last[w], status[i] = "committed"
                 PROVE  pending[w][i] # Unread
      BY <2>1
    <3>1. cursor < i
      BY SizesAssumption DEF Core, TypeOK, Ids
    <3>2. i \in Consumed(w)
      BY <2>3, <3>1, PrefixConsumed
    <3> QED  BY <3>2 DEF Consumed
  <2> QED  BY <2>2, <2>3
<1> QED  BY <1>1, TimedHolds, PTL

-----------------------------------------------------------------------------
(* When drain() goes to sleep.  A settled row that the page in progress     *)
(* does not hold can only be above a full page: it was committed when the   *)
(* page was read, or it would be younger than the settle window.            *)
FullBelow(w) ==
    \A i \in Ids : status[i] = "committed" /\ i > cursor /\ i \notin batch[w] /\ Settled(i, fnow[w])
        => Cardinality(batch[w]) >= BatchSize /\ \A j \in batch[w] : j < i
FullInv == \A w \in Workers : pc[w] = "fold" => FullBelow(w)

(* A page leaves out a visible id only if it is full of lower ones.         *)
LEMMA PageFull ==
    ASSUME NEW c \in Nat, NEW i \in Visible(c) \ Page(c)
    PROVE  Cardinality(Page(c)) >= BatchSize /\ \A j \in Page(c) : j < i
<1> DEFINE Below(k) == {m \in Visible(c) : m < k}
           left == Visible(c) \ Page(c)
<1>1. IsFiniteSet(Visible(c)) /\ Visible(c) \subseteq Nat
  <2>1. IsFiniteSet(Ids)
    BY SizesAssumption, FS_Interval DEF Ids
  <2>2. Visible(c) \subseteq Ids /\ Ids \subseteq Nat
    BY SizesAssumption DEF Visible, Ids
  <2> QED  BY <2>1, <2>2, FS_Subset
<1>2. \A j \in Page(c) : j < i
  <2> SUFFICES ASSUME NEW j \in Page(c), ~(j < i) PROVE FALSE
    OBVIOUS
  <2>1. j \in Visible(c) /\ i \in Nat /\ j \in Nat
    BY <1>1 DEF Page
  <2>2. i < j
    BY <2>1
  <2> QED  BY <2>2, PageIsPrefix
<1>3. PICK m \in left : \A k \in left : ~(<<k, m>> \in OpToRel(<, Nat))
  <2>1. left \subseteq Nat /\ left # {}
    BY <1>1
  <2> HIDE DEF left
  <2> QED  BY <2>1, NatLessThanWellFounded, WFMin
<1>4. Below(m) \subseteq Page(c)
  <2> SUFFICES ASSUME NEW k \in Visible(c), k < m, k \notin Page(c) PROVE FALSE
    OBVIOUS
  <2>1. k \in left /\ k \in Nat /\ m \in Nat
    BY <1>1
  <2> QED  BY <1>3, <2>1 DEF OpToRel
<1>5. IsFiniteSet(Page(c)) /\ IsFiniteSet(Below(m))
  BY <1>1, FS_Subset DEF Page
<1>6. Cardinality(Below(m)) <= Cardinality(Page(c))
  BY <1>4, <1>5, FS_Subset
<1>7. ~(Cardinality(Below(m)) < BatchSize)
  BY <1>3 DEF Page
<1> QED  BY <1>2, <1>5, <1>6, <1>7, FS_CardinalityType, SizesAssumption

(* A row that is not visible yet is younger than the settle window of       *)
(* everybody who has begun.                                                 *)
LEMMA OpenUnsettled ==
    ASSUME MaxOpen + MaxLead < Settle, Core, Timed, NEW w \in Workers, NEW i \in Ids,
           status[i] = "open"
    PROVE  ~Settled(i, fnow[w])
<1>1. i < nextId
  BY SizesAssumption DEF Core, TypeOK, SequenceInv, Ids
<1>2. clock <= born[i] + MaxOpen /\ born[i] <= ts[i] + MaxLead /\ fnow[w] <= clock
  BY <1>1 DEF Timed, OpenInv, BornInv, NowInv
<1>3. clock \in Int /\ born[i] \in Int /\ ts[i] \in Int /\ fnow[w] \in Int
  BY TimesAssumption DEF Core, TypeOK, Time
<1> QED  BY <1>2, <1>3, TimesAssumption DEF Settled

LEMMA FullFrame ==
    ASSUME NEW v \in Workers, FullBelow(v), UNCHANGED <<cursor, batch[v], fnow[v]>>,
           \A i \in Ids : status'[i] = "committed" =>
               ts'[i] = ts[i] /\ (status[i] = "committed" \/ ~Settled(i, fnow[v]))
    PROVE  FullBelow(v)'
BY DEF FullBelow, Settled

(* Every step keeps what a page leaves out above a full page.               *)
LEMMA FullStep ==
    ASSUME MaxOpen + MaxLead < Settle, Core, Timed, FullInv, [Next]_vars
    PROVE  FullInv'
<1> USE DEF Core
<1> SUFFICES ASSUME NEW v \in Workers, pc'[v] = "fold" PROVE FullBelow(v)'
  BY DEF FullInv
<1>a. pc \in [Workers -> PCs] /\ status \in [Ids -> {"free", "open", "committed", "aborted"}]
  BY DEF TypeOK
<1>b. ASSUME pc[v] = "fold", UNCHANGED <<cursor, batch[v], fnow[v], ts, status>>
      PROVE  FullBelow(v)'
  BY <1>b, FullFrame DEF FullInv
<1>1. CASE Tick
  BY <1>1, <1>b DEF Tick
<1>2. ASSUME NEW t \in Int, Insert(t) PROVE FullBelow(v)'
  <2>1. pc[v] = "fold" /\ UNCHANGED <<cursor, batch[v], fnow[v]>>
    BY <1>2 DEF Insert
  <2>2. \A i \in Ids : status'[i] = "committed" => ts'[i] = ts[i] /\ status[i] = "committed"
    BY <1>2 DEF Insert, TypeOK
  <2> QED  BY <2>1, <2>2, FullFrame DEF FullInv
<1>3. ASSUME NEW i \in Ids, NEW how \in {"committed", "aborted"}, Close(i, how)
      PROVE  FullBelow(v)'
  <2>1. pc[v] = "fold" /\ UNCHANGED <<cursor, batch[v], fnow[v], ts>>
    BY <1>3 DEF Close
  <2>2. ~Settled(i, fnow[v])
    BY <1>3, OpenUnsettled DEF Close
  <2>3. \A j \in Ids : status'[j] = "committed" => status[j] = "committed" \/ j = i
    BY <1>3, <1>a DEF Close
  <2> QED  BY <2>1, <2>2, <2>3, FullFrame DEF FullInv
<1>4. ASSUME NEW w \in Workers, Aside(w) PROVE FullBelow(v)'
  <2>1. pc[v] = "fold"
    BY <1>4, <1>a
       DEF Aside, Start, AcquireLock, Retry, Wake, SeeStop, Exit, LoseLockConn, RequestStop
  <2>2. UNCHANGED <<cursor, batch, fnow, ts, status>>
    BY <1>4 DEF Aside, Start, AcquireLock, Retry, Wake, SeeStop, Exit, LoseLockConn, RequestStop
  <2> QED  BY <2>1, <2>2, <1>b
<1>5. ASSUME NEW w \in Workers, BeginFold(w) \/ LockCursor(w) \/ FailBatch(w) \/ Crash(w)
      PROVE  FullBelow(v)'
  <2>1. v # w /\ pc[v] = "fold"
    BY <1>5, <1>a DEF BeginFold, LockCursor, FailBatch, Crash
  <2>2. UNCHANGED <<cursor, batch[v], fnow[v], ts, status>>
    BY <1>5, <2>1 DEF BeginFold, LockCursor, FailBatch, Crash, ForgetBatch, TypeOK
  <2> QED  BY <2>1, <2>2, <1>b
<1>6. ASSUME NEW w \in Workers, SelectBatch(w) PROVE FullBelow(v)'
  <2>1. CASE v # w
    <3>1. pc[v] = "fold" /\ UNCHANGED <<cursor, batch[v], fnow[v], ts, status>>
      BY <1>6, <1>a, <2>1 DEF SelectBatch, TypeOK
    <3> QED  BY <3>1, <1>b
  <2>2. CASE v = w
    <3>1. /\ batch'[w] = Page(cursor) /\ cursor \in Nat
          /\ UNCHANGED <<cursor, fnow, ts, status>>
      BY <1>6, <2>2 DEF SelectBatch, TypeOK, SelectInv
    <3>2. \A i \in Ids : status[i] = "committed" /\ i > cursor => i \in Visible(cursor)
      BY DEF Visible
    <3>3. \A i \in Ids : status[i] = "committed" /\ i > cursor /\ i \notin Page(cursor) =>
              Cardinality(Page(cursor)) >= BatchSize /\ \A j \in Page(cursor) : j < i
      BY <3>1, <3>2, PageFull
    <3> QED  BY <2>2, <3>1, <3>3 DEF FullBelow
  <2> QED  BY <2>1, <2>2
<1>7. ASSUME NEW w \in Workers, NEW i \in Ids, NEW o \in Outcomes, FoldEvent(w, i, o)
      PROVE  FullBelow(v)'
  BY <1>7, <1>b DEF FoldEvent
<1>8. ASSUME NEW w \in Workers, CommitBatch(w) PROVE FullBelow(v)'
  <2>1. pc[w] = "fold" /\ v # w /\ pc[v] = "fold"
    BY <1>8, <1>a DEF CommitBatch
  <2>2. rowLock = w /\ rowLock = v
    BY <2>1 DEF RowLockInv
  <2> QED  BY <2>1, <2>2
<1>9. CASE Reap
  BY <1>9, <1>b DEF Reap
<1>10. CASE UNCHANGED vars
  BY <1>10, <1>b DEF vars
<1>11. CASE Emitter
  BY <1>11, <1>2, <1>3, TimesAssumption DEF Emitter
<1>12. CASE \E w \in Workers : Step(w) \/ Fault(w) \/ Start(w)
  BY <1>12, <1>4, <1>5, <1>6, <1>7, <1>8 DEF Step, Fault, Aside
<1> QED  BY <1>1, <1>9, <1>10, <1>11, <1>12 DEF Next

(* The two ways to sleep: nothing is visible above the cursor, or the page  *)
(* ended at a row that has not settled.                                     *)
LEMMA SleepsCaughtUp ==
    ASSUME Core, FullInv, [Next]_vars, NEW w \in Workers, pc[w] \in Locking, pc'[w] = "sleep"
    PROVE  CaughtUp(w, fnow[w])'
<1> USE DEF Core
<1>1. SelectBatch(w) \/ CommitBatch(w)
  <2>1. pc \in [Workers -> PCs]
    BY DEF TypeOK
  <2>2. ~Tick /\ ~Emitter /\ ~Reap /\ ~UNCHANGED vars
    BY DEF Tick, Emitter, Insert, Close, Reap, vars
  <2>3. PICK v \in Workers : Step(v) \/ Fault(v) \/ Start(v)
    BY <2>2 DEF Next
  <2>4. v = w
    BY <2>1, <2>3
       DEF Step, Fault, Start, AcquireLock, Retry, Wake, SeeStop, Exit, BeginFold, LockCursor,
           SelectBatch, FoldEvent, CommitBatch, FailBatch, Crash, LoseLockConn, RequestStop
  <2> QED
    BY <2>1, <2>3, <2>4
       DEF Step, Fault, Start, AcquireLock, Retry, Wake, SeeStop, Exit, BeginFold, LockCursor,
           FoldEvent, FailBatch, Crash, LoseLockConn, RequestStop
<1>2. UNCHANGED <<status, ts, fnow>>
  BY <1>1 DEF SelectBatch, CommitBatch
<1> SUFFICES ASSUME NEW i \in Ids, status[i] = "committed", ~(i <= cursor'),
                    \A j \in 1 .. i : status[j] = "committed" => Settled(j, fnow[w])
             PROVE  FALSE
  BY <1>2 DEF CaughtUp, Settled
<1>3. i \in Nat /\ cursor \in Nat /\ last[w] \in Nat /\ batch[w] \subseteq Ids /\ Ids \subseteq Nat
  BY SizesAssumption DEF TypeOK, Ids
<1>4. CASE SelectBatch(w)
  <2>1. Page(cursor) = {} /\ cursor' = cursor
    BY <1>4 DEF SelectBatch, SelectInv, TypeOK
  <2>2. i \in Visible(cursor) \ Page(cursor)
    BY <1>3, <2>1 DEF Visible
  <2>3. Cardinality(Page(cursor)) >= BatchSize
    BY <1>3, <2>2, PageFull
  <2> QED  BY <2>1, <2>3, FS_EmptySet, SizesAssumption
<1>5. CASE CommitBatch(w)
  <2>1. PageInv(w) /\ FullBelow(w) /\ AtBoundary(w)
    BY <1>5 DEF CommitBatch, FoldInv, FullInv
  <2>2. cursor' = IF Processed(w) > 0 THEN last[w] ELSE cursor
    BY <1>5, <2>1 DEF CommitBatch, AdvanceCursor, PageInv, TypeOK
  <2>3. Processed(w) < BatchSize
    BY <1>5 DEF CommitBatch, PartialPage, TypeOK
  <2>4. Consumed(w) = {j \in batch[w] : j <= last[w]}
    BY <1>3, <2>1 DEF PageInv, Consumed
  <2>a. \A j \in batch[w] : j \in Nat
    BY <1>3
  <2>5. i > last[w]
    <3>1. CASE Processed(w) > 0
      BY <1>3, <2>2, <3>1
    <3>2. CASE ~(Processed(w) > 0)
      <4>1. Consumed(w) = {}
        BY <3>2, ProcessedPositive
      <4>2. last[w] = cursor
        BY <1>3, <2>1, <2>4, <4>1 DEF PageInv
      <4> QED  BY <1>3, <2>2, <3>2, <4>2
    <3> QED  BY <3>1, <3>2
  <2>6. \A j \in batch[w] : j <= i => Settled(j, fnow[w]) /\ j <= last[w]
    <3> SUFFICES ASSUME NEW j \in batch[w], j <= i PROVE Settled(j, fnow[w]) /\ j <= last[w]
      OBVIOUS
    <3>1. \A k \in batch[w] : k <= i => Settled(k, fnow[w])
      BY <1>3, <2>1, SizesAssumption DEF PageInv, Ids
    <3>2. ASSUME j > last[w] PROVE FALSE
      <4> DEFINE rest == {k \in batch[w] : k > last[w] /\ k <= i}
      <4>1. rest \subseteq Nat /\ rest # {}
        BY <1>3, <3>2
      <4> HIDE DEF rest
      <4>2. PICK m \in rest : \A k \in rest : ~(<<k, m>> \in OpToRel(<, Nat))
        BY <4>1, NatLessThanWellFounded, WFMin
      <4>3. m \in batch[w] /\ m > last[w] /\ m <= i /\ m \in Nat
        BY <4>1, <4>2 DEF rest
      <4>4. \A k \in batch[w] : k > last[w] => m <= k
        <5> SUFFICES ASSUME NEW k \in batch[w], k > last[w], ~(m <= k) PROVE FALSE
          OBVIOUS
        <5>1. k \in Nat /\ k < m
          BY <2>a, <4>3
        <5>2. k \in rest
          BY <1>3, <4>3, <5>1 DEF rest
        <5> QED  BY <4>2, <4>3, <5>1, <5>2 DEF OpToRel
      <4>5. NextRow(w, m)
        BY <4>3, <4>4 DEF NextRow
      <4> QED  BY <1>3, <2>1, <3>1, <4>3, <4>5, SizesAssumption DEF AtBoundary, Ids
    <3> QED  BY <1>3, <2>a, <3>1, <3>2
  <2>7. i \notin batch[w]
    BY <1>3, <2>5, <2>6
  <2>8. i > cursor
    BY <1>3, <2>1, <2>5 DEF PageInv
  <2>9. Settled(i, fnow[w])
    BY <1>3, SizesAssumption DEF Ids
  <2>10. Cardinality(batch[w]) >= BatchSize /\ \A j \in batch[w] : j < i
    BY <2>1, <2>7, <2>8, <2>9 DEF FullBelow
  <2>11. \A j \in batch[w] : j <= i
    BY <1>3, <2>a, <2>10
  <2>12. Consumed(w) = batch[w]
    BY <2>4, <2>6, <2>11
  <2>13. Cardinality(batch[w]) \in Nat
    BY <2>12, ProcessedPositive DEF Processed
  <2> QED  BY <2>3, <2>10, <2>12, <2>13, SizesAssumption DEF Processed
<1> QED  BY <1>1, <1>4, <1>5

(* drain() never sleeps on a row it should have folded: what had settled,   *)
(* with everything before it, when the batch began is behind the cursor by  *)
(* then, also what emitters committed after the page was read (worker.py    *)
(* drain(), fold.py's stop boundary).                                       *)
THEOREM IdlesOnlyWhenCaughtUpHolds ==
    ASSUME MaxOpen + MaxLead < Settle
    PROVE  Spec => IdlesOnlyWhenCaughtUp
<1>1. Init => FullInv
  BY DEF Init, FullInv
<1>2. Core /\ Timed /\ FullInv /\ [Next]_vars => FullInv'
  BY FullStep
<1>3. Core /\ FullInv /\ [Next]_vars =>
          [\A w \in Workers : pc[w] \in Locking /\ pc'[w] = "sleep" => CaughtUp(w, fnow[w])']_vars
  BY SleepsCaughtUp
<1>4. Spec => [](Core /\ Timed)
  BY TimedHolds
<1> QED  BY <1>1, <1>2, <1>3, <1>4, PTL DEF Spec, IdlesOnlyWhenCaughtUp

-----------------------------------------------------------------------------
(* While no lock connection is lost, whoever is past acquire_lock() owns   *)
(* the advisory lock.                                                      *)
OwnerInv == \A w \in Workers : pc[w] \in Folding \cup {"drain", "sleep"} => advisory = w

(* Every step keeps the owner of the advisory lock the only folder.        *)
LEMMA OwnerStep ==
    ASSUME MaxLosses = 0, Core, OwnerInv, [Next]_vars
    PROVE  OwnerInv'
<1> SUFFICES ASSUME NEW v \in Workers, pc'[v] \in Folding \cup {"drain", "sleep"}
             PROVE  advisory' = v
  BY DEF OwnerInv
<1> USE DEF Core, TypeOK, Goto, OwnerInv
<1>1. CASE Tick \/ Emitter \/ Reap \/ UNCHANGED vars
  BY <1>1, WorkersAssumption DEF Tick, Emitter, Insert, Close, Reap, vars
<1>2. CASE \E w \in Workers : Start(w)
  BY <1>2 DEF Start
<1>3. CASE \E w \in Workers : Step(w)
  <2> PICK w \in Workers : Step(w)
    BY <1>3
  <2>1. CASE AcquireLock(w)
    BY <2>1, WorkersAssumption DEF AcquireLock
  <2>2. CASE Retry(w) \/ Wake(w) \/ SeeStop(w)
    BY <2>2 DEF Retry, Wake, SeeStop
  <2>3. CASE Exit(w)
    BY <2>3 DEF Exit
  <2>4. CASE BeginFold(w) \/ LockCursor(w) \/ SelectBatch(w)
    BY <2>4 DEF BeginFold, LockCursor, SelectBatch
  <2>5. CASE \E i \in Ids, o \in Outcomes : FoldEvent(w, i, o)
    BY <2>5 DEF FoldEvent
  <2>6. CASE CommitBatch(w)
    BY <2>6 DEF CommitBatch
  <2> QED  BY <2>1, <2>2, <2>3, <2>4, <2>5, <2>6 DEF Step
<1>4. CASE \E w \in Workers : Fault(w)
  <2> PICK w \in Workers : Fault(w)
    BY <1>4
  <2>1. CASE FailBatch(w)
    BY <2>1 DEF FailBatch
  <2>2. CASE Crash(w)
    BY <2>2, WorkersAssumption DEF Crash, Drop
  <2>3. CASE LoseLockConn(w)
    BY <2>3 DEF LoseLockConn
  <2>4. CASE RequestStop(w)
    BY <2>4 DEF RequestStop
  <2> QED  BY <2>1, <2>2, <2>3, <2>4 DEF Fault
<1> QED  BY <1>1, <1>2, <1>3, <1>4 DEF Next

(* Single writer: as long as no lock connection dies under a live worker,  *)
(* no two workers are inside fold_batch at the same time.                  *)
THEOREM SingleWriterHolds ==
    ASSUME MaxLosses = 0
    PROVE  Spec => []SingleWriter
<1>1. Init => OwnerInv
  BY DEF Init, OwnerInv
<1>2. Core /\ OwnerInv /\ [Next]_vars => OwnerInv'
  BY OwnerStep
<1>3. OwnerInv => SingleWriter
  BY DEF OwnerInv, SingleWriter
<1> QED  BY <1>1, <1>2, <1>3, CoreHolds, PTL DEF Spec

-----------------------------------------------------------------------------
(* The refinement of EventFold.                                            *)

(* The initial state is an initial state of the abstract fold.             *)
LEMMA AbstractInit == Init => Abstract!Init
BY DEF Init, Abstract!Init, Committed, NoOutcome, Ids, Abstract!Ids

(* A commit is an abstract Fold up to last_id, or changes nothing there.   *)
LEMMA AbstractCommit ==
    ASSUME MaxOpen + MaxLead < Settle, Core, Timed, NEW w \in Workers, CommitBatch(w)
    PROVE  [Abstract!Next]_<<Committed, cursor, outcome>>
<1>1. PageInv(w) /\ pc[w] = "fold" /\ TypeOK
  BY DEF CommitBatch, Core, FoldInv
<1>2. /\ cursor' = IF Processed(w) > 0 THEN last[w] ELSE cursor
      /\ outcome' = [i \in Ids |-> IF i \in Consumed(w) THEN pending[w][i] ELSE outcome[i]]
      /\ status' = status
  BY <1>1 DEF CommitBatch, AdvanceCursor, PageInv, TypeOK
<1>3. Committed' = Committed
  BY <1>2 DEF Committed
<1>4. CASE Processed(w) = 0
  <2>1. Consumed(w) = {}
    BY <1>4, ProcessedPositive
  <2>2. outcome' = outcome
    BY <1>1, <1>2, <2>1 DEF TypeOK
  <2> QED  BY <1>2, <1>3, <1>4, <2>2
<1>5. CASE Processed(w) # 0
  <2>1. Consumed(w) # {} /\ cursor' = last[w]
    BY <1>2, <1>5, ProcessedPositive
  <2>2. /\ last[w] \in Committed /\ last[w] > cursor
        /\ \A i \in Consumed(w) : cursor < i /\ i <= last[w] /\ i \in Committed
    BY <1>1, <2>1, SizesAssumption DEF PageInv, Consumed, Committed, TypeOK, Ids
  <2>3. \A i \in Ids : i \in Consumed(w) <=> i \in Committed /\ cursor < i /\ i <= last[w]
    BY <1>1, <2>2, PrefixConsumed DEF Committed
  <2>4. outcome' \in [Ids -> Outcomes \cup {Unread}]
    BY <1>1, <1>2 DEF TypeOK, Consumed
  <2>5. \A i \in Ids : IF i \in Committed /\ cursor < i /\ i <= last[w]
                       THEN outcome'[i] \in Outcomes
                       ELSE outcome'[i] = outcome[i]
    BY <1>1, <1>2, <2>3 DEF TypeOK, Consumed
  <2>6. Abstract!Fold(last[w])
    BY <1>3, <2>1, <2>2, <2>4, <2>5 DEF Abstract!Fold, Abstract!Ids, Ids
  <2> QED  BY <2>2, <2>6 DEF Abstract!Next
<1> QED  BY <1>4, <1>5

(* Every step is an abstract Append or Fold, or leaves the abstract state  *)
(* as it is.                                                               *)
LEMMA AbstractStep ==
    ASSUME MaxOpen + MaxLead < Settle, Core, Timed, [Next]_vars
    PROVE  [Abstract!Next]_<<Committed, cursor, outcome>>
<1> USE DEF Committed
<1>1. CASE Tick \/ Reap \/ UNCHANGED vars
  BY <1>1 DEF Tick, Reap, vars
<1>2. CASE Emitter
  <2>1. ASSUME NEW t \in (0 - MaxLead) .. (MaxClock + MaxAhead), Insert(t)
        PROVE  UNCHANGED <<Committed, cursor, outcome>>
    BY <2>1, SizesAssumption DEF Insert, Core, TypeOK, SequenceInv, Ids
  <2>2. ASSUME NEW i \in Ids, Close(i, "aborted")
        PROVE  UNCHANGED <<Committed, cursor, outcome>>
    BY <2>2 DEF Close, Core, TypeOK
  <2>3. ASSUME NEW i \in Ids, Close(i, "committed")
        PROVE  Abstract!Append(i)
    <3>1. i \notin Committed /\ i > cursor
      <4>1. status[i] = "open" /\ ~(i <= cursor)
        BY <2>3 DEF Close, Timed, NoEventJumped
      <4> QED  BY <4>1, SizesAssumption DEF Core, TypeOK, Ids
    <3>2. Committed' = Committed \cup {i} /\ UNCHANGED <<cursor, outcome>>
      BY <2>3 DEF Close, Core, TypeOK
    <3> QED  BY <3>1, <3>2 DEF Abstract!Append
  <2>4. Ids = Abstract!Ids
    BY DEF Ids, Abstract!Ids
  <2> QED  BY <1>2, <2>1, <2>2, <2>3, <2>4 DEF Emitter, Abstract!Next
<1>3. CASE \E w \in Workers : Start(w)
  BY <1>3 DEF Start
<1>4. CASE \E w \in Workers : Step(w)
  <2> PICK w \in Workers : Step(w)
    BY <1>4
  <2>1. CASE CommitBatch(w)
    BY <2>1, AbstractCommit
  <2>2. CASE \/ AcquireLock(w) \/ Retry(w) \/ Wake(w) \/ SeeStop(w) \/ Exit(w)
             \/ BeginFold(w) \/ LockCursor(w) \/ SelectBatch(w)
    BY <2>2 DEF AcquireLock, Retry, Wake, SeeStop, Exit, BeginFold, LockCursor, SelectBatch
  <2>3. CASE \E i \in Ids, o \in Outcomes : FoldEvent(w, i, o)
    BY <2>3 DEF FoldEvent
  <2> QED  BY <2>1, <2>2, <2>3 DEF Step
<1>5. CASE \E w \in Workers : Fault(w)
  BY <1>5 DEF Fault, FailBatch, Crash, LoseLockConn, RequestStop
<1> QED
  BY <1>1, <1>2, <1>3, <1>4, <1>5 DEF Next

(* The projector implements EventFold: events join the journal above the   *)
(* cursor only, and a batch accounts for every one of them up to its new   *)
(* cursor, once.                                                           *)
THEOREM Refinement ==
    ASSUME MaxOpen + MaxLead < Settle
    PROVE  Spec => FoldsEvents
<1>1. Init => Abstract!Init
  BY AbstractInit
<1>2. Core /\ Timed /\ [Next]_vars => [Abstract!Next]_<<Committed, cursor, outcome>>
  BY AbstractStep
<1>3. Spec => [](Core /\ Timed)
  BY TimedHolds
<1> QED
  BY <1>1, <1>2, <1>3, PTL DEF Spec, FoldsEvents, Abstract!Spec, Abstract!vars
=============================================================================
