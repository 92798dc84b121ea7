----------------------------- MODULE MCProjector -----------------------------
(* Instances of Projector for TLC.                                          *)
EXTENDS ProjectorStatus, TLC

Interchangeable == Permutations(Workers)

(* What the future of a state depends on.  now() and last_id are locals of  *)
(* fold_batch, set again before they are read by the next batch: BeginFold  *)
(* sets fnow, LockCursor sets last.  born matters while a transaction is    *)
(* open, for Tick.  No invariant reads them anywhere else.                  *)
InUse ==
    <<clock, nextId, status, [i \in Ids |-> IF status[i] = "open" THEN born[i] ELSE 0], ts,
      tableVars, rowLock, advisory, pc, procVars,
      [w \in Workers |-> IF pc[w] \in Folding THEN fnow[w] ELSE 0],
      [w \in Workers |-> IF pc[w] \in Locking THEN last[w] ELSE 0],
      batch, pending, boundVars>>
=============================================================================
