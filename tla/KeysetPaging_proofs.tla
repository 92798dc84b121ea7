------------------------- MODULE KeysetPaging_proofs -------------------------
(***************************************************************************)
(* A walk through a list of any length, with pages of any size and any     *)
(* changes in between.                                                     *)
(*                                                                         *)
(* Both properties say at the end of the walk, or of its every moment,     *)
(* what the cursor says between two pages: the rows ahead of the cursor    *)
(* have been shown and the rest has not (SteadyInv, ShownInv).  What a     *)
(* page contributes is the lemma OnePage.                                  *)
(***************************************************************************)
EXTENDS KeysetPaging, FiniteSetTheorems, TLAPS

-----------------------------------------------------------------------------
(* Of the rows that kept their place, those up to the cursor were shown.   *)
SteadyInv ==
    /\ walk = "first" => steady = {}
    /\ walk = "more" =>
          \A i \in steady : shown[i] = IF Ahead(cursor, Position(i)) THEN 0 ELSE 1
    /\ walk = "end" => \A i \in steady : shown[i] = 1

(* A row that was shown is not beyond the cursor, unless it was renamed;   *)
(* and no batch of the projector has stamped a row before the cursor's.    *)
ShownInv ==
    /\ NoRowTwice
    /\ walk = "first" => cursor = Nil /\ repeated = {} /\ \A i \in Rows : shown[i] = 0
    /\ walk = "more" =>
          /\ \A i \in Rows \ renamed :
                shown[i] = 1 => key[i] # Nil /\ ~Ahead(cursor, Position(i))
          /\ list \in Stamped => \E j \in Rows : key[j] # Nil /\ cursor[1] <= key[j]

-----------------------------------------------------------------------------
(* (key, id) orders the positions strictly and totally, in both directions.*)
LEMMA OrderFacts ==
    ASSUME NEW p \in Positions, NEW q \in Positions, NEW r \in Positions
    PROVE  /\ ~Ahead(p, p)
           /\ Ahead(p, q) /\ Ahead(q, r) => Ahead(p, r)
           /\ p = q \/ Ahead(p, q) \/ Ahead(q, p)
<1>1. /\ p = <<p[1], p[2]>> /\ p[1] \in Int /\ p[2] \in Int
      /\ q = <<q[1], q[2]>> /\ q[1] \in Int /\ q[2] \in Int
      /\ r = <<r[1], r[2]>> /\ r[1] \in Int /\ r[2] \in Int
  <2>1. Keys \subseteq Int /\ Rows \subseteq Int
    BY RowsAssumption, KeysAssumption DEF Keys
  <2>2. ASSUME NEW x \in Positions PROVE x = <<x[1], x[2]>> /\ x[1] \in Int /\ x[2] \in Int
    <3>1. PICK k \in Keys, i \in Rows : x = <<k, i>>
      BY DEF Positions
    <3>2. x[1] = k /\ x[2] = i
      BY <3>1
    <3> QED BY <2>1, <3>1, <3>2
  <2>3. p \in Positions /\ q \in Positions /\ r \in Positions
    OBVIOUS
  <2> QED BY <2>2, <2>3
<1>2. ~Ahead(p, p)
  BY <1>1 DEF Ahead, Less
<1>3. Ahead(p, q) /\ Ahead(q, r) => Ahead(p, r)
  BY <1>1 DEF Ahead, Less
<1>4. p = q \/ Ahead(p, q) \/ Ahead(q, p)
  BY <1>1 DEF Ahead, Less
<1> QED BY <1>2, <1>3, <1>4

(* A listed row has a place of its own in that order.                      *)
LEMMA ListedPlaced ==
    ASSUME TypeOK, NEW i \in Rows, NEW j \in Rows, key[i] # Nil, key[j] # Nil
    PROVE  /\ Position(i) \in Positions
           /\ Position(i) = Position(j) => i = j
<1>1. key[i] \in Keys /\ key[j] \in Keys
  BY DEF TypeOK
<1> QED BY <1>1 DEF Position, Positions

LEMMA ClampPositive ==
    ASSUME NEW raw \in RawLimits
    PROVE  Clamp(raw) \in Nat \ {0}
BY LimitsAssumption DEF Clamp

(* The result rows of listed rows: finitely many, one at least of each row,*)
(* and in the lists without joins no two of one row.                       *)
LEMMA ResultFacts ==
    ASSUME TypeOK, NEW S \in SUBSET listed
    PROVE  /\ IsFiniteSet(Results(S))
           /\ \A r \in Results(S) : r[1] \in S
           /\ \A i \in S : <<i, 1>> \in Results(S) /\ <<i, 1>>[1] = i
           /\ \A p, q \in Results(S) : p # q /\ p[1] = q[1] => list = "health" /\ copies[p[1]] > 1
<1>1. S \subseteq Rows /\ \A i \in S : copies[i] \in 1 .. MaxCopies
  BY DEF TypeOK
<1>2. IsFiniteSet(Results(S))
  <2>1. IsFiniteSet(S) /\ IsFiniteSet(1 .. MaxCopies)
    <3>1. 1 \in Int /\ MaxCopies \in Int
      BY CopiesAssumption
    <3>2. IsFiniteSet(1 .. MaxCopies)
      BY <3>1, FS_Interval
    <3>3. IsFiniteSet(S)
      BY <1>1, RowsAssumption, FS_Subset
    <3> QED BY <3>2, <3>3
  <2>2. IsFiniteSet(S \X (1 .. MaxCopies))
    BY <2>1, FS_Product
  <2>3. Results(S) \subseteq S \X (1 .. MaxCopies)
    BY DEF Results
  <2> QED BY <2>2, <2>3, FS_Subset
<1>3. ASSUME NEW r \in Results(S)
      PROVE  /\ r[1] \in S /\ r[2] \in Nat \ {0} /\ r[2] <= copies[r[1]]
             /\ r = <<r[1], r[2]>>
  <2>1. PICK i \in S, c \in 1 .. MaxCopies : r = <<i, c>>
    BY DEF Results
  <2>2. r[1] = i /\ r[2] = c
    BY <2>1
  <2> QED BY <2>1, <2>2, CopiesAssumption DEF Results
<1>4. ASSUME NEW i \in S PROVE <<i, 1>> \in Results(S) /\ <<i, 1>>[1] = i
  <2>1. <<i, 1>>[1] = i /\ <<i, 1>>[2] = 1
    OBVIOUS
  <2>2. 1 \in 1 .. MaxCopies /\ 1 <= copies[i]
    BY <1>1, CopiesAssumption
  <2> QED BY <2>1, <2>2 DEF Results
<1>5. ASSUME NEW p \in Results(S), NEW q \in Results(S), p # q, p[1] = q[1]
      PROVE  list = "health" /\ copies[p[1]] > 1
  <2>1. copies[p[1]] \in Nat /\ copies[p[1]] # 1
    BY <1>1, <1>3, <1>5, CopiesAssumption
  <2>2. copies[p[1]] > 1
    BY <2>1, <1>3
  <2> QED BY <2>1, <2>2, <1>1, <1>3 DEF TypeOK
<1> QED BY <1>2, <1>3, <1>4, <1>5

(* ORDER BY ... LIMIT n, whatever result rows it is applied to.            *)
LEMMA LimitFacts ==
    ASSUME NEW R, IsFiniteSet(R), NEW n \in Nat, NEW P \in Pages(R, n)
    PROVE  /\ P \subseteq R
           /\ IsFiniteSet(P)
           /\ Cardinality(R) \in Nat /\ Cardinality(P) \in Nat
           /\ Cardinality(P) <= n
           /\ Cardinality(P) < n => P = R
           /\ Cardinality(R) <= n => P = R
           /\ \A p \in P, q \in R : Ahead(Position(q[1]), Position(p[1])) => q \in P
<1>1. /\ P \subseteq R /\ Cardinality(P) <= n
      /\ Cardinality(P) < n => P = R
      /\ \A p \in P, q \in R : Ahead(Position(q[1]), Position(p[1])) => q \in P
  BY DEF Pages
<1>3. IsFiniteSet(P)
  BY <1>1, FS_Subset
<1>4. Cardinality(R) \in Nat /\ Cardinality(P) \in Nat
  BY <1>3, FS_CardinalityType
<1>5. Cardinality(R) <= n => P = R
  <2>1. Cardinality(P) = Cardinality(R) => P = R
    BY <1>1, FS_Subset
  <2>2. Cardinality(P) <= Cardinality(R)
    BY <1>1, FS_Subset
  <2> QED BY <2>1, <2>2, <1>1, <1>4
<1> QED BY <1>1, <1>3, <1>4, <1>5

(* The limit applied twice: the page is the head of the probe, the probe   *)
(* the head of the rows.                                                   *)
LEMMA PageOfProbe ==
    ASSUME NEW R, IsFiniteSet(R), NEW n \in Nat,
           NEW probe \in Pages(R, n + 1), NEW items \in Pages(probe, n)
    PROVE  /\ items \subseteq probe /\ probe \subseteq R
           /\ IsFiniteSet(items)
           /\ Cardinality(R) \in Nat /\ Cardinality(probe) \in Nat /\ Cardinality(items) \in Nat
           /\ Cardinality(items) <= n
           /\ Cardinality(probe) <= n => probe = R /\ items = probe
           /\ \A p \in probe, q \in R : Ahead(Position(q[1]), Position(p[1])) => q \in probe
           /\ \A p \in items, q \in probe : Ahead(Position(q[1]), Position(p[1])) => q \in items
<1> DEFINE m == n + 1
<1>1. m \in Nat /\ probe \in Pages(R, m) /\ \A c \in Nat : c <= n <=> c < m
  OBVIOUS
<1> HIDE DEF m
<1>2. /\ probe \subseteq R /\ IsFiniteSet(probe)
      /\ Cardinality(R) \in Nat /\ Cardinality(probe) \in Nat
      /\ Cardinality(probe) < m => probe = R
      /\ \A p \in probe, q \in R : Ahead(Position(q[1]), Position(p[1])) => q \in probe
  BY <1>1, LimitFacts
<1>4. /\ items \subseteq probe /\ IsFiniteSet(items) /\ Cardinality(items) \in Nat
      /\ Cardinality(items) <= n
      /\ Cardinality(probe) <= n => items = probe
      /\ \A p \in items, q \in probe : Ahead(Position(q[1]), Position(p[1])) => q \in items
  BY <1>2, LimitFacts
<1> QED BY <1>1, <1>2, <1>4

(* A probe holds nothing but rows that are left.                           *)
LEMMA ProbeOfLeft ==
    ASSUME NEW R, NEW n, NEW probe \in Probes(R, n)
    PROVE  probe \subseteq R
<1>1. CASE list # "audit"
  BY <1>1 DEF Probes, Pages
<1>2. CASE list = "audit"
  <2>1. PICK kind \in [Branches -> SUBSET R] :
            probe \in Pages(UNION {kind[b] : b \in Branches}, n)
    <3> HIDE DEF Pages
    <3> QED BY <1>2 DEF Probes
  <2>2. probe \subseteq UNION {kind[b] : b \in Branches}
    BY <2>1 DEF Pages
  <2> QED BY <2>2
<1> QED BY <1>1, <1>2

(* A row the probe of the audit trail's own kind did not reach: the probe  *)
(* is full of rows ahead of it.                                            *)
LEMMA KindFull ==
    ASSUME TypeOK, list = "audit", NEW R \in SUBSET Results(listed), NEW n \in Nat, NEW r \in R,
           NEW F \in Pages(OfKind(R, branch[r[1]]), n + 1), r \notin F
    PROVE  /\ F \subseteq R /\ IsFiniteSet(F) /\ Cardinality(F) \in Nat /\ Cardinality(F) > n
           /\ \A q \in F : Ahead(Position(q[1]), Position(r[1]))
<1> DEFINE K == OfKind(R, branch[r[1]])
<1>0. IsFiniteSet(Results(listed)) /\ listed \in SUBSET listed
  BY ResultFacts
<1>1. K \subseteq R /\ r \in K /\ IsFiniteSet(K)
  <2>1. K \subseteq R /\ r \in K
    BY DEF OfKind
  <2> QED BY <2>1, <1>0, FS_Subset
<1>2. /\ F \subseteq K /\ IsFiniteSet(F) /\ Cardinality(F) \in Nat
      /\ Cardinality(F) < n + 1 => F = K
      /\ \A p \in F, q \in K : Ahead(Position(q[1]), Position(p[1])) => q \in F
  <2>1. n + 1 \in Nat
    OBVIOUS
  <2> HIDE DEF K
  <2>2. F \in Pages(K, n + 1)
    BY DEF K
  <2> QED BY <1>1, <2>1, <2>2, LimitFacts
<1>3. Cardinality(F) > n
  BY <1>1, <1>2
<1>4. ASSUME NEW q \in F PROVE Ahead(Position(q[1]), Position(r[1]))
  <2>0. q \in Results(listed) /\ r \in Results(listed) /\ q # r
    BY <1>1, <1>2
  <2>1. /\ r[1] \in Rows /\ q[1] \in Rows /\ key[r[1]] # Nil /\ key[q[1]] # Nil
        /\ r[1] # q[1]
    BY <2>0, ResultFacts DEF TypeOK
  <2>2. /\ Position(r[1]) \in Positions /\ Position(q[1]) \in Positions
        /\ Position(r[1]) # Position(q[1])
    BY <2>1, ListedPlaced
  <2>3. ~Ahead(Position(r[1]), Position(q[1]))
    BY <1>1, <1>2
  <2> QED BY <2>2, <2>3, OrderFacts
<1> QED BY <1>1, <1>2, <1>3, <1>4

(* What one page shows of the result rows left: all of them if the probe   *)
(* came back with no more than the limit, and else, with any row of the    *)
(* page, all that are ahead of it.  The second half is what LIMIT n + 1 in *)
(* each branch of the audit trail is needed for.                           *)
LEMMA OnePage ==
    ASSUME TypeOK, NEW R \in SUBSET Results(listed), NEW n \in Nat,
           NEW probe \in Probes(R, n + 1), NEW items \in Pages(probe, n), NEW r \in R
    PROVE  /\ items \subseteq R
           /\ Cardinality(probe) <= n => r \in items
           /\ \A p \in items : Ahead(Position(r[1]), Position(p[1])) => r \in items
<1>0. IsFiniteSet(R)
  BY ResultFacts, FS_Subset
<1>1. CASE list # "audit"
  <2>1. probe \in Pages(R, n + 1)
    BY <1>1 DEF Probes
  <2> QED BY <1>0, <2>1, PageOfProbe
<1>2. CASE list = "audit"
  <2>1. PICK kind \in [Branches -> SUBSET R] :
            /\ \A b \in Branches : kind[b] \in Pages(OfKind(R, b), n + 1)
            /\ probe \in Pages(UNION {kind[b] : b \in Branches}, n + 1)
    <3> HIDE DEF Pages
    <3> QED BY <1>2 DEF Probes
  <2> DEFINE U == UNION {kind[b] : b \in Branches}
             F == kind[branch[r[1]]]
  <2>2. U \subseteq R /\ IsFiniteSet(U)
    <3>1. U \subseteq R
      OBVIOUS
    <3> QED BY <3>1, <1>0, FS_Subset
  <2>b. r[1] \in Rows /\ r \in Results(listed)
    BY ResultFacts DEF TypeOK
  <2>3. branch[r[1]] \in Branches /\ F \subseteq U /\ F \in Pages(OfKind(R, branch[r[1]]), n + 1)
    BY <2>1, <2>b DEF TypeOK
  <2>p. probe \in Pages(U, n + 1)
    BY <2>1
  <2> HIDE DEF U, F
  <2>4. /\ items \subseteq probe /\ probe \subseteq U
        /\ IsFiniteSet(items)
        /\ Cardinality(U) \in Nat /\ Cardinality(probe) \in Nat /\ Cardinality(items) \in Nat
        /\ Cardinality(items) <= n
        /\ Cardinality(probe) <= n => probe = U /\ items = probe
        /\ \A p \in probe, q \in U : Ahead(Position(q[1]), Position(p[1])) => q \in probe
        /\ \A p \in items, q \in probe : Ahead(Position(q[1]), Position(p[1])) => q \in items
    BY <2>p, <2>2, PageOfProbe
  <2>6. CASE r \in F
    BY <2>2, <2>3, <2>4, <2>6
  <2>7. CASE r \notin F
    <3>1. /\ F \subseteq R /\ IsFiniteSet(F) /\ Cardinality(F) \in Nat /\ Cardinality(F) > n
          /\ \A q \in F : Ahead(Position(q[1]), Position(r[1]))
      BY <1>2, <2>3, <2>7, KindFull
    <3>2. Cardinality(probe) > n
      <4>1. Cardinality(F) <= Cardinality(U)
        BY <2>2, <2>3, FS_Subset
      <4> QED BY <4>1, <3>1, <2>4
    <3>3. ASSUME NEW p \in items, Ahead(Position(r[1]), Position(p[1])) PROVE FALSE
      <4>1. F \subseteq items
        <5>1. ASSUME NEW q \in F PROVE q \in items
          <6>0. q \in Results(listed) /\ p \in Results(listed)
            BY <2>2, <2>3, <2>4
          <6>1. /\ q[1] \in Rows /\ r[1] \in Rows /\ p[1] \in Rows
                /\ key[q[1]] # Nil /\ key[r[1]] # Nil /\ key[p[1]] # Nil
            BY <2>b, <6>0, ResultFacts DEF TypeOK
          <6>2. /\ Position(q[1]) \in Positions /\ Position(r[1]) \in Positions
                /\ Position(p[1]) \in Positions
            BY <6>1, ListedPlaced
          <6>3. Ahead(Position(q[1]), Position(p[1]))
            BY <6>2, <3>1, <3>3, OrderFacts
          <6> QED BY <6>3, <2>3, <2>4
        <5> QED BY <5>1
      <4>2. Cardinality(F) <= Cardinality(items)
        BY <4>1, <2>4, FS_Subset
      <4> QED BY <4>2, <3>1, <2>4
    <3> QED BY <3>2, <3>3, <2>2, <2>4
  <2> QED BY <2>6, <2>7
<1> QED BY <1>1, <1>2
-----------------------------------------------------------------------------
(* What a page does to the walk, with its limit and its result rows named. *)
Page(n, probe, items) ==
    /\ n \in Nat \ {0}
    /\ probe \in Probes(Results(Left(cursor)), n + 1)
    /\ items \in Pages(probe, n)
    /\ shown' = [i \in Rows |-> IF i \in On(items) THEN shown[i] + 1 ELSE shown[i]]
    /\ repeated' = repeated \cup Twice(items)
    /\ \/ /\ walk' = "more"
          /\ \E i \in On(items) :
                /\ \A j \in On(items) : ~Ahead(Position(i), Position(j))
                /\ cursor' = Position(i)
       \/ walk' = "end" /\ cursor' = Nil /\ Cardinality(probe) <= n

LEMMA FetchPageIsPage ==
    ASSUME FetchPage
    PROVE  \E n, probe, items : Page(n, probe, items)
<1> DEFINE Gives(raw, probe, items) ==
             /\ shown' = [i \in Rows |-> IF i \in On(items) THEN shown[i] + 1 ELSE shown[i]]
             /\ repeated' = repeated \cup Twice(items)
             /\ \/ /\ walk' = "more"
                   /\ \E i \in On(items) :
                         /\ \A j \in On(items) : ~Ahead(Position(i), Position(j))
                         /\ cursor' = Position(i)
                \/ walk' = "end" /\ cursor' = Nil /\ Cardinality(probe) <= Clamp(raw)
<1>1. PICK raw \in RawLimits :
          \E probe \in Probes(Results(Left(cursor)), Clamp(raw) + 1) :
          \E items \in Pages(probe, Clamp(raw)) : Gives(raw, probe, items)
  BY DEF FetchPage
<1>2. PICK probe \in Probes(Results(Left(cursor)), Clamp(raw) + 1) :
          \E items \in Pages(probe, Clamp(raw)) : Gives(raw, probe, items)
  BY <1>1
<1>3. PICK items \in Pages(probe, Clamp(raw)) : Gives(raw, probe, items)
  BY <1>2
<1>4. Page(Clamp(raw), probe, items)
  BY <1>3, ClampPositive DEF Page
<1> QED BY <1>4

LEMMA PageOfLeft ==
    ASSUME TypeOK, NEW n, NEW probe, NEW items, Page(n, probe, items)
    PROVE  items \subseteq Results(Left(cursor)) /\ On(items) \subseteq Left(cursor)
<1>1. items \subseteq probe
  BY DEF Page, Pages
<1>2. probe \subseteq Results(Left(cursor))
  BY ProbeOfLeft DEF Page
<1>3. Left(cursor) \in SUBSET listed
  BY DEF Left
<1>4. \A r \in Results(Left(cursor)) : r[1] \in Left(cursor)
  BY <1>3, ResultFacts
<1> QED BY <1>1, <1>2, <1>4 DEF On

-----------------------------------------------------------------------------
LEMMA TypeOKInit == ASSUME Init PROVE TypeOK
<1>1. key \in [Rows -> Keys \cup {Nil}]
  BY KeysAssumption DEF Init, Keys
<1>2. copies \in [Rows -> 1 .. MaxCopies] /\ (list # "health" => \A i \in Rows : copies[i] = 1)
  BY CopiesAssumption DEF Init
<1> QED BY <1>1, <1>2, LimitsAssumption DEF Init, TypeOK

(* A page leaves the table alone and moves the cursor to a row of the list.*)
LEMMA FetchPageKeepsTypes ==
    ASSUME TypeOK, FetchPage
    PROVE  TypeOK'
<1>1. PICK n, probe, items : Page(n, probe, items)
  BY FetchPageIsPage
<1>2. shown' \in [Rows -> Nat]
  BY <1>1 DEF Page, TypeOK
<1>3. Left(cursor) \in SUBSET listed
  BY DEF Left
<1>4. On(items) \subseteq Left(cursor)
  BY <1>1, <1>3, PageOfLeft
<1>5. /\ cursor' \in Positions \cup {Nil}
      /\ walk' \in {"more", "end"}
      /\ walk' = "more" => cursor' # Nil
  <2>1. ASSUME NEW i \in On(items) PROVE Position(i) \in Positions /\ Position(i) # Nil
    <3>1. i \in Rows /\ key[i] # Nil
      BY <1>3, <1>4 DEF TypeOK
    <3>2. Position(i) \in Positions
      BY <3>1, ListedPlaced
    <3> QED BY <3>2, KeysAssumption, CursorAssumption DEF Positions, Keys
  <2> QED BY <1>1, <2>1 DEF Page
<1>6. steady' \in SUBSET listed
  BY DEF FetchPage, TypeOK
<1>7. repeated' \in SUBSET Rows
  <2>1. Twice(items) \subseteq On(items) /\ On(items) \subseteq Rows
    BY <1>3, <1>4 DEF Twice, TypeOK
  <2> QED BY <1>1, <2>1 DEF Page, TypeOK
<1> QED BY <1>2, <1>5, <1>6, <1>7 DEF FetchPage, TypeOK

LEMMA ChangesKeepTypes ==
    ASSUME TypeOK, Change,
           key' \in [Rows -> Keys \cup {Nil}],
           listed' \in SUBSET {i \in Rows : key'[i] # Nil},
           copies' \in [Rows -> 1 .. MaxCopies],
           list # "health" => \A i \in Rows : copies'[i] = 1,
           steady' \in SUBSET listed', renamed' \in SUBSET Rows
    PROVE  TypeOK'
<1>1. changes' \in 0 .. MaxChanges
  BY LimitsAssumption DEF Change, TypeOK
<1> QED BY <1>1 DEF Change, walkVars, TypeOK

LEMMA TypeOKStep ==
    ASSUME TypeOK, [Next]_vars
    PROVE  TypeOK'
<1> USE DEF TypeOK
<1>0. \A k \in Keys : k # Nil
  BY KeysAssumption DEF Keys
<1>1. CASE FetchPage
  BY <1>1, FetchPageKeepsTypes
<1>2. CASE Refuse
  BY <1>2 DEF Refuse
<1>3. ASSUME NEW i \in Rows, NEW k \in Keys, Insert(i, k) PROVE TypeOK'
  <2>1. key' \in [Rows -> Keys \cup {Nil}] /\ \A j \in Rows : key[j] # Nil => key'[j] # Nil
    BY <1>0, <1>3 DEF Insert
  <2>2. key'[i] # Nil
    BY <1>0, <1>3 DEF Insert
  <2> QED BY <1>3, <2>1, <2>2, ChangesKeepTypes DEF Insert
<1>4. ASSUME NEW S \in SUBSET Rows, NEW k \in Keys, FoldBatch(S, k) PROVE TypeOK'
  <2>1. key' \in [Rows -> Keys \cup {Nil}] /\ \A j \in Rows : key[j] # Nil \/ j \in S => key'[j] # Nil
    BY <1>0, <1>4 DEF FoldBatch
  <2> QED BY <1>4, <2>1, ChangesKeepTypes DEF FoldBatch
<1>5. ASSUME NEW i \in Rows, NEW k \in Keys, Rename(i, k) PROVE TypeOK'
  <2>1. key' \in [Rows -> Keys \cup {Nil}] /\ \A j \in Rows : key[j] # Nil => key'[j] # Nil
    BY <1>0, <1>5 DEF Rename
  <2> QED BY <1>5, <2>1, ChangesKeepTypes DEF Rename
<1>6. ASSUME NEW i \in Rows, Match(i) PROVE TypeOK'
  BY <1>6, ChangesKeepTypes DEF Match
<1>7. ASSUME NEW i \in Rows, Unmatch(i) PROVE TypeOK'
  BY <1>7, ChangesKeepTypes DEF Unmatch
<1>8. CASE UNCHANGED vars
  BY <1>8 DEF vars, walkVars
<1>9. ASSUME NEW S \in SUBSET Rows, NEW n \in 1 .. MaxCopies, Register(S, n) PROVE TypeOK'
  BY <1>9, ChangesKeepTypes DEF Register
<1> QED BY <1>1, <1>2, <1>3, <1>4, <1>5, <1>6, <1>7, <1>8, <1>9 DEF Next

(* Type correctness of the walk: between two pages the client holds the    *)
(* position of a row (reads.py, paging.py).                                *)
THEOREM TypeCorrect == Spec => []TypeOK
<1> QED BY TypeOKInit, TypeOKStep, PTL DEF Spec

-----------------------------------------------------------------------------
(* The rows left are partitioned: those of the page and those beyond it.   *)
LEMMA PageSplits ==
    ASSUME TypeOK, NEW n, NEW probe, NEW items, Page(n, probe, items)
    PROVE  /\ On(items) \subseteq Left(cursor)
           /\ walk' = "end" => On(items) = Left(cursor)
           /\ walk' = "more" =>
                 /\ \A i \in Left(cursor) : i \in On(items) <=> ~Ahead(cursor', Position(i))
                 /\ \E i \in On(items) : cursor' = Position(i)
<1> DEFINE S == Left(cursor)
           R == Results(S)
<1>1. S \in SUBSET listed /\ n \in Nat
  BY DEF Left, Page
<1>2. probe \in Probes(R, n + 1) /\ items \in Pages(probe, n)
  BY DEF Page
<1>3. R \in SUBSET Results(listed)
  BY <1>1 DEF Results
<1>4. items \subseteq R /\ On(items) \subseteq S
  BY PageOfLeft
<1>5. \A i \in S : <<i, 1>> \in R /\ <<i, 1>>[1] = i
  BY <1>1, ResultFacts
<1> HIDE DEF S, R
<1>6. ASSUME NEW i \in S
      PROVE  /\ Cardinality(probe) <= n => i \in On(items)
             /\ \A j \in On(items) : Ahead(Position(i), Position(j)) => i \in On(items)
  <2>1. <<i, 1>> \in R /\ <<i, 1>>[1] = i
    BY <1>5
  <2>2. <<i, 1>> \in items => i \in On(items)
    BY <2>1 DEF On
  <2>3. /\ Cardinality(probe) <= n => <<i, 1>> \in items
        /\ \A p \in items : Ahead(Position(<<i, 1>>[1]), Position(p[1])) => <<i, 1>> \in items
    BY <1>1, <1>2, <1>3, <2>1, OnePage
  <2> QED BY <2>1, <2>2, <2>3 DEF On
<1>7. walk' = "end" => On(items) = S
  BY <1>4, <1>6 DEF Page
<1>8. ASSUME walk' = "more"
      PROVE  /\ \A i \in S : i \in On(items) <=> ~Ahead(cursor', Position(i))
             /\ \E i \in On(items) : cursor' = Position(i)
  <2>1. PICK p \in On(items) : /\ \A j \in On(items) : ~Ahead(Position(p), Position(j))
                               /\ cursor' = Position(p)
    BY <1>8 DEF Page
  <2>2. ASSUME NEW i \in S, i \notin On(items) PROVE Ahead(Position(p), Position(i))
    <3>1. i \in Rows /\ p \in Rows /\ key[i] # Nil /\ key[p] # Nil /\ i # p
      BY <1>1, <1>4, <2>2 DEF TypeOK
    <3>2. /\ Position(i) \in Positions /\ Position(p) \in Positions
          /\ Position(i) # Position(p)
      BY <3>1, ListedPlaced
    <3>3. ~Ahead(Position(i), Position(p))
      BY <1>6, <2>2
    <3> QED BY <3>2, <3>3, OrderFacts
  <2> QED BY <2>1, <2>2
<1> QED BY <1>4, <1>7, <1>8 DEF S

(* A row the cursor has passed stays passed by the next cursor.            *)
LEMMA CursorMovesOn ==
    ASSUME TypeOK, walk = "more", NEW n, NEW probe, NEW items, Page(n, probe, items),
           walk' = "more", NEW i \in Rows, key[i] # Nil, ~Ahead(cursor, Position(i))
    PROVE  ~Ahead(cursor', Position(i))
<1>1. PICK p \in On(items) : cursor' = Position(p) /\ p \in Left(cursor)
  BY PageSplits
<1>2. p \in Rows /\ key[p] # Nil /\ cursor # Nil /\ Ahead(cursor, Position(p))
  BY <1>1 DEF Left, TypeOK
<1>3. cursor \in Positions /\ Position(p) \in Positions /\ Position(i) \in Positions
  BY <1>2, ListedPlaced DEF TypeOK
<1> QED BY <1>1, <1>2, <1>3, OrderFacts

-----------------------------------------------------------------------------
LEMMA ShownInvPage ==
    ASSUME TypeOK, ShownInv, FetchPage
    PROVE  ShownInv'
<1>1. PICK n, probe, items : Page(n, probe, items)
  BY FetchPageIsPage
<1>2. /\ On(items) \subseteq Left(cursor)
      /\ walk' = "more" =>
            /\ \A i \in Left(cursor) : i \in On(items) <=> ~Ahead(cursor', Position(i))
            /\ \E p \in On(items) : cursor' = Position(p)
  BY <1>1, PageSplits
<1>3. /\ UNCHANGED <<list, key, listed, renamed>>
      /\ walk \in {"first", "more"} /\ walk' \in {"more", "end"}
      /\ \A i \in Rows : shown'[i] = IF i \in On(items) THEN shown[i] + 1 ELSE shown[i]
  BY <1>1 DEF FetchPage, Page
<1>4. \A i \in Left(cursor) : i \in Rows /\ key[i] # Nil
  BY DEF Left, TypeOK
<1>5. ASSUME NEW i \in Rows \ renamed, i \in On(items) PROVE shown[i] = 0
  <2>1. walk = "more" => Ahead(cursor, Position(i))
    BY <1>2, <1>5 DEF Left, TypeOK
  <2>2. walk = "more" => shown[i] # 1
    BY <2>1 DEF ShownInv
  <2>3. shown[i] \in Nat /\ shown[i] <= 1
    BY DEF ShownInv, NoRowTwice, TypeOK
  <2> QED BY <2>2, <2>3, <1>3 DEF ShownInv
<1>6. NoRowTwice'
  <2>1. ASSUME NEW i \in Rows \ renamed PROVE shown'[i] <= 1
    BY <1>3, <1>5 DEF ShownInv, NoRowTwice, TypeOK
  <2>2. ASSUME NEW i \in Twice(items) PROVE list = "health" /\ copies[i] > 1
    <3>1. PICK p \in items, q \in items : p # q /\ p[1] = i /\ q[1] = i
      BY DEF Twice
    <3>2. p \in Results(Left(cursor)) /\ q \in Results(Left(cursor))
      BY <1>1, PageOfLeft
    <3>3. Left(cursor) \in SUBSET listed
      BY DEF Left
    <3> QED BY <3>1, <3>2, <3>3, ResultFacts
  <2>3. repeated' = repeated \cup Twice(items) /\ copies' = copies
    BY <1>1 DEF Page, FetchPage
  <2> QED BY <2>1, <2>2, <2>3, <1>3 DEF ShownInv, NoRowTwice
<1>7. ASSUME walk' = "more", NEW i \in Rows \ renamed, shown'[i] = 1
      PROVE  key[i] # Nil /\ ~Ahead(cursor', Position(i))
  <2>1. CASE i \in On(items)
    BY <2>1, <1>2, <1>4, <1>7
  <2>2. CASE i \notin On(items)
    <3>1. shown[i] = 1
      BY <2>2, <1>3, <1>7
    <3>2. walk = "more"
      BY <3>1, <1>3 DEF ShownInv
    <3>3. key[i] # Nil /\ ~Ahead(cursor, Position(i))
      BY <3>1, <3>2 DEF ShownInv
    <3> QED BY <1>1, <1>7, <3>2, <3>3, CursorMovesOn
  <2> QED BY <2>1, <2>2
<1>8. ASSUME walk' = "more", list \in Stamped
      PROVE  \E j \in Rows : key[j] # Nil /\ cursor'[1] <= key[j]
  <2>1. PICK p \in On(items) : cursor' = Position(p)
    BY <1>2, <1>8
  <2>2. p \in Rows /\ key[p] # Nil /\ key[p] \in Int /\ cursor'[1] = key[p]
    BY <2>1, <1>2, <1>4 DEF Position, TypeOK, Keys
  <2> QED BY <2>2
<1>9. \A i : (Ahead(cursor, Position(i)))' <=> Ahead(cursor', Position(i))
  BY <1>3 DEF Ahead, Position
<1> QED BY <1>3, <1>6, <1>7, <1>8, <1>9 DEF ShownInv

(* Only a batch of the projector moves rows that have been shown and may   *)
(* not be shown again, and it moves them before the cursor.                *)
LEMMA ShownInvBatch ==
    ASSUME TypeOK, ShownInv, NEW S \in SUBSET Rows, NEW k \in Keys, FoldBatch(S, k)
    PROVE  ShownInv'
<1>1. /\ walk = "more" /\ UNCHANGED <<list, copies, walk, cursor, shown, repeated, renamed>>
      /\ list \in Stamped
      /\ \A i \in Rows : key[i] # Nil => key[i] < k
      /\ \A i \in Rows : key'[i] = IF i \in S THEN k ELSE key[i]
  BY DEF FoldBatch, Change, walkVars
<1>2. k # Nil /\ k \in Int
  BY KeysAssumption DEF Keys
<1>3. PICK j \in Rows : key[j] # Nil /\ cursor[1] <= key[j]
  BY <1>1 DEF ShownInv
<1>4. /\ key[j] \in Int /\ cursor = <<cursor[1], cursor[2]>>
      /\ cursor[1] \in Int /\ cursor[2] \in Rows
  BY <1>1, <1>3 DEF TypeOK, Keys, Positions
<1>5. cursor[1] < k
  BY <1>1, <1>2, <1>3, <1>4
<1>6. key'[j] # Nil /\ cursor[1] <= key'[j]
  BY <1>1, <1>2, <1>3, <1>4, <1>5
<1>7. ASSUME NEW i \in Rows \ renamed, shown[i] = 1
      PROVE  key'[i] # Nil /\ ~(Ahead(cursor, Position(i)))'
  <2>1. CASE i \in S
    <3>1. list \notin Ascending
      BY <1>1 DEF Stamped, Ascending
    <3>2. ~Less(<<k, i>>, cursor)
      BY <1>2, <1>4, <1>5 DEF Less
    <3> QED BY <2>1, <3>1, <3>2, <1>1, <1>2 DEF Ahead, Position
  <2>2. CASE i \notin S
    BY <2>2, <1>1, <1>7 DEF ShownInv, Ahead, Position
  <2> QED BY <2>1, <2>2
<1> QED BY <1>1, <1>6, <1>7 DEF ShownInv, NoRowTwice

LEMMA ShownInvStep ==
    ASSUME TypeOK, ShownInv, [Next]_vars
    PROVE  ShownInv'
<1> DEFINE Same == UNCHANGED <<list, copies, walk, cursor, shown, repeated>>
<1>1. CASE FetchPage
  BY <1>1, ShownInvPage
<1>2. CASE Refuse
  BY <1>2 DEF Refuse, ShownInv, NoRowTwice
<1>3. ASSUME NEW S \in SUBSET Rows, NEW k \in Keys, FoldBatch(S, k) PROVE ShownInv'
  BY <1>3, ShownInvBatch
<1>4. ASSUME Same, renamed \subseteq renamed', walk = "more", list \in Stamped => key' = key,
             \A i \in Rows \ renamed' : key[i] # Nil => key'[i] = key[i]
      PROVE  ShownInv'
  <2>1. \A i \in Rows \ renamed' :
            shown[i] = 1 => key'[i] # Nil /\ ~(Ahead(cursor, Position(i)))'
    BY <1>4 DEF ShownInv, Ahead, Position
  <2> QED BY <1>4, <2>1 DEF ShownInv, NoRowTwice
<1>5. ASSUME NEW i \in Rows, NEW k \in Keys, Insert(i, k) PROVE ShownInv'
  <2>1. Same /\ walk = "more" /\ renamed' = renamed /\ list \notin Stamped
    BY <1>5 DEF Insert, Change, walkVars
  <2>2. \A j \in Rows : key[j] # Nil => key'[j] = key[j]
    BY <1>5 DEF Insert, TypeOK
  <2> QED BY <1>4, <2>1, <2>2
<1>6. ASSUME NEW i \in Rows, NEW k \in Keys, Rename(i, k) PROVE ShownInv'
  <2>1. Same /\ walk = "more" /\ renamed' = renamed \cup {i} /\ list \notin Stamped
    BY <1>6 DEF Rename, Change, walkVars, Stamped
  <2>2. \A j \in Rows \ {i} : key'[j] = key[j]
    BY <1>6 DEF Rename, TypeOK
  <2> QED BY <1>4, <2>1, <2>2
<1>7. ASSUME NEW i \in Rows, Match(i) \/ Unmatch(i) PROVE ShownInv'
  <2>1. Same /\ walk = "more" /\ renamed' = renamed /\ key' = key
    BY <1>7 DEF Match, Unmatch, Change, walkVars
  <2> QED BY <1>4, <2>1
<1>8. CASE UNCHANGED vars
  BY <1>8 DEF vars, walkVars, ShownInv, NoRowTwice, Ahead, Position
<1>9. ASSUME NEW S \in SUBSET Rows, NEW n \in 1 .. MaxCopies, Register(S, n) PROVE ShownInv'
  <2>1. /\ UNCHANGED <<list, key, walk, cursor, shown, repeated, renamed>> /\ walk = "more"
        /\ list = "health"
    BY <1>9 DEF Register, Change, walkVars
  <2>2. ASSUME NEW i \in repeated PROVE copies'[i] > 1
    <3>1. copies[i] > 1 /\ copies[i] \in Nat /\ i \in Rows /\ n \in Nat
      BY CopiesAssumption DEF ShownInv, NoRowTwice, TypeOK
    <3>2. copies'[i] = copies[i] \/ (copies'[i] = n /\ copies[i] < n)
      BY <1>9, <3>1 DEF Register
    <3> QED BY <3>1, <3>2
  <2> QED BY <2>1, <2>2 DEF ShownInv, NoRowTwice, Ahead, Position
<1> QED BY <1>1, <1>2, <1>3, <1>5, <1>6, <1>7, <1>8, <1>9 DEF Next

(* No row but a renamed device is shown by two pages: an unknown device    *)
(* that the projector bumps to the front of the list (scope.py:93) is not, *)
(* nor is an ad run that leaves the status filter and returns              *)
(* (ad_runs.py:26), nor a health event whose copies the end of a page cut  *)
(* off (events.py:21); and only those are repeated within a page.          *)
THEOREM NoRowTwiceHolds == Spec => []NoRowTwice
<1>1. Init => ShownInv
  BY DEF Init, ShownInv, NoRowTwice
<1>2. ShownInv => NoRowTwice
  BY DEF ShownInv
<1> QED BY <1>1, <1>2, TypeCorrect, ShownInvStep, PTL DEF Spec

-----------------------------------------------------------------------------
LEMMA SteadyInvPage ==
    ASSUME TypeOK, ShownInv, SteadyInv, FetchPage
    PROVE  SteadyInv'
<1>1. PICK n, probe, items : Page(n, probe, items)
  BY FetchPageIsPage
<1>2. /\ On(items) \subseteq Left(cursor)
      /\ walk' = "end" => On(items) = Left(cursor)
      /\ walk' = "more" =>
            \A i \in Left(cursor) : i \in On(items) <=> ~Ahead(cursor', Position(i))
  BY <1>1, PageSplits
<1>3. /\ UNCHANGED <<list, key, listed>>
      /\ walk \in {"first", "more"} /\ walk' \in {"more", "end"}
      /\ steady' = IF walk = "first" THEN listed ELSE steady
      /\ \A i \in Rows : shown'[i] = IF i \in On(items) THEN shown[i] + 1 ELSE shown[i]
  BY <1>1 DEF FetchPage, Page
<1>4. ASSUME NEW i \in steady'
      PROVE  /\ walk' = "more" => shown'[i] = IF Ahead(cursor', Position(i)) THEN 0 ELSE 1
             /\ walk' = "end" => shown'[i] = 1
  <2>1. i \in listed /\ i \in Rows /\ key[i] # Nil
    BY <1>3, <1>4 DEF TypeOK
  <2>2. CASE i \in Left(cursor)
    <3>1. shown[i] = 0
      <4>1. walk = "more" => Ahead(cursor, Position(i)) /\ i \in steady
        BY <2>2, <1>3, <1>4 DEF Left, TypeOK
      <4> QED BY <4>1, <2>1, <1>3 DEF SteadyInv, ShownInv
    <3> QED BY <3>1, <2>1, <2>2, <1>2, <1>3
  <2>3. CASE i \notin Left(cursor)
    <3>1. walk = "more" /\ i \in steady /\ ~Ahead(cursor, Position(i))
      BY <2>1, <2>3, <1>3, <1>4 DEF Left, ShownInv
    <3>2. shown[i] = 1 /\ i \notin On(items)
      BY <3>1, <2>3, <1>2 DEF SteadyInv
    <3>3. walk' = "more" => ~Ahead(cursor', Position(i))
      BY <1>1, <2>1, <3>1, CursorMovesOn
    <3> QED BY <3>2, <3>3, <2>1, <1>3
  <2> QED BY <2>2, <2>3
<1>5. \A i : (Ahead(cursor, Position(i)))' <=> Ahead(cursor', Position(i))
  BY <1>3 DEF Ahead, Position
<1> QED BY <1>3, <1>4, <1>5 DEF SteadyInv

LEMMA SteadyInvStep ==
    ASSUME TypeOK, ShownInv, SteadyInv, [Next]_vars
    PROVE  SteadyInv'
<1>1. CASE FetchPage
  BY <1>1, SteadyInvPage
<1>2. CASE Refuse
  BY <1>2 DEF Refuse, SteadyInv
<1>3. ASSUME UNCHANGED <<list, walk, cursor, shown>>, walk = "more", steady' \subseteq steady,
             \A i \in steady' : key'[i] = key[i]
      PROVE  SteadyInv'
  <2>1. \A i \in steady' : (Ahead(cursor, Position(i)))' <=> Ahead(cursor, Position(i))
    BY <1>3 DEF Ahead, Position
  <2> QED BY <1>3, <2>1 DEF SteadyInv
<1>4. ASSUME NEW i \in Rows, NEW k \in Keys, Insert(i, k) PROVE SteadyInv'
  <2>1. \A j \in steady : j \in Rows /\ j # i
    BY <1>4 DEF Insert, TypeOK
  <2> QED BY <1>3, <1>4, <2>1 DEF Insert, Change, walkVars, TypeOK
<1>5. ASSUME NEW S \in SUBSET Rows, NEW k \in Keys, FoldBatch(S, k) PROVE SteadyInv'
  BY <1>3, <1>5 DEF FoldBatch, Change, walkVars, TypeOK
<1>6. ASSUME NEW i \in Rows, NEW k \in Keys, Rename(i, k) PROVE SteadyInv'
  BY <1>3, <1>6 DEF Rename, Change, walkVars, TypeOK
<1>7. ASSUME NEW i \in Rows, Match(i) PROVE SteadyInv'
  BY <1>3, <1>7 DEF Match, Change, walkVars
<1>8. ASSUME NEW i \in Rows, Unmatch(i) PROVE SteadyInv'
  BY <1>3, <1>8 DEF Unmatch, Change, walkVars
<1>0. ASSUME NEW S \in SUBSET Rows, NEW n \in 1 .. MaxCopies, Register(S, n) PROVE SteadyInv'
  BY <1>3, <1>0 DEF Register, Change, walkVars
<1>9. CASE UNCHANGED vars
  BY <1>9 DEF vars, walkVars, SteadyInv, Ahead, Position
<1> QED BY <1>0, <1>1, <1>2, <1>4, <1>5, <1>6, <1>7, <1>8, <1>9 DEF Next

(* The cursor is stable (ad_runs.py:5, reads.py:275-276): the end of a     *)
(* walk has shown every row that kept its place on exactly one page, for   *)
(* lists and pages of any size, any number of result rows per health event *)
(* and any sequence of changes; and once, where no join repeats it.        *)
THEOREM SteadyRowsOnceHolds == Spec => []SteadyRowsOnce
<1>1. Init => ShownInv /\ SteadyInv
  BY DEF Init, ShownInv, NoRowTwice, SteadyInv
<1>2. ShownInv /\ SteadyInv => SteadyRowsOnce
  BY DEF ShownInv, NoRowTwice, SteadyInv, SteadyRowsOnce
<1> QED BY <1>1, <1>2, TypeCorrect, ShownInvStep, SteadyInvStep, PTL DEF Spec
=============================================================================
