------------------------ MODULE StockMovementsProofs ------------------------
(***************************************************************************)
(* What StockMovements guarantees for every set of requests, products and  *)
(* locations, every company they belong to and every column width.         *)
(***************************************************************************)
EXTENDS StockMovements, FiniteSetTheorems, WellFoundedInduction, TLAPS

\* The totals a request computes are kept per request.
TotalsAreFunctions ==
    /\ previousStock = [r \in Requests |-> previousStock[r]]
    /\ newStock = [r \in Requests |-> newStock[r]]

\* The inductive invariant behind the theorems: the types of the rows, and the
\* lock discipline that makes a transaction's writes its own.
IInv ==
    /\ StoreTypeOK
    /\ TotalsAreFunctions
    /\ StockInRange
    /\ LocksCoverWrites

-----------------------------------------------------------------------------
\* A movement with the locations of its type touches rows of stock_entries,
\* two different ones when it is a transfer.
LEMMA TouchedRows ==
    ASSUME NEW m \in Movements, HasItsLocations(m)
    PROVE  /\ Takes(m) => Source(m) \in Keys
           /\ Puts(m) => Destination(m) \in Keys
           /\ Takes(m) /\ Puts(m) => Source(m) # Destination(m)
  BY DEF Movements, HasItsLocations, Takes, Puts, Source, Destination, Keys

\* A request that is past its checks touches rows of stock_entries.
LEMMA WritersTouchRows ==
    ASSUME IInv, NEW r \in Requests,
           pc[r] \in {"source", "current", "destination", "record", "commit"}
    PROVE  /\ body[r] \in Movements
           /\ Takes(body[r]) => SourceOf(r) \in Keys
           /\ Puts(body[r]) => DestinationOf(r) \in Keys
           /\ Takes(body[r]) /\ Puts(body[r]) => SourceOf(r) # DestinationOf(r)
<1>1. body[r] \in Movements /\ HasItsLocations(body[r])
  BY DEF IInv, StoreTypeOK, LocksCoverWrites, BranchMatchesType, RightBranch
<1>. QED  BY <1>1, TouchedRows DEF SourceOf, DestinationOf

LEMMA InitEstablishesIInv == Init => IInv
<1> SUFFICES ASSUME Init PROVE IInv
  OBVIOUS
<1>. PICK s \in InitialStocks :
        /\ rows = DOMAIN s
        /\ qty = [k \in Keys |-> IF k \in DOMAIN s THEN s[k] ELSE 0]
  BY DEF Init
<1>0. /\ DOMAIN s \subseteq Keys
      /\ \A k \in DOMAIN s : s[k] \in 0..MaxQty
  BY InitialStocksAreStocks
<1>1. StoreTypeOK
  BY <1>0, MaxQtyAssumption
  DEF Init, StoreTypeOK, InTransaction, AfterCommit, Settled
<1>2. TotalsAreFunctions
  BY DEF Init, TotalsAreFunctions
<1>3. StockInRange
  BY <1>0, MaxQtyAssumption DEF StockInRange
<1>4. LocksCoverWrites
  BY NoRequestIsNone
  DEF Init, LocksCoverWrites, UnlockedIsCommitted, PendingIsEffect,
      WritersHoldLocks, BranchMatchesType, RightBranch, TookSource, PutDestination
<1>. QED  BY <1>1, <1>2, <1>3, <1>4 DEF IInv

\* A rollback releases the rows of its request at their committed values and
\* touches nobody else's.
LEMMA RollbackPreservesIInv ==
    ASSUME NEW r \in Requests, NEW outcome \in Settled, IInv,
           pc[r] \in InTransaction, Rollback(r, outcome)
    PROVE  IInv'
<1> USE DEF Rollback, Go
<1>1. StoreTypeOK'
  BY DEF IInv, StoreTypeOK, locals, Settled, InTransaction
<1>2. TotalsAreFunctions' /\ StockInRange'
  BY DEF IInv, TotalsAreFunctions, StockInRange, locals
<1>3. UnlockedIsCommitted'
  BY DEF IInv, LocksCoverWrites, UnlockedIsCommitted, StoreTypeOK
<1>4. ASSUME NEW s \in Requests, s # r
      PROVE  /\ pc'[s] = pc[s] /\ body'[s] = body[s]
             /\ TookSource(s)' <=> TookSource(s)
             /\ PutDestination(s)' <=> PutDestination(s)
  BY <1>4 DEF IInv, StoreTypeOK, locals, TookSource, PutDestination
<1>5. ~TookSource(r)' /\ ~PutDestination(r)' /\ pc'[r] = outcome
  BY DEF IInv, StoreTypeOK, locals, TookSource, PutDestination, Settled
<1>6. PendingIsEffect'
  BY <1>4, NoRequestIsNone
  DEF IInv, StoreTypeOK, LocksCoverWrites, PendingIsEffect, HoldsSource,
      HoldsDestination, locals, SourceOf, DestinationOf
<1>7. WritersHoldLocks'
  <2>1. ASSUME NEW s \in Requests, s # r, TookSource(s)
        PROVE  holder'[SourceOf(s)] = s
    BY <2>1, WritersTouchRows DEF IInv, LocksCoverWrites, WritersHoldLocks, TookSource
  <2>2. ASSUME NEW s \in Requests, s # r, PutDestination(s)
        PROVE  holder'[DestinationOf(s)] = s
    BY <2>2, WritersTouchRows DEF IInv, LocksCoverWrites, WritersHoldLocks, PutDestination
  <2>. QED  BY <2>1, <2>2, <1>4, <1>5 DEF WritersHoldLocks, SourceOf, DestinationOf
<1>8. BranchMatchesType'
  BY <1>4, <1>5 DEF IInv, StoreTypeOK, LocksCoverWrites, BranchMatchesType, RightBranch, locals, Settled
<1>. QED
  BY <1>1, <1>2, <1>3, <1>6, <1>7, <1>8 DEF IInv, LocksCoverWrites

\* A step that leaves the rows and their locks alone, and moves one request
\* between labels with the same writes behind it, preserves the invariant.
LEMMA FramePreservesIInv ==
    ASSUME IInv, NEW r \in Requests,
           StoreTypeOK', TotalsAreFunctions',
           UNCHANGED <<rows, qty, holder, pending>>,
           \A s \in Requests \ {r} :
               /\ pc'[s] = pc[s] /\ body'[s] = body[s]
               /\ previousStock'[s] = previousStock[s] /\ newStock'[s] = newStock[s],
           TookSource(r)' <=> TookSource(r),
           PutDestination(r)' <=> PutDestination(r),
           TookSource(r) \/ PutDestination(r) => body'[r] = body[r],
           RightBranch(r)'
    PROVE  IInv'
<1>1. StockInRange' /\ UnlockedIsCommitted'
  BY DEF IInv, StockInRange, LocksCoverWrites, UnlockedIsCommitted
<1>2. \A s \in Requests :
        /\ TookSource(s)' <=> TookSource(s)
        /\ PutDestination(s)' <=> PutDestination(s)
        /\ TookSource(s) \/ PutDestination(s) => body'[s] = body[s]
  BY DEF TookSource, PutDestination
<1>3. PendingIsEffect'
  BY <1>2
  DEF IInv, LocksCoverWrites, PendingIsEffect, HoldsSource, HoldsDestination,
      SourceOf, DestinationOf
<1>4. WritersHoldLocks'
  BY <1>2 DEF IInv, LocksCoverWrites, WritersHoldLocks, SourceOf, DestinationOf
<1>5. BranchMatchesType'
  BY DEF IInv, LocksCoverWrites, BranchMatchesType, RightBranch
<1>. QED  BY <1>1, <1>3, <1>4, <1>5 DEF IInv, LocksCoverWrites

LEMMA SubmitPreservesIInv ==
    ASSUME IInv, NEW r \in Requests, Submit(r) PROVE IInv'
<1> USE DEF Submit, Go, database
<1>1. StoreTypeOK' /\ TotalsAreFunctions'
  BY BodiesAssumption DEF IInv, StoreTypeOK, TotalsAreFunctions, InTransaction
<1>2. pc'[r] = "product" /\ pc[r] = "idle"
  BY DEF IInv, StoreTypeOK
<1>3. \A s \in Requests \ {r} : pc'[s] = pc[s] /\ body'[s] = body[s]
  BY DEF IInv, StoreTypeOK
<1>. QED
  BY <1>1, <1>2, <1>3, FramePreservesIInv DEF TookSource, PutDestination, RightBranch

\* The two lookups either let the request through or roll it back.
LEMMA LookupsPreserveIInv ==
    ASSUME IInv, NEW r \in Requests,
           FindProductAndWarehouse(r) \/ FindMovementLocations(r)
    PROVE  IInv'
<1>1. CASE \E outcome \in Settled : pc[r] \in InTransaction /\ Rollback(r, outcome)
  BY <1>1, RollbackPreservesIInv
<1>2. CASE /\ \/ pc[r] = "product" /\ Go(r, "locations")
              \/ pc[r] = "locations" /\ Go(r, "aggregate")
           /\ UNCHANGED <<database, locals, alerts>>
  <2>1. StoreTypeOK' /\ TotalsAreFunctions'
    BY <1>2 DEF IInv, StoreTypeOK, TotalsAreFunctions, InTransaction, Go, database, locals
  <2>2. /\ pc'[r] \in {"locations", "aggregate"}
        /\ \A s \in Requests \ {r} : pc'[s] = pc[s]
    BY <1>2 DEF IInv, StoreTypeOK, Go
  <2>. QED
    BY <1>2, <2>1, <2>2, FramePreservesIInv
    DEF TookSource, PutDestination, RightBranch, database, locals
<1>. QED
  BY <1>1, <1>2 DEF FindProductAndWarehouse, FindMovementLocations, Settled, InTransaction

\* The total is read without a lock, and what it is does not matter here: the
\* branch is chosen by the type and the locations of the request.
LEMMA ReadPreviousStockPreservesIInv ==
    ASSUME IInv, NEW r \in Requests, ReadPreviousStock(r) PROVE IInv'
<1> USE DEF ReadPreviousStock
<1>1. CASE pc[r] \in InTransaction /\ Rollback(r, "rejected")
  BY <1>1, RollbackPreservesIInv DEF Settled
<1>2. CASE MayProceed(body[r], Total(body[r].product)) /\ Go(r, FirstWrite(body[r]))
  <2>1. body[r] \in Movements /\ HasItsLocations(body[r])
    BY <1>2 DEF IInv, StoreTypeOK, MayProceed
  <2>2. /\ FirstWrite(body[r]) \in {"source", "current", "destination"}
        /\ FirstWrite(body[r]) = "source" <=> Takes(body[r])
        /\ FirstWrite(body[r]) = "current" => body[r].type = "ADJUSTMENT"
        /\ FirstWrite(body[r]) = "destination" => Puts(body[r])
    BY <2>1 DEF FirstWrite, Movements, Types, Takes, Puts
  <2>3. /\ pc[r] = "aggregate" /\ pc' = [pc EXCEPT ![r] = FirstWrite(body[r])]
        /\ UNCHANGED <<database, body>>
        /\ newStock' = [newStock EXCEPT ![r] = NewStockOf(body[r], Total(body[r].product))]
        /\ previousStock' = [previousStock EXCEPT ![r] = Total(body[r].product)]
    BY <1>2 DEF Go
  <2>4. StoreTypeOK'
    BY <2>2, <2>3 DEF IInv, StoreTypeOK, InTransaction, database
  <2>5. TotalsAreFunctions'
    BY <2>3 DEF IInv, TotalsAreFunctions
  <2>6. /\ pc'[r] = FirstWrite(body[r])
        /\ \A s \in Requests \ {r} :
              /\ pc'[s] = pc[s]
              /\ previousStock'[s] = previousStock[s] /\ newStock'[s] = newStock[s]
    BY <2>3 DEF IInv, StoreTypeOK, TotalsAreFunctions
  <2>7. /\ TookSource(r)' <=> TookSource(r)
        /\ PutDestination(r)' <=> PutDestination(r)
        /\ ~TookSource(r) /\ ~PutDestination(r)
    BY <2>1, <2>2, <2>3, <2>6 DEF TookSource, PutDestination
  <2>8. RightBranch(r)'
    BY <2>1, <2>2, <2>3, <2>6 DEF RightBranch
  <2>. QED
    BY <2>3, <2>4, <2>5, <2>6, <2>7, <2>8, FramePreservesIInv DEF database
<1>. QED  BY <1>1, <1>2 DEF InTransaction

LEMMA ReadCurrentQuantityPreservesIInv ==
    ASSUME IInv, NEW r \in Requests, ReadCurrentQuantity(r) PROVE IInv'
<1> USE DEF ReadCurrentQuantity, Go
<1>1. StoreTypeOK' /\ TotalsAreFunctions'
  BY DEF IInv, StoreTypeOK, TotalsAreFunctions, InTransaction, database
<1>2. /\ pc[r] = "current" /\ pc'[r] = "destination"
      /\ \A s \in Requests \ {r} : pc'[s] = pc[s] /\ newStock'[s] = newStock[s]
  BY DEF IInv, StoreTypeOK, TotalsAreFunctions
<1>3. body[r].type = "ADJUSTMENT" /\ HasItsLocations(body[r])
  BY <1>2 DEF IInv, LocksCoverWrites, BranchMatchesType, RightBranch
<1>. QED
  BY <1>1, <1>2, <1>3, FramePreservesIInv
  DEF TookSource, PutDestination, RightBranch, Takes, Puts, database

LEMMA RecordMovementPreservesIInv ==
    ASSUME IInv, NEW r \in Requests, RecordMovement(r) PROVE IInv'
<1> USE DEF RecordMovement
<1>1. CASE pc[r] \in InTransaction /\ Rollback(r, "failed")
  BY <1>1, RollbackPreservesIInv DEF Settled
<1>2. CASE /\ pc[r] = "record" /\ RecordFits(r) /\ Go(r, "commit")
           /\ UNCHANGED <<database, locals, alerts>>
  <2>1. StoreTypeOK' /\ TotalsAreFunctions'
    BY <1>2 DEF IInv, StoreTypeOK, TotalsAreFunctions, InTransaction, Go, database, locals
  <2>2. pc'[r] = "commit" /\ \A s \in Requests \ {r} : pc'[s] = pc[s]
    BY <1>2 DEF IInv, StoreTypeOK, Go
  <2>3. RightBranch(r)'
    BY <1>2, <2>2
    DEF IInv, LocksCoverWrites, BranchMatchesType, RightBranch, RecordFits, Int4, locals
  <2>. QED
    BY <1>2, <2>1, <2>2, <2>3, FramePreservesIInv
    DEF TookSource, PutDestination, database, locals
<1>. QED  BY <1>1, <1>2 DEF InTransaction

\* After the commit a request only reads and emits.
LEMMA AfterCommitPreservesIInv ==
    ASSUME IInv, NEW r \in Requests,
           RecheckStock(r) \/ EmitLowStock(r) \/ LoseAnswer(r)
    PROVE  IInv'
<1>1. /\ pc[r] \in AfterCommit
      /\ \E to \in {"emit", "done", "lost"} : pc' = [pc EXCEPT ![r] = to]
      /\ UNCHANGED <<database, body, previousStock, newStock>>
  BY DEF RecheckStock, EmitLowStock, LoseAnswer, AfterCommit, Go, locals
<1>2. StoreTypeOK' /\ TotalsAreFunctions'
  BY <1>1
  DEF IInv, StoreTypeOK, TotalsAreFunctions, AfterCommit, Settled, database
<1>3. /\ pc'[r] \in {"emit", "done", "lost"}
      /\ \A s \in Requests \ {r} : pc'[s] = pc[s]
  BY <1>1 DEF IInv, StoreTypeOK
<1>. QED
  BY <1>1, <1>2, <1>3, FramePreservesIInv
  DEF TookSource, PutDestination, RightBranch, AfterCommit, database

\* Writing a row nobody else has locked, and moving on to a label at which the
\* writer owns that row and the ones it already owned, preserves the
\* invariant: the writer's new value is the effect of its movement on the
\* committed quantity.
LEMMA WritePreservesIInv ==
    ASSUME IInv, NEW r \in Requests, NEW k \in Keys, NEW n \in Int,
           NEW to \in {"destination", "record"},
           pc[r] \in {"source", "destination"},
           Write(r, k, n), Go(r, to),
           UNCHANGED <<active, live, rows, qty, movement, locals>>,
           LockFree(r, k),
           HoldsSource(r, k)' \/ HoldsDestination(r, k)',
           TookSource(r) => TookSource(r)' /\ SourceOf(r) # k,
           ~PutDestination(r),
           TookSource(r)' => TookSource(r) \/ SourceOf(r) = k,
           PutDestination(r)' => DestinationOf(r) = k,
           to = "destination" => Puts(body[r])
    PROVE  IInv'
<1> USE DEF Write, Go, LockFree, locals
<1>1. /\ pc'[r] = to /\ body'[r] = body[r]
      /\ \A s \in Requests \ {r} : pc'[s] = pc[s] /\ body'[s] = body[s]
      /\ holder'[k] = r /\ pending'[k] = n
      /\ \A x \in Keys \ {k} : holder'[x] = holder[x] /\ pending'[x] = pending[x]
  BY DEF IInv, StoreTypeOK
<1>2. StoreTypeOK'
  BY DEF IInv, StoreTypeOK, InTransaction
<1>3. TotalsAreFunctions' /\ StockInRange'
  BY DEF IInv, TotalsAreFunctions, StockInRange
<1>4. UnlockedIsCommitted'
  BY <1>1, NoRequestIsNone DEF IInv, LocksCoverWrites, UnlockedIsCommitted
<1>5. PendingIsEffect'
  <2>1. ASSUME NEW x \in Keys, NEW s \in Requests, holder'[x] = s, x # k
        PROVE  HoldsSource(s, x)' \/ HoldsDestination(s, x)'
    <3>1. holder[x] = s /\ (HoldsSource(s, x) \/ HoldsDestination(s, x))
      BY <1>1, <2>1 DEF IInv, LocksCoverWrites, PendingIsEffect
    <3>2. CASE s # r
      BY <1>1, <2>1, <3>1, <3>2
      DEF HoldsSource, HoldsDestination, TookSource, PutDestination,
          SourceOf, DestinationOf
    <3>3. CASE s = r
      BY <1>1, <2>1, <3>1, <3>3 DEF HoldsSource, HoldsDestination, SourceOf
    <3>. QED  BY <3>2, <3>3
  <2>. QED  BY <1>1, <2>1 DEF PendingIsEffect
<1>6. WritersHoldLocks'
  <2>1. ASSUME NEW s \in Requests, s # r, TookSource(s)
        PROVE  SourceOf(s) \in Keys /\ holder[SourceOf(s)] = s
    BY <2>1, WritersTouchRows DEF IInv, LocksCoverWrites, WritersHoldLocks, TookSource
  <2>2. ASSUME NEW s \in Requests, s # r, PutDestination(s)
        PROVE  DestinationOf(s) \in Keys /\ holder[DestinationOf(s)] = s
    BY <2>2, WritersTouchRows DEF IInv, LocksCoverWrites, WritersHoldLocks, PutDestination
  <2>3. TookSource(r) => SourceOf(r) \in Keys /\ holder[SourceOf(r)] = r
    BY WritersTouchRows DEF IInv, LocksCoverWrites, WritersHoldLocks, TookSource
  <2>4. \A s \in Requests \ {r} :
          /\ TookSource(s)' <=> TookSource(s)
          /\ PutDestination(s)' <=> PutDestination(s)
          /\ SourceOf(s)' = SourceOf(s) /\ DestinationOf(s)' = DestinationOf(s)
    BY <1>1 DEF TookSource, PutDestination, SourceOf, DestinationOf
  <2>5. /\ TookSource(r)' => holder'[SourceOf(r)] = r
        /\ PutDestination(r)' => holder'[DestinationOf(r)] = r
        /\ SourceOf(r)' = SourceOf(r) /\ DestinationOf(r)' = DestinationOf(r)
    BY <1>1, <2>3 DEF SourceOf, DestinationOf
  <2>6. ASSUME NEW s \in Requests \ {r}
        PROVE  /\ TookSource(s)' => holder'[SourceOf(s)] = s
               /\ PutDestination(s)' => holder'[DestinationOf(s)] = s
    BY <1>1, <2>1, <2>2, <2>4, <2>6, NoRequestIsNone
  <2>. QED  BY <2>4, <2>5, <2>6 DEF WritersHoldLocks
<1>7. BranchMatchesType'
  BY <1>1 DEF IInv, LocksCoverWrites, BranchMatchesType, RightBranch
<1>. QED
  BY <1>2, <1>3, <1>4, <1>5, <1>6, <1>7 DEF IInv, LocksCoverWrites

LEMMA DecrementSourceStockPreservesIInv ==
    ASSUME IInv, NEW r \in Requests, DecrementSourceStock(r) PROVE IInv'
<1> USE DEF DecrementSourceStock
<1>1. CASE pc[r] \in InTransaction /\ Rollback(r, "rejected")
  BY <1>1, RollbackPreservesIInv DEF Settled
<1>2. CASE SourceHasEnough(r) /\ LockFree(r, SourceOf(r))
           /\ Write(r, SourceOf(r), AfterTake(body[r], qty[SourceOf(r)]))
           /\ Go(r, IF body[r].type = "TRANSFER" THEN "destination" ELSE "record")
           /\ UNCHANGED <<active, live, rows, qty, movement, locals, alerts>>
  <2>0. /\ pc[r] = "source" /\ Takes(body[r]) /\ body[r] \in Movements
        /\ SourceOf(r) \in Keys
    BY WritersTouchRows DEF IInv, LocksCoverWrites, BranchMatchesType, RightBranch
  <2>. PICK k \in Keys, n \in Int, to \in {"destination", "record"} :
          /\ k = SourceOf(r) /\ n = AfterTake(body[r], qty[k])
          /\ to = IF body[r].type = "TRANSFER" THEN "destination" ELSE "record"
    BY <2>0 DEF IInv, StoreTypeOK, AfterTake, Movements
  <2>1. pc[r] = "source" /\ Takes(body[r]) /\ body[r] \in Movements
    BY <2>0
  <2>2. /\ n \in Int /\ to \in {"destination", "record"}
        /\ to = "destination" <=> Puts(body[r])
    BY <2>1 DEF IInv, StoreTypeOK, AfterTake, Movements, Takes, Puts
  <2>3. pc'[r] = to /\ pending'[k] = n /\ body' = body /\ qty' = qty /\ rows' = rows
    BY <1>2, <2>1 DEF IInv, StoreTypeOK, Go, Write, locals
  <2>4. TookSource(r)' /\ ~PutDestination(r)' /\ ~TookSource(r) /\ ~PutDestination(r)
    BY <2>1, <2>2, <2>3 DEF TookSource, PutDestination
  <2>5. HoldsSource(r, k)'
    BY <1>2, <2>3, <2>4 DEF HoldsSource, SourceHasEnough, SourceOf
  <2>. QED
    BY <1>2, <2>1, <2>2, <2>4, <2>5, WritePreservesIInv
<1>. QED  BY <1>1, <1>2 DEF InTransaction

LEMMA UpsertDestinationPreservesIInv ==
    ASSUME IInv, NEW r \in Requests, UpsertDestination(r) PROVE IInv'
<1> USE DEF UpsertDestination
<1>1. CASE pc[r] \in InTransaction /\ Rollback(r, "failed")
  BY <1>1, RollbackPreservesIInv DEF Settled
<1>2. CASE UpsertFits(r) /\ Write(r, DestinationOf(r), Upserted(r)) /\ Go(r, "record")
           /\ UNCHANGED <<active, live, rows, qty, movement, locals, alerts>>
  <2>0. /\ pc[r] = "destination" /\ Puts(body[r]) /\ body[r] \in Movements
        /\ DestinationOf(r) \in Keys
        /\ Takes(body[r]) => SourceOf(r) # DestinationOf(r)
    BY WritersTouchRows DEF IInv, LocksCoverWrites, BranchMatchesType, RightBranch
  <2>. PICK k \in Keys, n \in {Upserted(r)} : k = DestinationOf(r)
    BY <2>0
  <2>1. /\ pc[r] = "destination" /\ Puts(body[r]) /\ body[r] \in Movements
        /\ Takes(body[r]) => SourceOf(r) # k
        /\ LockFree(r, k)
    BY <2>0
  <2>2. n \in Int /\ n <= MaxQty
    BY <1>2, <2>1 DEF IInv, StoreTypeOK, Upserted, AfterPut, Movements, UpsertFits
  <2>3. pc'[r] = "record" /\ pending'[k] = n /\ body' = body /\ qty' = qty
    BY <1>2, <2>1 DEF IInv, StoreTypeOK, Go, Write, locals
  <2>4. /\ TookSource(r)' <=> TookSource(r)
        /\ TookSource(r) => SourceOf(r) # k
        /\ PutDestination(r)' /\ ~PutDestination(r)
    BY <2>1, <2>3 DEF TookSource, PutDestination
  <2>5. HoldsDestination(r, k)'
    BY <1>2, <2>2, <2>3, <2>4 DEF HoldsDestination, Upserted, DestinationOf
  <2>. QED
    BY <1>2, <2>1, <2>2, <2>4, <2>5, WritePreservesIInv
<1>. QED  BY <1>1, <1>2 DEF InTransaction

\* COMMIT publishes the rows of its request and no others: every other
\* transaction's rows keep the committed quantity they were computed from.
LEMMA CommitPreservesIInv ==
    ASSUME IInv, NEW r \in Requests, Commit(r) PROVE IInv'
<1> USE DEF Commit, Go
<1>1. /\ pc[r] = "commit" /\ pc'[r] = "recheck" /\ body' = body
      /\ \A s \in Requests \ {r} : pc'[s] = pc[s]
  BY DEF IInv, StoreTypeOK, locals
<1>2. body[r] \in Movements /\ previousStock[r] \in Int4 /\ newStock[r] \in Int4
  BY <1>1, WritersTouchRows DEF IInv, LocksCoverWrites, BranchMatchesType, RightBranch
<1>3. StoreTypeOK'
  <2>1. movement' \in [Requests -> MovementRows \cup {NoMovement}]
    BY <1>2 DEF IInv, StoreTypeOK, MovementRows, LocationOrNull, Movements
  <2>. QED
    BY <1>1, <1>2, <2>1 DEF IInv, StoreTypeOK, AfterCommit, locals
<1>4. TotalsAreFunctions'
  BY DEF IInv, TotalsAreFunctions, locals
<1>5. ASSUME NEW k \in Keys, holder[k] = r PROVE pending[k] \in 0..MaxQty
  <2>1. qty[k] \in 0..MaxQty /\ pending[k] \in Int
    BY DEF IInv, StoreTypeOK, StockInRange
  <2>2. body[r].quantity \in 1..MaxQty
    BY <1>2 DEF Movements
  <2>3. HoldsSource(r, k) \/ HoldsDestination(r, k)
    BY <1>5 DEF IInv, LocksCoverWrites, PendingIsEffect
  <2>4. CASE HoldsSource(r, k)
    BY <2>1, <2>2, <2>4, MaxQtyAssumption DEF HoldsSource, AfterTake
  <2>5. CASE HoldsDestination(r, k)
    BY <2>1, <2>2, <2>5, MaxQtyAssumption DEF HoldsDestination, AfterPut
  <2>. QED  BY <2>3, <2>4, <2>5
<1>6. StockInRange'
  BY <1>5 DEF IInv, StockInRange
<1>7. UnlockedIsCommitted'
  BY NoRequestIsNone DEF IInv, LocksCoverWrites, UnlockedIsCommitted
<1>8. \A s \in Requests \ {r} :
        /\ TookSource(s)' <=> TookSource(s)
        /\ PutDestination(s)' <=> PutDestination(s)
        /\ SourceOf(s)' = SourceOf(s) /\ DestinationOf(s)' = DestinationOf(s)
  BY <1>1 DEF TookSource, PutDestination, SourceOf, DestinationOf
<1>9. ~TookSource(r)' /\ ~PutDestination(r)'
  BY <1>1 DEF TookSource, PutDestination
<1>10. PendingIsEffect'
  <2>1. ASSUME NEW k \in Keys, NEW s \in Requests, holder'[k] = s
        PROVE  /\ s # r /\ holder[k] = s /\ pending'[k] = pending[k]
               /\ qty'[k] = qty[k] /\ (k \in rows => k \in rows')
    BY <2>1, NoRequestIsNone
  <2>. QED
    BY <1>1, <1>8, <2>1
    DEF IInv, LocksCoverWrites, PendingIsEffect, HoldsSource, HoldsDestination
<1>11. WritersHoldLocks'
  <2>1. ASSUME NEW s \in Requests, s # r, TookSource(s)
        PROVE  SourceOf(s) \in Keys /\ holder[SourceOf(s)] = s
    BY <2>1, WritersTouchRows DEF IInv, LocksCoverWrites, WritersHoldLocks, TookSource
  <2>2. ASSUME NEW s \in Requests, s # r, PutDestination(s)
        PROVE  DestinationOf(s) \in Keys /\ holder[DestinationOf(s)] = s
    BY <2>2, WritersTouchRows DEF IInv, LocksCoverWrites, WritersHoldLocks, PutDestination
  <2>. QED  BY <1>8, <1>9, <2>1, <2>2 DEF WritersHoldLocks
<1>12. BranchMatchesType'
  BY <1>1 DEF IInv, LocksCoverWrites, BranchMatchesType, RightBranch, locals
<1>. QED
  BY <1>3, <1>4, <1>6, <1>7, <1>10, <1>11, <1>12 DEF IInv, LocksCoverWrites

\* Deleting a location sets it to NULL in the movements that name it; removing
\* a product hides it.  Neither touches a stock entry.
LEMMA BesidesPreserveIInv ==
    ASSUME IInv,
           (\E l \in Locations : DeleteLocation(l)) \/ (\E p \in Products : RemoveProduct(p))
    PROVE  IInv'
<1>1. UNCHANGED <<rows, qty, holder, pending, pc, body, previousStock, newStock>>
  BY DEF DeleteLocation, RemoveProduct, locals
<1>2. StoreTypeOK'
  <2>1. CASE \E l \in Locations : DeleteLocation(l)
    <3>0. live' \subseteq Locations
      BY <2>1 DEF DeleteLocation, IInv, StoreTypeOK
    <3>1. ASSUME NEW r \in Requests, movement[r] # NoMovement
          PROVE  [movement[r] EXCEPT !.from = Detached(@), !.to = Detached(@)] \in MovementRows
      <4>1. movement[r] \in MovementRows
        BY <3>1 DEF IInv, StoreTypeOK
      <4>2. \A l \in LocationOrNull : Detached(l) \in LocationOrNull
        BY <3>0 DEF LocationOrNull, Detached
      <4>. QED  BY <4>1, <4>2 DEF MovementRows
    <3>2. movement' \in [Requests -> MovementRows \cup {NoMovement}]
      BY <2>1, <3>1 DEF DeleteLocation
    <3>. QED  BY <1>1, <2>1, <3>2 DEF DeleteLocation, IInv, StoreTypeOK
  <2>2. CASE \E p \in Products : RemoveProduct(p)
    BY <1>1, <2>2 DEF RemoveProduct, IInv, StoreTypeOK
  <2>. QED  BY <2>1, <2>2
<1>3. TotalsAreFunctions' /\ StockInRange'
  BY <1>1 DEF IInv, TotalsAreFunctions, StockInRange
<1>4. LocksCoverWrites'
  BY <1>1
  DEF IInv, LocksCoverWrites, UnlockedIsCommitted, PendingIsEffect,
      WritersHoldLocks, BranchMatchesType, RightBranch, HoldsSource,
      HoldsDestination, TookSource, PutDestination, SourceOf, DestinationOf
<1>. QED  BY <1>2, <1>3, <1>4 DEF IInv

-----------------------------------------------------------------------------
\* Every step preserves the invariant.
LEMMA NextPreservesIInv == IInv /\ [Next]_vars => IInv'
<1> SUFFICES ASSUME IInv, [Next]_vars PROVE IInv'
  OBVIOUS
<1>1. ASSUME NEW r \in Requests, Abort(r) \/ BreakDeadlock(r) PROVE IInv'
  <2>1. BreakDeadlock(r) => pc[r] \in InTransaction
    BY DEF BreakDeadlock, OnCycle, WaitsFor, InTransaction
  <2>. QED
    BY <1>1, <2>1, RollbackPreservesIInv DEF Abort, BreakDeadlock, Settled
<1>2. ASSUME NEW r \in Requests, Step(r) PROVE IInv'
  BY <1>2, LookupsPreserveIInv, ReadPreviousStockPreservesIInv,
     DecrementSourceStockPreservesIInv, ReadCurrentQuantityPreservesIInv,
     UpsertDestinationPreservesIInv, RecordMovementPreservesIInv,
     CommitPreservesIInv, AfterCommitPreservesIInv
  DEF Step
<1>3. CASE UNCHANGED vars
  BY <1>3
  DEF vars, database, locals, IInv, StoreTypeOK, TotalsAreFunctions, StockInRange,
      LocksCoverWrites, UnlockedIsCommitted, PendingIsEffect,
      WritersHoldLocks, BranchMatchesType, RightBranch, HoldsSource,
      HoldsDestination, TookSource, PutDestination, SourceOf, DestinationOf
<1>. QED
  BY <1>1, <1>2, <1>3, SubmitPreservesIInv, AfterCommitPreservesIInv, BesidesPreserveIInv
  DEF Next, Quiet

THEOREM Invariance == Spec => []IInv
  BY InitEstablishesIInv, NextPreservesIInv, PTL DEF Spec

\* No stock entry is ever negative or beyond its column, for any number of
\* concurrent movements of any type: decrementSourceStock's promise.
THEOREM NoNegativeStock == Spec => []StockInRange
<1>1. IInv => StockInRange
  BY DEF IInv
<1>. QED  BY <1>1, Invariance, PTL

\* What a transaction has written and not committed is the committed quantity
\* changed by its own movement, and nobody else's write is in between.
THEOREM NoLostUpdate == Spec => []LocksCoverWrites
<1>1. IInv => LocksCoverWrites
  BY DEF IInv
<1>. QED  BY <1>1, Invariance, PTL

-----------------------------------------------------------------------------
(* createMovement implements StockLedger. *)

\* What a request asks for is one of the bodies that are submitted.
BodiesSubmitted == \A r \in Requests : pc[r] # "idle" => body[r] \in Bodies

LEMMA BodiesAreSubmitted == Spec => []BodiesSubmitted
<1>1. Init => BodiesSubmitted
  BY DEF Init, BodiesSubmitted
<1>2. IInv /\ BodiesSubmitted /\ [Next]_vars => BodiesSubmitted'
  <2> SUFFICES ASSUME IInv, BodiesSubmitted, [Next]_vars PROVE BodiesSubmitted'
    OBVIOUS
  <2> USE DEF BodiesSubmitted
  <2>1. CASE \E r \in Requests : Submit(r)
    BY <2>1 DEF IInv, StoreTypeOK, Submit, Go
  <2>2. CASE body' = body /\ \A s \in Requests : pc[s] = "idle" => pc'[s] = "idle"
    BY <2>2
  <2>3. ASSUME NEW r \in Requests,
               Step(r) \/ Abort(r) \/ LoseAnswer(r) \/ BreakDeadlock(r)
        PROVE  body' = body /\ \A s \in Requests : pc[s] = "idle" => pc'[s] = "idle"
    <3>1. pc[r] # "idle" /\ \E to : pc' = [pc EXCEPT ![r] = to]
      BY <2>3
      DEF Step, FindProductAndWarehouse, FindMovementLocations, ReadPreviousStock,
          DecrementSourceStock, ReadCurrentQuantity, UpsertDestination,
          RecordMovement, Commit, RecheckStock, EmitLowStock, Abort, LoseAnswer,
          BreakDeadlock, OnCycle, WaitsFor, Rollback, Go, InTransaction, AfterCommit
    <3>2. body' = body
      BY <2>3
      DEF Step, FindProductAndWarehouse, FindMovementLocations, ReadPreviousStock,
          DecrementSourceStock, ReadCurrentQuantity, UpsertDestination,
          RecordMovement, Commit, RecheckStock, EmitLowStock, Abort, LoseAnswer,
          BreakDeadlock, Rollback, locals
    <3>. QED  BY <3>1, <3>2 DEF IInv, StoreTypeOK
  <2>4. CASE UNCHANGED <<pc, body>>
    BY <2>4
  <2>5. (\E l \in Locations : DeleteLocation(l)) \/ (\E p \in Products : RemoveProduct(p))
            \/ UNCHANGED vars => UNCHANGED <<pc, body>>
    BY DEF DeleteLocation, RemoveProduct, vars, locals
  <2>. QED  BY <2>1, <2>2, <2>3, <2>4, <2>5 DEF Next, Quiet
<1>. QED  BY <1>1, <1>2, Invariance, PTL DEF Spec

\* At its COMMIT the rows a transaction publishes are the effect of its whole
\* movement on the stock committed at that moment.
LEMMA CommitIsTheEffect ==
    ASSUME IInv, NEW r \in Requests, Commit(r)
    PROVE  /\ body[r] \in Movements /\ HasItsLocations(body[r])
           /\ Takes(body[r]) => qty[SourceOf(r)] >= body[r].quantity
           /\ qty' = Effect(qty, body[r])
<1> DEFINE m == body[r]
<1>1. pc[r] = "commit" /\ m \in Movements /\ HasItsLocations(m)
  BY WritersTouchRows
  DEF Commit, IInv, LocksCoverWrites, BranchMatchesType, RightBranch
<1>2. /\ Takes(m) => Source(m) \in Keys /\ holder[Source(m)] = r
      /\ Puts(m) => Destination(m) \in Keys /\ holder[Destination(m)] = r
      /\ Takes(m) /\ Puts(m) => Source(m) # Destination(m)
  BY <1>1, WritersTouchRows
  DEF IInv, LocksCoverWrites, WritersHoldLocks, TookSource, PutDestination,
      SourceOf, DestinationOf
<1>3. \A k \in Keys : holder[k] = r =>
        \/ Takes(m) /\ k = Source(m) /\ qty[k] >= m.quantity /\ pending[k] = AfterTake(m, qty[k])
        \/ Puts(m) /\ k = Destination(m) /\ pending[k] = AfterPut(m, qty[k])
  BY DEF IInv, LocksCoverWrites, PendingIsEffect, HoldsSource, HoldsDestination,
         TookSource, PutDestination, SourceOf, DestinationOf
<1>4. Takes(m) => qty[SourceOf(r)] >= m.quantity
  BY <1>2, <1>3 DEF SourceOf
<1>5. qty' = Effect(qty, m)
  <2>1. qty' = [k \in Keys |-> IF holder[k] = r THEN pending[k] ELSE qty[k]]
    BY DEF Commit
  <2>2. ASSUME NEW k \in Keys
        PROVE  (IF holder[k] = r THEN pending[k] ELSE qty[k]) = Effect(qty, m)[k]
    BY <1>2, <1>3 DEF Effect
  <2>3. Effect(qty, m) = [k \in Keys |-> Effect(qty, m)[k]]
    BY DEF Effect
  <2>. HIDE DEF m
  <2>. QED  BY <2>1, <2>2, <2>3
<1>. QED  BY <1>1, <1>4, <1>5

LEMMA CommitAppliesTheMovement ==
    ASSUME IInv, NEW r \in Requests, Commit(r)
    PROVE  Ledger!Apply(r, body[r])
<1> DEFINE m == body[r]
<1>1. /\ HasItsLocations(m) /\ qty' = Effect(qty, m)
      /\ Takes(m) => qty[Source(m)] >= m.quantity
  BY CommitIsTheEffect DEF SourceOf
<1>2. qty' \in [Keys -> 0..MaxQty]
  <2>1. StockInRange'
    BY CommitPreservesIInv DEF IInv
  <2>. QED  BY <2>1 DEF StockInRange, Commit
<1>3. /\ Made(r) = NoMovement
      /\ [s \in Requests |-> Made(s)]' = [[s \in Requests |-> Made(s)] EXCEPT ![r] = m]
  BY DEF Commit, Go, locals, Made, Committed, IInv, StoreTypeOK
<1>. QED
  BY <1>1, <1>2, <1>3
  DEF Ledger!Apply, Ledger!HasItsLocations, HasItsLocations, Ledger!Takes, Takes,
      Ledger!Puts, Puts, Ledger!Source, Source, Ledger!Keys, Keys, Ledger!Effect, Effect,
      Ledger!Destination, Destination, Ledger!AfterTake, AfterTake, Ledger!AfterPut, AfterPut

\* Every other step leaves the ledger as it is.
LedgerUnchanged == qty' = qty /\ \A s \in Requests : Made(s)' = Made(s)

LEMMA RollbackLeavesNoTrace ==
    ASSUME IInv, NEW r \in Requests, pc[r] \in InTransaction,
           Rollback(r, "rejected") \/ Rollback(r, "failed")
    PROVE  LedgerUnchanged
<1>1. /\ qty' = qty /\ body' = body
      /\ \E to \in {"rejected", "failed"} : pc' = [pc EXCEPT ![r] = to]
  BY DEF Rollback, Go, locals
<1>. QED
  BY <1>1 DEF LedgerUnchanged, Made, Committed, InTransaction, IInv, StoreTypeOK

LEMMA OtherStepsLeaveTheLedger ==
    ASSUME IInv, NEW r \in Requests,
           Submit(r) \/ (Step(r) /\ ~Commit(r)) \/ Abort(r) \/ LoseAnswer(r) \/ BreakDeadlock(r)
    PROVE  LedgerUnchanged
<1>1. CASE pc[r] \in InTransaction /\ (Rollback(r, "rejected") \/ Rollback(r, "failed"))
  BY <1>1, RollbackLeavesNoTrace
<1>2. CASE Submit(r)
  BY <1>2
  DEF Submit, Go, database, LedgerUnchanged, Made, Committed, IInv, StoreTypeOK
<1>3. CASE RecheckStock(r) \/ EmitLowStock(r) \/ LoseAnswer(r)
  <2>1. /\ pc[r] \in Committed /\ qty' = qty /\ body' = body
        /\ \E to \in Committed : pc' = [pc EXCEPT ![r] = to]
    BY <1>3
    DEF RecheckStock, EmitLowStock, LoseAnswer, AfterCommit, Committed, Go, database, locals
  <2>. QED  BY <2>1 DEF LedgerUnchanged, Made, IInv, StoreTypeOK
<1>4. CASE /\ pc[r] \in InTransaction /\ qty' = qty /\ body' = body
           /\ \E to \in InTransaction : pc' = [pc EXCEPT ![r] = to]
  BY <1>4
  DEF LedgerUnchanged, Made, Committed, InTransaction, IInv, StoreTypeOK
<1>5. ASSUME Step(r), ~Commit(r), ~RecheckStock(r), ~EmitLowStock(r)
      PROVE  \/ pc[r] \in InTransaction /\ (Rollback(r, "rejected") \/ Rollback(r, "failed"))
             \/ /\ pc[r] \in InTransaction /\ qty' = qty /\ body' = body
                /\ \E to \in InTransaction : pc' = [pc EXCEPT ![r] = to]
  <2> USE DEF InTransaction, Go, database, locals
  <2>1. CASE FindProductAndWarehouse(r) \/ FindMovementLocations(r)
    BY <2>1 DEF FindProductAndWarehouse, FindMovementLocations
  <2>2. CASE ReadPreviousStock(r)
    BY <2>2 DEF ReadPreviousStock, FirstWrite
  <2>3. CASE DecrementSourceStock(r)
    BY <2>3 DEF DecrementSourceStock
  <2>4. CASE ReadCurrentQuantity(r) \/ UpsertDestination(r) \/ RecordMovement(r)
    BY <2>4 DEF ReadCurrentQuantity, UpsertDestination, RecordMovement
  <2>. QED  BY <1>5, <2>1, <2>2, <2>3, <2>4 DEF Step
<1>6. Abort(r) \/ BreakDeadlock(r)
        => pc[r] \in InTransaction /\ Rollback(r, "failed")
  BY DEF Abort, BreakDeadlock, OnCycle, WaitsFor, InTransaction
<1>. QED  BY <1>1, <1>2, <1>3, <1>4, <1>5, <1>6

\* The committed stock changes only by the whole effect of one movement, at
\* its COMMIT and with a source that holds enough at that moment; a rejected,
\* failed or aborted request leaves no trace.
THEOREM Refinement == Spec => ImplementsLedger
<1>1. Init => Ledger!Init
  <2> SUFFICES ASSUME Init PROVE Ledger!Init
    OBVIOUS
  <2>1. qty \in [Keys -> 0..MaxQty]
    BY InitEstablishesIInv DEF IInv, StoreTypeOK, StockInRange
  <2>2. \A r \in Requests : Made(r) = NoMovement
    BY DEF Init, Made, Committed
  <2>. QED  BY <2>1, <2>2 DEF Ledger!Init, Ledger!Keys, Keys
<1>2. IInv /\ BodiesSubmitted /\ [Next]_vars => [Ledger!Next]_(Ledger!vars)
  <2> SUFFICES ASSUME IInv, BodiesSubmitted, [Next]_vars
               PROVE  [Ledger!Next]_(Ledger!vars)
    OBVIOUS
  <2>1. ASSUME NEW r \in Requests, Commit(r) PROVE Ledger!Next
    <3>1. body[r] \in Bodies
      BY <2>1 DEF BodiesSubmitted, Commit
    <3>. QED  BY <2>1, <3>1, CommitAppliesTheMovement DEF Ledger!Next
  <2>2. CASE LedgerUnchanged
    BY <2>2 DEF LedgerUnchanged, Ledger!vars
  <2>3. (\E l \in Locations : DeleteLocation(l)) \/ (\E p \in Products : RemoveProduct(p))
            \/ UNCHANGED vars => LedgerUnchanged
    BY DEF DeleteLocation, RemoveProduct, vars, database, locals, LedgerUnchanged, Made
  <2>. QED
    BY <2>1, <2>2, <2>3, OtherStepsLeaveTheLedger DEF Next, Quiet
<1>. QED
  BY <1>1, <1>2, Invariance, BodiesAreSubmitted, PTL
  DEF Spec, ImplementsLedger, Ledger!Spec

-----------------------------------------------------------------------------
(* Where the stock and the history may be: no movement crosses tenants, and *)
(* no location is deleted under an entry or under a movement that used it.  *)

\* How far a request has come.  What a look-up has found is not looked up
\* again.
PastLocations ==
    {"aggregate", "source", "current", "destination", "record", "commit"} \cup Committed
PastProduct == {"locations"} \cup PastLocations

\* The checks still hold of every request that has made them: the companies
\* of products and warehouses and the warehouse of a location never change.
ChecksHold ==
    \A r \in Requests :
        /\ pc[r] \in PastProduct =>
               /\ ProductCompany[body[r].product] = Caller[r]
               /\ WarehouseCompany[body[r].warehouse] = Caller[r]
        /\ pc[r] \in PastLocations =>
               \A l \in {body[r].from, body[r].to} \ {NoLocation} :
                   LocationWarehouse[l] = body[r].warehouse
        /\ pc[r] \in Committed => HasItsLocations(body[r])

\* A recorded movement is that of a committed request, whose rows are there
\* for good.
MovementsHaveRows ==
    \A r \in Requests : movement[r] # NoMovement =>
        /\ pc[r] \in Committed
        /\ Takes(body[r]) => SourceOf(r) \in rows
        /\ Puts(body[r]) => DestinationOf(r) \in rows

RowsInTenant == \A k \in rows : SameTenant(k)
AlertsInTenant == \A a \in alerts : a.company = ProductCompany[a.product]

Scoped == ChecksHold /\ MovementsHaveRows /\ RowsInTenant /\ AlertsInTenant

SInv == IInv /\ Scoped /\ HistoryKeepsLocation

-----------------------------------------------------------------------------
\* The rows a request writes are of one tenant: its own.
LEMMA WrittenRowsInTenant ==
    ASSUME IInv, ChecksHold, NEW r \in Requests,
           pc[r] \in {"source", "current", "destination", "record", "commit"} \cup Committed
    PROVE  /\ body[r] \in Movements
           /\ Takes(body[r]) => /\ SourceOf(r) \in Keys /\ SameTenant(SourceOf(r))
                                /\ LocationCompany(body[r].from) = Caller[r]
           /\ Puts(body[r]) => /\ DestinationOf(r) \in Keys /\ SameTenant(DestinationOf(r))
                               /\ LocationCompany(body[r].to) = Caller[r]
<1>1. body[r] \in Movements /\ HasItsLocations(body[r])
  BY DEF IInv, StoreTypeOK, LocksCoverWrites, BranchMatchesType, RightBranch, ChecksHold, Committed
<1>2. /\ ProductCompany[body[r].product] = Caller[r]
      /\ WarehouseCompany[body[r].warehouse] = Caller[r]
      /\ \A l \in {body[r].from, body[r].to} \ {NoLocation} :
             LocationWarehouse[l] = body[r].warehouse
  BY DEF ChecksHold, PastProduct, PastLocations
<1>3. Takes(body[r]) => body[r].from # NoLocation
  BY <1>1 DEF HasItsLocations
<1>4. Puts(body[r]) => body[r].to # NoLocation
  BY <1>1 DEF HasItsLocations
<1>. QED
  BY <1>1, <1>2, <1>3, <1>4, TouchedRows
  DEF SourceOf, DestinationOf, Source, Destination, SameTenant, LocationCompany

LEMMA InitEstablishesSInv == Init => SInv
<1> SUFFICES ASSUME Init PROVE SInv
  OBVIOUS
<1>. PICK s \in InitialStocks : rows = DOMAIN s
  BY DEF Init
<1>1. IInv
  BY InitEstablishesIInv
<1>2. rows \subseteq Keys /\ RowsInTenant
  BY InitialStocksAreStocks DEF RowsInTenant
<1>3. ChecksHold /\ MovementsHaveRows /\ AlertsInTenant
  BY DEF Init, ChecksHold, MovementsHaveRows, AlertsInTenant, PastProduct, PastLocations, Committed
<1>4. HistoryKeepsLocation
  BY <1>2 DEF Init, HistoryKeepsLocation, Keys
<1>. QED  BY <1>1, <1>2, <1>3, <1>4 DEF SInv, Scoped

-----------------------------------------------------------------------------
\* What a step does to the request that makes it.
Turn(r) ==
    /\ pc' = [pc EXCEPT ![r] = pc'[r]]
    /\ \A s \in Requests \ {r} : body'[s] = body[s]
    /\ \/ pc'[r] \in {"product", "rejected", "failed"}
       \/ /\ body'[r] = body[r]
          /\ \/ pc'[r] = "locations" /\ Visible(r)
             \/ pc[r] = "locations" /\ pc'[r] = "aggregate" /\ LocationsFound(r)
             \/ /\ pc[r] \in PastLocations /\ pc'[r] \in PastLocations
                /\ pc'[r] \in Committed => pc[r] \in {"commit"} \cup Committed

LEMMA RollbackTurns ==
    ASSUME IInv, NEW r \in Requests, Rollback(r, "rejected") \/ Rollback(r, "failed")
    PROVE  Turn(r)
  BY DEF Rollback, Go, Turn, IInv, StoreTypeOK, locals

LEMMA Turns ==
    ASSUME IInv, NEW r \in Requests,
           Submit(r) \/ Step(r) \/ Abort(r) \/ LoseAnswer(r) \/ BreakDeadlock(r)
    PROVE  Turn(r)
<1> USE DEF Go, Turn, PastLocations, Committed, locals
<1>0. pc \in [Requests -> {"idle"} \cup InTransaction \cup AfterCommit \cup Settled]
  BY DEF IInv, StoreTypeOK
<1>1. CASE Submit(r)
  BY <1>0, <1>1 DEF Submit, IInv, StoreTypeOK
<1>2. CASE Rollback(r, "rejected") \/ Rollback(r, "failed")
  BY <1>2, RollbackTurns
<1>3. CASE FindProductAndWarehouse(r) \/ FindMovementLocations(r)
  BY <1>0, <1>2, <1>3 DEF FindProductAndWarehouse, FindMovementLocations
<1>4. CASE ReadPreviousStock(r)
  BY <1>0, <1>2, <1>4 DEF ReadPreviousStock, FirstWrite
<1>5. CASE DecrementSourceStock(r) \/ UpsertDestination(r)
  BY <1>0, <1>2, <1>5 DEF DecrementSourceStock, UpsertDestination
<1>6. CASE ReadCurrentQuantity(r) \/ RecordMovement(r)
  BY <1>0, <1>2, <1>6 DEF ReadCurrentQuantity, RecordMovement
<1>7. CASE Commit(r) \/ RecheckStock(r) \/ EmitLowStock(r) \/ LoseAnswer(r)
  BY <1>0, <1>7 DEF Commit, RecheckStock, EmitLowStock, LoseAnswer, AfterCommit
<1>8. CASE Abort(r) \/ BreakDeadlock(r)
  BY <1>2, <1>8 DEF Abort, BreakDeadlock
<1>. QED  BY <1>1, <1>3, <1>4, <1>5, <1>6, <1>7, <1>8 DEF Step

LEMMA TurnKeepsChecks ==
    ASSUME IInv, ChecksHold, NEW r \in Requests, Turn(r)
    PROVE  ChecksHold'
<1>0. /\ pc'[r] \in {"product", "rejected", "failed"} => pc'[r] \notin PastProduct
      /\ Committed \subseteq PastLocations /\ PastLocations \subseteq PastProduct
      /\ "locations" \in PastProduct /\ "locations" \notin PastLocations
      /\ "aggregate" \notin Committed /\ "commit" \in PastLocations
  BY DEF PastProduct, PastLocations, Committed
<1>1. \A s \in Requests \ {r} : pc'[s] = pc[s] /\ body'[s] = body[s]
  BY DEF Turn, IInv, StoreTypeOK
<1>2. CASE pc'[r] \in {"product", "rejected", "failed"}
  BY <1>0, <1>1, <1>2 DEF ChecksHold
<1>3. CASE body'[r] = body[r] /\ pc'[r] = "locations" /\ Visible(r)
  BY <1>0, <1>1, <1>3 DEF ChecksHold, Visible
<1>4. CASE body'[r] = body[r] /\ pc[r] = "locations" /\ pc'[r] = "aggregate" /\ LocationsFound(r)
  BY <1>0, <1>1, <1>4 DEF ChecksHold, LocationsFound, InWarehouse
<1>5. CASE /\ body'[r] = body[r] /\ pc[r] \in PastLocations /\ pc'[r] \in PastLocations
           /\ pc'[r] \in Committed => pc[r] \in {"commit"} \cup Committed
  <2>1. pc[r] = "commit" => HasItsLocations(body[r])
    BY DEF IInv, LocksCoverWrites, BranchMatchesType, RightBranch
  <2>. QED  BY <1>0, <1>1, <1>5, <2>1 DEF ChecksHold
<1>. QED  BY <1>2, <1>3, <1>4, <1>5 DEF Turn

-----------------------------------------------------------------------------
\* What a step that is neither a COMMIT nor a deletion does to the rows.
Frame ==
    /\ UNCHANGED <<live, rows, movement>>
    /\ \A r \in Requests : movement[r] # NoMovement => pc'[r] \in Committed /\ body'[r] = body[r]
    /\ \A k \in Keys : holder'[k] # NoRequest => holder[k] # NoRequest \/ k[2] \in live
    /\ \A a \in alerts' : a \in alerts \/ a.company = ProductCompany[a.product]

LEMMA FramePreservesScope ==
    ASSUME SInv, IInv', ChecksHold', Frame
    PROVE  SInv'
<1>1. MovementsHaveRows'
  BY DEF SInv, Scoped, MovementsHaveRows, Frame, SourceOf, DestinationOf
<1>2. RowsInTenant' /\ AlertsInTenant'
  BY DEF SInv, Scoped, RowsInTenant, AlertsInTenant, Frame
<1>3. HistoryKeepsLocation'
  BY DEF SInv, HistoryKeepsLocation, Frame
<1>. QED  BY <1>1, <1>2, <1>3 DEF SInv, Scoped

LEMMA CommitPreservesScope ==
    ASSUME SInv, IInv', ChecksHold', NEW r \in Requests, Commit(r)
    PROVE  SInv'
<1>1. /\ pc[r] = "commit" /\ pc'[r] = "recheck" /\ body' = body /\ live' = live
      /\ \A s \in Requests \ {r} : pc'[s] = pc[s] /\ movement'[s] = movement[s]
      /\ movement'[r].from = body[r].from /\ movement'[r].to = body[r].to
      /\ rows' = rows \cup {k \in Keys : holder[k] = r} /\ alerts' = alerts
  BY DEF Commit, Go, locals, SInv, IInv, StoreTypeOK
<1>2. /\ body[r] \in Movements
      /\ Takes(body[r]) => /\ SourceOf(r) \in Keys /\ SameTenant(SourceOf(r))
                           /\ holder[SourceOf(r)] = r
      /\ Puts(body[r]) => /\ DestinationOf(r) \in Keys /\ SameTenant(DestinationOf(r))
                          /\ holder[DestinationOf(r)] = r
  BY <1>1, WrittenRowsInTenant
  DEF SInv, Scoped, IInv, LocksCoverWrites, WritersHoldLocks, TookSource, PutDestination
<1>3. \A k \in Keys : holder[k] = r =>
        \/ Takes(body[r]) /\ k = SourceOf(r)
        \/ Puts(body[r]) /\ k = DestinationOf(r)
  BY DEF SInv, IInv, LocksCoverWrites, PendingIsEffect, HoldsSource, HoldsDestination,
         TookSource, PutDestination
<1>4. RowsInTenant'
  BY <1>1, <1>2, <1>3 DEF SInv, Scoped, RowsInTenant
<1>5. AlertsInTenant'
  BY <1>1 DEF SInv, Scoped, AlertsInTenant
<1>6. MovementsHaveRows'
  BY <1>1, <1>2
  DEF SInv, Scoped, MovementsHaveRows, SourceOf, DestinationOf, Committed
<1>7. HistoryKeepsLocation'
  <2>1. \A k \in Keys : k \in rows' \/ holder'[k] # NoRequest => k[2] \in live'
    BY <1>1, NoRequestIsNone DEF SInv, HistoryKeepsLocation, Commit
  <2>. QED  BY <1>1, <2>1 DEF SInv, HistoryKeepsLocation
<1>. QED  BY <1>4, <1>5, <1>6, <1>7 DEF SInv, Scoped

\* A location that an entry or an uncommitted row is at stays, and with it
\* what the movements that made those rows say.
LEMMA DeletionPreservesScope ==
    ASSUME SInv, IInv', ChecksHold', NEW l \in Locations, DeleteLocation(l)
    PROVE  SInv'
<1>1. /\ UNCHANGED <<rows, holder, pc, body, alerts>> /\ live' = live \ {l}
      /\ \A p \in Products : <<p, l>> \notin rows
      /\ \A s \in Requests, p \in Products : holder[<<p, l>>] # s
  BY DEF DeleteLocation, locals, References
<1>2. \A s \in Requests : movement'[s] # NoMovement =>
        /\ movement[s] # NoMovement
        /\ movement'[s].from = Detached(movement[s].from)
        /\ movement'[s].to = Detached(movement[s].to)
  <2>1. ASSUME NEW s \in Requests, movement[s] # NoMovement
        PROVE  /\ movement'[s].from = Detached(movement[s].from)
               /\ movement'[s].to = Detached(movement[s].to)
    <3>1. movement[s] \in MovementRows
      BY <2>1 DEF SInv, IInv, StoreTypeOK
    <3>. QED  BY <2>1, <3>1 DEF DeleteLocation, MovementRows
  <2>. QED  BY <2>1 DEF DeleteLocation
<1>3. MovementsHaveRows'
  BY <1>1, <1>2 DEF SInv, Scoped, MovementsHaveRows, SourceOf, DestinationOf
<1>4. RowsInTenant' /\ AlertsInTenant'
  BY <1>1 DEF SInv, Scoped, RowsInTenant, AlertsInTenant
<1>5. \A k \in Keys : k \in rows \/ holder[k] # NoRequest => k[2] \in live'
  <2>1. ASSUME NEW k \in Keys, k \in rows \/ holder[k] # NoRequest PROVE k[2] # l
    BY <1>1, <2>1 DEF Keys, SInv, IInv, StoreTypeOK
  <2>. QED  BY <1>1, <2>1 DEF SInv, HistoryKeepsLocation
<1>6. ASSUME NEW s \in Requests, movement[s] # NoMovement
      PROVE  /\ Takes(body[s]) => body[s].from \in live'
             /\ Puts(body[s]) => body[s].to \in live'
  <2>1. body[s] \in Movements
    BY <1>6 DEF SInv, Scoped, IInv, StoreTypeOK, MovementsHaveRows, Committed
  <2>2. rows \subseteq Keys
    BY DEF SInv, IInv, StoreTypeOK
  <2>. QED
    BY <1>5, <1>6, <2>1, <2>2
    DEF SInv, Scoped, MovementsHaveRows, SourceOf, DestinationOf, Source, Destination
<1>7. HistoryKeepsLocation'
  BY <1>1, <1>2, <1>5, <1>6 DEF SInv, HistoryKeepsLocation, Detached
<1>. QED  BY <1>3, <1>4, <1>7 DEF SInv, Scoped

-----------------------------------------------------------------------------
\* The steps of a request other than its COMMIT.
LEMMA OtherStepsFrame ==
    ASSUME SInv, IInv', NEW r \in Requests,
           Submit(r) \/ (Step(r) /\ ~Commit(r)) \/ Abort(r) \/ LoseAnswer(r) \/ BreakDeadlock(r)
    PROVE  Frame
<1>0. /\ pc \in [Requests -> {"idle"} \cup InTransaction \cup AfterCommit \cup Settled]
      /\ holder \in [Keys -> Requests \cup {NoRequest}]
  BY DEF SInv, IInv, StoreTypeOK
<1>1. ASSUME NEW s \in Requests, movement[s] # NoMovement PROVE pc[s] \in Committed
  BY <1>1 DEF SInv, Scoped, MovementsHaveRows
<1>2. CASE Submit(r)
  BY <1>0, <1>1, <1>2 DEF Submit, Go, Frame, database, Committed, SInv, IInv, StoreTypeOK
<1>3. CASE pc[r] \in InTransaction /\ (Rollback(r, "rejected") \/ Rollback(r, "failed"))
  BY <1>0, <1>1, <1>3 DEF Rollback, Go, Frame, locals, InTransaction, Committed
<1>4. CASE pc[r] \in InTransaction /\ UNCHANGED <<database, body, alerts>>
           /\ pc' = [pc EXCEPT ![r] = pc'[r]]
  BY <1>0, <1>1, <1>4 DEF Frame, database, InTransaction, Committed
<1>5. CASE FindProductAndWarehouse(r) \/ FindMovementLocations(r)
  BY <1>0, <1>3, <1>4, <1>5
  DEF FindProductAndWarehouse, FindMovementLocations, Go, locals, InTransaction
<1>6. CASE ReadPreviousStock(r) \/ ReadCurrentQuantity(r) \/ RecordMovement(r)
  BY <1>0, <1>3, <1>4, <1>6
  DEF ReadPreviousStock, ReadCurrentQuantity, RecordMovement, Go, locals, InTransaction
<1>7. ASSUME NEW k \in Keys, NEW n, Write(r, k, n), k \in rows \/ k[2] \in live,
             pc[r] \in InTransaction, pc' = [pc EXCEPT ![r] = pc'[r]],
             UNCHANGED <<live, rows, movement, body, alerts>>
      PROVE  Frame
  <2>1. k[2] \in live
    BY <1>7 DEF SInv, HistoryKeepsLocation
  <2>. QED  BY <1>0, <1>1, <1>7, <2>1 DEF Write, Frame, InTransaction, Committed
<1>8. CASE DecrementSourceStock(r)
  <2>1. pc[r] = "source" /\ SourceOf(r) \in Keys
    BY <1>8, WritersTouchRows
    DEF DecrementSourceStock, SInv, IInv, LocksCoverWrites, BranchMatchesType, RightBranch
  <2>2. CASE Rollback(r, "rejected")
    BY <1>3, <2>1, <2>2 DEF InTransaction
  <2>. QED
    BY <1>0, <1>7, <1>8, <2>1, <2>2 DEF DecrementSourceStock, SourceHasEnough, Go, locals, InTransaction
<1>9. CASE UpsertDestination(r)
  <2>1. pc[r] = "destination" /\ DestinationOf(r) \in Keys
    BY <1>9, WritersTouchRows
    DEF UpsertDestination, SInv, IInv, LocksCoverWrites, BranchMatchesType, RightBranch
  <2>2. CASE Rollback(r, "failed")
    BY <1>3, <2>1, <2>2 DEF InTransaction
  <2>. QED
    BY <1>0, <1>7, <1>9, <2>1, <2>2
    DEF UpsertDestination, UpsertFits, DestinationOf, Destination, Go, locals, InTransaction
<1>10. CASE RecheckStock(r) \/ LoseAnswer(r)
  BY <1>0, <1>1, <1>10
  DEF RecheckStock, LoseAnswer, Go, Frame, database, locals, AfterCommit, Committed
<1>11. CASE EmitLowStock(r)
  <2>1. pc[r] = "emit" /\ ProductCompany[body[r].product] = Caller[r]
    BY <1>11 DEF EmitLowStock, SInv, Scoped, ChecksHold, PastProduct, PastLocations, Committed
  <2>. QED
    BY <1>0, <1>1, <1>11, <2>1 DEF EmitLowStock, Go, Frame, database, locals, Committed
<1>12. Abort(r) \/ BreakDeadlock(r)
         => pc[r] \in InTransaction /\ Rollback(r, "failed")
  BY DEF Abort, BreakDeadlock, OnCycle, WaitsFor, InTransaction
<1>. QED
  BY <1>2, <1>3, <1>5, <1>6, <1>8, <1>9, <1>10, <1>11, <1>12 DEF Step

LEMMA NextPreservesSInv == SInv /\ [Next]_vars => SInv'
<1> SUFFICES ASSUME SInv, [Next]_vars PROVE SInv'
  OBVIOUS
<1>0. IInv /\ IInv' /\ ChecksHold
  BY NextPreservesIInv DEF SInv, Scoped
<1>1. ASSUME NEW r \in Requests,
             Submit(r) \/ Step(r) \/ Abort(r) \/ LoseAnswer(r) \/ BreakDeadlock(r)
      PROVE  SInv'
  <2>1. ChecksHold'
    BY <1>0, <1>1, Turns, TurnKeepsChecks
  <2>. QED
    BY <1>0, <1>1, <2>1, OtherStepsFrame, FramePreservesScope, CommitPreservesScope
<1>2. ASSUME UNCHANGED <<pc, body>> PROVE ChecksHold'
  BY <1>0, <1>2 DEF ChecksHold
<1>3. ASSUME NEW l \in Locations, DeleteLocation(l) PROVE SInv'
  BY <1>0, <1>2, <1>3, DeletionPreservesScope DEF DeleteLocation, locals
<1>4. CASE (\E p \in Products : RemoveProduct(p)) \/ UNCHANGED vars
  <2>1. UNCHANGED <<live, rows, holder, movement, pc, body, alerts>>
    BY <1>4 DEF RemoveProduct, vars, database, locals
  <2>2. Frame
    BY <2>1 DEF Frame, SInv, Scoped, MovementsHaveRows
  <2>. QED  BY <1>0, <1>2, <2>1, <2>2, FramePreservesScope
<1>. QED  BY <1>1, <1>3, <1>4 DEF Next, Quiet

\* The inductive invariant of this module.
THEOREM ScopeInvariance == Spec => []SInv
  BY InitEstablishesSInv, NextPreservesSInv, PTL DEF Spec

\* No stock entry, movement or alert crosses tenants, although createMovement
\* looks its product, warehouse and locations up one after the other.
THEOREM TenantsAreIsolated == Spec => []TenantIsolation
<1>1. SInv => TenantIsolation
  <2> SUFFICES ASSUME SInv PROVE TenantIsolation
    OBVIOUS
  <2>1. ASSUME NEW r \in Requests, movement[r] # NoMovement
        PROVE  /\ ProductCompany[body[r].product] = Caller[r]
               /\ WarehouseCompany[body[r].warehouse] = Caller[r]
               /\ Takes(body[r]) => LocationCompany(body[r].from) = Caller[r]
               /\ Puts(body[r]) => LocationCompany(body[r].to) = Caller[r]
    <3>1. pc[r] \in Committed
      BY <2>1 DEF SInv, Scoped, MovementsHaveRows
    <3>. QED
      BY <3>1, WrittenRowsInTenant DEF SInv, Scoped, ChecksHold, PastProduct, PastLocations
  <2>. QED  BY <2>1 DEF SInv, Scoped, RowsInTenant, AlertsInTenant, TenantIsolation
<1>. QED  BY <1>1, ScopeInvariance, PTL

\* A location is never deleted under an entry, committed or not, or under the
\* movement that used it: deleteLocation beside createMovement.
THEOREM HistoryIsKept == Spec => []HistoryKeepsLocation
<1>1. SInv => HistoryKeepsLocation
  BY DEF SInv
<1>. QED  BY <1>1, ScopeInvariance, PTL

-----------------------------------------------------------------------------
(* The low-stock alerts: however many movements of one product overlap, the *)
(* last of them to look sees the stock that they leave together.            *)

\* Who answers for the stock of p as it is: a movement that is still to look,
\* or was lost before it could, one that has seen this very total, an alert
\* with it, or nobody as the stock is not low.
Unseen(r) == pc[r] \in {"recheck", "lost"}
HasSeen(r, p) == pc[r] = "emit" /\ total[r] = Total(p)
Alerted(p) == \E a \in alerts : a.product = p /\ a.stock = Total(p)

Answered(p) ==
    CommittedOn(p) # {} =>
        \/ \E r \in CommittedOn(p) : Unseen(r) \/ HasSeen(r, p)
        \/ ~(Total(p) <= MinStock[p])
        \/ Alerted(p)

AInv == IInv /\ DOMAIN total = Requests /\ \A p \in Products : Answered(p)

-----------------------------------------------------------------------------
\* The total of a product is that of its own entries.
LEMMA TotalOfEntries ==
    ASSUME NEW p, \A l \in Locations : qty'[<<p, l>>] = qty[<<p, l>>]
    PROVE  Total(p)' = Total(p)
<1>1. [l \in Locations |-> qty'[<<p, l>>]] = [l \in Locations |-> qty[<<p, l>>]]
  OBVIOUS
<1>. QED  BY <1>1 DEF Total, SumOver

\* A step that leaves the stock, the alerts and every committed request alone.
Aside ==
    /\ UNCHANGED <<qty, alerts, total>>
    /\ \A r \in Requests :
         \/ pc[r] \notin Committed /\ pc'[r] \notin Committed
         \/ pc'[r] = pc[r] /\ body'[r] = body[r]

LEMMA AsideKeepsAnswers ==
    ASSUME Aside, NEW p \in Products, Answered(p)
    PROVE  Answered(p)'
<1>1. Total(p)' = Total(p)
  BY TotalOfEntries DEF Aside
<1>2. CommittedOn(p)' = CommittedOn(p)
  BY DEF Aside, CommittedOn
<1>3. \A r \in CommittedOn(p) : pc'[r] = pc[r] /\ total'[r] = total[r]
  BY DEF Aside, CommittedOn
<1>. QED
  BY <1>1, <1>2, <1>3 DEF Answered, Unseen, HasSeen, Alerted, Aside

\* A COMMIT changes entries of its own product only, and is yet to look.
LEMMA CommitKeepsAnswers ==
    ASSUME IInv, NEW r \in Requests, Commit(r), NEW p \in Products, Answered(p)
    PROVE  Answered(p)'
<1>1. /\ pc[r] = "commit" /\ pc' = [pc EXCEPT ![r] = "recheck"]
      /\ UNCHANGED <<body, total, alerts>>
      /\ qty' = [k \in Keys |-> IF holder[k] = r THEN pending[k] ELSE qty[k]]
  BY DEF Commit, Go, locals
<1>2. pc'[r] = "recheck" /\ \A s \in Requests \ {r} : pc'[s] = pc[s]
  BY <1>1 DEF IInv, StoreTypeOK
<1>3. CASE body[r].product = p
  <2>1. r \in CommittedOn(p)' /\ Unseen(r)'
    BY <1>1, <1>2, <1>3 DEF CommittedOn, Committed, Unseen
  <2>. QED  BY <2>1 DEF Answered
<1>4. CASE body[r].product # p
  <2>1. ASSUME NEW k \in Keys, holder[k] = r PROVE k[1] = body[r].product
    BY <2>1 DEF IInv, LocksCoverWrites, PendingIsEffect, HoldsSource, HoldsDestination,
                SourceOf, DestinationOf, Source, Destination
  <2>2. Total(p)' = Total(p)
    <3>1. ASSUME NEW l \in Locations PROVE qty'[<<p, l>>] = qty[<<p, l>>]
      BY <1>1, <1>4, <2>1 DEF Keys
    <3>. QED  BY <3>1, TotalOfEntries
  <2>3. CommittedOn(p)' = CommittedOn(p) /\ r \notin CommittedOn(p)
    BY <1>1, <1>2, <1>4 DEF CommittedOn
  <2>4. \A s \in CommittedOn(p) : pc'[s] = pc[s] /\ total'[s] = total[s]
    BY <1>1, <1>2, <2>3 DEF CommittedOn
  <2>. QED
    BY <1>1, <2>2, <2>3, <2>4 DEF Answered, Unseen, HasSeen, Alerted
<1>. QED  BY <1>3, <1>4

\* After it: to look is to see the total as it is, to alert is to have seen it.
LEMMA LooksKeepAnswers ==
    ASSUME IInv, DOMAIN total = Requests, NEW r \in Requests,
           RecheckStock(r) \/ EmitLowStock(r) \/ LoseAnswer(r),
           NEW p \in Products, Answered(p)
    PROVE  Answered(p)'
<1>0. /\ pc \in [Requests -> {"idle"} \cup InTransaction \cup AfterCommit \cup Settled]
      /\ UNCHANGED <<qty, body>> /\ pc' = [pc EXCEPT ![r] = pc'[r]]
      /\ pc[r] \in Committed /\ pc'[r] \in Committed
  BY DEF IInv, StoreTypeOK, RecheckStock, EmitLowStock, LoseAnswer, Go, database, locals,
         Committed, AfterCommit
<1>1. Total(p)' = Total(p)
  BY <1>0, TotalOfEntries
<1>2. CommittedOn(p)' = CommittedOn(p)
  BY <1>0 DEF CommittedOn
<1>3. \A s \in Requests \ {r} : pc'[s] = pc[s]
  BY <1>0
<1>4. CASE RecheckStock(r)
  <2>1. pc'[r] = "emit" /\ alerts' = alerts /\ \A s \in Requests \ {r} : total'[s] = total[s]
    BY <1>0, <1>4 DEF RecheckStock, Go
  <2>2. ASSUME body[r].product = p PROVE HasSeen(r, p)'
    BY <1>1, <1>4, <2>1, <2>2 DEF RecheckStock, HasSeen
  <2>. QED
    BY <1>1, <1>2, <1>3, <2>1, <2>2 DEF Answered, Unseen, HasSeen, Alerted, CommittedOn
<1>5. CASE EmitLowStock(r)
  <2>1. /\ pc[r] = "emit" /\ total' = total /\ alerts \subseteq alerts'
        /\ total[r] <= MinStock[body[r].product] =>
             [company |-> Caller[r], product |-> body[r].product, stock |-> total[r]] \in alerts'
    BY <1>5 DEF EmitLowStock, locals
  <2>2. ASSUME body[r].product = p, HasSeen(r, p), Total(p) <= MinStock[p]
        PROVE  Alerted(p)'
    BY <1>1, <2>1, <2>2 DEF HasSeen, Alerted
  <2>. QED
    BY <1>1, <1>2, <1>3, <2>1, <2>2 DEF Answered, Unseen, HasSeen, Alerted, CommittedOn
<1>6. CASE LoseAnswer(r)
  <2>1. pc'[r] = "lost" /\ UNCHANGED <<total, alerts>>
    BY <1>0, <1>6 DEF LoseAnswer, Go, locals
  <2>. QED
    BY <1>1, <1>2, <1>3, <2>1 DEF Answered, Unseen, HasSeen, Alerted, CommittedOn
<1>. QED  BY <1>4, <1>5, <1>6

\* The other steps of a request come before its COMMIT.
LEMMA OtherStepsAreAside ==
    ASSUME IInv, NEW r \in Requests,
           \/ Submit(r) \/ Abort(r) \/ BreakDeadlock(r)
           \/ Step(r) /\ ~Commit(r) /\ ~RecheckStock(r) /\ ~EmitLowStock(r)
    PROVE  Aside
<1>0. pc \in [Requests -> {"idle"} \cup InTransaction \cup AfterCommit \cup Settled]
  BY DEF IInv, StoreTypeOK
<1>1. ASSUME pc[r] \notin Committed, pc'[r] \notin Committed, pc' = [pc EXCEPT ![r] = pc'[r]],
             UNCHANGED <<qty, alerts, total>>, \A s \in Requests \ {r} : body'[s] = body[s]
      PROVE  Aside
  BY <1>0, <1>1 DEF Aside
<1>2. CASE Submit(r)
  BY <1>0, <1>1, <1>2 DEF Submit, Go, database, Committed, IInv, StoreTypeOK
<1>3. CASE pc[r] \in InTransaction /\ (Rollback(r, "rejected") \/ Rollback(r, "failed"))
  BY <1>0, <1>1, <1>3 DEF Rollback, Go, locals, InTransaction, Committed
<1>4. CASE FindProductAndWarehouse(r) \/ FindMovementLocations(r)
  BY <1>0, <1>1, <1>3, <1>4
  DEF FindProductAndWarehouse, FindMovementLocations, Go, database, locals, InTransaction, Committed
<1>5. CASE ReadPreviousStock(r)
  BY <1>0, <1>1, <1>3, <1>5
  DEF ReadPreviousStock, FirstWrite, Go, database, InTransaction, Committed
<1>6. CASE DecrementSourceStock(r) \/ UpsertDestination(r)
  BY <1>0, <1>1, <1>3, <1>6
  DEF DecrementSourceStock, UpsertDestination, Go, locals, InTransaction, Committed
<1>7. CASE ReadCurrentQuantity(r) \/ RecordMovement(r)
  BY <1>0, <1>1, <1>3, <1>7
  DEF ReadCurrentQuantity, RecordMovement, Go, database, locals, InTransaction, Committed
<1>8. Abort(r) \/ BreakDeadlock(r) => pc[r] \in InTransaction /\ Rollback(r, "failed")
  BY DEF Abort, BreakDeadlock, OnCycle, WaitsFor, InTransaction
<1>. QED  BY <1>2, <1>3, <1>4, <1>5, <1>6, <1>7, <1>8 DEF Step

-----------------------------------------------------------------------------
LEMMA InitEstablishesAInv == Init => AInv
<1> SUFFICES ASSUME Init PROVE AInv
  OBVIOUS
<1>1. \A p \in Products : CommittedOn(p) = {}
  BY DEF Init, CommittedOn, Committed
<1>2. DOMAIN total = Requests
  BY DEF Init
<1>. QED  BY <1>1, <1>2, InitEstablishesIInv DEF AInv, Answered

LEMMA NextPreservesAInv == AInv /\ [Next]_vars => AInv'
<1> SUFFICES ASSUME AInv, [Next]_vars PROVE AInv'
  OBVIOUS
<1>0. IInv /\ IInv' /\ DOMAIN total = Requests /\ \A p \in Products : Answered(p)
  BY NextPreservesIInv DEF AInv
<1>1. ASSUME Aside PROVE AInv'
  BY <1>0, <1>1, AsideKeepsAnswers DEF AInv, Aside
<1>2. ASSUME NEW r \in Requests,
             Submit(r) \/ Step(r) \/ Abort(r) \/ LoseAnswer(r) \/ BreakDeadlock(r)
      PROVE  AInv'
  <2>1. CASE Commit(r)
    BY <1>0, <2>1, CommitKeepsAnswers DEF AInv, Commit, locals
  <2>2. CASE RecheckStock(r) \/ EmitLowStock(r) \/ LoseAnswer(r)
    <3>1. DOMAIN total' = Requests
      BY <1>0, <2>2 DEF RecheckStock, EmitLowStock, LoseAnswer, locals
    <3>. QED  BY <1>0, <2>2, <3>1, LooksKeepAnswers DEF AInv
  <2>. QED  BY <1>0, <1>1, <1>2, <2>1, <2>2, OtherStepsAreAside
<1>3. CASE \/ \E l \in Locations : DeleteLocation(l)
           \/ \E p \in Products : RemoveProduct(p)
           \/ UNCHANGED vars
  BY <1>1, <1>3 DEF DeleteLocation, RemoveProduct, vars, database, locals, Aside
<1>. QED  BY <1>2, <1>3 DEF Next, Quiet

\* The inductive invariant of this module.
THEOREM AlertInvariance == Spec => []AInv
  BY InitEstablishesAInv, NextPreservesAInv, PTL DEF Spec

\* When the movements of a product have all run to their end and the stock is
\* low, an alert with the stock as it is has been emitted: createMovement reads
\* the total again after its transaction, whoever commits meanwhile.
THEOREM LowStockIsAlerted == Spec => []AlertCoversLowStock
<1>1. AInv => AlertCoversLowStock
  BY DEF AInv, Answered, AlertCoversLowStock, CommittedOn, Unseen, HasSeen, Alerted
<1>. QED  BY <1>1, AlertInvariance, PTL

-----------------------------------------------------------------------------
(* Sums over stock_entries.  SumFunction folds the values of a function;    *)
(* that it is a number, and what a changed value makes of it, is shown by   *)
(* induction on the subsets of a finite set.                                *)

\* Induction on the subsets of a finite set, for a collection of them.
LEMMA SubsetInduction ==
    ASSUME NEW S, IsFiniteSet(S), NEW Good,
           \A s \in SUBSET S : (\A t \in SUBSET s : t # s => t \in Good) => s \in Good
    PROVE  S \in Good
<1> DEFINE Bad == {s \in SUBSET S : s \notin Good}
<1>1. SUFFICES ASSUME Bad # {} PROVE FALSE
  OBVIOUS
<1>2. IsWellFoundedOn(StrictSubsetOrdering(S), SUBSET S)
  BY FS_StrictSubsetOrderingWellFounded, FS_FiniteSubsetsOfFinite
<1>3. Bad \subseteq SUBSET S
  OBVIOUS
<1>4. PICK s \in Bad : \A t \in Bad : <<t, s>> \notin StrictSubsetOrdering(S)
  <2> HIDE DEF Bad
  <2>. QED  BY <1>1, <1>2, <1>3, WFMin
<1>. QED  BY <1>4 DEF StrictSubsetOrdering

\* The partial sums of f over the subsets of S, as the fold computes them: one
\* element is taken out after the other.
Pick(s) == CHOOSE x \in s : TRUE
PartialSums(g, f, S) ==
    g = [s \in SUBSET S |-> IF s = {} THEN 0 ELSE f[Pick(s)] + g[s \ {Pick(s)}]]

LEMMA PickIsOne == ASSUME NEW s, s # {} PROVE Pick(s) \in s
  BY DEF Pick

LEMMA SumIsLastPartialSum ==
    ASSUME NEW f
    PROVE  SumFunction(f) = (CHOOSE g : PartialSums(g, f, DOMAIN f))[DOMAIN f]
  BY Zenon
  DEF PartialSums, Pick, SumFunction, SumFunctionOnSet, FoldFunctionOnSet, MapThenFoldSet

\* Partial sums are unique, on the subsets that two of them are both for.
LEMMA PartialSumsAreUnique ==
    ASSUME NEW f, NEW S, NEW T, NEW U \in SUBSET (S \cap T), IsFiniteSet(U),
           NEW g, PartialSums(g, f, S), NEW h, PartialSums(h, f, T)
    PROVE  g[U] = h[U]
<1> DEFINE Good == {s \in SUBSET U : g[s] = h[s]}
<1>1. ASSUME NEW s \in SUBSET U, \A t \in SUBSET s : t # s => t \in Good
      PROVE  s \in Good
  <2>1. CASE s = {}
    BY <2>1 DEF PartialSums
  <2>2. CASE s # {}
    <3>1. s \ {Pick(s)} \in Good
      BY <1>1, <2>2, PickIsOne
    <3>2. g[s] = f[Pick(s)] + g[s \ {Pick(s)}] /\ h[s] = f[Pick(s)] + h[s \ {Pick(s)}]
      BY <2>2 DEF PartialSums
    <3>. QED  BY <3>1, <3>2
  <2>. QED  BY <2>1, <2>2
<1>2. U \in Good
  <2> HIDE DEF Good
  <2>. QED  BY <1>1, SubsetInduction
<1>. QED  BY <1>2

LEMMA PartialSumsExist ==
    ASSUME NEW f, NEW S, IsFiniteSet(S)
    PROVE  \E g : PartialSums(g, f, S)
<1> DEFINE Good == {s \in SUBSET S : \E g : PartialSums(g, f, s)}
           Chosen(t) == CHOOSE h : PartialSums(h, f, t)
           Below(t) == Chosen(t)[t]
<1>1. ASSUME NEW s \in SUBSET S, \A t \in SUBSET s : t # s => t \in Good
      PROVE  s \in Good
  <2> DEFINE g == [t \in SUBSET s |-> IF t = {} THEN 0 ELSE f[Pick(t)] + Below(t \ {Pick(t)})]
  <2>1. ASSUME NEW t \in SUBSET s, t # s PROVE PartialSums(Chosen(t), f, t)
    BY <1>1, <2>1
  <2>2. ASSUME NEW t \in SUBSET s, t # s PROVE Below(t) = g[t]
    <3>1. PartialSums(Chosen(t), f, t) /\ IsFiniteSet(t)
      BY <2>1, <2>2, FS_Subset
    <3>2. CASE t = {}
      <4> HIDE DEF Chosen
      <4>. QED  BY <3>1, <3>2 DEF PartialSums
    <3>3. CASE t # {}
      <4> DEFINE u == t \ {Pick(t)}
      <4>1. u \in SUBSET (t \cap u) /\ u \in SUBSET s /\ u # s /\ IsFiniteSet(u)
        BY <3>1, <3>3, PickIsOne, FS_Subset
      <4>2. PartialSums(Chosen(u), f, u)
        BY <2>1, <4>1
      <4> HIDE DEF Chosen
      <4>3. Chosen(t)[u] = Below(u)
        BY <3>1, <4>1, <4>2, PartialSumsAreUnique
      <4>4. Chosen(t)[t] = f[Pick(t)] + Chosen(t)[u]
        BY <3>1, <3>3 DEF PartialSums
      <4>. QED  BY <3>3, <4>3, <4>4
    <3>. QED  BY <3>2, <3>3
  <2> HIDE DEF Below
  <2>3. ASSUME NEW t \in SUBSET s, t # {} PROVE Below(t \ {Pick(t)}) = g[t \ {Pick(t)}]
    BY <2>2, <2>3, PickIsOne
  <2>4. g = [t \in SUBSET s |-> IF t = {} THEN 0 ELSE f[Pick(t)] + g[t \ {Pick(t)}]]
    BY <2>3
  <2>. QED  BY <2>4 DEF PartialSums
<1>2. S \in Good
  <2> HIDE DEF Good
  <2>. QED  BY <1>1, SubsetInduction
<1>. QED  BY <1>2

LEMMA SumOfFinite ==
    ASSUME NEW f, IsFiniteSet(DOMAIN f)
    PROVE  \E g : PartialSums(g, f, DOMAIN f) /\ SumFunction(f) = g[DOMAIN f]
  BY PartialSumsExist, SumIsLastPartialSum

LEMMA SumIsNat ==
    ASSUME NEW S, IsFiniteSet(S), NEW f \in [S -> Nat]
    PROVE  SumFunction(f) \in Nat
<1>1. PICK g : PartialSums(g, f, S) /\ SumFunction(f) = g[S]
  BY SumOfFinite
<1> DEFINE Good == {s \in SUBSET S : g[s] \in Nat}
<1>2. ASSUME NEW s \in SUBSET S, \A t \in SUBSET s : t # s => t \in Good
      PROVE  s \in Good
  <2>1. CASE s = {}
    BY <1>1, <2>1 DEF PartialSums
  <2>2. CASE s # {}
    <3>1. Pick(s) \in s /\ s \ {Pick(s)} \in Good
      BY <1>2, <2>2, PickIsOne
    <3>2. g[s] = f[Pick(s)] + g[s \ {Pick(s)}] /\ f[Pick(s)] \in Nat
      BY <1>1, <2>2, <3>1 DEF PartialSums
    <3>. QED  BY <3>1, <3>2
  <2>. QED  BY <2>1, <2>2
<1>3. S \in Good
  <2> HIDE DEF Good
  <2>. QED  BY <1>2, SubsetInduction
<1>. QED  BY <1>1, <1>3

\* Changing one value changes the sum by as much.
LEMMA SumOfChange ==
    ASSUME NEW S, IsFiniteSet(S), NEW f \in [S -> Int], NEW l \in S, NEW n \in Int
    PROVE  /\ SumFunction(f) \in Int
           /\ SumFunction([f EXCEPT ![l] = n]) = SumFunction(f) - f[l] + n
<1> DEFINE e == [f EXCEPT ![l] = n]
<1>1. PICK g : PartialSums(g, f, S) /\ SumFunction(f) = g[S]
  BY SumOfFinite
<1>2. PICK h : PartialSums(h, e, S) /\ SumFunction(e) = h[S]
  BY SumOfFinite
<1> DEFINE Right(s) == g[s] \in Int /\ h[s] = IF l \in s THEN g[s] - f[l] + n ELSE g[s]
           Good == {s \in SUBSET S : Right(s)}
<1>3. ASSUME NEW s \in SUBSET S, \A t \in SUBSET s : t # s => t \in Good
      PROVE  s \in Good
  <2>1. CASE s = {}
    BY <1>1, <1>2, <2>1 DEF PartialSums
  <2>2. CASE s # {}
    <3>1. Pick(s) \in s /\ Right(s \ {Pick(s)})
      BY <1>3, <2>2, PickIsOne
    <3>2. /\ g[s] = f[Pick(s)] + g[s \ {Pick(s)}]
          /\ h[s] = e[Pick(s)] + h[s \ {Pick(s)}]
      BY <1>1, <1>2, <2>2 DEF PartialSums
    <3>3. CASE Pick(s) = l
      BY <3>1, <3>2, <3>3
    <3>4. CASE Pick(s) # l
      BY <3>1, <3>2, <3>4
    <3>. QED  BY <3>3, <3>4
  <2>. QED  BY <2>1, <2>2
<1>4. S \in Good
  <2> HIDE DEF Good
  <2>. QED  BY <1>3, SubsetInduction
<1>. QED  BY <1>1, <1>2, <1>4

LEMMA TotalIsNat == ASSUME IInv, NEW p \in Products PROVE Total(p) \in Nat
<1>1. [l \in Locations |-> qty[<<p, l>>]] \in [Locations -> Nat]
  BY MaxQtyAssumption DEF IInv, StockInRange, Keys
<1>. QED  BY <1>1, LocationsAreFinite, SumIsNat DEF Total, SumOver

\* What one movement makes of its product's total, when its effect is applied
\* to the stock.
LEMMA TotalOfEffect ==
    ASSUME NEW q \in [Keys -> Int], NEW m \in Movements, HasItsLocations(m),
           m.type # "ADJUSTMENT"
    PROVE  SumOver(Effect(q, m), m.product) = NewStockOf(m, SumOver(q, m.product))
<1> DEFINE p == m.product
           f == [l \in Locations |-> q[<<p, l>>]]
           e == [l \in Locations |-> Effect(q, m)[<<p, l>>]]
<1>0. /\ p \in Products /\ f \in [Locations -> Int] /\ m.quantity \in Int
      /\ \A l \in Locations : <<p, l>> \in Keys
  BY DEF Movements, Keys
<1>1. /\ Takes(m) => m.from \in Locations
      /\ Puts(m) => m.to \in Locations
  BY DEF Movements, HasItsLocations
<1>2. e = [l \in Locations |-> IF Takes(m) /\ l = m.from THEN f[l] - m.quantity
                               ELSE IF Puts(m) /\ l = m.to THEN f[l] + m.quantity
                               ELSE f[l]]
  <2>1. ASSUME NEW l \in Locations
        PROVE  Effect(q, m)[<<p, l>>] = IF Takes(m) /\ l = m.from THEN f[l] - m.quantity
                                        ELSE IF Puts(m) /\ l = m.to THEN f[l] + m.quantity
                                        ELSE f[l]
    <3>1. <<p, l>> \in Keys /\ f[l] = q[<<p, l>>]
      BY <1>0
    <3>2. ~(Takes(m) /\ Puts(m) /\ m.from = m.to)
      BY DEF Takes, Puts, HasItsLocations, Movements, Types
    <3> HIDE DEF f
    <3>. QED  BY <3>1, <3>2 DEF Effect, Source, Destination, AfterTake, AfterPut
  <2>. QED  BY <2>1
<1>3. SumFunction(f) \in Int
  BY <1>0, LocationsAreFinite, SumOfChange, <1>1 DEF Movements, Types, Takes, Puts
<1> HIDE DEF f, e
<1>4. CASE m.type \in {"INBOUND", "RETURN"}
  <2> DEFINE n == f[m.to] + m.quantity
  <2>1. e = [f EXCEPT ![m.to] = n]
    BY <1>0, <1>1, <1>2, <1>4 DEF Takes, Puts
  <2>2. m.to \in Locations /\ n \in Int /\ f[m.to] \in Int
    BY <1>0, <1>1, <1>4 DEF Puts
  <2>3. SumFunction(e) = SumFunction(f) - f[m.to] + n
    <3> HIDE DEF n
    <3>. QED  BY <1>0, <2>1, <2>2, LocationsAreFinite, SumOfChange
  <2>. QED  BY <1>0, <1>3, <1>4, <2>2, <2>3 DEF f, e, SumOver, NewStockOf
<1>5. CASE m.type = "OUTBOUND"
  <2> DEFINE n == f[m.from] - m.quantity
  <2>1. e = [f EXCEPT ![m.from] = n]
    BY <1>0, <1>1, <1>2, <1>5 DEF Takes, Puts
  <2>2. m.from \in Locations /\ n \in Int /\ f[m.from] \in Int
    BY <1>0, <1>1, <1>5 DEF Takes
  <2>3. SumFunction(e) = SumFunction(f) - f[m.from] + n
    <3> HIDE DEF n
    <3>. QED  BY <1>0, <2>1, <2>2, LocationsAreFinite, SumOfChange
  <2>. QED  BY <1>0, <1>3, <1>5, <2>2, <2>3 DEF f, e, SumOver, NewStockOf
<1>6. CASE m.type = "TRANSFER"
  <2> DEFINE less == f[m.from] - m.quantity
             more == f[m.to] + m.quantity
             d == [f EXCEPT ![m.from] = less]
  <2>1. m.from \in Locations /\ m.to \in Locations /\ m.from # m.to
    BY <1>1, <1>6 DEF Takes, Puts, HasItsLocations
  <2>2. less \in Int /\ more \in Int /\ f[m.to] \in Int /\ f[m.from] \in Int
    BY <1>0, <2>1
  <2>3. d \in [Locations -> Int] /\ d[m.to] = f[m.to]
    BY <1>0, <2>1, <2>2
  <2>4. e = [d EXCEPT ![m.to] = more]
    BY <1>0, <1>2, <1>6, <2>1 DEF Takes, Puts
  <2>5. SumFunction(d) = SumFunction(f) - f[m.from] + less
    <3> HIDE DEF less
    <3>. QED  BY <1>0, <2>1, <2>2, LocationsAreFinite, SumOfChange
  <2>6. SumFunction(e) = SumFunction(d) - d[m.to] + more
    <3> HIDE DEF d, more
    <3>. QED  BY <2>1, <2>2, <2>3, <2>4, LocationsAreFinite, SumOfChange
  <2>7. SumFunction(e) = SumFunction(f)
    <3> HIDE DEF d
    <3>. QED  BY <1>0, <1>3, <2>2, <2>3, <2>5, <2>6
  <2>. QED  BY <1>6, <2>7 DEF f, e, SumOver, NewStockOf
<1>. QED  BY <1>4, <1>5, <1>6 DEF Movements, Types

-----------------------------------------------------------------------------
(* The totals that a request computes and records. *)

PastAggregate == {"source", "current", "destination", "record", "commit"}

\* The totals are numbers; those of a movement differ by what it does, however
\* old the first of them is.
TotalsTypeOK ==
    /\ previousStock \in [Requests -> Nat]
    /\ newStock \in [Requests -> Int]
    /\ total \in [Requests -> Nat]
    /\ alerts \subseteq [company: Companies, product: Products, stock: Nat]

NewStockFollows ==
    \A r \in Requests :
        pc[r] \in PastAggregate /\ body[r].type # "ADJUSTMENT"
          => newStock[r] = NewStockOf(body[r], previousStock[r])

TInv == IInv /\ TotalsTypeOK /\ NewStockFollows

LEMMA InitEstablishesTInv == Init => TInv
  BY InitEstablishesIInv DEF Init, TInv, TotalsTypeOK, NewStockFollows, PastAggregate

\* A step that leaves the totals alone, and sends nobody past the aggregate.
LEMMA StepWithoutTotals ==
    ASSUME TInv, IInv', UNCHANGED <<previousStock, newStock, total, alerts>>,
           \A r \in Requests : pc'[r] \in PastAggregate =>
               pc[r] \in PastAggregate /\ body'[r] = body[r]
    PROVE  TInv'
  BY DEF TInv, TotalsTypeOK, NewStockFollows

LEMMA ReadPreviousStockKeepsTInv ==
    ASSUME TInv, IInv', NEW r \in Requests, ReadPreviousStock(r) PROVE TInv'
<1> DEFINE prev == Total(body[r].product)
<1>0. /\ pc[r] = "aggregate" /\ body[r] \in Movements /\ prev \in Nat
      /\ body[r].quantity \in Nat
  BY TotalIsNat DEF ReadPreviousStock, TInv, IInv, StoreTypeOK, Movements
<1> HIDE DEF prev
<1>1. CASE Rollback(r, "rejected")
  BY <1>0, <1>1, StepWithoutTotals
  DEF Rollback, Go, locals, TInv, IInv, StoreTypeOK, PastAggregate
<1>2. CASE /\ previousStock' = [previousStock EXCEPT ![r] = prev]
           /\ newStock' = [newStock EXCEPT ![r] = NewStockOf(body[r], prev)]
           /\ Go(r, FirstWrite(body[r]))
           /\ UNCHANGED <<database, body, total, alerts>>
  <2>1. NewStockOf(body[r], prev) \in Int
    BY <1>0 DEF NewStockOf
  <2>2. TotalsTypeOK'
    BY <1>0, <1>2, <2>1 DEF TInv, TotalsTypeOK
  <2>3. NewStockFollows'
    BY <1>0, <1>2 DEF TInv, TotalsTypeOK, NewStockFollows, Go, IInv, StoreTypeOK, PastAggregate
  <2>. QED  BY <2>2, <2>3 DEF TInv
<1>. QED  BY <1>1, <1>2 DEF ReadPreviousStock, prev

LEMMA ReadCurrentQuantityKeepsTInv ==
    ASSUME TInv, IInv', NEW r \in Requests, ReadCurrentQuantity(r) PROVE TInv'
<1>0. /\ pc[r] = "current" /\ pc' = [pc EXCEPT ![r] = "destination"]
      /\ UNCHANGED <<database, body, previousStock, total, alerts>>
  BY DEF ReadCurrentQuantity, Go
<1>1. /\ body[r].type = "ADJUSTMENT" /\ body[r] \in Movements /\ DestinationOf(r) \in Keys
  BY <1>0, WritersTouchRows
  DEF TInv, IInv, LocksCoverWrites, BranchMatchesType, RightBranch, Puts
<1>2. previousStock[r] - qty[DestinationOf(r)] + body[r].quantity \in Int
  BY <1>1 DEF TInv, TotalsTypeOK, IInv, StoreTypeOK, Movements
<1>3. TotalsTypeOK'
  BY <1>0, <1>2 DEF ReadCurrentQuantity, TInv, TotalsTypeOK
<1>4. NewStockFollows'
  BY <1>0, <1>1
  DEF ReadCurrentQuantity, TInv, TotalsTypeOK, NewStockFollows, IInv, StoreTypeOK, PastAggregate
<1>. QED  BY <1>3, <1>4 DEF TInv

LEMMA AfterCommitKeepsTInv ==
    ASSUME TInv, IInv', NEW r \in Requests, RecheckStock(r) \/ EmitLowStock(r) PROVE TInv'
<1>0. /\ pc[r] \in AfterCommit /\ UNCHANGED <<body, previousStock, newStock>>
      /\ pc' = [pc EXCEPT ![r] = pc'[r]] /\ pc'[r] \in {"emit", "done"}
  BY DEF RecheckStock, EmitLowStock, AfterCommit, Go, locals, TInv, IInv, StoreTypeOK
<1>1. NewStockFollows'
  BY <1>0 DEF TInv, NewStockFollows, PastAggregate, IInv, StoreTypeOK
<1>2. body[r] \in Movements
  BY <1>0 DEF TInv, IInv, StoreTypeOK, AfterCommit
<1>3. CASE RecheckStock(r)
  <2>1. Total(body[r].product) \in Nat
    BY <1>2, TotalIsNat DEF TInv, Movements
  <2>. QED  BY <1>1, <1>3, <2>1 DEF RecheckStock, TInv, TotalsTypeOK
<1>4. CASE EmitLowStock(r)
  <2>1. body[r].product \in Products /\ Caller[r] \in Companies /\ total[r] \in Nat
    BY <1>2, Scoping DEF Movements, TInv, TotalsTypeOK
  <2>. QED  BY <1>1, <1>4, <2>1 DEF EmitLowStock, locals, TInv, TotalsTypeOK
<1>. QED  BY <1>3, <1>4

LEMMA NextPreservesTInv == TInv /\ [Next]_vars => TInv'
<1> SUFFICES ASSUME TInv, [Next]_vars PROVE TInv'
  OBVIOUS
<1>0. IInv /\ IInv' /\ pc \in [Requests -> {"idle"} \cup InTransaction \cup AfterCommit \cup Settled]
  BY NextPreservesIInv DEF TInv, IInv, StoreTypeOK
<1>1. ASSUME NEW r \in Requests, pc' = [pc EXCEPT ![r] = pc'[r]],
             UNCHANGED <<previousStock, newStock, total, alerts>>,
             \A s \in Requests \ {r} : body'[s] = body[s],
             pc'[r] \in PastAggregate => pc[r] \in PastAggregate /\ body'[r] = body[r]
      PROVE  TInv'
  BY <1>0, <1>1, StepWithoutTotals
<1>2. ASSUME NEW r \in Requests, Submit(r) PROVE TInv'
  BY <1>0, <1>1, <1>2 DEF Submit, Go, database, PastAggregate, IInv, StoreTypeOK
<1>3. ASSUME NEW r \in Requests, Rollback(r, "rejected") \/ Rollback(r, "failed") PROVE TInv'
  BY <1>0, <1>1, <1>3 DEF Rollback, Go, locals, PastAggregate
<1>4. ASSUME NEW r \in Requests,
             FindProductAndWarehouse(r) \/ FindMovementLocations(r)
      PROVE  TInv'
  BY <1>0, <1>1, <1>3, <1>4
  DEF FindProductAndWarehouse, FindMovementLocations, Go, locals, PastAggregate
<1>5. ASSUME NEW r \in Requests,
             \/ DecrementSourceStock(r) \/ UpsertDestination(r) \/ RecordMovement(r)
             \/ Commit(r) \/ LoseAnswer(r)
      PROVE  TInv'
  BY <1>0, <1>1, <1>3, <1>5
  DEF DecrementSourceStock, UpsertDestination, RecordMovement, Commit, LoseAnswer, Go, locals,
      PastAggregate, AfterCommit
<1>6. ASSUME NEW r \in Requests, Step(r) PROVE TInv'
  BY <1>0, <1>4, <1>5, <1>6, ReadPreviousStockKeepsTInv, ReadCurrentQuantityKeepsTInv,
     AfterCommitKeepsTInv
  DEF Step
<1>7. CASE \/ \E l \in Locations : DeleteLocation(l)
           \/ \E p \in Products : RemoveProduct(p)
           \/ UNCHANGED vars
  BY <1>0, <1>7, StepWithoutTotals DEF DeleteLocation, RemoveProduct, vars, database, locals
<1>. QED
  BY <1>2, <1>3, <1>5, <1>6, <1>7 DEF Next, Quiet, Abort, BreakDeadlock

THEOREM TotalsInvariance == Spec => []TInv
  BY InitEstablishesTInv, NextPreservesTInv, PTL DEF Spec

\* Everything createMovement computes is a number of its type, the sums over a
\* product's entries included, and what it records fits the columns.
THEOREM TypesAreRight == Spec => []TypeOK
<1>1. TInv => TypeOK
  BY DEF TInv, IInv, TotalsTypeOK, TypeOK
<1>. QED  BY <1>1, TotalsInvariance, PTL

\* Only COMMIT takes a request past its transaction.
LEMMA OnlyCommitCommits ==
    ASSUME IInv, [Next]_vars, NEW r \in Requests, Commits(r)
    PROVE  Commit(r)
<1>0. /\ pc \in [Requests -> {"idle"} \cup InTransaction \cup AfterCommit \cup Settled]
      /\ pc[r] = "commit" /\ pc'[r] = "recheck"
  BY DEF IInv, StoreTypeOK, Commits
<1>1. ASSUME NEW s \in Requests,
             Submit(s) \/ Step(s) \/ Abort(s) \/ LoseAnswer(s) \/ BreakDeadlock(s)
      PROVE  s = r
  <2>1. \E to : pc' = [pc EXCEPT ![s] = to]
    BY <1>1
    DEF Submit, Step, FindProductAndWarehouse, FindMovementLocations, ReadPreviousStock,
        DecrementSourceStock, ReadCurrentQuantity, UpsertDestination, RecordMovement, Commit,
        RecheckStock, EmitLowStock, Abort, LoseAnswer, BreakDeadlock, Rollback, Go
  <2>. QED  BY <1>0, <2>1
<1>2. ~(Submit(r) \/ Abort(r) \/ LoseAnswer(r) \/ BreakDeadlock(r))
  BY <1>0 DEF Submit, Abort, LoseAnswer, BreakDeadlock, AfterCommit, Rollback, Go
<1>3. Step(r) => Commit(r)
  BY <1>0
  DEF Step, FindProductAndWarehouse, FindMovementLocations, ReadPreviousStock,
      DecrementSourceStock, ReadCurrentQuantity, UpsertDestination, RecordMovement,
      RecheckStock, EmitLowStock, Rollback, Go
<1>4. ASSUME UNCHANGED pc PROVE FALSE
  BY <1>0, <1>4
<1>. QED
  BY <1>1, <1>2, <1>3, <1>4
  DEF Next, Quiet, DeleteLocation, RemoveProduct, vars, locals

\* The change that a movement records is the change its commit makes to its
\* product's total, however stale the total it started from: previousStock is
\* read without a lock, the rows are changed by what the movement asks for.
THEOREM DeltasAreRight == Spec => RecordedDeltaIsTheChange
<1>1. ASSUME TInv, [Next]_vars, NEW r \in Requests, Commits(r), body[r].type # "ADJUSTMENT"
      PROVE  DeltaIsTheChange(r)
  <2>1. Commit(r)
    BY <1>1, OnlyCommitCommits DEF TInv
  <2>2. /\ body[r] \in Movements /\ HasItsLocations(body[r]) /\ qty' = Effect(qty, body[r])
    BY <1>1, <2>1, CommitIsTheEffect DEF TInv
  <2>3. qty \in [Keys -> Int] /\ body[r].product \in Products /\ body[r].quantity \in Int
    <3>1. body[r] \in Movements /\ qty \in [Keys -> Int]
      BY <1>1, <2>2 DEF TInv, IInv, StoreTypeOK
    <3>. QED  BY <3>1 DEF Movements
  <2>4. SumOver(qty', body[r].product) = NewStockOf(body[r], Total(body[r].product))
    BY <1>1, <2>2, <2>3, TotalOfEffect DEF Total
  <2>5. newStock[r] = NewStockOf(body[r], previousStock[r])
    BY <1>1 DEF TInv, NewStockFollows, Commits, PastAggregate
  <2>6. Total(body[r].product) \in Int /\ previousStock[r] \in Int
    BY <2>3, TotalIsNat, <1>1 DEF TInv, TotalsTypeOK
  <2>. QED  BY <2>3, <2>4, <2>5, <2>6 DEF DeltaIsTheChange, NewStockOf
<1>2. TInv /\ [Next]_vars =>
        [\A r \in Requests :
           Commits(r) /\ body[r].type # "ADJUSTMENT" => DeltaIsTheChange(r)]_vars
  BY <1>1
<1>. QED  BY <1>2, TotalsInvariance, PTL DEF Spec, RecordedDeltaIsTheChange
=============================================================================
