--------------------------- MODULE Matching_proof ---------------------------
(***************************************************************************)
(* What the matcher's reservations are worth.  For any number of matchers: *)
(* while the database answers and processes live, every reserved row has a *)
(* holder; a row whose holder died is left alone by everybody; a protected *)
(* order is cancelled by nobody but its owner.  With one loop, as README.md*)
(* promises: the pair it holds is nobody else's; it is the best by price   *)
(* and time; and when the executor answers truthfully and in time the book *)
(* agrees with the chain, or, after a crash, is behind it and never ahead. *)
(***************************************************************************)
EXTENDS Correctness_proof

\* A reserved row, and every row that is not reserved, stays as it is in that
\* respect.
RowsKept == \A o \in OrderId : status[o] = "matching" <=> status'[o] = "matching"

LEMMA UsersKeepRows ==
    ASSUME IInv, UserStep \/ Tick \/ UNCHANGED vars
    PROVE  RowsKept /\ UNCHANGED <<pc, cand>>
<1> USE DEF IInv, TypeOK, StoreTypeOK, matcherVars, RowsKept
<1>1. ASSUME NEW o \in OrderId, Insert(o) PROVE RowsKept /\ UNCHANGED <<pc, cand>>
  BY <1>1 DEF Insert, InsertOrder, Create, Duplicate, Placed
<1>2. ASSUME NEW k, CancelByOwnerNonce(k), UNCHANGED matcherVars
      PROVE  RowsKept /\ UNCHANGED <<pc, cand>>
  BY <1>2 DEF CancelByOwnerNonce, ActiveWithKey
<1>3. ASSUME ListBook PROVE RowsKept /\ UNCHANGED <<pc, cand>>
  BY <1>3 DEF ListBook, ReadBook, ExpireOrders, Due
<1>4. QED
  BY <1>1, <1>2, <1>3
  DEF UserStep, Submit, SubmitOrder, Conflict, RejectDuplicate, AskCancel,
      RequestCancel, Cancel, CancelOrder, Tick, ClockTick, vars, storeVars

\* A transaction that commits reserves rows and takes no reservation away.
LEMMA CommitKeepsReserved ==
    ASSUME LockInv, NEW m \in Matcher, NEW reserved, CommitTx(m, reserved),
           NEW o \in OrderId
    PROVE  /\ status[o] = "matching" => status'[o] = "matching"
           /\ status'[o] = "matching" => status[o] = "matching" \/ o \in reserved
<1>1. o \in tx[m].expired => status[o] = "active"
  BY OrderIdAssumption DEF LockInv, LocksProtectActiveRows, RowsLockedBy
<1>2. QED
  BY <1>1 DEF CommitTx

Holds(m, o) == pc[m] \in HasCandidate /\ o \in Pair(m)

\* What a step of m can do to the rows.
MatcherOnRows(m) ==
    \/ UNCHANGED status
    \/ \E reserved : CommitTx(m, reserved)
    \/ /\ pc[m] \in HasCandidate
       /\ \/ ReleaseMatch(Pair(m))
          \/ FinalizeMatch(cand[m].taker, cand[m].maker, cand[m].fill)

LEMMA MatcherSteps ==
    ASSUME NEW m \in Matcher, MatcherStep(m) \/ Failure(m)
    PROVE  MatcherOnRows(m)
<1> USE DEF MatcherOnRows, Goto, Return, HasCandidate, Holding, storeVars
<1>1. CASE Acquire(m) \/ Examine(m)
  BY <1>1 DEF Acquire, Examine, StartTick, BeginAcquire, BeginTx, LockBid,
     LockAsk, LockBest, FindNoPair, ReservePair, PassOver, RefuseUnits, SubmitMatch
<1>2. CASE ExecutorAnswer(m) \/ Settle(m)
  BY <1>2 DEF ExecutorAnswer, Executed, AlreadyFilled, SubmitReturns, Settle, Finalize,
     FinalizeFails, MarkMatchFailed, DeferredRelease
<1>3. CASE DatabaseFails(m)
  BY <1>3 DEF DatabaseFails, AbortAcquire, Rollback, ReserveUnacknowledged,
     FinalizeUnacknowledged, MarkMatchFailedFails, ReleaseFails
<1>4. CASE Failure(m) /\ ~DatabaseFails(m)
  BY <1>4 DEF Failure, Rejected, ReplyLost, TimesOut, NotAccepted, SubmitFails,
     SubmitReturns, MatcherCrash, Crash, Rollback
<1>5. QED
  BY <1>1, <1>2, <1>3, <1>4 DEF MatcherStep

-----------------------------------------------------------------------------
(* Rows without a holder *)

\* A matcher changes the reservation of no row but those of its candidate.
LEMMA MatcherKeepsOthersRows ==
    ASSUME LockInv, NEW m \in Matcher, MatcherStep(m) \/ Failure(m),
           NEW o \in OrderId, status[o] = "matching", ~Holds(m, o)
    PROVE  status'[o] = "matching"
<1>1. MatcherOnRows(m)
  BY MatcherSteps
<1>2. ASSUME NEW reserved, CommitTx(m, reserved) PROVE status'[o] = "matching"
  BY <1>2, CommitKeepsReserved
<1>3. QED
  BY <1>1, <1>2 DEF MatcherOnRows, ReleaseMatch, FinalizeMatch, Holds, Pair

LEMMA OrphansKept ==
    ASSUME IInv, LockInv, "quarantine" \notin Faults, [Next]_vars,
           NEW o \in OrderId, Orphaned(o)
    PROVE  status'[o] = "matching"
<1>1. status[o] = "matching" /\ \A m \in Matcher : o \notin Pair(m)
  BY DEF Orphaned
<1>2. CASE UserStep \/ Tick \/ UNCHANGED vars
  BY <1>1, <1>2, UsersKeepRows DEF RowsKept
<1>3. ASSUME NEW m \in Matcher, MatcherStep(m) \/ Failure(m) PROVE status'[o] = "matching"
  BY <1>1, <1>3, MatcherKeepsOthersRows DEF Holds
<1>4. ASSUME NEW c \in late, ExecuteLate(c) \/ RefuseLate(c) PROVE status'[o] = "matching"
  BY <1>1, <1>4 DEF ExecuteLate, RefuseLate, storeVars
<1>5. QED
  BY <1>2, <1>3, <1>4 DEF Next, RunQuarantine

\* A row whose reservation outlived its matcher is changed by no loop, user or
\* expiry, whatever else fails, until somebody runs the quarantine script.
THEOREM OrphansAreLeftAlone ==
    ASSUME "quarantine" \notin Faults
    PROVE  Spec => OrphansStayReserved
<1>1. IInv /\ LockInv /\ [Next]_vars =>
          [\A o \in OrderId : Orphaned(o) => status'[o] = "matching"]_vars
  BY OrphansKept
<1>2. QED
  BY <1>1, IInvHolds, LockInvHolds, PTL DEF Spec, OrphansStayReserved

-----------------------------------------------------------------------------
(* Every reserved row has a holder *)

\* A step of m takes nothing from the other matchers.
LEMMA OthersHold ==
    ASSUME IInv, NEW m \in Matcher, MatcherStep(m) \/ Failure(m), NEW n \in Matcher, n # m
    PROVE  pc'[n] = pc[n] /\ cand'[n] = cand[n]
<1> USE DEF IInv, TypeOK, MatcherTypeOK, Goto, Return, storeVars
<1>1. CASE Acquire(m)
  BY <1>1 DEF Acquire, StartTick, BeginAcquire, LockBid, LockAsk, FindNoPair, ReservePair
<1>2. CASE Examine(m)
  BY <1>2 DEF Examine, PassOver, RefuseUnits, SubmitMatch
<1>3. CASE SubmitReturns(m) \/ SubmitFails(m)
  BY <1>3 DEF SubmitReturns, SubmitFails
<1>4. CASE Settle(m)
  BY <1>4 DEF Settle, Finalize, FinalizeFails, MarkMatchFailed, DeferredRelease
<1>5. CASE DatabaseFails(m)
  BY <1>5 DEF DatabaseFails, AbortAcquire, ReserveUnacknowledged, FinalizeUnacknowledged,
     MarkMatchFailedFails, ReleaseFails
<1>6. CASE MatcherCrash(m)
  BY <1>6 DEF MatcherCrash, Crash
<1>7. QED
  BY <1>1, <1>2, <1>3, <1>4, <1>5, <1>6
  DEF MatcherStep, Failure, ExecutorAnswer, Executed, AlreadyFilled, Rejected, ReplyLost,
      TimesOut, NotAccepted

\* When the database answers, and unless it dies, m lets go of its candidate
\* only by settling its rows.
LEMMA HolderSettles ==
    ASSUME IInv, "dbError" \notin Faults,
           NEW m \in Matcher, MatcherStep(m) \/ Failure(m), ~MatcherCrash(m),
           NEW o \in OrderId, Holds(m, o), status'[o] = "matching"
    PROVE  Holds(m, o)'
<1> USE DEF IInv, TypeOK, MatcherTypeOK, Goto, Return, Holds, HasCandidate, Holding, Pair,
            storeVars
<1>1. CASE Acquire(m)
  BY <1>1 DEF Acquire, StartTick, BeginAcquire, LockBid, LockAsk, FindNoPair, ReservePair
<1>2. CASE Examine(m)
  BY <1>2 DEF Examine, PassOver, RefuseUnits, SubmitMatch
<1>3. CASE SubmitReturns(m) \/ SubmitFails(m)
  BY <1>3 DEF SubmitReturns, SubmitFails
<1>4. CASE Finalize(m)
  BY <1>4 DEF Finalize, FinalizeMatch, StatusAfterFill
<1>5. CASE FinalizeFails(m) \/ MarkMatchFailed(m)
  BY <1>5 DEF FinalizeFails, MarkMatchFailed
<1>6. CASE DeferredRelease(m)
  BY <1>6 DEF DeferredRelease, ReleaseMatch
<1>7. CASE AbortAcquire(m)
  BY <1>7 DEF AbortAcquire, Acquiring
<1>8. QED
  BY <1>1, <1>2, <1>3, <1>4, <1>5, <1>6, <1>7
  DEF MatcherStep, Failure, ExecutorAnswer, Executed, AlreadyFilled, Rejected, ReplyLost,
      TimesOut, NotAccepted, Settle, DatabaseFails, ReserveUnacknowledged,
      FinalizeUnacknowledged, MarkMatchFailedFails, ReleaseFails

\* A row is reserved by a matcher that then has it as a candidate.
LEMMA ReserverHolds ==
    ASSUME IInv, LockInv, "dbError" \notin Faults,
           NEW m \in Matcher, MatcherStep(m) \/ Failure(m),
           NEW o \in OrderId, status[o] # "matching", status'[o] = "matching"
    PROVE  Holds(m, o)'
<1>1. ~UNCHANGED status
  OBVIOUS
<1>2. ~FindNoPair(m)
  BY CommitKeepsReserved DEF FindNoPair
<1>3. \A rows : ~ReleaseMatch(rows)
  BY DEF ReleaseMatch
<1>4. ~Finalize(m)
  BY DEF Finalize, FinalizeMatch, StatusAfterFill
<1>5. CASE ReservePair(m)
  <2>1. pc'[m] = "reserved"
    BY <1>5 DEF ReservePair, Goto, IInv, TypeOK, MatcherTypeOK
  <2>2. o \in TopOfBook(m)
    BY <1>5, CommitKeepsReserved DEF ReservePair
  <2>3. TopOfBook(m) = Pair(m)'
    BY <1>5 DEF ReservePair, TopOfBook, ChooseTaker, Pair, IInv, TypeOK, MatcherTypeOK
  <2>4. QED
    BY <2>1, <2>2, <2>3 DEF Holds, HasCandidate, Holding
<1>6. CASE Acquire(m) /\ ~ReservePair(m)
  BY <1>1, <1>2, <1>6 DEF Acquire, StartTick, BeginAcquire, BeginTx, LockBid, LockAsk,
     LockBest, storeVars
<1>7. CASE ~Acquire(m)
  BY <1>1, <1>3, <1>4, <1>7 DEF MatcherStep, Examine, PassOver, RefuseUnits, SubmitMatch,
     ExecutorAnswer, Executed, AlreadyFilled, SubmitReturns, SubmitFails,
     Settle, FinalizeFails, MarkMatchFailed, DeferredRelease, Failure, DatabaseFails,
     AbortAcquire, Rollback, ReserveUnacknowledged, FinalizeUnacknowledged,
     MarkMatchFailedFails, ReleaseFails, Rejected, ReplyLost, TimesOut, NotAccepted,
     MatcherCrash, Crash, storeVars
<1>8. QED
  BY <1>5, <1>6, <1>7

LEMMA HoldersKept ==
    ASSUME IInv, LockInv, NoOrphans, "crash" \notin Faults, "dbError" \notin Faults,
           [Next]_vars
    PROVE  NoOrphans'
<1> SUFFICES ASSUME NEW o \in OrderId, status'[o] = "matching"
             PROVE  \E m \in Matcher : Holds(m, o)'
  BY DEF NoOrphans, Holds, HasCandidate
<1>1. status[o] = "matching" => \E m \in Matcher : Holds(m, o)
  BY DEF NoOrphans, Holds, HasCandidate
<1>2. CASE UserStep \/ Tick \/ UNCHANGED vars
  BY <1>1, <1>2, UsersKeepRows DEF RowsKept, Holds, Pair
<1>3. ASSUME NEW m \in Matcher, MatcherStep(m) \/ Failure(m)
      PROVE  \E n \in Matcher : Holds(n, o)'
  <2>1. CASE status[o] # "matching"
    BY <1>3, <2>1, ReserverHolds
  <2>2. ASSUME NEW n \in Matcher, Holds(n, o), n # m PROVE Holds(n, o)'
    BY <1>3, <2>2, OthersHold DEF Holds, Pair
  <2>3. CASE Holds(m, o)
    BY <1>3, <2>3, HolderSettles DEF MatcherCrash, Crash
  <2>4. QED
    BY <1>1, <2>1, <2>2, <2>3
<1>4. ASSUME NEW c \in late, ExecuteLate(c) \/ RefuseLate(c)
      PROVE  \E m \in Matcher : Holds(m, o)'
  BY <1>1, <1>4 DEF ExecuteLate, RefuseLate, storeVars, matcherVars, Holds, Pair
<1>5. ASSUME NEW mk \in Market, NEW keys \in SUBSET Key, RunQuarantine(mk, keys)
      PROVE  \E m \in Matcher : Holds(m, o)'
  <2>1. status[o] = "matching"
    BY <1>5 DEF RunQuarantine, Quarantine
  <2>2. QED
    BY <1>1, <1>5, <2>1 DEF RunQuarantine, matcherVars, Holds, Pair
<1>6. QED
  BY <1>2, <1>3, <1>4, <1>5 DEF Next

\* For any number of matchers, and whatever the executor, users and operators
\* do: as long as processes live and the database answers, no early return of
\* tickInstrument leaves a row reserved with nobody to release it.
THEOREM ReservedRowsAreHeld ==
    ASSUME "crash" \notin Faults, "dbError" \notin Faults
    PROVE  Spec => []NoOrphans
<1>1. Init => NoOrphans
  BY DEF Init, StoreInit, NoOrphans
<1>2. IInv /\ LockInv /\ NoOrphans /\ [Next]_vars => NoOrphans'
  BY HoldersKept
<1>3. QED
  BY <1>1, <1>2, IInvHolds, LockInvHolds, PTL DEF Spec

-----------------------------------------------------------------------------
(* Cancels *)

\* An owner's nonce is used once, and a cancel in flight is for the order that
\* validateCancelNamespace looked at.
KeysUsedOnce ==
    \A o, p \in OrderId : Placed(o) /\ Placed(p) /\ Order[o].key = Order[p].key => o = p
Backed(req) ==
    \E o \in OrderId : Placed(o) /\ Order[o].key = req.key /\ CancelAllowed(req.service, o)
CancelInv == KeysUsedOnce /\ \A req \in cancelling : Backed(req)

LEMMA NobodyElseCancels ==
    ASSUME TypeOK, "quarantine" \notin Faults, [Next]_vars, NEW o \in OrderId,
           Open(o), status'[o] = "cancelled"
    PROVE  \E req \in cancelling : Order[o].key = req.key
<1> USE DEF TypeOK, StoreTypeOK, Open
<1>1. ~UNCHANGED status
  OBVIOUS
<1>2. ASSUME NEW m \in Matcher, MatcherStep(m) \/ Failure(m) PROVE FALSE
  BY <1>1, <1>2, MatcherSteps
  DEF MatcherOnRows, CommitTx, ReleaseMatch, FinalizeMatch, StatusAfterFill
<1>3. ASSUME NEW p \in OrderId, Insert(p) PROVE FALSE
  BY <1>3 DEF Insert, InsertOrder, Create
<1>4. ~ListBook
  BY DEF ListBook, ReadBook, ExpireOrders
<1>5. ASSUME NEW req \in cancelling, Cancel(req) PROVE Order[o].key = req.key
  BY <1>5 DEF Cancel, CancelOrder, CancelByOwnerNonce, ActiveWithKey
<1>6. QED
  BY <1>1, <1>2, <1>3, <1>4, <1>5 DEF Next, UserStep, Submit, SubmitOrder, Conflict,
     RejectDuplicate, AskCancel, RequestCancel, ExecuteLate, RefuseLate, RunQuarantine,
     Tick, ClockTick, vars, storeVars

LEMMA OnlyInsertPlaces ==
    ASSUME TypeOK, LockInv, [Next]_vars, NEW o \in OrderId, ~Placed(o), Placed(o)'
    PROVE  Create(o)
<1> USE DEF TypeOK, StoreTypeOK, Placed
<1>1. ASSUME NEW p \in OrderId, Create(p) PROVE Create(o)
  BY <1>1 DEF Create
<1>2. ASSUME NEW m \in Matcher, NEW reserved \in SUBSET RowsLockedBy(m), CommitTx(m, reserved)
      PROVE  FALSE
  <2>1. o \notin RowsLockedBy(m)
    BY DEF LockInv, LocksProtectActiveRows
  <2>2. o \notin tx[m].expired \union reserved
    BY <2>1, OrderIdAssumption DEF RowsLockedBy
  <2>3. QED
    BY <1>2, <2>2 DEF CommitTx
<1>3. QED
  BY <1>1, <1>2, StepIsStoreStep
  DEF StoreStep, CancelByOwnerNonce, ActiveWithKey, ExpireOrders, Due, ReleaseMatch, BeginTx,
      LockBest, Rollback, FinalizeMatch, FillFits, Quarantine, Open, ClockTick, storeVars

LEMMA CancelInvKept ==
    ASSUME TypeOK, LockInv, CancelInv, [Next]_vars
    PROVE  CancelInv'
<1>1. \A o \in OrderId : Placed(o) => Placed(o)'
  BY StepIsStoreStep, PlacedIsForever DEF TypeOK, Placed
<1>2. KeysUsedOnce'
  <2> SUFFICES ASSUME NEW o \in OrderId, NEW p \in OrderId, Placed(o)', Placed(p)',
                      Order[o].key = Order[p].key, o # p
               PROVE  FALSE
    BY DEF KeysUsedOnce, Placed
  <2>1. ~Placed(o) \/ ~Placed(p)
    BY DEF CancelInv, KeysUsedOnce
  <2>2. ASSUME NEW q \in OrderId, Create(q)
        PROVE  \A r \in OrderId \ {q} : Placed(r)' => Placed(r) /\ Order[r].key # Order[q].key
    BY <2>2 DEF Create, Duplicate, TypeOK, StoreTypeOK, Placed
  <2>3. QED
    BY <2>1, <2>2, OnlyInsertPlaces
<1>3. ASSUME NEW req \in cancelling' PROVE Backed(req)'
  <2>1. CASE cancelling' \subseteq cancelling
    BY <1>1, <1>3, <2>1 DEF CancelInv, Backed
  <2>2. ASSUME NEW k \in Key, NEW service \in BOOLEAN, AskCancel(k, service)
        PROVE  Backed(req)'
    <3>1. PICK o \in ActiveWithKey(k) : CancelAllowed(service, o)
      BY <2>2 DEF AskCancel, RequestCancel
    <3>2. o \in OrderId /\ Placed(o) /\ Order[o].key = k
      BY <3>1 DEF ActiveWithKey, Placed
    <3>3. req \in cancelling \/ req = [key |-> k, service |-> service]
      BY <1>3, <2>2 DEF AskCancel, RequestCancel
    <3>4. Backed(req)
      BY <3>1, <3>2, <3>3 DEF CancelInv, Backed
    <3>5. QED
      BY <1>1, <3>4 DEF Backed
  <2>3. UNCHANGED cancelling => cancelling' \subseteq cancelling
    OBVIOUS
  <2>4. CASE UserStep
    BY <2>1, <2>2, <2>3, <2>4 DEF UserStep, Submit, SubmitOrder, Insert, InsertOrder, Conflict,
       RejectDuplicate, Cancel, CancelOrder, ListBook, ReadBook, apiVars
  <2>5. CASE ~UserStep
    BY <2>1, <2>3, <2>5 DEF Next, MatcherStep, Acquire, Examine, ExecutorAnswer, Executed,
       AlreadyFilled, Settle, Failure, DatabaseFails, Rejected, ReplyLost, TimesOut,
       NotAccepted, MatcherCrash, ExecuteLate, RefuseLate, RunQuarantine, Tick, vars, apiVars
  <2>6. QED
    BY <2>4, <2>5
<1>4. QED
  BY <1>2, <1>3 DEF CancelInv

LEMMA ServiceCancelsNoneProtected ==
    ASSUME TypeOK, CancelInv, "quarantine" \notin Faults, [Next]_vars, NEW o \in OrderId,
           Order[o].protected, Open(o), status'[o] = "cancelled"
    PROVE  [key |-> Order[o].key, service |-> FALSE] \in cancelling
<1>1. PICK req \in cancelling : Order[o].key = req.key
  BY NobodyElseCancels
<1>2. PICK p \in OrderId : Placed(p) /\ Order[p].key = req.key /\ CancelAllowed(req.service, p)
  BY DEF CancelInv, Backed
<1>3. p = o
  BY <1>1, <1>2 DEF CancelInv, KeysUsedOnce, Open, Placed
<1>4. req \in CancelRequest
  BY DEF TypeOK, ApiTypeOK
<1>5. ~req.service
  BY <1>2, <1>3 DEF CancelAllowed
<1>6. req = [key |-> Order[o].key, service |-> FALSE]
  BY <1>1, <1>4, <1>5 DEF CancelRequest
<1>7. QED
  BY <1>6

\* A service-tagged cancel removes no protected order, however long it waits
\* between validateCancelNamespace and its update.
THEOREM ServicesSpareProtectedOrders ==
    ASSUME "quarantine" \notin Faults
    PROVE  Spec => ProtectedFromService
<1>1. Init => CancelInv
  BY DEF Init, StoreInit, ApiInit, CancelInv, KeysUsedOnce, Placed
<1>2. TypeOK /\ LockInv /\ CancelInv /\ [Next]_vars => CancelInv'
  BY CancelInvKept
<1>3. TypeOK /\ CancelInv /\ [Next]_vars =>
          [\A o \in OrderId :
               Order[o].protected /\ Open(o) /\ status'[o] = "cancelled" =>
                   [key |-> Order[o].key, service |-> FALSE] \in cancelling]_vars
  BY ServiceCancelsNoneProtected
<1>4. QED
  BY <1>1, <1>2, <1>3, TypeCorrect, LockInvHolds, PTL DEF Spec, ProtectedFromService

-----------------------------------------------------------------------------
(* Steps of anyone but the matcher *)

\* What users, the clock and stuttering leave alone.
Outside ==
    /\ UNCHANGED <<pc, cand, chainFilled, late>>
    /\ \A o \in OrderId : status[o] = "matching" => status'[o] = "matching"
    /\ \A o \in OrderId : Placed(o) => filled'[o] = filled[o]
    /\ \A o \in OrderId : ~Placed(o) => filled'[o] \in {filled[o], Order[o].filled0}

LEMMA UsersAreOutside == ASSUME IInv, UserStep \/ Tick \/ UNCHANGED vars PROVE Outside
<1> USE DEF IInv, TypeOK, StoreTypeOK, matcherVars, executorVars, Placed
<1>1. ASSUME NEW o \in OrderId, Insert(o) PROVE Outside
  BY <1>1 DEF Insert, InsertOrder, Create, Duplicate, Outside
<1>2. ASSUME NEW k, CancelByOwnerNonce(k), UNCHANGED <<matcherVars, executorVars>>
      PROVE  Outside
  BY <1>2 DEF CancelByOwnerNonce, ActiveWithKey, Outside
<1>3. ASSUME ListBook PROVE Outside
  BY <1>3 DEF ListBook, ReadBook, ExpireOrders, Due, Outside
<1>4. ASSUME UNCHANGED <<status, filled, matcherVars, executorVars>> PROVE Outside
  BY <1>4 DEF Outside
<1>5. QED
  BY <1>1, <1>2, <1>3, <1>4
  DEF UserStep, Submit, SubmitOrder, Conflict, RejectDuplicate, AskCancel,
      RequestCancel, Cancel, CancelOrder, Tick, ClockTick, vars, storeVars

-----------------------------------------------------------------------------
(* The pair that the loop holds *)

\* m keeps its pair reserved, or lets go of it.
Keeps(m) ==
    /\ pc[m] \in Holding
    /\ UNCHANGED <<cand, status>>
Drops(m) == pc'[m] \notin Holding

LEMMA MatcherKeepsOrDrops ==
    ASSUME IInv, NEW m \in Matcher, MatcherStep(m) \/ Failure(m), ~ReservePair(m)
    PROVE  Keeps(m) \/ Drops(m)
<1> USE DEF IInv, TypeOK, MatcherTypeOK, Goto, Return, Holding, Keeps, Drops, storeVars
<1>1. ASSUME Acquire(m) PROVE Keeps(m) \/ Drops(m)
  BY <1>1 DEF Acquire, StartTick, BeginAcquire, LockBid, LockAsk, FindNoPair
<1>2. ASSUME Examine(m) PROVE Keeps(m) \/ Drops(m)
  BY <1>2 DEF Examine, PassOver, RefuseUnits, SubmitMatch
<1>3. ASSUME SubmitReturns(m) \/ SubmitFails(m) PROVE Keeps(m) \/ Drops(m)
  BY <1>3 DEF SubmitReturns, SubmitFails
<1>4. ASSUME Settle(m) PROVE Drops(m)
  BY <1>4 DEF Settle, Finalize, FinalizeFails, MarkMatchFailed, DeferredRelease
<1>5. ASSUME DatabaseFails(m) PROVE Drops(m)
  BY <1>5 DEF DatabaseFails, AbortAcquire, ReserveUnacknowledged,
     FinalizeUnacknowledged, MarkMatchFailedFails, ReleaseFails
<1>6. ASSUME MatcherCrash(m) PROVE Drops(m)
  BY <1>6 DEF MatcherCrash, Crash
<1>7. QED
  BY <1>1, <1>2, <1>3, <1>4, <1>5, <1>6
  DEF MatcherStep, Failure, ExecutorAnswer, Executed, AlreadyFilled, Rejected, ReplyLost,
      TimesOut, NotAccepted

\* The candidate that ReservePair makes.
LEMMA ReservedPair ==
    ASSUME IInv, NEW m \in Matcher, ReservePair(m)
    PROVE  /\ cand'[m].taker \in OrderId /\ cand'[m].maker \in OrderId
           /\ \A o \in {cand'[m].taker, cand'[m].maker} :
                  status'[o] = "matching" /\ cand'[m].fill <= Remaining(o)
           /\ UNCHANGED filled
<1> DEFINE bid == tx[m].bid
           ask == tx[m].ask
           taker == ChooseTaker(bid, ask)
           maker == IF taker = bid THEN ask ELSE bid
           c == [taker |-> taker, maker |-> maker, fill |-> FillOf(taker, maker)]
<1>1. bid \in OrderId /\ ask \in OrderId
  BY DEF ReservePair, TopOfBook, IInv, TypeOK, StoreTypeOK, Tx
<1>2. taker \in {bid, ask} /\ maker \in {bid, ask}
  BY DEF ChooseTaker
<1>3. {bid, ask} \intersect tx[m].expired = {}
  BY DEF IInv, PairInv, LockedSides
<1>4. cand'[m] = c
  BY DEF ReservePair, IInv, TypeOK, MatcherTypeOK
<1>5. \A o \in {bid, ask} : status'[o] = "matching"
  BY <1>1, <1>3 DEF ReservePair, CommitTx, TopOfBook
<1> HIDE DEF bid, ask, taker, maker
<1>6. Remaining(taker) \in Int /\ Remaining(maker) \in Int
  BY <1>1, <1>2, OrderAssumption DEF IInv, TypeOK, StoreTypeOK, Remaining
<1>7. FillOf(taker, maker) <= Remaining(taker) /\ FillOf(taker, maker) <= Remaining(maker)
  BY <1>6 DEF FillOf
<1>8. UNCHANGED filled
  BY DEF ReservePair, CommitTx
<1>9. QED
  BY <1>1, <1>2, <1>4, <1>5, <1>7, <1>8

LEMMA PairKept ==
    ASSUME IInv, HeldRowsStayReserved, NEW loop, Matcher = {loop},
           "quarantine" \notin Faults, [Next]_vars
    PROVE  HeldRowsStayReserved'
<1>1. /\ loop \in Matcher
      /\ pc[loop] \in Holding => Pair(loop) \subseteq OrderId
  BY DEF IInv, PairInv, CandidatePair, Opposite, HasCandidate, Pair
<1>2. CASE UserStep \/ Tick \/ UNCHANGED vars
  <2>1. Outside
    BY <1>2, UsersAreOutside
  <2>2. QED
    BY <1>1, <2>1 DEF Outside, HeldRowsStayReserved, Pair
<1>3. CASE ReservePair(loop)
  BY <1>3, ReservedPair DEF HeldRowsStayReserved, Pair
<1>4. CASE (MatcherStep(loop) \/ Failure(loop)) /\ ~ReservePair(loop)
  BY <1>1, <1>4, MatcherKeepsOrDrops DEF Keeps, Drops, HeldRowsStayReserved, Pair
<1>5. ASSUME NEW c \in late, ExecuteLate(c) \/ RefuseLate(c) PROVE HeldRowsStayReserved'
  BY <1>5 DEF ExecuteLate, RefuseLate, storeVars, matcherVars, HeldRowsStayReserved, Pair
<1>6. QED
  BY <1>2, <1>3, <1>4, <1>5 DEF Next, RunQuarantine

\* With one matching loop, and no operator at work, whatever users do and
\* whatever fails, the pair that tickInstrument works on stays reserved.
THEOREM PairStaysReserved ==
    ASSUME NEW loop, Matcher = {loop}, "quarantine" \notin Faults
    PROVE  Spec => []HeldRowsStayReserved
<1>1. Init => HeldRowsStayReserved
  BY DEF Init, MatcherInit, HeldRowsStayReserved, Holding
<1>2. IInv /\ HeldRowsStayReserved /\ [Next]_vars => HeldRowsStayReserved'
  BY PairKept
<1>3. QED
  BY <1>1, <1>2, IInvHolds, PTL DEF Spec

-----------------------------------------------------------------------------
(* The book and the chain, when the executor answers truthfully and in time *)

\* A reserved row that the loop does not hold: it belonged to a process that
\* died, and what became of its match on chain is not known.
SetApart(m, o) == status[o] = "matching" /\ ~Holds(m, o)

\* What has been executed and not yet finalized.
Owed(m, o) == IF pc[m] = "finalizing" /\ o \in Pair(m) THEN cand[m].fill ELSE 0

\* The candidate fits both orders for as long as it is held.
CandidateFits(m) ==
    pc[m] \in Holding => \A o \in Pair(m) : filled[o] + cand[m].fill <= Order[o].desired

\* Of a row set apart the chain may know more than the book does, of any other
\* it knows what is owed; what may still be executed late is a match of rows
\* set apart.
ChainInv(m) ==
    /\ HeldRowsStayReserved
    /\ CandidateFits(m)
    /\ \A o \in OrderId : ~Placed(o) => filled[o] = Order[o].filled0
    /\ \A o \in OrderId : SetApart(m, o) => filled[o] <= chainFilled[o]
    /\ \A o \in OrderId : ~SetApart(m, o) => chainFilled[o] = filled[o] + Owed(m, o)
    /\ \A c \in late : \A o \in {c.taker, c.maker} : o \in OrderId /\ SetApart(m, o)

\* The rows set apart are the same after the step.
ApartStays(m) == \A o \in OrderId : SetApart(m, o)' <=> SetApart(m, o)

\* Only ReservePair makes a candidate.
LEMMA CandidatesLast ==
    ASSUME IInv, NEW m \in Matcher, MatcherStep(m) \/ Failure(m), ~ReservePair(m),
           pc'[m] \in HasCandidate
    PROVE  pc[m] \in HasCandidate /\ UNCHANGED cand
<1> USE DEF IInv, TypeOK, MatcherTypeOK, Goto, Return, HasCandidate, Holding
<1>1. CASE Acquire(m)
  BY <1>1 DEF Acquire, StartTick, BeginAcquire, LockBid, LockAsk, FindNoPair
<1>2. CASE Examine(m)
  BY <1>2 DEF Examine, PassOver, RefuseUnits, SubmitMatch
<1>3. CASE SubmitReturns(m) \/ SubmitFails(m)
  BY <1>3 DEF SubmitReturns, SubmitFails
<1>4. CASE Settle(m)
  BY <1>4 DEF Settle, Finalize, FinalizeFails, MarkMatchFailed, DeferredRelease
<1>5. CASE DatabaseFails(m)
  BY <1>5 DEF DatabaseFails, AbortAcquire, ReserveUnacknowledged, FinalizeUnacknowledged,
     MarkMatchFailedFails, ReleaseFails
<1>6. CASE MatcherCrash(m)
  BY <1>6 DEF MatcherCrash, Crash
<1>7. QED
  BY <1>1, <1>2, <1>3, <1>4, <1>5, <1>6
  DEF MatcherStep, Failure, ExecutorAnswer, Executed, AlreadyFilled, Rejected, ReplyLost,
      TimesOut, NotAccepted

\* Nobody takes up a row that was set apart: only active rows are reserved.
LEMMA ApartForGood ==
    ASSUME IInv, LockInv, NEW m \in Matcher, MatcherStep(m) \/ Failure(m),
           NEW o \in OrderId, SetApart(m, o)
    PROVE  SetApart(m, o)'
<1>1. status'[o] = "matching"
  BY MatcherKeepsOthersRows DEF SetApart
<1>2. CASE ReservePair(m)
  <2>1. o \notin TopOfBook(m)
    BY <1>2 DEF ReservePair, BothActive, SetApart
  <2>2. Pair(m)' \subseteq TopOfBook(m)
    BY <1>2 DEF ReservePair, TopOfBook, ChooseTaker, Pair, IInv, TypeOK, MatcherTypeOK
  <2>3. QED
    BY <1>1, <2>1, <2>2 DEF SetApart, Holds
<1>3. CASE ~ReservePair(m)
  BY <1>1, <1>3, CandidatesLast DEF SetApart, Holds, Pair
<1>4. QED
  BY <1>2, <1>3

\* And a row is set apart only when its process dies.
LEMMA ApartByDeath ==
    ASSUME IInv, LockInv, "dbError" \notin Faults, NEW m \in Matcher,
           MatcherStep(m) \/ Failure(m), ~MatcherCrash(m)
    PROVE  ApartStays(m)
<1> SUFFICES ASSUME NEW o \in OrderId, SetApart(m, o)', ~SetApart(m, o) PROVE FALSE
  BY ApartForGood DEF ApartStays
<1>1. CASE Holds(m, o)
  BY <1>1, HolderSettles DEF SetApart
<1>2. CASE ~Holds(m, o)
  BY <1>2, ReserverHolds DEF SetApart
<1>3. QED
  BY <1>1, <1>2

\* A step that fills nothing and, at its end, owes nothing.
Quiet(m) ==
    /\ UNCHANGED <<filled, chainFilled, late>>
    /\ pc[m] # "finalizing" /\ pc'[m] # "finalizing"
    /\ pc'[m] \in Holding => pc[m] \in Holding /\ UNCHANGED cand

LEMMA QuietSteps ==
    ASSUME IInv, NEW m \in Matcher, "dbError" \notin Faults,
           \/ Acquire(m) /\ ~ReservePair(m)
           \/ Examine(m)
           \/ MarkMatchFailed(m) /\ UNCHANGED executorVars
           \/ DeferredRelease(m) /\ UNCHANGED executorVars
           \/ AbortAcquire(m) /\ UNCHANGED executorVars
           \/ Rejected(m)
    PROVE  Quiet(m)
<1> USE DEF IInv, TypeOK, MatcherTypeOK, Goto, Return, Holding, Acquiring, Quiet,
            storeVars, executorVars
<1>1. CASE Acquire(m) /\ ~ReservePair(m)
  BY <1>1 DEF Acquire, StartTick, BeginAcquire, BeginTx, LockBid, LockAsk, LockBest,
     FindNoPair, CommitTx
<1>2. CASE Examine(m)
  BY <1>2 DEF Examine, PassOver, RefuseUnits, SubmitMatch
<1>3. CASE (MarkMatchFailed(m) \/ DeferredRelease(m)) /\ UNCHANGED executorVars
  BY <1>3 DEF MarkMatchFailed, DeferredRelease, ReleaseMatch
<1>4. CASE AbortAcquire(m) /\ UNCHANGED executorVars
  BY <1>4 DEF AbortAcquire, Rollback
<1>5. CASE Rejected(m)
  BY <1>5 DEF Rejected, SubmitFails
<1>6. QED
  BY <1>1, <1>2, <1>3, <1>4, <1>5

\* With these faults, what a step of the matcher may be.
LEMMA TruthfulSteps ==
    ASSUME NEW m \in Matcher, Faults \subseteq {"crash", "reject"}, MatcherStep(m) \/ Failure(m)
    PROVE  \/ Acquire(m) /\ ~ReservePair(m)
           \/ Examine(m)
           \/ MarkMatchFailed(m) /\ UNCHANGED executorVars
           \/ DeferredRelease(m) /\ UNCHANGED executorVars
           \/ AbortAcquire(m) /\ UNCHANGED executorVars
           \/ Rejected(m)
           \/ ReservePair(m) /\ UNCHANGED executorVars
           \/ Executed(m)
           \/ AlreadyFilled(m)
           \/ Finalize(m) /\ UNCHANGED executorVars
           \/ FinalizeFails(m)
           \/ MatcherCrash(m)
<1>1. \A fault \in FaultKinds \ {"crash", "reject"} : fault \notin Faults
  OBVIOUS
<1>2. QED
  BY <1>1 DEF FaultKinds, MatcherStep, ExecutorAnswer, Failure, Acquire, Settle, DatabaseFails,
     ReserveUnacknowledged, FinalizeUnacknowledged, MarkMatchFailedFails,
     ReleaseFails, ReplyLost, TimesOut, NotAccepted

LEMMA OwedStays ==
    ASSUME IInv, NEW m \in Matcher, ChainInv(m), Quiet(m), ApartStays(m),
           HeldRowsStayReserved', \A o \in OrderId : Placed(o) => Placed(o)'
    PROVE  ChainInv(m)'
<1>1. \A o \in OrderId : Owed(m, o) = 0 /\ Owed(m, o)' = 0
  BY DEF Quiet, Owed
<1>2. CandidateFits(m)'
  BY DEF ChainInv, CandidateFits, Quiet, Pair
<1>3. QED
  BY <1>1, <1>2 DEF ChainInv, Quiet, ApartStays, Placed

LEMMA OutsideOwesTheSame ==
    ASSUME IInv, NEW m \in Matcher, ChainInv(m), Outside, RowsKept, HeldRowsStayReserved',
           \A o \in OrderId : Placed(o) => Placed(o)'
    PROVE  ChainInv(m)'
<1>1. \A o \in OrderId : filled'[o] = filled[o]
  BY DEF ChainInv, Outside
<1>2. \A o \in OrderId : Owed(m, o)' = Owed(m, o)
  BY DEF Outside, Owed, Pair
<1>3. pc[m] \in Holding => Pair(m) \subseteq OrderId
  BY DEF IInv, PairInv, CandidatePair, Opposite, HasCandidate, Pair
<1>4. CandidateFits(m)'
  BY <1>1, <1>3 DEF ChainInv, CandidateFits, Outside, Pair
<1>5. ApartStays(m)
  BY DEF ApartStays, SetApart, Holds, Outside, RowsKept, Pair
<1>6. QED
  BY <1>1, <1>2, <1>4, <1>5 DEF ChainInv, Outside, ApartStays

LEMMA ReservedFits ==
    ASSUME IInv, IInv', NEW m \in Matcher, ChainInv(m), ReservePair(m), ApartStays(m),
           UNCHANGED executorVars, HeldRowsStayReserved',
           \A o \in OrderId : Placed(o) => Placed(o)'
    PROVE  ChainInv(m)'
<1>1. pc[m] = "reserve" /\ pc'[m] = "reserved"
  BY DEF ReservePair, Goto, IInv, TypeOK, MatcherTypeOK
<1>2. \A o \in OrderId : Owed(m, o) = 0 /\ Owed(m, o)' = 0
  BY <1>1 DEF Owed
<1>3. CandidateFits(m)'
  <2>1. cand'[m].fill \in Nat
    BY DEF IInv, TypeOK, MatcherTypeOK, Match
  <2>2. ASSUME NEW o \in Pair(m)' PROVE (filled[o] + cand[m].fill <= Order[o].desired)'
    <3>1. o \in OrderId /\ filled'[o] = filled[o] /\ cand'[m].fill <= Remaining(o)
      BY <2>2, ReservedPair DEF Pair
    <3>2. filled[o] \in Int /\ Order[o].desired \in Int
      BY <3>1, OrderAssumption DEF IInv, TypeOK, StoreTypeOK
    <3>3. QED
      BY <2>1, <3>1, <3>2 DEF Remaining
  <2>3. QED
    BY <2>2 DEF CandidateFits
<1>4. QED
  BY <1>2, <1>3, ReservedPair DEF ChainInv, executorVars, ApartStays

\* What the loop holds is not set apart.
LEMMA HeldAgrees ==
    ASSUME IInv, NEW m \in Matcher, ChainInv(m), pc[m] \in Holding
    PROVE  /\ Pair(m) \subseteq OrderId
           /\ \A o \in Pair(m) : /\ status[o] = "matching"
                                 /\ ~SetApart(m, o)
                                 /\ chainFilled[o] = filled[o] + Owed(m, o)
<1>1. Pair(m) \subseteq OrderId
  BY DEF IInv, PairInv, CandidatePair, Opposite, HasCandidate, Pair
<1>2. QED
  BY <1>1 DEF ChainInv, HeldRowsStayReserved, SetApart, Holds, HasCandidate

LEMMA ExecutedOwes ==
    ASSUME IInv, NEW m \in Matcher, ChainInv(m), Executed(m), ApartStays(m),
           HeldRowsStayReserved'
    PROVE  ChainInv(m)'
<1>1. /\ pc[m] = "submitting" /\ pc'[m] = "finalizing"
      /\ UNCHANGED <<cand, filled, status, late>>
  BY DEF Executed, SubmitReturns, Goto, IInv, TypeOK, MatcherTypeOK, storeVars
<1>2. \A o \in OrderId : /\ Owed(m, o) = 0
                         /\ chainFilled'[o] = chainFilled[o] + Owed(m, o)'
  <2>1. \A o \in OrderId : chainFilled[o] \in Nat
    BY DEF IInv, TypeOK, ExecutorTypeOK
  <2>2. QED
    BY <1>1, <2>1 DEF Executed, ExecuteOnChain, Owed, Pair
<1>3. \A o \in OrderId : filled[o] \in Nat /\ chainFilled[o] \in Nat
  BY DEF IInv, TypeOK, StoreTypeOK, ExecutorTypeOK
<1>4. CandidateFits(m)'
  BY <1>1 DEF ChainInv, CandidateFits, Holding, Pair
<1>5. ASSUME NEW o \in OrderId, SetApart(m, o) PROVE chainFilled'[o] = chainFilled[o]
  <2>1. o \notin Pair(m)
    BY <1>1, <1>5, HeldAgrees DEF Holding
  <2>2. QED
    BY <1>1, <1>2, <1>3, <2>1 DEF Owed, Pair
<1>6. QED
  BY <1>1, <1>2, <1>3, <1>4, <1>5 DEF ChainInv, ApartStays, Placed

\* The contract never refuses: what the matcher submits fits on chain too.
LEMMA NothingFilledBefore ==
    ASSUME IInv, NEW m \in Matcher, ChainInv(m)
    PROVE  ~AlreadyFilled(m)
<1> SUFFICES ASSUME AlreadyFilled(m) PROVE FALSE
  OBVIOUS
<1>1. pc[m] = "submitting" /\ ~ChainAdmits(cand[m])
  BY DEF AlreadyFilled, SubmitReturns, Goto
<1>2. Pair(m) \subseteq OrderId /\ \A o \in Pair(m) : chainFilled[o] = filled[o]
  BY <1>1, HeldAgrees DEF Owed, Holding, IInv, TypeOK, StoreTypeOK
<1>3. QED
  BY <1>1, <1>2 DEF ChainInv, CandidateFits, Holding, ChainAdmits, Pair

\* Nor does the store.
LEMMA NothingInTheWay ==
    ASSUME IInv, NEW m \in Matcher, ChainInv(m), "dbError" \notin Faults
    PROVE  ~FinalizeFails(m)
BY DEF FinalizeFails, Goto, ChainInv, CandidateFits, HeldRowsStayReserved, Holding,
   CanFinalize, FillFits

LEMMA FinalizedOwesNothing ==
    ASSUME IInv, NEW m \in Matcher, ChainInv(m), Finalize(m), ApartStays(m),
           UNCHANGED executorVars, HeldRowsStayReserved',
           \A o \in OrderId : Placed(o) => Placed(o)'
    PROVE  ChainInv(m)'
<1>1. pc[m] = "finalizing" /\ pc'[m] = "idle"
  BY DEF Finalize, Return, Goto, IInv, TypeOK, MatcherTypeOK
<1>2. \A o \in OrderId : filled'[o] = filled[o] + Owed(m, o)
  <2>1. \A o \in OrderId : filled[o] \in Nat
    BY DEF IInv, TypeOK, StoreTypeOK
  <2>2. QED
    BY <1>1, <2>1 DEF Finalize, FinalizeMatch, Owed, Pair
<1>3. \A o \in OrderId : Owed(m, o)' = 0
  BY <1>1 DEF Owed
<1>4. ASSUME NEW o \in OrderId, ~Placed(o) PROVE filled'[o] = filled[o]
  BY <1>4 DEF Finalize, FinalizeMatch, FillFits, Placed
<1>5. CandidateFits(m)'
  BY <1>1 DEF CandidateFits, Holding
<1>6. ASSUME NEW o \in OrderId, ~SetApart(m, o)
      PROVE  chainFilled'[o] = filled'[o] + Owed(m, o)'
  <2>1. chainFilled'[o] = filled'[o] /\ filled'[o] \in Int
    BY <1>2, <1>6 DEF ChainInv, executorVars, IInv, TypeOK, ExecutorTypeOK
  <2>2. QED
    BY <1>3, <2>1
<1>7. ASSUME NEW o \in OrderId, SetApart(m, o) PROVE filled'[o] = filled[o]
  <2>1. o \notin Pair(m)
    BY <1>1, <1>7, HeldAgrees DEF Holding
  <2>2. QED
    BY <1>2, <2>1 DEF Owed, IInv, TypeOK, StoreTypeOK
<1>8. QED
  BY <1>4, <1>5, <1>6, <1>7 DEF ChainInv, executorVars, ApartStays, Placed

\* The rows of the process that dies join those set apart, and with them what
\* the executor still has of its match.
LEMMA DeathSetsApart ==
    ASSUME IInv, LockInv, NEW m \in Matcher, ChainInv(m), MatcherCrash(m), HeldRowsStayReserved'
    PROVE  ChainInv(m)'
<1>1. /\ pc'[m] = "idle" /\ UNCHANGED <<status, filled, chainFilled>>
      /\ late' = IF pc[m] = "submitting" THEN late \union {cand[m]} ELSE late
  BY DEF MatcherCrash, Crash, Return, Goto, Rollback, IInv, TypeOK, MatcherTypeOK
<1>2. \A o \in OrderId : SetApart(m, o)' <=> status[o] = "matching"
  BY <1>1 DEF SetApart, Holds, HasCandidate, Holding
<1>3. \A o \in OrderId : Owed(m, o)' = 0
  BY <1>1 DEF Owed
<1>4. \A o \in OrderId : /\ filled[o] \in Nat /\ chainFilled[o] \in Nat
                         /\ Owed(m, o) \in Nat
  BY DEF Owed, IInv, TypeOK, StoreTypeOK, ExecutorTypeOK, MatcherTypeOK, Match
<1>5. ASSUME NEW o \in OrderId, status[o] # "matching"
      PROVE  chainFilled'[o] = filled'[o] + Owed(m, o)'
  <2>1. Owed(m, o) = 0
    BY <1>5, HeldAgrees DEF Owed, Holding
  <2>2. QED
    BY <1>1, <1>3, <1>5, <2>1 DEF ChainInv, SetApart
<1>6. ASSUME NEW o \in OrderId PROVE filled'[o] <= chainFilled'[o]
  BY <1>1, <1>4 DEF ChainInv
<1>7. ASSUME NEW c \in late', NEW o \in {c.taker, c.maker}
      PROVE  o \in OrderId /\ SetApart(m, o)'
  <2>1. CASE c \in late
    BY <1>2, <1>7, <2>1 DEF ChainInv, SetApart
  <2>2. CASE pc[m] = "submitting" /\ c = cand[m]
    BY <1>2, <1>7, <2>2, HeldAgrees DEF Holding, Pair
  <2>3. QED
    BY <1>1, <2>1, <2>2
<1>8. CandidateFits(m)'
  BY <1>1 DEF CandidateFits, Holding
<1>9. QED
  BY <1>1, <1>2, <1>5, <1>6, <1>7, <1>8 DEF ChainInv, Placed

LEMMA LateStaysApart ==
    ASSUME IInv, NEW m \in Matcher, ChainInv(m), NEW c \in late, ExecuteLate(c) \/ RefuseLate(c)
    PROVE  ChainInv(m)'
<1>1. /\ UNCHANGED <<status, filled, pc, cand>> /\ late' \subseteq late
      /\ \A o \in OrderId : \/ chainFilled'[o] = chainFilled[o]
                            \/ /\ o \in {c.taker, c.maker}
                               /\ chainFilled'[o] = chainFilled[o] + c.fill
  BY DEF ExecuteLate, RefuseLate, LateExecution, LateRefusal, ExecuteOnChain,
     storeVars, matcherVars, IInv, TypeOK, ExecutorTypeOK
<1>2. c.fill \in Nat /\ \A o \in OrderId : filled[o] \in Nat /\ chainFilled[o] \in Nat
  BY DEF IInv, TypeOK, StoreTypeOK, ExecutorTypeOK, Match
<1>3. \A o \in OrderId : /\ SetApart(m, o)' <=> SetApart(m, o)
                         /\ Owed(m, o)' = Owed(m, o)
  BY <1>1 DEF SetApart, Holds, Owed, Pair
<1>4. \A o \in {c.taker, c.maker} : o \in OrderId /\ SetApart(m, o)
  BY DEF ChainInv
<1>5. HeldRowsStayReserved' /\ CandidateFits(m)'
  BY <1>1 DEF ChainInv, HeldRowsStayReserved, CandidateFits, Pair
<1>6. ASSUME NEW o \in OrderId, SetApart(m, o) PROVE filled[o] <= chainFilled'[o]
  BY <1>1, <1>2, <1>6 DEF ChainInv
<1>7. QED
  BY <1>1, <1>3, <1>4, <1>5, <1>6 DEF ChainInv, Placed

LEMMA ChainKept ==
    ASSUME IInv, LockInv, NEW loop, Matcher = {loop}, Faults \subseteq {"crash", "reject"},
           ChainInv(loop), [Next]_vars
    PROVE  ChainInv(loop)'
<1>1. loop \in Matcher /\ "dbError" \notin Faults /\ "quarantine" \notin Faults
  OBVIOUS
<1>2. IInv' /\ HeldRowsStayReserved'
  BY <1>1, NextKeepsIInv, PairKept DEF ChainInv
<1>3. \A o \in OrderId : Placed(o) => Placed(o)'
  BY StepIsStoreStep, PlacedIsForever DEF IInv, TypeOK, Placed
<1>4. CASE UserStep \/ Tick \/ UNCHANGED vars
  BY <1>1, <1>2, <1>3, <1>4, UsersAreOutside, UsersKeepRows, OutsideOwesTheSame
<1>5. CASE MatcherCrash(loop)
  BY <1>1, <1>2, <1>5, DeathSetsApart
<1>6. CASE (MatcherStep(loop) \/ Failure(loop)) /\ ~MatcherCrash(loop)
  <2>1. ApartStays(loop)
    BY <1>1, <1>6, ApartByDeath
  <2>2. CASE Quiet(loop)
    BY <1>1, <1>2, <1>3, <2>1, <2>2, OwedStays
  <2>3. CASE ReservePair(loop) /\ UNCHANGED executorVars
    BY <1>1, <1>2, <1>3, <2>1, <2>3, ReservedFits
  <2>4. CASE Executed(loop)
    BY <1>1, <1>2, <2>1, <2>4, ExecutedOwes
  <2>5. CASE Finalize(loop) /\ UNCHANGED executorVars
    BY <1>1, <1>2, <1>3, <2>1, <2>5, FinalizedOwesNothing
  <2>6. QED
    BY <1>1, <1>6, <2>2, <2>3, <2>4, <2>5, TruthfulSteps, QuietSteps, NothingFilledBefore,
       NothingInTheWay
<1>7. ASSUME NEW c \in late, ExecuteLate(c) \/ RefuseLate(c) PROVE ChainInv(loop)'
  BY <1>1, <1>7, LateStaysApart
<1>8. QED
  BY <1>1, <1>4, <1>5, <1>6, <1>7 DEF Next, RunQuarantine

LEMMA ChainInvHolds ==
    ASSUME NEW loop, Matcher = {loop}, Faults \subseteq {"crash", "reject"}
    PROVE  Spec => []ChainInv(loop)
<1>1. Init => ChainInv(loop)
  <2> SUFFICES ASSUME Init PROVE ChainInv(loop)
    OBVIOUS
  <2>1. pc[loop] = "idle" /\ late = {} /\ \A o \in OrderId : status[o] = "none"
    BY DEF Init, StoreInit, MatcherInit, ExecutorInit
  <2>2. \A o \in OrderId : filled[o] = Order[o].filled0 /\ chainFilled[o] = Order[o].filled0
                           /\ Order[o].filled0 \in Nat
    BY OrderAssumption DEF Init, StoreInit, ExecutorInit
  <2>3. HeldRowsStayReserved
    BY DEF Init, MatcherInit, HeldRowsStayReserved, Holding
  <2>4. QED
    BY <2>1, <2>2, <2>3 DEF ChainInv, CandidateFits, SetApart, Owed, Holding
<1>2. IInv /\ LockInv /\ ChainInv(loop) /\ [Next]_vars => ChainInv(loop)'
  BY ChainKept
<1>3. QED
  BY <1>1, <1>2, IInvHolds, LockInvHolds, PTL DEF Spec

\* With one matching loop that may die at any step and be restarted, and an
\* executor that may reject and may execute what a dead process has sent, the
\* book never shows a fill that did not happen on chain.
THEOREM CrashesForgeNoFills ==
    ASSUME NEW loop, Matcher = {loop}, Faults \subseteq {"crash", "reject"}
    PROVE  Spec => []NoPhantomFills
<1>1. IInv /\ ChainInv(loop) => NoPhantomFills
  <2> SUFFICES ASSUME IInv, ChainInv(loop), NEW o \in OrderId
               PROVE  filled[o] <= chainFilled[o]
    BY DEF NoPhantomFills
  <2>1. filled[o] \in Nat /\ chainFilled[o] \in Nat /\ Owed(loop, o) \in Nat
    BY DEF Owed, IInv, TypeOK, StoreTypeOK, ExecutorTypeOK, MatcherTypeOK, Match
  <2>2. QED
    BY <2>1 DEF ChainInv
<1>2. QED
  BY <1>1, ChainInvHolds, IInvHolds, PTL

\* With one matching loop and an executor that answers truthfully and in time,
\* the book and the chain agree except for the match whose finalization is
\* under way.
THEOREM BookFollowsChain ==
    ASSUME NEW loop, Matcher = {loop}, Faults \subseteq {"reject"}
    PROVE  Spec => []BookMatchesChain
<1>1. /\ "crash" \notin Faults /\ "dbError" \notin Faults
      /\ Faults \subseteq {"crash", "reject"}
  OBVIOUS
<1>2. Spec => []NoOrphans
  BY <1>1, ReservedRowsAreHeld
<1>3. Spec => []ChainInv(loop)
  BY <1>1, ChainInvHolds
<1>4. IInv /\ NoOrphans /\ ChainInv(loop) => BookMatchesChain
  <2> SUFFICES ASSUME IInv, NoOrphans, ChainInv(loop), NEW o \in OrderId
               PROVE  chainFilled[o] = filled[o] \/ InHand(o)
    BY DEF BookMatchesChain
  <2>1. ~SetApart(loop, o)
    BY DEF NoOrphans, SetApart, Holds, HasCandidate
  <2>2. chainFilled[o] = filled[o] + Owed(loop, o) /\ filled[o] \in Nat
    BY <2>1 DEF ChainInv, IInv, TypeOK, StoreTypeOK
  <2>3. QED
    BY <2>2 DEF Owed, InHand
<1>5. QED
  BY <1>2, <1>3, <1>4, IInvHolds, PTL

-----------------------------------------------------------------------------
(* Price and time priority *)

\* The rows that were in the book before the tick of m looked at the clock.
Aged(m) == {o \in OrderId : status[o] = "active" /\ created[o] < asOf[m]}

\* What m has locked is the best of these.
BestOfSide(m, best, side) ==
    best # NoOrder =>
        \A o \in Aged(m) \ tx[m].expired :
            Order[o].market = tx[m].market /\ Order[o].side = side => ~Before(o, best)

BestOfPair(m) ==
    \A p \in Pair(m) : \A o \in Aged(m) :
        Order[o].market = Order[p].market /\ Order[o].side = Order[p].side => ~Before(o, p)

PriorityInv(m) ==
    /\ asOf[m] <= now
    /\ pc[m] \in {"lockAsk", "reserve"} => BestOfSide(m, tx[m].bid, "buy")
    /\ pc[m] = "reserve" => BestOfSide(m, tx[m].ask, "sell")
    /\ pc[m] \in Holding => BestOfPair(m)

\* No row of the book gets a new timestamp, and what is new in it is younger
\* than the tick.
NothingAged(m) ==
    /\ \A o \in OrderId : Placed(o) => created'[o] = created[o]
    /\ asOf'[m] = asOf[m]
    /\ Aged(m)' \subseteq Aged(m)

LEMMA BestStays ==
    ASSUME IInv, LockInv, NEW m \in Matcher, NothingAged(m), tx'[m].market = tx[m].market,
           tx'[m].expired = tx[m].expired, NEW best \in RowsLockedBy(m) \union {NoOrder}, NEW side,
           BestOfSide(m, best, side)
    PROVE  best # NoOrder =>
               \A o \in Aged(m)' \ tx'[m].expired :
                   Order[o].market = tx'[m].market /\ Order[o].side = side => ~Before(o, best)'
<1> SUFFICES ASSUME best # NoOrder, NEW o \in Aged(m)' \ tx'[m].expired,
                    Order[o].market = tx'[m].market, Order[o].side = side
             PROVE  ~Before(o, best)'
  OBVIOUS
<1>1. o \in Aged(m) \ tx[m].expired /\ ~Before(o, best)
  BY DEF NothingAged, BestOfSide
<1>2. status[best] = "active" /\ best \in OrderId
  BY DEF LockInv, LocksProtectActiveRows, RowsLockedBy, Tx
<1>3. created'[o] = created[o] /\ created'[best] = created[best]
  BY <1>1, <1>2 DEF NothingAged, Aged, Placed
<1>4. QED
  BY <1>1, <1>3 DEF Before, BetterPrice

LEMMA PairStaysBest ==
    ASSUME IInv, NEW m \in Matcher, NothingAged(m), pc[m] \in Holding, UNCHANGED cand,
           BestOfPair(m)
    PROVE  BestOfPair(m)'
<1> SUFFICES ASSUME NEW p \in Pair(m), NEW o \in Aged(m)',
                    Order[o].market = Order[p].market, Order[o].side = Order[p].side
             PROVE  ~Before(o, p)'
  BY DEF BestOfPair, Pair
<1>1. o \in Aged(m) /\ ~Before(o, p)
  BY DEF NothingAged, BestOfPair
<1>2. p \in OrderId /\ Placed(p)
  BY DEF IInv, PairInv, CandidatePair, HasCandidate, Opposite, Pair
<1>3. created'[o] = created[o] /\ created'[p] = created[p]
  BY <1>1, <1>2 DEF NothingAged, Aged, Placed
<1>4. QED
  BY <1>1, <1>3 DEF Before, BetterPrice

\* Steps of everybody but the matcher.
OthersStep ==
    \/ UserStep \/ Tick \/ UNCHANGED vars
    \/ \E c \in late : ExecuteLate(c) \/ RefuseLate(c)
    \/ \E mk \in Market, keys \in SUBSET Key : RunQuarantine(mk, keys)

LEMMA OthersAgeNothing ==
    ASSUME IInv, NEW m \in Matcher, PriorityInv(m), OthersStep
    PROVE  NothingAged(m) /\ UNCHANGED <<tx, pc, cand>> /\ now' \in Nat /\ now <= now'
<1> USE DEF IInv, TypeOK, StoreTypeOK, MatcherTypeOK, NothingAged, Aged, Placed, matcherVars,
            storeVars
<1> DEFINE Goal == NothingAged(m) /\ UNCHANGED <<tx, pc, cand>> /\ now' \in Nat /\ now <= now'
<1>1. ASSUME NEW o \in OrderId, Insert(o) PROVE Goal
  <2>1. ~Placed(o) /\ created' = [created EXCEPT ![o] = now]
    BY <1>1 DEF Insert, InsertOrder, Create, Duplicate
  <2>2. created'[o] = now /\ ~(now < asOf[m])
    BY <2>1 DEF PriorityInv
  <2>3. QED
    BY <1>1, <2>1, <2>2 DEF Insert, InsertOrder, Create
<1>2. ASSUME NEW k, CancelByOwnerNonce(k), UNCHANGED matcherVars PROVE Goal
  BY <1>2 DEF CancelByOwnerNonce
<1>3. ASSUME ListBook PROVE Goal
  BY <1>3 DEF ListBook, ReadBook, ExpireOrders
<1>4. ASSUME Tick PROVE Goal
  BY <1>4 DEF Tick, ClockTick
<1>5. ASSUME NEW mk \in Market, NEW keys \in SUBSET Key, RunQuarantine(mk, keys) PROVE Goal
  BY <1>5 DEF RunQuarantine, Quarantine
<1>6. ASSUME UNCHANGED <<storeVars, matcherVars>> PROVE Goal
  BY <1>6
<1>7. QED
  BY <1>1, <1>2, <1>3, <1>4, <1>5, <1>6
  DEF OthersStep, UserStep, Submit, SubmitOrder, Conflict, RejectDuplicate, AskCancel,
      RequestCancel, Cancel, CancelOrder, ExecuteLate, RefuseLate, vars

LEMMA OthersKeepPriority ==
    ASSUME IInv, LockInv, NEW m \in Matcher, PriorityInv(m), OthersStep
    PROVE  PriorityInv(m)'
<1>1. NothingAged(m) /\ UNCHANGED <<tx, pc, cand>> /\ now' \in Nat /\ now <= now'
  BY OthersAgeNothing
<1>2. asOf'[m] <= now'
  <2>1. asOf[m] \in Nat /\ now \in Nat /\ now' \in Int
    BY <1>1 DEF IInv, TypeOK, StoreTypeOK, MatcherTypeOK
  <2>2. QED
    BY <1>1, <2>1 DEF PriorityInv, NothingAged
<1>3. {tx[m].bid, tx[m].ask} \subseteq RowsLockedBy(m) \union {NoOrder}
  BY DEF RowsLockedBy
<1>4. pc'[m] \in {"lockAsk", "reserve"} => BestOfSide(m, tx[m].bid, "buy")'
  BY <1>1, <1>3, BestStays DEF PriorityInv, BestOfSide
<1>5. pc'[m] = "reserve" => BestOfSide(m, tx[m].ask, "sell")'
  BY <1>1, <1>3, BestStays DEF PriorityInv, BestOfSide
<1>6. pc'[m] \in Holding => BestOfPair(m)'
  BY <1>1, PairStaysBest DEF PriorityInv
<1>7. QED
  BY <1>2, <1>4, <1>5, <1>6 DEF PriorityInv

\* What a step of m does to times, and which steps lock a row.
LEMMA MatcherAgesNothing ==
    ASSUME IInv, NEW m \in Matcher, MatcherStep(m) \/ Failure(m)
    PROVE  /\ UNCHANGED <<created, now>>
           /\ asOf'[m] \in {0, now, asOf[m]}
           /\ pc'[m] \in Holding => asOf'[m] = asOf[m]
           /\ LockBid(m) \/ LockAsk(m) \/ pc'[m] \notin {"lockAsk", "reserve"}
<1> USE DEF IInv, TypeOK, MatcherTypeOK, Goto, Return, Holding, Acquiring, storeVars
<1> DEFINE Goal == /\ UNCHANGED <<created, now>>
                   /\ asOf'[m] \in {0, now, asOf[m]}
                   /\ pc'[m] \in Holding => asOf'[m] = asOf[m]
                   /\ LockBid(m) \/ LockAsk(m) \/ pc'[m] \notin {"lockAsk", "reserve"}
<1>1. ASSUME Acquire(m) PROVE Goal
  BY <1>1 DEF Acquire, StartTick, BeginAcquire, BeginTx, LockBid, LockAsk, LockBest,
     FindNoPair, ReservePair, CommitTx
<1>2. ASSUME Examine(m) PROVE Goal
  BY <1>2 DEF Examine, PassOver, RefuseUnits, SubmitMatch
<1>3. ASSUME SubmitReturns(m) \/ SubmitFails(m) PROVE Goal
  BY <1>3 DEF SubmitReturns, SubmitFails
<1>4. ASSUME Settle(m) PROVE Goal
  BY <1>4 DEF Settle, Finalize, FinalizeFails, MarkMatchFailed, DeferredRelease,
     FinalizeMatch, ReleaseMatch
<1>5. ASSUME DatabaseFails(m) PROVE Goal
  BY <1>5 DEF DatabaseFails, AbortAcquire, ReserveUnacknowledged, FinalizeUnacknowledged,
     MarkMatchFailedFails, ReleaseFails, Rollback, CommitTx, FinalizeMatch
<1>6. ASSUME MatcherCrash(m) PROVE Goal
  BY <1>6 DEF MatcherCrash, Crash, Rollback
<1>7. QED
  BY <1>1, <1>2, <1>3, <1>4, <1>5, <1>6
  DEF MatcherStep, Failure, ExecutorAnswer, Executed, AlreadyFilled, Rejected, ReplyLost,
      TimesOut, NotAccepted

\* With nobody else's locks to skip, lockBestBySide returns the best row.
LEMMA LockedIsBest ==
    ASSUME IInv, NEW loop, Matcher = {loop}, NEW side,
           NEW best \in OrderId \union {NoOrder}, LockBest(loop, side, best), best # NoOrder,
           NEW o \in Aged(loop) \ tx[loop].expired,
           Order[o].market = tx[loop].market, Order[o].side = side
    PROVE  ~Before(o, best)
<1>1. LockedByOthers(loop) = {}
  BY DEF LockedByOthers
<1>2. o \in Lockable(loop, side)
  BY <1>1 DEF Lockable, Aged
<1>3. QED
  BY <1>2 DEF LockBest, Best

LEMMA LockBidKeepsPriority ==
    ASSUME IInv, NEW loop, Matcher = {loop}, PriorityInv(loop), LockBid(loop)
    PROVE  PriorityInv(loop)'
<1>1. PICK best \in OrderId \union {NoOrder} : LockBest(loop, "buy", best)
  BY DEF LockBid
<1>2. /\ pc'[loop] = "lockAsk" /\ UNCHANGED <<status, created, asOf, now>>
      /\ tx'[loop] = [tx[loop] EXCEPT !.bid = best]
  BY <1>1 DEF LockBid, LockBest, Goto, IInv, TypeOK, StoreTypeOK, MatcherTypeOK
<1>3. tx'[loop].market = tx[loop].market /\ tx'[loop].expired = tx[loop].expired /\ tx'[loop].bid = best
  BY <1>2 DEF IInv, TypeOK, StoreTypeOK, Tx
<1>4. Aged(loop)' = Aged(loop)
  BY <1>2 DEF Aged
<1>5. BestOfSide(loop, tx[loop].bid, "buy")'
  BY <1>1, <1>2, <1>3, <1>4, LockedIsBest DEF BestOfSide, Before, BetterPrice
<1>6. QED
  BY <1>2, <1>5 DEF PriorityInv, Holding

LEMMA LockAskKeepsPriority ==
    ASSUME IInv, NEW loop, Matcher = {loop}, PriorityInv(loop), LockAsk(loop)
    PROVE  PriorityInv(loop)'
<1>1. PICK best \in OrderId \union {NoOrder} : LockBest(loop, "sell", best)
  BY DEF LockAsk
<1>2. /\ pc[loop] = "lockAsk" /\ pc'[loop] = "reserve"
      /\ UNCHANGED <<status, created, asOf, now>>
      /\ tx'[loop] = [tx[loop] EXCEPT !.ask = best]
  BY <1>1 DEF LockAsk, LockBest, Goto, IInv, TypeOK, StoreTypeOK, MatcherTypeOK
<1>3. /\ tx'[loop].market = tx[loop].market /\ tx'[loop].expired = tx[loop].expired
      /\ tx'[loop].ask = best /\ tx'[loop].bid = tx[loop].bid
  BY <1>2 DEF IInv, TypeOK, StoreTypeOK, Tx
<1>4. Aged(loop)' = Aged(loop)
  BY <1>2 DEF Aged
<1>5. BestOfSide(loop, tx[loop].ask, "sell")'
  BY <1>1, <1>2, <1>3, <1>4, LockedIsBest DEF BestOfSide, Before, BetterPrice
<1>6. BestOfSide(loop, tx[loop].bid, "buy")'
  BY <1>2, <1>3, <1>4 DEF PriorityInv, BestOfSide, Before, BetterPrice
<1>7. QED
  BY <1>2, <1>5, <1>6 DEF PriorityInv, Holding

LEMMA ReservedPairIsBest ==
    ASSUME IInv, NEW loop \in Matcher, PriorityInv(loop), ReservePair(loop)
    PROVE  PriorityInv(loop)'
<1> DEFINE bid == tx[loop].bid
           ask == tx[loop].ask
<1>1. /\ pc[loop] = "reserve" /\ pc'[loop] = "reserved"
      /\ UNCHANGED <<created, asOf, now>>
      /\ NoOrder \notin {bid, ask}
  BY DEF ReservePair, CommitTx, TopOfBook, Goto, IInv, TypeOK, MatcherTypeOK
<1>2. Pair(loop)' \subseteq {bid, ask}
  BY DEF ReservePair, ChooseTaker, Pair, IInv, TypeOK, MatcherTypeOK
<1>3. Aged(loop)' \subseteq Aged(loop) \ tx[loop].expired
  BY <1>1 DEF ReservePair, CommitTx, Aged
<1>4. /\ BestOfSide(loop, bid, "buy") /\ BestOfSide(loop, ask, "sell")
      /\ Order[bid].market = tx[loop].market /\ Order[bid].side = "buy"
      /\ Order[ask].market = tx[loop].market /\ Order[ask].side = "sell"
  BY <1>1 DEF PriorityInv, IInv, PairInv, LockedSides
<1>5. BestOfPair(loop)'
  <2> SUFFICES ASSUME NEW p \in {bid, ask}, NEW o \in Aged(loop)',
                      Order[o].market = Order[p].market, Order[o].side = Order[p].side
               PROVE  ~Before(o, p)'
    BY <1>2 DEF BestOfPair
  <2>1. o \in Aged(loop) \ tx[loop].expired
    BY <1>3
  <2>2. ~Before(o, p)
    BY <1>1, <1>4, <2>1 DEF BestOfSide
  <2>3. QED
    BY <1>1, <2>2 DEF Before, BetterPrice
<1>6. QED
  BY <1>1, <1>5 DEF PriorityInv

LEMMA PriorityKept ==
    ASSUME IInv, LockInv, NEW loop, Matcher = {loop}, PriorityInv(loop), [Next]_vars
    PROVE  PriorityInv(loop)'
<1>1. loop \in Matcher
  OBVIOUS
<1>2. CASE OthersStep
  BY <1>1, <1>2, OthersKeepPriority
<1>3. CASE MatcherStep(loop) \/ Failure(loop)
  <2>1. CASE LockBid(loop) \/ LockAsk(loop) \/ ReservePair(loop)
    BY <1>1, <2>1, LockBidKeepsPriority, LockAskKeepsPriority, ReservedPairIsBest
  <2>2. CASE ~(LockBid(loop) \/ LockAsk(loop) \/ ReservePair(loop))
    <3>1. /\ UNCHANGED <<created, now>>
          /\ asOf'[loop] \in {0, now, asOf[loop]}
          /\ pc'[loop] \in Holding => asOf'[loop] = asOf[loop]
          /\ pc'[loop] \notin {"lockAsk", "reserve"}
      BY <1>1, <1>3, <2>2, MatcherAgesNothing
    <3>2. asOf'[loop] <= now'
      BY <1>1, <3>1 DEF PriorityInv, IInv, TypeOK, StoreTypeOK
    <3>3. ASSUME pc'[loop] \in Holding PROVE BestOfPair(loop)'
      <4>1. Keeps(loop)
        BY <1>1, <1>3, <2>2, <3>3, MatcherKeepsOrDrops DEF Drops
      <4>2. NothingAged(loop)
        BY <3>1, <3>3, <4>1 DEF Keeps, NothingAged, Aged
      <4>3. QED
        BY <1>1, <4>1, <4>2, PairStaysBest DEF Keeps, PriorityInv
    <3>4. QED
      BY <3>1, <3>2, <3>3 DEF PriorityInv
  <2>3. QED
    BY <2>1, <2>2
<1>4. QED
  BY <1>2, <1>3 DEF Next, OthersStep

\* With one matching loop, whatever fails and whoever else is at work, what
\* tickInstrument holds is the best of each side by price and then time, among
\* the orders placed before its tick.
THEOREM BestPairFirst ==
    ASSUME NEW loop, Matcher = {loop}
    PROVE  Spec => []PriceTimePriority
<1>1. Init => PriorityInv(loop)
  BY DEF Init, StoreInit, MatcherInit, PriorityInv, Holding
<1>2. IInv /\ LockInv /\ PriorityInv(loop) /\ [Next]_vars => PriorityInv(loop)'
  BY PriorityKept
<1>3. PriorityInv(loop) => PriceTimePriority
  BY DEF PriorityInv, BestOfPair, Aged, PriceTimePriority
<1>4. QED
  BY <1>1, <1>2, <1>3, IInvHolds, LockInvHolds, PTL DEF Spec

=============================================================================
