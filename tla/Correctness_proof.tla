-------------------------- MODULE Correctness_proof --------------------------
(***************************************************************************)
(* Proofs of the safety properties of MarketsService, for any number of    *)
(* orders, markets and matchers and any faults: the store alone, then the  *)
(* service, then the contract of Exchange, then the ledger.                *)
(*                                                                         *)
(* IInv carries the type invariant and what the amounts and the candidates *)
(* satisfy; an invariant about fills is not inductive without knowing that *)
(* a candidate is an opposite pair of placed orders.                       *)
(***************************************************************************)
EXTENDS Correctness, Arithmetic_proof

-----------------------------------------------------------------------------
(* The types of each statement of the repository *)

\* Best rows are lockable rows.
LEMMA BestIsLockable ==
    ASSUME NEW m, NEW side
    PROVE  Best(m, side) \subseteq Lockable(m, side)
BY DEF Best

\* Create stamps the row and inserts it with the amount filled so far.
LEMMA CreateTypes ==
    ASSUME StoreTypeOK, NEW o \in OrderId, Create(o)
    PROVE  StoreTypeOK'
BY OrderAssumption DEF StoreTypeOK, Create, Status

LEMMA CancelTypes ==
    ASSUME StoreTypeOK, NEW k, CancelByOwnerNonce(k)
    PROVE  StoreTypeOK'
BY DEF StoreTypeOK, CancelByOwnerNonce, Status

LEMMA ExpireTypes ==
    ASSUME StoreTypeOK, ExpireOrders
    PROVE  StoreTypeOK'
BY DEF StoreTypeOK, ExpireOrders, Status

LEMMA ReleaseTypes ==
    ASSUME StoreTypeOK, NEW rows, ReleaseMatch(rows)
    PROVE  StoreTypeOK'
BY DEF StoreTypeOK, ReleaseMatch, Status

LEMMA QuarantineTypes ==
    ASSUME StoreTypeOK, NEW mk, NEW keys, Quarantine(mk, keys)
    PROVE  StoreTypeOK'
BY DEF StoreTypeOK, Quarantine, Status

LEMMA BeginTxTypes ==
    ASSUME StoreTypeOK, NEW m \in Matcher, NEW mk \in Market, NEW t, BeginTx(m, mk, t)
    PROVE  StoreTypeOK'
<1>1. Due(t) \in SUBSET OrderId
  BY DEF Due
<1>2. [NoTx EXCEPT !.market = mk, !.expired = Due(t)] \in Tx
  BY <1>1 DEF NoTx, Tx
<1>3. QED
  BY <1>2 DEF StoreTypeOK, BeginTx

LEMMA LockBestTypes ==
    ASSUME StoreTypeOK, NEW m \in Matcher, NEW side,
           NEW o \in OrderId \union {NoOrder}, LockBest(m, side, o)
    PROVE  StoreTypeOK'
<1>1. tx[m] \in Tx
  BY DEF StoreTypeOK
<1>2. /\ [tx[m] EXCEPT !.bid = o] \in Tx
      /\ [tx[m] EXCEPT !.ask = o] \in Tx
  BY <1>1 DEF Tx
<1>3. QED
  BY <1>2 DEF StoreTypeOK, LockBest

LEMMA NoTxType == NoTx \in Tx
BY DEF NoTx, Tx

LEMMA CommitTypes ==
    ASSUME StoreTypeOK, NEW m \in Matcher, NEW reserved, CommitTx(m, reserved)
    PROVE  StoreTypeOK'
<1>1. status' \in [OrderId -> Status]
  BY DEF StoreTypeOK, CommitTx, Status
<1>2. tx' \in [Matcher -> Tx]
  BY NoTxType DEF StoreTypeOK, CommitTx
<1>3. QED
  BY <1>1, <1>2 DEF StoreTypeOK, CommitTx

LEMMA RollbackTypes ==
    ASSUME StoreTypeOK, NEW m \in Matcher, Rollback(m)
    PROVE  StoreTypeOK'
BY NoTxType DEF StoreTypeOK, Rollback

LEMMA FinalizeTypes ==
    ASSUME StoreTypeOK, NEW t \in OrderId, NEW p \in OrderId, NEW fill \in Nat,
           FinalizeMatch(t, p, fill)
    PROVE  StoreTypeOK'
<1>1. status' \in [OrderId -> Status]
  BY DEF StoreTypeOK, FinalizeMatch, StatusAfterFill, Status
<1>2. filled' \in [OrderId -> Nat]
  BY DEF StoreTypeOK, FinalizeMatch
<1>3. [taker |-> t, maker |-> p, price |-> Order[p].price, size |-> fill] \in Trade
  BY OrderAssumption DEF Trade
<1>4. trades' \in Seq(Trade)
  BY <1>3 DEF StoreTypeOK, FinalizeMatch
<1>5. QED
  BY <1>1, <1>2, <1>4 DEF StoreTypeOK, FinalizeMatch

LEMMA ClockTypes ==
    ASSUME StoreTypeOK, ClockTick
    PROVE  StoreTypeOK'
BY DEF StoreTypeOK, ClockTick

-----------------------------------------------------------------------------
(* Row locks.  Every step of the system is, on the store, one of these: *)

StoreStep ==
    \/ \E o \in OrderId : Create(o)
    \/ \E k : CancelByOwnerNonce(k)
    \/ ExpireOrders
    \/ \E rows : ReleaseMatch(rows)
    \/ \E m \in Matcher, mk \in Market : BeginTx(m, mk, now)
    \/ \E m \in Matcher, side \in Side, o \in OrderId \union {NoOrder} :
           LockBest(m, side, o)
    \/ \E m \in Matcher : \E reserved \in SUBSET RowsLockedBy(m) : CommitTx(m, reserved)
    \/ \E m \in Matcher : Rollback(m)
    \/ \E t, p, fill : FinalizeMatch(t, p, fill)
    \/ \E mk \in Market, keys \in SUBSET Key : Quarantine(mk, keys)
    \/ ClockTick
    \/ UNCHANGED storeVars

LockInv ==
    /\ status \in [OrderId -> Status]
    /\ tx \in [Matcher -> Tx]
    /\ LocksProtectActiveRows

LEMMA InitLockInv == StoreInit => LockInv
BY NoTxType DEF StoreInit, LockInv, LocksProtectActiveRows, RowsLockedBy, NoTx, Status

\* A step that changes no lock keeps LockInv if locked rows stay active.
LEMMA UnlockedRowsOnly ==
    ASSUME LockInv, UNCHANGED tx, status' \in [OrderId -> Status],
           \A o \in OrderId : status[o] = "active" /\ o \in Locked => status'[o] = "active"
    PROVE  LockInv'
<1>1. \A m \in Matcher : RowsLockedBy(m)' = RowsLockedBy(m)
  BY DEF RowsLockedBy
<1>2. \A m \in Matcher : RowsLockedBy(m) \subseteq OrderId \intersect Locked
  BY DEF LockInv, Tx, RowsLockedBy, Locked
<1>3. QED
  BY <1>1, <1>2 DEF LockInv, LocksProtectActiveRows

\* A step of m's transaction that changes no status keeps it if what m locks
\* in addition is active and nobody else's.
LEMMA LocksOfOne ==
    ASSUME LockInv, UNCHANGED status, tx' \in [Matcher -> Tx], NEW m \in Matcher,
           \A n \in Matcher \ {m} : tx'[n] = tx[n],
           NEW more, \A o \in more : status[o] = "active" /\ o \notin LockedByOthers(m),
           RowsLockedBy(m)' \subseteq RowsLockedBy(m) \union more
    PROVE  LockInv'
<1>1. \A n \in Matcher \ {m} : RowsLockedBy(n)' = RowsLockedBy(n)
  BY DEF RowsLockedBy
<1>2. \A n \in Matcher \ {m} : RowsLockedBy(n) \intersect more = {}
  BY DEF LockedByOthers
<1>3. \A l \in Matcher : \A o \in RowsLockedBy(l)' : status'[o] = "active"
  BY <1>1 DEF LockInv, LocksProtectActiveRows
<1>4. ASSUME NEW l \in Matcher, NEW n \in Matcher, l # n
      PROVE  RowsLockedBy(l)' \intersect RowsLockedBy(n)' = {}
  BY <1>1, <1>2, <1>4 DEF LockInv, LocksProtectActiveRows
<1>5. QED
  BY <1>3, <1>4 DEF LockInv, LocksProtectActiveRows

LEMMA BeginTxLocks ==
    ASSUME LockInv, NEW m \in Matcher, NEW mk \in Market, NEW t, BeginTx(m, mk, t)
    PROVE  LockInv'
<1>1. [NoTx EXCEPT !.market = mk, !.expired = Due(t)] \in Tx
  BY DEF NoTx, Tx, Due
<1>2. tx' \in [Matcher -> Tx] /\ \A n \in Matcher \ {m} : tx'[n] = tx[n]
  BY <1>1 DEF LockInv, BeginTx
<1>3. RowsLockedBy(m)' \subseteq Due(t)
  BY DEF LockInv, BeginTx, RowsLockedBy, NoTx
<1>4. \A o \in Due(t) : status[o] = "active" /\ o \notin LockedByOthers(m)
  BY DEF BeginTx, Due
<1>5. RowsLockedBy(m)' \subseteq RowsLockedBy(m) \union Due(t)
  BY <1>3
<1>6. QED
  BY <1>2, <1>4, <1>5, LocksOfOne DEF BeginTx

LEMMA LockBestLocks ==
    ASSUME LockInv, NEW m \in Matcher, NEW side \in Side,
           NEW o \in OrderId \union {NoOrder}, LockBest(m, side, o)
    PROVE  LockInv'
<1> DEFINE more == {o} \ {NoOrder}
<1>1. tx[m] \in Tx
  BY DEF LockInv
<1>2. [tx[m] EXCEPT !.bid = o] \in Tx /\ [tx[m] EXCEPT !.ask = o] \in Tx
  BY <1>1 DEF Tx
<1>3. tx' \in [Matcher -> Tx] /\ \A n \in Matcher \ {m} : tx'[n] = tx[n]
  BY <1>2 DEF LockInv, LockBest
<1>4. \A p \in more : status[p] = "active" /\ p \notin LockedByOthers(m)
  BY BestIsLockable DEF LockBest, Lockable
<1>5. \/ tx'[m] = [tx[m] EXCEPT !.bid = o]
      \/ tx'[m] = [tx[m] EXCEPT !.ask = o]
  BY DEF LockInv, LockBest
<1>6. RowsLockedBy(m)' \subseteq RowsLockedBy(m) \union more
  BY <1>1, <1>5 DEF RowsLockedBy, Tx
<1> HIDE DEF more
<1>7. QED
  BY <1>3, <1>4, <1>6, LocksOfOne DEF LockBest

LEMMA RollbackLocks ==
    ASSUME LockInv, NEW m \in Matcher, Rollback(m)
    PROVE  LockInv'
<1> DEFINE more == {}
<1>1. tx' \in [Matcher -> Tx] /\ \A n \in Matcher \ {m} : tx'[n] = tx[n]
  BY NoTxType DEF LockInv, Rollback
<1>2. \A o \in more : status[o] = "active" /\ o \notin LockedByOthers(m)
  OBVIOUS
<1>3. RowsLockedBy(m)' \subseteq RowsLockedBy(m) \union more
  BY DEF LockInv, Rollback, RowsLockedBy, NoTx
<1> HIDE DEF more
<1>4. QED
  BY <1>1, <1>2, <1>3, LocksOfOne DEF Rollback

LEMMA CommitLocks ==
    ASSUME LockInv, NEW m \in Matcher, NEW reserved \in SUBSET RowsLockedBy(m),
           CommitTx(m, reserved)
    PROVE  LockInv'
<1>1. /\ tx' \in [Matcher -> Tx]
      /\ tx'[m] = NoTx
      /\ \A n \in Matcher \ {m} : tx'[n] = tx[n]
  BY NoTxType DEF LockInv, CommitTx
<1>2. status' \in [OrderId -> Status]
  BY DEF LockInv, CommitTx, Status
<1>3. RowsLockedBy(m)' = {}
  BY <1>1 DEF RowsLockedBy, NoTx
<1>4. ASSUME NEW n \in Matcher \ {m}
      PROVE  /\ RowsLockedBy(n)' = RowsLockedBy(n)
             /\ \A o \in RowsLockedBy(n) : status'[o] = "active"
  <2>1. RowsLockedBy(n)' = RowsLockedBy(n)
    BY <1>1 DEF RowsLockedBy
  <2>2. RowsLockedBy(n) \intersect RowsLockedBy(m) = {}
    BY DEF LockInv, LocksProtectActiveRows
  <2>3. RowsLockedBy(n) \subseteq OrderId /\ tx[m].expired \subseteq RowsLockedBy(m)
    BY OrderIdAssumption DEF LockInv, Tx, RowsLockedBy, NoOrder
  <2>4. \A o \in RowsLockedBy(n) : status'[o] = status[o]
    BY <2>2, <2>3 DEF CommitTx
  <2>5. QED
    BY <2>1, <2>4 DEF LockInv, LocksProtectActiveRows
<1>5. QED
  BY <1>1, <1>2, <1>3, <1>4 DEF LockInv, LocksProtectActiveRows

\* LockInv is inductive.
LEMMA StoreStepLocks == ASSUME LockInv, StoreStep PROVE LockInv'
<1>1. ASSUME NEW o \in OrderId, Create(o) PROVE LockInv'
  <2>1. status[o] = "none"
    BY <1>1 DEF Create, Duplicate, Placed
  <2>2. QED
    BY <1>1, <2>1, UnlockedRowsOnly DEF LockInv, Create, Status
<1>2. ASSUME NEW k, CancelByOwnerNonce(k) PROVE LockInv'
  BY <1>2, UnlockedRowsOnly DEF LockInv, CancelByOwnerNonce, Status
<1>3. ASSUME ExpireOrders PROVE LockInv'
  BY <1>3, UnlockedRowsOnly DEF LockInv, ExpireOrders, Status
<1>4. ASSUME NEW rows, ReleaseMatch(rows) PROVE LockInv'
  BY <1>4, UnlockedRowsOnly DEF LockInv, ReleaseMatch, Status
<1>5. ASSUME NEW t, NEW p, NEW fill, FinalizeMatch(t, p, fill) PROVE LockInv'
  BY <1>5, UnlockedRowsOnly DEF LockInv, FinalizeMatch, FillFits, StatusAfterFill, Status
<1>6. ASSUME NEW mk \in Market, NEW keys \in SUBSET Key, Quarantine(mk, keys) PROVE LockInv'
  BY <1>6, UnlockedRowsOnly DEF LockInv, Quarantine, Status
<1>7. ASSUME ClockTick \/ UNCHANGED storeVars PROVE LockInv'
  BY <1>7, UnlockedRowsOnly DEF LockInv, ClockTick, storeVars
<1>8. QED
  BY <1>1, <1>2, <1>3, <1>4, <1>5, <1>6, <1>7, BeginTxLocks, LockBestLocks,
     CommitLocks, RollbackLocks DEF StoreStep

\* No statement touches a row that has been filled, cancelled or expired.
LEMMA StoreStepFreezes ==
    ASSUME LockInv, StoreStep, NEW o \in OrderId, status[o] \in Terminal
    PROVE  status'[o] = status[o] /\ filled'[o] = filled[o]
<1> USE DEF Terminal
<1>1. ASSUME NEW p \in OrderId, Create(p) PROVE status'[o] = status[o] /\ filled'[o] = filled[o]
  BY <1>1 DEF LockInv, Create, Duplicate, Placed
<1>2. ASSUME NEW m \in Matcher, NEW reserved \in SUBSET RowsLockedBy(m), CommitTx(m, reserved)
      PROVE  status'[o] = status[o] /\ filled'[o] = filled[o]
  <2>1. o \notin RowsLockedBy(m)
    BY DEF LockInv, LocksProtectActiveRows
  <2>2. o \notin tx[m].expired
    BY <2>1, OrderIdAssumption DEF RowsLockedBy, NoOrder
  <2>3. QED
    BY <1>2, <2>1, <2>2 DEF CommitTx
<1>3. ASSUME NEW t, NEW p, NEW fill, FinalizeMatch(t, p, fill)
      PROVE  status'[o] = status[o] /\ filled'[o] = filled[o]
  BY <1>3 DEF FinalizeMatch, FillFits
<1>4. QED
  BY <1>1, <1>2, <1>3
  DEF StoreStep, CancelByOwnerNonce, ActiveWithKey, ExpireOrders, Due, ReleaseMatch,
      BeginTx, LockBest, Rollback, Quarantine, Open, ClockTick, storeVars

-----------------------------------------------------------------------------
(* Orders, locks and candidates *)

\* Orders that passed toParams.
RequestsValid == \A o \in creating : Order[o].filled0 <= Order[o].desired

\* A row locked as bid or ask is of that side and of the market of the tick, and
\* not one that the transaction expires.
LockedSides(m) ==
    /\ {tx[m].bid, tx[m].ask} \intersect tx[m].expired = {}
    /\ tx[m].bid # NoOrder => /\ Order[tx[m].bid].side = "buy"
                              /\ Order[tx[m].bid].market = tx[m].market
    /\ tx[m].ask # NoOrder => /\ Order[tx[m].ask].side = "sell"
                              /\ Order[tx[m].ask].market = tx[m].market

Opposite(o, p) ==
    /\ {o, p} \subseteq OrderId
    /\ Order[o].side # Order[p].side
    /\ Order[o].market = Order[p].market

HasCandidate == Holding \union {"releasing"}

\* A candidate is an opposite pair of placed orders, the maker not the younger.
CandidatePair(m) ==
    pc[m] \in HasCandidate =>
        /\ Opposite(cand[m].taker, cand[m].maker)
        /\ Placed(cand[m].taker) /\ Placed(cand[m].maker)
        /\ created[cand[m].maker] <= created[cand[m].taker]

\* One that was submitted has crossed prices and a fill.
SubmittedPair(m) ==
    pc[m] \in {"submitting", "finalizing"} =>
        Crosses(cand[m].taker, cand[m].maker) /\ cand[m].fill > 0

PairInv(m) == LockedSides(m) /\ CandidatePair(m) /\ SubmittedPair(m)

IInv ==
    /\ TypeOK
    /\ FillsWithinDesired
    /\ RequestsValid
    /\ \A m \in Matcher : PairInv(m)

-----------------------------------------------------------------------------
(* Row locks and finished orders *)

\* What each step of the service does to the store.
LEMMA StepIsStoreStep == ASSUME [Next]_vars PROVE StoreStep
<1>1. ASSUME UserStep PROVE StoreStep
  BY <1>1 DEF UserStep, Submit, SubmitOrder, Insert, InsertOrder, Conflict,
     RejectDuplicate, AskCancel, RequestCancel, Cancel, CancelOrder, ListBook,
     ReadBook, ApiTypeOK, CancelRequest, StoreStep
<1>2. ASSUME NEW m \in Matcher, Acquire(m) \/ Examine(m) PROVE StoreStep
  <2>1. ASSUME NEW o \in OrderId \union {NoOrder}, NEW side \in Side, LockBest(m, side, o)
        PROVE  StoreStep
    BY <2>1 DEF StoreStep
  <2>2. CASE FindNoPair(m)
    BY <2>2 DEF FindNoPair, StoreStep
  <2>3. CASE ReservePair(m)
    <3>1. TopOfBook(m) \subseteq RowsLockedBy(m)
      BY <2>3 DEF ReservePair, TopOfBook, RowsLockedBy
    <3>2. QED
      BY <2>3, <3>1 DEF ReservePair, StoreStep
  <2>4. QED
    BY <1>2, <2>1, <2>2, <2>3 DEF Acquire, Examine, StartTick, BeginAcquire, LockBid,
       LockAsk, PassOver, RefuseUnits, SubmitMatch, Side, StoreStep
<1>3. ASSUME NEW m \in Matcher, ExecutorAnswer(m) \/ Settle(m) PROVE StoreStep
  BY <1>3 DEF ExecutorAnswer, Executed, AlreadyFilled, SubmitReturns, Settle, Finalize,
     FinalizeFails, MarkMatchFailed, DeferredRelease, StoreStep
<1>4. ASSUME NEW m \in Matcher, DatabaseFails(m) PROVE StoreStep
  <2>1. CASE ReserveUnacknowledged(m)
    <3>1. TopOfBook(m) \subseteq RowsLockedBy(m)
      BY <2>1 DEF ReserveUnacknowledged, TopOfBook, RowsLockedBy
    <3>2. QED
      BY <2>1, <3>1 DEF ReserveUnacknowledged, StoreStep
  <2>2. QED
    BY <1>4, <2>1 DEF DatabaseFails, AbortAcquire, FinalizeUnacknowledged,
       MarkMatchFailedFails, ReleaseFails, StoreStep
<1>5. ASSUME NEW m \in Matcher, Failure(m), ~DatabaseFails(m) PROVE StoreStep
  BY <1>5 DEF Failure, Rejected, ReplyLost, TimesOut, NotAccepted, SubmitFails,
     SubmitReturns, MatcherCrash, Crash, StoreStep
<1>6. ASSUME NEW c \in late, ExecuteLate(c) \/ RefuseLate(c) PROVE StoreStep
  BY <1>6 DEF ExecuteLate, RefuseLate, StoreStep
<1>7. ASSUME NEW mk \in Market, NEW keys \in SUBSET Key, RunQuarantine(mk, keys)
      PROVE  StoreStep
  BY <1>7 DEF RunQuarantine, StoreStep
<1>8. ASSUME Tick \/ UNCHANGED vars PROVE StoreStep
  BY <1>8 DEF Tick, vars, StoreStep
<1>9. QED
  BY <1>1, <1>2, <1>3, <1>4, <1>5, <1>6, <1>7, <1>8 DEF Next, MatcherStep

LEMMA LockInvHolds == Spec => []LockInv
<1>1. Init => LockInv
  BY InitLockInv DEF Init
<1>2. LockInv /\ [Next]_vars => LockInv'
  BY StepIsStoreStep, StoreStepLocks
<1>3. QED
  BY <1>1, <1>2, PTL DEF Spec

\* Rows locked by AcquireMatchCandidate stay active and are locked once.
THEOREM LocksSafe == Spec => []LocksProtectActiveRows
<1>1. LockInv => LocksProtectActiveRows
  BY DEF LockInv
<1>2. QED
  BY <1>1, LockInvHolds, PTL

\* Filled, cancelled and expired rows never change.
THEOREM FinishedOrdersFrozen == Spec => TerminalRowsFrozen
<1>1. LockInv /\ [Next]_vars =>
          [\A o \in OrderId : status[o] \in Terminal =>
               status'[o] = status[o] /\ filled'[o] = filled[o]]_vars
  BY StepIsStoreStep, StoreStepFreezes
<1>2. QED
  BY <1>1, LockInvHolds, PTL DEF Spec, TerminalRowsFrozen

-----------------------------------------------------------------------------
(* Initial states *)

LEMMA InitTypes == Init => TypeOK
<1>1. StoreInit => StoreTypeOK
  BY OrderAssumption, NoTxType DEF StoreInit, StoreTypeOK, Status
<1>2. ApiInit => ApiTypeOK
  BY DEF ApiInit, ApiTypeOK
<1>3. MatcherInit => MatcherTypeOK
  BY DEF MatcherInit, MatcherTypeOK, Control, NoMatch, Match
<1>4. ExecutorInit => ExecutorTypeOK
  BY OrderAssumption DEF ExecutorInit, ExecutorTypeOK
<1>5. QED
  BY <1>1, <1>2, <1>3, <1>4 DEF Init, TypeOK

LEMMA InitIInv == Init => IInv
<1> SUFFICES ASSUME Init PROVE IInv
  OBVIOUS
<1>1. TypeOK
  BY InitTypes
<1>2. FillsWithinDesired
  BY DEF Init, StoreInit, FillsWithinDesired, Placed
<1>3. RequestsValid
  BY DEF Init, ApiInit, RequestsValid
<1>4. ASSUME NEW m \in Matcher PROVE PairInv(m)
  BY DEF Init, StoreInit, MatcherInit, PairInv, LockedSides, CandidatePair,
         SubmittedPair, NoTx, HasCandidate, Holding
<1>5. QED
  BY <1>1, <1>2, <1>3, <1>4 DEF IInv, PairInv

-----------------------------------------------------------------------------
(* Steps of users *)

\* PairInv reads only the locked rows, the candidates and, of the orders,
\* whether and when they were placed.
LEMMA PairsUnaffected ==
    ASSUME NEW m \in Matcher, PairInv(m),
           tx'[m] = tx[m], pc'[m] = pc[m], cand'[m] = cand[m],
           \A o \in OrderId : Placed(o) => status'[o] # "none" /\ created'[o] = created[o]
    PROVE  PairInv(m)'
BY DEF PairInv, LockedSides, CandidatePair, SubmittedPair, Opposite, Crosses, Placed

\* Updates that move open rows between statuses other than filled.
StatusesMove ==
    \A o \in OrderId :
        \/ status'[o] = status[o]
        \/ /\ status[o] \in {"active", "matching"}
           /\ status'[o] \in {"active", "matching", "cancelled", "expired"}

LEMMA FillsUnaffected ==
    ASSUME FillsWithinDesired, StatusesMove, UNCHANGED filled
    PROVE  FillsWithinDesired'
BY DEF FillsWithinDesired, StatusesMove, Placed

LEMMA MovedRowsStayPlaced ==
    ASSUME StatusesMove, UNCHANGED created
    PROVE  \A o \in OrderId :
               Placed(o) => status'[o] # "none" /\ created'[o] = created[o]
BY DEF StatusesMove, Placed

LEMMA SubmitKeeps ==
    ASSUME IInv, NEW o \in OrderId, Submit(o)
    PROVE  IInv'
<1> USE DEF Submit, SubmitOrder, storeVars, matcherVars, executorVars
<1>1. TypeOK'
  BY DEF IInv, TypeOK, StoreTypeOK, ApiTypeOK, MatcherTypeOK, ExecutorTypeOK
<1>2. FillsWithinDesired'
  BY DEF IInv, FillsWithinDesired, Placed
<1>3. RequestsValid'
  BY DEF IInv, RequestsValid
<1>4. ASSUME NEW m \in Matcher PROVE PairInv(m)'
  BY PairsUnaffected DEF IInv, PairInv, Placed
<1>5. QED
  BY <1>1, <1>2, <1>3, <1>4 DEF IInv, PairInv

LEMMA InsertKeeps ==
    ASSUME IInv, NEW o \in OrderId, Insert(o)
    PROVE  IInv'
<1> USE DEF Insert, InsertOrder, matcherVars, executorVars
<1>1. TypeOK'
  BY CreateTypes DEF IInv, TypeOK, ApiTypeOK, MatcherTypeOK, ExecutorTypeOK
<1>2. status[o] = "none"
  BY DEF Create, Duplicate, Placed
<1>3. FillsWithinDesired'
  BY OrderAssumption DEF IInv, TypeOK, StoreTypeOK, FillsWithinDesired, RequestsValid, Placed, Create
<1>4. RequestsValid'
  BY DEF IInv, RequestsValid
<1>5. ASSUME NEW m \in Matcher PROVE PairInv(m)'
  BY <1>2, PairsUnaffected DEF IInv, TypeOK, StoreTypeOK, PairInv, Placed, Create
<1>6. QED
  BY <1>1, <1>3, <1>4, <1>5 DEF IInv, PairInv

LEMMA ConflictKeeps ==
    ASSUME IInv, NEW o \in OrderId, Conflict(o)
    PROVE  IInv'
<1> USE DEF Conflict, RejectDuplicate, storeVars, matcherVars, executorVars
<1>1. TypeOK'
  BY DEF IInv, TypeOK, StoreTypeOK, ApiTypeOK, MatcherTypeOK, ExecutorTypeOK
<1>2. FillsWithinDesired'
  BY DEF IInv, FillsWithinDesired, Placed
<1>3. RequestsValid'
  BY DEF IInv, RequestsValid
<1>4. ASSUME NEW m \in Matcher PROVE PairInv(m)'
  BY PairsUnaffected DEF IInv, PairInv, Placed
<1>5. QED
  BY <1>1, <1>2, <1>3, <1>4 DEF IInv, PairInv

LEMMA AskCancelKeeps ==
    ASSUME IInv, NEW k \in Key, NEW service \in BOOLEAN, AskCancel(k, service)
    PROVE  IInv'
<1> USE DEF AskCancel, RequestCancel, storeVars, matcherVars, executorVars
<1>1. TypeOK'
  BY DEF IInv, TypeOK, StoreTypeOK, ApiTypeOK, MatcherTypeOK, ExecutorTypeOK,
         CancelRequest
<1>2. FillsWithinDesired'
  BY DEF IInv, FillsWithinDesired, Placed
<1>3. RequestsValid'
  BY DEF IInv, RequestsValid
<1>4. ASSUME NEW m \in Matcher PROVE PairInv(m)'
  BY PairsUnaffected DEF IInv, PairInv, Placed
<1>5. QED
  BY <1>1, <1>2, <1>3, <1>4 DEF IInv, PairInv

LEMMA CancelKeeps ==
    ASSUME IInv, NEW req \in cancelling, Cancel(req)
    PROVE  IInv'
<1> USE DEF Cancel, CancelOrder, matcherVars, executorVars
<1>1. TypeOK'
  BY CancelTypes DEF IInv, TypeOK, ApiTypeOK, MatcherTypeOK, ExecutorTypeOK
<1>2. StatusesMove /\ UNCHANGED <<filled, created, tx>>
  BY DEF CancelByOwnerNonce, ActiveWithKey, StatusesMove
<1>3. FillsWithinDesired'
  BY <1>2, FillsUnaffected DEF IInv
<1>4. RequestsValid'
  BY DEF IInv, RequestsValid
<1>5. ASSUME NEW m \in Matcher PROVE PairInv(m)'
  BY <1>2, PairsUnaffected, MovedRowsStayPlaced DEF IInv, PairInv
<1>6. QED
  BY <1>1, <1>3, <1>4, <1>5 DEF IInv, PairInv

LEMMA ListBookKeeps ==
    ASSUME IInv, ListBook
    PROVE  IInv'
<1> USE DEF ListBook, ReadBook, apiVars, matcherVars, executorVars
<1>1. TypeOK'
  BY ExpireTypes DEF IInv, TypeOK, ApiTypeOK, MatcherTypeOK, ExecutorTypeOK
<1>2. StatusesMove /\ UNCHANGED <<filled, created, tx>>
  BY DEF ExpireOrders, Due, StatusesMove
<1>3. FillsWithinDesired'
  BY <1>2, FillsUnaffected DEF IInv
<1>4. RequestsValid'
  BY DEF IInv, RequestsValid
<1>5. ASSUME NEW m \in Matcher PROVE PairInv(m)'
  BY <1>2, PairsUnaffected, MovedRowsStayPlaced DEF IInv, PairInv
<1>6. QED
  BY <1>1, <1>3, <1>4, <1>5 DEF IInv, PairInv

LEMMA UserStepKeeps ==
    ASSUME IInv, UserStep
    PROVE  IInv'
BY SubmitKeeps, InsertKeeps, ConflictKeeps, AskCancelKeeps, CancelKeeps,
   ListBookKeeps DEF UserStep

-----------------------------------------------------------------------------
(* The operator, the clock, and the executor on its own *)

LEMMA QuarantineKeeps ==
    ASSUME IInv, NEW mk \in Market, NEW keys \in SUBSET Key, RunQuarantine(mk, keys)
    PROVE  IInv'
<1> USE DEF RunQuarantine, apiVars, matcherVars, executorVars
<1>1. TypeOK'
  BY QuarantineTypes DEF IInv, TypeOK, ApiTypeOK, MatcherTypeOK, ExecutorTypeOK
<1>2. StatusesMove /\ UNCHANGED <<filled, created, tx>>
  BY DEF Quarantine, Open, StatusesMove
<1>3. FillsWithinDesired'
  BY <1>2, FillsUnaffected DEF IInv
<1>4. RequestsValid'
  BY DEF IInv, RequestsValid
<1>5. ASSUME NEW m \in Matcher PROVE PairInv(m)'
  BY <1>2, PairsUnaffected, MovedRowsStayPlaced DEF IInv, PairInv
<1>6. QED
  BY <1>1, <1>3, <1>4, <1>5 DEF IInv, PairInv

LEMMA TickKeeps ==
    ASSUME IInv, Tick
    PROVE  IInv'
<1> USE DEF Tick, ClockTick, apiVars, matcherVars, executorVars
<1>1. TypeOK'
  BY ClockTypes DEF IInv, TypeOK, ApiTypeOK, MatcherTypeOK, ExecutorTypeOK
<1>2. FillsWithinDesired'
  BY DEF IInv, FillsWithinDesired, Placed
<1>3. RequestsValid'
  BY DEF IInv, RequestsValid
<1>4. ASSUME NEW m \in Matcher PROVE PairInv(m)'
  BY PairsUnaffected DEF IInv, PairInv, Placed
<1>5. QED
  BY <1>1, <1>2, <1>3, <1>4 DEF IInv, PairInv

LEMMA LateKeeps ==
    ASSUME IInv, NEW c \in late, ExecuteLate(c) \/ RefuseLate(c)
    PROVE  IInv'
<1> USE DEF ExecuteLate, RefuseLate, LateExecution, LateRefusal, ExecuteOnChain,
            storeVars, apiVars, matcherVars
<1>1. c \in Match
  BY DEF IInv, TypeOK, ExecutorTypeOK
<1>2. ExecutorTypeOK'
  BY <1>1 DEF IInv, TypeOK, ExecutorTypeOK, Match
<1>3. TypeOK'
  BY <1>2 DEF IInv, TypeOK, StoreTypeOK, ApiTypeOK, MatcherTypeOK
<1>4. FillsWithinDesired'
  BY DEF IInv, FillsWithinDesired, Placed
<1>5. RequestsValid'
  BY DEF IInv, RequestsValid
<1>6. ASSUME NEW m \in Matcher PROVE PairInv(m)'
  BY PairsUnaffected DEF IInv, PairInv, Placed
<1>7. QED
  BY <1>3, <1>4, <1>5, <1>6 DEF IInv, PairInv

-----------------------------------------------------------------------------
(* Steps of a matcher *)

\* Every step of matcher m leaves the others' transaction, control state and
\* candidate alone.
OthersIdle(m) ==
    \A n \in Matcher \ {m} : tx'[n] = tx[n] /\ pc'[n] = pc[n] /\ cand'[n] = cand[n]

\* What a matcher step has to establish once its frame is known.
LEMMA MatcherFrame ==
    ASSUME IInv, NEW m \in Matcher, OthersIdle(m), StatusesMove,
           UNCHANGED <<filled, created, creating>>,
           TypeOK', PairInv(m)'
    PROVE  IInv'
<1>1. FillsWithinDesired'
  BY FillsUnaffected DEF IInv
<1>2. RequestsValid'
  BY DEF IInv, RequestsValid
<1>3. ASSUME NEW n \in Matcher PROVE PairInv(n)'
  <2>1. CASE n = m
    BY <2>1
  <2>2. CASE n # m
    BY <2>2, PairsUnaffected, MovedRowsStayPlaced DEF IInv, PairInv, OthersIdle
  <2>3. QED
    BY <2>1, <2>2
<1>4. QED
  BY <1>1, <1>2, <1>3 DEF IInv, PairInv

LEMMA GotoTypes ==
    ASSUME MatcherTypeOK, NEW m \in Matcher, NEW from, NEW to \in Control,
           Goto(m, from, to)
    PROVE  /\ pc' \in [Matcher -> Control]
           /\ pc[m] = from
           /\ pc'[m] = to
           /\ \A n \in Matcher \ {m} : pc'[n] = pc[n]
BY DEF MatcherTypeOK, Goto

LEMMA ReturnTypes ==
    ASSUME MatcherTypeOK, NEW m \in Matcher, NEW from, Return(m, from)
    PROVE  /\ pc' \in [Matcher -> Control]
           /\ asOf' \in [Matcher -> Nat]
           /\ cand' \in [Matcher -> Match]
           /\ pc[m] = from
           /\ pc'[m] = "idle"
           /\ cand'[m] = NoMatch
           /\ \A n \in Matcher \ {m} : pc'[n] = pc[n] /\ cand'[n] = cand[n]
<1>1. NoMatch \in Match
  BY DEF NoMatch, Match
<1>2. QED
  BY <1>1 DEF MatcherTypeOK, Return, Goto, Control

\* The states in which m has no candidate ask nothing of it.
LEMMA NoCandidateNoPair ==
    ASSUME NEW m \in Matcher, pc'[m] \notin HasCandidate, LockedSides(m)'
    PROVE  PairInv(m)'
BY DEF PairInv, CandidatePair, SubmittedPair, HasCandidate, Holding

LEMMA NoTxNoSides ==
    ASSUME NEW m \in Matcher, tx'[m] = NoTx
    PROVE  LockedSides(m)'
BY DEF LockedSides, NoTx

LEMMA StartTickKeeps ==
    ASSUME IInv, NEW m \in Matcher, StartTick(m), UNCHANGED <<apiVars, executorVars>>
    PROVE  IInv'
<1> USE DEF StartTick, storeVars, apiVars, executorVars
<1>1. TypeOK'
  BY DEF IInv, TypeOK, StoreTypeOK, ApiTypeOK, MatcherTypeOK, ExecutorTypeOK
<1>2. PairInv(m)'
  BY PairsUnaffected DEF IInv, PairInv, Placed
<1>3. OthersIdle(m) /\ StatusesMove
  BY DEF OthersIdle, StatusesMove
<1>4. QED
  BY <1>1, <1>2, <1>3, MatcherFrame

LEMMA BeginAcquireKeeps ==
    ASSUME IInv, NEW m \in Matcher, NEW mk \in Market, BeginAcquire(m, mk),
           UNCHANGED <<apiVars, executorVars>>
    PROVE  IInv'
<1> USE DEF BeginAcquire, apiVars, executorVars
<1>1. StoreTypeOK'
  BY BeginTxTypes DEF IInv, TypeOK
<1>2. MatcherTypeOK'
  BY DEF IInv, TypeOK, StoreTypeOK, MatcherTypeOK, Goto, Control, Acquiring
<1>3. TypeOK'
  BY <1>1, <1>2 DEF IInv, TypeOK, ApiTypeOK, ExecutorTypeOK
<1>4. LockedSides(m)'
  BY OrderIdAssumption DEF IInv, TypeOK, StoreTypeOK, BeginTx, LockedSides, NoTx, Due, NoOrder
<1>5. PairInv(m)'
  BY <1>4, NoCandidateNoPair DEF IInv, TypeOK, MatcherTypeOK, Goto, HasCandidate, Holding
<1>6. OthersIdle(m) /\ StatusesMove /\ UNCHANGED <<filled, created>>
  BY DEF IInv, TypeOK, StoreTypeOK, MatcherTypeOK, OthersIdle, StatusesMove, BeginTx, Goto
<1>7. QED
  BY <1>3, <1>5, <1>6, MatcherFrame

LEMMA LockBidKeeps ==
    ASSUME IInv, NEW m \in Matcher, LockBid(m), UNCHANGED <<apiVars, executorVars>>
    PROVE  IInv'
<1> USE DEF LockBid, apiVars, executorVars
<1>1. PICK o \in OrderId \union {NoOrder} : LockBest(m, "buy", o)
  OBVIOUS
<1>2. StoreTypeOK'
  BY <1>1, LockBestTypes DEF IInv, TypeOK
<1>3. MatcherTypeOK'
  BY DEF IInv, TypeOK, MatcherTypeOK, Goto, Control, Acquiring
<1>4. TypeOK'
  BY <1>2, <1>3 DEF IInv, TypeOK, ApiTypeOK, ExecutorTypeOK
<1>5. /\ o \notin tx[m].expired
      /\ o # NoOrder => Order[o].side = "buy" /\ Order[o].market = tx[m].market
  BY <1>1, BestIsLockable, OrderIdAssumption
  DEF LockBest, Lockable, IInv, TypeOK, StoreTypeOK, Tx, NoOrder
<1>6. tx'[m] = [tx[m] EXCEPT !.bid = o] /\ tx[m] \in Tx
  BY <1>1 DEF IInv, TypeOK, StoreTypeOK, LockBest
<1>7. LockedSides(m)'
  BY <1>5, <1>6 DEF IInv, PairInv, LockedSides, Tx
<1>8. PairInv(m)'
  BY <1>7, NoCandidateNoPair DEF IInv, TypeOK, MatcherTypeOK, Goto, HasCandidate, Holding
<1>9. OthersIdle(m) /\ StatusesMove /\ UNCHANGED <<filled, created>>
  BY <1>1 DEF IInv, TypeOK, StoreTypeOK, MatcherTypeOK, OthersIdle, StatusesMove,
              LockBest, Goto
<1>10. QED
  BY <1>4, <1>8, <1>9, MatcherFrame

LEMMA LockAskKeeps ==
    ASSUME IInv, NEW m \in Matcher, LockAsk(m), UNCHANGED <<apiVars, executorVars>>
    PROVE  IInv'
<1> USE DEF LockAsk, apiVars, executorVars
<1>1. PICK o \in OrderId \union {NoOrder} : LockBest(m, "sell", o)
  OBVIOUS
<1>2. StoreTypeOK'
  BY <1>1, LockBestTypes DEF IInv, TypeOK
<1>3. MatcherTypeOK'
  BY DEF IInv, TypeOK, MatcherTypeOK, Goto, Control, Acquiring
<1>4. TypeOK'
  BY <1>2, <1>3 DEF IInv, TypeOK, ApiTypeOK, ExecutorTypeOK
<1>5. /\ o \notin tx[m].expired
      /\ o # NoOrder => Order[o].side = "sell" /\ Order[o].market = tx[m].market
  BY <1>1, BestIsLockable, OrderIdAssumption
  DEF LockBest, Lockable, IInv, TypeOK, StoreTypeOK, Tx, NoOrder
<1>6. tx'[m] = [tx[m] EXCEPT !.ask = o] /\ tx[m] \in Tx
  BY <1>1 DEF IInv, TypeOK, StoreTypeOK, LockBest
<1>7. LockedSides(m)'
  BY <1>5, <1>6 DEF IInv, PairInv, LockedSides, Tx
<1>8. PairInv(m)'
  BY <1>7, NoCandidateNoPair DEF IInv, TypeOK, MatcherTypeOK, Goto, HasCandidate, Holding
<1>9. OthersIdle(m) /\ StatusesMove /\ UNCHANGED <<filled, created>>
  BY <1>1 DEF IInv, TypeOK, StoreTypeOK, MatcherTypeOK, OthersIdle, StatusesMove,
              LockBest, Goto
<1>10. QED
  BY <1>4, <1>8, <1>9, MatcherFrame

\* m keeps its candidate, and the store is not touched.
LEMMA CandidateKept ==
    ASSUME IInv, NEW m \in Matcher, NEW from \in HasCandidate, NEW to \in HasCandidate,
           Goto(m, from, to), UNCHANGED <<todo, asOf, cand, storeVars, apiVars>>,
           ExecutorTypeOK',
           to \in {"submitting", "finalizing"} =>
               Crosses(cand[m].taker, cand[m].maker) /\ cand[m].fill > 0
    PROVE  IInv'
<1> USE DEF storeVars, apiVars
<1>1. to \in Control
  BY DEF HasCandidate, Control
<1>2. /\ pc' \in [Matcher -> Control] /\ pc[m] = from /\ pc'[m] = to
      /\ \A n \in Matcher \ {m} : pc'[n] = pc[n]
  BY <1>1, GotoTypes DEF IInv, TypeOK
<1>3. TypeOK'
  BY <1>2 DEF IInv, TypeOK, StoreTypeOK, ApiTypeOK, MatcherTypeOK
<1>4. PairInv(m)'
  BY <1>2 DEF IInv, PairInv, LockedSides, CandidatePair, SubmittedPair, Placed, Crosses
<1>5. OthersIdle(m) /\ StatusesMove
  BY <1>2 DEF OthersIdle, StatusesMove
<1>6. QED
  BY <1>3, <1>4, <1>5, MatcherFrame

LEMMA PassOverKeeps ==
    ASSUME IInv, NEW m \in Matcher, PassOver(m), UNCHANGED <<apiVars, executorVars>>
    PROVE  IInv'
BY CandidateKept DEF PassOver, HasCandidate, Holding, IInv, TypeOK, ExecutorTypeOK, executorVars

LEMMA RefuseUnitsKeeps ==
    ASSUME IInv, NEW m \in Matcher, RefuseUnits(m), UNCHANGED <<apiVars, executorVars>>
    PROVE  IInv'
BY CandidateKept DEF RefuseUnits, HasCandidate, Holding, IInv, TypeOK, ExecutorTypeOK, executorVars

LEMMA SubmitMatchKeeps ==
    ASSUME IInv, NEW m \in Matcher, SubmitMatch(m), UNCHANGED <<apiVars, executorVars>>
    PROVE  IInv'
<1>1. cand[m].fill \in Nat
  BY DEF IInv, TypeOK, MatcherTypeOK, Match
<1>2. Crosses(cand[m].taker, cand[m].maker) /\ cand[m].fill > 0
  BY <1>1 DEF SubmitMatch, Matchable
<1>3. ExecutorTypeOK'
  BY DEF IInv, TypeOK, ExecutorTypeOK, executorVars
<1>4. QED
  BY <1>2, <1>3, CandidateKept DEF SubmitMatch, HasCandidate, Holding

\* Whatever the executor did with the match.
LEMMA SubmitReturnsKeeps ==
    ASSUME IInv, NEW m \in Matcher, SubmitReturns(m), UNCHANGED apiVars, ExecutorTypeOK'
    PROVE  IInv'
<1>1. Crosses(cand[m].taker, cand[m].maker) /\ cand[m].fill > 0
  BY DEF SubmitReturns, Goto, IInv, PairInv, SubmittedPair
<1>2. QED
  BY <1>1, CandidateKept DEF SubmitReturns, HasCandidate, Holding

LEMMA SubmitFailsKeeps ==
    ASSUME IInv, NEW m \in Matcher, SubmitFails(m), UNCHANGED apiVars, ExecutorTypeOK'
    PROVE  IInv'
BY CandidateKept DEF SubmitFails, HasCandidate, Holding

LEMMA ExecuteTypes ==
    ASSUME ExecutorTypeOK, NEW c \in Match, ExecuteOnChain(c), UNCHANGED late
    PROVE  ExecutorTypeOK'
BY DEF ExecutorTypeOK, ExecuteOnChain, Match

LEMMA AnswerKeeps ==
    ASSUME IInv, NEW m \in Matcher,
           \/ ExecutorAnswer(m) \/ NotAccepted(m)
           \/ Rejected(m) \/ ReplyLost(m) \/ TimesOut(m)
    PROVE  IInv'
<1>1. cand[m] \in Match /\ ExecutorTypeOK
  BY DEF IInv, TypeOK, MatcherTypeOK
<1>2. ExecutorTypeOK'
  <2>1. CASE ExecuteOnChain(cand[m]) /\ UNCHANGED late
    BY <1>1, <2>1, ExecuteTypes
  <2>2. CASE UNCHANGED executorVars
    BY <1>1, <2>2 DEF ExecutorTypeOK, executorVars
  <2>3. CASE TimesOut(m)
    BY <1>1, <2>3 DEF ExecutorTypeOK, TimesOut
  <2>4. QED
    BY <2>1, <2>2, <2>3 DEF ExecutorAnswer, Executed, AlreadyFilled, NotAccepted,
       Rejected, ReplyLost
<1>3. QED
  BY <1>2, SubmitReturnsKeeps, SubmitFailsKeeps DEF ExecutorAnswer, Executed,
     AlreadyFilled, NotAccepted, Rejected, ReplyLost, TimesOut

LEMMA FinalizeFailsKeeps ==
    ASSUME IInv, NEW m \in Matcher, FinalizeFails(m), UNCHANGED <<apiVars, executorVars>>
    PROVE  IInv'
BY CandidateKept DEF FinalizeFails, HasCandidate, Holding, IInv, TypeOK, ExecutorTypeOK, executorVars

LEMMA MarkMatchFailedFailsKeeps ==
    ASSUME IInv, NEW m \in Matcher, MarkMatchFailedFails(m),
           UNCHANGED <<apiVars, executorVars>>
    PROVE  IInv'
BY CandidateKept DEF MarkMatchFailedFails, HasCandidate, Holding, IInv, TypeOK, ExecutorTypeOK, executorVars

LEMMA MarkMatchFailedKeeps ==
    ASSUME IInv, NEW m \in Matcher, MarkMatchFailed(m), UNCHANGED <<apiVars, executorVars>>
    PROVE  IInv'
<1> USE DEF MarkMatchFailed, apiVars, executorVars
<1>1. StoreTypeOK'
  BY ReleaseTypes DEF IInv, TypeOK
<1>2. /\ pc' \in [Matcher -> Control] /\ pc'[m] = "releasing" /\ pc[m] = "failing"
      /\ \A n \in Matcher \ {m} : pc'[n] = pc[n]
  BY GotoTypes DEF IInv, TypeOK, Control
<1>3. TypeOK'
  BY <1>1, <1>2 DEF IInv, TypeOK, ApiTypeOK, MatcherTypeOK, ExecutorTypeOK
<1>4. StatusesMove /\ UNCHANGED <<filled, created, tx>>
  BY DEF ReleaseMatch, StatusesMove
<1>5. CandidatePair(m)
  BY DEF IInv, PairInv
<1>6. LockedSides(m)' /\ SubmittedPair(m)'
  BY <1>2, <1>4 DEF IInv, PairInv, LockedSides, SubmittedPair
<1>7. CandidatePair(m)'
  BY <1>2, <1>4, <1>5, MovedRowsStayPlaced DEF CandidatePair, Opposite, HasCandidate,
     Holding, Placed
<1>8. OthersIdle(m)
  BY <1>2, <1>4 DEF OthersIdle
<1>9. QED
  BY <1>3, <1>4, <1>6, <1>7, <1>8, MatcherFrame DEF PairInv

-----------------------------------------------------------------------------
(* Steps after which tickInstrument has returned *)

LEMMA ReturnKeeps ==
    ASSUME IInv, NEW m \in Matcher, NEW from, Return(m, from),
           StoreTypeOK', ExecutorTypeOK', StatusesMove,
           todo' \in [Matcher -> SUBSET Market],
           UNCHANGED <<filled, created, apiVars>>,
           \A n \in Matcher \ {m} : tx'[n] = tx[n], LockedSides(m)'
    PROVE  IInv'
<1>1. /\ pc' \in [Matcher -> Control] /\ asOf' \in [Matcher -> Nat]
      /\ cand' \in [Matcher -> Match] /\ pc'[m] = "idle"
      /\ \A n \in Matcher \ {m} : pc'[n] = pc[n] /\ cand'[n] = cand[n]
  BY ReturnTypes DEF IInv, TypeOK
<1>2. TypeOK'
  BY <1>1 DEF IInv, TypeOK, ApiTypeOK, MatcherTypeOK, apiVars
<1>3. PairInv(m)'
  BY <1>1, NoCandidateNoPair DEF HasCandidate, Holding
<1>4. OthersIdle(m)
  BY <1>1 DEF OthersIdle
<1>5. QED
  BY <1>2, <1>3, <1>4, MatcherFrame DEF apiVars

\* A commit expires and reserves active rows only.
LEMMA CommitMoves ==
    ASSUME LockInv, NEW m \in Matcher, NEW reserved \in SUBSET RowsLockedBy(m),
           CommitTx(m, reserved)
    PROVE  StatusesMove
<1>1. tx[m].expired \subseteq RowsLockedBy(m)
  BY OrderIdAssumption DEF LockInv, Tx, RowsLockedBy, NoOrder
<1>2. QED
  BY <1>1 DEF LockInv, LocksProtectActiveRows, CommitTx, StatusesMove

LEMMA CommitReturns ==
    ASSUME IInv, LockInv, NEW m \in Matcher, NEW reserved \in SUBSET RowsLockedBy(m),
           CommitTx(m, reserved), Return(m, "reserve"), UNCHANGED <<todo, apiVars, executorVars>>
    PROVE  IInv'
<1>1. StoreTypeOK' /\ StatusesMove
  BY CommitTypes, CommitMoves DEF IInv, TypeOK
<1>2. /\ tx'[m] = NoTx /\ \A n \in Matcher \ {m} : tx'[n] = tx[n]
      /\ UNCHANGED <<filled, created>>
  BY DEF IInv, TypeOK, StoreTypeOK, CommitTx
<1>3. LockedSides(m)'
  BY <1>2, NoTxNoSides
<1>4. ExecutorTypeOK' /\ todo' \in [Matcher -> SUBSET Market]
  BY DEF IInv, TypeOK, ExecutorTypeOK, MatcherTypeOK, executorVars
<1>5. QED
  BY <1>1, <1>2, <1>3, <1>4, ReturnKeeps

LEMMA FindNoPairKeeps ==
    ASSUME IInv, LockInv, NEW m \in Matcher, FindNoPair(m),
           UNCHANGED <<apiVars, executorVars>>
    PROVE  IInv'
BY CommitReturns DEF FindNoPair

\* The pair about to be reserved is locked.
LEMMA TopIsLocked ==
    ASSUME NEW m \in Matcher, NoOrder \notin TopOfBook(m)
    PROVE  TopOfBook(m) \subseteq RowsLockedBy(m)
BY DEF TopOfBook, RowsLockedBy

LEMMA ReserveUnacknowledgedKeeps ==
    ASSUME IInv, LockInv, NEW m \in Matcher, ReserveUnacknowledged(m),
           UNCHANGED <<apiVars, executorVars>>
    PROVE  IInv'
BY CommitReturns, TopIsLocked DEF ReserveUnacknowledged

LEMMA AbortAcquireKeeps ==
    ASSUME IInv, NEW m \in Matcher, AbortAcquire(m), UNCHANGED <<apiVars, executorVars>>
    PROVE  IInv'
<1> USE DEF AbortAcquire
<1>1. StoreTypeOK' /\ StatusesMove
  BY RollbackTypes DEF IInv, TypeOK, StatusesMove, Rollback
<1>2. /\ tx'[m] = NoTx /\ \A n \in Matcher \ {m} : tx'[n] = tx[n]
      /\ UNCHANGED <<filled, created>>
  BY DEF IInv, TypeOK, StoreTypeOK, Rollback
<1>3. LockedSides(m)'
  BY <1>2, NoTxNoSides
<1>4. ExecutorTypeOK' /\ todo' \in [Matcher -> SUBSET Market]
  BY DEF IInv, TypeOK, ExecutorTypeOK, MatcherTypeOK, executorVars
<1>5. QED
  BY <1>1, <1>2, <1>3, <1>4, ReturnKeeps

LEMMA CrashKeeps ==
    ASSUME IInv, NEW m \in Matcher, MatcherCrash(m)
    PROVE  IInv'
<1> USE DEF MatcherCrash, Crash
<1>1. StoreTypeOK' /\ StatusesMove
  BY RollbackTypes DEF IInv, TypeOK, StatusesMove, Rollback
<1>2. /\ tx'[m] = NoTx /\ \A n \in Matcher \ {m} : tx'[n] = tx[n]
      /\ UNCHANGED <<filled, created>>
  BY DEF IInv, TypeOK, StoreTypeOK, Rollback
<1>3. LockedSides(m)'
  BY <1>2, NoTxNoSides
<1>4. ExecutorTypeOK' /\ todo' \in [Matcher -> SUBSET Market]
  BY DEF IInv, TypeOK, ExecutorTypeOK, MatcherTypeOK
<1>5. QED
  BY <1>1, <1>2, <1>3, <1>4, ReturnKeeps

LEMMA DeferredReleaseKeeps ==
    ASSUME IInv, NEW m \in Matcher, DeferredRelease(m), UNCHANGED <<apiVars, executorVars>>
    PROVE  IInv'
<1> USE DEF DeferredRelease
<1>1. StoreTypeOK' /\ StatusesMove
  BY ReleaseTypes DEF IInv, TypeOK, StatusesMove, ReleaseMatch
<1>2. UNCHANGED <<filled, created, tx>>
  BY DEF ReleaseMatch
<1>3. LockedSides(m)'
  BY <1>2 DEF IInv, PairInv, LockedSides
<1>4. ExecutorTypeOK' /\ todo' \in [Matcher -> SUBSET Market]
  BY DEF IInv, TypeOK, ExecutorTypeOK, MatcherTypeOK, executorVars
<1>5. QED
  BY <1>1, <1>2, <1>3, <1>4, ReturnKeeps

LEMMA ReleaseFailsKeeps ==
    ASSUME IInv, NEW m \in Matcher, ReleaseFails(m), UNCHANGED <<apiVars, executorVars>>
    PROVE  IInv'
<1> USE DEF ReleaseFails, storeVars
<1>1. StoreTypeOK' /\ StatusesMove /\ LockedSides(m)'
  BY DEF IInv, TypeOK, StoreTypeOK, StatusesMove, PairInv, LockedSides
<1>2. ExecutorTypeOK' /\ todo' \in [Matcher -> SUBSET Market]
  BY DEF IInv, TypeOK, ExecutorTypeOK, MatcherTypeOK, executorVars
<1>3. QED
  BY <1>1, <1>2, ReturnKeeps

-----------------------------------------------------------------------------
(* Reserving a pair *)

LEMMA ReservePairKeeps ==
    ASSUME IInv, LockInv, NEW m \in Matcher, ReservePair(m),
           UNCHANGED <<apiVars, executorVars>>
    PROVE  IInv'
<1> DEFINE bid == tx[m].bid
           ask == tx[m].ask
           taker == ChooseTaker(bid, ask)
           maker == IF taker = bid THEN ask ELSE bid
           c == [taker |-> taker, maker |-> maker, fill |-> FillOf(taker, maker)]
<1>1. /\ bid \in OrderId /\ ask \in OrderId
      /\ status[bid] = "active" /\ status[ask] = "active"
  BY DEF ReservePair, TopOfBook, BothActive, IInv, TypeOK, StoreTypeOK, Tx
<1>2. Order[bid].side = "buy" /\ Order[ask].side = "sell" /\ Order[bid].market = Order[ask].market
  BY <1>1, OrderIdAssumption DEF IInv, PairInv, LockedSides, ReservePair, TopOfBook
<1>3. /\ \/ taker = bid /\ maker = ask
         \/ taker = ask /\ maker = bid
      /\ created[maker] <= created[taker]
  BY <1>1, <1>2 DEF ChooseTaker, IInv, TypeOK, StoreTypeOK
<1>4. cand' = [cand EXCEPT ![m] = c]
  BY DEF ReservePair
<1> HIDE DEF bid, ask, taker, maker
<1>5. \A o \in {taker, maker} : o \in OrderId /\ status[o] = "active"
  BY <1>1, <1>3
<1>6. \A o \in {taker, maker} : Remaining(o) \in Nat
  <2>1. ASSUME NEW o \in {taker, maker}
        PROVE  Order[o].desired \in Nat /\ filled[o] \in Nat /\ filled[o] <= Order[o].desired
    <3>1. o \in OrderId /\ Placed(o)
      BY <1>5 DEF Placed
    <3>2. Order[o].desired \in Nat
      BY <3>1, OrderAssumption
    <3>3. QED
      BY <3>1, <3>2 DEF IInv, TypeOK, StoreTypeOK, FillsWithinDesired
  <2>2. QED
    BY <2>1 DEF Remaining
<1>7. c \in Match
  BY <1>5, <1>6 DEF Match, FillOf
<1>8. StatusesMove /\ UNCHANGED <<filled, created>>
  BY CommitMoves, TopIsLocked DEF ReservePair, CommitTx
<1>9. StoreTypeOK'
  BY CommitTypes DEF ReservePair, IInv, TypeOK
<1>10. /\ pc' \in [Matcher -> Control] /\ pc'[m] = "reserved"
       /\ \A n \in Matcher \ {m} : pc'[n] = pc[n]
  BY GotoTypes DEF ReservePair, IInv, TypeOK, Control, Holding
<1>11. TypeOK'
  BY <1>4, <1>7, <1>9, <1>10 DEF ReservePair, IInv, TypeOK, ApiTypeOK, MatcherTypeOK,
     ExecutorTypeOK, apiVars, executorVars
<1>12. tx'[m] = NoTx /\ \A n \in Matcher \ {m} : tx'[n] = tx[n]
  BY DEF ReservePair, CommitTx, IInv, TypeOK, StoreTypeOK
<1>13. cand'[m] = c
  BY <1>4 DEF IInv, TypeOK, MatcherTypeOK
<1>14. Opposite(taker, maker)
  BY <1>2, <1>3, <1>5 DEF Opposite
<1>15. CandidatePair(m)'
  BY <1>3, <1>5, <1>8, <1>13, <1>14, MovedRowsStayPlaced DEF CandidatePair, Opposite, Placed
<1>16. PairInv(m)'
  BY <1>10, <1>12, <1>15, NoTxNoSides DEF PairInv, SubmittedPair
<1>17. OthersIdle(m)
  BY <1>4, <1>10, <1>12 DEF OthersIdle, IInv, TypeOK, MatcherTypeOK
<1>18. QED
  BY <1>8, <1>11, <1>16, <1>17, MatcherFrame DEF apiVars

-----------------------------------------------------------------------------
(* Finalizing a match *)

LEMMA FinalizeMatchKeeps ==
    ASSUME IInv, NEW m \in Matcher, pc[m] = "finalizing",
           FinalizeMatch(cand[m].taker, cand[m].maker, cand[m].fill),
           MatcherTypeOK', UNCHANGED <<apiVars, executorVars>>,
           \A n \in Matcher \ {m} : pc'[n] = pc[n] /\ cand'[n] = cand[n],
           \/ pc'[m] \notin HasCandidate
           \/ pc'[m] = "releasing" /\ cand'[m] = cand[m]
    PROVE  IInv'
<1> DEFINE t == cand[m].taker
           p == cand[m].maker
           f == cand[m].fill
<1>1. /\ t \in OrderId /\ p \in OrderId /\ t # p
      /\ f \in Nat /\ f > 0
  BY DEF IInv, TypeOK, MatcherTypeOK, Match, PairInv, CandidatePair, SubmittedPair,
         Opposite, HasCandidate, Holding
<1> HIDE DEF t, p, f
<1>2. FinalizeMatch(t, p, f)
  BY DEF t, p, f
<1>3. StoreTypeOK'
  BY <1>1, <1>2, FinalizeTypes DEF IInv, TypeOK
<1>4. TypeOK'
  BY <1>3 DEF IInv, TypeOK, ApiTypeOK, ExecutorTypeOK, apiVars, executorVars
<1>5. FillsWithinDesired'
  <2>1. ASSUME NEW o \in OrderId, o \in {t, p}
        PROVE  /\ filled'[o] <= Order[o].desired
               /\ status'[o] = "filled" <=> filled'[o] = Order[o].desired
    BY <1>1, <1>2, <2>1 DEF FinalizeMatch, FillFits, StatusAfterFill
  <2>2. ASSUME NEW o \in OrderId, o \notin {t, p}
        PROVE  filled'[o] = filled[o] /\ status'[o] = status[o]
    BY <1>2, <2>2 DEF FinalizeMatch
  <2>3. QED
    BY <2>1, <2>2 DEF IInv, FillsWithinDesired, Placed
<1>6. RequestsValid'
  BY DEF IInv, RequestsValid, apiVars
<1>7. /\ \A o \in OrderId : Placed(o) => status'[o] # "none" /\ created'[o] = created[o]
      /\ UNCHANGED <<created, tx>>
  BY <1>2 DEF FinalizeMatch, StatusAfterFill, Placed
<1>8. ASSUME NEW n \in Matcher \ {m} PROVE PairInv(n)'
  BY <1>7, PairsUnaffected DEF IInv
<1>9. PairInv(m)'
  <2>1. LockedSides(m)'
    BY <1>7 DEF IInv, PairInv, LockedSides
  <2>2. CandidatePair(m)
    BY DEF IInv, PairInv
  <2>3. CandidatePair(m)' /\ SubmittedPair(m)'
    BY <1>7, <2>2 DEF CandidatePair, SubmittedPair, Opposite, HasCandidate, Holding, Placed
  <2>4. QED
    BY <2>1, <2>3 DEF PairInv
<1>10. QED
  BY <1>4, <1>5, <1>6, <1>8, <1>9 DEF IInv

LEMMA FinalizeKeeps ==
    ASSUME IInv, NEW m \in Matcher, Finalize(m), UNCHANGED <<apiVars, executorVars>>
    PROVE  IInv'
<1>1. /\ pc' \in [Matcher -> Control] /\ asOf' \in [Matcher -> Nat]
      /\ cand' \in [Matcher -> Match] /\ pc[m] = "finalizing" /\ pc'[m] = "idle"
      /\ \A n \in Matcher \ {m} : pc'[n] = pc[n] /\ cand'[n] = cand[n]
  BY ReturnTypes DEF IInv, TypeOK, Finalize
<1>2. MatcherTypeOK'
  BY <1>1 DEF Finalize, IInv, TypeOK, MatcherTypeOK
<1>3. pc'[m] \notin HasCandidate
  BY <1>1 DEF HasCandidate, Holding
<1>4. QED
  BY <1>1, <1>2, <1>3, FinalizeMatchKeeps DEF Finalize

LEMMA FinalizeUnacknowledgedKeeps ==
    ASSUME IInv, NEW m \in Matcher, FinalizeUnacknowledged(m),
           UNCHANGED <<apiVars, executorVars>>
    PROVE  IInv'
<1>1. /\ pc' \in [Matcher -> Control] /\ pc[m] = "finalizing" /\ pc'[m] = "releasing"
      /\ \A n \in Matcher \ {m} : pc'[n] = pc[n]
  BY GotoTypes DEF IInv, TypeOK, FinalizeUnacknowledged, Control
<1>2. MatcherTypeOK'
  BY <1>1 DEF FinalizeUnacknowledged, IInv, TypeOK, MatcherTypeOK
<1>3. QED
  BY <1>1, <1>2, FinalizeMatchKeeps DEF FinalizeUnacknowledged

-----------------------------------------------------------------------------
(* The theorems *)

\* IInv is inductive once row locks are known to be safe.
LEMMA NextKeepsIInv == ASSUME IInv, LockInv, [Next]_vars PROVE IInv'
<1>1. ASSUME NEW m \in Matcher, Acquire(m) PROVE IInv'
  BY <1>1, StartTickKeeps, BeginAcquireKeeps, LockBidKeeps, LockAskKeeps, FindNoPairKeeps,
     ReservePairKeeps DEF Acquire
<1>2. ASSUME NEW m \in Matcher, Examine(m) PROVE IInv'
  BY <1>2, PassOverKeeps, RefuseUnitsKeeps, SubmitMatchKeeps DEF Examine
<1>3. ASSUME NEW m \in Matcher, Settle(m) PROVE IInv'
  BY <1>3, FinalizeKeeps, FinalizeFailsKeeps, MarkMatchFailedKeeps, DeferredReleaseKeeps
     DEF Settle
<1>4. ASSUME NEW m \in Matcher, DatabaseFails(m) PROVE IInv'
  BY <1>4, AbortAcquireKeeps, ReserveUnacknowledgedKeeps, FinalizeUnacknowledgedKeeps,
     MarkMatchFailedFailsKeeps, ReleaseFailsKeeps DEF DatabaseFails
<1>5. ASSUME NEW m \in Matcher, Failure(m) PROVE IInv'
  BY <1>4, <1>5, AnswerKeeps, CrashKeeps DEF Failure
<1>6. ASSUME UNCHANGED vars PROVE IInv'
  <2> USE <1>6 DEF vars, storeVars, apiVars, matcherVars, executorVars
  <2>1. TypeOK'
    BY DEF IInv, TypeOK, StoreTypeOK, ApiTypeOK, MatcherTypeOK, ExecutorTypeOK
  <2>2. FillsWithinDesired' /\ RequestsValid'
    BY DEF IInv, FillsWithinDesired, RequestsValid, Placed
  <2>3. ASSUME NEW m \in Matcher PROVE PairInv(m)'
    BY PairsUnaffected DEF IInv, Placed
  <2>4. QED
    BY <2>1, <2>2, <2>3 DEF IInv
<1>7. QED
  BY <1>1, <1>2, <1>3, <1>5, <1>6, AnswerKeeps, UserStepKeeps, LateKeeps, QuarantineKeeps,
     TickKeeps DEF Next, MatcherStep

LEMMA IInvHolds == Spec => []IInv
<1>1. IInv /\ LockInv /\ [Next]_vars => IInv'
  BY NextKeepsIInv
<1>2. QED
  BY <1>1, InitIInv, LockInvHolds, PTL DEF Spec

\* Every variable keeps its type: in particular no candidate, fill or amount
\* is computed from a row that is not there or goes below zero.
THEOREM TypeCorrect == Spec => []TypeOK
<1>1. IInv => TypeOK
  BY DEF IInv
<1>2. QED
  BY <1>1, IInvHolds, PTL

\* No order is filled past what it asked for, and the status "filled" says
\* exactly that nothing remains (applyFill).
THEOREM FillsBounded == Spec => []FillsWithinDesired
<1>1. IInv => FillsWithinDesired
  BY DEF IInv
<1>2. QED
  BY <1>1, IInvHolds, PTL

-----------------------------------------------------------------------------
(* Every trade ever recorded respects the limits of both orders.  A trade  *)
(* is recorded from a candidate, long after the prices were compared; that *)
(* the candidate is still what was compared is IInv, and that nothing a    *)
(* later step does falsifies a recorded trade is PlacedIsForever.          *)

TradesInv ==
    \A i \in DOMAIN trades :
        /\ TradeRespectsLimits(trades[i])
        /\ Placed(trades[i].taker) /\ Placed(trades[i].maker)

\* A stored row is never deleted, nor is its timestamp changed.
LEMMA PlacedIsForever ==
    ASSUME StoreTypeOK, StoreStep, NEW o \in OrderId, Placed(o)
    PROVE  status'[o] # "none" /\ created'[o] = created[o]
<1> USE DEF Placed
<1>1. ASSUME NEW p \in OrderId, Create(p) PROVE status'[o] # "none" /\ created'[o] = created[o]
  BY <1>1 DEF StoreTypeOK, Create, Duplicate
<1>2. ASSUME NEW m \in Matcher, NEW reserved, CommitTx(m, reserved)
      PROVE  status'[o] # "none" /\ created'[o] = created[o]
  BY <1>2 DEF CommitTx
<1>3. ASSUME NEW t, NEW p, NEW fill, FinalizeMatch(t, p, fill)
      PROVE  status'[o] # "none" /\ created'[o] = created[o]
  BY <1>3 DEF FinalizeMatch, StatusAfterFill
<1>4. QED
  BY <1>1, <1>2, <1>3
  DEF StoreStep, CancelByOwnerNonce, ExpireOrders, ReleaseMatch, BeginTx, LockBest,
      Rollback, Quarantine, ClockTick, storeVars

FinalizesCandidate ==
    \E m \in Matcher :
        /\ pc[m] = "finalizing"
        /\ FinalizeMatch(cand[m].taker, cand[m].maker, cand[m].fill)

\* The only steps that record a trade.
LEMMA OnlyFinalizingTrades ==
    ASSUME [Next]_vars
    PROVE  FinalizesCandidate \/ UNCHANGED trades
<1>1. ASSUME UserStep PROVE UNCHANGED trades
  BY <1>1 DEF UserStep, Submit, SubmitOrder, Insert, InsertOrder, Conflict,
     RejectDuplicate, AskCancel, RequestCancel, Cancel, CancelOrder, ListBook,
     ReadBook, Create, CancelByOwnerNonce, ExpireOrders, storeVars
<1>2. ASSUME NEW m \in Matcher, Acquire(m) \/ Examine(m) PROVE UNCHANGED trades
  BY <1>2 DEF Acquire, Examine, StartTick, BeginAcquire, LockBid, LockAsk, FindNoPair,
     ReservePair, PassOver, RefuseUnits, SubmitMatch, BeginTx, LockBest, CommitTx, storeVars
<1>3. ASSUME NEW m \in Matcher, ExecutorAnswer(m) \/ Settle(m)
      PROVE  FinalizesCandidate \/ UNCHANGED trades
  <2>1. CASE Finalize(m)
    BY <2>1 DEF Finalize, Return, Goto, FinalizesCandidate
  <2>2. QED
    BY <1>3, <2>1 DEF ExecutorAnswer, Executed, AlreadyFilled, SubmitReturns, Settle,
       FinalizeFails, MarkMatchFailed, DeferredRelease, ReleaseMatch, storeVars
<1>4. ASSUME NEW m \in Matcher, DatabaseFails(m)
      PROVE  FinalizesCandidate \/ UNCHANGED trades
  <2>1. CASE FinalizeUnacknowledged(m)
    BY <2>1 DEF FinalizeUnacknowledged, Goto, FinalizesCandidate
  <2>2. QED
    BY <1>4, <2>1 DEF DatabaseFails, AbortAcquire, ReserveUnacknowledged,
       MarkMatchFailedFails, ReleaseFails, CommitTx, Rollback, storeVars
<1>5. ASSUME NEW m \in Matcher, Failure(m), ~DatabaseFails(m) PROVE UNCHANGED trades
  BY <1>5 DEF Failure, Rejected, ReplyLost, TimesOut, NotAccepted, SubmitFails,
     SubmitReturns, MatcherCrash, Crash, Rollback, storeVars
<1>6. ASSUME NEW c \in late, ExecuteLate(c) \/ RefuseLate(c) PROVE UNCHANGED trades
  BY <1>6 DEF ExecuteLate, RefuseLate, storeVars
<1>7. ASSUME NEW mk, NEW keys, RunQuarantine(mk, keys) PROVE UNCHANGED trades
  BY <1>7 DEF RunQuarantine, Quarantine
<1>8. ASSUME Tick \/ UNCHANGED vars PROVE UNCHANGED trades
  BY <1>8 DEF Tick, ClockTick, vars, storeVars
<1>9. QED
  BY <1>1, <1>2, <1>3, <1>4, <1>5, <1>6, <1>7, <1>8 DEF Next, MatcherStep

\* A pair whose prices were compared trades within its limits.
LEMMA CandidateRespectsLimits ==
    ASSUME IInv, NEW m \in Matcher, pc[m] = "finalizing"
    PROVE  TradeRespectsLimits([taker |-> cand[m].taker, maker |-> cand[m].maker,
                                price |-> Order[cand[m].maker].price,
                                size |-> cand[m].fill])
<1> DEFINE t == cand[m].taker
           p == cand[m].maker
           trade == [taker |-> t, maker |-> p, price |-> Order[p].price,
                     size |-> cand[m].fill]
<1>1. /\ Opposite(t, p) /\ Crosses(t, p)
      /\ created[p] <= created[t]
  BY DEF IInv, PairInv, CandidatePair, SubmittedPair, HasCandidate, Holding
<1> HIDE DEF t, p
<1>2. /\ trade.taker = t /\ trade.maker = p
      /\ trade.price = Order[p].price
  OBVIOUS
<1>3. /\ t \in OrderId /\ p \in OrderId
      /\ Order[t].price \in Nat /\ Order[p].price \in Nat
      /\ Order[t].side \in Side /\ Order[p].side \in Side
      /\ Order[t].side # Order[p].side
      /\ Order[t].market = Order[p].market
  BY <1>1, OrderAssumption DEF Opposite
<1> HIDE DEF trade
<1>4. \E b \in {o \in {t, p} : Order[o].side = "buy"},
         s \in {o \in {t, p} : Order[o].side = "sell"} :
          Order[s].price <= Order[p].price /\ Order[p].price <= Order[b].price
  <2>1. CASE Order[t].side = "buy"
    <3>1. Order[p].side = "sell" /\ Order[t].price >= Order[p].price
      BY <1>1, <1>3, <2>1 DEF Crosses, Side
    <3>2. QED
      BY <1>3, <2>1, <3>1
  <2>2. CASE Order[t].side = "sell"
    <3>1. Order[p].side = "buy" /\ Order[t].price <= Order[p].price
      BY <1>1, <1>3, <2>2 DEF Crosses, Side
    <3>2. QED
      BY <1>3, <2>2, <3>1
  <2>3. QED
    BY <1>3, <2>1, <2>2 DEF Side
<1>5. TradeRespectsLimits(trade)
  BY <1>1, <1>2, <1>3, <1>4 DEF TradeRespectsLimits
<1>6. QED
  BY <1>5 DEF trade, t, p

LEMMA NextKeepsTrades == ASSUME IInv, LockInv, TradesInv, [Next]_vars PROVE TradesInv'
<1>1. /\ trades \in Seq(Trade)
      /\ \A i \in DOMAIN trades : trades[i].taker \in OrderId /\ trades[i].maker \in OrderId
  <2>1. trades \in Seq(Trade)
    BY DEF IInv, TypeOK, StoreTypeOK
  <2>2. \A i \in DOMAIN trades : trades[i] \in Trade
    BY <2>1
  <2>3. QED
    BY <2>1, <2>2 DEF Trade
<1>2. \A o \in OrderId : Placed(o) => status'[o] # "none" /\ created'[o] = created[o]
  BY StepIsStoreStep, PlacedIsForever DEF IInv, TypeOK
<1>3. ASSUME NEW i \in DOMAIN trades, trades'[i] = trades[i]
      PROVE  /\ TradeRespectsLimits(trades[i])'
             /\ Placed(trades[i].taker)' /\ Placed(trades[i].maker)'
  BY <1>1, <1>2, <1>3 DEF TradesInv, TradeRespectsLimits, Placed
<1>4. CASE UNCHANGED trades
  BY <1>3, <1>4 DEF TradesInv
<1>5. CASE FinalizesCandidate
  <2>1. PICK m \in Matcher :
            /\ pc[m] = "finalizing"
            /\ FinalizeMatch(cand[m].taker, cand[m].maker, cand[m].fill)
    BY <1>5 DEF FinalizesCandidate
  <2>2. cand[m].taker \in OrderId /\ cand[m].maker \in OrderId /\ cand[m].fill \in Nat
    BY <2>1 DEF IInv, TypeOK, MatcherTypeOK, Match, PairInv, CandidatePair, Opposite,
       HasCandidate, Holding
  <2>3. PICK t \in OrderId, p \in OrderId, fill \in Nat :
            t = cand[m].taker /\ p = cand[m].maker /\ fill = cand[m].fill
    BY <2>2
  <2> DEFINE trade == [taker |-> t, maker |-> p, price |-> Order[p].price, size |-> fill]
  <2>4. /\ TradeRespectsLimits(trade) /\ Placed(t) /\ Placed(p)
        /\ trades' = Append(trades, trade)
    BY <2>1, <2>3, CandidateRespectsLimits
    DEF FinalizeMatch, IInv, PairInv, CandidatePair, HasCandidate, Holding
  <2>5. trade \in Trade /\ trade.taker = t /\ trade.maker = p
    BY OrderAssumption DEF Trade
  <2> HIDE DEF trade
  <2>6. /\ DOMAIN trades' = DOMAIN trades \union {Len(trades) + 1}
        /\ trades'[Len(trades) + 1] = trade
        /\ \A i \in DOMAIN trades : trades'[i] = trades[i]
    BY <1>1, <2>4, <2>5
  <2>7. TradeRespectsLimits(trade)' /\ Placed(t)' /\ Placed(p)'
    BY <1>2, <2>4, <2>5 DEF TradeRespectsLimits, Placed
  <2>8. ASSUME NEW i \in DOMAIN trades'
        PROVE  /\ TradeRespectsLimits(trades[i])'
               /\ Placed(trades[i].taker)' /\ Placed(trades[i].maker)'
    <3>1. CASE i \in DOMAIN trades
      BY <1>3, <2>6, <3>1
    <3>2. CASE i = Len(trades) + 1
      BY <2>5, <2>6, <2>7, <3>2 DEF TradeRespectsLimits, Placed
    <3>3. QED
      BY <2>6, <3>1, <3>2
  <2>9. QED
    BY <2>8 DEF TradesInv
<1>6. QED
  BY <1>4, <1>5, OnlyFinalizingTrades

\* Every trade is between opposite orders of one market, at the price of the
\* one placed first, within both limits: whatever the number of matchers and
\* whatever fails.
THEOREM TradesRespectLimits == Spec => []TradesWithinLimits
<1>1. Init => TradesInv
  BY DEF Init, StoreInit, TradesInv
<1>2. TradesInv /\ IInv /\ LockInv /\ [Next]_vars => TradesInv'
  BY NextKeepsTrades
<1>3. TradesInv => TradesWithinLimits
  BY DEF TradesInv, TradesWithinLimits
<1>4. QED
  BY <1>1, <1>2, <1>3, IInvHolds, LockInvHolds, PTL DEF Spec

-----------------------------------------------------------------------------
(* The service implements Exchange: whatever fails, each of its steps is a  *)
(* step of the contract or invisible to it                                  *)

\* What the contract sees of the store.
state == [o \in OrderId |-> ExchangeState(status[o])]
seen == <<state, filled, created, trades, now>>

LEMMA SeenIsExchangeVars == Contract!exchangeVars = seen
BY DEF Contract!exchangeVars, seen, state

\* Rows that a transaction has expired were due by now.
ExpiredAreDue == \A m \in Matcher : \A o \in tx[m].expired : Order[o].expiry <= now

LEMMA DueStaysDue ==
    ASSUME TypeOK, ExpiredAreDue, [Next]_vars
    PROVE  ExpiredAreDue'
<1> USE DEF TypeOK, StoreTypeOK, ExpiredAreDue
<1>1. ASSUME NEW m \in Matcher, NEW mk \in Market, BeginTx(m, mk, now) PROVE ExpiredAreDue'
  <2>1. /\ tx' = [tx EXCEPT ![m] = [NoTx EXCEPT !.market = mk, !.expired = Due(now)]]
        /\ UNCHANGED now
    BY <1>1 DEF BeginTx
  <2>2. tx'[m].expired = Due(now)
    BY <2>1 DEF NoTx
  <2>3. QED
    BY <2>1, <2>2 DEF Due
<1>2. ASSUME NEW m \in Matcher, NEW side, NEW o, LockBest(m, side, o) PROVE ExpiredAreDue'
  <2>1. \A n \in Matcher : tx'[n].expired = tx[n].expired
    BY <1>2 DEF LockBest, Tx
  <2>2. QED
    BY <1>2, <2>1 DEF LockBest
<1>3. ASSUME NEW m \in Matcher, tx' = [tx EXCEPT ![m] = NoTx], UNCHANGED now
      PROVE  ExpiredAreDue'
  BY <1>3 DEF NoTx
<1>4. CASE ClockTick
  <2>1. \A o \in OrderId : Order[o].expiry \in Nat
    BY OrderAssumption
  <2>2. QED
    BY <1>4, <2>1 DEF ClockTick, Tx
<1>5. QED
  BY <1>1, <1>2, <1>3, <1>4, StepIsStoreStep
  DEF StoreStep, Create, CancelByOwnerNonce, ExpireOrders, ReleaseMatch, CommitTx, Rollback,
      FinalizeMatch, Quarantine, storeVars

\* An order that was never placed was never filled here.
UnplacedUnfilled == \A o \in OrderId : ~Placed(o) => filled[o] = Order[o].filled0

LEMMA UnplacedStayUnfilled ==
    ASSUME TypeOK, LockInv, UnplacedUnfilled, [Next]_vars
    PROVE  UnplacedUnfilled'
<1> USE DEF TypeOK, StoreTypeOK, UnplacedUnfilled, Placed
<1>1. \A o \in OrderId : Placed(o) => Placed(o)'
  BY StepIsStoreStep, PlacedIsForever
<1>2. ASSUME NEW o \in OrderId, Create(o) PROVE UnplacedUnfilled'
  BY <1>2 DEF Create
<1>3. ASSUME NEW t, NEW p, NEW fill, FinalizeMatch(t, p, fill) PROVE UnplacedUnfilled'
  BY <1>1, <1>3 DEF FinalizeMatch, FillFits
<1>4. CASE UNCHANGED filled
  BY <1>1, <1>4
<1>5. QED
  BY <1>2, <1>3, <1>4, StepIsStoreStep
  DEF StoreStep, CancelByOwnerNonce, ExpireOrders, ReleaseMatch, BeginTx, LockBest, CommitTx,
      Rollback, Quarantine, ClockTick, storeVars

-----------------------------------------------------------------------------
(* Steps *)

\* A step that the contract does not see.
LEMMA Unseen ==
    ASSUME UNCHANGED <<filled, created, trades, now>>,
           \A o \in OrderId : ExchangeState(status'[o]) = ExchangeState(status[o])
    PROVE  UNCHANGED seen
BY DEF seen, state

\* Open orders that leave the book together.
LEMMA RowsLeave ==
    ASSUME StoreTypeOK, NEW gone \in SUBSET {o \in OrderId : Open(o)}, gone # {},
           NEW end \in {"cancelled", "expired"},
           UNCHANGED <<filled, created, trades, now>>,
           \A o \in OrderId : ExchangeState(status'[o]) =
               IF o \in gone THEN end ELSE ExchangeState(status[o])
    PROVE  Contract!Leave(gone, end)
<1>1. gone \subseteq Contract!OpenOrders
  BY DEF Contract!OpenOrders, ExchangeState, Open
<1>2. state' = [o \in OrderId |-> IF o \in gone THEN end ELSE state[o]]
  BY DEF state
<1>3. QED
  BY <1>1, <1>2 DEF Contract!Leave, state

LEMMA RowsWithdrawn ==
    ASSUME StoreTypeOK, NEW gone \in SUBSET {o \in OrderId : Open(o)},
           UNCHANGED <<filled, created, trades, now>>,
           \A o \in OrderId : status'[o] = IF o \in gone THEN "cancelled" ELSE status[o]
    PROVE  Contract!Next \/ UNCHANGED seen
<1>1. \A o \in OrderId : ExchangeState(status'[o]) =
          IF o \in gone THEN "cancelled" ELSE ExchangeState(status[o])
  BY DEF ExchangeState
<1>2. CASE gone = {}
  BY <1>1, <1>2, Unseen
<1>3. CASE gone # {}
  <2>1. Contract!Withdraw(gone)
    BY <1>1, <1>3, RowsLeave DEF Contract!Withdraw
  <2>2. gone \in SUBSET Contract!OpenOrders
    BY <2>1 DEF Contract!Withdraw, Contract!Leave
  <2>3. QED
    BY <2>1, <2>2 DEF Contract!Next
<1>4. QED
  BY <1>2, <1>3

\* A reservation that is made in the same step is not seen.
LEMMA RowsExpired ==
    ASSUME StoreTypeOK, NEW gone \in SUBSET {o \in OrderId : Open(o)},
           \A o \in gone : Order[o].expiry <= now,
           UNCHANGED <<filled, created, trades, now>>,
           \A o \in OrderId : ExchangeState(status'[o]) =
               IF o \in gone THEN "expired" ELSE ExchangeState(status[o])
    PROVE  Contract!Next \/ UNCHANGED seen
<1>1. CASE gone = {}
  BY <1>1, Unseen
<1>2. CASE gone # {}
  <2>1. Contract!Expire(gone)
    BY <1>2, RowsLeave DEF Contract!Expire
  <2>2. gone \in SUBSET Contract!OpenOrders
    BY <2>1 DEF Contract!Expire, Contract!Leave
  <2>3. QED
    BY <2>1, <2>2 DEF Contract!Next
<1>3. QED
  BY <1>1, <1>2

LEMMA CommitIsExpiry ==
    ASSUME StoreTypeOK, LockInv, ExpiredAreDue, NEW m \in Matcher,
           NEW reserved \in SUBSET RowsLockedBy(m), CommitTx(m, reserved)
    PROVE  Contract!Next \/ UNCHANGED seen
<1> DEFINE gone == tx[m].expired
<1>1. \A o \in RowsLockedBy(m) : status[o] = "active"
  BY DEF LockInv, LocksProtectActiveRows
<1>2. gone \subseteq OrderId /\ gone \subseteq RowsLockedBy(m)
  BY OrderIdAssumption DEF StoreTypeOK, Tx, RowsLockedBy
<1>3. gone \in SUBSET {o \in OrderId : Open(o)}
  BY <1>1, <1>2 DEF Open
<1>4. \A o \in OrderId : ExchangeState(status'[o]) =
          IF o \in gone THEN "expired" ELSE ExchangeState(status[o])
  BY <1>1 DEF CommitTx, ExchangeState
<1>5. UNCHANGED <<filled, created, trades, now>> /\ \A o \in gone : Order[o].expiry <= now
  BY DEF CommitTx, ExpiredAreDue
<1>6. QED
  BY <1>3, <1>4, <1>5, RowsExpired

LEMMA CreateIsPlace ==
    ASSUME StoreTypeOK, UnplacedUnfilled, FillsWithinDesired', NEW o \in OrderId, Create(o)
    PROVE  Contract!Next
<1>1. /\ status'[o] = "active" /\ filled'[o] = Order[o].filled0 /\ ~Placed(o)
      /\ \A p \in OrderId : Order[p].key = Order[o].key => status[p] = "none"
  BY DEF Create, Duplicate, Placed, StoreTypeOK
<1>2. Order[o].filled0 <= Order[o].desired
  BY <1>1 DEF FillsWithinDesired, Placed
<1>3. state' = [state EXCEPT ![o] = "open"]
  BY DEF Create, StoreTypeOK, state, ExchangeState
<1>4. \A p \in OrderId : Order[p].key = Order[o].key => state[p] = "none"
  BY <1>1 DEF state, ExchangeState
<1>5. UNCHANGED filled
  BY <1>1 DEF UnplacedUnfilled, Create, StoreTypeOK
<1>6. Contract!Place(o)
  BY <1>2, <1>3, <1>4, <1>5 DEF Contract!Place, Create, state
<1>7. QED
  BY <1>6 DEF Contract!Next

LEMMA FinalizeIsTrade ==
    ASSUME IInv, NEW m \in Matcher, pc[m] = "finalizing",
           FinalizeMatch(cand[m].taker, cand[m].maker, cand[m].fill)
    PROVE  Contract!Next
<1> DEFINE t == cand[m].taker
           p == cand[m].maker
           f == cand[m].fill
<1>1. /\ Opposite(t, p) /\ created[p] <= created[t]
      /\ Crosses(t, p) /\ f \in Nat /\ f > 0
  BY DEF IInv, TypeOK, MatcherTypeOK, Match, PairInv, CandidatePair, SubmittedPair,
     HasCandidate, Holding
<1>2. t \in OrderId /\ p \in OrderId
  BY <1>1 DEF Opposite
<1> HIDE DEF t, p, f
<1>3. FinalizeMatch(t, p, f)
  BY DEF t, p, f
<1>4. \A o \in {t, p} : status[o] = "matching" /\ filled[o] + f <= Order[o].desired
  BY <1>3 DEF FinalizeMatch, FillFits
<1>5. {t, p} \subseteq Contract!OpenOrders
  BY <1>2, <1>4 DEF Contract!OpenOrders, ExchangeState
<1>6. Contract!Opposed(t, p) /\ Contract!CrossedPrices(t, p)
  <2>1. Order[t].side \in {"buy", "sell"} /\ Order[p].side \in {"buy", "sell"}
    BY <1>2, OrderAssumption DEF Side
  <2>2. QED
    BY <1>1, <2>1 DEF Opposite, Crosses, Contract!Opposed, Contract!CrossedPrices
<1>7. state' = [o \in OrderId |-> IF o \in {t, p} THEN Contract!AfterFill(o, f) ELSE state[o]]
  BY <1>3 DEF FinalizeMatch, StatusAfterFill, Contract!AfterFill, state, ExchangeState
<1>8. f \in 1..Order[t].desired
  <2>1. filled[t] \in Nat /\ Order[t].desired \in Nat
    BY <1>2, OrderAssumption DEF IInv, TypeOK, StoreTypeOK
  <2>2. QED
    BY <1>1, <1>4, <2>1
<1>9. Contract!MakeTrade(t, p, f)
  BY <1>1, <1>3, <1>4, <1>5, <1>6, <1>7 DEF FinalizeMatch, Contract!MakeTrade, state
<1>10. QED
  BY <1>2, <1>8, <1>9 DEF Contract!Next

-----------------------------------------------------------------------------
(* The theorem *)

LEMMA StepIsContractStep ==
    ASSUME IInv, IInv', LockInv, ExpiredAreDue, UnplacedUnfilled, [Next]_vars
    PROVE  Contract!Next \/ UNCHANGED seen
<1> DEFINE Goal == Contract!Next \/ UNCHANGED seen
<1> USE DEF IInv, TypeOK
<1>1. CASE FinalizesCandidate
  BY <1>1, FinalizeIsTrade DEF FinalizesCandidate
<1>2. CASE ~FinalizesCandidate
  <2>1. UNCHANGED trades
    BY <1>2, OnlyFinalizingTrades
  <2>2. \A t, p, fill : ~FinalizeMatch(t, p, fill)
    <3> SUFFICES ASSUME NEW t, NEW p, NEW fill, FinalizeMatch(t, p, fill) PROVE FALSE
      OBVIOUS
    <3>1. Len(trades') = Len(trades) + 1
      BY DEF FinalizeMatch, StoreTypeOK
    <3>2. QED
      BY <2>1, <3>1 DEF StoreTypeOK
  <2>3. ASSUME NEW o \in OrderId, Create(o) PROVE Goal
    BY <2>3, CreateIsPlace
  <2>4. ASSUME NEW k, CancelByOwnerNonce(k) PROVE Goal
    BY <2>4, RowsWithdrawn DEF CancelByOwnerNonce, ActiveWithKey, Open
  <2>5. ASSUME ExpireOrders PROVE Goal
    <3>1. Due(now) \in SUBSET {o \in OrderId : Open(o)}
      BY DEF Due, Open
    <3>2. QED
      BY <2>5, <3>1, RowsExpired DEF ExpireOrders, Due, ExchangeState
  <2>6. ASSUME NEW rows, ReleaseMatch(rows) PROVE Goal
    BY <2>6, Unseen DEF ReleaseMatch, ExchangeState
  <2>7. ASSUME UNCHANGED <<status, filled, created, trades, now>> PROVE Goal
    BY <2>7, Unseen
  <2>8. ASSUME NEW m \in Matcher, NEW reserved \in SUBSET RowsLockedBy(m),
               CommitTx(m, reserved)
        PROVE  Goal
    BY <2>8, CommitIsExpiry
  <2>9. ASSUME NEW mk \in Market, NEW keys \in SUBSET Key, Quarantine(mk, keys) PROVE Goal
    <3> DEFINE hit == {o \in OrderId : Open(o) /\ Order[o].market = mk /\ Order[o].key \in keys}
    <3>1. hit \in SUBSET {o \in OrderId : Open(o)}
      OBVIOUS
    <3>2. QED
      BY <2>9, <3>1, RowsWithdrawn DEF Quarantine
  <2>10. ASSUME ClockTick PROVE Goal
    BY <2>10 DEF ClockTick, Contract!Next, Contract!Pass, state
  <2>11. QED
    BY <2>2, <2>3, <2>4, <2>5, <2>6, <2>7, <2>8, <2>9, <2>10, StepIsStoreStep
    DEF StoreStep, BeginTx, LockBest, Rollback, storeVars
<1>3. QED
  BY <1>1, <1>2

\* Whatever fails, what users see of the book is a behaviour of Exchange: the
\* reservations, retries and crashes of tickInstrument show only as orders
\* that are placed, leave, expire and trade within their limits.
THEOREM ServiceKeepsContract == Spec => ImplementsExchange
<1>1. Init => Contract!Init /\ ExpiredAreDue /\ UnplacedUnfilled
  BY DEF Init, StoreInit, NoTx, Contract!Init, ExchangeState, ExpiredAreDue, UnplacedUnfilled
<1>2. TypeOK /\ LockInv /\ ExpiredAreDue /\ UnplacedUnfilled /\ [Next]_vars
          => ExpiredAreDue' /\ UnplacedUnfilled'
  BY DueStaysDue, UnplacedStayUnfilled
<1>3. IInv /\ IInv' /\ LockInv /\ ExpiredAreDue /\ UnplacedUnfilled /\ [Next]_vars
          => [Contract!Next]_(Contract!exchangeVars)
  BY StepIsContractStep, SeenIsExchangeVars DEF seen, state, Contract!exchangeVars
<1>4. QED
  BY <1>1, <1>2, <1>3, IInvHolds, LockInvHolds, TypeCorrect, PTL
  DEF Spec, ImplementsExchange, Contract!Spec

-----------------------------------------------------------------------------
(* The ledger *)

\* For orders that are not placed as well: a refused duplicate has no trades.
LedgerInv == \A o \in OrderId : filled[o] = Order[o].filled0 + FilledByTrades(o)

\* The part that a trade has in what was filled of an order.
Share(o) == [t \in Trade |-> IF o \in {t.taker, t.maker} THEN t.size ELSE 0]

LEMMA TradeAdds ==
    ASSUME StoreTypeOK, NEW o \in OrderId, NEW t \in Trade, trades' = Append(trades, t)
    PROVE  /\ FilledByTrades(o) \in Int
           /\ FilledByTrades(o)' = FilledByTrades(o) + Share(o)[t]
<1>1. trades \in Seq(Trade) /\ Share(o) \in [Trade -> Int]
  BY DEF StoreTypeOK, Trade, Share
<1>2. \A s \in Seq(Trade) :
          [i \in DOMAIN s |-> IF o \in {s[i].taker, s[i].maker} THEN s[i].size ELSE 0]
              = [i \in DOMAIN s |-> Share(o)[s[i]]]
  BY DEF Share
<1>3. /\ FilledByTrades(o) = Total([i \in DOMAIN trades |-> Share(o)[trades[i]]])
      /\ FilledByTrades(o)' = Total([i \in DOMAIN trades' |-> Share(o)[trades'[i]]])
  <2>1. trades' \in Seq(Trade)
    BY <1>1
  <2>2. QED
    BY <1>1, <1>2, <2>1 DEF FilledByTrades
<1> DEFINE f == Share(o)
<1> HIDE DEF f
<1>4. /\ Total([i \in DOMAIN trades |-> f[trades[i]]]) \in Int
      /\ Total([i \in DOMAIN Append(trades, t) |-> f[Append(trades, t)[i]]])
             = Total([i \in DOMAIN trades |-> f[trades[i]]]) + f[t]
  BY <1>1, ColumnOfAppend DEF f
<1>5. QED
  BY <1>3, <1>4 DEF f

LEMMA TradeIsBooked ==
    ASSUME IInv, LedgerInv, FinalizesCandidate
    PROVE  LedgerInv'
<1>1. PICK m \in Matcher :
          /\ pc[m] = "finalizing"
          /\ FinalizeMatch(cand[m].taker, cand[m].maker, cand[m].fill)
  BY DEF FinalizesCandidate
<1>2. cand[m].taker \in OrderId /\ cand[m].maker \in OrderId /\ cand[m].fill \in Nat
  BY <1>1 DEF IInv, TypeOK, MatcherTypeOK, Match, PairInv, CandidatePair, Opposite,
     HasCandidate, Holding
<1>3. PICK t \in OrderId, p \in OrderId, fill \in Nat :
          t = cand[m].taker /\ p = cand[m].maker /\ fill = cand[m].fill
  BY <1>2
<1> DEFINE trade == [taker |-> t, maker |-> p, price |-> Order[p].price, size |-> fill]
<1>4. trade \in Trade /\ trades' = Append(trades, trade)
  BY <1>1, <1>3, OrderAssumption DEF FinalizeMatch, Trade
<1>5. \A o \in OrderId : Share(o)[trade] = IF o \in {t, p} THEN fill ELSE 0
  BY <1>4 DEF Share
<1>6. \A o \in OrderId :
          filled[o] \in Int /\ filled'[o] = filled[o] + Share(o)[trade]
  BY <1>1, <1>3, <1>5 DEF FinalizeMatch, IInv, TypeOK, StoreTypeOK
<1> HIDE DEF trade
<1>7. \A o \in OrderId :
          /\ FilledByTrades(o) \in Int
          /\ FilledByTrades(o)' = FilledByTrades(o) + Share(o)[trade]
  BY <1>4, TradeAdds DEF IInv, TypeOK
<1>8. \A o \in OrderId : Order[o].filled0 \in Nat /\ Share(o)[trade] \in Int
  BY <1>3, <1>5, OrderAssumption
<1>9. QED
  BY <1>6, <1>7, <1>8 DEF LedgerInv

\* No other step touches either side of the ledger.
LEMMA OnlyTradesFill ==
    ASSUME TypeOK, UnplacedUnfilled, [Next]_vars, UNCHANGED trades
    PROVE  UNCHANGED filled
<1> USE DEF TypeOK, StoreTypeOK
<1>1. ASSUME NEW o \in OrderId, Create(o) PROVE UNCHANGED filled
  BY <1>1 DEF Create, Duplicate, UnplacedUnfilled, Placed
<1>2. \A t, p, fill : ~FinalizeMatch(t, p, fill)
  <2> SUFFICES ASSUME NEW t, NEW p, NEW fill, FinalizeMatch(t, p, fill) PROVE FALSE
    OBVIOUS
  <2>1. Len(trades') = Len(trades) + 1
    BY DEF FinalizeMatch
  <2>2. QED
    BY <2>1
<1>3. QED
  BY <1>1, <1>2, StepIsStoreStep
  DEF StoreStep, CancelByOwnerNonce, ExpireOrders, ReleaseMatch, BeginTx, LockBest, CommitTx,
      Rollback, Quarantine, ClockTick, storeVars

LEMMA LedgerKept ==
    ASSUME IInv, UnplacedUnfilled, LedgerInv, [Next]_vars
    PROVE  LedgerInv'
<1>1. CASE UNCHANGED trades
  <2>1. \A o \in OrderId : FilledByTrades(o)' = FilledByTrades(o)
    BY <1>1 DEF FilledByTrades
  <2>2. QED
    BY <1>1, <2>1, OnlyTradesFill DEF LedgerInv, IInv
<1>2. QED
  BY <1>1, TradeIsBooked, OnlyFinalizingTrades

\* What the rows say has been filled and what the trades say are one account,
\* whatever number of matchers works and whatever fails: no trade without its
\* fills, no fill without its trade, none booked twice (finalizeMatchFn).
THEOREM LedgerHolds == Spec => []LedgerConserved
<1>1. Init => LedgerInv /\ UnplacedUnfilled
  <2>1. ASSUME Init, NEW o \in OrderId PROVE FilledByTrades(o) = 0
    <3>1. trades = <<>> /\ DOMAIN trades = {}
      BY <2>1 DEF Init, StoreInit
    <3>2. FilledByTrades(o) = Total(<<>>)
      BY <3>1 DEF FilledByTrades
    <3>3. QED
      BY <3>2, TotalOfNothing
  <2>2. QED
    BY <2>1, OrderAssumption DEF Init, StoreInit, LedgerInv, UnplacedUnfilled
<1>2. IInv /\ LockInv /\ UnplacedUnfilled /\ LedgerInv /\ [Next]_vars
          => LedgerInv' /\ UnplacedUnfilled'
  BY LedgerKept, UnplacedStayUnfilled DEF IInv
<1>3. LedgerInv => LedgerConserved
  BY DEF LedgerInv, LedgerConserved
<1>4. QED
  BY <1>1, <1>2, <1>3, IInvHolds, LockInvHolds, PTL DEF Spec

=============================================================================
