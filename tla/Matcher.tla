------------------------------ MODULE Matcher ------------------------------
(***************************************************************************)
(* The matching loop of internal/matching/engine.go.  pc[m] is where       *)
(* tickInstrument of process m stands:                                     *)
(*                                                                         *)
(*   idle        between instruments, or between ticks when todo is empty  *)
(*   lockBid, lockAsk, reserve                                             *)
(*               inside AcquireMatchCandidate, its transaction open        *)
(*   reserved    the candidate is reserved and has yet to be examined      *)
(*   submitting  the match has been sent to the executor                   *)
(*   finalizing  FinalizeMatchWithPrice comes next                         *)
(*   failing     MarkMatchFailed comes next, then the deferred release     *)
(*   releasing   the deferred ReleaseMatch comes next                      *)
(*                                                                         *)
(* What goes wrong outside the program is enabled by Faults.               *)
(***************************************************************************)
EXTENDS OrderStore

CONSTANT Faults
FaultKinds == {"crash",          \* the matcher process stops and is restarted
               "dbError",        \* a statement or a commit reports an error
               "reject",         \* the executor answers with another error
               "lostReply",      \* it executes and the answer is lost
               "lateExecution",  \* it executes after the client's timeout
               "notAccepted",    \* it answers 2xx, accepted false, no tx_hash
               "quarantine"}     \* the operator's script runs
ASSUME FaultsAssumption == Faults \subseteq FaultKinds

VARIABLES pc,    \* control state of each matcher process
          todo,  \* instruments the current tick has still to visit
          asOf,  \* tickInstrument's now
          cand   \* the match candidate and its fill amount

matcherVars == <<pc, todo, asOf, cand>>

Acquiring == {"lockBid", "lockAsk", "reserve"}
Holding == {"reserved", "submitting", "finalizing", "failing"}
Control == {"idle", "releasing"} \union Acquiring \union Holding

MatcherTypeOK ==
    /\ pc \in [Matcher -> Control]
    /\ todo \in [Matcher -> SUBSET Market]
    /\ asOf \in [Matcher -> Nat]
    /\ cand \in [Matcher -> Match]

MatcherInit ==
    /\ pc = [m \in Matcher |-> "idle"]
    /\ todo = [m \in Matcher |-> {}]
    /\ asOf = [m \in Matcher |-> 0]
    /\ cand = [m \in Matcher |-> NoMatch]

Goto(m, from, to) == pc[m] = from /\ pc' = [pc EXCEPT ![m] = to]
Pair(m) == {cand[m].taker, cand[m].maker}

\* tickInstrument returns; its now and its candidate are out of scope.
Return(m, from) ==
    /\ Goto(m, from, "idle")
    /\ asOf' = [asOf EXCEPT ![m] = 0]
    /\ cand' = [cand EXCEPT ![m] = NoMatch]

-----------------------------------------------------------------------------
(* The loop and AcquireMatchCandidate *)

StartTick(m) ==
    /\ pc[m] = "idle" /\ todo[m] = {}
    /\ todo' = [todo EXCEPT ![m] = Market]
    /\ UNCHANGED <<pc, asOf, cand, storeVars>>

BeginAcquire(m, mk) ==
    /\ mk \in todo[m]
    /\ todo' = [todo EXCEPT ![m] = @ \ {mk}]
    /\ Goto(m, "idle", "lockBid")
    /\ asOf' = [asOf EXCEPT ![m] = now]
    /\ BeginTx(m, mk, now)
    /\ UNCHANGED cand

LockBid(m) ==
    /\ Goto(m, "lockBid", "lockAsk")
    /\ \E o \in OrderId \union {NoOrder} : LockBest(m, "buy", o)
    /\ UNCHANGED <<todo, asOf, cand>>

LockAsk(m) ==
    /\ Goto(m, "lockAsk", "reserve")
    /\ \E o \in OrderId \union {NoOrder} : LockBest(m, "sell", o)
    /\ UNCHANGED <<todo, asOf, cand>>

TopOfBook(m) == {tx[m].bid, tx[m].ask}

\* One side is empty: commit the expirations and return no candidate.
FindNoPair(m) ==
    /\ Return(m, "reserve")
    /\ NoOrder \in TopOfBook(m)
    /\ CommitTx(m, {})
    /\ UNCHANGED todo

\* reserveOrders must affect both rows.
BothActive(m) == \A o \in TopOfBook(m) : status[o] = "active"

FillOf(o, p) == IF Remaining(o) <= Remaining(p) THEN Remaining(o) ELSE Remaining(p)

\* The rows cannot change between the locks and the commit, so the amounts the
\* candidate carries are those of this state.
ReservePair(m) ==
    /\ Goto(m, "reserve", "reserved")
    /\ NoOrder \notin TopOfBook(m)
    /\ BothActive(m)
    /\ LET taker == ChooseTaker(tx[m].bid, tx[m].ask)
           maker == IF taker = tx[m].bid THEN tx[m].ask ELSE tx[m].bid
       IN  cand' = [cand EXCEPT ![m] = [taker |-> taker, maker |-> maker,
                                        fill |-> FillOf(taker, maker)]]
    /\ CommitTx(m, TopOfBook(m))
    /\ UNCHANGED <<todo, asOf>>

\* A statement fails, or reserveOrders counts fewer rows than it was given,
\* and the transaction is rolled back.
ReserveMisses(m) ==
    pc[m] = "reserve" /\ NoOrder \notin TopOfBook(m) /\ ~BothActive(m)
AbortAcquire(m) ==
    /\ pc[m] \in Acquiring
    /\ "dbError" \in Faults \/ ReserveMisses(m)
    /\ Return(m, pc[m])
    /\ Rollback(m)
    /\ UNCHANGED todo

\* The commit takes effect but its acknowledgement is lost: the rows are
\* reserved and tickInstrument has no candidate to release.
ReserveUnacknowledged(m) ==
    /\ "dbError" \in Faults
    /\ Return(m, "reserve")
    /\ NoOrder \notin TopOfBook(m)
    /\ BothActive(m)
    /\ CommitTx(m, TopOfBook(m))
    /\ UNCHANGED todo

-----------------------------------------------------------------------------
(* Examining the candidate *)

IsExpired(o, t) == Order[o].expiry <= t

\* Mutant: the comparison for a selling taker is that for a buying one.
CrossesOneWay(taker, maker) == Order[taker].price >= Order[maker].price

\* Mutant: equal prices do not cross.
CrossesStrictly(taker, maker) ==
    IF Order[taker].side = "buy" THEN Order[taker].price > Order[maker].price
                                 ELSE Order[taker].price < Order[maker].price

Crosses(taker, maker) ==
    IF Order[taker].side = "buy" THEN Order[taker].price >= Order[maker].price
                                 ELSE Order[taker].price <= Order[maker].price

\* computeExecutionUnits finds one scale for both signed actions, and
\* buildExecutorRequest one module.
Executable(taker, maker) ==
    /\ Order[taker].units = Order[maker].units
    /\ Order[taker].units # Unusable

Matchable(m) ==
    /\ \A o \in Pair(m) : ~IsExpired(o, asOf[m])
    /\ Crosses(cand[m].taker, cand[m].maker)
    /\ cand[m].fill # 0

\* Mutant: the release is deferred only after the early returns.
PassOverUndeferred(m) ==
    /\ Return(m, "reserved")
    /\ ~Matchable(m)
    /\ UNCHANGED <<todo, storeVars>>

PassOver(m) ==
    /\ Goto(m, "reserved", "releasing")
    /\ ~Matchable(m)
    /\ UNCHANGED <<todo, asOf, cand, storeVars>>

\* Mutant: the early return leaves the pair reserved.
RefuseUnitsUndeferred(m) ==
    /\ Return(m, "reserved")
    /\ Matchable(m) /\ ~Executable(cand[m].taker, cand[m].maker)
    /\ UNCHANGED <<todo, storeVars>>

RefuseUnits(m) ==
    /\ Goto(m, "reserved", "failing")
    /\ Matchable(m) /\ ~Executable(cand[m].taker, cand[m].maker)
    /\ UNCHANGED <<todo, asOf, cand, storeVars>>

SubmitMatch(m) ==
    /\ Goto(m, "reserved", "submitting")
    /\ Matchable(m) /\ Executable(cand[m].taker, cand[m].maker)
    /\ UNCHANGED <<todo, asOf, cand, storeVars>>

-----------------------------------------------------------------------------
(* What SubmitMatchForMarket returns *)

\* No error, or one that shouldFinalizeAfterExecutorError recognises.
SubmitReturns(m) ==
    /\ Goto(m, "submitting", "finalizing")
    /\ UNCHANGED <<todo, asOf, cand, storeVars>>

\* Any other error, a timeout included.
SubmitFails(m) ==
    /\ Goto(m, "submitting", "failing")
    /\ UNCHANGED <<todo, asOf, cand, storeVars>>

-----------------------------------------------------------------------------
(* Settling the candidate in the store *)

Finalize(m) ==
    /\ Return(m, "finalizing")
    /\ FinalizeMatch(cand[m].taker, cand[m].maker, cand[m].fill)
    /\ UNCHANGED todo

\* applyFill refuses, or the transaction fails and is rolled back.
CanFinalize(m) == \A o \in Pair(m) : FillFits(o, cand[m].fill)
FinalizeFails(m) ==
    /\ Goto(m, "finalizing", "releasing")
    /\ ~CanFinalize(m) \/ "dbError" \in Faults
    /\ UNCHANGED <<todo, asOf, cand, storeVars>>

\* The commit takes effect but its acknowledgement is lost.
FinalizeUnacknowledged(m) ==
    /\ "dbError" \in Faults
    /\ Goto(m, "finalizing", "releasing")
    /\ FinalizeMatch(cand[m].taker, cand[m].maker, cand[m].fill)
    /\ UNCHANGED <<todo, asOf, cand>>

\* Mutant: an instrument whose match failed ends the tick.
FailedEndsTick(m) ==
    /\ Goto(m, "failing", "releasing")
    /\ ReleaseMatch(Pair(m))
    /\ todo' = [todo EXCEPT ![m] = {}]
    /\ UNCHANGED <<asOf, cand>>

MarkMatchFailed(m) ==
    /\ Goto(m, "failing", "releasing")
    /\ ReleaseMatch(Pair(m))
    /\ UNCHANGED <<todo, asOf, cand>>

\* Its error is discarded.
MarkMatchFailedFails(m) ==
    /\ "dbError" \in Faults
    /\ Goto(m, "failing", "releasing")
    /\ UNCHANGED <<todo, asOf, cand, storeVars>>

DeferredRelease(m) ==
    /\ Return(m, "releasing")
    /\ ReleaseMatch(Pair(m))
    /\ UNCHANGED todo

\* The error is only logged, and the rows stay as they are.
ReleaseFails(m) ==
    /\ "dbError" \in Faults
    /\ Return(m, "releasing")
    /\ UNCHANGED <<todo, storeVars>>

\* Mutant: a stopping process releases its pair, whatever the executor does.
CrashReleases(m) ==
    /\ "crash" \in Faults
    /\ pc[m] # "idle"
    /\ Return(m, pc[m])
    /\ todo' = [todo EXCEPT ![m] = {}]
    /\ status' = [o \in OrderId |-> IF o \in Pair(m) /\ status[o] = "matching"
                                    THEN "active" ELSE status[o]]
    /\ tx' = [tx EXCEPT ![m] = NoTx]
    /\ UNCHANGED <<filled, created, trades, now>>

\* The process dies.  Its transaction is rolled back; nothing else is undone.
Crash(m) ==
    /\ "crash" \in Faults
    /\ pc[m] # "idle"
    /\ Return(m, pc[m])
    /\ todo' = [todo EXCEPT ![m] = {}]
    /\ Rollback(m)

=============================================================================
