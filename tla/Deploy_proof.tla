---------------------------- MODULE Deploy_proof ----------------------------
(***************************************************************************)
(* The safety properties of Deploy for any set of rows, tick size, number  *)
(* of deploys and restarts.  A row of a known instrument has either the    *)
(* ticks of its price or none (Canonical); while the backfill runs the     *)
(* rows that have none are those it has still to update (Covered), and     *)
(* only those can be locked (LockHeld).  The fill of a candidate stays a   *)
(* natural because the pair in hand is reserved and not yet full.          *)
(***************************************************************************)
EXTENDS Deploy, FiniteSetTheorems, TLAPS

\* The types that matter here.
ColumnTypes ==
    /\ status \in [OrderId -> {"none", "active", "matching", "filled"}]
    /\ ticks \in [OrderId -> Nat]
    /\ pending \in SUBSET OrderId

\* Rows that the registry can price.
Priced(o) == Placed(o) /\ Known(o)

\* A stored row has the ticks of its price or none.
Canonical ==
    \A o \in OrderId : Priced(o) => ticks[o] \in {Null, Row[o].ticks}

\* Only an order from before the column can be without ticks although its
\* price has no point.
NullsAreDecimal ==
    \A o \in OrderId :
        Priced(o) /\ ticks[o] = Null => Decimal(o) \/ Row[o].legacy

\* What the backfill has not read has ticks.
Covered ==
    dp \in {"backfilling", "serving"} =>
        \A o \in OrderId : Priced(o) /\ ticks[o] = Null => o \in pending

NothingPending == dp = "serving" => pending = {}

LockHeld == updating # NoOrder => dp = "backfilling" /\ updating \in pending

\* The candidate's rows are in the table.
PairPlaced ==
    /\ pc # "idle" => bid \in OrderId /\ Placed(bid)
    /\ pc \in {"reserved", "finalizing", "releasing"} => ask \in OrderId /\ Placed(ask)

DeployInv ==
    /\ ColumnTypes
    /\ Canonical /\ NullsAreDecimal
    /\ Covered /\ NothingPending /\ LockHeld
    /\ PairPlaced

-----------------------------------------------------------------------------
LEMMA DeployInvInit == ASSUME Init PROVE DeployInv
BY RowAssumption DEF Init, DeployInv, ColumnTypes, Canonical, NullsAreDecimal,
   Covered, NothingPending, LockHeld, PairPlaced, Priced, Placed, Null, NoOrder

\* A legacy row without a point has its price as ticks.
LEMMA SeedIsCanonical ==
    ASSUME NEW o \in OrderId, Row[o].legacy, Known(o), ~Decimal(o)
    PROVE  Row[o].ticks \div TicksPerUnit = Row[o].ticks
<1>1. TicksPerUnit = 1
  BY LegacyAssumption
<1>2. Row[o].ticks \in Nat
  BY RowAssumption
<1> QED BY <1>1, <1>2

\* No step of the matcher touches ticks or takes a row out of the table.
LEMMA MatcherKeepsRows ==
    ASSUME ColumnTypes, PairPlaced, MatcherStep
    PROVE  /\ ColumnTypes' /\ PairPlaced'
           /\ \A o \in OrderId : Placed(o)' <=> Placed(o)
           /\ UNCHANGED <<ticks, deployVars>>
<1> USE DEF ColumnTypes, PairPlaced, Placed, rowVars
<1>1. CASE LockBid
  BY <1>1 DEF LockBid, Goto, BestOf, Lockable, Active, deployVars, backfillVars, historyVars
<1>2. CASE LockAsk
  <2>1. ask' \in OrderId /\ status[ask'] = "active"
    BY <1>2 DEF LockAsk, BestOf, Lockable, Active
  <2>2. pc = "lockAsk" /\ pc' = "reserved" /\ bid' = bid /\ bid \in OrderId
    BY <1>2 DEF LockAsk, Goto
  <2>3. status' = [status EXCEPT ![bid] = "matching", ![ask'] = "matching"]
    BY <1>2 DEF LockAsk
  <2>4. UNCHANGED <<ticks, deployVars>>
    BY <1>2 DEF LockAsk
  <2> QED BY <2>1, <2>2, <2>3, <2>4 DEF deployVars, backfillVars, historyVars
<1>3. CASE NoAsk
  BY <1>3 DEF NoAsk, Goto, Forget, deployVars, backfillVars, historyVars
<1>4. CASE PassOver
  BY <1>4 DEF PassOver, Goto, deployVars, backfillVars, historyVars
<1>5. CASE Execute
  BY <1>5 DEF Execute, Goto, deployVars, backfillVars, historyVars
<1>6. CASE AlreadyFilled
  BY <1>6 DEF AlreadyFilled, Goto, deployVars, backfillVars, historyVars
<1>7. CASE Finalize
  BY <1>7 DEF Finalize, Goto, Forget, deployVars, backfillVars, historyVars
<1>8. CASE FinalizeFails
  BY <1>8 DEF FinalizeFails, Goto, deployVars, backfillVars, historyVars
<1>9. CASE Release
  BY <1>9 DEF Release, Goto, Forget, deployVars, backfillVars, historyVars
<1> QED
  BY <1>1, <1>2, <1>3, <1>4, <1>5, <1>6, <1>7, <1>8, <1>9 DEF MatcherStep

\* A new row comes with its ticks, at whatever stage of a deploy.
LEMMA InsertKeeps ==
    ASSUME DeployInv, NEW o \in OrderId, Insert(o)
    PROVE  DeployInv'
<1> USE DEF DeployInv, ColumnTypes
<1>1. /\ status[o] = "none"
      /\ status' = [status EXCEPT ![o] = "active"]
      /\ ticks' = [ticks EXCEPT ![o] = Row[o].ticks]
      /\ UNCHANGED <<deployVars, matcherVars>>
  BY DEF Insert
<1>2. Row[o].ticks \in Nat \ {Null}
  BY RowAssumption
<1>3. ColumnTypes'
  BY <1>1, <1>2 DEF deployVars, backfillVars, historyVars
<1>4. \A p \in OrderId : p # o => status'[p] = status[p] /\ ticks'[p] = ticks[p]
  BY <1>1
<1>5. ticks'[o] = Row[o].ticks /\ status'[o] = "active"
  BY <1>1
<1>6. Canonical'
  BY <1>4, <1>5 DEF Canonical, Priced, Placed, Known
<1>7. NullsAreDecimal'
  BY <1>2, <1>4, <1>5 DEF NullsAreDecimal, Priced, Placed, Known, Decimal
<1>8. Covered'
  BY <1>1, <1>2, <1>4, <1>5
  DEF Covered, Priced, Placed, Known, deployVars, backfillVars
<1>9. NothingPending' /\ LockHeld' /\ PairPlaced'
  BY <1>1, <1>4, <1>5
  DEF NothingPending, LockHeld, PairPlaced, Placed, deployVars, backfillVars, matcherVars
<1> QED BY <1>3, <1>6, <1>7, <1>8, <1>9

\* The migrations write only nulls and ticks of the row's own price, and no
\* stage in which the invariant says more follows them directly.
LEMMA MigrationsKeep ==
    ASSUME DeployInv, Migrate
    PROVE  DeployInv'
<1> USE DEF DeployInv
<1>1. /\ UNCHANGED <<status, backfillVars, matcherVars>>
      /\ dp \in {"seeding", "resetting"} /\ dp' \in {"resetting", "starting"}
  BY DEF Migrate, Seed, ResetDecimals, GotoStage, rowVars
<1>2. \A p \in OrderId : Row[p].ticks \in Nat
  BY RowAssumption
<1>3. ColumnTypes' /\ Canonical' /\ NullsAreDecimal'
  <2>1. CASE Seed
    <3>1. ticks' = [o \in OrderId |->
                       IF Placed(o) /\ ~Readable(o) /\ ~Decimal(o)
                       THEN Row[o].ticks \div TicksPerUnit ELSE ticks[o]]
      BY <2>1 DEF Seed
    <3>2. \A o \in OrderId : Priced(o) /\ ~Readable(o) /\ ~Decimal(o) => Row[o].legacy
      BY DEF NullsAreDecimal, Readable
    <3>3. \A o \in OrderId : Priced(o) =>
             ticks'[o] = ticks[o] \/ ticks'[o] = Row[o].ticks
      BY <3>1, <3>2, SeedIsCanonical DEF Priced
    <3>4. ticks' \in [OrderId -> Nat]
      <4>1. \A o \in OrderId : Row[o].ticks \div TicksPerUnit \in Nat
        BY <1>2, TicksPerUnitAssumption
      <4> QED BY <3>1, <4>1 DEF ColumnTypes
    <3>5. \A o \in OrderId : Priced(o)' = Priced(o) /\ Decimal(o)' = Decimal(o)
      BY <1>1 DEF Priced, Placed, Known, Decimal
    <3>6. Canonical'
      BY <3>3, <3>5 DEF Canonical
    <3>7. NullsAreDecimal'
      <4>1. \A o \in OrderId : Priced(o) /\ ticks'[o] = Null => ticks[o] = Null \/ Row[o].ticks = Null
        BY <3>3
      <4>2. \A o \in OrderId : Row[o].ticks # Null
        BY RowAssumption
      <4> QED BY <3>5, <4>1, <4>2 DEF NullsAreDecimal
    <3> QED BY <1>1, <3>4, <3>6, <3>7 DEF ColumnTypes, backfillVars
  <2>2. CASE ResetDecimals
    <3>1. ticks' = [o \in OrderId |-> IF Placed(o) /\ Decimal(o) THEN Null ELSE ticks[o]]
      BY <2>2 DEF ResetDecimals
    <3>2. \A o \in OrderId : Priced(o)' = Priced(o) /\ Decimal(o)' = Decimal(o)
      BY <1>1 DEF Priced, Placed, Known, Decimal
    <3>3. ticks' \in [OrderId -> Nat]
      BY <3>1 DEF ColumnTypes, Null
    <3>4. Canonical'
      BY <3>1, <3>2 DEF Canonical
    <3>5. NullsAreDecimal'
      BY <3>1, <3>2 DEF NullsAreDecimal
    <3> QED BY <1>1, <3>3, <3>4, <3>5 DEF ColumnTypes, backfillVars
  <2> QED BY <2>1, <2>2 DEF Migrate
<1>4. Covered' /\ NothingPending' /\ LockHeld'
  BY <1>1 DEF Covered, NothingPending, LockHeld, backfillVars
<1>5. PairPlaced'
  BY <1>1 DEF PairPlaced, Placed, matcherVars
<1> QED BY <1>3, <1>4, <1>5

\* The backfill reads every row without ticks, and serves when it has updated
\* all those of known instruments.
LEMMA StartupKeeps ==
    ASSUME DeployInv, Startup
    PROVE  DeployInv'
<1> USE DEF DeployInv, ColumnTypes
<1>1. UNCHANGED <<status, matcherVars>>
  BY DEF Startup, BackfillStep, ReadMissing, LockRow, Backfill, SkipUnknown, Serve, rowVars
<1>2. \A o \in OrderId : Priced(o)' = Priced(o) /\ Decimal(o)' = Decimal(o)
  BY <1>1 DEF Priced, Placed, Known, Decimal
<1>3. PairPlaced'
  BY <1>1 DEF PairPlaced, Placed, matcherVars
<1>4. CASE ReadMissing
  <2>1. /\ ticks' = ticks /\ updating' = updating
        /\ dp = "starting" /\ dp' = "backfilling"
        /\ pending' = {o \in OrderId : Placed(o) /\ ~Readable(o)}
    BY <1>4 DEF ReadMissing, GotoStage
  <2>2. Covered'
    BY <1>2, <2>1 DEF Covered, Priced, Readable
  <2> QED BY <1>1, <1>2, <1>3, <2>1, <2>2 DEF Canonical, NullsAreDecimal,
         NothingPending, LockHeld
<1>5. ASSUME NEW o \in OrderId, LockRow(o) PROVE DeployInv'
  BY <1>1, <1>2, <1>3, <1>5 DEF LockRow, Canonical, NullsAreDecimal, Covered,
     NothingPending, LockHeld
<1>6. ASSUME NEW o \in OrderId, Backfill(o) PROVE DeployInv'
  <2>1. /\ ticks' = [ticks EXCEPT ![o] = Row[o].ticks]
        /\ dp = "backfilling" /\ dp' = dp
        /\ pending' = pending \ {o} /\ updating' = NoOrder
    BY <1>6 DEF Backfill
  <2>2. Row[o].ticks \in Nat \ {Null}
    BY RowAssumption
  <2>3. \A p \in OrderId : p # o => ticks'[p] = ticks[p]
    BY <2>1
  <2>4. ticks'[o] = Row[o].ticks
    BY <2>1
  <2>5. Canonical' /\ NullsAreDecimal'
    BY <1>2, <2>2, <2>3, <2>4 DEF Canonical, NullsAreDecimal
  <2>6. Covered' /\ NothingPending' /\ LockHeld'
    BY <1>2, <2>1, <2>2, <2>3, <2>4 DEF Covered, NothingPending, LockHeld
  <2> QED BY <1>1, <1>3, <2>1, <2>2, <2>5, <2>6
<1>7. ASSUME NEW o \in OrderId, SkipUnknown(o) PROVE DeployInv'
  <2>1. /\ ticks' = ticks /\ updating = NoOrder /\ updating' = updating
        /\ dp = "backfilling" /\ dp' = dp
        /\ pending' = pending \ {o} /\ ~Known(o)
    BY <1>7 DEF SkipUnknown
  <2>2. Covered'
    BY <1>2, <2>1 DEF Covered, Priced
  <2> QED BY <1>1, <1>2, <1>3, <2>1, <2>2 DEF Canonical, NullsAreDecimal,
         NothingPending, LockHeld
<1>8. CASE Serve
  <2>1. /\ UNCHANGED <<ticks, pending, updating>>
        /\ dp = "backfilling" /\ dp' = "serving" /\ pending = {}
    BY <1>8 DEF Serve, GotoStage, backfillVars
  <2> QED BY <1>1, <1>2, <1>3, <2>1 DEF Canonical, NullsAreDecimal, Covered,
         NothingPending, LockHeld
<1> QED BY <1>4, <1>5, <1>6, <1>7, <1>8 DEF Startup, BackfillStep

LEMMA DeployInvNext ==
    ASSUME DeployInv, [Next]_vars
    PROVE  DeployInv'
<1>1. ASSUME NEW o \in OrderId, Insert(o) PROVE DeployInv'
  BY <1>1, InsertKeeps
<1>2. CASE Migrate
  BY <1>2, MigrationsKeep
<1>3. CASE Startup
  BY <1>3, StartupKeeps
<1>4. CASE MatcherStep
  <2>1. ColumnTypes /\ PairPlaced
    BY DEF DeployInv
  <2>2. /\ ColumnTypes' /\ PairPlaced'
        /\ \A o \in OrderId : Placed(o)' <=> Placed(o)
        /\ UNCHANGED <<ticks, deployVars>>
    BY <1>4, <2>1, MatcherKeepsRows
  <2>3. \A o \in OrderId : Priced(o)' = Priced(o) /\ Decimal(o)' = Decimal(o)
    BY <2>2 DEF Priced, Known, Decimal
  <2> QED BY <2>2, <2>3 DEF DeployInv, Canonical, NullsAreDecimal, Covered,
         NothingPending, LockHeld, deployVars, backfillVars
<1>5. CASE BeginDeploy \/ MigrationFails \/ BackfillStops
  <2>1. /\ UNCHANGED <<status, ticks, matcherVars>>
        /\ dp' \in {"seeding", "starting", "abandoned"}
        /\ \/ UNCHANGED backfillVars /\ dp # "backfilling"
           \/ pending' = {} /\ updating' = NoOrder
    BY <1>5 DEF BeginDeploy, MigrationFails, BackfillStops, rowVars
  <2>2. \A o \in OrderId : Priced(o)' = Priced(o) /\ Decimal(o)' = Decimal(o)
    BY <2>1 DEF Priced, Placed, Known, Decimal
  <2> QED BY <2>1, <2>2 DEF DeployInv, ColumnTypes, Canonical, NullsAreDecimal, Covered,
         NothingPending, LockHeld, PairPlaced, Placed, backfillVars, matcherVars
<1>6. CASE UNCHANGED vars
  BY <1>6 DEF vars, rowVars, deployVars, backfillVars, matcherVars, DeployInv,
     ColumnTypes, Canonical, NullsAreDecimal, Covered, NothingPending, LockHeld,
     PairPlaced, Priced, Placed, Known, Decimal
<1> QED BY <1>1, <1>2, <1>3, <1>4, <1>5, <1>6 DEF Next

LEMMA DeployInvRestored == ASSUME DeployInv PROVE BookRestored
BY DEF DeployInv, BookRestored, Canonical, Covered, NothingPending, Priced

\* BookRestored: a process that serves finds the ticks of every order of a known
\* instrument right, for any orders inserted and matched beside the deploys, and however often
\* the migrations and the backfill were interrupted and repeated
\* (BackfillLimitPriceTicks).
THEOREM DeployRestoresTicks == Spec => []BookRestored
<1>1. Init => DeployInv
  BY DeployInvInit
<1>2. DeployInv /\ [Next]_vars => DeployInv'
  BY DeployInvNext
<1>3. DeployInv => BookRestored
  BY DeployInvRestored
<1> QED BY <1>1, <1>2, <1>3, PTL DEF Spec

-----------------------------------------------------------------------------
(* Prices *)

\* While a process serves nothing is locked by a backfill and no row that can be
\* matched is without its ticks.
LEMMA ServingBook ==
    ASSUME DeployInv, dp = "serving", NEW side
    PROVE  /\ Lockable(side) = Active(side)
           /\ \A o \in Active(side) :
                  /\ o \in OrderId /\ Row[o].side = side
                  /\ Readable(o) /\ ticks[o] = Row[o].ticks
<1>1. updating = NoOrder
  BY DEF DeployInv, LockHeld
<1>2. NoOrder \notin OrderId
  BY OrderIdAssumption
<1>3. Lockable(side) = Active(side)
  BY <1>1, <1>2 DEF Lockable, Active
<1>4. \A o \in Active(side) : o \in OrderId /\ Row[o].side = side /\ Placed(o) /\ Known(o)
  BY DEF Active, Placed
<1> QED BY <1>3, <1>4, DeployInvRestored, RowAssumption DEF BookRestored, Readable

LEMMA LockBidBest ==
    ASSUME DeployInv, LockBid, dp = "serving", NEW o \in Active("buy")
    PROVE  ~TrulyBetter(o, bid')
<1>1. bid' \in Active("buy") /\ ~BetterTicks(o, bid')
  BY ServingBook DEF LockBid, BestOf
<1> QED BY <1>1, ServingBook DEF BetterTicks, TrulyBetter

LEMMA LockAskBest ==
    ASSUME DeployInv, LockAsk, dp = "serving", NEW o \in Active("sell")
    PROVE  ~TrulyBetter(o, ask')
<1>1. {p \in Lockable("sell") : Readable(p)} = Active("sell")
  BY ServingBook
<1>2. ask' \in BestOf({p \in Lockable("sell") : Readable(p)})
  BY DEF LockAsk
<1>3. ask' \in Active("sell") /\ ~BetterTicks(o, ask')
  BY <1>1, <1>2 DEF BestOf
<1> QED BY <1>3, ServingBook DEF BetterTicks, TrulyBetter

\* PriorityOutsideDeploys: while a process serves and no deploy is under way,
\* the statements of AcquireMatchCandidate (lockBestBySide) never lock an order
\* while a better one is in the book: the deploys before have left no row
\* without its ticks and none locked.
THEOREM DeployKeepsPriority == Spec => PriorityOutsideDeploys
<1>1. DeployInv /\ [Next]_vars =>
        [dp = "serving" =>
             /\ LockBid => \A o \in Active("buy") : ~TrulyBetter(o, bid')
             /\ LockAsk => \A o \in Active("sell") : ~TrulyBetter(o, ask')]_vars
  BY LockBidBest, LockAskBest
<1>2. Init => DeployInv
  BY DeployInvInit
<1>3. DeployInv /\ [Next]_vars => DeployInv'
  BY DeployInvNext
<1> QED BY <1>1, <1>2, <1>3, PTL DEF Spec, PriorityOutsideDeploys

-----------------------------------------------------------------------------
(* Types *)

\* Nothing is filled past its order, and what is not "filled" has something
\* left: so no fill is negative.
AmountsFit ==
    \A o \in OrderId :
        /\ filled[o] <= Row[o].desired
        /\ status[o] # "filled" => filled[o] < Row[o].desired

\* Rows are only ever finitely many, so they can be counted.
Stored == {o \in OrderId : Placed(o)}

HasPair == {"reserved", "finalizing", "releasing"}

\* The candidate is a bid and an ask, and nobody else takes them.
PairInHand ==
    /\ pc = "lockAsk" => bid \in OrderId /\ Row[bid].side = "buy" /\ status[bid] = "active"
    /\ pc \in HasPair =>
           /\ bid \in OrderId /\ Row[bid].side = "buy" /\ status[bid] = "matching"
           /\ ask \in OrderId /\ Row[ask].side = "sell" /\ status[ask] = "matching"

TypeInv == TypeOK /\ AmountsFit /\ IsFiniteSet(Stored) /\ PairInHand

LEMMA TypeInvInit == ASSUME Init PROVE TypeInv
<1>1. Stored = {o \in OrderId : Row[o].legacy}
  BY DEF Init, Stored, Placed
<1>2. upgraded \in BOOLEAN
  BY Zenon DEF Init
<1>3. TypeOK
  <2>1. /\ status \in [OrderId -> {"none", "active", "matching", "filled"}]
        /\ ticks \in [OrderId -> Nat] /\ created \in [OrderId -> Nat]
        /\ filled \in [OrderId -> Nat] /\ chain \in [OrderId -> Nat]
    BY SMT DEF Init, Null
  <2>2. /\ dp \in Stage /\ pending \in SUBSET OrderId
        /\ updating \in OrderId \union {NoOrder}
        /\ deploys \in 1..MaxDeploys /\ restarts \in 0..MaxRestarts
        /\ pc \in {"idle", "lockAsk", "reserved", "finalizing", "releasing"}
        /\ bid \in OrderId \union {NoOrder} /\ ask \in OrderId \union {NoOrder}
    BY BoundAssumption, SMT DEF Init, Stage
  <2> QED BY <1>2, <2>1, <2>2, Zenon DEF TypeOK
<1>4. AmountsFit
  BY RowAssumption DEF Init, AmountsFit
<1>5. PairInHand
  BY DEF Init, PairInHand, HasPair
<1> QED BY <1>1, <1>3, <1>4, <1>5, FiniteAssumption DEF TypeInv

\* The fill of a pair in hand fits both of its rows.
LEMMA FillIsPositive ==
    ASSUME TypeInv, pc \in HasPair
    PROVE  /\ bid \in OrderId /\ ask \in OrderId /\ bid # ask
           /\ Fill \in Nat \ {0} /\ Fill <= Left(bid) /\ Fill <= Left(ask)
           /\ Left(bid) \in Nat /\ Left(ask) \in Nat
<1>1. /\ bid \in OrderId /\ status[bid] = "matching"
      /\ ask \in OrderId /\ status[ask] = "matching"
      /\ bid # ask
  BY DEF TypeInv, PairInHand
<1>2. \A o \in {bid, ask} : filled[o] \in Nat /\ Row[o].desired \in Nat
                            /\ filled[o] < Row[o].desired
  BY <1>1, RowAssumption DEF TypeInv, TypeOK, AmountsFit
<1>3. Left(bid) \in Nat \ {0} /\ Left(ask) \in Nat \ {0}
  BY <1>2 DEF Left
<1> QED BY <1>1, <1>3 DEF Fill

LEMMA InsertTyped ==
    ASSUME TypeInv, NEW o \in OrderId, Insert(o)
    PROVE  TypeInv'
<1> USE DEF TypeInv
<1>1. /\ status[o] = "none"
      /\ status' = [status EXCEPT ![o] = "active"]
      /\ ticks' = [ticks EXCEPT ![o] = Row[o].ticks]
      /\ created' = [created EXCEPT ![o] = Cardinality(Stored)]
      /\ UNCHANGED <<filled, chain, deployVars, matcherVars>>
  BY DEF Insert, Stored
<1>2. Cardinality(Stored) \in Nat
  BY FS_CardinalityType
<1>3. Row[o].ticks \in Nat /\ Row[o].desired \in Nat \ {0}
  BY RowAssumption
<1>4. TypeOK'
  BY <1>1, <1>2, <1>3 DEF TypeOK, deployVars, backfillVars, historyVars, matcherVars
<1>5. AmountsFit'
  BY <1>1, <1>3 DEF AmountsFit, TypeOK
<1>6. IsFiniteSet(Stored')
  <2>1. Stored' = Stored \union {o}
    BY <1>1 DEF Stored, Placed, TypeOK
  <2> QED BY <2>1, FS_AddElement
<1>7. PairInHand'
  BY <1>1 DEF PairInHand, HasPair, TypeOK, matcherVars
<1> QED BY <1>4, <1>5, <1>6, <1>7

LEMMA MatcherTyped ==
    ASSUME TypeInv, MatcherStep
    PROVE  TypeInv'
<1> USE DEF TypeInv, HasPair
<1> SUFFICES TypeOK' /\ AmountsFit' /\ PairInHand' /\ \A o \in OrderId : Placed(o)' = Placed(o)
  BY DEF Stored
<1>1. CASE LockBid
  <2>1. bid' \in OrderId /\ Row[bid'].side = "buy" /\ status[bid'] = "active"
    BY <1>1 DEF LockBid, BestOf, Lockable, Active
  <2> QED BY <1>1, <2>1 DEF LockBid, Goto, rowVars, deployVars, backfillVars,
       historyVars, TypeOK, AmountsFit,
         PairInHand, Placed
<1>2. CASE LockAsk
  <2>1. ask' \in OrderId /\ Row[ask'].side = "sell" /\ status[ask'] = "active"
    BY <1>2 DEF LockAsk, BestOf, Lockable, Active
  <2>2. bid' = bid /\ bid \in OrderId /\ Row[bid].side = "buy" /\ status[bid] = "active"
    BY <1>2 DEF LockAsk, Goto, PairInHand
  <2>3. /\ pc' = "reserved"
        /\ status' = [status EXCEPT ![bid] = "matching", ![ask'] = "matching"]
        /\ UNCHANGED <<created, filled, chain, ticks, deployVars>>
    BY <1>2 DEF LockAsk, Goto
  <2> QED BY <2>1, <2>2, <2>3 DEF deployVars, backfillVars, historyVars, TypeOK,
       AmountsFit, PairInHand, Placed
<1>3. CASE NoAsk
  BY <1>3 DEF NoAsk, Goto, Forget, rowVars, deployVars, backfillVars, historyVars,
       TypeOK, AmountsFit, PairInHand,
     Placed
<1>4. CASE PassOver \/ AlreadyFilled \/ FinalizeFails
  BY <1>4 DEF PassOver, AlreadyFilled, FinalizeFails, Goto, rowVars, deployVars,
       backfillVars, historyVars, TypeOK,
     AmountsFit, PairInHand, Placed
<1>5. CASE Execute
  <2>1. bid \in OrderId /\ ask \in OrderId /\ bid # ask /\ Fill \in Nat
    BY <1>5, FillIsPositive DEF Execute, Goto
  <2>2. /\ pc = "reserved" /\ pc' = "finalizing"
        /\ chain' = [chain EXCEPT ![bid] = @ + Fill, ![ask] = @ + Fill]
        /\ UNCHANGED <<status, created, filled, ticks, deployVars, bid, ask>>
    BY <1>5 DEF Execute, Goto
  <2> HIDE DEF Fill
  <2>3. chain' \in [OrderId -> Nat]
    BY <2>1, <2>2 DEF TypeOK
  <2> QED BY <2>2, <2>3 DEF deployVars, backfillVars, historyVars, TypeOK, AmountsFit,
       PairInHand, Placed
<1>6. CASE Finalize
  <2>1. /\ bid \in OrderId /\ ask \in OrderId /\ bid # ask
        /\ Fill \in Nat \ {0} /\ Fill <= Left(bid) /\ Fill <= Left(ask)
    BY <1>6, FillIsPositive DEF Finalize, Goto
  <2>2. /\ pc' = "idle" /\ bid' = NoOrder /\ ask' = NoOrder
        /\ filled' = [filled EXCEPT ![bid] = @ + Fill, ![ask] = @ + Fill]
        /\ status' = [o \in OrderId |-> IF o \notin {bid, ask} THEN status[o]
                                        ELSE IF Left(o) = Fill THEN "filled" ELSE "active"]
        /\ UNCHANGED <<created, chain, ticks, deployVars>>
    BY <1>6 DEF Finalize, Goto, Forget
  <2>3. pc \in HasPair
    BY <1>6 DEF Finalize, Goto
  <2>4. \A o \in {bid, ask} : o \in OrderId /\ Placed(o)
    BY <2>1, <2>3 DEF PairInHand, Placed
  <2> DEFINE fill == Fill
  <2>5. fill \in Nat \ {0} /\ \A o \in {bid, ask} :
            fill <= Row[o].desired - filled[o] /\ (Left(o) = fill => Row[o].desired - filled[o] = fill)
            /\ (Left(o) # fill => Row[o].desired - filled[o] # fill)
    BY <2>1 DEF Left
  <2>6. \A o \in OrderId : filled'[o] = IF o \in {bid, ask} THEN filled[o] + fill
                                                            ELSE filled[o]
    BY <2>1, <2>2 DEF TypeOK
  <2>7. \A o \in OrderId : filled[o] \in Nat /\ Row[o].desired \in Nat
    BY RowAssumption DEF TypeOK
  <2>8. filled' \in [OrderId -> Nat]
    <3>1. \A o \in OrderId : filled'[o] \in Nat
      <4> HIDE DEF fill
      <4> QED BY <2>5, <2>6, <2>7
    <3> QED BY <2>2, <3>1 DEF TypeOK
  <2>9. \A o \in OrderId : status'[o] = IF o \notin {bid, ask} THEN status[o]
                                        ELSE IF Left(o) = fill THEN "filled" ELSE "active"
    BY <2>2
  <2>10. AmountsFit'
    <3> SUFFICES ASSUME NEW o \in OrderId
                 PROVE  /\ filled'[o] <= Row[o].desired
                        /\ status'[o] # "filled" => filled'[o] < Row[o].desired
      BY DEF AmountsFit
    <3> HIDE DEF fill
    <3>1. CASE o \in {bid, ask}
      BY <2>5, <2>6, <2>7, <2>9, <3>1
    <3>2. CASE o \notin {bid, ask}
      BY <2>6, <2>9, <3>2 DEF AmountsFit
    <3> QED BY <3>1, <3>2
  <2>11. TypeOK'
    <3>1. status' \in [OrderId -> {"none", "active", "matching", "filled"}]
      BY <2>2 DEF TypeOK
    <3> QED BY <2>2, <2>8, <3>1 DEF TypeOK, deployVars, backfillVars, historyVars
  <2>12. \A o \in OrderId : Placed(o)' = Placed(o)
    BY <2>4, <2>9 DEF Placed
  <2> QED BY <2>2, <2>10, <2>11, <2>12 DEF PairInHand
<1>7. CASE Release
  <2>1. bid \in OrderId /\ ask \in OrderId /\ status[bid] = "matching" /\ status[ask] = "matching"
    BY <1>7 DEF Release, Goto, PairInHand
  <2>2. /\ pc' = "idle" /\ bid' = NoOrder /\ ask' = NoOrder
        /\ status' = [status EXCEPT ![bid] = "active", ![ask] = "active"]
        /\ UNCHANGED <<created, filled, chain, ticks, deployVars>>
    BY <1>7 DEF Release, Goto, Forget
  <2> QED BY <2>1, <2>2 DEF deployVars, backfillVars, historyVars, TypeOK, AmountsFit,
       PairInHand, Placed
<1> QED
  BY <1>1, <1>2, <1>3, <1>4, <1>5, <1>6, <1>7 DEF MatcherStep

\* A deploy writes ticks only.
LEMMA DeployStepTyped ==
    ASSUME TypeInv,
           Migrate \/ Startup \/ BeginDeploy \/ MigrationFails \/ BackfillStops
    PROVE  TypeInv'
<1> USE DEF TypeInv
<1>1. UNCHANGED <<rowVars, matcherVars>>
  BY DEF Migrate, Seed, ResetDecimals, Startup, BackfillStep, ReadMissing, LockRow, Backfill,
     SkipUnknown, Serve, BeginDeploy, MigrationFails, BackfillStops
<1>2. AmountsFit' /\ PairInHand' /\ Stored' = Stored
  BY <1>1 DEF AmountsFit, PairInHand, HasPair, Stored, Placed, rowVars, matcherVars
<1>3. ticks' \in [OrderId -> Nat]
  <2>1. \A o \in OrderId : Row[o].ticks \in Nat /\ Row[o].ticks \div TicksPerUnit \in Nat
    BY RowAssumption, TicksPerUnitAssumption
  <2> QED BY <2>1 DEF TypeOK, Migrate, Seed, ResetDecimals, Startup, BackfillStep,
         ReadMissing, LockRow, Backfill, SkipUnknown, Serve, BeginDeploy, MigrationFails,
         BackfillStops, Null
<1>4. dp' \in Stage
  BY DEF TypeOK, Stage, Migrate, Seed, ResetDecimals, Startup, BackfillStep, ReadMissing,
     LockRow, Backfill, SkipUnknown, Serve, BeginDeploy, MigrationFails, BackfillStops,
     GotoStage
<1>5. pending' \in SUBSET OrderId /\ updating' \in OrderId \union {NoOrder}
  <2>1. CASE Startup
    BY <2>1 DEF Startup, BackfillStep, ReadMissing, LockRow, Backfill, SkipUnknown, Serve,
       TypeOK, backfillVars
  <2>2. CASE Migrate \/ BeginDeploy \/ MigrationFails \/ BackfillStops
    BY <2>2 DEF Migrate, Seed, ResetDecimals, BeginDeploy, MigrationFails, BackfillStops,
       TypeOK, backfillVars
  <2> QED BY <2>1, <2>2
<1>6. deploys' \in 1..MaxDeploys /\ restarts' \in 0..MaxRestarts
  BY BoundAssumption
  DEF TypeOK, Migrate, Seed, ResetDecimals, Startup, BackfillStep, ReadMissing, LockRow,
      Backfill, SkipUnknown, Serve, BeginDeploy, MigrationFails, BackfillStops, historyVars
<1>7. upgraded' \in BOOLEAN
  <2>1. upgraded' = upgraded \/ upgraded' = TRUE
    BY DEF Migrate, Seed, ResetDecimals, Startup, BackfillStep, ReadMissing, LockRow,
       Backfill, SkipUnknown, Serve, BeginDeploy, MigrationFails, BackfillStops, historyVars
  <2> QED BY <2>1, Zenon DEF TypeOK
<1> QED BY <1>1, <1>2, <1>3, <1>4, <1>5, <1>6, <1>7 DEF TypeOK, rowVars, matcherVars

LEMMA TypeInvNext ==
    ASSUME TypeInv, [Next]_vars
    PROVE  TypeInv'
<1>1. CASE UNCHANGED vars
  BY <1>1 DEF vars, rowVars, deployVars, backfillVars, historyVars, matcherVars,
       TypeInv, TypeOK, AmountsFit,
     PairInHand, HasPair, Stored, Placed
<1> QED
  BY <1>1, InsertTyped, MatcherTyped, DeployStepTyped DEF Next

\* Whatever the book and however the deploys are interrupted, the columns keep
\* their types; in particular no fill computed from a candidate, the smaller of
\* the two remaining amounts (tickInstrument), is negative, and restarts stay
\* within restartPolicyMaxRetries.
THEOREM DeployTypeCorrect == Spec => []TypeOK
<1>1. Init => TypeInv
  BY TypeInvInit
<1>2. TypeInv /\ [Next]_vars => TypeInv'
  BY TypeInvNext
<1>3. TypeInv => TypeOK
  BY DEF TypeInv
<1> QED BY <1>1, <1>2, <1>3, PTL DEF Spec

=============================================================================
