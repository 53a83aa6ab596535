------------------------------- MODULE Deploy -------------------------------
(***************************************************************************)
(* A deploy beside a running service.  cmd/migrate runs every migration    *)
(* again: 000004 seeds limit_price_ticks with prices that have no point,   *)
(* 000005 nulls the ticks of every price that has one.  The new api        *)
(* process recomputes them (BackfillLimitPriceTicks) before it serves.     *)
(* Meanwhile a process that has not been replaced inserts orders and the   *)
(* matcher works on the book: a null sorts first among the bids and last   *)
(* among the asks, no row that has one can be scanned, and a row that the  *)
(* backfill has locked is skipped.                                         *)
(*                                                                         *)
(* One market; ticks[o] is the column.  The price of o is Row[o].ticks     *)
(* ticks, of which TicksPerUnit make a price of 1.                         *)
(***************************************************************************)
EXTENDS Integers, FiniteSets

CONSTANTS OrderId,       \* order identifiers
          Row,           \* the columns of each order that do not change
          TicksPerUnit,  \* 1 / tick size of the instrument
          MaxDeploys,    \* bound on the deploys, for TLC
          MaxRestarts    \* restartPolicyMaxRetries of railway.toml

NoOrder == 0
Null == 0                \* ticks are positive

ASSUME OrderIdAssumption == OrderId \subseteq Nat \ {NoOrder}
ASSUME RowAssumption ==
    Row \in [OrderId -> [side: {"buy", "sell"}, ticks: Nat \ {Null},
                         desired: Nat \ {0}, legacy: BOOLEAN, known: BOOLEAN]]
ASSUME TicksPerUnitAssumption == TicksPerUnit \in Nat \ {0}
ASSUME BoundAssumption == MaxDeploys \in Nat \ {0} /\ MaxRestarts \in Nat
ASSUME FiniteAssumption == IsFiniteSet({o \in OrderId : Row[o].legacy})

\* limit_price is shown with a point.
Decimal(o) == Row[o].ticks % TicksPerUnit # 0

\* The registry has the instrument of o.  One that has been removed from it
\* since is not matched any more.
Known(o) == Row[o].known

\* Orders placed before the column existed have "already-canonical integer
\* prices" (000004) if they have integer prices: those of instruments whose
\* tick is 1.
ASSUME LegacyAssumption ==
    \A o \in OrderId : Row[o].legacy /\ Known(o) => Decimal(o) \/ TicksPerUnit = 1

VARIABLES status,    \* status column; "none" before the row exists
          ticks,     \* limit_price_ticks column
          created,   \* created_at column
          filled,    \* filled_amount column
          chain,     \* what the contract has filled of each order
          dp,        \* where the deploy stands
          pending,   \* rows that the backfill has read and not yet updated
          updating,  \* the row that its update has locked, if any
          upgraded,  \* a process that knows the column has served
          deploys,   \* deploys begun
          restarts,  \* restarts of the new process in this deploy
          pc,        \* where the matcher stands in tickInstrument
          bid, ask   \* its candidate

rowVars == <<status, created, filled, chain>>
backfillVars == <<pending, updating>>
historyVars == <<upgraded, deploys, restarts>>
deployVars == <<dp, backfillVars, historyVars>>
matcherVars == <<pc, bid, ask>>
vars == <<rowVars, ticks, deployVars, matcherVars>>

Stage == {"seeding", "resetting", "starting", "backfilling", "serving",
          "abandoned"}

TypeOK ==
    /\ status \in [OrderId -> {"none", "active", "matching", "filled"}]
    /\ ticks \in [OrderId -> Nat]
    /\ created \in [OrderId -> Nat]
    /\ filled \in [OrderId -> Nat]
    /\ chain \in [OrderId -> Nat]
    /\ dp \in Stage
    /\ pending \in SUBSET OrderId
    /\ updating \in OrderId \union {NoOrder}
    /\ upgraded \in BOOLEAN
    /\ deploys \in 1..MaxDeploys
    /\ restarts \in 0..MaxRestarts
    /\ pc \in {"idle", "lockAsk", "reserved", "finalizing", "releasing"}
    /\ bid \in OrderId \union {NoOrder}
    /\ ask \in OrderId \union {NoOrder}

\* The first deploy of the column, over the orders that are there.
Init ==
    /\ status = [o \in OrderId |-> IF Row[o].legacy THEN "active" ELSE "none"]
    /\ ticks = [o \in OrderId |-> Null]
    /\ created = [o \in OrderId |-> 0]
    /\ filled = [o \in OrderId |-> 0]
    /\ chain = [o \in OrderId |-> 0]
    /\ dp = "seeding" /\ pending = {} /\ updating = NoOrder
    /\ upgraded = FALSE /\ deploys = 1 /\ restarts = 0
    /\ pc = "idle" /\ bid = NoOrder /\ ask = NoOrder

Placed(o) == status[o] # "none"
Readable(o) == ticks[o] # Null
ColumnExists == dp # "seeding" \/ deploys > 1

\* Repository.Create, by whichever api process is there: it may be the one that
\* the deploy replaces, but not one from before the column, whose inserts this
\* statement is not.
Insert(o) ==
    /\ upgraded /\ Known(o)
    /\ status[o] = "none"
    /\ status' = [status EXCEPT ![o] = "active"]
    /\ ticks' = [ticks EXCEPT ![o] = Row[o].ticks]
    /\ created' = [created EXCEPT ![o] = Cardinality({p \in OrderId : Placed(p)})]
    /\ UNCHANGED <<filled, chain, deployVars, matcherVars>>

-----------------------------------------------------------------------------
(* The deploy *)

GotoStage(from, to) == dp = from /\ dp' = to

\* alter table waits until no transaction has used the table.
TableUnlocked == pc # "lockAsk"

\* 000004, one transaction.
Seed ==
    /\ GotoStage("seeding", "resetting")
    /\ TableUnlocked
    /\ ticks' = [o \in OrderId |->
                    IF Placed(o) /\ ~Readable(o) /\ ~Decimal(o)
                    THEN Row[o].ticks \div TicksPerUnit ELSE ticks[o]]
    /\ UNCHANGED <<rowVars, backfillVars, historyVars, matcherVars>>

\* 000005, one transaction.
ResetDecimals ==
    /\ GotoStage("resetting", "starting")
    /\ TableUnlocked
    /\ ticks' = [o \in OrderId |-> IF Placed(o) /\ Decimal(o) THEN Null ELSE ticks[o]]
    /\ UNCHANGED <<rowVars, backfillVars, historyVars, matcherVars>>

\* A migration fails, the last one included: the new process is not started.
\* The first of all would have to be repeated.
MigrationFails ==
    /\ ColumnExists
    /\ dp \in {"seeding", "resetting", "starting"} /\ restarts = 0
    /\ dp' = "abandoned"
    /\ UNCHANGED <<rowVars, ticks, backfillVars, historyVars, matcherVars>>

\* Mutant: reserved rows are left for later.
ReadMissingActive ==
    /\ GotoStage("starting", "backfilling")
    /\ pending' = {o \in OrderId : status[o] = "active" /\ ~Readable(o)}
    /\ UNCHANGED <<rowVars, ticks, updating, historyVars, matcherVars>>

\* "where limit_price_ticks is null", whatever the status.
ReadMissing ==
    /\ GotoStage("starting", "backfilling")
    /\ pending' = {o \in OrderId : Placed(o) /\ ~Readable(o)}
    /\ UNCHANGED <<rowVars, ticks, updating, historyVars, matcherVars>>

\* The update by order_id of one row finds it and locks it; the rows come in no
\* order.  The matcher holds none of them: it keeps only rows it could scan, and
\* no migration runs meanwhile.
LockRow(o) ==
    /\ dp = "backfilling" /\ o \in pending /\ updating = NoOrder
    /\ Known(o)
    /\ updating' = o
    /\ UNCHANGED <<rowVars, ticks, dp, pending, historyVars, matcherVars>>

\* Mutant: the update has a condition on the status.
BackfillActive(o) ==
    /\ dp = "backfilling" /\ updating = o
    /\ updating' = NoOrder
    /\ pending' = pending \ {o}
    /\ ticks' = [ticks EXCEPT ![o] = IF status[o] = "active" THEN Row[o].ticks ELSE @]
    /\ UNCHANGED <<rowVars, dp, historyVars, matcherVars>>

\* The update commits.
Backfill(o) ==
    /\ dp = "backfilling" /\ updating = o
    /\ updating' = NoOrder
    /\ pending' = pending \ {o}
    /\ ticks' = [ticks EXCEPT ![o] = Row[o].ticks]
    /\ UNCHANGED <<rowVars, dp, historyVars, matcherVars>>

\* A row of an unknown instrument is passed over with a warning.
SkipUnknown(o) ==
    /\ dp = "backfilling" /\ o \in pending /\ updating = NoOrder
    /\ ~Known(o)
    /\ pending' = pending \ {o}
    /\ UNCHANGED <<rowVars, ticks, dp, updating, historyVars, matcherVars>>

\* Mutant: the process is restarted for ever.
BackfillStopsAgain ==
    /\ dp \in {"starting", "backfilling"}
    /\ pending' = {} /\ updating' = NoOrder
    /\ dp' = "starting" /\ restarts' = restarts + 1
    /\ UNCHANGED <<rowVars, ticks, upgraded, deploys, matcherVars>>

\* A row does not parse or a statement fails: the process exits, and is
\* restarted so many times.  What it has committed stays, and what it has locked
\* is free again.
BackfillStops ==
    /\ dp \in {"starting", "backfilling"}
    /\ pending' = {} /\ updating' = NoOrder
    /\ IF restarts < MaxRestarts
       THEN dp' = "starting" /\ restarts' = restarts + 1
       ELSE dp' = "abandoned" /\ UNCHANGED restarts
    /\ UNCHANGED <<rowVars, ticks, upgraded, deploys, matcherVars>>

Serve ==
    /\ GotoStage("backfilling", "serving")
    /\ pending = {}
    /\ upgraded' = TRUE
    /\ UNCHANGED <<rowVars, ticks, backfillVars, deploys, restarts, matcherVars>>

BeginDeploy ==
    /\ dp \in {"serving", "abandoned"} /\ deploys < MaxDeploys
    /\ dp' = "seeding"
    /\ deploys' = deploys + 1
    /\ restarts' = 0
    /\ UNCHANGED <<rowVars, ticks, backfillVars, upgraded, matcherVars>>

-----------------------------------------------------------------------------
(* The matcher *)

Active(side) ==
    {o \in OrderId : status[o] = "active" /\ Row[o].side = side /\ Known(o)}

\* "for update skip locked".
Lockable(side) == Active(side) \ {updating}

Older(o, p) == created[o] < created[p]
BetterTicks(o, p) == IF Row[o].side = "buy" THEN ticks[o] > ticks[p]
                                            ELSE ticks[o] < ticks[p]

\* Mutant: the ticks do not count.
OldestOf(rows) == {o \in rows : \A p \in rows : ~Older(p, o)}

\* "order by limit_price_ticks::numeric, created_at" among readable rows.
BestOf(rows) ==
    {o \in rows : \A p \in rows : /\ ~BetterTicks(p, o)
                                  /\ ticks[p] = ticks[o] => ~Older(p, o)}

Goto(from, to) == pc = from /\ pc' = to

\* Nulls come first: with one among the bids the scan fails and the tick ends,
\* unless that bid is locked.
LockBid ==
    /\ Goto("idle", "lockAsk")
    /\ ColumnExists
    /\ \A o \in Lockable("buy") : Readable(o)
    /\ bid' \in BestOf(Lockable("buy"))
    /\ UNCHANGED <<rowVars, ticks, deployVars, ask>>

\* Nulls come last: the asks that have ticks are preferred to those that have
\* none.  The pair is reserved with the commit.
LockAsk ==
    /\ Goto("lockAsk", "reserved")
    /\ ask' \in BestOf({o \in Lockable("sell") : Readable(o)})
    /\ status' = [status EXCEPT ![bid] = "matching", ![ask'] = "matching"]
    /\ UNCHANGED <<created, filled, chain, ticks, deployVars, bid>>

Forget == bid' = NoOrder /\ ask' = NoOrder

\* There is no ask to lock, or the first one has a null: commit or rollback.
NoAsk ==
    /\ Goto("lockAsk", "idle")
    /\ {o \in Lockable("sell") : Readable(o)} = {}
    /\ Forget
    /\ UNCHANGED <<rowVars, ticks, deployVars>>

Left(o) == Row[o].desired - filled[o]
Fill == IF Left(bid) <= Left(ask) THEN Left(bid) ELSE Left(ask)

\* The candidate in hand was read with its ticks.
PassOver ==
    /\ Goto("reserved", "releasing")
    /\ Row[bid].ticks < Row[ask].ticks
    /\ UNCHANGED <<rowVars, ticks, deployVars, bid, ask>>

ChainAdmits == \A o \in {bid, ask} : chain[o] + Fill <= Row[o].desired

Execute ==
    /\ Goto("reserved", "finalizing")
    /\ Row[bid].ticks >= Row[ask].ticks
    /\ ChainAdmits
    /\ chain' = [chain EXCEPT ![bid] = @ + Fill, ![ask] = @ + Fill]
    /\ UNCHANGED <<status, created, filled, ticks, deployVars, bid, ask>>

\* TM_FillLimitCrossed.
AlreadyFilled ==
    /\ Goto("reserved", "finalizing")
    /\ Row[bid].ticks >= Row[ask].ticks
    /\ ~ChainAdmits
    /\ UNCHANGED <<rowVars, ticks, deployVars, bid, ask>>

\* Statements that do not skip locked rows wait for the backfill's commit.
PairUnlocked == updating \notin {bid, ask}

Finalize ==
    /\ Goto("finalizing", "idle")
    /\ PairUnlocked
    /\ Readable(bid) /\ Readable(ask)
    /\ filled' = [filled EXCEPT ![bid] = @ + Fill, ![ask] = @ + Fill]
    /\ status' = [o \in OrderId |-> IF o \notin {bid, ask} THEN status[o]
                                    ELSE IF Left(o) = Fill THEN "filled" ELSE "active"]
    /\ Forget
    /\ UNCHANGED <<created, chain, ticks, deployVars>>

\* Mutant: the refusal to finalize leaves the pair reserved.
FinalizeForgets ==
    /\ Goto("finalizing", "idle")
    /\ \E o \in {bid, ask} : ~Readable(o) /\ o # updating
    /\ Forget
    /\ UNCHANGED <<rowVars, ticks, deployVars>>

\* applyFill cannot scan a row whose ticks have been nulled meanwhile.
FinalizeFails ==
    /\ Goto("finalizing", "releasing")
    /\ \E o \in {bid, ask} : ~Readable(o) /\ o # updating
    /\ UNCHANGED <<rowVars, ticks, deployVars, bid, ask>>

Release ==
    /\ Goto("releasing", "idle")
    /\ PairUnlocked
    /\ status' = [status EXCEPT ![bid] = "active", ![ask] = "active"]
    /\ Forget
    /\ UNCHANGED <<created, filled, chain, ticks, deployVars>>

-----------------------------------------------------------------------------
Migrate == Seed \/ ResetDecimals
BackfillStep(o) == LockRow(o) \/ Backfill(o) \/ SkipUnknown(o)
Startup == ReadMissing \/ (\E o \in OrderId : BackfillStep(o)) \/ Serve
MatcherStep ==
    \/ LockBid \/ LockAsk \/ NoAsk \/ PassOver
    \/ Execute \/ AlreadyFilled \/ Finalize \/ FinalizeFails \/ Release

Next ==
    \/ \E o \in OrderId : Insert(o)
    \/ BeginDeploy \/ Migrate \/ Startup
    \/ MigrationFails \/ BackfillStops
    \/ MatcherStep

Spec == Init /\ [][Next]_vars

\* The migrations wait in the table's lock queue, in which later transactions
\* line up behind them: strong fairness.
FairSpec == Spec /\ WF_vars(MatcherStep) /\ WF_vars(Startup) /\ SF_vars(Migrate)

-----------------------------------------------------------------------------
(* Properties *)

\* When the new process begins to serve, and until the next deploy, every row
\* of a known instrument has the ticks of its price: whatever was inserted,
\* reserved or released beside the migrations and the backfill, and whatever
\* failed in between.
BookRestored ==
    dp = "serving" =>
        \A o \in OrderId : Placed(o) /\ Known(o) => ticks[o] = Row[o].ticks

\* o would go before p if every row had its ticks.
TrulyBetter(o, p) ==
    /\ o # p
    /\ IF Row[o].side = "buy" THEN Row[o].ticks > Row[p].ticks
                              ELSE Row[o].ticks < Row[p].ticks

\* Outside of a deploy the statements of AcquireMatchCandidate see the prices
\* that the users gave, and neither locks an order while a better one is in the
\* book.  During a deploy both may: an ask without ticks comes last, and a row
\* that the backfill has locked is skipped.
PriorityOutsideDeploys ==
    [][dp = "serving" =>
           /\ LockBid => \A o \in Active("buy") : ~TrulyBetter(o, bid')
           /\ LockAsk => \A o \in Active("sell") : ~TrulyBetter(o, ask')]_vars

\* A book that cannot be read becomes readable again, unless the deploy is
\* given up.
BookRecovers ==
    (\E o \in OrderId : Placed(o) /\ Known(o) /\ ~Readable(o))
        ~> \/ \A o \in OrderId : Placed(o) /\ Known(o) => Readable(o)
           \/ dp = "abandoned"

\* "update both orders on success" (README.md), and nothing else: no order is
\* recorded as filled beyond what was executed of it.
NoPhantomFills == \A o \in OrderId : filled[o] <= chain[o]

\* A match that was executed and could not be finalized, because its ticks had
\* been nulled, reaches the book once they are back; unless the deploy is given
\* up, or one of the orders has been paired with another meanwhile and is
\* recorded as filled with it.
FillsReachBook ==
    \A o \in OrderId :
        filled[o] # chain[o]
            ~> filled[o] = chain[o] \/ dp = "abandoned" \/ ~NoPhantomFills

=============================================================================
