----------------------------- MODULE OrderStore -----------------------------
(***************************************************************************)
(* The active_orders and trade_fills tables and the statements that        *)
(* internal/orders/repository.go runs on them.                             *)
(*                                                                         *)
(* A row is its immutable part, Order[o], and its mutable columns: status, *)
(* filled (filled_amount) and created (created_at).  AcquireMatchCandidate *)
(* is the only transaction whose statements are separate steps here:       *)
(* tx[m] is what the open transaction of matcher m has locked and written  *)
(* so far.  Its writes reach status only when it commits; until then the   *)
(* row locks it holds are what other sessions can notice.  Every other     *)
(* method is one statement, or a transaction that keeps the rows it reads  *)
(* locked until it commits, and is one step.                               *)
(***************************************************************************)
EXTENDS Integers, Sequences, FiniteSets

CONSTANTS OrderId,  \* order identifiers; their order breaks ties
          Order,    \* the immutable columns of each order
          Key,      \* (owner_address, nonce) pairs
          Market,   \* (asset_address, sub_id) pairs of enabled instruments
          Units,    \* scales at which a signed action states price and amount
          Matcher,  \* matcher processes
          MaxTime   \* bound on the clock, for TLC

NoOrder == 0
Side == {"buy", "sell"}
Unusable == "unusable"   \* the signed action does not fit the stored order

ASSUME OrderIdAssumption == OrderId \subseteq Nat \ {NoOrder}
ASSUME OrderAssumption ==
    Order \in [OrderId -> [key: Key, market: Market, side: Side, price: Nat,
                           desired: Nat \ {0}, filled0: Nat, expiry: Nat,
                           protected: BOOLEAN, units: Units \union {Unusable}]]
ASSUME MaxTimeAssumption == MaxTime \in Nat

VARIABLES status,   \* status column; "none" before the row exists
          filled,   \* filled_amount column
          created,  \* created_at column
          trades,   \* trade_fills, in insertion order
          tx,       \* open acquire transaction of each matcher
          now       \* the clock, common to the database and the services

storeVars == <<status, filled, created, trades, tx, now>>

Status == {"none", "active", "matching", "filled", "cancelled", "expired"}
Terminal == {"filled", "cancelled", "expired"}
Trade == [taker: OrderId, maker: OrderId, price: Nat, size: Nat]
Tx == [market: Market \union {"-"}, expired: SUBSET OrderId,
       bid: OrderId \union {NoOrder}, ask: OrderId \union {NoOrder}]
NoTx == [market |-> "-", expired |-> {}, bid |-> NoOrder, ask |-> NoOrder]

\* A MatchCandidate with the fill amount computed from it.
Match == [taker: OrderId \union {NoOrder}, maker: OrderId \union {NoOrder},
          fill: Nat]
NoMatch == [taker |-> NoOrder, maker |-> NoOrder, fill |-> 0]

StoreTypeOK ==
    /\ status \in [OrderId -> Status]
    /\ filled \in [OrderId -> Nat]
    /\ created \in [OrderId -> Nat]
    /\ trades \in Seq(Trade)
    /\ tx \in [Matcher -> Tx]
    /\ now \in Nat

StoreInit ==
    /\ status = [o \in OrderId |-> "none"]
    /\ filled = [o \in OrderId |-> Order[o].filled0]
    /\ created = [o \in OrderId |-> 0]
    /\ trades = <<>>
    /\ tx = [m \in Matcher |-> NoTx]
    /\ now = 0

-----------------------------------------------------------------------------
(* Rows and locks *)

Placed(o) == status[o] # "none"
Open(o) == status[o] \in {"active", "matching"}
Remaining(o) == Order[o].desired - filled[o]

\* The rows that the open transaction of m keeps locked.
RowsLockedBy(m) == (tx[m].expired \union {tx[m].bid, tx[m].ask}) \ {NoOrder}
LockedByOthers(m) == UNION {RowsLockedBy(n) : n \in Matcher \ {m}}
Locked == UNION {RowsLockedBy(m) : m \in Matcher}

\* Mutant: the status filter of the update is forgotten.
DueInAnyStatus(t) == {o \in OrderId : Open(o) /\ Order[o].expiry <= t}

\* Mutant: orders expire one unit of time early.
DueNextTime(t) == {o \in OrderId : status[o] = "active" /\ Order[o].expiry <= t + 1}

\* The rows "where status = 'active' and expiry <= t" selects.
Due(t) == {o \in OrderId : status[o] = "active" /\ Order[o].expiry <= t}

\* "order by limit_price_ticks desc | asc, created_at asc": o comes strictly
\* before p among the rows of one side.
BetterPrice(o, p) ==
    IF Order[o].side = "buy" THEN Order[o].price > Order[p].price
                             ELSE Order[o].price < Order[p].price
Before(o, p) ==
    \/ BetterPrice(o, p)
    \/ Order[o].price = Order[p].price /\ created[o] < created[p]

\* Mutant: the select takes no lock, so that others' locks do not matter.
LockableUnlocked(m, side) ==
    {o \in OrderId : /\ status[o] = "active"
                     /\ Order[o].market = tx[m].market
                     /\ Order[o].side = side
                     /\ o \notin tx[m].expired}

\* What "for update skip locked" can return to matcher m on one side.
Lockable(m, side) ==
    {o \in OrderId : /\ status[o] = "active"
                     /\ Order[o].market = tx[m].market
                     /\ Order[o].side = side
                     /\ o \notin LockedByOthers(m) \union tx[m].expired}
\* Mutant: the price does not count.
Oldest(m, side) ==
    {o \in Lockable(m, side) :
        \A p \in Lockable(m, side) : created[o] <= created[p]}

Best(m, side) ==
    {o \in Lockable(m, side) : \A p \in Lockable(m, side) : ~Before(p, o)}

-----------------------------------------------------------------------------
(* Single-statement methods *)

\* Mutant: the unique index covers open orders only.
DuplicateOpen(o) == \E p \in OrderId : Open(p) /\ Order[p].key = Order[o].key

\* A primary key or (owner_address, nonce) conflict: mapPGError's 23505.
Duplicate(o) == \E p \in OrderId : Placed(p) /\ Order[p].key = Order[o].key

Create(o) ==
    /\ ~Duplicate(o)
    /\ status' = [status EXCEPT ![o] = "active"]
    /\ filled' = [filled EXCEPT ![o] = Order[o].filled0]
    /\ created' = [created EXCEPT ![o] = now]
    /\ UNCHANGED <<trades, tx, now>>

\* Mutant: an order can be cancelled while it is being matched.
OpenWithKey(k) == {o \in OrderId : Open(o) /\ Order[o].key = k}

\* The row FindActiveByOwnerNonce returns, if there is one.
ActiveWithKey(k) == {o \in OrderId : status[o] = "active" /\ Order[o].key = k}

\* The update waits for a row lock and re-reads the status once it has it.
CancelByOwnerNonce(k) ==
    /\ ActiveWithKey(k) \intersect Locked = {}
    /\ status' = [o \in OrderId |-> IF o \in ActiveWithKey(k) THEN "cancelled"
                                                              ELSE status[o]]
    /\ UNCHANGED <<filled, created, trades, tx, now>>

ExpireOrders ==
    /\ Due(now) # {}
    /\ Due(now) \intersect Locked = {}
    /\ status' = [o \in OrderId |-> IF o \in Due(now) THEN "expired" ELSE status[o]]
    /\ UNCHANGED <<filled, created, trades, tx, now>>

\* Mutant: the release does not look at the status.
ReleaseAnyStatus(rows) ==
    /\ status' = [o \in OrderId |-> IF o \in rows THEN "active" ELSE status[o]]
    /\ UNCHANGED <<filled, created, trades, tx, now>>

ReleaseMatch(rows) ==
    /\ status' = [o \in OrderId |-> IF o \in rows /\ status[o] = "matching"
                                    THEN "active" ELSE status[o]]
    /\ UNCHANGED <<filled, created, trades, tx, now>>

-----------------------------------------------------------------------------
(* AcquireMatchCandidate, one step per statement *)

\* begin; expireOrders(asOf).  Waits for due rows that others hold.
BeginTx(m, mk, asOf) ==
    /\ Due(asOf) \intersect LockedByOthers(m) = {}
    /\ tx' = [tx EXCEPT ![m] = [NoTx EXCEPT !.market = mk, !.expired = Due(asOf)]]
    /\ UNCHANGED <<status, filled, created, trades, now>>

\* lockBestBySide: o is NoOrder when the side has no row to lock.
LockBest(m, side, o) ==
    /\ IF Best(m, side) = {} THEN o = NoOrder ELSE o \in Best(m, side)
    /\ tx' = [tx EXCEPT ![m] = IF side = "buy" THEN [tx[m] EXCEPT !.bid = o]
                                               ELSE [tx[m] EXCEPT !.ask = o]]
    /\ UNCHANGED <<status, filled, created, trades, now>>

\* The younger order is the taker; on equal timestamps the larger identifier.
ChooseTaker(o, p) ==
    IF \/ created[o] > created[p]
       \/ created[o] = created[p] /\ o > p
    THEN o ELSE p

\* commit: the transaction's writes take effect and its locks are gone.
\* reserved is {} when a side was empty and the pair otherwise.
CommitTx(m, reserved) ==
    /\ status' = [o \in OrderId |-> IF o \in tx[m].expired THEN "expired"
                                    ELSE IF o \in reserved THEN "matching"
                                    ELSE status[o]]
    /\ tx' = [tx EXCEPT ![m] = NoTx]
    /\ UNCHANGED <<filled, created, trades, now>>

Rollback(m) ==
    /\ tx' = [tx EXCEPT ![m] = NoTx]
    /\ UNCHANGED <<status, filled, created, trades, now>>

-----------------------------------------------------------------------------
(* FinalizeMatchWithPrice *)

\* Mutant: the row is updated without being looked at.
FillBlindly(o, fill) == TRUE

\* applyFill finds the row reserved and the fill within its desired amount.
FillFits(o, fill) ==
    /\ status[o] = "matching"
    /\ filled[o] + fill <= Order[o].desired

\* Mutant: a status that the table's check constraint does not know.
StatusPartlyFilled(o, fill) ==
    IF filled[o] + fill = Order[o].desired THEN "filled" ELSE "partially_filled"

StatusAfterFill(o, fill) ==
    IF filled[o] + fill = Order[o].desired THEN "filled" ELSE "active"

\* Mutant: only the taker's row is updated.
FinalizeTakerOnly(taker, maker, fill) ==
    /\ FillFits(taker, fill) /\ FillFits(maker, fill)
    /\ filled' = [filled EXCEPT ![taker] = @ + fill]
    /\ status' = [o \in OrderId |-> IF o \in {taker, maker}
                                    THEN StatusAfterFill(o, fill) ELSE status[o]]
    /\ trades' = Append(trades, [taker |-> taker, maker |-> maker,
                                 price |-> Order[maker].price, size |-> fill])
    /\ UNCHANGED <<created, tx, now>>

FinalizeMatch(taker, maker, fill) ==
    /\ FillFits(taker, fill) /\ FillFits(maker, fill)
    /\ filled' = [o \in OrderId |-> IF o \in {taker, maker} THEN filled[o] + fill
                                                            ELSE filled[o]]
    /\ status' = [o \in OrderId |-> IF o \in {taker, maker}
                                    THEN StatusAfterFill(o, fill) ELSE status[o]]
    /\ trades' = Append(trades, [taker |-> taker, maker |-> maker,
                                 price |-> Order[maker].price, size |-> fill])
    /\ UNCHANGED <<created, tx, now>>

-----------------------------------------------------------------------------
(* Outside the repository *)

\* scripts/quarantine_legacy_orders.sh, run by hand on a live database, on the
\* orders of one market whose owner is not the expected one.
Quarantine(mk, keys) ==
    LET hit == {o \in OrderId : Open(o) /\ Order[o].market = mk
                                        /\ Order[o].key \in keys}
    IN  /\ hit # {}
        /\ hit \intersect Locked = {}
        /\ status' = [o \in OrderId |-> IF o \in hit THEN "cancelled" ELSE status[o]]
        /\ UNCHANGED <<filled, created, trades, tx, now>>

ClockTick ==
    /\ now < MaxTime
    /\ now' = now + 1
    /\ UNCHANGED <<status, filled, created, trades, tx>>

-----------------------------------------------------------------------------
(* The claim on which reserveOrders rests *)

\* A row that an open transaction has locked is still active and no other
\* transaction has it, so that reserveOrders cannot miss a row.
LocksProtectActiveRows ==
    /\ \A m \in Matcher : \A o \in RowsLockedBy(m) : status[o] = "active"
    /\ \A m, n \in Matcher : m # n => RowsLockedBy(m) \intersect RowsLockedBy(n) = {}

=============================================================================
