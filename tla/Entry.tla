-------------------------------- MODULE Entry --------------------------------
(***************************************************************************)
(* An order on its way from a request to the contracts: the request is     *)
(* decoded and its prices and amounts are converted, the custody guard     *)
(* reads the chain, the order is stored, and the matcher converts the fill *)
(* back into the units its owner signed.                                   *)
(*                                                                         *)
(* Prices and amounts are what this module is about; which orders are      *)
(* paired and how a pair is reserved and recorded is Matcher's subject, so *)
(* any two orders that cross may be matched here.                          *)
(***************************************************************************)
EXTENDS Spot, Units, Sequences, SequencesExt

CONSTANTS Instrument,  \* the registry: a record for each market
          Request,     \* the requests clients may send: a sequence of records
          Batches,     \* bound for TLC: the sets of requests of one behaviour
          Account      \* subaccounts

ASSUME InstrumentAssumption ==
    \A k \in DOMAIN Instrument :
        /\ Instrument[k] \in [spot: BOOLEAN, variance: BOOLEAN, lots: BOOLEAN,
                              tick: Positive, precision: Nat, minSize: Positive,
                              lowest: Decimal, highest: Decimal]
        /\ ~(Instrument[k].spot /\ Instrument[k].lots)
ASSUME RequestAssumption ==
    \A i \in DOMAIN Request :
        LET r == Request[i]
        IN  /\ r.market \in DOMAIN Instrument /\ r.account \in Account
            /\ {r.price, r.amount, r.filled, r.ui.price, r.ui.size} \subseteq Decimal
            /\ r.signed.price \in Int /\ r.signed.desired \in Int
ASSUME BatchAssumption == \A b \in Batches : b \subseteq DOMAIN Request

VARIABLES config,   \* the kind of custody guard, and if signed data is checked
          batch,    \* requests sent in this behaviour
          stage,    \* where the handler of each request stands
          place,    \* where each subaccount is, on the chain
          contract, \* the address of SubAccounts as the guard has cached it
          asked,    \* the address that each request goes to
          heldOnce, \* requests whose account was deposited while they were handled
          book,     \* requests stored, in the order of their creation
          filled,   \* filled_amount of each
          fills     \* what was executed

addressVars == <<contract, asked>>
requestVars == <<stage, addressVars, heldOnce, book>>
vars == <<config, batch, requestVars, place, filled, fills>>

Id == DOMAIN Request

-----------------------------------------------------------------------------
(* toParams *)

Metadata(r) == Instrument[r.market]

Side(r) == IF r.ui = NoIntent THEN r.side ELSE Translate(r.ui).side
Price(r) == IF r.ui = NoIntent THEN r.price ELSE Translate(r.ui).price
Amount(r) == IF r.ui = NoIntent THEN r.amount ELSE Translate(r.ui).amount

\* amountAtomicStep.
Step(r) == IF Metadata(r).lots THEN Metadata(r).minSize ELSE Dec(1, 0)

Aligned(r, amount) ==
    (amount.units * TenTo[Step(r).places]) % (TenTo[amount.places] * Step(r).units) = 0

\* normalizeAmountToAtomicUnits.
Atomic(r, amount) ==
    (amount.units * TenTo[Step(r).places]) \div (TenTo[amount.places] * Step(r).units)

Ticks(r) == Parse(Metadata(r), Price(r))
Stored(r) == FormatTicks(Metadata(r), Ticks(r))
Desired(r) == Atomic(r, Amount(r))
Filled(r) == Atomic(r, r.filled)

\* validateBTCVar30VariancePrice.
InRange(r) ==
    Metadata(r).variance =>
        /\ ~Below(Stored(r), Metadata(r).lowest)
        /\ ~Below(Metadata(r).highest, Stored(r))

\* The amount was signed in whole lots and not in units of the contract.
RawAmount(r) ==
    /\ TenTo[Step(r).places] % Step(r).units = 0
    /\ r.signed.desired * (TenTo[Step(r).places] \div Step(r).units) = Desired(r)

\* Mutant: without the test of isBid.
SignedAlikeAnySide(r) ==
    /\ r.signed.market = r.market
    /\ r.signed.price > 0 /\ r.signed.desired > 0
    /\ r.signed.price % Ticks(r) = 0
    /\ r.signed.desired % Desired(r) = 0 \/ RawAmount(r)

\* validateActionDataInvariants.
SignedAlike(r) ==
    /\ r.signed.market = r.market
    /\ r.signed.bid = (Side(r) = "buy")
    /\ r.signed.price > 0 /\ r.signed.desired > 0
    /\ r.signed.price % Ticks(r) = 0
    /\ r.signed.desired % Desired(r) = 0 \/ RawAmount(r)

\* toParams decodes the request.  The fields it only compares with each other
\* or requires to be there are left out, and so is the expiry.  A side that is
\* missing is refused here; where there is no intent to give one, the code
\* leaves that to the table's check on the column, at the insert.
Accepted(r) ==
    /\ IF Metadata(r).spot
       THEN r.ui = NoIntent \/ IntentHolds(r.ui, r.side, r.price, r.amount)
       ELSE r.ui = NoIntent
    /\ Side(r) \in {"buy", "sell"}
    /\ Ticks(r) # NoTicks
    /\ InRange(r)
    /\ Aligned(r, Amount(r)) /\ Desired(r) > 0
    /\ Aligned(r, r.filled) /\ Filled(r) >= 0
    /\ Filled(r) <= Desired(r)
    /\ config.checked => SignedAlike(r)

\* The row of a request.
Order(i) ==
    LET r == Request[i]
    IN  [market |-> r.market, side |-> Side(r), ticks |-> Ticks(r), price |-> Stored(r),
         desired |-> Desired(r), filled |-> filled[i], signed |-> r.signed]

-----------------------------------------------------------------------------
(* The guard *)

\* newCustodyChecker.
Guard(enforced, matching, rpc) ==
    IF ~enforced \/ ~matching THEN "none" ELSE IF ~rpc THEN "rejecting" ELSE "chain"

\* A subaccount is its owner's, deposited, or owned by Matching without a
\* record of whose it was, because it was sent there past the deposit.
Place == {"owner", "deposited", "stray"}

\* What an eth_call comes to: the value, an address of zeros (the answer "0x" of
\* a node that knows no contract there), or an error.
Answer == {"value", "zero", "error"}

Init ==
    /\ \E enforced, matching, rpc, checked \in BOOLEAN :
        config = [guard |-> Guard(enforced, matching, rpc), checked |-> checked]
    /\ batch \in Batches
    /\ stage = [i \in Id |-> "new"]
    /\ place \in [Account -> Place]
    /\ contract = "unknown"
    /\ asked = [i \in Id |-> "unknown"]
    /\ heldOnce = {}
    /\ book = <<>>
    /\ filled = [i \in Id |-> 0]
    /\ fills = <<>>

\* The handler answers 400; the client may send the request again.
Refuse(i) ==
    /\ stage' = [stage EXCEPT ![i] = "new"]
    /\ heldOnce' = heldOnce \ {i}
    /\ UNCHANGED book

Continue(i, next) ==
    /\ stage' = [stage EXCEPT ![i] = next]
    /\ UNCHANGED <<heldOnce, book>>

\* Where a request that has been decoded may stand before it is stored.
InFlight == {"resolve", "asking", "owner", "record", "checked"}

Deposited(i) == place[Request[i].account] = "deposited"

\* handleCreateOrder up to the custody guard.
Decode(i) ==
    /\ stage[i] = "new"
    /\ IF Accepted(Request[i]) /\ config.guard # "rejecting"
       THEN /\ stage' = [stage EXCEPT ![i] = IF config.guard = "none" THEN "checked"
                                             ELSE "resolve"]
            /\ heldOnce' = heldOnce \union {j \in {i} : Deposited(j)}
            /\ UNCHANGED book
       ELSE Refuse(i)
    /\ UNCHANGED <<config, batch, place, addressVars, filled, fills>>

\* subAccountsAddress finds an address in the cache, or asks the chain.
ReadCache(i) ==
    /\ stage[i] = "resolve"
    /\ IF contract # "unknown"
       THEN Continue(i, "owner") /\ asked' = [asked EXCEPT ![i] = contract]
       ELSE Continue(i, "asking") /\ UNCHANGED asked
    /\ UNCHANGED <<config, batch, place, contract, filled, fills>>

\* Any answer that decodes is cached, over whatever another handler has cached
\* meanwhile.
Address == {"unknown", "SubAccounts", "zero"}
ReadContract(i) ==
    /\ stage[i] = "asking"
    /\ \E answer \in Answer :
        IF answer = "error"
        THEN Refuse(i) /\ UNCHANGED addressVars
        ELSE /\ contract' = IF answer = "value" THEN "SubAccounts" ELSE "zero"
             /\ asked' = [asked EXCEPT ![i] = contract']
             /\ Continue(i, "owner")
    /\ UNCHANGED <<config, batch, place, filled, fills>>

\* ownerOf(subaccount_id) is Matching.
OwnerHolds(i, answer) ==
    /\ asked[i] = "SubAccounts" /\ answer = "value"
    /\ place[Request[i].account] \in {"deposited", "stray"}

\* The address is not needed any more.
ReadOwner(i) ==
    /\ stage[i] = "owner"
    /\ \E answer \in Answer :
        IF OwnerHolds(i, answer) THEN Continue(i, "record") ELSE Refuse(i)
    /\ asked' = [asked EXCEPT ![i] = "unknown"]
    /\ UNCHANGED <<config, batch, place, contract, filled, fills>>

\* Mutant: an owner in Matching is enough.
RecordUnread(i, answer) == answer = "value"

\* subAccountToOwner(subaccount_id) is not zero.
RecordHolds(i, answer) == answer = "value" /\ Deposited(i)

ReadRecord(i) ==
    /\ stage[i] = "record"
    /\ \E answer \in Answer :
        IF RecordHolds(i, answer) THEN Continue(i, "checked") ELSE Refuse(i)
    /\ UNCHANGED <<config, batch, place, addressVars, filled, fills>>

\* Create; that it may refuse a second order of a nonce is OrderStore's subject.
Insert(i) ==
    /\ stage[i] = "checked"
    /\ stage' = [stage EXCEPT ![i] = "stored"]
    /\ book' = Append(book, i)
    /\ filled' = [filled EXCEPT ![i] = Filled(Request[i])]
    /\ UNCHANGED <<config, batch, place, addressVars, heldOnce, fills>>

\* The chain goes on meanwhile: a subaccount is deposited, withdrawn or sent to
\* Matching; there is no way back for one that was sent.
Move(a, to) ==
    /\ <<place[a], to>> \in {<<"owner", "deposited">>, <<"deposited", "owner">>,
                             <<"owner", "stray">>}
    /\ place' = [place EXCEPT ![a] = to]
    /\ heldOnce' = heldOnce \union
                    {i \in batch : /\ to = "deposited" /\ Request[i].account = a
                                   /\ stage[i] \in InFlight}
    /\ UNCHANGED <<config, batch, stage, addressVars, book, filled, fills>>

-----------------------------------------------------------------------------
(* The matcher *)

Crossed(taker, maker) ==
    /\ taker.market = maker.market
    /\ taker.side = Opposite(maker.side)
    /\ IF taker.side = "buy" THEN taker.ticks >= maker.ticks ELSE taker.ticks <= maker.ticks

\* The price a trade is recorded with.
TradePrice(maker) ==
    IF Instrument[maker.market].variance
    THEN FormatTicks(Instrument[maker.market], maker.ticks)
    ELSE maker.price

FillAmount(taker, maker) == Min({Remaining(taker), Remaining(maker)})

UnitsOf(taker, maker) == ExecutionUnits(taker, maker, maker.ticks, FillAmount(taker, maker))

\* The fill of the orders at m and t of the book, the maker first, is executed
\* and recorded; a pair without units is released as it was.
Execute(m, t) ==
    LET maker == Order(book[m])
        taker == Order(book[t])
        amount == FillAmount(taker, maker)
        units == UnitsOf(taker, maker)
    IN  /\ m < t
        /\ Crossed(taker, maker)
        /\ units # NoUnits
        /\ filled' = [filled EXCEPT ![book[m]] = @ + amount, ![book[t]] = @ + amount]
        /\ fills' = Append(fills, [maker |-> book[m], taker |-> book[t], amount |-> amount,
                                   price |-> TradePrice(maker), units |-> units])
        /\ UNCHANGED <<config, batch, requestVars, place>>

Next ==
    \/ \E i \in batch :
        \/ Decode(i) \/ Insert(i)
        \/ ReadCache(i) \/ ReadContract(i) \/ ReadOwner(i) \/ ReadRecord(i)
    \/ \E a \in Account, to \in Place : Move(a, to)
    \/ \E m, t \in DOMAIN book : Execute(m, t)

Spec == Init /\ [][Next]_vars

-----------------------------------------------------------------------------
(* Properties *)

TypeOK ==
    /\ config \in [guard: {"none", "rejecting", "chain"}, checked: BOOLEAN]
    /\ batch \in Batches
    /\ stage \in [Id -> InFlight \union {"new", "stored"}]
    /\ place \in [Account -> Place]
    /\ contract \in Address
    /\ asked \in [Id -> Address]
    /\ heldOnce \subseteq Id
    /\ ToSet(book) = {i \in Id : stage[i] = "stored"}
    /\ filled \in [Id -> Nat]
    /\ \A f \in ToSet(fills) : f.units.price > 0 /\ f.units.amount > 0

\* A price comes back from the ticks unchanged.  The price in the row of an
\* order is the one that was asked for, the backfill of limit_price_ticks gives
\* its ticks again, and a trade is recorded at the price of its maker.
PriceSurvives ==
    /\ \A i \in ToSet(book) :
        LET order == Order(i)
        IN  /\ Same(order.price, Price(Request[i]))
            /\ Parse(Instrument[order.market], order.price) = order.ticks
    /\ \A f \in ToSet(fills) : Same(f.price, Price(Request[f.maker]))

\* The spot_contract echo of a stored order is the intent it was sent with, for
\* intents as fine as it is shown and small enough for the rounding, twice to
\* the nearest, not to reach the last place: a price whose square, and an amount
\* of cNGN, below 10 to the EngineScale - UIScale.
Faithful(ui) ==
    /\ ui.price.places <= UIScale /\ ui.size.places <= UIScale
    /\ ui.price.units * ui.price.units < TenTo[EngineScale - UIScale + 2 * ui.price.places]
    /\ ui.price.units * ui.size.units
            < TenTo[EngineScale - UIScale + ui.price.places + ui.size.places]
EchoRestoresIntent ==
    \A i \in ToSet(book) :
        LET ui == Request[i].ui
            order == Order(i)
            echo == Echo([side |-> order.side, price |-> order.price,
                          amount |-> order.desired])
        IN  ui # NoIntent /\ Faithful(ui) =>
                echo.side = ui.side /\ Same(echo.price, ui.price) /\ Same(echo.size, ui.size)

\* What is executed is within what was signed, over all the fills of an order:
\* never past the limit, never more than the amount, and all of it once the row
\* is filled, whether or not the API compared the row with the signed data.
SignedPart(i, amount) == (amount * Request[i].signed.desired) \div Order(i).desired
Executed(i) ==
    LET part(f) == IF i \in {f.maker, f.taker} THEN f.units.amount ELSE 0
    IN  Total([k \in DOMAIN fills |-> part(fills[k])])
ExecutionHonoursSignatures ==
    /\ \A f \in ToSet(fills), i \in ToSet(book) :
        i \in {f.maker, f.taker} =>
            /\ Request[i].signed.market = Request[i].market
            /\ IF Request[i].signed.bid THEN f.units.price <= Request[i].signed.price
               ELSE f.units.price >= Request[i].signed.price
    /\ \A i \in ToSet(book) :
        Executed(i) = SignedPart(i, filled[i] - Filled(Request[i]))

\* With the checks of the API on, computeExecutionUnits refuses a pair that
\* crosses for one reason only: its two actions are not signed on one scale, or
\* an amount was signed raw.  Executable in Matcher stands for this, and for the
\* one module address that buildExecutorRequest asks of the two actions.
OneScale(taker, maker) ==
    /\ taker.signed.price * maker.ticks = maker.signed.price * taker.ticks
    /\ taker.signed.desired * maker.desired = maker.signed.desired * taker.desired
    /\ taker.signed.desired >= taker.desired
AcceptedCanExecute ==
    \A m, t \in DOMAIN book :
        LET maker == Order(book[m])
            taker == Order(book[t])
        IN  /\ config.checked /\ m < t /\ Crossed(taker, maker)
            /\ FillAmount(taker, maker) > 0
            => (UnitsOf(taker, maker) # NoUnits <=> OneScale(taker, maker))

\* With the guard on, an order is stored only if its account was deposited, by
\* its owner and on record, at some moment while the request was handled: the
\* two reads of the chain are made at different moments, each may fail, and the
\* address they go to may be wrong.  Without a node nothing is stored.
CustodyEnforced ==
    /\ config.guard = "chain" => ToSet(book) \subseteq heldOnce
    /\ config.guard = "rejecting" => book = <<>>

=============================================================================
