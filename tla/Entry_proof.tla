----------------------------- MODULE Entry_proof -----------------------------
(***************************************************************************)
(* The safety properties of Entry for any requests, instruments, scales    *)
(* and accounts, and however subaccounts move and reads of the chain fail. *)
(*                                                                         *)
(* The guard reads a chain that changes: what carries the fact from one    *)
(* read to the other is that a deposit seen by ReadRecord has been noted,  *)
(* at the beginning of the request or when the account moved               *)
(* (SeenDeposits).  Of prices and amounts, what is stored was accepted,    *)
(* every fill is within both signatures, and all the fills of an order are *)
(* on the one scale its owner signed (Proportional).                       *)
(***************************************************************************)
EXTENDS Entry, Pricing_proof

-----------------------------------------------------------------------------
(* The custody guard *)

EntryTypes ==
    /\ batch \subseteq Id
    /\ place \in [Account -> Place]
    /\ stage \in [Id -> InFlight \union {"new", "stored"}]
    /\ book \in Seq(Id)

\* Only the requests of the batch are sent.
OthersNew == \A i \in Id \ batch : stage[i] = "new"

\* A deposit during a request is noted.
SeenDeposits ==
    \A i \in Id : stage[i] \in InFlight /\ Deposited(i) => i \in heldOnce

\* Past the guard, a deposit has been seen.
CheckedHeld ==
    config.guard = "chain" =>
        \A i \in Id : stage[i] \in {"checked", "stored"} => i \in heldOnce

\* Without a node no request gets past its decoding.
NothingDecoded ==
    config.guard = "rejecting" => book = <<>> /\ \A i \in Id : stage[i] = "new"

BookIsStored == \A k \in DOMAIN book : stage[book[k]] = "stored"

CustodyInv ==
    /\ EntryTypes /\ OthersNew /\ SeenDeposits
    /\ CheckedHeld /\ NothingDecoded /\ BookIsStored

LEMMA CustodyInvInit == ASSUME Init PROVE CustodyInv
BY BatchAssumption DEF Init, CustodyInv, EntryTypes, OthersNew, SeenDeposits, CheckedHeld,
   NothingDecoded, BookIsStored, InFlight, Id

-----------------------------------------------------------------------------
(* What a handler does with its request *)

\* A handler that gives up forgets what it has seen, and only of its request.
LEMMA RefuseKeeps ==
    ASSUME CustodyInv, NEW i \in Id, stage[i] \in InFlight \union {"new"},
           Refuse(i), UNCHANGED <<config, batch, place>>
    PROVE  CustodyInv'
<1> USE DEF CustodyInv, EntryTypes, OthersNew, InFlight
<1>1. /\ stage' = [stage EXCEPT ![i] = "new"]
      /\ heldOnce' = heldOnce \ {i}
      /\ book' = book
  BY DEF Refuse
<1>2. EntryTypes' /\ OthersNew'
  BY <1>1
<1>3. SeenDeposits'
  BY <1>1 DEF SeenDeposits, Deposited
<1>4. CheckedHeld'
  BY <1>1 DEF CheckedHeld
<1>5. NothingDecoded'
  BY <1>1 DEF NothingDecoded
<1>6. BookIsStored'
  BY <1>1 DEF BookIsStored
<1> QED BY <1>2, <1>3, <1>4, <1>5, <1>6

\* A handler goes on; if that takes it past the guard, it has seen a deposit.
LEMMA ContinueKeeps ==
    ASSUME CustodyInv, NEW i \in Id, stage[i] \in InFlight,
           NEW next \in InFlight, Continue(i, next),
           next = "checked" => Deposited(i),
           UNCHANGED <<config, batch, place>>
    PROVE  CustodyInv'
<1> USE DEF CustodyInv, EntryTypes, OthersNew, InFlight
<1>1. /\ stage' = [stage EXCEPT ![i] = next]
      /\ heldOnce' = heldOnce /\ book' = book
  BY DEF Continue
<1>2. EntryTypes' /\ OthersNew'
  BY <1>1
<1>3. SeenDeposits'
  BY <1>1 DEF SeenDeposits, Deposited
<1>4. CheckedHeld'
  BY <1>1 DEF CheckedHeld, SeenDeposits
<1>5. NothingDecoded'
  BY <1>1 DEF NothingDecoded
<1>6. BookIsStored'
  BY <1>1 DEF BookIsStored
<1> QED BY <1>2, <1>3, <1>4, <1>5, <1>6

-----------------------------------------------------------------------------
(* The steps *)

LEMMA DecodeKeeps ==
    ASSUME CustodyInv, NEW i \in batch, Decode(i)
    PROVE  CustodyInv'
<1>1. CASE ~(Accepted(Request[i]) /\ config.guard # "rejecting")
  <2>1. stage[i] = "new" /\ Refuse(i) /\ UNCHANGED <<config, batch, place>>
    BY <1>1 DEF Decode
  <2>2. i \in Id
    BY DEF CustodyInv, EntryTypes
  <2> QED BY <2>1, <2>2, RefuseKeeps
<1>2. CASE Accepted(Request[i]) /\ config.guard # "rejecting"
  <2> USE DEF CustodyInv, EntryTypes, OthersNew, InFlight
  <2>1. /\ stage[i] = "new" /\ config.guard # "rejecting"
        /\ stage' = [stage EXCEPT ![i] = IF config.guard = "none" THEN "checked"
                                         ELSE "resolve"]
        /\ heldOnce' = heldOnce \union {j \in {i} : Deposited(j)}
        /\ UNCHANGED <<config, batch, place, book>>
    BY <1>2 DEF Decode
  <2>2. EntryTypes' /\ OthersNew'
    BY <2>1
  <2>3. SeenDeposits'
    BY <2>1 DEF SeenDeposits, Deposited
  <2>4. CheckedHeld'
    BY <2>1 DEF CheckedHeld
  <2>5. NothingDecoded'
    BY <2>1 DEF NothingDecoded
  <2>6. BookIsStored'
    BY <2>1 DEF BookIsStored
  <2> QED BY <2>2, <2>3, <2>4, <2>5, <2>6
<1> QED BY <1>1, <1>2

LEMMA ReadContractKeeps ==
    ASSUME CustodyInv, NEW i \in Id, ReadContract(i)
    PROVE  CustodyInv'
<1>1. stage[i] = "asking" /\ UNCHANGED <<config, batch, place>>
  BY DEF ReadContract
<1>2. Continue(i, "owner") \/ Refuse(i)
  BY DEF ReadContract
<1>3. CASE Continue(i, "owner")
  BY <1>1, <1>3, ContinueKeeps DEF InFlight
<1>4. CASE Refuse(i)
  BY <1>1, <1>4, RefuseKeeps DEF InFlight
<1> QED BY <1>2, <1>3, <1>4

LEMMA ReadCacheKeeps ==
    ASSUME CustodyInv, NEW i \in Id, ReadCache(i)
    PROVE  CustodyInv'
<1>1. stage[i] = "resolve" /\ UNCHANGED <<config, batch, place>>
  BY DEF ReadCache
<1>2. Continue(i, "owner") \/ Continue(i, "asking")
  BY DEF ReadCache
<1> QED BY <1>1, <1>2, ContinueKeeps DEF InFlight

LEMMA ReadOwnerKeeps ==
    ASSUME CustodyInv, NEW i \in Id, ReadOwner(i)
    PROVE  CustodyInv'
<1>1. stage[i] = "owner" /\ UNCHANGED <<config, batch, place>>
  BY DEF ReadOwner
<1>2. Continue(i, "record") \/ Refuse(i)
  BY DEF ReadOwner
<1>3. CASE Continue(i, "record")
  BY <1>1, <1>3, ContinueKeeps DEF InFlight
<1>4. CASE Refuse(i)
  BY <1>1, <1>4, RefuseKeeps DEF InFlight
<1> QED BY <1>2, <1>3, <1>4

LEMMA ReadRecordKeeps ==
    ASSUME CustodyInv, NEW i \in Id, ReadRecord(i)
    PROVE  CustodyInv'
<1>1. stage[i] = "record" /\ UNCHANGED <<config, batch, place>>
  BY DEF ReadRecord
<1>2. (Continue(i, "checked") /\ Deposited(i)) \/ Refuse(i)
  BY DEF ReadRecord, RecordHolds
<1>3. CASE Continue(i, "checked") /\ Deposited(i)
  BY <1>1, <1>3, ContinueKeeps DEF InFlight
<1>4. CASE Refuse(i)
  BY <1>1, <1>4, RefuseKeeps DEF InFlight
<1> QED BY <1>2, <1>3, <1>4

LEMMA InsertKeeps ==
    ASSUME CustodyInv, NEW i \in Id, Insert(i)
    PROVE  CustodyInv'
<1> USE DEF CustodyInv, EntryTypes, OthersNew, InFlight
<1>1. /\ stage[i] = "checked"
      /\ stage' = [stage EXCEPT ![i] = "stored"]
      /\ book' = Append(book, i)
      /\ UNCHANGED <<config, batch, place, heldOnce>>
  BY DEF Insert
<1>2. EntryTypes' /\ OthersNew'
  BY <1>1
<1>3. SeenDeposits'
  BY <1>1 DEF SeenDeposits, Deposited
<1>4. CheckedHeld'
  BY <1>1 DEF CheckedHeld
<1>5. NothingDecoded'
  BY <1>1 DEF NothingDecoded
<1>6. BookIsStored'
  <2> SUFFICES ASSUME NEW k \in DOMAIN book'
               PROVE  stage'[book'[k]] = "stored"
    BY DEF BookIsStored
  <2>1. book \in Seq(Id) /\ k \in 1..Len(book) + 1
    BY <1>1
  <2>2. CASE k = Len(book) + 1
    BY <1>1, <2>1, <2>2
  <2>3. CASE k \in 1..Len(book)
    BY <1>1, <2>1, <2>3 DEF BookIsStored
  <2> QED BY <2>1, <2>2, <2>3
<1> QED BY <1>2, <1>3, <1>4, <1>5, <1>6

\* A deposit is noted at every request under way; other moves take deposits
\* away, or leave them.
LEMMA MoveKeeps ==
    ASSUME CustodyInv, NEW a \in Account, NEW to \in Place, Move(a, to)
    PROVE  CustodyInv'
<1> USE DEF CustodyInv, EntryTypes, OthersNew, InFlight
<1>1. /\ place' = [place EXCEPT ![a] = to]
      /\ heldOnce' = heldOnce \union
                      {i \in batch : /\ to = "deposited" /\ Request[i].account = a
                                     /\ stage[i] \in InFlight}
      /\ UNCHANGED <<config, batch, stage, book>>
  BY DEF Move
<1>2. EntryTypes' /\ OthersNew'
  BY <1>1
<1>3. SeenDeposits'
  BY <1>1, RequestAssumption DEF SeenDeposits, Deposited, Id
<1>4. CheckedHeld' /\ NothingDecoded' /\ BookIsStored'
  BY <1>1 DEF CheckedHeld, NothingDecoded, BookIsStored
<1> QED BY <1>2, <1>3, <1>4

\* The matcher stores nothing.
LEMMA ExecuteKeeps ==
    ASSUME CustodyInv, NEW m \in DOMAIN book, NEW t \in DOMAIN book, Execute(m, t)
    PROVE  CustodyInv'
BY DEF Execute, requestVars, CustodyInv, EntryTypes, OthersNew, SeenDeposits,
   CheckedHeld, NothingDecoded, BookIsStored, Deposited

LEMMA StutterKeeps ==
    ASSUME CustodyInv, UNCHANGED vars
    PROVE  CustodyInv'
BY DEF vars, requestVars, CustodyInv, EntryTypes, OthersNew, SeenDeposits,
   CheckedHeld, NothingDecoded, BookIsStored, Deposited

LEMMA CustodyInvNext ==
    ASSUME CustodyInv, [Next]_vars
    PROVE  CustodyInv'
<1>1. batch \subseteq Id
  BY DEF CustodyInv, EntryTypes
<1>2. ASSUME NEW i \in batch,
             \/ Decode(i) \/ Insert(i)
             \/ ReadCache(i) \/ ReadContract(i) \/ ReadOwner(i) \/ ReadRecord(i)
      PROVE  CustodyInv'
  BY <1>1, <1>2, DecodeKeeps, ReadCacheKeeps, ReadContractKeeps, ReadOwnerKeeps, ReadRecordKeeps,
     InsertKeeps
<1>3. ASSUME NEW a \in Account, NEW to \in Place, Move(a, to) PROVE CustodyInv'
  BY <1>3, MoveKeeps
<1>4. ASSUME NEW m \in DOMAIN book, NEW t \in DOMAIN book, Execute(m, t)
      PROVE  CustodyInv'
  BY <1>4, ExecuteKeeps
<1>5. CASE UNCHANGED vars
  BY <1>5, StutterKeeps
<1> QED BY <1>2, <1>3, <1>4, <1>5 DEF Next

LEMMA CustodyInvImplies == ASSUME CustodyInv PROVE CustodyEnforced
<1>1. ASSUME NEW i \in ToSet(book) PROVE i \in Id /\ stage[i] = "stored"
  <2>1. PICK k \in DOMAIN book : i = book[k]
    BY <1>1 DEF ToSet
  <2>2. book[k] \in Id
    BY <2>1 DEF CustodyInv, EntryTypes
  <2> QED BY <2>1, <2>2 DEF CustodyInv, BookIsStored
<1>2. ASSUME config.guard = "chain" PROVE ToSet(book) \subseteq heldOnce
  BY <1>1, <1>2 DEF CustodyInv, CheckedHeld
<1>3. ASSUME config.guard = "rejecting" PROVE book = <<>>
  BY <1>3 DEF CustodyInv, NothingDecoded
<1> QED BY <1>2, <1>3 DEF CustodyEnforced

\* With the guard on no order is stored whose account was not deposited, by its
\* owner and on record, at some moment of the request (custody_guard.go,
\* ValidateDeposited), and without a node none is stored at all.
THEOREM GuardEnforcesCustody == Spec => []CustodyEnforced
<1>1. Init => CustodyInv
  BY CustodyInvInit
<1>2. CustodyInv /\ [Next]_vars => CustodyInv'
  BY CustodyInvNext
<1>3. CustodyInv => CustodyEnforced
  BY CustodyInvImplies
<1> QED BY <1>1, <1>2, <1>3, PTL DEF Spec

-----------------------------------------------------------------------------
(* Requests *)

\* What is known of a request by itself.
LEMMA RequestFits ==
    ASSUME NEW i \in Id
    PROVE  LET r == Request[i]
           IN  /\ Registered(Metadata(r))
               /\ Step(r).units \in Nat \ {0} /\ Step(r).places \in Nat
               /\ {r.price, r.amount, r.filled, r.ui.price, r.ui.size} \subseteq Decimal
               /\ r.signed.price \in Int /\ r.signed.desired \in Int
<1> DEFINE r == Request[i]
<1>1. /\ r.market \in DOMAIN Instrument
      /\ {r.price, r.amount, r.filled, r.ui.price, r.ui.size} \subseteq Decimal
      /\ r.signed.price \in Int /\ r.signed.desired \in Int
  BY RequestAssumption DEF Id
<1>2. /\ Metadata(r).tick \in Positive /\ Metadata(r).precision \in Nat
      /\ Metadata(r).minSize \in Positive
  BY <1>1, InstrumentAssumption DEF Metadata
<1>3. Step(r).units \in Nat \ {0} /\ Step(r).places \in Nat
  BY <1>2 DEF Step, Positive, Dec
<1>4. QED
  BY <1>1, <1>2, <1>3 DEF Registered, Metadata

\* Whatever the decimal, its whole lots are an integer.
LEMMA AtomicIsInt ==
    ASSUME NEW i \in Id, NEW amount \in Decimal
    PROVE  Atomic(Request[i], amount) \in Int
<1> DEFINE s == Step(Request[i])
           n == amount.units * TenTo[s.places]
           d == TenTo[amount.places] * s.units
<1>1. s.units \in Nat \ {0} /\ s.places \in Nat /\ amount.units \in Int /\ amount.places \in Nat
  BY RequestFits DEF Decimal
<1>2. TenTo[s.places] \in Nat \ {0} /\ TenTo[amount.places] \in Nat \ {0}
  BY <1>1, TenToPositive
<1>3. n \in Int /\ d \in Nat \ {0}
  BY <1>1, <1>2
<1> HIDE DEF n, d
<1>4. n \div d \in Int
  BY <1>3, DivMod
<1>5. QED
  BY <1>4 DEF Atomic, n, d

LEMMA RoundedIsDecimal ==
    ASSUME NEW n \in Nat, NEW d \in Nat \ {0}, NEW scale \in Nat
    PROVE  Rounded(n, d, scale) \in Decimal
<1> DEFINE s == n * TenTo[scale]
<1>1. s \in Nat
  BY TenToPositive
<1> HIDE DEF s
<1>2. s \div d \in Int
  BY <1>1, DivMod
<1>3. QED
  BY <1>2 DEF Rounded, Dec, Decimal, s

LEMMA IntentIsDecimal ==
    ASSUME NEW i \in Id, Request[i].ui # NoIntent, Accepted(Request[i])
    PROVE  /\ Translate(Request[i].ui).price \in Decimal
           /\ Translate(Request[i].ui).amount \in Decimal
<1> DEFINE ui == Request[i].ui
           u == ui.price.units
           v == ui.size.units
           a == ui.price.places
           b == ui.size.places
<1>1. IntentHolds(ui, Request[i].side, Request[i].price, Request[i].amount)
  BY DEF Accepted
<1>2. u > 0 /\ v > 0
  BY <1>1 DEF IntentHolds
<1>3. u \in Int /\ v \in Int /\ a \in Nat /\ b \in Nat
  BY RequestFits DEF Decimal
<1> HIDE DEF u, v, a, b
<1>4. TenTo[a] \in Nat \ {0} /\ TenTo[a + b] \in Nat \ {0} /\ EngineScale \in Nat
  BY <1>3, TenToPositive, ScaleAssumption
<1>5. u \in Nat \ {0} /\ u * v \in Nat
  BY <1>2, <1>3
<1>6. Rounded(TenTo[a], u, EngineScale) \in Decimal
  BY <1>4, <1>5, RoundedIsDecimal
<1>7. Rounded(u * v, TenTo[a + b], EngineScale) \in Decimal
  BY <1>4, <1>5, RoundedIsDecimal
<1>8. QED
  BY <1>6, <1>7 DEF Translate, u, v, a, b

\* What toParams makes of a request it accepts.
LEMMA AcceptedFits ==
    ASSUME NEW i \in Id, Accepted(Request[i])
    PROVE  LET r == Request[i]
           IN  /\ Price(r) \in Decimal /\ Amount(r) \in Decimal
               /\ Side(r) \in {"buy", "sell"}
               /\ Ticks(r) \in Nat \ {0}
               /\ Desired(r) \in Nat \ {0}
               /\ Filled(r) \in 0..Desired(r)
               /\ Stored(r) \in Decimal /\ Same(Stored(r), Price(r))
               /\ Parse(Metadata(r), Stored(r)) = Ticks(r)
<1> DEFINE r == Request[i]
<1>1. /\ Registered(Metadata(r))
      /\ {r.price, r.amount, r.filled} \subseteq Decimal
  BY RequestFits
<1>2. Price(r) \in Decimal /\ Amount(r) \in Decimal
  BY <1>1, IntentIsDecimal DEF Price, Amount
<1>3. /\ Side(r) \in {"buy", "sell"}
      /\ Ticks(r) # NoTicks /\ Desired(r) > 0 /\ Filled(r) >= 0 /\ Filled(r) <= Desired(r)
  BY DEF Accepted
<1>4. Ticks(r) \in Nat \ {0}
  BY <1>1, <1>2, <1>3, ParseIsExact DEF Ticks
<1>5. Desired(r) \in Int /\ Filled(r) \in Int
  BY <1>1, <1>2, AtomicIsInt DEF Desired, Filled
<1>6. Stored(r) \in Decimal /\ Same(Stored(r), Price(r))
  BY <1>1, <1>2, <1>3, FormatUndoesParse DEF Stored, Ticks
<1>7. Parse(Metadata(r), Stored(r)) = Ticks(r)
  BY <1>1, <1>4, ParseUndoesFormat DEF Stored
<1>8. QED
  BY <1>2, <1>3, <1>4, <1>5, <1>6, <1>7

\* An amount signed raw is at most the amount of the row.
LEMMA RawIsSmall ==
    ASSUME NEW i \in Id, Accepted(Request[i]), RawAmount(Request[i])
    PROVE  Request[i].signed.desired <= Desired(Request[i])
<1> DEFINE r == Request[i]
           t == TenTo[Step(r).places]
           u == Step(r).units
           c == t \div u
           s == r.signed.desired
           d == Desired(r)
<1>1. u \in Nat \ {0} /\ Step(r).places \in Nat /\ s \in Int
  BY RequestFits
<1>2. t \in Nat \ {0}
  BY <1>1, TenToPositive
<1>3. t % u = 0 /\ s * c = d
  BY DEF RawAmount
<1>4. d \in Nat \ {0}
  BY AcceptedFits
<1> HIDE DEF t, u, s, d
<1>5. c \in Int /\ t = u * c
  BY <1>1, <1>2, <1>3, DivMod
<1> HIDE DEF c
<1>6. c > 0
  BY <1>1, <1>2, <1>5
<1>7. s > 0
  <2>1. s <= 0 => s * c <= 0
    BY <1>1, <1>5, <1>6
  <2>2. QED
    BY <1>1, <1>3, <1>4, <2>1
<1>8. s <= s * c
  BY <1>1, <1>5, <1>6, <1>7
<1>9. QED
  BY <1>3, <1>8 DEF s, d

-----------------------------------------------------------------------------
(* The invariant of prices and amounts *)

FillRecord ==
    [maker: Id, taker: Id, amount: Nat \ {0}, price: Decimal,
     units: [price: Nat \ {0}, amount: Nat \ {0}]]

\* A fill is within what the owner of i signed.
WithinSignature(i, f) ==
    /\ Request[i].signed.market = Request[i].market
    /\ IF Request[i].signed.bid THEN f.units.price <= Request[i].signed.price
       ELSE f.units.price >= Request[i].signed.price

FillFits(f) ==
    /\ stage[f.maker] = "stored" /\ stage[f.taker] = "stored" /\ f.maker # f.taker
    /\ WithinSignature(f.maker, f) /\ WithinSignature(f.taker, f)
    /\ Same(f.price, Price(Request[f.maker]))

AddressTypes == contract \in Address /\ asked \in [Id -> Address]

FieldTypes ==
    /\ config \in [guard: {"none", "rejecting", "chain"}, checked: BOOLEAN]
    /\ batch \in Batches
    /\ AddressTypes
    /\ heldOnce \subseteq Id
    /\ filled \in [Id -> Nat]
    /\ fills \in Seq(FillRecord)

\* toParams accepted what is past it.
DecodedAccepted == \A i \in Id : stage[i] # "new" => Accepted(Request[i])

\* What is stored is in the book.
StoredBooked == \A i \in Id : stage[i] = "stored" => \E k \in DOMAIN book : book[k] = i

\* Between what it came with and its amount.
FilledFits ==
    \A i \in Id : stage[i] = "stored" =>
        filled[i] >= Filled(Request[i]) /\ filled[i] <= Desired(Request[i])

\* What was executed of an order is to what was signed of it as what was filled
\* is to its amount: the scale of every fill is the same.
Proportional ==
    \A i \in Id :
        IF stage[i] = "stored"
        THEN Executed(i) * Desired(Request[i])
                = (filled[i] - Filled(Request[i])) * Request[i].signed.desired
        ELSE Executed(i) = 0

FillsFit == \A k \in DOMAIN fills : FillFits(fills[k])

EntryInv ==
    /\ FieldTypes /\ DecodedAccepted /\ StoredBooked
    /\ FilledFits /\ FillsFit /\ Proportional

LEMMA EntryInvInit == ASSUME Init PROVE EntryInv
<1>1. FieldTypes
  BY DEF Init, FieldTypes, AddressTypes, Address, Guard
<1>2. DecodedAccepted /\ StoredBooked /\ FilledFits /\ FillsFit
  BY DEF Init, DecodedAccepted, StoredBooked, FilledFits, FillsFit
<1>3. \A i \in Id : Executed(i) = 0
  <2> SUFFICES ASSUME NEW i \in Id PROVE Executed(i) = 0
    OBVIOUS
  <2>1. fills = <<>>
    BY DEF Init
  <2>2. [k \in DOMAIN <<>> |-> IF i \in {<<>>[k].maker, <<>>[k].taker}
                               THEN <<>>[k].units.amount ELSE 0] = <<>>
    OBVIOUS
  <2>3. QED
    BY <2>1, <2>2, TotalOfNothing DEF Executed
<1>4. Proportional
  BY <1>3 DEF Init, Proportional
<1>5. QED
  BY <1>1, <1>2, <1>4 DEF EntryInv

\* The part a fill has in what was executed of an order.
Part(i) == [f \in FillRecord |-> IF i \in {f.maker, f.taker} THEN f.units.amount ELSE 0]

\* So a total of a column of the fills.
LEMMA ExecutedIsColumn ==
    ASSUME fills \in Seq(FillRecord), NEW i
    PROVE  /\ Part(i) \in [FillRecord -> Int]
           /\ Executed(i) = Total([k \in DOMAIN fills |-> Part(i)[fills[k]]])
<1>1. Part(i) \in [FillRecord -> Int]
  BY DEF Part, FillRecord
<1>2. \A k \in DOMAIN fills : fills[k] \in FillRecord
  OBVIOUS
<1>3. [k \in DOMAIN fills |-> IF i \in {fills[k].maker, fills[k].taker}
                             THEN fills[k].units.amount ELSE 0]
          = [k \in DOMAIN fills |-> Part(i)[fills[k]]]
  BY <1>2 DEF Part
<1>4. QED
  BY <1>1, <1>3 DEF Executed

LEMMA ExecutedIsInt ==
    ASSUME fills \in Seq(FillRecord), NEW i
    PROVE  Executed(i) \in Int
<1> DEFINE c == [k \in DOMAIN fills |-> Part(i)[fills[k]]]
<1>1. Executed(i) = Total(c)
  BY ExecutedIsColumn
<1>2. c \in Seq(Int)
  <2> DEFINE p == Part(i)
  <2>1. p \in [FillRecord -> Int]
    BY ExecutedIsColumn
  <2> HIDE DEF p
  <2>2. [k \in DOMAIN fills |-> p[fills[k]]] \in Seq(Int)
    BY <2>1
  <2>3. QED
    BY <2>2 DEF p
<1> HIDE DEF c
<1>3. QED
  BY <1>1, <1>2, TotalIsInt

LEMMA FillAdds ==
    ASSUME fills \in Seq(FillRecord), NEW i, NEW f \in FillRecord,
           fills' = Append(fills, f)
    PROVE  Executed(i) \in Int /\ Executed(i)' = Executed(i) + Part(i)[f]
<1>1. fills' \in Seq(FillRecord)
  OBVIOUS
<1>2. Executed(i)' = Total([k \in DOMAIN fills' |-> Part(i)[fills'[k]]])
  <2>1. [k \in DOMAIN fills' |-> IF i \in {fills'[k].maker, fills'[k].taker}
                                THEN fills'[k].units.amount ELSE 0]
            = [k \in DOMAIN fills' |-> Part(i)[fills'[k]]]
    BY <1>1 DEF Part
  <2>2. QED
    BY <2>1 DEF Executed
<1>3. /\ Part(i) \in [FillRecord -> Int]
      /\ Executed(i) = Total([k \in DOMAIN fills |-> Part(i)[fills[k]]])
  BY ExecutedIsColumn
<1> DEFINE p == Part(i)
<1> HIDE DEF p
<1>4. Total([k \in DOMAIN Append(fills, f) |-> p[Append(fills, f)[k]]])
          = Total([k \in DOMAIN fills |-> p[fills[k]]]) + p[f]
  BY <1>3, ColumnOfAppend DEF p
<1>5. QED
  BY <1>2, <1>3, <1>4, ExecutedIsInt DEF p

-----------------------------------------------------------------------------
(* The handlers *)

\* A handler's step, short of the insert: it stores nothing, and a request it
\* goes on with is acceptable.
LEMMA HandlersStoreNothing ==
    ASSUME CustodyInv, EntryInv, NEW i \in Id, i \in batch,
           Decode(i) \/ ReadCache(i) \/ ReadContract(i) \/ ReadOwner(i) \/ ReadRecord(i)
    PROVE  /\ UNCHANGED <<config, batch, book, filled, fills>>
           /\ AddressTypes'
           /\ heldOnce' \subseteq Id
           /\ DecodedAccepted'
           /\ \A j \in Id : stage'[j] = "stored" <=> stage[j] = "stored"
<1> USE DEF CustodyInv, EntryTypes, EntryInv, FieldTypes, InFlight
<1>1. ASSUME Refuse(i), stage[i] # "stored"
      PROVE  /\ book' = book /\ heldOnce' \subseteq Id
             /\ \A j \in Id : stage'[j] = IF j = i THEN "new" ELSE stage[j]
  BY <1>1 DEF Refuse
<1>2. ASSUME NEW next \in InFlight, Continue(i, next), stage[i] # "stored"
      PROVE  /\ book' = book /\ heldOnce' \subseteq Id
             /\ \A j \in Id : stage'[j] = IF j = i THEN next ELSE stage[j]
  BY <1>2 DEF Continue
<1>3. \A j \in Id : Accepted(Request[j])' <=> Accepted(Request[j])
  <2>1. config' = config
    BY DEF Decode, ReadCache, ReadContract, ReadOwner, ReadRecord
  <2>2. QED
    BY <2>1 DEF Accepted
<1>4. CASE Decode(i)
  <2>1. stage[i] = "new" /\ UNCHANGED <<config, batch, addressVars, filled, fills>>
    BY <1>4 DEF Decode
  <2> USE DEF AddressTypes, addressVars
  <2>2. CASE Refuse(i)
    BY <1>1, <1>3, <2>1, <2>2 DEF DecodedAccepted
  <2>3. CASE ~Refuse(i)
    <3>1. /\ Accepted(Request[i])
          /\ stage' = [stage EXCEPT ![i] = IF config.guard = "none" THEN "checked"
                                           ELSE "resolve"]
          /\ heldOnce' = heldOnce \union {j \in {i} : Deposited(j)}
          /\ book' = book
      BY <1>4, <2>3 DEF Decode
    <3>2. QED
      BY <1>3, <2>1, <3>1 DEF DecodedAccepted
  <2>4. QED
    BY <2>2, <2>3
<1>5. CASE ReadCache(i) \/ ReadContract(i) \/ ReadOwner(i) \/ ReadRecord(i)
  <2>1. stage[i] \in InFlight /\ UNCHANGED <<config, batch, filled, fills>>
    BY <1>5 DEF ReadCache, ReadContract, ReadOwner, ReadRecord
  <2>2. AddressTypes'
    BY <1>5 DEF ReadCache, ReadContract, ReadOwner, ReadRecord, AddressTypes, Address,
       addressVars
  <2>3. Refuse(i) \/ \E next \in InFlight : Continue(i, next)
    BY <1>5 DEF ReadCache, ReadContract, ReadOwner, ReadRecord
  <2>4. Accepted(Request[i])
    BY <2>1 DEF DecodedAccepted
  <2>5. CASE Refuse(i)
    BY <1>1, <1>3, <2>1, <2>2, <2>5 DEF DecodedAccepted
  <2>6. ASSUME NEW next \in InFlight, Continue(i, next) PROVE
             /\ UNCHANGED <<config, batch, book, filled, fills>>
             /\ AddressTypes'
             /\ heldOnce' \subseteq Id
             /\ DecodedAccepted'
             /\ \A j \in Id : stage'[j] = "stored" <=> stage[j] = "stored"
    BY <1>2, <1>3, <2>1, <2>2, <2>4, <2>6 DEF DecodedAccepted
  <2>7. QED
    BY <2>3, <2>5, <2>6
<1>6. QED
  BY <1>4, <1>5

LEMMA MoveStoresNothing ==
    ASSUME CustodyInv, EntryInv, NEW a \in Account, NEW to \in Place, Move(a, to)
    PROVE  /\ UNCHANGED <<config, batch, book, filled, fills, addressVars, stage>>
           /\ heldOnce' \subseteq Id
<1>1. batch \subseteq Id /\ heldOnce \subseteq Id
  BY DEF CustodyInv, EntryTypes, EntryInv, FieldTypes
<1>2. QED
  BY <1>1 DEF Move

\* Steps that store nothing and execute nothing keep the invariant.
LEMMA EntryFrame ==
    ASSUME CustodyInv, EntryInv, UNCHANGED <<config, batch, book, filled, fills>>,
           AddressTypes', heldOnce' \subseteq Id,
           DecodedAccepted',
           \A j \in Id : stage'[j] = "stored" <=> stage[j] = "stored"
    PROVE  EntryInv'
<1> USE DEF EntryInv
<1>1. FieldTypes'
  BY DEF FieldTypes
<1>2. StoredBooked' /\ FilledFits'
  BY DEF StoredBooked, FilledFits
<1>3. FillsFit'
  <2> SUFFICES ASSUME NEW k \in DOMAIN fills PROVE FillFits(fills[k])'
    BY DEF FillsFit
  <2>1. fills[k] \in FillRecord
    BY DEF FieldTypes
  <2>2. fills[k].maker \in Id /\ fills[k].taker \in Id
    BY <2>1 DEF FillRecord
  <2>3. FillFits(fills[k])
    BY DEF FillsFit
  <2>4. QED
    BY <2>2, <2>3 DEF FillFits, WithinSignature
<1>4. Proportional'
  <2>1. \A i \in Id : Executed(i)' = Executed(i)
    BY DEF Executed
  <2>2. QED
    BY <2>1 DEF Proportional
<1>5. QED
  BY <1>1, <1>2, <1>3, <1>4

LEMMA InsertKeepsEntry ==
    ASSUME CustodyInv, EntryInv, NEW i \in Id, Insert(i)
    PROVE  EntryInv'
<1> USE DEF EntryInv
<1>1. /\ stage[i] = "checked" /\ stage' = [stage EXCEPT ![i] = "stored"]
      /\ book' = Append(book, i)
      /\ filled' = [filled EXCEPT ![i] = Filled(Request[i])]
      /\ UNCHANGED <<config, batch, addressVars, heldOnce, fills>>
  BY DEF Insert
<1>2. /\ \A j \in Id : stage'[j] = IF j = i THEN "stored" ELSE stage[j]
      /\ book \in Seq(Id)
  BY <1>1 DEF CustodyInv, EntryTypes
<1>3. Accepted(Request[i])
  BY <1>1 DEF DecodedAccepted
<1>4. /\ Filled(Request[i]) \in Nat /\ Filled(Request[i]) <= Desired(Request[i])
      /\ Desired(Request[i]) \in Nat
  BY <1>3, AcceptedFits
<1>5. \A j \in Id : filled'[j] = IF j = i THEN Filled(Request[i]) ELSE filled[j]
  BY <1>1 DEF FieldTypes
<1>6. FieldTypes'
  BY <1>1, <1>4 DEF FieldTypes, AddressTypes, addressVars
<1>7. DecodedAccepted'
  <2>1. \A j \in Id : Accepted(Request[j])' <=> Accepted(Request[j])
    BY <1>1 DEF Accepted
  <2>2. QED
    BY <1>2, <1>3, <2>1 DEF DecodedAccepted
<1>8. StoredBooked'
  <2> SUFFICES ASSUME NEW j \in Id, stage'[j] = "stored"
               PROVE  \E k \in DOMAIN book' : book'[k] = j
    BY DEF StoredBooked
  <2>1. CASE j = i
    <3>1. Len(book) + 1 \in DOMAIN book' /\ book'[Len(book) + 1] = i
      BY <1>1, <1>2
    <3>2. QED
      BY <2>1, <3>1
  <2>2. CASE j # i
    <3>1. PICK k \in DOMAIN book : book[k] = j
      BY <1>2, <2>2 DEF StoredBooked
    <3>2. k \in DOMAIN book' /\ book'[k] = j
      BY <1>1, <1>2, <3>1
    <3>3. QED
      BY <3>2
  <2>3. QED
    BY <2>1, <2>2
<1>9. FilledFits'
  BY <1>2, <1>4, <1>5 DEF FilledFits
<1>10. FillsFit'
  <2> SUFFICES ASSUME NEW k \in DOMAIN fills PROVE FillFits(fills[k])'
    BY <1>1 DEF FillsFit
  <2>1. fills[k] \in FillRecord
    BY DEF FieldTypes
  <2>2. fills[k].maker \in Id /\ fills[k].taker \in Id
    BY <2>1 DEF FillRecord
  <2>3. FillFits(fills[k])
    BY DEF FillsFit
  <2>4. QED
    BY <1>1, <1>2, <2>2, <2>3 DEF FillFits, WithinSignature
<1>11. Proportional'
  <2>1. \A j \in Id : Executed(j)' = Executed(j)
    BY <1>1 DEF Executed
  <2>2. Executed(i) = 0
    BY <1>1 DEF Proportional
  <2>3. 0 * Desired(Request[i])
            = (Filled(Request[i]) - Filled(Request[i])) * Request[i].signed.desired
    <3>1. Request[i].signed.desired \in Int
      BY RequestFits
    <3> DEFINE s == Request[i].signed.desired
               d == Desired(Request[i])
               q == Filled(Request[i])
    <3> HIDE DEF s, d, q
    <3>2. 0 * d = (q - q) * s
      BY <1>4, <3>1 DEF s, d, q
    <3>3. QED
      BY <3>2 DEF s, d, q
  <2>4. QED
    BY <1>2, <1>5, <2>1, <2>2, <2>3 DEF Proportional
<1>12. QED
  BY <1>6, <1>7, <1>8, <1>9, <1>10, <1>11

-----------------------------------------------------------------------------
(* An execution *)

LEMMA OrderFits ==
    ASSUME EntryInv, NEW i \in Id, stage[i] = "stored"
    PROVE  /\ Signed(Order(i))
           /\ Order(i).side \in {"buy", "sell"}
           /\ Order(i).filled = filled[i] /\ filled[i] \in Nat
           /\ Order(i).desired = Desired(Request[i])
           /\ Order(i).signed = Request[i].signed
           /\ Order(i).market = Request[i].market
           /\ Order(i).price = Stored(Request[i])
           /\ Order(i).ticks = Ticks(Request[i])
<1>1. Accepted(Request[i]) /\ filled[i] \in Nat
  BY DEF EntryInv, FieldTypes, DecodedAccepted
<1>2. /\ Ticks(Request[i]) \in Nat \ {0} /\ Desired(Request[i]) \in Nat \ {0}
      /\ Side(Request[i]) \in {"buy", "sell"}
  BY <1>1, AcceptedFits
<1>3. Request[i].signed.price \in Int /\ Request[i].signed.desired \in Int
  BY RequestFits
<1>4. QED
  BY <1>1, <1>2, <1>3 DEF Order, Signed

\* Whatever the kind of market, the price of a trade is that of its maker's row.
LEMMA TradePriceIs ==
    ASSUME EntryInv, NEW i \in Id, stage[i] = "stored"
    PROVE  /\ TradePrice(Order(i)) = Stored(Request[i])
           /\ Stored(Request[i]) \in Decimal
           /\ Same(Stored(Request[i]), Price(Request[i]))
<1>1. Accepted(Request[i])
  BY DEF EntryInv, DecodedAccepted
<1>2. TradePrice(Order(i)) = Stored(Request[i])
  BY OrderFits DEF TradePrice, Stored, Metadata
<1>3. QED
  BY <1>1, <1>2, AcceptedFits

\* What Execute does, of the two requests it pairs.
Executes(a, b, f) ==
    /\ stage[a] = "stored" /\ stage[b] = "stored" /\ a # b
    /\ f.maker = a /\ f.taker = b
    /\ fills' = Append(fills, f)
    /\ filled' = [filled EXCEPT ![a] = @ + f.amount, ![b] = @ + f.amount]
    /\ UNCHANGED <<config, batch, requestVars, place>>
    /\ FillFits(f)
    /\ \A i \in {a, b} :
          /\ filled[i] + f.amount <= Desired(Request[i])
          /\ f.units.amount * Desired(Request[i]) = f.amount * Request[i].signed.desired

LEMMA ExecuteIs ==
    ASSUME CustodyInv, EntryInv, NEW m \in DOMAIN book, NEW t \in DOMAIN book, Execute(m, t)
    PROVE  \E a, b \in Id, f \in FillRecord : Executes(a, b, f)
<1> DEFINE a == book[m]
           b == book[t]
           maker == Order(a)
           taker == Order(b)
           amount == FillAmount(taker, maker)
           units == ExecutionUnits(taker, maker, maker.ticks, amount)
           f == [maker |-> a, taker |-> b, amount |-> amount,
                 price |-> TradePrice(maker), units |-> units]
<1>1. a \in Id /\ b \in Id /\ stage[a] = "stored" /\ stage[b] = "stored"
  BY DEF CustodyInv, EntryTypes, BookIsStored
<1>2. /\ Crossed(taker, maker) /\ units # NoUnits
      /\ filled' = [filled EXCEPT ![a] = @ + amount, ![b] = @ + amount]
      /\ fills' = Append(fills, f)
      /\ UNCHANGED <<config, batch, requestVars, place>>
  BY DEF Execute, UnitsOf
<1> HIDE DEF a, b
<1>3. /\ Signed(maker) /\ maker.filled = filled[a] /\ maker.desired = Desired(Request[a])
      /\ maker.side \in {"buy", "sell"}
      /\ maker.signed = Request[a].signed /\ maker.market = Request[a].market
      /\ filled[a] \in Nat
  BY <1>1, OrderFits
<1>4. /\ Signed(taker) /\ taker.filled = filled[b] /\ taker.desired = Desired(Request[b])
      /\ taker.side \in {"buy", "sell"}
      /\ taker.signed = Request[b].signed /\ taker.market = Request[b].market
      /\ filled[b] \in Nat
  BY <1>1, OrderFits
<1>5. a # b
  <2>1. taker.side = Opposite(maker.side)
    BY <1>2 DEF Crossed
  <2>2. taker.side # maker.side
    BY <2>1, <1>3 DEF Opposite
  <2>3. QED
    BY <2>2
<1>6. TradePrice(maker) \in Decimal /\ Same(TradePrice(maker), Price(Request[a]))
  BY <1>1, TradePriceIs
<1> HIDE DEF maker, taker
<1>7. /\ Remaining(taker) = Desired(Request[b]) - filled[b] /\ Remaining(taker) \in Int
      /\ Remaining(maker) = Desired(Request[a]) - filled[a] /\ Remaining(maker) \in Int
  <2>1. Desired(Request[a]) \in Int /\ Desired(Request[b]) \in Int
    BY <1>3, <1>4 DEF Signed
  <2>2. QED
    BY <1>3, <1>4, <2>1 DEF Remaining
<1>8. amount \in Int
  BY <1>7, Smaller DEF FillAmount
<1> HIDE DEF amount
<1>9. /\ SignedFor(taker) /\ SignedFor(maker)
      /\ SizeFits(taker, maker, amount)
      /\ units \in [price: Nat \ {0}, amount: Nat \ {0}]
      /\ WithinSigned(taker, units.price) /\ WithinSigned(maker, units.price)
      /\ units.amount * taker.desired = amount * taker.signed.desired
      /\ units.amount * maker.desired = amount * maker.signed.desired
  BY <1>2, <1>3, <1>4, <1>8, UnitsFit
<1> HIDE DEF units
<1>10. amount \in Nat \ {0}
  BY <1>8, <1>9 DEF SizeFits
<1>11. f \in FillRecord
  BY <1>1, <1>6, <1>9, <1>10 DEF FillRecord
<1>12. WithinSignature(a, f) /\ WithinSignature(b, f)
  BY <1>3, <1>4, <1>9 DEF WithinSignature, SignedFor, WithinSigned
<1>13. FillFits(f)
  BY <1>1, <1>5, <1>6, <1>12 DEF FillFits
<1>14. /\ filled[a] + amount <= Desired(Request[a])
       /\ filled[b] + amount <= Desired(Request[b])
  <2>1. amount <= Remaining(taker) /\ amount <= Remaining(maker)
    BY <1>9 DEF SizeFits
  <2>2. Desired(Request[a]) \in Int /\ Desired(Request[b]) \in Int
    BY <1>3, <1>4 DEF Signed
  <2>3. QED
    BY <1>3, <1>4, <1>7, <1>10, <2>1, <2>2
<1>15. Executes(a, b, f)
  BY <1>1, <1>2, <1>3, <1>4, <1>5, <1>9, <1>13, <1>14 DEF Executes
<1> HIDE DEF f
<1>16. QED
  BY <1>1, <1>11, <1>15

LEMMA ExecuteKeepsEntry ==
    ASSUME CustodyInv, EntryInv, NEW a \in Id, NEW b \in Id, NEW f \in FillRecord,
           Executes(a, b, f)
    PROVE  EntryInv'
<1> USE DEF EntryInv
<1>1. /\ stage[a] = "stored" /\ stage[b] = "stored" /\ a # b
      /\ f.maker = a /\ f.taker = b
      /\ fills' = Append(fills, f)
      /\ filled' = [filled EXCEPT ![a] = @ + f.amount, ![b] = @ + f.amount]
      /\ UNCHANGED <<config, batch, stage, addressVars, heldOnce, book, place>>
      /\ FillFits(f)
  BY DEF Executes, requestVars
<1>2. f.amount \in Nat /\ f.units.amount \in Nat
  BY DEF FillRecord
<1>3. \A i \in Id : filled'[i] = IF i \in {a, b} THEN filled[i] + f.amount ELSE filled[i]
  BY <1>1 DEF FieldTypes
<1>4. FieldTypes'
  <2>1. filled' \in [Id -> Nat]
    <3>1. filled \in [Id -> Nat]
      BY DEF FieldTypes
    <3>2. filled[a] + f.amount \in Nat /\ filled[b] + f.amount \in Nat
      BY <1>2, <3>1
    <3>3. QED
      BY <1>1, <3>1, <3>2
  <2>2. fills' \in Seq(FillRecord)
    BY <1>1 DEF FieldTypes
  <2>3. QED
    BY <1>1, <2>1, <2>2 DEF FieldTypes, AddressTypes, addressVars
<1>5. DecodedAccepted' /\ StoredBooked'
  BY <1>1 DEF DecodedAccepted, StoredBooked, Accepted
<1>6. FilledFits'
  <2> SUFFICES ASSUME NEW i \in Id, stage[i] = "stored"
               PROVE  filled'[i] >= Filled(Request[i]) /\ filled'[i] <= Desired(Request[i])
    BY <1>1 DEF FilledFits
  <2>1. filled[i] >= Filled(Request[i]) /\ filled[i] <= Desired(Request[i])
    BY DEF FilledFits
  <2>2. filled[i] \in Nat /\ Filled(Request[i]) \in Int
    <3>1. Accepted(Request[i])
      BY DEF DecodedAccepted
    <3>2. QED
      BY <3>1, AcceptedFits DEF FieldTypes
  <2>3. CASE i \in {a, b}
    <3>1. filled[i] + f.amount <= Desired(Request[i])
      BY <2>3 DEF Executes
    <3>2. QED
      BY <1>2, <1>3, <2>1, <2>2, <2>3, <3>1
  <2>4. CASE i \notin {a, b}
    BY <1>3, <2>1, <2>4
  <2>5. QED
    BY <2>3, <2>4
<1>7. FillsFit'
  <2> SUFFICES ASSUME NEW k \in DOMAIN fills' PROVE FillFits(fills[k])'
    BY DEF FillsFit
  <2>1. fills \in Seq(FillRecord) /\ k \in 1..Len(fills) + 1
    BY <1>1 DEF FieldTypes
  <2>2. PICK g \in FillRecord : g = fills'[k] /\ FillFits(g)
    <3>1. CASE k = Len(fills) + 1
      BY <1>1, <2>1, <3>1
    <3>2. CASE k \in 1..Len(fills)
      BY <1>1, <2>1, <3>2 DEF FillsFit
    <3>3. QED
      BY <2>1, <3>1, <3>2
  <2>3. QED
    BY <1>1, <2>2 DEF FillFits, WithinSignature, FillRecord
<1>8. Proportional'
  <2> SUFFICES ASSUME NEW i \in Id
               PROVE  IF stage[i] = "stored"
                      THEN Executed(i)' * Desired(Request[i])
                              = (filled'[i] - Filled(Request[i])) * Request[i].signed.desired
                      ELSE Executed(i)' = 0
    BY <1>1 DEF Proportional
  <2>1. Executed(i) \in Int /\ Executed(i)' = Executed(i) + Part(i)[f]
    BY <1>1, FillAdds DEF FieldTypes
  <2>2. Part(i)[f] = IF i \in {a, b} THEN f.units.amount ELSE 0
    BY <1>1 DEF Part
  <2>3. CASE i \notin {a, b}
    <3>1. Executed(i)' = Executed(i) /\ filled'[i] = filled[i]
      BY <1>3, <2>1, <2>2, <2>3
    <3>2. QED
      BY <3>1 DEF Proportional
  <2>4. CASE i \in {a, b}
    <3> DEFINE e == Executed(i)
               u == f.units.amount
               x == filled[i]
               y == f.amount
               z == Filled(Request[i])
               d == Desired(Request[i])
               s == Request[i].signed.desired
    <3>1. stage[i] = "stored"
      BY <1>1, <2>4
    <3>2. e * d = (x - z) * s
      BY <3>1 DEF Proportional
    <3>3. u * d = y * s
      BY <2>4 DEF Executes
    <3>4. e \in Int /\ u \in Int /\ x \in Int /\ y \in Int /\ z \in Int /\ d \in Int /\ s \in Int
      <4>1. Accepted(Request[i])
        BY <3>1 DEF DecodedAccepted
      <4>2. x \in Int /\ s \in Int
        BY RequestFits DEF FieldTypes
      <4>3. z \in Int /\ d \in Int
        BY <4>1, AcceptedFits
      <4>4. QED
        BY <1>2, <2>1, <4>2, <4>3
    <3>5. Executed(i)' = e + u /\ filled'[i] = x + y
      BY <1>3, <2>1, <2>2, <2>4
    <3> HIDE DEF e, u, x, y, z, d, s
    <3>6. (e + u) * d = ((x + y) - z) * s
      BY <3>2, <3>3, <3>4
    <3>7. QED
      BY <3>1, <3>5, <3>6 DEF z, d, s
  <2>5. QED
    BY <2>3, <2>4
<1>9. QED
  BY <1>4, <1>5, <1>6, <1>7, <1>8

LEMMA EntryInvNext ==
    ASSUME CustodyInv, EntryInv, [Next]_vars
    PROVE  EntryInv'
<1>1. batch \subseteq Id
  BY DEF CustodyInv, EntryTypes
<1>2. ASSUME NEW i \in batch, Decode(i) \/ ReadCache(i) \/ ReadContract(i) \/ ReadOwner(i) \/ ReadRecord(i)
      PROVE  EntryInv'
  BY <1>1, <1>2, HandlersStoreNothing, EntryFrame
<1>3. ASSUME NEW i \in batch, Insert(i) PROVE EntryInv'
  BY <1>1, <1>3, InsertKeepsEntry
<1>4. ASSUME NEW a \in Account, NEW to \in Place, Move(a, to) PROVE EntryInv'
  <2>1. /\ UNCHANGED <<config, batch, book, filled, fills, addressVars, stage>>
        /\ heldOnce' \subseteq Id
    BY <1>4, MoveStoresNothing
  <2>2. DecodedAccepted'
    BY <2>1 DEF EntryInv, DecodedAccepted, Accepted
  <2>3. QED
    BY <2>1, <2>2, EntryFrame DEF EntryInv, FieldTypes, AddressTypes, addressVars
<1>5. ASSUME NEW m \in DOMAIN book, NEW t \in DOMAIN book, Execute(m, t) PROVE EntryInv'
  BY <1>5, ExecuteIs, ExecuteKeepsEntry
<1>6. CASE UNCHANGED vars
  <2>1. UNCHANGED <<config, batch, book, filled, fills, addressVars, stage, heldOnce>>
    BY <1>6 DEF vars, requestVars
  <2>2. DecodedAccepted'
    BY <2>1 DEF EntryInv, DecodedAccepted, Accepted
  <2>3. QED
    BY <2>1, <2>2, EntryFrame DEF EntryInv, FieldTypes, AddressTypes, addressVars
<1>7. QED
  BY <1>2, <1>3, <1>4, <1>5, <1>6 DEF Next

LEMMA EntryReachable == Spec => [](CustodyInv /\ EntryInv)
<1>1. Init => CustodyInv /\ EntryInv
  BY CustodyInvInit, EntryInvInit
<1>2. (CustodyInv /\ EntryInv) /\ [Next]_vars => (CustodyInv /\ EntryInv)'
  BY CustodyInvNext, EntryInvNext
<1>3. QED
  BY <1>1, <1>2, PTL DEF Spec

-----------------------------------------------------------------------------
(* Types, prices and signatures *)

LEMMA BookHasStored ==
    ASSUME CustodyInv, EntryInv
    PROVE  \A i : i \in ToSet(book) <=> i \in Id /\ stage[i] = "stored"
<1>1. ASSUME NEW i \in ToSet(book) PROVE i \in Id /\ stage[i] = "stored"
  BY <1>1 DEF ToSet, CustodyInv, EntryTypes, BookIsStored
<1>2. ASSUME NEW i \in Id, stage[i] = "stored" PROVE i \in ToSet(book)
  BY <1>2 DEF ToSet, EntryInv, StoredBooked
<1>3. QED
  BY <1>1, <1>2

LEMMA FillOf ==
    ASSUME EntryInv, NEW f \in ToSet(fills)
    PROVE  f \in FillRecord /\ FillFits(f) /\ f.maker \in Id /\ f.taker \in Id
<1>1. PICK k \in DOMAIN fills : f = fills[k]
  BY DEF ToSet
<1>2. f \in FillRecord /\ FillFits(f)
  BY <1>1 DEF EntryInv, FieldTypes, FillsFit
<1>3. QED
  BY <1>2 DEF FillRecord

LEMMA EntryInvTypes == ASSUME CustodyInv, EntryInv PROVE TypeOK
<1>1. ToSet(book) = {i \in Id : stage[i] = "stored"}
  BY BookHasStored
<1>2. \A f \in ToSet(fills) : f.units.price > 0 /\ f.units.amount > 0
  BY FillOf DEF FillRecord
<1>3. /\ stage \in [Id -> InFlight \union {"new", "stored"}]
      /\ place \in [Account -> Place]
  BY DEF CustodyInv, EntryTypes
<1>4. QED
  BY <1>1, <1>2, <1>3 DEF EntryInv, FieldTypes, AddressTypes, TypeOK

\* The state of Entry stays what its variables are declared to be, and nothing
\* is executed at a price or an amount of zero (computeExecutionUnits).
THEOREM EntryTypeCorrect == Spec => []TypeOK
BY EntryReachable, EntryInvTypes, PTL

LEMMA EntryInvPrices == ASSUME CustodyInv, EntryInv PROVE PriceSurvives
<1>1. ASSUME NEW i \in ToSet(book)
      PROVE  /\ Same(Order(i).price, Price(Request[i]))
             /\ Parse(Instrument[Order(i).market], Order(i).price) = Order(i).ticks
  <2>1. i \in Id /\ stage[i] = "stored"
    BY BookHasStored
  <2>2. Accepted(Request[i])
    BY <2>1 DEF EntryInv, DecodedAccepted
  <2>3. /\ Order(i).price = Stored(Request[i]) /\ Order(i).ticks = Ticks(Request[i])
        /\ Instrument[Order(i).market] = Metadata(Request[i])
    BY <2>1, OrderFits DEF Metadata
  <2>4. QED
    BY <2>1, <2>2, <2>3, AcceptedFits
<1>2. \A f \in ToSet(fills) : Same(f.price, Price(Request[f.maker]))
  BY FillOf DEF FillFits
<1>3. QED
  BY <1>1, <1>2 DEF PriceSurvives

\* The price of a request is that of its row and of its trades, and the ticks of
\* its row are those of its price (Converter.Parse and FormatTicks), for any
\* tick and precision of an instrument.
THEOREM PricesSurviveTicks == Spec => []PriceSurvives
BY EntryReachable, EntryInvPrices, PTL

LEMMA EntryInvSignatures == ASSUME CustodyInv, EntryInv PROVE ExecutionHonoursSignatures
<1>1. ASSUME NEW f \in ToSet(fills), NEW i \in ToSet(book), i \in {f.maker, f.taker}
      PROVE  WithinSignature(i, f)
  BY <1>1, FillOf DEF FillFits
<1>2. ASSUME NEW i \in ToSet(book)
      PROVE  Executed(i) = SignedPart(i, filled[i] - Filled(Request[i]))
  <2> DEFINE x == filled[i] - Filled(Request[i])
             s == Request[i].signed.desired
             d == Desired(Request[i])
  <2>1. i \in Id /\ stage[i] = "stored"
    BY BookHasStored
  <2>2. Accepted(Request[i]) /\ Executed(i) * d = x * s
    BY <2>1 DEF EntryInv, DecodedAccepted, Proportional
  <2>3. d \in Nat \ {0}
    BY <2>1, <2>2, AcceptedFits
  <2>4. Executed(i) \in Int
    <3>1. fills \in Seq(FillRecord)
      BY DEF EntryInv, FieldTypes
    <3>2. QED
      BY <2>1, <3>1, ExecutedIsInt
  <2>5. Order(i).desired = d
    BY <2>1, OrderFits
  <2> HIDE DEF x, s, d
  <2>6. (x * s) \div d = Executed(i)
    BY <2>2, <2>3, <2>4, DivExact
  <2>7. QED
    BY <2>5, <2>6 DEF SignedPart, x, s
<1>3. QED
  BY <1>1, <1>2 DEF ExecutionHonoursSignatures, WithinSignature

\* Over any number of fills, what is executed of an order is the part of the
\* signed amount that was filled of the row, never past the signed price, also
\* when the API compares nothing with the signed data (computeExecutionUnits
\* with its checks).
THEOREM ExecutionIsSigned == Spec => []ExecutionHonoursSignatures
BY EntryReachable, EntryInvSignatures, PTL

-----------------------------------------------------------------------------
(* Accepted orders *)

\* When the scales agree the maker is executed at its limit.
LEMMA OneScaleExecutes ==
    ASSUME NEW taker, NEW maker, Signed(taker), Signed(maker),
           SignedFor(taker), SignedFor(maker),
           taker.signed.price > 0, maker.signed.price > 0,
           taker.signed.price % taker.ticks = 0, maker.signed.price % maker.ticks = 0,
           taker.signed.desired % taker.desired = 0, taker.signed.desired > 0,
           Crossed(taker, maker), OneScale(taker, maker),
           taker.side \in {"buy", "sell"}, maker.side \in {"buy", "sell"},
           NEW amount \in Int, SizeFits(taker, maker, amount)
    PROVE  ExecutionUnits(taker, maker, maker.ticks, amount) # NoUnits
<1> DEFINE p == taker.ticks
           q == maker.ticks
           s == taker.signed.price
           r == maker.signed.price
           k == s \div p
           d == taker.desired
           e == maker.desired
           t == taker.signed.desired
           m == maker.signed.desired
           c == t \div d
<1>1. /\ p \in Nat \ {0} /\ q \in Nat \ {0} /\ d \in Nat \ {0} /\ e \in Nat \ {0}
      /\ s \in Int /\ r \in Int
      /\ t \in Int /\ m \in Int
  BY DEF Signed
<1>2. k \in Int /\ s = p * k
  <2>1. s % p = 0
    OBVIOUS
  <2> HIDE DEF s, p
  <2>2. QED
    BY <1>1, <2>1, DivMod
<1>3. c \in Int /\ t = d * c
  <2>1. t % d = 0
    OBVIOUS
  <2> HIDE DEF t, d
  <2>2. QED
    BY <1>1, <2>1, DivMod
<1>4. s * q = r * p /\ t * e = m * d
  BY DEF OneScale
<1>5. s > 0 /\ t > 0
  OBVIOUS
<1> HIDE DEF k, c
<1>6. k \in Nat \ {0} /\ c \in Nat \ {0}
  <2> HIDE DEF p, q, s, r, d, e, t
  <2>1. QED
    BY <1>1, <1>2, <1>3, <1>5
<1>7. r = q * k /\ m = e * c
  <2> HIDE DEF p, q, s, r, d, e, t, m
  <2>1. r * p = (q * k) * p /\ m * d = (e * c) * d
    BY <1>1, <1>2, <1>3, <1>4
  <2>2. q * k \in Int /\ e * c \in Int
    BY <1>1, <1>6
  <2>3. QED
    BY <1>1, <2>1, <2>2, CancelFactor
<1>8. SharedScale(p, s, q, r) = k /\ SharedScale(d, t, e, m) = c
  <2> HIDE DEF p, q, s, r, d, e, t, m
  <2>1. SharedScale(p, p * k, q, q * k) = k /\ SharedScale(d, d * c, e, e * c) = c
    BY <1>1, <1>6, SharedScaleIs
  <2>2. QED
    BY <1>2, <1>3, <1>7, <2>1
<1>9. WithinSigned(maker, q * k)
  BY <1>1, <1>6, <1>7 DEF WithinSigned
<1>10. WithinSigned(taker, q * k)
  <2>1. IF taker.side = "buy" THEN p >= q ELSE p <= q
    BY DEF Crossed
  <2> HIDE DEF p, q, s, r
  <2>2. IF taker.side = "buy" THEN q * k <= s ELSE q * k >= s
    BY <1>1, <1>2, <1>6, <2>1
  <2>3. QED
    BY <2>2 DEF WithinSigned, s
<1>11. ExecutionUnits(taker, maker, q, amount) = [price |-> q * k, amount |-> amount * c]
  BY <1>6, <1>8, <1>9, <1>10 DEF ExecutionUnits, NoScale
<1>12. q * k # 0
  <2> HIDE DEF q
  <2>1. QED
    BY <1>1, <1>6
<1>13. QED
  BY <1>11, <1>12 DEF NoUnits

\* Units take one scale.
LEMMA UnitsTakeOneScale ==
    ASSUME NEW taker, NEW maker, Signed(taker), Signed(maker), NEW amount \in Int,
           ExecutionUnits(taker, maker, maker.ticks, amount) # NoUnits
    PROVE  OneScale(taker, maker)
<1> DEFINE p == taker.ticks
           q == maker.ticks
           s == taker.signed.price
           r == maker.signed.price
           d == taker.desired
           e == maker.desired
           t == taker.signed.desired
           m == maker.signed.desired
           k == SharedScale(p, s, q, r)
           c == SharedScale(d, t, e, m)
<1>1. k # NoScale /\ c # NoScale
  BY DEF ExecutionUnits
<1>2. /\ p \in Nat \ {0} /\ q \in Nat \ {0} /\ d \in Nat \ {0} /\ e \in Nat \ {0}
      /\ s \in Int /\ r \in Int /\ t \in Int /\ m \in Int
  BY DEF Signed
<1> HIDE DEF p, q, s, r, d, e, t, m
<1>3. k \in Nat \ {0} /\ s = p * k /\ r = q * k
  BY <1>1, <1>2, SharedScaleDivides
<1>4. c \in Nat \ {0} /\ t = d * c /\ m = e * c
  BY <1>1, <1>2, SharedScaleDivides
<1> HIDE DEF k, c
<1>5. s * q = r * p
  BY <1>2, <1>3
<1>6. t * e = m * d /\ t >= d
  BY <1>2, <1>4
<1>7. QED
  BY <1>5, <1>6 DEF OneScale, p, q, s, r, d, e, t, m

LEMMA EntryInvExecutes == ASSUME CustodyInv, EntryInv PROVE AcceptedCanExecute
<1> SUFFICES ASSUME NEW m \in DOMAIN book, NEW t \in DOMAIN book, config.checked,
                    Crossed(Order(book[t]), Order(book[m])),
                    FillAmount(Order(book[t]), Order(book[m])) > 0
             PROVE  UnitsOf(Order(book[t]), Order(book[m])) # NoUnits
                        <=> OneScale(Order(book[t]), Order(book[m]))
  BY DEF AcceptedCanExecute
<1> DEFINE a == book[m]
           b == book[t]
           maker == Order(a)
           taker == Order(b)
           amount == FillAmount(taker, maker)
<1>1. a \in Id /\ b \in Id /\ stage[a] = "stored" /\ stage[b] = "stored"
  BY DEF CustodyInv, EntryTypes, BookIsStored
<1> HIDE DEF a, b
<1>2. Accepted(Request[a]) /\ Accepted(Request[b])
  BY <1>1 DEF EntryInv, DecodedAccepted
<1>3. SignedAlike(Request[a]) /\ SignedAlike(Request[b])
  BY <1>2 DEF Accepted, a, b
<1>4. /\ Signed(maker) /\ maker.filled = filled[a] /\ maker.desired = Desired(Request[a])
      /\ maker.side \in {"buy", "sell"} /\ maker.ticks = Ticks(Request[a])
      /\ maker.signed = Request[a].signed /\ maker.market = Request[a].market
      /\ filled[a] \in Nat
  BY <1>1, OrderFits
<1>5. /\ Signed(taker) /\ taker.filled = filled[b] /\ taker.desired = Desired(Request[b])
      /\ taker.side \in {"buy", "sell"} /\ taker.ticks = Ticks(Request[b])
      /\ taker.signed = Request[b].signed /\ taker.market = Request[b].market
      /\ filled[b] \in Nat
  BY <1>1, OrderFits
<1>6. maker.side = Side(Request[a]) /\ taker.side = Side(Request[b])
  BY DEF Order
<1>7. Crossed(taker, maker) /\ amount > 0
  BY DEF a, b
<1> HIDE DEF maker, taker
<1>8. SignedFor(taker) /\ SignedFor(maker)
  BY <1>3, <1>4, <1>5, <1>6 DEF SignedFor, SignedAlike
<1>9. /\ Remaining(taker) \in Int /\ Remaining(maker) \in Int
  <2>1. taker.desired \in Nat /\ maker.desired \in Nat
    BY <1>4, <1>5 DEF Signed
  <2>2. QED
    BY <1>4, <1>5, <2>1 DEF Remaining
<1>10. amount \in Int /\ SizeFits(taker, maker, amount)
  BY <1>7, <1>9, Smaller DEF FillAmount, SizeFits
<1> HIDE DEF amount
<1>11. ASSUME OneScale(taker, maker)
       PROVE  ExecutionUnits(taker, maker, maker.ticks, amount) # NoUnits
  <2>1. /\ taker.signed.price > 0 /\ maker.signed.price > 0
        /\ taker.signed.price % taker.ticks = 0 /\ maker.signed.price % maker.ticks = 0
        /\ taker.signed.desired > 0
    BY <1>3, <1>4, <1>5 DEF SignedAlike
  <2>2. taker.signed.desired % taker.desired = 0
    <3> DEFINE s == taker.signed.desired
               d == taker.desired
    <3>1. s >= d
      BY <1>11 DEF OneScale
    <3>2. s % d = 0 \/ RawAmount(Request[b])
      BY <1>3, <1>5 DEF SignedAlike
    <3>3. RawAmount(Request[b]) => s <= d
      BY <1>1, <1>2, <1>5, RawIsSmall
    <3>4. s \in Int /\ d \in Nat \ {0}
      BY <1>5 DEF Signed
    <3> HIDE DEF s, d
    <3>5. CASE RawAmount(Request[b])
      <4>1. s = 1 * d
        BY <3>1, <3>3, <3>4, <3>5
      <4>2. QED
        BY <3>4, <4>1, DivExact DEF s, d
    <3>6. QED
      BY <3>2, <3>5 DEF s, d
  <2>3. QED
    BY <1>4, <1>5, <1>7, <1>8, <1>10, <1>11, <2>1, <2>2, OneScaleExecutes
<1>12. ASSUME ExecutionUnits(taker, maker, maker.ticks, amount) # NoUnits
       PROVE  OneScale(taker, maker)
  BY <1>4, <1>5, <1>10, <1>12, UnitsTakeOneScale
<1>13. QED
  BY <1>11, <1>12 DEF UnitsOf, amount, taker, maker, a, b

\* After validateActionDataInvariants, computeExecutionUnits refuses a pair that
\* crosses when its scales differ and for no other reason.
THEOREM AcceptedOrdersExecute == Spec => []AcceptedCanExecute
BY EntryReachable, EntryInvExecutes, PTL

-----------------------------------------------------------------------------
(* The echo *)

\* What the order of an intent is: its price is the inverse, to the nearest, and
\* its amount, of which the engine has enough places, exact and whole.
LEMMA IntentOrder ==
    ASSUME EntryInv, NEW i \in Id, stage[i] = "stored",
           Request[i].ui # NoIntent, Faithful(Request[i].ui)
    PROVE  LET ui == Request[i].ui
               t(n) == TenTo[n]
           IN  /\ ui.side \in {"buy", "sell"} /\ Order(i).side = Opposite(ui.side)
               /\ ui.price.units \in Nat \ {0} /\ ui.price.places \in 0..UIScale
               /\ ui.size.units \in Nat \ {0} /\ ui.size.places \in 0..UIScale
               /\ \E q \in Nat :
                    /\ Price(Request[i]) = Dec(q, EngineScale)
                    /\ Nearest(q, t(ui.price.places) * t(EngineScale), ui.price.units)
               /\ Order(i).desired \in Nat
               /\ Order(i).desired * (t(ui.price.places) * t(ui.size.places))
                      = ui.price.units * ui.size.units
<1> DEFINE r == Request[i]
           ui == r.ui
           p == ui.price.units
           v == ui.size.units
           a == ui.price.places
           b == ui.size.places
           ta == TenTo[a]
           tb == TenTo[b]
           te == TenTo[EngineScale]
           A == Order(i).desired
<1>1. Accepted(r)
  BY DEF EntryInv, DecodedAccepted
<1>2. Metadata(r).spot /\ IntentHolds(ui, r.side, r.price, r.amount)
  BY <1>1 DEF Accepted
<1>3. ui.side \in {"buy", "sell"} /\ p > 0 /\ v > 0
  BY <1>2 DEF IntentHolds
<1>4. p \in Int /\ v \in Int /\ a \in Nat /\ b \in Nat
  BY RequestFits DEF Decimal
<1>5. a \in 0..UIScale /\ b \in 0..UIScale
  BY <1>4, ScaleAssumption DEF Faithful
<1>6. p \in Nat \ {0} /\ v \in Nat \ {0}
  BY <1>3, <1>4
<1>7. Order(i).side = Opposite(ui.side) /\ Price(r) = Translate(ui).price
      /\ Amount(r) = Translate(ui).amount
  BY DEF Order, Side, Price, Amount, Translate
<1> DEFINE k == TenTo[EngineScale - (a + b)]
<1>8. /\ ta \in Nat \ {0} /\ tb \in Nat \ {0} /\ te \in Nat \ {0} /\ k \in Nat \ {0}
      /\ TenTo[a + b] = ta * tb /\ te = (ta * tb) * k
  BY <1>5, ScalesOf
<1>9. PICK q \in Nat : Translate(ui).price = Dec(q, EngineScale) /\ Nearest(q, ta * te, p)
  BY <1>6, <1>8, ScaleAssumption, RoundedIsNearest DEF Translate
<1>10. PICK m \in Nat : /\ Translate(ui).amount = Dec(m, EngineScale)
                        /\ Nearest(m, (p * v) * te, ta * tb)
  <2>1. p * v \in Nat /\ ta * tb \in Nat \ {0}
    BY <1>6, <1>8
  <2>2. Translate(ui).amount = Rounded(p * v, ta * tb, EngineScale)
    BY <1>8 DEF Translate
  <2>3. QED
    BY <2>1, <2>2, ScaleAssumption, RoundedIsNearest
<1>11. Step(r) = Dec(1, 0)
  <2>1. r.market \in DOMAIN Instrument
    BY RequestAssumption DEF Id
  <2>2. ~Metadata(r).lots
    BY <1>2, <2>1, InstrumentAssumption DEF Metadata
  <2>3. QED
    BY <2>2 DEF Step
<1>12. A = Atomic(r, Dec(m, EngineScale)) /\ Aligned(r, Dec(m, EngineScale))
  BY <1>1, <1>7, <1>10 DEF Accepted, Order, Desired
<1>13. A = (m * 1) \div (te * 1) /\ (m * 1) % (te * 1) = 0
  BY <1>11, <1>12, TenToRec DEF Atomic, Aligned, Dec
<1> HIDE DEF p, v, a, b, ta, tb, te, k, A
<1>14. A \in Nat /\ m = A * te
  <2>1. m * 1 = m /\ te * 1 = te
    BY <1>8
  <2>2. A \in Int /\ m = te * A
    <3>1. A = m \div te /\ m % te = 0
      BY <1>13, <2>1
    <3>2. te \in Nat \ {0}
      BY <1>8
    <3>3. QED
      BY <3>1, <3>2, DivMod
  <2>3. A \in Nat
    BY <1>8, <2>2
  <2>4. QED
    BY <1>8, <2>2, <2>3
<1>15. A * (ta * tb) = p * v
  <2> DEFINE D == ta * tb
             n == p * v
  <2>1. D \in Nat \ {0} /\ n \in Nat /\ n * k \in Nat /\ te = D * k
    BY <1>6, <1>8
  <2>2. Nearest(m, n * te, D)
    BY <1>10
  <2> HIDE DEF D, n
  <2>3. n * te = (n * k) * D /\ n * te \in Nat
    BY <1>8, <2>1
  <2>4. Nearest(n * k, n * te, D)
    BY <2>1, <2>3, ExactIsNearest
  <2>5. m = n * k
    BY <2>1, <2>2, <2>3, <2>4, NearestIsUnique
  <2>6. (A * D) * k = n * k
    BY <1>8, <1>14, <2>1, <2>5
  <2>7. A * D = n
    BY <1>8, <1>14, <2>1, <2>6, CancelFactor
  <2>8. QED
    BY <2>7 DEF D, n
<1>16. QED
  BY <1>3, <1>5, <1>6, <1>7, <1>9, <1>14, <1>15 DEF p, v, a, b, ta, tb, te, A

\* The echo of it takes the inverse again, and divides the amount by it.
LEMMA EchoOfOrder ==
    ASSUME EntryInv, NEW i \in Id, stage[i] = "stored",
           Request[i].ui # NoIntent, Faithful(Request[i].ui)
    PROVE  LET ui == Request[i].ui
               echo == Echo([side |-> Order(i).side, price |-> Order(i).price,
                             amount |-> Order(i).desired])
           IN  echo.side = ui.side /\ Same(echo.price, ui.price) /\ Same(echo.size, ui.size)
<1> DEFINE ui == Request[i].ui
           echo == Echo([side |-> Order(i).side, price |-> Order(i).price,
                         amount |-> Order(i).desired])
           p == ui.price.units
           v == ui.size.units
           a == ui.price.places
           b == ui.size.places
           ta == TenTo[a]
           tb == TenTo[b]
           te == TenTo[EngineScale]
           tu == TenTo[UIScale]
           w == TenTo[UIScale - a]
           x == TenTo[UIScale - b]
           g == TenTo[EngineScale - UIScale]
           A == Order(i).desired
           S == Order(i).price
           s == S.units
           tc == TenTo[S.places]
<1>1. /\ ui.side \in {"buy", "sell"} /\ Order(i).side = Opposite(ui.side)
      /\ p \in Nat \ {0} /\ a \in 0..UIScale /\ v \in Nat \ {0} /\ b \in 0..UIScale
      /\ A \in Nat /\ A * (ta * tb) = p * v
  BY IntentOrder
<1>2. PICK q \in Nat : Price(Request[i]) = Dec(q, EngineScale) /\ Nearest(q, ta * te, p)
  BY IntentOrder
<1>3. /\ {ta, tb, te, tu, w, x, g} \subseteq Nat \ {0}
      /\ tu = ta * w /\ tu = tb * x /\ te = g * tu
      /\ TenTo[EngineScale - UIScale + 2 * a] = g * (ta * ta)
      /\ TenTo[EngineScale - UIScale + a + b] = g * (ta * tb)
  BY <1>1, ScalesOf
<1>4. p * p < g * (ta * ta) /\ p * v < g * (ta * tb)
  BY <1>3 DEF Faithful
<1>5. S \in Decimal /\ Same(S, Dec(q, EngineScale)) /\ S.places \in Nat
  <2>1. Accepted(Request[i])
    BY DEF EntryInv, DecodedAccepted
  <2>2. S = Stored(Request[i])
    BY OrderFits
  <2>3. S \in Decimal /\ Same(S, Dec(q, EngineScale))
    BY <1>2, <2>1, <2>2, AcceptedFits
  <2>4. QED
    BY <2>3 DEF Decimal
<1>6. tc \in Nat \ {0} /\ s \in Int /\ s * te = q * tc
  <2>1. Dec(q, EngineScale) \in Decimal
    BY ScaleAssumption DEF Dec, Decimal
  <2>2. s * te = q * tc
    BY <1>5, <2>1, SameIsCross DEF Dec
  <2>3. QED
    BY <1>5, <2>2, TenToPositive DEF Decimal
<1>7. /\ Opposite(Opposite(ui.side)) = ui.side
      /\ echo.side = Opposite(Order(i).side)
      /\ echo.price = Rounded(tc, s, UIScale)
      /\ echo.size = Rounded(s * A, tc, UIScale)
  BY <1>1 DEF Echo, Opposite
<1> DEFINE X == ta * te
<1> HIDE DEF p, v, a, b, ta, tb, te, tu, w, x, g, A, S, s, tc, ui, echo
<1>8. X \in Nat /\ p * (p * w) < X
  <2> DEFINE pp == p * p
             gg == g * (ta * ta)
  <2>1. pp \in Nat /\ gg \in Nat /\ pp < gg
    BY <1>1, <1>3, <1>4
  <2> HIDE DEF pp, gg
  <2>2. pp * w < gg * w
    BY <1>3, <2>1
  <2>3. gg * w = ta * te /\ pp * w = p * (p * w)
    BY <1>1, <1>3 DEF pp, gg
  <2>4. QED
    BY <1>3, <2>2, <2>3
<1>9. q > 0 /\ Nearest(p * w, w * X, q)
  <2> HIDE DEF X
  <2>1. Nearest(q, X, p)
    BY <1>2 DEF X
  <2>2. QED
    BY <1>1, <1>3, <1>8, <2>1, InverseOfInverse
<1>10. s \in Nat \ {0}
  <2>1. q * tc > 0
    BY <1>6, <1>9
  <2>2. QED
    BY <1>3, <1>6, <2>1
<1>11. Rounded(tc, s, UIScale) = Dec(p * w, UIScale)
  <2>1. PICK r \in Nat : Rounded(tc, s, UIScale) = Dec(r, UIScale) /\ Nearest(r, tc * tu, s)
    BY <1>6, <1>10, ScaleAssumption, RoundedIsNearest DEF tu
  <2>2. (tc * tu) * q = (w * X) * s
    <3>1. w * X = tu * te
      BY <1>3
    <3>2. (tu * te) * s = (q * tc) * tu
      BY <1>3, <1>6
    <3>3. QED
      BY <1>3, <1>6, <3>1, <3>2
  <2>3. tc * tu \in Nat /\ w * X \in Nat /\ q \in Nat \ {0} /\ p * w \in Int
    BY <1>1, <1>3, <1>6, <1>8, <1>9
  <2>4. Nearest(p * w, tc * tu, s)
    BY <1>9, <1>10, <2>2, <2>3, NearestOfSame
  <2>5. r = p * w
    BY <1>10, <2>1, <2>3, <2>4, NearestIsUnique
  <2>6. QED
    BY <2>1, <2>5
<1>12. Rounded(s * A, tc, UIScale) = Dec(v * x, UIScale)
  <2> DEFINE R == v * x
  <2>1. s * A \in Nat /\ R \in Nat
    BY <1>1, <1>3, <1>10
  <2>2. PICK r \in Nat :
            Rounded(s * A, tc, UIScale) = Dec(r, UIScale) /\ Nearest(r, (s * A) * tu, tc)
    BY <1>6, <2>1, ScaleAssumption, RoundedIsNearest DEF tu
  <2>3. A * tu < te
    <3> DEFINE d == ta * tb
    <3>1. d \in Nat \ {0} /\ A * d < g * d
      BY <1>1, <1>3, <1>4
    <3> HIDE DEF d
    <3>2. A < g
      BY <1>1, <1>3, <3>1
    <3>3. QED
      BY <1>1, <1>3, <3>2
  <2>4. (A * tu) * X = p * (R * te)
    <3>1. tu * ta = (ta * tb) * x
      BY <1>3
    <3>2. (A * tu) * X = ((A * (ta * tb)) * x) * te
      BY <1>1, <1>3, <3>1
    <3>3. ((p * v) * x) * te = p * (R * te)
      BY <1>1, <1>3
    <3>4. QED
      BY <1>1, <3>2, <3>3
  <2>5. Nearest(R, (q * A) * tu, te)
    <3> HIDE DEF X, R
    <3>1. Nearest(q, X, p)
      BY <1>2 DEF X
    <3>2. QED
      BY <1>1, <1>3, <1>8, <2>1, <2>3, <2>4, <3>1, SizeOfAmount
  <2>6. ((s * A) * tu) * te = ((q * A) * tu) * tc
    <3>1. ((s * A) * tu) * te = (s * te) * (A * tu) /\ ((q * A) * tu) * tc = (q * tc) * (A * tu)
      BY <1>1, <1>3, <1>6
    <3>2. QED
      BY <1>6, <3>1
  <2>7. (s * A) * tu \in Nat /\ (q * A) * tu \in Nat
    BY <1>1, <1>3, <1>10
  <2>8. Nearest(R, (s * A) * tu, tc)
    <3> DEFINE n == (s * A) * tu
               m == (q * A) * tu
    <3>1. R \in Int /\ n \in Nat /\ m \in Nat /\ n * te = m * tc /\ Nearest(R, m, te)
      BY <2>1, <2>5, <2>6, <2>7
    <3> HIDE DEF n, m, R
    <3>2. Nearest(R, n, tc)
      BY <1>3, <1>6, <3>1, NearestOfSame
    <3>3. QED
      BY <3>2 DEF n
  <2> HIDE DEF R
  <2>9. r = R
    <3> DEFINE n == (s * A) * tu
    <3>1. n \in Nat /\ Nearest(r, n, tc) /\ Nearest(R, n, tc)
      BY <2>2, <2>7, <2>8
    <3> HIDE DEF n
    <3>2. R \in Int /\ r \in Int
      BY <2>1
    <3>3. QED
      BY <1>6, <3>1, <3>2, NearestIsUnique
  <2>10. QED
    BY <2>2, <2>9 DEF R
<1>13. Same(Dec(p * w, UIScale), ui.price) /\ Same(Dec(v * x, UIScale), ui.size)
  <2>1. ui.price \in Decimal /\ ui.size \in Decimal
    BY RequestFits DEF ui
  <2>2. Dec(p * w, UIScale) \in Decimal /\ Dec(v * x, UIScale) \in Decimal
    <3>1. p * w \in Int /\ v * x \in Int
      BY <1>1, <1>3
    <3>2. QED
      BY <3>1, ScaleAssumption DEF Dec, Decimal
  <2>3. (p * w) * ta = p * tu /\ (v * x) * tb = v * tu
    BY <1>1, <1>3
  <2>4. QED
    BY <2>1, <2>2, <2>3, SameIsCross DEF Dec, p, v, ta, tb, tu, a, b
<1>14. QED
  BY <1>1, <1>7, <1>11, <1>12, <1>13 DEF ui, echo

LEMMA EntryInvEcho == ASSUME CustodyInv, EntryInv PROVE EchoRestoresIntent
BY BookHasStored, EchoOfOrder DEF EchoRestoresIntent

\* The spot_contract of a stored order is the intent it came from
\* (deriveSpotOrderContractEchoFromEngine after translateSpotUIIntent), at any
\* two scales the second of which is at most half of the first.
THEOREM EchoIsIntent == Spec => []EchoRestoresIntent
BY EntryReachable, EntryInvEcho, PTL

=============================================================================
