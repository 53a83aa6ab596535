------------------------------ MODULE Funding ------------------------------
(***************************************************************************)
(* The BTCVAR30 funding loop, internal/funding/service.go, which cmd/api    *)
(* runs beside the oracle in the same process.                              *)
(*                                                                          *)
(* refresh is split where other goroutines can come between: it reads the   *)
(* time, then the oracle's payload, then asks again whether the oracle is   *)
(* stale, then reads the book.  Prices are integers and a price without a   *)
(* mate is doubled, so that the midpoint of two is their sum: marks,        *)
(* premiums, rates and Cap count halves of the unit of Variance.            *)
(***************************************************************************)
EXTENDS Oracle

CONSTANTS Price,        \* prices, in units of variance, of orders in the book
          Coefficient,  \* BTCVAR30_FUNDING_COEFF
          Cap,          \* BTCVAR30_FUNDING_CAP, in half units
          NoSnapshot,   \* nothing calculated yet
          NoPrice       \* a side of the book without an order

ASSUME VarianceAssumption == Variance \subseteq Nat
ASSUME FundingAssumption == Price \subseteq Nat /\ Coefficient \in Int /\ Cap \in Nat
ASSUME NothingAssumption == NoSnapshot \notin [at: Time, paused: BOOLEAN,
                                               payload: Payload \union {NoPayload},
                                               rate: -Cap .. Cap]

VARIABLES fundingStep,  \* where refresh is in each process
          startedAt,    \* refresh's now
          read,         \* the payload that oracle.Latest returned
          readStale,    \* its Stale field
          snapshot      \* Service.latest

fundingVars == <<fundingStep, startedAt, read, readStale, snapshot>>
vars == <<oracleVars, fundingVars>>

Snapshot == [at: Time, paused: BOOLEAN, payload: Payload \union {NoPayload},
             rate: -Cap .. Cap]

\* Besides the types: a funding rate never exceeds the cap, in either
\* direction (README.md, "BTCVAR30 Funding").
TypeOK ==
    /\ OracleTypeOK
    /\ fundingStep \in [Api -> {"idle", "reading", "checking", "marking"}]
    /\ startedAt \in [Api -> Time]
    /\ read \in [Api -> Payload \union {NoPayload}]
    /\ readStale \in [Api -> BOOLEAN]
    /\ snapshot \in [Api -> Snapshot \union {NoSnapshot}]

Init ==
    /\ OracleInit
    /\ fundingStep = [i \in Api |-> "idle"]
    /\ startedAt = [i \in Api |-> 0]
    /\ read = [i \in Api |-> NoPayload]
    /\ readStale = [i \in Api |-> FALSE]
    /\ snapshot = [i \in Api |-> NoSnapshot]

-----------------------------------------------------------------------------
\* Mutant: only the upper bound is applied.
ClampAbove(x, floor, cap) == IF x < cap THEN x ELSE cap

\* math.Max(floor, math.Min(cap, value))
Clamp(x, floor, cap) ==
    LET low == IF x < cap THEN x ELSE cap
    IN  IF floor > low THEN floor ELSE low

\* currentMarkPrice, for a book with an order on at least one side; the two
\* sides are read by two statements, so they may cross.
MarkPrice(bid, ask) ==
    CASE bid = NoPrice             -> 2 * ask
      [] ask = NoPrice             -> 2 * bid
      [] bid # NoPrice /\ ask # NoPrice
                                   -> IF ask < bid THEN 2 * bid ELSE bid + ask

FundingRate(mark, variance) ==
    Clamp((mark - 2 * variance) * Coefficient, -Cap, Cap)

\* refresh returns and with it go its locals.
ReturnFunding(i) ==
    /\ startedAt' = [startedAt EXCEPT ![i] = 0]
    /\ read' = [read EXCEPT ![i] = NoPayload]
    /\ readStale' = [readStale EXCEPT ![i] = FALSE]

\* store is the last thing refresh does on every path.
Store(i, paused, payload, rate) ==
    /\ snapshot' = [snapshot EXCEPT ![i] =
        [at |-> startedAt[i], paused |-> paused, payload |-> payload,
         rate |-> rate]]
    /\ ReturnFunding(i)

GotoFunding(i, from, to) ==
    /\ fundingStep[i] = from
    /\ fundingStep' = [fundingStep EXCEPT ![i] = to]

-----------------------------------------------------------------------------
\* Run calls refresh at the start and at each tick.
BeginFunding(i) ==
    /\ step[i] # "down"
    /\ GotoFunding(i, "idle", "reading")
    /\ startedAt' = [startedAt EXCEPT ![i] = clock]
    /\ UNCHANGED <<oracleVars, read, readStale, snapshot>>

PauseUnavailable(i) ==
    /\ GotoFunding(i, "reading", "idle")
    /\ ~ HasLatest(i)
    /\ Store(i, TRUE, NoPayload, 0)
    /\ UNCHANGED oracleVars

ReadOracle(i) ==
    /\ GotoFunding(i, "reading", "checking")
    /\ HasLatest(i)
    /\ read' = [read EXCEPT ![i] = latest[i]]
    /\ readStale' = [readStale EXCEPT ![i] = LatestStale(i)]
    /\ UNCHANGED <<oracleVars, startedAt, snapshot>>

\* Mutant: only the second call is asked, about whatever is latest by then.
OnlyIsStale(i) == IsStale(i, startedAt[i])

\* IsStale(now) || payload.Stale
JudgedStale(i) == IsStale(i, startedAt[i]) \/ readStale[i]

\* Mutant: a stale oracle is logged and the last snapshot kept.
WarnStale(i) ==
    /\ GotoFunding(i, "checking", "idle")
    /\ JudgedStale(i)
    /\ ReturnFunding(i)
    /\ UNCHANGED <<oracleVars, snapshot>>

PauseStale(i) ==
    /\ GotoFunding(i, "checking", "idle")
    /\ JudgedStale(i)
    /\ Store(i, TRUE, read[i], 0)
    /\ UNCHANGED oracleVars

JudgeFresh(i) ==
    /\ GotoFunding(i, "checking", "marking")
    /\ ~ JudgedStale(i)
    /\ UNCHANGED <<oracleVars, startedAt, read, readStale, snapshot>>

\* The book is empty, a query fails or a price does not parse.
PauseNoMark(i) ==
    /\ GotoFunding(i, "marking", "idle")
    /\ Store(i, TRUE, read[i], 0)
    /\ UNCHANGED oracleVars

SetFunding(i) ==
    /\ GotoFunding(i, "marking", "idle")
    /\ \E bid, ask \in Price \union {NoPrice} :
           /\ ~ (bid = NoPrice /\ ask = NoPrice)
           /\ Store(i, FALSE, read[i],
                    FundingRate(MarkPrice(bid, ask), read[i].variance))
    /\ UNCHANGED oracleVars

FundingLoop(i) ==
    \/ BeginFunding(i) \/ PauseUnavailable(i) \/ ReadOracle(i) \/ PauseStale(i)
    \/ JudgeFresh(i) \/ PauseNoMark(i) \/ SetFunding(i)

\* The process stops: oracle and funding loop lose what they hold.
CrashApi(i) ==
    /\ Crash(i)
    /\ fundingStep' = [fundingStep EXCEPT ![i] = "idle"]
    /\ ReturnFunding(i)
    /\ snapshot' = [snapshot EXCEPT ![i] = NoSnapshot]

Next ==
    \/ (Advance \/ NewCandle) /\ UNCHANGED fundingVars
    \/ \E i \in Api : \/ OracleStep(i) /\ UNCHANGED fundingVars
                      \/ FundingLoop(i)
                      \/ CrashApi(i)

Spec == Init /\ [][Next]_vars

\* The ticker of a running process fires again and again and the loop waits
\* only for a read lock and for two queries.
FairSpec == Spec /\ \A i \in Api : WF_vars(FundingLoop(i))

-----------------------------------------------------------------------------
\* "If the oracle is stale, funding pauses" (docs/btcvar30.md): the payload a
\* rate is computed from was, at the time the snapshot carries, heard from
\* Deribit within StaleAfter, even when the oracle publishes a newer one while
\* refresh is between its two questions.
FundingFromFreshOracle ==
    \A i \in Api : snapshot[i] # NoSnapshot =>
        \/ snapshot[i].paused
        \/ snapshot[i].at - snapshot[i].payload.heard <= StaleAfter

\* And it does pause: if the oracle of a process goes stale for good, or never
\* has anything, in the end no rate of that process is in force.
OutagePausesFunding ==
    \A i \in Api : <>[]IsStale(i, clock)
        => <>[](snapshot[i] = NoSnapshot \/ snapshot[i].paused)
=============================================================================
