------------------------------ MODULE TradeFeed ------------------------------
(***************************************************************************)
(* The trades of one market as GET /v1/trades shows them, page by page,    *)
(* while matchers append to trade_fills.                                   *)
(*                                                                         *)
(* created_at is the time at which the finalizing transaction began and    *)
(* trade_id is drawn at the insert: neither is the time of the commit, and *)
(* a transaction that is rolled back leaves a gap.  A page is read by one  *)
(* statement and the statistics that go with it by a later one.            *)
(***************************************************************************)
EXTENDS Integers, Sequences, FiniteSets, FiniteSetsExt, SequencesExt

CONSTANTS Matcher,    \* matcher processes
          Price,      \* prices of trades
          Limit,      \* trades per page
          Window,     \* the 24 hours of the statistics
          MaxTrades,  \* bound on trade_id, for TLC
          MaxTime     \* bound on the clock, for TLC

ASSUME PriceAssumption == Price \subseteq Nat \ {0}
ASSUME LimitAssumption == Limit \in Nat \ {0}
ASSUME WindowAssumption == Window \in Nat
ASSUME BoundAssumption == MaxTrades \in Nat /\ MaxTime \in Nat

NoId == 0

VARIABLES fills,   \* committed rows of trade_fills
          nextId,  \* the sequence behind trade_id
          tx,      \* open finalizing transaction of each matcher
          now,     \* the database's clock
          stage,   \* where the client that pages through the trades stands
          cursor,  \* its next before_trade_id, NoId for the first page
          page,    \* the trades of the page in hand, as listed
          stats,   \* the statistics of the page in hand
          got,     \* identifiers of the trades of the pages before, in order
          begun    \* what was there when the client began

feedVars == <<fills, nextId, tx, now>>
clientVars == <<stage, cursor, page, stats, got, begun>>
vars == <<feedVars, clientVars>>

Fill == [id: Nat, at: Nat, price: Price, size: {1}]
NoTx == [open |-> FALSE, at |-> 0, row |-> {}]
NoStats == [last |-> NoId, high |-> 0, low |-> 0, volume |-> 0]

TypeOK ==
    /\ fills \subseteq Fill
    /\ nextId \in 1..MaxTrades + 1
    /\ \A m \in Matcher : tx[m].at \in 0..now /\ tx[m].row \subseteq Fill
    /\ now \in 0..MaxTime
    /\ stage \in {"ready", "listed", "done"}
    /\ cursor \in Nat
    /\ ToSet(page) \subseteq Fill /\ Len(page) <= Limit
    /\ stats \in [last: Nat, high: Nat, low: Nat, volume: Nat]
    /\ ToSet(got) \subseteq Nat
    /\ begun \subseteq Fill

Init ==
    /\ fills = {} /\ nextId = 1 /\ now = 0
    /\ tx = [m \in Matcher |-> NoTx]
    /\ stage = "done" /\ cursor = NoId /\ page = <<>> /\ stats = NoStats
    /\ got = <<>> /\ begun = {}

-----------------------------------------------------------------------------
(* FinalizeMatchWithPrice, as far as trade_fills is concerned *)

BeginFinalize(m) ==
    /\ ~tx[m].open
    /\ tx' = [tx EXCEPT ![m] = [open |-> TRUE, at |-> now, row |-> {}]]
    /\ UNCHANGED <<fills, nextId, now, clientVars>>

\* insertTradeFill.
InsertTradeFill(m, price) ==
    /\ tx[m].open /\ tx[m].row = {}
    /\ nextId <= MaxTrades
    /\ tx' = [tx EXCEPT ![m].row = {[id |-> nextId, at |-> tx[m].at, price |-> price,
                                     size |-> 1]}]
    /\ nextId' = nextId + 1
    /\ UNCHANGED <<fills, now, clientVars>>

CommitFill(m) ==
    /\ tx[m].row # {}
    /\ fills' = fills \union tx[m].row
    /\ tx' = [tx EXCEPT ![m] = NoTx]
    /\ UNCHANGED <<nextId, now, clientVars>>

\* applyFill refuses, a statement fails, or the process dies.
RollbackFill(m) ==
    /\ tx[m].open
    /\ tx' = [tx EXCEPT ![m] = NoTx]
    /\ UNCHANGED <<fills, nextId, now, clientVars>>

Advance ==
    /\ now < MaxTime
    /\ now' = now + 1
    /\ UNCHANGED <<fills, nextId, tx, clientVars>>

-----------------------------------------------------------------------------
(* Reading *)

\* "order by created_at desc, trade_id desc"
Newer(f, g) == f.at > g.at \/ (f.at = g.at /\ f.id > g.id)
NewestFirst(rows) ==
    CHOOSE s \in SetToSeqs(rows) : \A i, j \in DOMAIN s : i < j => Newer(s[i], s[j])

\* Mutant: the row of the cursor is listed again.
BeforeOrAt(c) == {f \in fills : c = NoId \/ f.id <= c}

\* "$3 = 0 or trade_id < $3"
Before(c) == {f \in fills : c = NoId \/ f.id < c}

\* Mutant: one more row is asked for, to know if there is one, and kept.
ListOneMore(c) ==
    LET rows == NewestFirst(Before(c))
    IN  SubSeq(rows, 1, Min({Limit + 1, Len(rows)}))

ListTrades(c) ==
    LET rows == NewestFirst(Before(c))
    IN  SubSeq(rows, 1, Min({Limit, Len(rows)}))

\* Mutant: the statistics are those of the time when the first page was asked for.
RecentWhenBegun == {f \in begun : f.at >= now - Window}

Recent == {f \in fills : f.at >= now - Window}

\* NextBeforeTradeID: a page that is not full is the last one.
NextBefore(items) == IF Len(items) = Limit THEN Last(items).id ELSE NoId

GetTradeStats24h ==
    IF Recent = {} THEN NoStats
    ELSE [last |-> (CHOOSE f \in Recent : \A g \in Recent \ {f} : Newer(f, g)).id,
          high |-> Max({f.price : f \in Recent}),
          low |-> Min({f.price : f \in Recent}),
          volume |-> MapThenSumSet(LAMBDA f : f.size, Recent)]

\* A client asks for the first page.
BeginPaging ==
    /\ stage = "done"
    /\ stage' = "ready"
    /\ cursor' = NoId /\ page' = <<>> /\ got' = <<>> /\ begun' = fills
    /\ UNCHANGED <<stats, feedVars>>

\* handleTrades reads the page ...
ListPage ==
    /\ stage = "ready"
    /\ stage' = "listed"
    /\ page' = ListTrades(cursor)
    /\ UNCHANGED <<cursor, stats, got, begun, feedVars>>

\* ... then the statistics, and answers; the client goes on with the cursor it
\* is given, until it is given none.
AnswerPage ==
    /\ stage = "listed"
    /\ stats' = GetTradeStats24h
    /\ got' = got \o [i \in DOMAIN page |-> page[i].id]
    /\ cursor' = NextBefore(page)
    /\ stage' = IF NextBefore(page) = NoId THEN "done" ELSE "ready"
    /\ UNCHANGED <<page, begun, feedVars>>

-----------------------------------------------------------------------------
MatcherStep(m) ==
    \/ BeginFinalize(m)
    \/ \E price \in Price : InsertTradeFill(m, price)
    \/ CommitFill(m)
    \/ RollbackFill(m)

Next ==
    \/ \E m \in Matcher : MatcherStep(m)
    \/ Advance
    \/ BeginPaging \/ ListPage \/ AnswerPage

Spec == Init /\ [][Next]_vars

-----------------------------------------------------------------------------
(* Properties *)

\* A client that has paged to the end has seen every trade that was there when
\* it began, none twice, and newest first, although trades were appended and
\* rolled back between its pages.  It takes a single matcher, whose
\* transactions follow each other: then order by time is order by identifier.
PagesComplete ==
    stage = "done" =>
        /\ \A f \in begun : f.id \in ToSet(got)
        /\ \A i, j \in DOMAIN got : i < j => got[i] > got[j]

\* The statistics are never behind the page they are sent with: no trade of it
\* that is in the window is newer than the last one, outside of the range, or
\* left out of the volume.
Shown == {f \in ToSet(page) : f.at >= now - Window}
StatsCoverPage ==
    [][AnswerPage =>
        /\ \A f \in Shown : stats'.low <= f.price /\ f.price <= stats'.high
        /\ Shown # {} => \E g \in Recent : g.id = stats'.last /\ \A f \in Shown : ~Newer(f, g)
        /\ stats'.volume >= MapThenSumSet(LAMBDA f : f.size, Shown)]_vars

=============================================================================
