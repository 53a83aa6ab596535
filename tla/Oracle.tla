------------------------------- MODULE Oracle -------------------------------
(***************************************************************************)
(* The BTCVAR30 oracle, internal/oracles/btcvar30, in each api process, and *)
(* the table oracle_btcvar30_history that the processes share and that      *)
(* outlives them.                                                           *)
(*                                                                          *)
(* A payload is what its timestamp and variance tell; symbol, source and    *)
(* methodology are constants and the signature is a function of the rest.   *)
(* Refresh is split where it waits: for Deribit, for the insert, and for    *)
(* the mutex under which the payload becomes visible.  Nothing in the code  *)
(* corresponds to the field heard (the time at which Deribit gave a candle) *)
(* and to the variable shown (the newest timestamp a process has made       *)
(* visible, kept across restarts): the properties speak of them.            *)
(***************************************************************************)
EXTENDS Integers, FiniteSets

CONSTANTS Api,         \* api processes
          Variance,    \* values of the index, already derived
          StaleAfter,  \* BTCVAR30_ORACLE_STALE_MS, in steps of the clock
          MaxTime,     \* bound on the clock, for TLC
          NoPayload    \* nothing read or published yet

Time == 0 .. MaxTime
Candle == [timestamp: Time, variance: Variance]
Payload == [timestamp: Time, variance: Variance, heard: Time]

ASSUME StaleAfterAssumption == StaleAfter \in Nat
ASSUME OracleTimeAssumption == MaxTime \in Nat
ASSUME NoPayloadAssumption == NoPayload \notin Payload

VARIABLES clock,        \* time of the processes and of Deribit
          candle,       \* Deribit's newest candle
          history,      \* oracle_btcvar30_history
          step,         \* where Run is in each process
          polledAt,     \* Refresh's now
          fetched,      \* the payload Refresh is about to store and publish
          latest,       \* Service.latest, or NoPayload while hasLatest is false
          lastSuccess,  \* Service.lastSuccessAt
          shown         \* newest timestamp ever visible in the process

sourceVars == <<clock, candle>>
oracleVars == <<clock, candle, history, step, polledAt, fetched, latest,
                lastSuccess, shown>>

Step == {"down", "hydrating", "idle", "asking", "storing", "publishing"}

OracleTypeOK ==
    /\ clock \in Time
    /\ candle \in Candle
    /\ history \subseteq Payload
    /\ step \in [Api -> Step]
    /\ polledAt \in [Api -> Time]
    /\ fetched \in [Api -> Payload \union {NoPayload}]
    /\ latest \in [Api -> Payload \union {NoPayload}]
    /\ lastSuccess \in [Api -> Time]
    /\ shown \in [Api -> Time]

OracleInit ==
    /\ clock = 0
    /\ candle \in Candle /\ candle.timestamp = 0
    /\ history = {}
    /\ step = [i \in Api |-> "down"]
    /\ polledAt = [i \in Api |-> 0]
    /\ fetched = [i \in Api |-> NoPayload]
    /\ latest = [i \in Api |-> NoPayload]
    /\ lastSuccess = [i \in Api |-> 0]
    /\ shown = [i \in Api |-> 0]

-----------------------------------------------------------------------------
\* insert ... on conflict (symbol, observed_at) do update
Upsert(p) == {q \in history : q.timestamp # p.timestamp} \union {p}

\* order by observed_at desc limit 1
NewestRow(p) == p \in history /\ \A q \in history : q.timestamp <= p.timestamp

HasLatest(i) == latest[i] # NoPayload

\* Service.Latest sets Stale from the time of the call; the time of the last
\* success is never zero here once there is a payload.
LatestStale(i) == clock - lastSuccess[i] > StaleAfter

\* Service.IsStale(at)
IsStale(i, at) == HasLatest(i) => at - lastSuccess[i] > StaleAfter

\* The assignments under Service.mu.
MakeVisible(i, p, at) ==
    /\ latest' = [latest EXCEPT ![i] = p]
    /\ lastSuccess' = [lastSuccess EXCEPT ![i] = at]
    /\ shown' = [shown EXCEPT ![i] = IF p.timestamp > @ THEN p.timestamp ELSE @]

\* Refresh returns and with it go its locals.
ReturnRefresh(i) ==
    /\ polledAt' = [polledAt EXCEPT ![i] = 0]
    /\ fetched' = [fetched EXCEPT ![i] = NoPayload]

Goto(i, from, to) == step[i] = from /\ step' = [step EXCEPT ![i] = to]

-----------------------------------------------------------------------------
\* Time passes; Deribit's newest candle moves while it is open and is then
\* followed by a later one, so its timestamp never goes back.
Advance ==
    /\ clock < MaxTime
    /\ clock' = clock + 1
    /\ UNCHANGED <<candle, history, step, polledAt, fetched, latest,
                   lastSuccess, shown>>

NewCandle ==
    /\ \E c \in Candle : /\ c.timestamp \in candle.timestamp .. clock
                         /\ candle' = c
    /\ UNCHANGED <<clock, history, step, polledAt, fetched, latest,
                   lastSuccess, shown>>

Start(i) ==
    /\ Goto(i, "down", "hydrating")
    /\ UNCHANGED <<clock, candle, history, polledAt, fetched, latest,
                   lastSuccess, shown>>

\* hydrateLatest: after a restart the last success is the payload's timestamp.
Hydrate(i) ==
    /\ Goto(i, "hydrating", "idle")
    /\ ~ HasLatest(i)
    /\ \E p \in history : NewestRow(p) /\ MakeVisible(i, p, p.timestamp)
    /\ UNCHANGED <<clock, candle, history, polledAt, fetched>>

\* hydrateLatest: no row, or the query fails; Run logs it and goes on.
HydrateFails(i) ==
    /\ Goto(i, "hydrating", "idle")
    /\ UNCHANGED <<clock, candle, history, polledAt, fetched, latest,
                   lastSuccess, shown>>

\* Refresh reads the time first; Run calls it at the start and at each tick.
BeginRefresh(i) ==
    /\ Goto(i, "idle", "asking")
    /\ polledAt' = [polledAt EXCEPT ![i] = clock]
    /\ UNCHANGED <<clock, candle, history, fetched, latest, lastSuccess, shown>>

\* Mutant: Refresh makes the payload visible before it is stored.
FetchAndShow(i) ==
    /\ Goto(i, "asking", "storing")
    /\ LET p == [timestamp |-> candle.timestamp, variance |-> candle.variance,
                 heard |-> clock]
       IN fetched' = [fetched EXCEPT ![i] = p] /\ MakeVisible(i, p, polledAt[i])
    /\ UNCHANGED <<clock, candle, history, polledAt>>

\* Deribit answers, at the first attempt or at a later one.
Fetch(i) ==
    /\ Goto(i, "asking", "storing")
    /\ fetched' = [fetched EXCEPT ![i] =
           [timestamp |-> candle.timestamp, variance |-> candle.variance,
            heard |-> clock]]
    /\ UNCHANGED <<clock, candle, history, polledAt, latest, lastSuccess, shown>>

\* All attempts fail, or the answer has no candles.
FetchFails(i) ==
    /\ Goto(i, "asking", "idle")
    /\ ReturnRefresh(i)
    /\ UNCHANGED <<clock, candle, history, latest, lastSuccess, shown>>

Insert(i) ==
    /\ Goto(i, "storing", "publishing")
    /\ history' = Upsert(fetched[i])
    /\ UNCHANGED <<clock, candle, polledAt, fetched, latest, lastSuccess, shown>>

\* The statement reports an error; it may have taken effect all the same.
InsertFails(i) ==
    /\ Goto(i, "storing", "idle")
    /\ history' \in {history, Upsert(fetched[i])}
    /\ ReturnRefresh(i)
    /\ UNCHANGED <<clock, candle, latest, lastSuccess, shown>>

\* Mutant: Refresh takes the time when the payload is ready.
PublishAtEnd(i) ==
    /\ Goto(i, "publishing", "idle")
    /\ MakeVisible(i, fetched[i], clock)
    /\ ReturnRefresh(i)
    /\ UNCHANGED <<clock, candle, history>>

Publish(i) ==
    /\ Goto(i, "publishing", "idle")
    /\ MakeVisible(i, fetched[i], polledAt[i])
    /\ ReturnRefresh(i)
    /\ UNCHANGED <<clock, candle, history>>

\* The process stops, at any point of Run.
Crash(i) ==
    /\ step[i] # "down"
    /\ step' = [step EXCEPT ![i] = "down"]
    /\ latest' = [latest EXCEPT ![i] = NoPayload]
    /\ lastSuccess' = [lastSuccess EXCEPT ![i] = 0]
    /\ ReturnRefresh(i)
    /\ UNCHANGED <<clock, candle, history, shown>>

OracleStep(i) ==
    \/ Start(i) \/ Hydrate(i) \/ HydrateFails(i) \/ BeginRefresh(i)
    \/ Fetch(i) \/ FetchFails(i) \/ Insert(i) \/ InsertFails(i) \/ Publish(i)

OracleNext == Advance \/ NewCandle \/ \E i \in Api : OracleStep(i) \/ Crash(i)

OracleSpec == OracleInit /\ [][OracleNext]_oracleVars

-----------------------------------------------------------------------------
\* What a process has once shown is never followed by an older observation,
\* not even after a restart that starts from the table: Refresh stores a
\* payload before it makes it visible, and hydrateLatest takes the newest row.
ServedNeverGoesBack ==
    \A i \in Api : HasLatest(i) => latest[i].timestamp >= shown[i]

\* What is reported as fresh was heard from Deribit within StaleAfter, however
\* the process came by it: by its own poll or, after a restart, from a row that
\* this or another process wrote.
FreshMeansHeardRecently ==
    \A i \in Api : HasLatest(i) /\ ~ LatestStale(i)
                      => clock - latest[i].heard <= StaleAfter
=============================================================================
