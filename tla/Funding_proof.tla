--------------------------- MODULE Funding_proof ---------------------------
(***************************************************************************)
(* The oracle and the funding loop, for any number of api processes, any    *)
(* prices and any StaleAfter.                                               *)
(***************************************************************************)
EXTENDS Funding, TLAPS

-----------------------------------------------------------------------------
(* The oracle. *)

\* No payload is newer than Deribit's candle or heard before its own time.
Honest(p) == /\ p.timestamp <= p.heard /\ p.heard <= clock
             /\ p.timestamp <= candle.timestamp

\* Some row is at least as new as t.
Stored(t) == \E p \in history : t <= p.timestamp

\* What Refresh holds is not older than what the process has shown.
RefreshInv(i) ==
    /\ polledAt[i] <= clock
    /\ (fetched[i] # NoPayload) <=> step[i] \in {"storing", "publishing"}
    /\ fetched[i] # NoPayload => /\ Honest(fetched[i])
                                 /\ shown[i] <= fetched[i].timestamp
                                 /\ polledAt[i] <= fetched[i].heard
    /\ step[i] = "publishing" => Stored(fetched[i].timestamp)

\* What the process has shown is stored, and its last success is no later
\* than the moment its payload was heard.
ShownInv(i) ==
    /\ shown[i] <= candle.timestamp
    /\ shown[i] = 0 \/ Stored(shown[i])
    /\ HasLatest(i) => /\ latest[i].timestamp >= shown[i]
                       /\ lastSuccess[i] <= latest[i].heard

OracleInv ==
    /\ OracleTypeOK
    /\ candle.timestamp <= clock
    /\ \A p \in history : Honest(p)
    /\ \A i \in Api : RefreshInv(i) /\ ShownInv(i)

LEMMA OracleInitInv == OracleInit => OracleInv
<1>1. 0 \in Time
  BY OracleTimeAssumption DEF Time
<1>2. QED
  BY <1>1 DEF OracleInit, OracleInv, OracleTypeOK, RefreshInv, ShownInv, HasLatest,
             Candle, Step, Time

\* Time and Deribit only go forward.
LEMMA SourceInv ==
    ASSUME OracleInv, Advance \/ NewCandle
    PROVE  OracleInv'
<1>1. OracleTypeOK'
  BY OracleTimeAssumption DEF OracleInv, OracleTypeOK, Advance, NewCandle, Time
<1>2. clock <= clock' /\ candle.timestamp <= candle'.timestamp
         /\ candle'.timestamp <= clock'
  BY OracleTimeAssumption
  DEF OracleInv, OracleTypeOK, Advance, NewCandle, Time, Candle
<1>3. /\ clock \in Int /\ clock' \in Int
      /\ candle.timestamp \in Int /\ candle'.timestamp \in Int
  BY <1>1 DEF OracleInv, OracleTypeOK, Time, Candle
<1>4. ASSUME NEW p \in Payload, Honest(p) PROVE Honest(p)'
  BY <1>2, <1>3, <1>4 DEF Honest, Payload, Time
<1>5. \A p \in history' : Honest(p)'
  BY <1>4 DEF OracleInv, OracleTypeOK, Advance, NewCandle
<1>6. ASSUME NEW i \in Api PROVE RefreshInv(i)' /\ ShownInv(i)'
  <2>1. UNCHANGED <<history, step, polledAt, fetched, latest, lastSuccess, shown>>
    BY DEF Advance, NewCandle
  <2>2. /\ polledAt[i] \in Int /\ shown[i] \in Int
        /\ fetched[i] # NoPayload => fetched[i] \in Payload
    BY DEF OracleInv, OracleTypeOK, Time
  <2>3. RefreshInv(i) /\ ShownInv(i)
    BY DEF OracleInv
  <2>4. RefreshInv(i)'
    <3>1. fetched[i] # NoPayload => Honest(fetched[i])'
      BY <1>4, <2>1, <2>2, <2>3 DEF RefreshInv, Honest
    <3>2. polledAt[i] <= clock'
      BY <1>2, <1>3, <2>2, <2>3 DEF RefreshInv
    <3>3. QED
      BY <2>1, <2>3, <3>1, <3>2 DEF RefreshInv, Honest, Stored
  <2>5. ShownInv(i)'
    BY <1>2, <1>3, <2>1, <2>2, <2>3 DEF ShownInv, Stored, HasLatest
  <2>6. QED
    BY <2>4, <2>5
<1>7. QED
  BY <1>1, <1>2, <1>5, <1>6 DEF OracleInv

\* A row is only ever replaced by one of the same timestamp.
LEMMA UpsertKeeps ==
    ASSUME OracleInv, NEW p \in Payload, history' = Upsert(p),
           NEW t \in Time, Stored(t)
    PROVE  Stored(t)'
<1>1. PICK q \in history : t <= q.timestamp
  BY DEF Stored
<1>2. CASE q.timestamp = p.timestamp
  BY <1>1, <1>2 DEF Upsert, Stored
<1>3. CASE q.timestamp # p.timestamp
  BY <1>1, <1>3 DEF Upsert, Stored
<1>4. QED
  BY <1>2, <1>3

LEMMA UpsertStores ==
    ASSUME NEW p \in Payload, history' = Upsert(p)
    PROVE  Stored(p.timestamp)'
<1>1. p.timestamp \in Int
  BY DEF Payload, Time
<1>2. QED
  BY <1>1 DEF Upsert, Stored

\* A step of one process keeps what is known of the others, as long as what
\* was stored stays stored.
LEMMA OthersKeep ==
    ASSUME OracleInv, NEW i \in Api, NEW j \in Api, i # j,
           UNCHANGED sourceVars,
           \A t \in Time : Stored(t) => Stored(t)',
           UNCHANGED <<step[j], polledAt[j], fetched[j], latest[j],
                       lastSuccess[j], shown[j]>>
    PROVE  RefreshInv(j)' /\ ShownInv(j)'
<1>1. RefreshInv(j) /\ ShownInv(j)
  BY DEF OracleInv
<1>2. /\ shown[j] \in Time
      /\ fetched[j] # NoPayload => fetched[j].timestamp \in Time
  BY DEF OracleInv, OracleTypeOK, Payload
<1>3. step[j] = "publishing" => fetched[j] # NoPayload
  BY <1>1 DEF RefreshInv
<1>4. RefreshInv(j)'
  <2>1. step[j] = "publishing" => Stored(fetched[j].timestamp)'
    BY <1>1, <1>2, <1>3 DEF RefreshInv
  <2>2. QED
    BY <1>1, <2>1 DEF RefreshInv, Honest, sourceVars, Stored
<1>5. ShownInv(j)'
  <2>1. shown[j] = 0 \/ Stored(shown[j])'
    BY <1>1, <1>2 DEF ShownInv
  <2>2. QED
    BY <1>1, <2>1 DEF ShownInv, HasLatest, sourceVars, Stored
<1>6. QED
  BY <1>4, <1>5

\* Actions that do not touch the table.
LEMMA TableUnchanged ==
    ASSUME UNCHANGED history
    PROVE  \A t \in Time : Stored(t) => Stored(t)'
BY DEF Stored

\* Start, BeginRefresh, Hydrate without a payload, a failed request and a
\* crash leave nothing behind that the invariant forbids.
LEMMA QuietStepInv ==
    ASSUME OracleInv, NEW i \in Api,
           Start(i) \/ HydrateFails(i) \/ BeginRefresh(i) \/ FetchFails(i) \/ Crash(i)
    PROVE  OracleInv'
<1>1. OracleTypeOK'
  BY OracleTimeAssumption
  DEF OracleInv, OracleTypeOK, Start, HydrateFails, BeginRefresh, FetchFails,
      Crash, ReturnRefresh, Goto, Time, Step
<1>2. UNCHANGED <<clock, candle, history, shown>>
  BY DEF Start, HydrateFails, BeginRefresh, FetchFails, Crash
<1>3. RefreshInv(i)'
  BY <1>1, <1>2, NoPayloadAssumption
  DEF OracleInv, OracleTypeOK, RefreshInv, Honest, Stored, Start, HydrateFails,
      BeginRefresh, FetchFails, Crash, ReturnRefresh, Goto, Time
<1>4. ShownInv(i)'
  BY <1>2 DEF OracleInv, OracleTypeOK, ShownInv, HasLatest, Stored, Start,
              HydrateFails, BeginRefresh, FetchFails, Crash
<1>5. ASSUME NEW j \in Api, j # i PROVE RefreshInv(j)' /\ ShownInv(j)'
  <2>1. UNCHANGED <<step[j], polledAt[j], fetched[j], latest[j],
                    lastSuccess[j], shown[j]>>
    BY <1>5 DEF OracleInv, OracleTypeOK, Start, HydrateFails, BeginRefresh,
                FetchFails, Crash, ReturnRefresh, Goto
  <2>2. QED
    BY <1>2, <1>5, <2>1, TableUnchanged, OthersKeep DEF sourceVars
<1>6. QED
  BY <1>1, <1>2, <1>3, <1>4, <1>5 DEF OracleInv, Honest

LEMMA FetchInv ==
    ASSUME OracleInv, NEW i \in Api, Fetch(i)
    PROVE  OracleInv'
<1> DEFINE p == [timestamp |-> candle.timestamp, variance |-> candle.variance,
                 heard |-> clock]
<1>1. p \in Payload /\ p # NoPayload
  BY NoPayloadAssumption DEF OracleInv, OracleTypeOK, Candle, Payload
<1>2. fetched' = [fetched EXCEPT ![i] = p]
  BY DEF Fetch
<1>3. OracleTypeOK'
  BY <1>1 DEF OracleInv, OracleTypeOK, Fetch, Goto, Step
<1>4. UNCHANGED <<clock, candle, history, polledAt, latest, lastSuccess, shown>>
  BY DEF Fetch
<1>5. RefreshInv(i)'
  <2>1. fetched'[i] = p /\ step'[i] = "storing"
    BY <1>2 DEF OracleInv, OracleTypeOK, Fetch, Goto
  <2>2. Honest(p)
    BY DEF OracleInv, OracleTypeOK, Honest, Candle, Time
  <2>3. shown[i] <= p.timestamp /\ polledAt[i] <= p.heard
    BY DEF OracleInv, RefreshInv, ShownInv
  <2>4. QED
    BY <1>1, <1>4, <2>1, <2>2, <2>3 DEF RefreshInv, Honest, OracleInv
<1>6. ShownInv(i)'
  BY <1>4 DEF OracleInv, ShownInv, HasLatest, Stored
<1>7. ASSUME NEW j \in Api, j # i PROVE RefreshInv(j)' /\ ShownInv(j)'
  <2>1. UNCHANGED <<step[j], polledAt[j], fetched[j], latest[j],
                    lastSuccess[j], shown[j]>>
    BY <1>2, <1>7 DEF OracleInv, OracleTypeOK, Fetch, Goto
  <2>2. QED
    BY <1>4, <1>7, <2>1, TableUnchanged, OthersKeep DEF sourceVars
<1>8. QED
  BY <1>3, <1>4, <1>5, <1>6, <1>7 DEF OracleInv, Honest

\* The insert, successful or not, leaves the other rows in place.
LEMMA InsertInv ==
    ASSUME OracleInv, NEW i \in Api, Insert(i) \/ InsertFails(i)
    PROVE  OracleInv'
<1>1. /\ step[i] = "storing"
      /\ UNCHANGED <<clock, candle, latest, lastSuccess, shown>>
      /\ history' = history \/ history' = Upsert(fetched[i])
  BY DEF Insert, InsertFails, Goto
<1>2. /\ fetched[i] \in Payload /\ fetched[i] # NoPayload
      /\ Honest(fetched[i])
  BY <1>1, NoPayloadAssumption DEF OracleInv, OracleTypeOK, RefreshInv
<1>3. OracleTypeOK'
  BY <1>1, <1>2, OracleTimeAssumption
  DEF OracleInv, OracleTypeOK, Insert, InsertFails, ReturnRefresh, Goto, Upsert,
      Step, Time
<1>4. \A t \in Time : Stored(t) => Stored(t)'
  BY <1>1, <1>2, UpsertKeeps, TableUnchanged
<1>5. \A p \in history' : Honest(p)'
  BY <1>1, <1>2 DEF OracleInv, Upsert, Honest
<1>6. RefreshInv(i)'
  <2>1. CASE Insert(i)
    <3>1. /\ UNCHANGED <<polledAt, fetched>>
          /\ step'[i] = "publishing"
          /\ history' = Upsert(fetched[i])
      BY <2>1 DEF Insert, Goto, OracleInv, OracleTypeOK
    <3>2. Stored(fetched[i].timestamp)'
      BY <1>2, <3>1, UpsertStores DEF Stored
    <3>3. QED
      BY <1>1, <1>2, <3>1, <3>2 DEF OracleInv, RefreshInv, Honest, Stored
  <2>2. CASE InsertFails(i)
    <3>1. /\ polledAt'[i] = 0 /\ fetched'[i] = NoPayload /\ step'[i] = "idle"
      BY <2>2 DEF InsertFails, ReturnRefresh, Goto, OracleInv, OracleTypeOK
    <3>2. QED
      BY <1>1, <3>1 DEF OracleInv, OracleTypeOK, RefreshInv, Time
  <2>3. QED
    BY <2>1, <2>2
<1>7. ShownInv(i)'
  <2>1. shown[i] \in Time /\ ShownInv(i)
    BY DEF OracleInv, OracleTypeOK
  <2>2. UNCHANGED <<candle, latest, lastSuccess, shown>>
    BY <1>1
  <2>3. shown[i] = 0 \/ Stored(shown[i])'
    BY <1>4, <2>1, <2>2 DEF ShownInv
  <2>4. QED
    BY <2>1, <2>2, <2>3 DEF ShownInv, HasLatest, Stored
<1>8. ASSUME NEW j \in Api, j # i PROVE RefreshInv(j)' /\ ShownInv(j)'
  <2>1. UNCHANGED <<step[j], polledAt[j], fetched[j], latest[j],
                    lastSuccess[j], shown[j]>>
    BY <1>8 DEF OracleInv, OracleTypeOK, Insert, InsertFails, ReturnRefresh, Goto
  <2>2. QED
    BY <1>1, <1>4, <1>8, <2>1, OthersKeep DEF sourceVars
<1>9. QED
  BY <1>1, <1>3, <1>5, <1>6, <1>7, <1>8 DEF OracleInv

\* What becomes visible is stored and not older than anything shown before:
\* Publish because Refresh stored it, Hydrate because it took the newest row.
LEMMA VisibleInv ==
    ASSUME OracleInv, NEW i \in Api, Hydrate(i) \/ Publish(i)
    PROVE  OracleInv'
<1>1. UNCHANGED <<clock, candle, history>>
  BY DEF Hydrate, Publish
<1>2. PICK p \in Payload, at \in Time :
          /\ MakeVisible(i, p, at)
          /\ Honest(p) /\ at <= p.heard
          /\ shown[i] <= p.timestamp /\ Stored(p.timestamp)
  <2>1. CASE Hydrate(i)
    <3>1. PICK p \in history : NewestRow(p) /\ MakeVisible(i, p, p.timestamp)
      BY <2>1 DEF Hydrate
    <3>2. p \in Payload /\ p.timestamp \in Time /\ Honest(p)
      BY DEF OracleInv, OracleTypeOK, Payload
    <3>3. p.timestamp <= p.heard /\ Stored(p.timestamp)
      BY <3>2 DEF Honest, Stored, Time
    <3>4. shown[i] <= p.timestamp
      <4>1. CASE shown[i] = 0
        BY <3>2, <4>1 DEF Time
      <4>2. CASE Stored(shown[i])
        <5>1. PICK q \in history : shown[i] <= q.timestamp
          BY <4>2 DEF Stored
        <5>2. q.timestamp <= p.timestamp /\ q.timestamp \in Time /\ shown[i] \in Time
          BY <3>1 DEF NewestRow, OracleInv, OracleTypeOK, Payload
        <5>3. QED
          BY <3>2, <5>1, <5>2 DEF Time
      <4>3. QED
        BY <4>1, <4>2 DEF OracleInv, ShownInv
    <3>5. QED
      BY <3>1, <3>2, <3>3, <3>4
  <2>2. CASE Publish(i)
    <3>1. step[i] = "publishing" /\ MakeVisible(i, fetched[i], polledAt[i])
      BY <2>2 DEF Publish, Goto
    <3>2. RefreshInv(i) /\ fetched[i] # NoPayload
      BY <3>1 DEF OracleInv, RefreshInv
    <3>3. fetched[i] \in Payload /\ polledAt[i] \in Time
      BY <3>2 DEF OracleInv, OracleTypeOK
    <3>4. QED
      BY <3>1, <3>2, <3>3 DEF RefreshInv
  <2>3. QED
    BY <2>1, <2>2
<1>3. p # NoPayload /\ p.timestamp \in Time
  BY NoPayloadAssumption DEF Payload
<1>4. /\ latest' = [latest EXCEPT ![i] = p]
      /\ lastSuccess' = [lastSuccess EXCEPT ![i] = at]
      /\ shown' = [shown EXCEPT ![i] = p.timestamp]
  <2>1. shown[i] \in Int /\ p.timestamp \in Int
    BY <1>3 DEF OracleInv, OracleTypeOK, Time
  <2>2. (IF p.timestamp > shown[i] THEN p.timestamp ELSE shown[i]) = p.timestamp
    BY <1>2, <2>1
  <2>3. QED
    BY <1>2, <2>2 DEF MakeVisible
<1>5. OracleTypeOK'
  BY <1>3, <1>4, OracleTimeAssumption
  DEF OracleInv, OracleTypeOK, Hydrate, Publish, ReturnRefresh, Goto, Step, Time
<1>6. RefreshInv(i)'
  <2>1. step'[i] = "idle" /\ fetched'[i] = NoPayload /\ polledAt'[i] <= clock
    BY DEF OracleInv, OracleTypeOK, RefreshInv, Hydrate, Publish, ReturnRefresh,
           Goto, Time
  <2>2. QED
    BY <1>1, <2>1 DEF RefreshInv
<1>7. ShownInv(i)'
  <2>1. latest'[i] = p /\ lastSuccess'[i] = at /\ shown'[i] = p.timestamp
    BY <1>4 DEF OracleInv, OracleTypeOK
  <2>2. Stored(shown'[i])
    BY <1>2, <2>1
  <2>3. QED
    BY <1>1, <1>2, <1>3, <2>1, <2>2 DEF ShownInv, HasLatest, Stored, Honest, Time
<1>8. ASSUME NEW j \in Api, j # i PROVE RefreshInv(j)' /\ ShownInv(j)'
  <2>1. UNCHANGED <<step[j], polledAt[j], fetched[j], latest[j],
                    lastSuccess[j], shown[j]>>
    BY <1>4, <1>8 DEF OracleInv, OracleTypeOK, Hydrate, Publish, ReturnRefresh, Goto
  <2>2. QED
    BY <1>1, <1>8, <2>1, TableUnchanged, OthersKeep DEF sourceVars
<1>9. QED
  BY <1>1, <1>5, <1>6, <1>7, <1>8 DEF OracleInv, Honest

LEMMA OracleStepInv == OracleInv /\ [OracleNext]_oracleVars => OracleInv'
<1>1. CASE Advance \/ NewCandle
  BY <1>1, SourceInv
<1>2. ASSUME NEW i \in Api, OracleStep(i) \/ Crash(i), OracleInv PROVE OracleInv'
  BY <1>2, QuietStepInv, FetchInv, InsertInv, VisibleInv DEF OracleStep
<1>3. CASE UNCHANGED oracleVars
  BY <1>3 DEF oracleVars, OracleInv, OracleTypeOK, RefreshInv, ShownInv, Honest,
              Stored, HasLatest
<1>4. QED
  BY <1>1, <1>2, <1>3 DEF OracleNext

LEMMA OracleInvHolds == OracleSpec => []OracleInv
BY OracleInitInv, OracleStepInv, PTL DEF OracleSpec

\* A process never follows what it has shown with an older observation, across
\* restarts and whatever other processes write: Refresh stores, then shows.
THEOREM NeverOlder == OracleSpec => []ServedNeverGoesBack
<1>1. OracleInv => ServedNeverGoesBack
  BY DEF OracleInv, ShownInv, ServedNeverGoesBack
<1>2. QED
  BY <1>1, OracleInvHolds, PTL

\* Latest calls a payload fresh only within StaleAfter of hearing it.
THEOREM FreshIsRecent == OracleSpec => []FreshMeansHeardRecently
<1>1. OracleInv => FreshMeansHeardRecently
  <2>1. SUFFICES ASSUME OracleInv, NEW i \in Api, HasLatest(i), ~ LatestStale(i)
                 PROVE  clock - latest[i].heard <= StaleAfter
    BY DEF FreshMeansHeardRecently
  <2>2. /\ lastSuccess[i] <= latest[i].heard
        /\ lastSuccess[i] \in Int /\ clock \in Int /\ latest[i].heard \in Int
    BY <2>1 DEF OracleInv, OracleTypeOK, ShownInv, HasLatest, Payload, Time
  <2>3. QED
    BY <2>1, <2>2, StaleAfterAssumption DEF LatestStale
<1>2. QED
  BY <1>1, OracleInvHolds, PTL

-----------------------------------------------------------------------------
(* The funding loop. *)

LEMMA RateInCap ==
    ASSUME NEW mark \in Int, NEW variance \in Int
    PROVE  FundingRate(mark, variance) \in -Cap .. Cap
<1> DEFINE x == (mark - 2 * variance) * Coefficient
<1>1. x \in Int
  BY FundingAssumption
<1> HIDE DEF x
<1>2. Clamp(x, -Cap, Cap) \in -Cap .. Cap
  BY <1>1, FundingAssumption DEF Clamp
<1>3. QED
  BY <1>2 DEF FundingRate, x

LEMMA MarkIsInt ==
    ASSUME NEW bid \in Price \union {NoPrice}, NEW ask \in Price \union {NoPrice},
           ~ (bid = NoPrice /\ ask = NoPrice)
    PROVE  MarkPrice(bid, ask) \in Int
<1>1. (bid # NoPrice => bid \in Int) /\ (ask # NoPrice => ask \in Int)
  BY FundingAssumption
<1>2. CASE bid = NoPrice
  BY <1>1, <1>2 DEF MarkPrice
<1>3. CASE bid # NoPrice /\ ask = NoPrice
  BY <1>1, <1>3 DEF MarkPrice
<1>4. CASE bid # NoPrice /\ ask # NoPrice
  BY <1>1, <1>4 DEF MarkPrice
<1>5. QED
  BY <1>2, <1>3, <1>4

\* Until the snapshot is stored: the payload in hand was fresh, at the time
\* the snapshot will carry, unless Latest said otherwise; and the loop only
\* goes on to the book if it did not.
ReadInv(i) ==
    /\ startedAt[i] <= clock
    /\ fundingStep[i] \in {"checking", "marking"} =>
           /\ read[i] # NoPayload
           /\ readStale[i] \/ startedAt[i] - read[i].heard <= StaleAfter
    /\ fundingStep[i] = "marking" => ~ readStale[i]

SnapshotFresh(i) ==
    snapshot[i] # NoSnapshot =>
        snapshot[i].paused \/ snapshot[i].at - snapshot[i].payload.heard <= StaleAfter

FundingInv == TypeOK /\ OracleInv /\ \A i \in Api : ReadInv(i) /\ SnapshotFresh(i)

LEMMA FundingInitInv == Init => FundingInv
<1>1. SUFFICES ASSUME Init PROVE FundingInv
  OBVIOUS
<1>2. OracleInv
  BY <1>1, OracleInitInv DEF Init
<1>3. 0 \in Time /\ clock = 0
  BY <1>1, OracleTimeAssumption DEF Time, Init, OracleInit
<1>4. TypeOK
  BY <1>1, <1>2, <1>3 DEF Init, TypeOK, OracleInv
<1>5. QED
  BY <1>1, <1>2, <1>3, <1>4 DEF Init, FundingInv, ReadInv, SnapshotFresh

\* The oracle and the clock leave the loop's variables alone.
LEMMA BesideFunding ==
    ASSUME FundingInv, OracleInv', UNCHANGED fundingVars, clock <= clock'
    PROVE  FundingInv'
<1>1. TypeOK'
  BY DEF FundingInv, TypeOK, OracleInv, fundingVars
<1>2. ASSUME NEW i \in Api PROVE ReadInv(i)' /\ SnapshotFresh(i)'
  <2>1. startedAt[i] \in Int /\ clock \in Int /\ clock' \in Int
    BY <1>1 DEF FundingInv, TypeOK, OracleTypeOK, Time, fundingVars
  <2>2. QED
    BY <2>1 DEF FundingInv, ReadInv, SnapshotFresh, fundingVars
<1>3. QED
  BY <1>1, <1>2 DEF FundingInv

LEMMA StoreTypes ==
    ASSUME TypeOK, NEW i \in Api, NEW paused \in BOOLEAN,
           NEW payload \in Payload \union {NoPayload}, NEW rate \in -Cap .. Cap,
           Store(i, paused, payload, rate)
    PROVE  snapshot' \in [Api -> Snapshot \union {NoSnapshot}]
<1>1. [at |-> startedAt[i], paused |-> paused, payload |-> payload, rate |-> rate]
         \in Snapshot
  BY DEF TypeOK, Snapshot
<1>2. QED
  BY <1>1 DEF Store, TypeOK

LEMMA FundingLoopTypes ==
    ASSUME FundingInv, NEW i \in Api, FundingLoop(i)
    PROVE  TypeOK'
<1>1. UNCHANGED oracleVars
  BY DEF FundingLoop, BeginFunding, PauseUnavailable, ReadOracle, PauseStale,
         JudgeFresh, PauseNoMark, SetFunding
<1>2. OracleTypeOK' /\ clock \in Time /\ 0 \in Time
  BY <1>1, OracleTimeAssumption
  DEF FundingInv, TypeOK, OracleTypeOK, oracleVars, Time
<1>3. 0 \in -Cap .. Cap
  BY FundingAssumption
<1>4. read[i] \in Payload \union {NoPayload}
  BY DEF FundingInv, TypeOK
<1>5. fundingStep' \in [Api -> {"idle", "reading", "checking", "marking"}]
  BY DEF FundingInv, TypeOK, FundingLoop, BeginFunding, PauseUnavailable,
         ReadOracle, PauseStale, JudgeFresh, PauseNoMark, SetFunding, GotoFunding
<1>6. /\ startedAt' \in [Api -> Time]
      /\ read' \in [Api -> Payload \union {NoPayload}]
      /\ readStale' \in [Api -> BOOLEAN]
  <2>1. CASE BeginFunding(i)
    BY <1>2, <2>1 DEF FundingInv, TypeOK, BeginFunding
  <2>2. CASE ReadOracle(i)
    <3>1. latest[i] \in Payload \union {NoPayload}
      BY DEF FundingInv, TypeOK, OracleTypeOK
    <3>2. LatestStale(i) \in BOOLEAN
      BY DEF LatestStale
    <3>3. QED
      BY <2>2, <3>1, <3>2 DEF FundingInv, TypeOK, ReadOracle
  <2>3. CASE JudgeFresh(i)
    BY <2>3 DEF FundingInv, TypeOK, JudgeFresh
  <2>4. CASE PauseUnavailable(i) \/ PauseStale(i) \/ PauseNoMark(i) \/ SetFunding(i)
    <3>1. ReturnFunding(i)
      BY <2>4 DEF PauseUnavailable, PauseStale, PauseNoMark, SetFunding, Store
    <3>2. QED
      BY <1>2, <3>1 DEF FundingInv, TypeOK, ReturnFunding
  <2>5. QED
    BY <2>1, <2>2, <2>3, <2>4 DEF FundingLoop
<1>7. snapshot' \in [Api -> Snapshot \union {NoSnapshot}]
  <2>1. CASE BeginFunding(i) \/ ReadOracle(i) \/ JudgeFresh(i)
    BY <2>1 DEF FundingInv, TypeOK, BeginFunding, ReadOracle, JudgeFresh
  <2>2. CASE PauseUnavailable(i)
    BY <2>2, <1>3, StoreTypes DEF PauseUnavailable, FundingInv
  <2>3. CASE PauseStale(i) \/ PauseNoMark(i)
    BY <2>3, <1>3, <1>4, StoreTypes DEF PauseStale, PauseNoMark, FundingInv
  <2>4. CASE SetFunding(i)
    <3>1. read[i] \in Payload
      BY <2>4, <1>4 DEF SetFunding, GotoFunding, FundingInv, ReadInv
    <3>2. read[i].variance \in Int
      <4>1. read[i].variance \in Variance
        BY <3>1 DEF Payload
      <4>2. read[i].variance \in Nat
        BY <4>1, VarianceAssumption, Zenon
      <4>3. QED
        BY <4>2
    <3>3. PICK bid, ask \in Price \union {NoPrice} :
              /\ ~ (bid = NoPrice /\ ask = NoPrice)
              /\ Store(i, FALSE, read[i],
                       FundingRate(MarkPrice(bid, ask), read[i].variance))
      BY <2>4 DEF SetFunding
    <3>4. FundingRate(MarkPrice(bid, ask), read[i].variance) \in -Cap .. Cap
      BY <3>2, <3>3, MarkIsInt, RateInCap
    <3>5. QED
      BY <1>4, <3>3, <3>4, StoreTypes DEF FundingInv
  <2>5. QED
    BY <2>1, <2>2, <2>3, <2>4 DEF FundingLoop
<1>8. QED
  BY <1>2, <1>5, <1>6, <1>7 DEF TypeOK

\* The loop's own steps: what Latest called fresh was heard within StaleAfter
\* of the time of the call, hence of the earlier time the snapshot carries.
LEMMA FundingLoopReads ==
    ASSUME FundingInv, TypeOK', NEW i \in Api, FundingLoop(i)
    PROVE  ReadInv(i)' /\ SnapshotFresh(i)'
<1>1. /\ UNCHANGED oracleVars
      /\ ReadInv(i) /\ SnapshotFresh(i)
      /\ startedAt[i] \in Int /\ clock \in Int /\ 0 <= clock
  <2>1. UNCHANGED oracleVars
    BY DEF FundingLoop, BeginFunding, PauseUnavailable, ReadOracle, PauseStale,
           JudgeFresh, PauseNoMark, SetFunding
  <2>2. startedAt[i] \in Time /\ clock \in Time
    BY DEF FundingInv, TypeOK, OracleTypeOK
  <2>3. startedAt[i] \in Int /\ clock \in Int /\ 0 <= clock
    BY <2>2, OracleTimeAssumption DEF Time
  <2>4. QED
    BY <2>1, <2>3 DEF FundingInv
<1>2. CASE BeginFunding(i)
  BY <1>1, <1>2 DEF FundingInv, TypeOK, BeginFunding, GotoFunding, ReadInv,
                    SnapshotFresh, oracleVars
<1>3. CASE ReadOracle(i)
  <2>1. /\ fundingStep'[i] = "checking"
        /\ read'[i] = latest[i] /\ readStale'[i] = LatestStale(i)
        /\ latest[i] # NoPayload
        /\ UNCHANGED <<startedAt, snapshot, clock>>
    BY <1>1, <1>3 DEF FundingInv, TypeOK, ReadOracle, GotoFunding, HasLatest, oracleVars
  <2>2. /\ lastSuccess[i] <= latest[i].heard
        /\ lastSuccess[i] \in Int /\ latest[i].heard \in Int
    BY <2>1 DEF FundingInv, OracleInv, OracleTypeOK, ShownInv, HasLatest, Payload, Time
  <2>3. LatestStale(i) \/ startedAt[i] - latest[i].heard <= StaleAfter
    BY <1>1, <2>2, StaleAfterAssumption DEF LatestStale, ReadInv
  <2>4. QED
    BY <1>1, <2>1, <2>3 DEF ReadInv, SnapshotFresh
<1>4. CASE JudgeFresh(i)
  BY <1>1, <1>4 DEF FundingInv, TypeOK, JudgeFresh, JudgedStale, GotoFunding,
                    ReadInv, SnapshotFresh, oracleVars
<1>5. CASE PauseUnavailable(i) \/ PauseStale(i) \/ PauseNoMark(i)
  <2>1. PICK payload : Store(i, TRUE, payload, 0)
    BY <1>5 DEF PauseUnavailable, PauseStale, PauseNoMark
  <2>2. snapshot'[i].paused /\ fundingStep'[i] = "idle" /\ startedAt'[i] = 0
    BY <1>5, <2>1 DEF FundingInv, TypeOK, Store, ReturnFunding, PauseUnavailable,
                      PauseStale, PauseNoMark, GotoFunding
  <2>3. QED
    BY <1>1, <2>2 DEF ReadInv, SnapshotFresh, oracleVars
<1>6. CASE SetFunding(i)
  <2>1. PICK rate : Store(i, FALSE, read[i], rate)
    BY <1>6 DEF SetFunding
  <2>2. /\ snapshot'[i].at = startedAt[i] /\ snapshot'[i].payload = read[i]
        /\ fundingStep'[i] = "idle" /\ startedAt'[i] = 0
    BY <1>6, <2>1 DEF FundingInv, TypeOK, Store, ReturnFunding, SetFunding, GotoFunding
  <2>3. startedAt[i] - read[i].heard <= StaleAfter
    BY <1>1, <1>6 DEF SetFunding, GotoFunding, ReadInv
  <2>4. QED
    BY <1>1, <2>2, <2>3 DEF ReadInv, SnapshotFresh, oracleVars
<1>7. QED
  BY <1>2, <1>3, <1>4, <1>5, <1>6 DEF FundingLoop

\* Another process's loop, or its end, is none of this one's business.
LEMMA OthersFunding ==
    ASSUME FundingInv, NEW i \in Api, NEW j \in Api, i # j,
           FundingLoop(i) \/ CrashApi(i)
    PROVE  ReadInv(j)' /\ SnapshotFresh(j)'
<1>1. UNCHANGED clock
  BY DEF FundingLoop, BeginFunding, PauseUnavailable, ReadOracle, PauseStale,
         JudgeFresh, PauseNoMark, SetFunding, CrashApi, Crash, oracleVars
<1>2. UNCHANGED <<fundingStep[j], startedAt[j], read[j], readStale[j], snapshot[j]>>
  BY DEF FundingInv, TypeOK, FundingLoop, BeginFunding, PauseUnavailable, ReadOracle,
         PauseStale, JudgeFresh, PauseNoMark, SetFunding, CrashApi, GotoFunding,
         Store, ReturnFunding
<1>3. QED
  BY <1>1, <1>2 DEF FundingInv, ReadInv, SnapshotFresh

LEMMA CrashApiInv ==
    ASSUME FundingInv, OracleInv', NEW i \in Api, CrashApi(i)
    PROVE  FundingInv'
<1>1. TypeOK'
  BY OracleTimeAssumption
  DEF FundingInv, OracleInv, TypeOK, CrashApi, ReturnFunding, Time
<1>2. /\ fundingStep'[i] = "idle" /\ startedAt'[i] = 0
      /\ snapshot'[i] = NoSnapshot /\ 0 <= clock'
  BY <1>1 DEF FundingInv, TypeOK, OracleTypeOK, CrashApi, ReturnFunding, Time
<1>3. ReadInv(i)' /\ SnapshotFresh(i)'
  BY <1>2 DEF ReadInv, SnapshotFresh
<1>4. QED
  BY <1>1, <1>3, OthersFunding DEF FundingInv

\* Every step of the program is a step of the oracle or leaves it alone.
LEMMA FundingRunsOracle == [Next]_vars => [OracleNext]_oracleVars
BY DEF Next, vars, OracleNext, CrashApi, FundingLoop, BeginFunding,
       PauseUnavailable, ReadOracle, PauseStale, JudgeFresh, PauseNoMark, SetFunding

LEMMA FundingStepInv == FundingInv /\ [Next]_vars => FundingInv'
<1>1. SUFFICES ASSUME FundingInv, [Next]_vars PROVE FundingInv'
  OBVIOUS
<1>2. OracleInv'
  BY <1>1, FundingRunsOracle, OracleStepInv DEF FundingInv
<1>3. CASE (Advance \/ NewCandle) /\ UNCHANGED fundingVars
  <2>1. clock <= clock'
    BY <1>1, <1>3 DEF FundingInv, TypeOK, OracleTypeOK, Time, Advance, NewCandle
  <2>2. QED
    BY <1>1, <1>2, <1>3, <2>1, BesideFunding
<1>4. ASSUME NEW i \in Api, OracleStep(i), UNCHANGED fundingVars PROVE FundingInv'
  <2>1. clock' = clock
    BY <1>4 DEF OracleStep, Start, Hydrate, HydrateFails, BeginRefresh, Fetch,
                FetchFails, Insert, InsertFails, Publish
  <2>2. clock <= clock'
    BY <1>1, <2>1 DEF FundingInv, TypeOK, OracleTypeOK, Time
  <2>3. QED
    BY <1>1, <1>2, <1>4, <2>2, BesideFunding
<1>5. ASSUME NEW i \in Api, FundingLoop(i) PROVE FundingInv'
  <2>1. TypeOK'
    BY <1>1, <1>5, FundingLoopTypes
  <2>2. QED
    BY <1>1, <1>2, <1>5, <2>1, FundingLoopReads, OthersFunding DEF FundingInv
<1>6. ASSUME NEW i \in Api, CrashApi(i) PROVE FundingInv'
  BY <1>1, <1>2, <1>6, CrashApiInv
<1>7. CASE UNCHANGED vars
  <2>1. clock <= clock' /\ UNCHANGED fundingVars
    BY <1>1, <1>7 DEF vars, oracleVars, FundingInv, TypeOK, OracleTypeOK, Time
  <2>2. QED
    BY <1>1, <1>2, <2>1, BesideFunding
<1>8. QED
  BY <1>1, <1>3, <1>4, <1>5, <1>6, <1>7 DEF Next

LEMMA FundingInvHolds == Spec => []FundingInv
BY FundingInitInv, FundingStepInv, PTL DEF Spec

\* Types, and no rate beyond the cap in either direction.
THEOREM FundingTypeCorrect == Spec => []TypeOK
<1>1. FundingInv => TypeOK
  BY DEF FundingInv
<1>2. QED
  BY <1>1, FundingInvHolds, PTL

\* No rate is in force that was computed from an observation which was stale
\* at the snapshot's time, whatever the oracle does between refresh's reads.
THEOREM FundingUsesFreshOracle == Spec => []FundingFromFreshOracle
<1>1. FundingInv => FundingFromFreshOracle
  BY DEF FundingInv, SnapshotFresh, FundingFromFreshOracle
<1>2. QED
  BY <1>1, FundingInvHolds, PTL

\* With the funding loop in its process (cmd/api) the oracle behaves as it does
\* alone: what is proved of OracleSpec holds of the whole process, in which
\* refresh only asks Latest and IsStale and a crash stops both loops.
THEOREM FundingLeavesOracleAlone == Spec => OracleSpec
<1>1. Init => OracleInit
  BY DEF Init
<1>2. QED
  BY <1>1, FundingRunsOracle, PTL DEF Spec, OracleSpec

=============================================================================
