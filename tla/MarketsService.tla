--------------------------- MODULE MarketsService ---------------------------
(***************************************************************************)
(* The service: the API handlers, the matcher processes, the database they *)
(* share, and the executor the matchers call.  Users submit and cancel, a  *)
(* clock advances, and Faults says which failures may occur.               *)
(***************************************************************************)
EXTENDS OrderApi, Matcher, Executor

vars == <<storeVars, apiVars, matcherVars, executorVars>>

TypeOK == StoreTypeOK /\ ApiTypeOK /\ MatcherTypeOK /\ ExecutorTypeOK

Init == StoreInit /\ ApiInit /\ MatcherInit /\ ExecutorInit

-----------------------------------------------------------------------------
(* The API *)

Submit(o) == SubmitOrder(o) /\ UNCHANGED <<matcherVars, executorVars>>
Insert(o) == InsertOrder(o) /\ UNCHANGED <<matcherVars, executorVars>>
Conflict(o) == RejectDuplicate(o) /\ UNCHANGED <<matcherVars, executorVars>>
AskCancel(k, service) ==
    RequestCancel(k, service) /\ UNCHANGED <<matcherVars, executorVars>>
Cancel(req) == CancelOrder(req) /\ UNCHANGED <<matcherVars, executorVars>>
ListBook == ReadBook /\ UNCHANGED <<matcherVars, executorVars>>

-----------------------------------------------------------------------------
(* The matcher and the executor *)

\* Steps of the matcher that do not involve the executor.
Acquire(m) ==
    /\ \/ StartTick(m)
       \/ \E mk \in Market : BeginAcquire(m, mk)
       \/ LockBid(m)
       \/ LockAsk(m)
       \/ FindNoPair(m)
       \/ ReservePair(m)
    /\ UNCHANGED <<apiVars, executorVars>>

Examine(m) ==
    /\ PassOver(m) \/ RefuseUnits(m) \/ SubmitMatch(m)
    /\ UNCHANGED <<apiVars, executorVars>>

Settle(m) ==
    /\ Finalize(m) \/ FinalizeFails(m) \/ MarkMatchFailed(m) \/ DeferredRelease(m)
    /\ UNCHANGED <<apiVars, executorVars>>

DatabaseFails(m) ==
    /\ \/ AbortAcquire(m)
       \/ ReserveUnacknowledged(m)
       \/ FinalizeUnacknowledged(m)
       \/ MarkMatchFailedFails(m)
       \/ ReleaseFails(m)
    /\ UNCHANGED <<apiVars, executorVars>>

\* The executor settles the match and the matcher hears of it.
Executed(m) ==
    /\ SubmitReturns(m)
    /\ ExecuteOnChain(cand[m])
    /\ UNCHANGED <<apiVars, late>>

\* Mutant: the refusal is an error like any other.
RefusedAsError(m) ==
    /\ SubmitFails(m)
    /\ ~ChainAdmits(cand[m])
    /\ UNCHANGED <<apiVars, executorVars>>

\* The contract refuses with TM_FillLimitCrossed, which the matcher takes for
\* the trace of an earlier execution of this match.
AlreadyFilled(m) ==
    /\ SubmitReturns(m)
    /\ ~ChainAdmits(cand[m])
    /\ UNCHANGED <<apiVars, executorVars>>

Rejected(m) ==
    /\ "reject" \in Faults
    /\ SubmitFails(m)
    /\ UNCHANGED <<apiVars, executorVars>>

ReplyLost(m) ==
    /\ "lostReply" \in Faults
    /\ SubmitFails(m)
    /\ ExecuteOnChain(cand[m])
    /\ UNCHANGED <<apiVars, late>>

\* The HTTP client's five seconds pass first.
TimesOut(m) ==
    /\ "lateExecution" \in Faults
    /\ SubmitFails(m)
    /\ late' = late \union {cand[m]}
    /\ UNCHANGED <<apiVars, chainFilled>>

\* SubmitMatchForMarket turns {"accepted": false} into Accepted = true.
NotAccepted(m) ==
    /\ "notAccepted" \in Faults
    /\ SubmitReturns(m)
    /\ UNCHANGED <<apiVars, executorVars>>

\* A crash while the executor has the request leaves the request with it.
MatcherCrash(m) ==
    /\ Crash(m)
    /\ late' = IF pc[m] = "submitting" THEN late \union {cand[m]} ELSE late
    /\ UNCHANGED <<apiVars, chainFilled>>

ExecuteLate(c) == LateExecution(c) /\ UNCHANGED <<storeVars, apiVars, matcherVars>>
RefuseLate(c) == LateRefusal(c) /\ UNCHANGED <<storeVars, apiVars, matcherVars>>

-----------------------------------------------------------------------------
(* The operator and the clock *)

RunQuarantine(mk, keys) ==
    /\ "quarantine" \in Faults
    /\ Quarantine(mk, keys)
    /\ UNCHANGED <<apiVars, matcherVars, executorVars>>

Tick == ClockTick /\ UNCHANGED <<apiVars, matcherVars, executorVars>>

-----------------------------------------------------------------------------
UserStep ==
    \/ \E o \in OrderId : Submit(o) \/ Insert(o) \/ Conflict(o)
    \/ \E k \in Key, service \in BOOLEAN : AskCancel(k, service)
    \/ \E req \in cancelling : Cancel(req)
    \/ ListBook

ExecutorAnswer(m) == Executed(m) \/ AlreadyFilled(m)

MatcherStep(m) == Acquire(m) \/ Examine(m) \/ ExecutorAnswer(m) \/ Settle(m)

Failure(m) ==
    \/ DatabaseFails(m)
    \/ Rejected(m) \/ ReplyLost(m) \/ TimesOut(m) \/ NotAccepted(m)
    \/ MatcherCrash(m)

Next ==
    \/ UserStep
    \/ \E m \in Matcher : MatcherStep(m) \/ Failure(m)
    \/ \E c \in late : ExecuteLate(c) \/ RefuseLate(c)
    \/ \E mk \in Market, keys \in SUBSET Key : RunQuarantine(mk, keys)
    \/ Tick

Spec == Init /\ [][Next]_vars

\* The ticker fires again and again and the loop never waits for a user; the
\* executor answers within the client's timeout.  Users, the clock, the
\* operator and failures owe nothing.
FairSpec == Spec /\ \A m \in Matcher : WF_vars(MatcherStep(m))

=============================================================================
