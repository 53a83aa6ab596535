------------------------------ MODULE Executor ------------------------------
(***************************************************************************)
(* The executor service and the TradeModule contract behind it.  Neither   *)
(* is in this repository: they are modelled from how matching/executor.go  *)
(* and engine.go use them.  The contract keeps, per signed order, what has *)
(* been filled, and refuses a match that would take either order past its  *)
(* desired amount with TM_FillLimitCrossed.                                *)
(***************************************************************************)
EXTENDS OrderStore

VARIABLES chainFilled,  \* amount of each order filled on chain
          late          \* matches the executor still holds after the matcher
                        \* has given up waiting for the answer

executorVars == <<chainFilled, late>>

ExecutorTypeOK ==
    /\ chainFilled \in [OrderId -> Nat]
    /\ late \in SUBSET Match

\* filled_amount of a new order is what its signer has already had filled.
ExecutorInit ==
    /\ chainFilled = [o \in OrderId |-> Order[o].filled0]
    /\ late = {}

ChainAdmits(c) ==
    \A o \in {c.taker, c.maker} : chainFilled[o] + c.fill <= Order[o].desired

ExecuteOnChain(c) ==
    /\ ChainAdmits(c)
    /\ chainFilled' = [o \in OrderId |-> IF o \in {c.taker, c.maker}
                                         THEN chainFilled[o] + c.fill
                                         ELSE chainFilled[o]]

\* A match whose submitter no longer waits is executed, or refused or lost.
LateExecution(c) ==
    /\ c \in late
    /\ late' = late \ {c}
    /\ ExecuteOnChain(c)

LateRefusal(c) ==
    /\ c \in late
    /\ late' = late \ {c}
    /\ UNCHANGED chainFilled

=============================================================================
