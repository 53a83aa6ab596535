------------------------------ MODULE OrderApi ------------------------------
(***************************************************************************)
(* The order handlers of internal/api/server.go.  A handler that reads and *)
(* then writes is two steps, and creating and cancelling are the requests  *)
(* between them: requests whose checks passed and whose statement has not  *)
(* reached the database.  A request that is refused changes nothing and is *)
(* not a step.                                                             *)
(***************************************************************************)
EXTENDS OrderStore

CONSTANT MaxRequests   \* bound on the requests in flight, for TLC
ASSUME MaxRequestsAssumption == MaxRequests \in Nat

VARIABLES creating,    \* orders validated by handleCreateOrder, not inserted
          cancelling   \* cancels let through by validateCancelNamespace

apiVars == <<creating, cancelling>>

\* service is TRUE for a request that carries a service tag.
CancelRequest == [key: Key, service: BOOLEAN]

ApiTypeOK ==
    /\ creating \in SUBSET OrderId
    /\ cancelling \in SUBSET CancelRequest

ApiInit == creating = {} /\ cancelling = {}

Accepting == Cardinality(creating) + Cardinality(cancelling) < MaxRequests

\* toParams and ValidateDeposited: everything read before the insert.
SubmitOrder(o) ==
    /\ Accepting
    /\ Order[o].expiry > now
    /\ Order[o].filled0 <= Order[o].desired
    /\ creating' = creating \union {o}
    /\ UNCHANGED <<cancelling, storeVars>>

InsertOrder(o) ==
    /\ o \in creating
    /\ Create(o)
    /\ creating' = creating \ {o}
    /\ UNCHANGED cancelling

\* 409: the identifier or the owner's nonce is taken.
RejectDuplicate(o) ==
    /\ o \in creating
    /\ Duplicate(o)
    /\ creating' = creating \ {o}
    /\ UNCHANGED <<cancelling, storeVars>>

\* FindActiveByOwnerNonce finds the target and the namespace check admits it.
CancelAllowed(service, o) == ~(service /\ Order[o].protected)

RequestCancel(k, service) ==
    /\ Accepting
    /\ \E o \in ActiveWithKey(k) : CancelAllowed(service, o)
    /\ cancelling' = cancelling \union {[key |-> k, service |-> service]}
    /\ UNCHANGED <<creating, storeVars>>

\* The update, which cancels nothing (404) if the row is no longer active.
CancelOrder(req) ==
    /\ req \in cancelling
    /\ CancelByOwnerNonce(req.key)
    /\ cancelling' = cancelling \ {req}
    /\ UNCHANGED creating

\* handleBook, and the funding loop's BestBidAndAsk, expire before they list.
ReadBook == ExpireOrders /\ UNCHANGED apiVars

=============================================================================
