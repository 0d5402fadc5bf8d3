-------------------------- MODULE SettlementRequests --------------------------
(***************************************************************************)
(* Deliveries of payment callbacks to POST /webhooks/payments/settlement:  *)
(* the idempotency middleware's cache of answers and lock, both in Redis,  *)
(* around the webhook transaction of Purchase.  POST /demo/settlement      *)
(* reaches the same transaction for the orders of the demo user, past the  *)
(* cache and the lock; only the rows of PostgreSQL are between the two.    *)
(*                                                                         *)
(* Each action is one await of the request's handler.  A server may crash  *)
(* between any two, Redis may fail any call (after executing it, or not)   *)
(* and forget any key: both keys have a TTL that nothing renews.           *)
(***************************************************************************)
EXTENDS Purchase

CONSTANTS
    Requests,   \* deliveries, the provider's retries included
    NoRequest,  \* no owner
    DemoBuyers, \* buyers whose user is the demo user
    DemoTx      \* the transaction id made from the id of an order

ASSUME DemoAssumption == DemoTx \in [CheckoutKeys -> ProviderTxs]

VARIABLES
    requests,   \* what each delivery asks and how far its handler is
    cache,      \* peakpass:idempotency:payment-settlement:<key>
    locks       \* peakpass:idempotency:lock:payment-settlement:<key>: owner token

requestVars == <<requests, cache, locks>>

Callbacks == [key : CallbackKeys, order : CheckoutKeys, tx : ProviderTxs,
              status : {"settled", "failed"}]

\* A provider's own transaction ids do not look like those of the demo route.
ProviderCallbacks == {b \in Callbacks : b.tx # DemoTx[b.order]}

\* What a 200 says of the order and of the payment.
Answers == [code : {200}, order : {"paid", "cancelled", "expired"},
            payment : {"settled", "failed"}]

NoAnswer == [code |-> 0]
Refused == [code |-> 409]   \* any answer but 200: the provider tries again

Steps == {"cache", "lock", "recheck", "transaction", "store", "release", "demo", "done"}

Crashed == [step |-> "crashed"]

RequestsTypeOK ==
    /\ requests \in [Requests ->
           {Missing, Crashed} \cup [step : Steps, callback : Callbacks, locked : BOOLEAN,
                           answer : Answers \cup {NoAnswer, Refused}]]
    /\ cache \in [CallbackKeys ->
           {Missing} \cup [callback : Callbacks, answer : Answers]]
    /\ locks \in [CallbackKeys -> Requests \cup {NoRequest}]

RequestsInit ==
    /\ Init
    /\ requests = [q \in Requests |-> Missing]
    /\ cache = [c \in CallbackKeys |-> Missing]
    /\ locks = [c \in CallbackKeys |-> NoRequest]

At(q, step) == requests[q] # Missing /\ requests[q].step = step

Key(q) == requests[q].callback.key

\* The binding that the webhook transaction commits for an accepted callback.
BindingOf(callback) ==
    [status |-> callback.status, order |-> callback.order, tx |-> callback.tx]

Goto(q, step) == requests' = [requests EXCEPT ![q].step = step]

Finish(q, step, answer) ==
    requests' = [requests EXCEPT ![q].step = step, ![q].answer = answer]

----------------------------------------------------------------------------
(* The middleware.                                                         *)

\* The provider learns the id of an order from its checkout.
Deliver(q, callback) ==
    /\ requests[q] = Missing
    /\ orders[callback.order] # Missing
    /\ requests' = [requests EXCEPT ![q] =
           [step |-> "cache", callback |-> callback, locked |-> FALSE,
            answer |-> NoAnswer]]
    /\ UNCHANGED <<cache, locks, vars>>

\* What a read of the cache may return: a failed one counts as a miss.
CachedResults(q) == {Missing, cache[Key(q)]}

ReplayAnyCallback(q, cached) == Finish(q, "done", cached.answer)

\* A cached answer is for the callback it was computed for and no other.
ReplayCached(q, cached) ==
    Finish(q, "done", IF cached.callback = requests[q].callback
                        THEN cached.answer ELSE Refused)

ReadCache(q) ==
    /\ At(q, "cache")
    /\ \E cached \in CachedResults(q) :
           IF cached # Missing THEN ReplayCached(q, cached) ELSE Goto(q, "lock")
    /\ UNCHANGED <<cache, locks, vars>>

\* SET NX
SetLock(q) ==
    /\ locks[Key(q)] = NoRequest
    /\ locks' = [locks EXCEPT ![Key(q)] = q]

\* A call that fails may have set the lock all the same: the request goes on
\* without a token and nobody can release that lock.
AcquireLock(q) ==
    /\ At(q, "lock")
    /\ \/ /\ SetLock(q)
          /\ requests' = [requests EXCEPT ![q].step = "transaction",
                                          ![q].locked = TRUE]
       \/ /\ locks[Key(q)] # NoRequest
          /\ Goto(q, "recheck")
          /\ UNCHANGED locks
       \/ /\ Goto(q, "transaction")
          /\ SetLock(q) \/ UNCHANGED locks
    /\ UNCHANGED <<cache, vars>>

\* 100 ms later: the owner may have answered meanwhile.
RecheckCache(q) ==
    /\ At(q, "recheck")
    /\ \E cached \in CachedResults(q) :
           IF cached # Missing THEN ReplayCached(q, cached)
                               ELSE Finish(q, "done", Refused)
    /\ UNCHANGED <<cache, locks, vars>>

----------------------------------------------------------------------------
(* The handler.                                                            *)

\* What mapOutcomeToResponse says after the transaction.
AnswerAfter(callback) ==
    LET status == orders'[callback.order].status
    IN  [code |-> 200, order |-> status,
         payment |-> CASE status = "paid" -> "settled"
                       [] status = "cancelled" -> "failed"
                       [] status = "expired" -> payments'[callback.tx].status]

\* The COMMIT may also succeed and its acknowledgement be lost.
CommitCallback(q) ==
    LET callback == requests[q].callback
    IN  /\ At(q, "transaction")
        /\ ProcessPaymentWebhook(callback.key, callback.order, callback.tx,
                                 callback.status)
        /\ Finish(q, "store", AnswerAfter(callback))
             \/ Finish(q, "release", Refused)
        /\ UNCHANGED <<cache, locks>>

\* A rejected callback rolls back (409), and so does one whose attempts are
\* all lost to serialization conflicts (500).
RollBackCallback(q) ==
    /\ At(q, "transaction")
    /\ Finish(q, "release", Refused)
    /\ UNCHANGED <<cache, locks, vars>>

\* A failed write is only logged.
SetResult(c, result) == cache' = [cache EXCEPT ![c] = result] \/ UNCHANGED cache

StoreResult(q) ==
    /\ At(q, "store")
    /\ SetResult(Key(q), [callback |-> requests[q].callback,
                          answer |-> requests[q].answer])
    /\ Goto(q, "release")
    /\ UNCHANGED <<locks, vars>>

DeleteLock(q) ==
    /\ At(q, "release")
    /\ \/ /\ requests[q].locked
          /\ locks' = [locks EXCEPT ![Key(q)] = NoRequest]
       \/ UNCHANGED locks
    /\ Goto(q, "done")
    /\ UNCHANGED <<cache, vars>>

\* Compare the token and delete, in one script.
ReleaseLock(q) ==
    /\ At(q, "release")
    /\ \/ /\ requests[q].locked /\ locks[Key(q)] = q
          /\ locks' = [locks EXCEPT ![Key(q)] = NoRequest]
       \/ UNCHANGED locks
    /\ Goto(q, "done")
    /\ UNCHANGED <<cache, vars>>

----------------------------------------------------------------------------
(* The demo route.                                                         *)

\* The key is checked for its form only, and lands in the same table.
DeliverDemo(q, c, k) ==
    /\ requests[q] = Missing
    /\ orders[k] # Missing
    /\ requests' = [requests EXCEPT ![q] =
           [step |-> "demo", locked |-> FALSE, answer |-> NoAnswer,
            callback |-> [key |-> c, order |-> k, tx |-> DemoTx[k],
                          status |-> "settled"]]]
    /\ UNCHANGED <<cache, locks, vars>>

\* An order of another user is answered as one that does not exist.
DemoOwns(k) == orders[k].item.buyer \in DemoBuyers

\* The answer is neither stored nor protected by a lock.
SettleDemo(q) ==
    LET callback == requests[q].callback
    IN  /\ At(q, "demo")
        /\ \/ /\ DemoOwns(callback.order)
              /\ ProcessPaymentWebhook(callback.key, callback.order, callback.tx,
                                       callback.status)
              /\ Finish(q, "done", AnswerAfter(callback))
                   \/ Finish(q, "done", Refused)
           \/ Finish(q, "done", Refused) /\ UNCHANGED vars
        /\ UNCHANGED <<cache, locks>>

----------------------------------------------------------------------------
Crash(q) ==
    /\ requests[q] # Missing
    /\ requests[q].step \notin {"done", "crashed"}
    /\ requests' = [requests EXCEPT ![q] = Crashed]
    /\ UNCHANGED <<cache, locks, vars>>

\* A TTL runs out or Redis loses its memory.
Forget(c) ==
    /\ \/ cache' = [cache EXCEPT ![c] = Missing] /\ UNCHANGED locks
       \/ locks' = [locks EXCEPT ![c] = NoRequest] /\ UNCHANGED cache
    /\ UNCHANGED <<requests, vars>>

RequestStep(q) ==
    \/ \E callback \in ProviderCallbacks : Deliver(q, callback)
    \/ \E c \in CallbackKeys, k \in CheckoutKeys : DeliverDemo(q, c, k)
    \/ SettleDemo(q)
    \/ ReadCache(q)
    \/ AcquireLock(q)
    \/ RecheckCache(q)
    \/ CommitCallback(q)
    \/ RollBackCallback(q)
    \/ StoreResult(q)
    \/ ReleaseLock(q)
    \/ Crash(q)

RequestsNext ==
    \/ \E q \in Requests : RequestStep(q)
    \/ \E c \in CallbackKeys : Forget(c)
    \/ SaleStep /\ UNCHANGED requestVars

RequestsSpec == RequestsInit /\ [][RequestsNext]_<<vars, requestVars>>

----------------------------------------------------------------------------
(* Properties.                                                             *)

Answered(q) == requests[q] # Missing /\ requests[q].step = "done"
                 /\ requests[q].answer.code = 200

\* A 200, computed or replayed from Redis, was committed: the payment callback
\* key is bound for ever to exactly the callback that was answered.
AnswersAreDurable ==
    \A q \in Requests : Answered(q) =>
        callbackKeys[Key(q)] = BindingOf(requests[q].callback)

\* All the deliveries of a callback are told the same outcome of the payment,
\* whether it was computed, replayed from Redis or computed again after a crash,
\* except that a failure reported for an expired order may later be answered
\* with the success that corrected it.
AnswersAgree ==
    \A p, q \in Requests :
        (Answered(p) /\ Answered(q) /\ requests[p].callback = requests[q].callback) =>
            \/ requests[p].answer.payment = requests[q].answer.payment
            \/ /\ requests[p].answer.order = "expired"
               /\ requests[p].callback.status = "failed"

\* What a 200 says of the order stays true for ever.
AnswersStayTrue ==
    \A q \in Requests : Answered(q) =>
        orders[requests[q].callback.order].status = requests[q].answer.order

\* A request that ends keeps the locks of the others.
LocksKept ==
    \A q \in Requests, c \in CallbackKeys :
        (At(q, "release") /\ requests'[q].step = "done"
         /\ locks[c] \notin {q, NoRequest}) => locks'[c] = locks[c]

\* A request whose lock expired does not release the lock of its successor.
OthersLockKept == [][LocksKept]_requestVars
=============================================================================
