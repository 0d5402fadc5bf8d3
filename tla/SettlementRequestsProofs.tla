---------------------- MODULE SettlementRequestsProofs ----------------------
(***************************************************************************)
(* Proofs about SettlementRequests for every number of deliveries, callback *)
(* keys and orders: whatever crashes, expires or is delivered again, what  *)
(* a 200 said was committed and stays true.                                *)
(***************************************************************************)
EXTENDS SettlementRequests, PurchaseRecordProofs

allVars == <<vars, requestVars>>

\* The rows of requests and of the cache that are not missing.
Row == [step : Steps, callback : Callbacks, locked : BOOLEAN,
        answer : Answers \cup {NoAnswer, Refused}]

Entry == [callback : Callbacks, answer : Answers]

----------------------------------------------------------------------------
(* Types, and the purchase path underneath.                                *)

LEMMA RequestRow ==
  ASSUME RequestsTypeOK, NEW q \in Requests, requests[q] # Missing,
         requests[q].step \in Steps
  PROVE  requests[q] \in Row
<1>1. requests[q] \in {Missing, Crashed} \cup Row
  BY DEF RequestsTypeOK, Row
<1>2. Crashed.step \notin Steps
  BY DEF Crashed, Steps
<1> QED  BY <1>1, <1>2

\* A webhook accepted on behalf of delivery q.
Accepts(q) ==
    \E callback \in Callbacks :
        ProcessPaymentWebhook(callback.key, callback.order, callback.tx,
                              callback.status)

\* The steps of q that touch no table of PostgreSQL, and those that do.
LEMMA RequestsOverPurchase ==
  ASSUME RequestsTypeOK, NEW q \in Requests, RequestStep(q)
  PROVE  UNCHANGED vars \/ Accepts(q)
<1>1. CASE SettleDemo(q)
  <2>1. requests[q] \in Row
    BY <1>1, RequestRow DEF SettleDemo, At, Steps
  <2> QED  BY <1>1, <2>1 DEF SettleDemo, Accepts, Row
<1>2. CASE CommitCallback(q)
  <2>1. requests[q] \in Row
    BY <1>2, RequestRow DEF CommitCallback, At, Steps
  <2> QED  BY <1>2, <2>1 DEF CommitCallback, Accepts, Row
<1>3. CASE ~SettleDemo(q) /\ ~CommitCallback(q)
  BY <1>3 DEF RequestStep, Deliver, DeliverDemo, ReadCache, AcquireLock, RecheckCache,
              RollBackCallback, StoreResult, ReleaseLock, Crash
<1> QED  BY <1>1, <1>2, <1>3

\* Every step of the deliveries is a step of the purchase path or leaves it alone.
LEMMA RequestsStepIsPurchaseStep ==
  RequestsTypeOK /\ [RequestsNext]_allVars => [Next]_vars
<1> SUFFICES ASSUME RequestsTypeOK, [RequestsNext]_allVars
             PROVE  [Next]_vars
  OBVIOUS
<1>1. ASSUME NEW q \in Requests, RequestStep(q)
      PROVE  [Next]_vars
  <2>1. CASE UNCHANGED vars
    BY <2>1
  <2>2. ASSUME NEW callback \in Callbacks,
               ProcessPaymentWebhook(callback.key, callback.order, callback.tx,
                                     callback.status)
        PROVE  Next
    BY <2>2 DEF Next, PaymentStep, Callbacks
  <2> QED  BY <1>1, <2>1, <2>2, RequestsOverPurchase DEF Accepts
<1>2. ASSUME NEW c \in CallbackKeys, Forget(c)
      PROVE  [Next]_vars
  BY <1>2 DEF Forget
<1>3. CASE SaleStep
  BY <1>3 DEF Next
<1>4. CASE UNCHANGED allVars
  BY <1>4 DEF allVars
<1> QED  BY <1>1, <1>2, <1>3, <1>4 DEF RequestsNext


----------------------------------------------------------------------------
(* What a 200 rests on.                                                    *)

\* The answer is what PostgreSQL has of the callback it answers.
Committed(callback, answer) ==
    /\ callbackKeys[callback.key] = BindingOf(callback)
    /\ orders[callback.order].status = answer.order
    /\ answer.order = "paid" => answer.payment = "settled"
    /\ answer.order = "cancelled" => answer.payment = "failed"
    /\ (answer.order = "expired" /\ callback.status = "settled") =>
           answer.payment = "settled"

\* A delivery that has an answer has a committed one, and only such an answer
\* is stored.
Sound(row) ==
    /\ row.answer \in Answers => Committed(row.callback, row.answer)
    /\ row.step = "store" => row.answer \in Answers

RowsSound ==
    \A q \in Requests : \A row \in Row : requests[q] = row => Sound(row)

CacheSound ==
    \A c \in CallbackKeys : \A entry \in Entry :
        cache[c] = entry => Committed(entry.callback, entry.answer)

RequestsInv == PaymentInv /\ RequestsTypeOK /\ RowsSound /\ CacheSound

LEMMA NotAnswers == NoAnswer \notin Answers /\ Refused \notin Answers
<1>1. \A answer \in Answers : answer.code = 200
  BY DEF Answers
<1>2. NoAnswer.code = 0 /\ Refused.code = 409
  BY DEF NoAnswer, Refused
<1> QED  BY <1>1, <1>2

\* Bindings, final statuses and so answers are kept by every step.
LEMMA CommittedStays ==
  ASSUME TypeOK, [Next]_vars, NEW callback \in Callbacks, NEW answer \in Answers,
         Committed(callback, answer)
  PROVE  Committed(callback, answer)'
<1>1. /\ callback.key \in CallbackKeys /\ callback.order \in CheckoutKeys
      /\ callback.status \in {"settled", "failed"}
      /\ answer.order \in {"paid", "cancelled", "expired"}
  BY DEF Callbacks, Answers
<1>2. /\ callbackKeys[callback.key] = BindingOf(callback)
      /\ orders[callback.order].status = answer.order
      /\ BindingOf(callback).status = callback.status
  BY DEF Committed, BindingOf
<1>3. Missing.status = "missing"
  BY DEF Missing
<1>4. callbackKeys'[callback.key] = callbackKeys[callback.key]
  BY <1>1, <1>2, <1>3, FactsStep DEF FactsKept, vars
<1>5. orders'[callback.order] = orders[callback.order]
  BY <1>1, <1>2, <1>3, OutcomesStep DEF OutcomesKept, vars
<1> QED  BY <1>4, <1>5 DEF Committed

LEMMA SoundStays ==
  ASSUME TypeOK, [Next]_vars, NEW row \in Row, Sound(row)
  PROVE  Sound(row)'
BY CommittedStays DEF Sound, Row

\* The row of a delivery at some step.
LEMMA RowAt ==
  ASSUME RequestsInv, NEW q \in Requests, NEW step \in Steps, At(q, step)
  PROVE  /\ requests[q] \in Row
         /\ requests[q].step = step
         /\ Sound(requests[q])
<1>1. requests[q] \in Row /\ requests[q].step = step
  BY RequestRow DEF RequestsInv, At
<1> QED  BY <1>1 DEF RequestsInv, RowsSound

\* A row that only moves to another step keeps its callback and its answer.
LEMMA GotoRow ==
  ASSUME RequestsTypeOK, NEW q \in Requests, NEW row \in Row, requests[q] = row,
         NEW step \in Steps, Goto(q, step)
  PROVE  \E new \in Row :
             /\ requests' = [requests EXCEPT ![q] = new]
             /\ new.step = step
             /\ new.callback = row.callback /\ new.answer = row.answer
<1> DEFINE new == [row EXCEPT !.step = step]
<1>1. new \in Row /\ new.step = step /\ new.callback = row.callback
      /\ new.answer = row.answer
  BY DEF Row
<1>2. requests' = [requests EXCEPT ![q] = new]
  BY DEF Goto, RequestsTypeOK
<1> QED  BY <1>1, <1>2

LEMMA FinishRow ==
  ASSUME RequestsTypeOK, NEW q \in Requests, NEW row \in Row, requests[q] = row,
         NEW step \in Steps, NEW answer \in Answers \cup {NoAnswer, Refused},
         Finish(q, step, answer)
  PROVE  \E new \in Row :
             /\ requests' = [requests EXCEPT ![q] = new]
             /\ new.step = step
             /\ new.callback = row.callback /\ new.answer = answer
<1> DEFINE new == [row EXCEPT !.step = step, !.answer = answer]
<1>1. new \in Row /\ new.step = step /\ new.callback = row.callback
      /\ new.answer = answer
  BY DEF Row
<1>2. requests' = [requests EXCEPT ![q] = new]
  BY DEF Finish, RequestsTypeOK
<1> QED  BY <1>1, <1>2

\* What the steps of a delivery amount to: its row moves to a sound one, and a
\* row of the cache stays, goes, or becomes a committed answer.
RowMoves(q) ==
    \E row \in Row \cup {Crashed} :
        /\ requests' = [requests EXCEPT ![q] = row]
        /\ row \in Row => Sound(row)'

CacheMoves ==
    /\ cache' \in [CallbackKeys -> {Missing} \cup Entry]
    /\ \A c \in CallbackKeys :
           \/ cache'[c] = cache[c]
           \/ cache'[c] = Missing
           \/ \E entry \in Entry : /\ cache'[c] = entry
                                   /\ Committed(entry.callback, entry.answer)'

----------------------------------------------------------------------------
(* The steps of a delivery.                                                *)

\* What an accepted callback is answered is committed with it.
LEMMA AnswerCommitted ==
  ASSUME PaymentInv, PaymentInv', NEW callback \in Callbacks,
         ProcessPaymentWebhook(callback.key, callback.order, callback.tx,
                               callback.status),
         NEW answer, answer = AnswerAfter(callback)
  PROVE  answer \in Answers /\ Committed(callback, answer)'
<1> DEFINE k == callback.order
           t == callback.tx
<1>1. /\ callback.key \in CallbackKeys /\ k \in CheckoutKeys /\ t \in ProviderTxs
      /\ callback.status \in {"settled", "failed"}
  BY DEF Callbacks
<1>2. callbackKeys'[callback.key] = BindingOf(callback)
  BY <1>1, WebhookKeeps DEF PaymentInv, BindingOf
<1>3. Honoured(k, t, callback.status)'
  <2>1. AllHonoured'
    BY HonouredByBinding, PTL DEF PaymentInv
  <2>2. callbackKeys'[callback.key] # Missing
    BY <1>1, <1>2 DEF BindingOf, Missing
  <2>3. PICK y \in CheckoutKeys, x \in ProviderTxs, s \in {"settled", "failed"} :
               /\ callbackKeys'[callback.key] = [status |-> s, order |-> y, tx |-> x]
               /\ Honoured(y, x, s)'
    BY <1>1, <2>1, <2>2 DEF AllHonoured
  <2>4. y = k /\ x = t /\ s = callback.status
    BY <1>2, <2>3 DEF BindingOf
  <2> QED  BY <2>3, <2>4
<1>4. /\ answer.code = 200 /\ answer.order = orders'[k].status
      /\ answer = [code |-> 200, order |-> answer.order, payment |-> answer.payment]
      /\ answer.order = "paid" => answer.payment = "settled"
      /\ answer.order = "cancelled" => answer.payment = "failed"
      /\ answer.order = "expired" => answer.payment = payments'[t].status
  BY DEF AnswerAfter
<1>5. answer.order \in {"paid", "cancelled", "expired"}
  BY <1>3, <1>4 DEF Honoured
<1>6. answer.order = "expired" =>
          /\ payments'[t].status \in {"settled", "failed"}
          /\ callback.status = "settled" => payments'[t].status = "settled"
  <2>1. payments'[t] \in PaymentRecord \cup {Missing}
    BY <1>1 DEF PaymentInv, TypeOK
  <2> QED  BY <1>3, <1>4, <2>1 DEF Honoured, PaymentRecord
<1>7. answer \in Answers
  BY <1>4, <1>5, <1>6 DEF Answers
<1> QED  BY <1>2, <1>4, <1>6, <1>7 DEF Committed

\* A replay gives a delivery the answer of its own callback and no other.
LEMMA ReplayMoves ==
  ASSUME RequestsInv, [Next]_vars, NEW q \in Requests, NEW row \in Row,
         requests[q] = row, NEW cached \in CachedResults(q), cached # Missing,
         ReplayCached(q, cached)
  PROVE  RowMoves(q)
<1>1. row.callback \in Callbacks /\ Key(q) \in CallbackKeys
  BY DEF Row, Callbacks, Key
<1>2. cached \in Entry /\ cached = cache[Key(q)]
  BY <1>1 DEF CachedResults, RequestsInv, RequestsTypeOK, Entry
<1>3. Committed(cached.callback, cached.answer)
  BY <1>1, <1>2 DEF RequestsInv, CacheSound
<1>4. cached.answer \in Answers /\ cached.callback \in Callbacks
  BY <1>2 DEF Entry
<1>5. CASE cached.callback = row.callback
  <2>1. PICK new \in Row : /\ requests' = [requests EXCEPT ![q] = new]
                           /\ new.step = "done"
                           /\ new.callback = row.callback
                           /\ new.answer = cached.answer
    BY <1>4, <1>5, FinishRow DEF ReplayCached, RequestsInv, Steps
  <2>2. Committed(new.callback, new.answer)
    BY <1>3, <1>5, <2>1
  <2>3. Sound(new)'
    BY <1>1, <1>4, <2>1, <2>2, CommittedStays DEF Sound, RequestsInv, PaymentInv
  <2> QED  BY <2>1, <2>3 DEF RowMoves
<1>6. CASE cached.callback # row.callback
  <2>1. PICK new \in Row : /\ requests' = [requests EXCEPT ![q] = new]
                           /\ new.step = "done"
                           /\ new.callback = row.callback
                           /\ new.answer = Refused
    BY <1>6, FinishRow DEF ReplayCached, RequestsInv, Steps
  <2>2. Sound(new)'
    BY <2>1, NotAnswers DEF Sound
  <2> QED  BY <2>1, <2>2 DEF RowMoves
<1> QED  BY <1>5, <1>6

\* A delivery that goes on to another step than "store" with what it has.
LEMMA GotoMoves ==
  ASSUME RequestsInv, [Next]_vars, NEW q \in Requests, requests[q] \in Row,
         Sound(requests[q]), NEW step \in Steps \ {"store"}, Goto(q, step)
  PROVE  RowMoves(q)
<1>1. PICK row \in Row : requests[q] = row
  OBVIOUS
<1>2. PICK new \in Row : /\ requests' = [requests EXCEPT ![q] = new]
                         /\ new.step = step
                         /\ new.callback = row.callback /\ new.answer = row.answer
  BY <1>1, GotoRow DEF RequestsInv
<1>3. Sound(new)
  BY <1>1, <1>2 DEF Sound
<1>4. Sound(new)'
  BY <1>3, SoundStays DEF RequestsInv, PaymentInv
<1> QED  BY <1>2, <1>4 DEF RowMoves

\* A delivery that ends without a 200.
LEMMA RefusedMoves ==
  ASSUME RequestsInv, NEW q \in Requests, requests[q] \in Row,
         NEW step \in Steps \ {"store"}, Finish(q, step, Refused)
  PROVE  RowMoves(q)
<1>1. PICK row \in Row : requests[q] = row
  OBVIOUS
<1>2. PICK new \in Row : /\ requests' = [requests EXCEPT ![q] = new]
                         /\ new.step = step /\ new.answer = Refused
  BY <1>1, FinishRow DEF RequestsInv
<1> QED  BY <1>2, NotAnswers DEF Sound, RowMoves

\* A delivery whose callback the transaction accepted.
LEMMA CommitMoves ==
  ASSUME RequestsInv, PaymentInv', NEW q \in Requests, NEW row \in Row,
         requests[q] = row, NEW step \in {"store", "done"},
         ProcessPaymentWebhook(row.callback.key, row.callback.order,
                               row.callback.tx, row.callback.status),
         Finish(q, step, AnswerAfter(row.callback))
  PROVE  RowMoves(q)
<1>1. row.callback \in Callbacks
  BY DEF Row
<1>2. PICK answer : answer = AnswerAfter(row.callback)
  OBVIOUS
<1>3. answer \in Answers /\ Committed(row.callback, answer)'
  BY <1>1, <1>2, AnswerCommitted DEF RequestsInv
<1>4. PICK new \in Row : /\ requests' = [requests EXCEPT ![q] = new]
                         /\ new.callback = row.callback /\ new.answer = answer
  BY <1>2, <1>3, FinishRow DEF RequestsInv, Steps
<1>5. Sound(new)'
  BY <1>3, <1>4 DEF Sound
<1> QED  BY <1>4, <1>5 DEF RowMoves

LocksType == locks' \in [CallbackKeys -> Requests \cup {NoRequest}]

LEMMA NewRowMoves ==
  ASSUME RequestsInv, NEW q \in Requests, NEW callback \in Callbacks,
         NEW step \in Steps \ {"store"},
         requests' = [requests EXCEPT ![q] =
             [step |-> step, callback |-> callback, locked |-> FALSE,
              answer |-> NoAnswer]]
  PROVE  RowMoves(q)
<1> DEFINE row == [step |-> step, callback |-> callback, locked |-> FALSE,
                   answer |-> NoAnswer]
<1>1. row \in Row
  BY DEF Row
<1>2. Sound(row)'
  BY NotAnswers DEF Sound
<1> QED  BY <1>1, <1>2 DEF RowMoves

\* Every step of a delivery moves its row and the cache soundly.
LEMMA RequestMoves ==
  ASSUME RequestsInv, PaymentInv', [Next]_vars, NEW q \in Requests, RequestStep(q)
  PROVE  RowMoves(q) /\ CacheMoves /\ LocksType
<1>0. /\ requests \in [Requests -> {Missing, Crashed} \cup Row]
      /\ cache \in [CallbackKeys -> {Missing} \cup Entry]
      /\ locks \in [CallbackKeys -> Requests \cup {NoRequest}]
  BY DEF RequestsInv, RequestsTypeOK, Row, Entry
<1>a. /\ cache' = cache => CacheMoves
      /\ locks' = locks => LocksType
  BY <1>0 DEF CacheMoves, LocksType
<1>1. ASSUME NEW callback \in ProviderCallbacks, Deliver(q, callback)
      PROVE  RowMoves(q) /\ CacheMoves /\ LocksType
  BY <1>a, <1>1, NewRowMoves DEF Deliver, ProviderCallbacks, Steps
<1>2. ASSUME NEW c \in CallbackKeys, NEW k \in CheckoutKeys, DeliverDemo(q, c, k)
      PROVE  RowMoves(q) /\ CacheMoves /\ LocksType
  <2> DEFINE callback == [key |-> c, order |-> k, tx |-> DemoTx[k], status |-> "settled"]
  <2>1. callback \in Callbacks
    BY DemoAssumption DEF Callbacks
  <2>2. [step |-> "demo", locked |-> FALSE, answer |-> NoAnswer, callback |-> callback]
          = [step |-> "demo", callback |-> callback, locked |-> FALSE, answer |-> NoAnswer]
    OBVIOUS
  <2>3. requests' = [requests EXCEPT ![q] =
            [step |-> "demo", callback |-> callback, locked |-> FALSE,
             answer |-> NoAnswer]]
    BY <1>2, <2>2 DEF DeliverDemo
  <2>4. RowMoves(q)
    BY <2>1, <2>3, NewRowMoves DEF Steps
  <2> QED  BY <1>a, <1>2, <2>4 DEF DeliverDemo
<1>3. CASE SettleDemo(q)
  <2>1. requests[q] \in Row
    BY <1>3, RowAt DEF SettleDemo, Steps
  <2>2. RowMoves(q)
    <3>1. CASE Finish(q, "done", Refused)
      BY <2>1, <3>1, RefusedMoves DEF Steps
    <3>2. CASE ~Finish(q, "done", Refused)
      BY <1>3, <2>1, <3>2, CommitMoves DEF SettleDemo
    <3> QED  BY <3>1, <3>2
  <2> QED  BY <1>a, <1>3, <2>2 DEF SettleDemo
<1>4. CASE ReadCache(q)
  <2>1. requests[q] \in Row /\ Sound(requests[q])
    BY <1>4, RowAt DEF ReadCache, Steps
  <2>2. PICK cached \in CachedResults(q) :
                 IF cached # Missing THEN ReplayCached(q, cached) ELSE Goto(q, "lock")
    BY <1>4 DEF ReadCache
  <2>3. CASE cached # Missing
    BY <1>a, <1>4, <2>1, <2>2, <2>3, ReplayMoves DEF ReadCache
  <2>4. CASE cached = Missing
    BY <1>a, <1>4, <2>1, <2>2, <2>4, GotoMoves DEF ReadCache, Steps
  <2> QED  BY <2>3, <2>4
<1>5. CASE AcquireLock(q)
  <2>1. requests[q] \in Row /\ Sound(requests[q]) /\ Key(q) \in CallbackKeys
    BY <1>5, RowAt DEF AcquireLock, Steps, Row, Key, Callbacks
  <2>2. LocksType /\ cache' = cache
    BY <1>0, <1>5, <2>1 DEF AcquireLock, SetLock, LocksType
  <2>3. CASE requests' = [requests EXCEPT ![q].step = "transaction", ![q].locked = TRUE]
    <3>1. PICK row \in Row : requests[q] = row /\ Sound(row)
      BY <2>1
    <3> DEFINE new == [row EXCEPT !.step = "transaction", !.locked = TRUE]
    <3>2. /\ new \in Row /\ new.step = "transaction"
          /\ new.callback = row.callback /\ new.answer = row.answer
      BY DEF Row, Steps
    <3>3. requests' = [requests EXCEPT ![q] = new]
      BY <1>0, <2>3, <3>1
    <3> HIDE DEF new
    <3>4. Sound(new)
      BY <3>1, <3>2 DEF Sound
    <3>5. Sound(new)'
      BY <3>2, <3>4, SoundStays DEF RequestsInv, PaymentInv
    <3> QED  BY <1>a, <2>2, <3>2, <3>3, <3>5 DEF RowMoves
  <2>4. CASE Goto(q, "recheck") \/ Goto(q, "transaction")
    BY <1>a, <2>1, <2>2, <2>4, GotoMoves DEF Steps
  <2> QED  BY <1>5, <2>3, <2>4 DEF AcquireLock
<1>6. CASE RecheckCache(q)
  <2>1. requests[q] \in Row
    BY <1>6, RowAt DEF RecheckCache, Steps
  <2>2. PICK cached \in CachedResults(q) :
                 IF cached # Missing THEN ReplayCached(q, cached)
                                     ELSE Finish(q, "done", Refused)
    BY <1>6 DEF RecheckCache
  <2>3. CASE cached # Missing
    BY <1>a, <1>6, <2>1, <2>2, <2>3, ReplayMoves DEF RecheckCache
  <2>4. CASE cached = Missing
    BY <1>a, <1>6, <2>1, <2>2, <2>4, RefusedMoves DEF RecheckCache, Steps
  <2> QED  BY <2>3, <2>4
<1>7. CASE CommitCallback(q)
  <2>1. requests[q] \in Row
    BY <1>7, RowAt DEF CommitCallback, Steps
  <2>2. RowMoves(q)
    <3>1. CASE Finish(q, "release", Refused)
      BY <2>1, <3>1, RefusedMoves DEF Steps
    <3>2. CASE ~Finish(q, "release", Refused)
      BY <1>7, <2>1, <3>2, CommitMoves DEF CommitCallback
    <3> QED  BY <3>1, <3>2
  <2> QED  BY <1>a, <1>7, <2>2 DEF CommitCallback
<1>8. CASE RollBackCallback(q)
  <2>1. requests[q] \in Row
    BY <1>8, RowAt DEF RollBackCallback, Steps
  <2> QED  BY <1>a, <1>8, <2>1, RefusedMoves DEF RollBackCallback, Steps
<1>9. CASE StoreResult(q)
  <2>1. PICK row \in Row : requests[q] = row /\ row.step = "store" /\ Sound(row)
    BY <1>9, RowAt DEF StoreResult, Steps
  <2>2. RowMoves(q) /\ LocksType
    BY <1>a, <1>9, <2>1, GotoMoves DEF StoreResult, Steps
  <2> DEFINE entry == [callback |-> row.callback, answer |-> row.answer]
  <2>3. entry \in Entry /\ Committed(entry.callback, entry.answer)
    BY <2>1 DEF Sound, Row, Entry
  <2>4. cache' = [cache EXCEPT ![Key(q)] = entry] \/ cache' = cache
    BY <1>9, <2>1 DEF StoreResult, SetResult
  <2> HIDE DEF entry
  <2>5. Committed(entry.callback, entry.answer)'
    BY <2>3, CommittedStays DEF RequestsInv, PaymentInv, Entry
  <2>6. CacheMoves
    BY <1>0, <2>3, <2>4, <2>5 DEF CacheMoves
  <2> QED  BY <2>2, <2>6
<1>10. CASE ReleaseLock(q)
  <2>1. requests[q] \in Row /\ Sound(requests[q])
    BY <1>10, RowAt DEF ReleaseLock, Steps
  <2>2. RowMoves(q)
    BY <1>10, <2>1, GotoMoves DEF ReleaseLock, Steps
  <2>3. LocksType
    BY <1>0, <1>10 DEF ReleaseLock, LocksType
  <2> QED  BY <1>a, <1>10, <2>2, <2>3 DEF ReleaseLock
<1>11. CASE Crash(q)
  <2>1. Crashed \notin Row
    BY DEF Crashed, Row, Steps
  <2> QED  BY <1>a, <1>11, <2>1 DEF Crash, RowMoves
<1> QED  BY <1>1, <1>2, <1>3, <1>4, <1>5, <1>6, <1>7, <1>8, <1>9, <1>10, <1>11
         DEF RequestStep

----------------------------------------------------------------------------
(* The inductive invariant.                                                *)

LEMMA RequestsInvInit == RequestsInit => RequestsInv
<1> SUFFICES ASSUME RequestsInit
             PROVE  RequestsInv
  OBVIOUS
<1>1. Missing \notin Row /\ Missing \notin Entry
  <2>1. \A row \in Row : DOMAIN row = {"step", "callback", "locked", "answer"}
    BY DEF Row
  <2>2. \A entry \in Entry : DOMAIN entry = {"callback", "answer"}
    BY DEF Entry
  <2>3. DOMAIN Missing = {"status"}
    BY DEF Missing
  <2> QED  BY <2>1, <2>2, <2>3
<1>2. RequestsTypeOK
  BY DEF RequestsInit, RequestsTypeOK
<1>3. RowsSound /\ CacheSound
  BY <1>1 DEF RequestsInit, RowsSound, CacheSound
<1> QED  BY <1>2, <1>3, PaymentInvInit DEF RequestsInit, RequestsInv

\* Rows and entries that a step leaves alone stay sound.
LEMMA RowStays ==
  ASSUME RequestsInv, [Next]_vars, NEW q \in Requests, NEW row \in Row,
         requests[q] = row
  PROVE  Sound(row)'
BY SoundStays DEF RequestsInv, PaymentInv, RowsSound

LEMMA EntryStays ==
  ASSUME RequestsInv, [Next]_vars, NEW c \in CallbackKeys, NEW entry \in Entry,
         cache[c] = entry
  PROVE  Committed(entry.callback, entry.answer)'
BY CommittedStays DEF RequestsInv, PaymentInv, CacheSound, Entry

LEMMA RequestsInvStep == RequestsInv /\ [RequestsNext]_allVars => RequestsInv'
<1> SUFFICES ASSUME RequestsInv, [RequestsNext]_allVars
             PROVE  RequestsInv'
  OBVIOUS
<1>0. /\ requests \in [Requests -> {Missing, Crashed} \cup Row]
      /\ cache \in [CallbackKeys -> {Missing} \cup Entry]
      /\ locks \in [CallbackKeys -> Requests \cup {NoRequest}]
  BY DEF RequestsInv, RequestsTypeOK, Row, Entry
<1>1. [Next]_vars
  BY RequestsStepIsPurchaseStep DEF RequestsInv
<1>2. PaymentInv'
  BY <1>1, PaymentInvStep DEF RequestsInv
<1>3. Missing \notin Entry
  <2>1. \A entry \in Entry : DOMAIN entry = {"callback", "answer"}
    BY DEF Entry
  <2> QED  BY <2>1 DEF Missing
<1>4. CacheMoves => CacheSound'
  <2> SUFFICES ASSUME CacheMoves, NEW c \in CallbackKeys, NEW entry \in Entry,
                      cache'[c] = entry
               PROVE  Committed(entry.callback, entry.answer)'
    BY DEF CacheSound
  <2> QED  BY <1>1, <1>3, EntryStays DEF CacheMoves
<1>5. CASE UNCHANGED requests /\ CacheMoves /\ LocksType
  <2>1. RequestsTypeOK'
    BY <1>0, <1>5 DEF RequestsTypeOK, CacheMoves, LocksType, Row, Entry
  <2>2. RowsSound'
    BY <1>1, <1>5, RowStays DEF RowsSound
  <2> QED  BY <1>2, <1>4, <1>5, <2>1, <2>2 DEF RequestsInv
<1>6. ASSUME NEW q \in Requests, RequestStep(q)
      PROVE  RequestsInv'
  <2>1. CacheMoves /\ LocksType
    BY <1>1, <1>2, <1>6, RequestMoves
  <2>2. PICK row \in Row \cup {Crashed} :
                 /\ requests' = [requests EXCEPT ![q] = row]
                 /\ row \in Row => Sound(row)'
    BY <1>1, <1>2, <1>6, RequestMoves DEF RowMoves
  <2>3. RequestsTypeOK'
    <3>1. requests' \in [Requests -> {Missing, Crashed} \cup Row]
      BY <1>0, <2>2
    <3> QED  BY <2>1, <3>1 DEF RequestsTypeOK, CacheMoves, LocksType, Row, Entry
  <2>4. RowsSound'
    <3> SUFFICES ASSUME NEW p \in Requests, NEW r \in Row, requests'[p] = r
                 PROVE  Sound(r)'
      BY DEF RowsSound
    <3>1. CASE p = q
      <4>1. r = row
        BY <1>0, <2>2, <3>1
      <4> QED  BY <2>2, <4>1
    <3>2. CASE p # q
      BY <1>0, <1>1, <2>2, <3>2, RowStays
    <3> QED  BY <3>1, <3>2
  <2> QED  BY <1>2, <1>4, <2>1, <2>3, <2>4 DEF RequestsInv
<1>7. ASSUME NEW c \in CallbackKeys, Forget(c)
      PROVE  RequestsInv'
  <2>1. CacheMoves /\ LocksType
    BY <1>0, <1>7 DEF Forget, CacheMoves, LocksType
  <2> QED  BY <1>5, <1>7, <2>1 DEF Forget
<1>8. CASE UNCHANGED requestVars
  BY <1>0, <1>5, <1>8 DEF requestVars, CacheMoves, LocksType
<1> QED  BY <1>6, <1>7, <1>8 DEF RequestsNext, allVars

LEMMA RequestsInvAlways == RequestsSpec => []RequestsInv
BY RequestsInvInit, RequestsInvStep, PTL DEF RequestsSpec, allVars

----------------------------------------------------------------------------
(* The theorems.                                                           *)

\* A delivery that was answered 200.
LEMMA AnsweredRow ==
  ASSUME RequestsInv, NEW q \in Requests, Answered(q)
  PROVE  /\ requests[q] \in Row /\ requests[q].answer \in Answers
         /\ Committed(requests[q].callback, requests[q].answer)
<1>1. requests[q] \in Row
  BY RequestRow DEF RequestsInv, Answered, Steps
<1>2. requests[q].answer \in Answers
  BY <1>1 DEF Answered, Row, NoAnswer, Refused
<1> QED  BY <1>1, <1>2 DEF RequestsInv, RowsSound, Sound

\* The deliveries, their cache and their lock are a layer over the purchase
\* path: retries, replays and the demo route do to its rows only what it allows.
THEOREM RequestsImplementPurchase == RequestsSpec => Spec
<1>1. RequestsInit => Init
  BY DEF RequestsInit
<1>2. RequestsInv => RequestsTypeOK
  BY DEF RequestsInv
<1> QED  BY <1>1, <1>2, RequestsInvAlways, RequestsStepIsPurchaseStep, PTL
         DEF RequestsSpec, Spec, allVars

\* A 200, computed or replayed, is bound for ever to the callback it answered:
\* no crash, lost lock or forgotten cache makes one up.
THEOREM AnswersDurable == RequestsSpec => []AnswersAreDurable
<1>1. RequestsInv => AnswersAreDurable
  BY AnsweredRow DEF AnswersAreDurable, Committed, Key
<1> QED  BY <1>1, RequestsInvAlways, PTL

\* All deliveries of one callback are told the same outcome of its payment,
\* except for a failure that was reported for an expired order.
THEOREM AnswersConsistent == RequestsSpec => []AnswersAgree
<1>1. RequestsInv => AnswersAgree
  <2> SUFFICES ASSUME RequestsInv, NEW p \in Requests, NEW q \in Requests,
                      Answered(p), Answered(q),
                      requests[p].callback = requests[q].callback
               PROVE  \/ requests[p].answer.payment = requests[q].answer.payment
                      \/ /\ requests[p].answer.order = "expired"
                         /\ requests[p].callback.status = "failed"
    BY DEF AnswersAgree
  <2>1. /\ requests[p].answer \in Answers /\ requests[q].answer \in Answers
        /\ requests[p].callback \in Callbacks
        /\ Committed(requests[p].callback, requests[p].answer)
        /\ Committed(requests[q].callback, requests[q].answer)
    BY AnsweredRow DEF Row
  <2>2. requests[p].answer.order = requests[q].answer.order
    BY <2>1 DEF Committed
  <2> QED  BY <2>1, <2>2 DEF Committed, Answers, Callbacks
<1> QED  BY <1>1, RequestsInvAlways, PTL

\* What a 200 says of the order stays true for ever.
THEOREM AnswersTrue == RequestsSpec => []AnswersStayTrue
<1>1. RequestsInv => AnswersStayTrue
  BY AnsweredRow DEF AnswersStayTrue, Committed
<1> QED  BY <1>1, RequestsInvAlways, PTL

LEMMA LocksStep == RequestsInv /\ [RequestsNext]_allVars => [LocksKept]_requestVars
<1> SUFFICES ASSUME RequestsInv, RequestsNext, NEW q \in Requests,
                    NEW c \in CallbackKeys, At(q, "release"),
                    requests'[q].step = "done", locks[c] \notin {q, NoRequest}
             PROVE  locks'[c] = locks[c]
  BY DEF LocksKept, allVars
<1>0. /\ requests[q] \in Row /\ requests[q].step = "release"
      /\ requests \in [Requests -> {Missing, Crashed} \cup Row]
      /\ locks \in [CallbackKeys -> Requests \cup {NoRequest}]
  BY RowAt DEF RequestsInv, RequestsTypeOK, Row, Steps
<1>1. ASSUME NEW p \in Requests, RequestStep(p), p # q
      PROVE  FALSE
  <2>1. RowMoves(p)
    BY <1>1, RequestsStepIsPurchaseStep, PaymentInvStep, RequestMoves
       DEF RequestsInv, RequestsNext
  <2>2. requests'[q] = requests[q]
    BY <1>0, <1>1, <2>1 DEF RowMoves
  <2> QED  BY <1>0, <2>2
<1>2. CASE RequestStep(q)
  <2>1. requests[q] # Missing
    BY DEF At
  <2>2. ReleaseLock(q) \/ Crash(q)
    BY <1>0, <1>2, <2>1
       DEF RequestStep, Deliver, DeliverDemo, SettleDemo, ReadCache, AcquireLock,
           RecheckCache, CommitCallback, RollBackCallback, StoreResult, At
  <2>3. CASE ReleaseLock(q)
    BY <1>0, <2>3 DEF ReleaseLock
  <2>4. CASE Crash(q)
    BY <2>4 DEF Crash
  <2> QED  BY <2>2, <2>3, <2>4
<1>3. ASSUME NEW d \in CallbackKeys, Forget(d)
      PROVE  FALSE
  BY <1>0, <1>3 DEF Forget
<1>4. CASE UNCHANGED requestVars
  BY <1>4 DEF requestVars
<1> QED  BY <1>1, <1>2, <1>3, <1>4 DEF RequestsNext

\* A delivery whose lock expired and was taken by another leaves it alone.
THEOREM LocksRespected == RequestsSpec => OthersLockKept
<1>1. RequestsSpec => [][RequestsNext]_allVars
  BY DEF RequestsSpec, allVars
<1> QED  BY <1>1, RequestsInvAlways, LocksStep, PTL DEF OthersLockKept

=============================================================================
