-------------------------- MODULE AdmissionPolling --------------------------
(***************************************************************************)
(* The controller of one browser tab (frontend/admission-polling.js): it   *)
(* reads a user's place in an event's queue again and again, sends joins   *)
(* and cancels, and repeats one frozen purchase until its outcome is       *)
(* known.  At most one exchange with the API is current; one that timed    *)
(* out or was pre-empted is abandoned, but the server may still execute it *)
(* and its answer may still arrive.  late is the last of them.             *)
(*                                                                         *)
(* The server here is what the tab relies on: the epoch of the queue and   *)
(* the place of one user in it.  Other tabs of the same user act on the    *)
(* same place.  consumed, cancelled and expired are one state, "ended",    *)
(* and a purchase that was made and one that was refused one answer,       *)
(* "decided": the controller treats them alike.  What becomes of a         *)
(* purchase is AdmissionConsumption's subject.                             *)
(*                                                                         *)
(* Time: held says that the error wait is not over; a timer armed with     *)
(* "wait" is due no earlier than its end, one armed with "any" at any      *)
(* time.  Both clocks are the tab's, so the order is certain.              *)
(***************************************************************************)
EXTENDS Integers, Sequences

CONSTANTS
    Forms,        \* what a purchase may ask for: tier and quantity
    AutoRetries,  \* purchaseAutoRetries
    None,
    MaxEpoch,     \* bounds the resets of the queue
    MaxEntries,   \* bounds the entries of the user
    MaxKeys       \* bounds the join keys of the tab

ASSUME PollingAssumption ==
    /\ AutoRetries \in Nat
    /\ {MaxEpoch, MaxEntries, MaxKeys} \subseteq Nat \ {0}

VARIABLES
    queue,     \* the server: epoch, and the user's entries in order
    tab,       \* the controller
    late,      \* the exchange abandoned last, while the network still holds it
    pending,   \* sessionStorage: the purchase whose outcome is open
    open       \* history: sent purchases the user was not told the outcome of

pollingVars == <<queue, tab, late, pending, open>>

Live == {"waiting", "admitted", "processing"}
States == Live \cup {"ended"}

Ids == 1..MaxEntries
Keys == 1..MaxKeys
Epochs == 1..MaxEpoch
Bodies == [id : Ids, form : Forms]
Places == [id : Ids, state : States]
Kinds == {"status", "join", "cancel", "purchase"}

\* A refusal without effect (429, 5xx, 401, 404, another 4xx), or a request or
\* an answer that is lost on the way.
Failures == {"undecided", "unauthenticated", "not-enabled", "refused"}

\* What an exchange asks for, and how it may be answered.
Arguments(kind) ==
    CASE kind = "status" -> {None}
      [] kind = "join" -> [epoch : Epochs, key : Keys]
      [] kind = "cancel" -> Ids
      [] kind = "purchase" -> Bodies

Sightings == [code : {"seen"}, epoch : Epochs, entry : Places \cup {None}]

AnswersTo(kind) ==
    IF kind = "purchase" THEN [code : Failures \cup {"decided"}]
    ELSE [code : Failures] \cup Sightings

Exchanges(kind) ==
    [kind : {kind}, argument : Arguments(kind), answer : AnswersTo(kind) \cup {None},
     current : BOOLEAN]

Intents == [epoch : Epochs, key : Keys, from : Ids \cup {None}]

Purchases ==
    [body : Bodies, status : {"sending", "retrying", "unconfirmed"}, auto : 0..AutoRetries]

Queues == [epoch : Epochs, entries : Seq([key : 0..MaxKeys, state : States \cup {"gone"}])]

\* None is told from whatever may stand in its place.
ASSUME NoneAssumption ==
    /\ None \notin Ids /\ None \notin Bodies /\ None \notin Places
    /\ None \notin Intents /\ None \notin Purchases
    /\ \A kind \in Kinds : None \notin AnswersTo(kind) /\ None \notin Exchanges(kind)

\* A controller that just started, with the purchase it restored.
NewController(body) ==
    [phase |-> "loading", epoch |-> 0, entry |-> None, reset |-> FALSE,
     stopped |-> FALSE, held |-> FALSE, timer |-> "none", flight |-> None, busy |-> FALSE,
     intent |-> None,
     purchase |-> IF body = None THEN None
                  ELSE [body |-> body, status |-> "unconfirmed", auto |-> AutoRetries]]

\* The controller with one of these exchanges.
Controllers(flights) ==
    [phase : States \cup {"loading", "not-enabled", "not-joined", "reset"},
     epoch : 0..MaxEpoch, entry : Places \cup {None}, reset : BOOLEAN, stopped : BOOLEAN,
     held : BOOLEAN, timer : {"none", "any", "wait"}, flight : flights, busy : BOOLEAN,
     intent : Intents \cup {None}, purchase : Purchases \cup {None}]

PollingTypeOK ==
    /\ queue \in Queues
    /\ Len(queue.entries) <= MaxEntries
    /\ pending \in Bodies \cup {None}
    /\ open \subseteq Bodies
    /\ tab \in Controllers({tab.flight})
    /\ \A x \in {tab.flight, late} \ {None} : x.kind \in Kinds /\ x \in Exchanges(x.kind)

----------------------------------------------------------------------------
(* The tab's own operations.  c is the controller's record.                *)

\* send: the exchange becomes the current one.
Send(c, kind, argument) ==
    [c EXCEPT !.flight = [kind |-> kind, argument |-> argument, answer |-> None,
                          current |-> TRUE]]

Drop(c) == [c EXCEPT !.flight = None]
Unschedule(c) == [c EXCEPT !.timer = "none"]
Schedule(c, due) == [c EXCEPT !.timer = due]
Preempt(c) == Unschedule(Drop(c))

\* What a step that drops the current exchange leaves on the network.  A read
\* the server has not answered can have no effect any more.
Abandons(x) ==
    late' = IF x = None THEN late
            ELSE IF x.kind = "status" /\ x.answer = None THEN late
                 ELSE [x EXCEPT !.current = FALSE]

Purchasing(c) == c.purchase # None /\ c.purchase.status # "unconfirmed"

Poll(c) ==
    IF c.flight # None \/ Purchasing(c) THEN c ELSE Send(Unschedule(c), "status", None)

RefreshAtOnce(c) == Poll(c)

Refresh(c) == IF c.held THEN Schedule(c, "wait") ELSE Poll(c)

Recovered(c) == [c EXCEPT !.held = FALSE, !.stopped = FALSE]

\* apply: the entry of a usable answer.  A key ends with the first entry that
\* is another than the one its attempt started from.
Apply(c, seen) ==
    LET lost == /\ c.epoch # 0 /\ seen.epoch # c.epoch
                /\ c.entry # None /\ c.entry.state \in Live
        reset == seen.entry = None /\ (c.reset \/ lost)
    IN  [c EXCEPT
            !.epoch = seen.epoch,
            !.entry = seen.entry,
            !.reset = reset,
            !.intent = IF /\ c.intent # None /\ seen.entry # None
                          /\ seen.entry.id # c.intent.from
                       THEN None ELSE c.intent,
            !.phase = IF seen.entry # None THEN seen.entry.state
                      ELSE IF reset THEN "reset" ELSE "not-joined"]

\* accept: only a live entry asks for another poll.
Accept(c, seen) ==
    LET next == Apply(Recovered(c), seen)
    IN  IF seen.entry # None /\ seen.entry.state \in Live THEN Schedule(next, "any") ELSE next

Unqueued(c) == [Recovered(c) EXCEPT !.entry = None, !.phase = "not-enabled"]

FailWithoutRetry(c) == [c EXCEPT !.held = TRUE, !.stopped = FALSE]

\* fail: wait, then read again.
Fail(c) == [c EXCEPT !.held = TRUE, !.stopped = FALSE, !.timer = "wait"]

\* An answer that ends the polling until the page or the user asks again.
Stops(c) == [c EXCEPT !.stopped = TRUE]

\* usable: about this event, with an entry of the queue's epoch or with none.
Usable(answer) == answer.code = "seen"

\* onStatus
OnStatus(c, answer) ==
    CASE Usable(answer) -> Accept(c, answer)
      [] answer.code = "not-enabled" -> Unqueued(c)
      [] answer.code = "undecided" -> Fail(c)
      [] answer.code \in {"unauthenticated", "refused"} -> Stops(c)

\* refused: a join or cancel that did not succeed.
Refused(c, answer) ==
    CASE answer.code = "unauthenticated" -> Stops(c)
      [] answer.code = "undecided" -> Fail(c)
      [] OTHER -> Refresh(c)

OnJoin(c, answer) ==
    CASE Usable(answer) -> Accept(c, answer)
      [] answer.code = "not-enabled" -> Unqueued([c EXCEPT !.intent = None])
      [] answer.code = "undecided" -> Refused(c, answer)
      [] OTHER -> [Refused(c, answer) EXCEPT !.intent = None]

OnCancel(c, target, answer) ==
    IF Usable(answer) /\ answer.entry # None /\ answer.entry.id = target
    THEN Accept(c, answer) ELSE Refused(c, answer)

\* attempt: an answer without a decision is followed by the same request,
\* AutoRetries times; then it waits for its button.
OnPurchase(c, answer) ==
    IF answer.code # "undecided"
    THEN Refresh([c EXCEPT !.purchase = None])
    ELSE IF c.purchase.auto >= AutoRetries
         THEN Refresh([c EXCEPT !.purchase.status = "unconfirmed"])
         ELSE [c EXCEPT !.purchase.status = "retrying", !.purchase.auto = @ + 1]

Attempt(c) == Send([c EXCEPT !.purchase.status = "sending"], "purchase", c.purchase.body)

\* done, for each kind of request.
Done(c, x, answer) ==
    LET free == Drop(c)
    IN  CASE x.kind = "status" -> OnStatus(free, answer)
          [] x.kind = "join" -> OnJoin([free EXCEPT !.busy = FALSE], answer)
          [] x.kind = "cancel" -> OnCancel([free EXCEPT !.busy = FALSE], x.argument, answer)
          [] x.kind = "purchase" -> OnPurchase(free, answer)

FinishAny(c, x, answer) ==
    IF x.current \/ x.kind # "purchase" \/ c.purchase # None THEN Done(c, x, answer) ELSE c

\* finish: an exchange that is not the current one any more changes nothing.
Finish(c, x, answer) == IF x.current THEN Done(c, x, answer) ELSE c

----------------------------------------------------------------------------
(* What the tab does.                                                      *)

\* The outcome of a purchase reaches the user with its first decided answer,
\* which also ends the stored record.
Reports(x, answer) ==
    IF x.current /\ x.kind = "purchase" /\ answer.code # "undecided"
    THEN pending' = None /\ open' = open \ {x.argument}
    ELSE UNCHANGED <<pending, open>>

Completes(x, answer) == tab' = Finish(tab, x, answer) /\ Reports(x, answer)

\* An answer of the server arrives: to the current exchange, or too late.
Receive ==
    /\ tab.flight # None /\ tab.flight.answer # None
    /\ Completes(tab.flight, tab.flight.answer)
    /\ UNCHANGED <<queue, late>>

ReceiveLate ==
    /\ late # None /\ late.answer # None
    /\ Completes(late, late.answer)
    /\ late' = None
    /\ UNCHANGED queue

Miss(code) ==
    /\ tab.flight # None
    /\ code = "undecided" \/ tab.flight.answer = None
    /\ Completes(tab.flight, [code |-> code])
    /\ UNCHANGED <<queue, late>>

MissLate ==
    /\ late # None
    /\ late' = None
    /\ UNCHANGED <<queue, tab, pending, open>>

\* The current exchange is given up; the network keeps it.
TimeOut ==
    /\ tab.flight # None
    /\ Completes(tab.flight, [code |-> "undecided"])
    /\ Abandons(tab.flight)
    /\ UNCHANGED queue

WaitEnds ==
    /\ tab.held
    /\ tab' = [tab EXCEPT !.held = FALSE]
    /\ UNCHANGED <<queue, late, pending, open>>

PollTimer ==
    /\ tab.timer # "none"
    /\ tab.timer = "wait" => ~tab.held
    /\ tab' = Poll(Unschedule(tab))
    /\ UNCHANGED <<queue, late, pending, open>>

PurchaseTimer ==
    /\ tab.purchase # None
    /\ tab.purchase.status = "retrying"
    /\ tab' = Attempt(tab)
    /\ UNCHANGED <<queue, late, pending, open>>

\* onVisibility: the page is shown again.  Hiding it only moves a poll out.
Return ==
    /\ tab.flight = None /\ ~Purchasing(tab) /\ tab.phase # "not-enabled"
    /\ tab' = IF ~tab.held THEN Schedule(tab, "any")
              ELSE IF tab.timer # "none" THEN Schedule(tab, "wait") ELSE tab
    /\ UNCHANGED <<queue, late, pending, open>>

----------------------------------------------------------------------------
(* What the user does.  The buttons are disabled by the same conditions.   *)

Idle == ~tab.busy /\ tab.purchase = None

MayMutate == Idle /\ ~tab.held

Mutate(c, kind, argument) ==
    /\ tab' = Send([Preempt(c) EXCEPT !.busy = TRUE], kind, argument)
    /\ Abandons(tab.flight)

MayJoin ==
    /\ MayMutate
    /\ tab.epoch # 0
    /\ tab.phase \in {"ended", "not-joined", "reset"}

\* uuid: a key nothing refers to any more is as good as one never used.
KeysInUse ==
    {queue.entries[id].key : id \in DOMAIN queue.entries}
        \cup {x.argument.key : x \in {y \in {tab.flight, late} \ {None} : y.kind = "join"}}

NewKey ==
    LET free == {k \in 1..MaxKeys : k \notin KeysInUse}
    IN  {k \in free : \A other \in free : k <= other}

Retries == tab.intent # None /\ tab.intent.epoch = tab.epoch

\* A retry of an attempt in the same epoch repeats its key.
JoinAgain ==
    /\ MayJoin
    /\ Retries
    /\ Mutate(tab, "join", [epoch |-> tab.epoch, key |-> tab.intent.key])
    /\ UNCHANGED <<queue, pending, open>>

\* The key of a new attempt names the entry it starts from.
Join ==
    /\ MayJoin
    /\ ~Retries
    /\ \E key \in NewKey :
         LET intent == [epoch |-> tab.epoch, key |-> key,
                        from |-> IF tab.entry = None THEN None ELSE tab.entry.id]
         IN  Mutate([tab EXCEPT !.intent = intent], "join", [epoch |-> tab.epoch, key |-> key])
    /\ UNCHANGED <<queue, pending, open>>

Cancel ==
    /\ MayMutate
    /\ tab.phase \in {"waiting", "admitted"}
    /\ Mutate(tab, "cancel", tab.entry.id)
    /\ UNCHANGED <<queue, pending, open>>

Buys(body) == [body |-> body, status |-> "sending", auto |-> 0]

StartUnsaved(form) ==
    LET body == [id |-> tab.entry.id, form |-> form]
    IN  /\ Idle
        /\ tab.phase = "admitted"
        /\ tab' = Attempt([Preempt(tab) EXCEPT !.purchase = Buys(body)])
        /\ Abandons(tab.flight)
        /\ open' = open \cup {body}
        /\ UNCHANGED <<queue, pending>>

\* startPurchase: not held back by the error wait, and stored before it is sent.
StartPurchase(form) ==
    LET body == [id |-> tab.entry.id, form |-> form]
    IN  /\ Idle
        /\ tab.phase = "admitted"
        /\ pending' = body
        /\ tab' = Attempt([Preempt(tab) EXCEPT !.purchase = Buys(body)])
        /\ Abandons(tab.flight)
        /\ open' = open \cup {body}
        /\ UNCHANGED queue

RetryPurchase ==
    /\ ~tab.busy /\ tab.purchase # None
    /\ tab.purchase.status = "unconfirmed"
    /\ tab' = Attempt([Preempt(tab) EXCEPT !.purchase.auto = 0])
    /\ Abandons(tab.flight)
    /\ UNCHANGED <<queue, pending, open>>

\* stopPurchase: the page was cleared while the purchase was being sent.
StopPurchase ==
    /\ Purchasing(tab)
    /\ tab' = Refresh([Drop(tab) EXCEPT !.purchase.status = "unconfirmed"])
    /\ Abandons(tab.flight)
    /\ UNCHANGED <<queue, pending, open>>

\* dispose, and start of the controller that follows: a reload, a recheck, or
\* another context and back.
Restart ==
    /\ tab' = Poll(NewController(pending))
    /\ Abandons(tab.flight)
    /\ UNCHANGED <<queue, pending, open>>

----------------------------------------------------------------------------
(* The server, as the tab meets it.                                        *)

StateOf(id) == queue.entries[id].state

\* The user's latest entry, 0 if the epoch has none.
Latest ==
    LET n == Len(queue.entries)
    IN  IF n = 0 \/ StateOf(n) = "gone" THEN 0 ELSE n

LatestLive == Latest # 0 /\ StateOf(Latest) \in Live

SeenAs(id, state) == [code |-> "seen", epoch |-> queue.epoch, entry |-> [id |-> id, state |-> state]]
Seen(id) ==
    IF id = 0 THEN [code |-> "seen", epoch |-> queue.epoch, entry |-> None]
    ELSE SeenAs(id, StateOf(id))

Unanswered(kind) == {x \in {tab.flight, late} \ {None} : x.kind = kind /\ x.answer = None}

\* The answer to an abandoned exchange arrives as soon as it is given.
Answers(x, answer) ==
    IF x.current THEN tab' = [tab EXCEPT !.flight.answer = answer] /\ UNCHANGED late
    ELSE tab' = Finish(tab, x, answer) /\ late' = None

Becomes(id, state) ==
    queue' = [queue EXCEPT !.entries[id].state = state]

Enters(key) ==
    queue' = [queue EXCEPT !.entries = Append(@, [key |-> key, state |-> "waiting"])]

ServeStatus ==
    /\ \E x \in Unanswered("status") : Answers(x, Seen(Latest))
    /\ UNCHANGED <<queue, pending, open>>

\* The key finds its own entry again; another live entry refuses a new one.
ServeJoin ==
    /\ \E x \in Unanswered("join") :
         LET own == {id \in DOMAIN queue.entries : queue.entries[id].key = x.argument.key}
             stale == x.argument.epoch # queue.epoch
         IN  \/ \E id \in own : ~stale /\ Answers(x, Seen(id)) /\ UNCHANGED queue
             \/ /\ stale \/ (own = {} /\ LatestLive)
                /\ Answers(x, [code |-> "refused"]) /\ UNCHANGED queue
             \/ /\ ~stale /\ own = {} /\ ~LatestLive
                /\ Len(queue.entries) < MaxEntries
                /\ Enters(x.argument.key)
                /\ Answers(x, SeenAs(Len(queue.entries) + 1, "waiting"))
    /\ UNCHANGED <<pending, open>>

\* An entry that was cancelled answers again, one that ended otherwise refuses.
ServeCancel ==
    /\ \E x \in Unanswered("cancel") :
         \/ /\ StateOf(x.argument) \in {"waiting", "admitted", "ended"}
            /\ Becomes(x.argument, "ended")
            /\ Answers(x, SeenAs(x.argument, "ended"))
         \/ /\ StateOf(x.argument) \in {"processing", "ended", "gone"}
            /\ Answers(x, [code |-> "refused"]) /\ UNCHANGED queue
    /\ UNCHANGED <<pending, open>>

\* Claimed first, decided later; a repetition finds the claim or the result.
ServePurchase ==
    /\ \E x \in Unanswered("purchase") :
         LET id == x.argument.id
         IN  \/ /\ StateOf(id) = "admitted"
                /\ Becomes(id, "processing")
                /\ UNCHANGED <<tab, late>>
             \/ /\ StateOf(id) = "processing"
                /\ Becomes(id, "ended")
                /\ Answers(x, [code |-> "decided"])
             \/ /\ StateOf(id) \in {"ended", "gone"}
                /\ Answers(x, [code |-> "decided"]) /\ UNCHANGED queue
    /\ UNCHANGED <<pending, open>>

\* Promotion, and the end of a waiting, an admission or an abandoned claim.
Promote ==
    /\ Latest # 0 /\ StateOf(Latest) = "waiting"
    /\ Becomes(Latest, "admitted")
    /\ UNCHANGED <<tab, late, pending, open>>

Expire ==
    /\ LatestLive
    /\ Becomes(Latest, "ended")
    /\ UNCHANGED <<tab, late, pending, open>>

\* Another tab of the user joins.
OtherJoin ==
    /\ ~LatestLive /\ Len(queue.entries) < MaxEntries
    /\ Enters(0)
    /\ UNCHANGED <<tab, late, pending, open>>

\* A recovery after the loss of Redis.
ResetQueue ==
    /\ queue.epoch < MaxEpoch
    /\ queue' = [epoch |-> queue.epoch + 1,
                 entries |-> [id \in DOMAIN queue.entries |->
                                 [key |-> 0, state |-> "gone"]]]
    /\ UNCHANGED <<tab, late, pending, open>>

----------------------------------------------------------------------------
PollingInit ==
    /\ queue = [epoch |-> 1, entries |-> <<>>]
    /\ pending = None
    /\ open = {}
    /\ late = None
    /\ tab = Poll(NewController(None))

TabNext ==
    \/ Receive \/ ReceiveLate \/ (\E code \in Failures : Miss(code)) \/ MissLate \/ TimeOut
    \/ WaitEnds \/ PollTimer \/ PurchaseTimer \/ Return

UserNext ==
    \/ Join \/ JoinAgain \/ Cancel
    \/ \E form \in Forms : StartPurchase(form)
    \/ RetryPurchase \/ StopPurchase
    \/ Restart

ServerNext ==
    \/ ServeStatus \/ ServeJoin \/ ServeCancel \/ ServePurchase
    \/ Promote \/ Expire \/ OtherJoin \/ ResetQueue

PollingNext == TabNext \/ UserNext \/ ServerNext

PollingSpec == PollingInit /\ [][PollingNext]_pollingVars

\* The tab's timers run, the timeout of an exchange among them, and a read that
\* is sent again and again is answered in time again and again.
FairPollingSpec ==
    /\ PollingSpec
    /\ WF_pollingVars(WaitEnds) /\ SF_pollingVars(PollTimer) /\ WF_pollingVars(PurchaseTimer)
    /\ WF_pollingVars(TimeOut)
    /\ SF_pollingVars(ServeStatus)
    /\ SF_pollingVars(tab.flight # None /\ tab.flight.kind = "status" /\ Receive)

----------------------------------------------------------------------------
(* Properties.                                                             *)

\* A purchase that was sent and not decided is the one the tab repeats and the
\* one a reload restores: neither a retry, a cleared page, a late answer nor a
\* new controller lets another purchase take its place (startPurchase,
\* attempt, stopPurchase, restorePurchase).
OneOpenPurchase ==
    \A body \in open : pending = body /\ tab.purchase # None /\ tab.purchase.body = body

\* While the wait after a failure lasts no request to the queue API is out,
\* whichever way it was asked for: a timer, a refresh, a return to the page, a
\* join or a cancel (notBefore; only a purchase is not held back).
QueueWaitHeld == tab.held /\ tab.flight # None => tab.flight.kind = "purchase"

Rank(state) == CASE state = "waiting" -> 0 [] state = "admitted" -> 1
                 [] state = "processing" -> 2 [] state = "ended" -> 3

\* view: the place as the page is told it.
View == [epoch |-> tab.epoch, entry |-> tab.entry]

\* seen is not an older place than before.
NotBack(before, seen) ==
    \/ before.epoch < seen.epoch
    \/ /\ before.epoch = seen.epoch
       /\ \/ before.entry.id < seen.entry.id
          \/ /\ before.entry.id = seen.entry.id
             /\ Rank(before.entry.state) <= Rank(seen.entry.state)

ViewKept == tab.entry # None /\ tab'.entry # None => NotBack(View, View')

\* What the page shows of the place never moves back: not to an earlier epoch,
\* entry or state, whatever was abandoned on the way (finish).  A new
\* controller starts from nothing.
ViewNeverGoesBack == [][ViewKept]_pollingVars

\* A tab that shows a waiting entry finds out that it was promoted, ended or
\* lost, unless it was answered with a refusal that ends the polling
\* (accept, fail, refresh, attempt: each leaves a way to the next poll).
Outdated ==
    /\ tab.entry # None /\ tab.entry.state = "waiting"
    /\ queue.entries[tab.entry.id].state # "waiting"

PromotionSeen == Outdated ~> (~Outdated \/ tab.stopped)
=============================================================================
