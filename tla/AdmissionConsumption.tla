------------------------ MODULE AdmissionConsumption ------------------------
(***************************************************************************)
(* How an admission becomes one purchase of a protected event              *)
(* (core/services/admission-consumption.ts).  PostgreSQL decides:          *)
(* admission_results, the ledger, is written in the transaction of the     *)
(* reservation or order; Redis approves the claim beforehand and is told   *)
(* the result after COMMIT.                                                *)
(*                                                                         *)
(* A purchase transaction is SERIALIZABLE: it reads the snapshot of its    *)
(* first statement, taken before it waits for any lock.  A request that    *)
(* fails without a definite answer (503, 409 in progress, a dropped        *)
(* connection, a crash) ends with none: the client may send it again,      *)
(* which is another request with the same command.                         *)
(*                                                                         *)
(* Every admission here was admitted in FirstEpoch, to one user.           *)
(***************************************************************************)
EXTENDS Integers, FiniteSets

CONSTANTS
    Admissions,
    Commands,         \* the purchase commands a user may send: fingerprints
    DirectCheckouts,  \* those that buy without a reservation, each with its checkout key
    Requests,         \* purchase requests, each handled once
    Reclaimers,       \* instances whose scheduler reclaims overdue claims
    NoResult, NoAdmission, NoCommand,
    Attempts,         \* of serializableTransactionWithRetry
    LastEpoch         \* bounds the recoveries

ASSUME ConsumptionAssumption ==
    /\ DirectCheckouts \subseteq Commands
    /\ Attempts \in Nat \ {0}
    /\ LastEpoch \in Nat \ {0}

FirstEpoch == 1

VARIABLES
    ledger,       \* admission_results by admission: outcome and command
    occupations,  \* the reservations and orders that were committed
    epoch,        \* of the event's row in admission_events
    serving,      \* the policy is open and its namespace ready in Redis
    queue,        \* the admission's record in Redis
    requests,     \* the progress of each request
    reclaimers,   \* the progress of each reclaimer
    answers       \* the definite answers sent

consumptionVars == <<ledger, occupations, epoch, serving, queue, requests,
                     reclaimers, answers>>

Results == [outcome : {"consumed", "rejected", "closed"}, command : Commands]

ASSUME NullsAssumption == NoCommand \notin Commands /\ NoResult \notin Results

Occupations == [admission : Admissions, command : Commands, by : Requests]

Snapshots == [ledger : [Admissions -> Results \cup {NoResult}],
              occupations : SUBSET Occupations, epoch : FirstEpoch..LastEpoch]

RequestRows ==
    [pc : {"idle", "gate", "lock", "key", "claim", "occupy", "commit", "settle",
           "recheck", "done"},
     admission : Admissions \cup {NoAdmission}, command : Commands \cup {NoCommand},
     seen : Snapshots, attempt : 1..Attempts, again : BOOLEAN,
     code : {"none", "consumed", "rejected", "reset", "mismatch", "busy", "admitted",
             "expired", "gone"}]

ReclaimerRows ==
    [pc : {"idle", "reclaim", "closing", "report"},
     admission : Admissions \cup {NoAdmission}, command : Commands \cup {NoCommand}]

ConsumptionTypeOK ==
    /\ ledger \in [Admissions -> Results \cup {NoResult}]
    /\ occupations \in SUBSET Occupations
    /\ epoch \in FirstEpoch..LastEpoch
    /\ serving \in BOOLEAN
    /\ queue \in [Admissions -> [state : {"admitted", "claimed", "consumed", "expired", "gone"},
                                 command : Commands \cup {NoCommand}, overdue : BOOLEAN]]
    /\ requests \in [Requests -> RequestRows]
    /\ reclaimers \in [Reclaimers -> ReclaimerRows]
    /\ answers \subseteq [admission : Admissions, command : Commands,
                          code : {"target", "rejected", "error", "closed", "reset", "mismatch",
                                  "admitted", "consumed", "expired", "gone"}]

Snapshot == [ledger |-> ledger, occupations |-> occupations, epoch |-> epoch]

NothingSeen == [ledger |-> [a \in Admissions |-> NoResult], occupations |-> {},
                epoch |-> FirstEpoch]

NewRequest == [pc |-> "idle", admission |-> NoAdmission, command |-> NoCommand,
               seen |-> NothingSeen, attempt |-> 1, again |-> FALSE, code |-> "none"]

NewReclaimer == [pc |-> "idle", admission |-> NoAdmission, command |-> NoCommand]

ConsumptionInit ==
    /\ ledger = [a \in Admissions |-> NoResult]
    /\ occupations = {}
    /\ epoch = FirstEpoch
    /\ serving = TRUE
    /\ queue = [a \in Admissions |-> [state |-> "admitted", command |-> NoCommand,
                                      overdue |-> FALSE]]
    /\ requests = [q \in Requests |-> NewRequest]
    /\ reclaimers = [k \in Reclaimers |-> NewReclaimer]
    /\ answers = {}

----------------------------------------------------------------------------
(* Locks: held from the step that takes them to the end of the transaction. *)

\* The shared gate of the event.
InsideGate ==
    {q \in Requests : requests[q].pc \in {"lock", "key", "claim", "occupy", "commit"}}
        \cup {k \in Reclaimers : reclaimers[k].pc = "closing"}

AdmissionLocked(a) ==
    \/ \E q \in Requests : /\ requests[q].admission = a
                           /\ requests[q].pc \in {"key", "claim", "occupy", "commit"}
    \/ \E k \in Reclaimers : reclaimers[k].admission = a /\ reclaimers[k].pc = "closing"

\* The advisory lock of a checkout key.
KeyLocked(c) ==
    /\ c \in DirectCheckouts
    /\ \E q \in Requests : /\ requests[q].command = c
                           /\ requests[q].pc \in {"claim", "occupy", "commit"}

----------------------------------------------------------------------------
(* What becomes of a request.                                              *)

Become(q, r) == requests' = [requests EXCEPT ![q] = r]

Moves(q, pc) == Become(q, [requests[q] EXCEPT !.pc = pc])

Done(q) == Become(q, [NewRequest EXCEPT !.pc = "done"])

Answered(q, code) ==
    /\ Done(q)
    /\ answers' = answers \cup {[admission |-> requests[q].admission,
                                 command |-> requests[q].command, code |-> code]}

Unanswered(q) == Done(q) /\ UNCHANGED answers

\* A new transaction, with a new snapshot.
Begins(q, r) == Become(q, [r EXCEPT !.pc = "gate", !.seen = Snapshot])

\* A serialization failure, or the race on the ledger's key: rolled back, and
\* begun again while attempts are left.
Conflict(q) ==
    /\ IF requests[q].attempt < Attempts
       THEN Begins(q, [requests[q] EXCEPT !.attempt = @ + 1])
       ELSE Done(q)
    /\ UNCHANGED answers

durable == <<ledger, occupations, epoch>>

----------------------------------------------------------------------------
(* The purchase transaction.                                               *)

Arrive(q, a, c) ==
    /\ requests[q].pc = "idle"
    /\ Begins(q, [requests[q] EXCEPT !.admission = a, !.command = c])
    /\ UNCHANGED <<durable, serving, queue, reclaimers, answers>>

\* The order of the request's checkout key, as its snapshot has it.
OrdersSeen(q) ==
    {o \in requests[q].seen.occupations :
        o.command = requests[q].command /\ o.command \in DirectCheckouts}

\* assertAdmissionLink: the order of the key was bought with this admission.
LinkMatches(q) == \E o \in OrdersSeen(q) : o.admission = requests[q].admission

\* A checkout whose key has an order takes no gate: it answers with the order
\* when the admission submitted is the one the order is linked to.
ReplayOrder(q) ==
    /\ requests[q].pc = "gate"
    /\ OrdersSeen(q) # {}
    /\ ~KeyLocked(requests[q].command)
    /\ Answered(q, IF LinkMatches(q) THEN "target" ELSE "mismatch")
    /\ UNCHANGED <<durable, serving, queue, reclaimers>>

\* The policy is read with FOR SHARE: a row newer than the snapshot is a conflict.
EnterGate(q) ==
    /\ requests[q].pc = "gate"
    /\ OrdersSeen(q) = {}
    /\ \/ requests[q].seen.epoch = epoch /\ Moves(q, "lock") /\ UNCHANGED answers
       \/ requests[q].seen.epoch # epoch /\ Conflict(q)
    /\ UNCHANGED <<durable, serving, queue, reclaimers>>

LockAdmission(q) ==
    /\ requests[q].pc = "lock"
    /\ ~AdmissionLocked(requests[q].admission)
    /\ Moves(q, "key")
    /\ UNCHANGED <<durable, serving, queue, reclaimers, answers>>

\* lock_timeout, on the admission or on the checkout key.
LockTimeout(q) ==
    /\ \/ requests[q].pc = "lock" /\ AdmissionLocked(requests[q].admission)
       \/ requests[q].pc = "key" /\ KeyLocked(requests[q].command)
    /\ Unanswered(q)
    /\ UNCHANGED <<durable, serving, queue, reclaimers>>

\* ownResult: what the ledger row says to this request.  A consumed checkout
\* without its order is an error the code expects never to meet.
OwnResult(prior, c) ==
    IF prior.command # c THEN "mismatch"
    ELSE IF prior.outcome = "consumed"
         THEN IF c \in DirectCheckouts THEN "error" ELSE "target"
         ELSE prior.outcome

\* The ledger as the snapshot has it: a stored result is the answer.
Judge(q) ==
    LET prior == requests[q].seen.ledger[requests[q].admission]
    IN  /\ requests[q].pc = "key"
        /\ ~KeyLocked(requests[q].command)
        /\ \/ prior = NoResult /\ Moves(q, "claim") /\ UNCHANGED answers
           \/ prior # NoResult /\ Answered(q, OwnResult(prior, requests[q].command))
        /\ UNCHANGED <<durable, serving, queue, reclaimers>>

\* The script takes the command's own claim, or the admission nobody claimed.
Approves(a, c) ==
    /\ epoch = FirstEpoch
    /\ queue[a].command \in {NoCommand, c}
    /\ queue[a].state \in {"admitted", "claimed"} /\ ~queue[a].overdue

Refusal(a, c) ==
    IF epoch # FirstEpoch THEN "reset"
    ELSE IF queue[a].command \notin {NoCommand, c} THEN "mismatch"
    ELSE IF queue[a].state = "claimed" THEN "busy"
    ELSE queue[a].state

\* AdmissionService.claim: the answer of the script.
ClaimInRedis(a, c) ==
    queue' = IF Approves(a, c)
             THEN [queue EXCEPT ![a].state = "claimed", ![a].command = c] ELSE queue

\* A refusal without a ledger row: the transaction is over, and it is looked at once more
\* before it is the answer.
Refused(q, code) == Become(q, [requests[q] EXCEPT !.pc = "recheck", !.code = code])

\* The claim; without a namespace that serves there is no answer.
Claim(q) ==
    LET a == requests[q].admission
        c == requests[q].command
    IN  /\ requests[q].pc = "claim"
        /\ IF ~serving THEN Done(q) /\ UNCHANGED queue
           ELSE /\ ClaimInRedis(a, c)
                /\ IF Approves(a, c) THEN Moves(q, "occupy")
                   ELSE Refused(q, Refusal(a, c))
        /\ UNCHANGED <<durable, serving, reclaimers, answers>>

OccupyOnConflictDoNothing(q) ==
    /\ requests[q].pc = "occupy"
    /\ \/ /\ requests[q].seen.occupations = occupations
          /\ \E outcome \in {"consumed", "rejected"} :
                 Become(q, [requests[q] EXCEPT !.pc = "commit", !.code = outcome])
          /\ UNCHANGED answers
       \/ Conflict(q)
    /\ UNCHANGED <<durable, serving, queue, reclaimers>>

\* createReservation or createOrder inside the savepoint, then the INSERT of
\* the ledger row.  The event's row is locked FOR UPDATE: any occupation since
\* the snapshot is a conflict, and so is a ledger row the snapshot lacks.
Occupy(q) ==
    /\ requests[q].pc = "occupy"
    /\ \/ /\ requests[q].seen.occupations = occupations
          /\ ledger[requests[q].admission] = NoResult
          /\ \E outcome \in {"consumed", "rejected"} :
                 Become(q, [requests[q] EXCEPT !.pc = "commit", !.code = outcome])
          /\ UNCHANGED answers
       \/ Conflict(q)
    /\ UNCHANGED <<durable, serving, queue, reclaimers>>

\* COMMIT, acknowledged or not: an unacknowledged one settles nothing.
Commit(q) ==
    LET r == requests[q]
    IN  /\ r.pc = "commit"
        /\ ledger' = IF ledger[r.admission] = NoResult
                     THEN [ledger EXCEPT ![r.admission] = [outcome |-> r.code, command |-> r.command]]
                     ELSE ledger
        /\ occupations' = IF r.code = "consumed"
               THEN occupations \cup {[admission |-> r.admission, command |-> r.command, by |-> q]}
               ELSE occupations
        /\ Moves(q, "settle") \/ Done(q)
        /\ UNCHANGED <<epoch, serving, queue, reclaimers, answers>>

CommitConflict(q) ==
    /\ requests[q].pc = "commit"
    /\ Conflict(q)
    /\ UNCHANGED <<durable, serving, queue, reclaimers>>

\* complete and close in Redis, by whoever holds the claim: nothing more to do
\* once the admission is finalised, refused under another epoch.
Finalised(a, c, state) ==
    queue' = IF serving /\ epoch = FirstEpoch /\ queue[a].state = "claimed" /\ queue[a].command = c
             THEN [queue EXCEPT ![a].state = state]
             ELSE queue

\* settleAdmission: best effort, then the answer.
Settle(q) ==
    /\ requests[q].pc = "settle"
    /\ \/ Finalised(requests[q].admission, requests[q].command, "consumed")
       \/ UNCHANGED queue
    /\ Answered(q, IF requests[q].code = "consumed" THEN "target" ELSE "rejected")
    /\ UNCHANGED <<durable, serving, reclaimers>>

\* purchaseTransaction: a refusal stands unless the ledger has a row by now; a
\* fresh transaction then judges it, once.
RecheckNever(q) ==
    /\ requests[q].pc = "recheck"
    /\ IF requests[q].code = "busy" THEN Unanswered(q) ELSE Answered(q, requests[q].code)
    /\ UNCHANGED <<durable, serving, queue, reclaimers>>

Recheck(q) ==
    /\ requests[q].pc = "recheck"
    /\ IF ~requests[q].again /\ ledger[requests[q].admission] # NoResult
       THEN /\ Begins(q, [requests[q] EXCEPT !.again = TRUE, !.attempt = 1])
            /\ UNCHANGED answers
       ELSE IF requests[q].code = "busy" THEN Unanswered(q) ELSE Answered(q, requests[q].code)
    /\ UNCHANGED <<durable, serving, queue, reclaimers>>

\* A statement timeout, a lost connection, a 5xx of the occupation, a crash.
Fail(q) ==
    /\ requests[q].pc \notin {"idle", "done"}
    /\ Unanswered(q)
    /\ UNCHANGED <<durable, serving, queue, reclaimers>>

----------------------------------------------------------------------------
(* reclaimOverdueClaims.                                                   *)

Reclaimer(k, r) == reclaimers' = [reclaimers EXCEPT ![k] = r]

GivesUp(k) == Reclaimer(k, NewReclaimer)

\* reconcile hands an overdue claim to the reclaimer.
Reconcile(k, a) ==
    /\ reclaimers[k].pc = "idle"
    /\ serving
    /\ queue[a].state = "claimed" /\ queue[a].overdue
    /\ Reclaimer(k, [pc |-> "reclaim", admission |-> a, command |-> queue[a].command])
    /\ UNCHANGED <<durable, serving, queue, requests, answers>>

ReclaimIgnoringResults(k) ==
    LET r == reclaimers[k]
    IN  /\ r.pc = "reclaim"
        /\ \/ epoch # FirstEpoch /\ GivesUp(k)
           \/ AdmissionLocked(r.admission) /\ GivesUp(k)
           \/ /\ epoch = FirstEpoch /\ ~AdmissionLocked(r.admission)
              /\ IF ledger[r.admission] # NoResult
                 THEN GivesUp(k)
                 ELSE Reclaimer(k, [r EXCEPT !.pc = "closing"])
        /\ UNCHANGED <<durable, serving, queue, requests, answers>>

ReclaimByDeadline(k) ==
    /\ reclaimers[k].pc = "reclaim"
    /\ Reclaimer(k, [reclaimers[k] EXCEPT !.pc = "report"])
    /\ UNCHANGED <<durable, serving, queue, requests, answers>>

\* READ COMMITTED: the ledger is read once the lock is held.  A lock that is
\* held, or a newer epoch, leaves the claim for the next tick.
Reclaim(k) ==
    LET r == reclaimers[k]
    IN  /\ r.pc = "reclaim"
        /\ \/ epoch # FirstEpoch /\ GivesUp(k)
           \/ AdmissionLocked(r.admission) /\ GivesUp(k)
           \/ /\ epoch = FirstEpoch /\ ~AdmissionLocked(r.admission)
              /\ Reclaimer(k, [r EXCEPT !.pc = IF ledger[r.admission] # NoResult
                                               THEN "report" ELSE "closing"])
        /\ UNCHANGED <<durable, serving, queue, requests, answers>>

CommitClosed(k) ==
    LET r == reclaimers[k]
    IN  /\ r.pc = "closing"
        /\ ledger' = [ledger EXCEPT ![r.admission] = [outcome |-> "closed", command |-> r.command]]
        /\ Reclaimer(k, [r EXCEPT !.pc = "report"])
        /\ UNCHANGED <<occupations, epoch, serving, queue, requests, answers>>

\* The slot goes back: consumed or expired, as the ledger says.
Report(k) ==
    LET r == reclaimers[k]
        closed == ledger[r.admission] = NoResult \/ ledger[r.admission].outcome = "closed"
    IN  /\ r.pc = "report"
        /\ Finalised(r.admission, r.command, IF closed THEN "expired" ELSE "consumed")
        /\ GivesUp(k)
        /\ UNCHANGED <<durable, serving, requests, answers>>

ReclaimFails(k) ==
    /\ reclaimers[k].pc # "idle"
    /\ GivesUp(k)
    /\ UNCHANGED <<durable, serving, queue, requests, answers>>

----------------------------------------------------------------------------
(* The rest of the system.                                                 *)

\* claimMs after the claim.
DeadlinePasses(a) ==
    /\ queue[a].state = "claimed" /\ ~queue[a].overdue
    /\ queue' = [queue EXCEPT ![a].overdue = TRUE]
    /\ UNCHANGED <<durable, serving, requests, reclaimers, answers>>

\* An admission nobody claimed lapses or is cancelled.
Lapse(a) ==
    /\ serving
    /\ queue[a].state = "admitted"
    /\ queue' = [queue EXCEPT ![a].state = "expired"]
    /\ UNCHANGED <<durable, serving, requests, reclaimers, answers>>

\* Redis loses its keys, or is frozen.
LoseRedis ==
    /\ serving
    /\ epoch < LastEpoch
    /\ serving' = FALSE
    /\ UNCHANGED <<durable, queue, requests, reclaimers, answers>>

RecoverUngated ==
    /\ ~serving
    /\ epoch' = epoch + 1
    /\ serving' = TRUE
    /\ queue' = [a \in Admissions |-> [queue[a] EXCEPT !.state = "gone"]]
    /\ UNCHANGED <<ledger, occupations, requests, reclaimers, answers>>

\* recover, under the exclusive gate: nobody is inside the shared one.
Recover ==
    /\ ~serving
    /\ InsideGate = {}
    /\ epoch' = epoch + 1
    /\ serving' = TRUE
    /\ queue' = [a \in Admissions |-> [queue[a] EXCEPT !.state = "gone"]]
    /\ UNCHANGED <<ledger, occupations, requests, reclaimers, answers>>

----------------------------------------------------------------------------
RequestStep(q) ==
    \/ ReplayOrder(q) \/ EnterGate(q)
    \/ LockAdmission(q) \/ LockTimeout(q)
    \/ Judge(q) \/ Claim(q) \/ Occupy(q)
    \/ Commit(q) \/ CommitConflict(q)
    \/ Settle(q) \/ Recheck(q)

ReclaimerStep(k) ==
    \/ \E a \in Admissions : Reconcile(k, a)
    \/ Reclaim(k)
    \/ CommitClosed(k)
    \/ Report(k)

ConsumptionNext ==
    \/ \E q \in Requests, a \in Admissions, c \in Commands : Arrive(q, a, c)
    \/ \E q \in Requests : RequestStep(q) \/ Fail(q)
    \/ \E k \in Reclaimers : ReclaimerStep(k) \/ ReclaimFails(k)
    \/ \E a \in Admissions : DeadlinePasses(a) \/ Lapse(a)
    \/ LoseRedis
    \/ Recover

ConsumptionSpec == ConsumptionInit /\ [][ConsumptionNext]_consumptionVars

\* PostgreSQL's timeouts end every transaction, the clock runs, and the
\* scheduler of an instance ticks again and again without failing forever.
FairConsumptionSpec ==
    /\ ConsumptionSpec
    /\ \A q \in Requests : WF_consumptionVars(RequestStep(q))
    /\ \A a \in Admissions : WF_consumptionVars(DeadlinePasses(a))
    /\ WF_consumptionVars(Recover)
    /\ \A k \in Reclaimers :
           /\ \A a \in Admissions : SF_consumptionVars(Reconcile(k, a))
           /\ SF_consumptionVars(Reclaim(k))
           /\ SF_consumptionVars(CommitClosed(k))
           /\ SF_consumptionVars(Report(k))

----------------------------------------------------------------------------
(* Properties.                                                             *)

\* An admission buys at most once, and exactly what its ledger row says; a
\* checkout key has at most one order, whatever admissions came with it.
OnePurchasePerAdmission ==
    /\ \A a \in Admissions :
           {o.command : o \in {o \in occupations : o.admission = a}} =
               IF ledger[a] # NoResult /\ ledger[a].outcome = "consumed"
               THEN {ledger[a].command} ELSE {}
    /\ \A o1, o2 \in occupations :
           o1.admission = o2.admission \/ (o1.command = o2.command /\ o1.command \in DirectCheckouts)
               => o1 = o2

\* A claim ends as its durable result says.
ReturnsOnResult ==
    \A a \in Admissions :
        queue[a].state = "claimed" /\ queue'[a].state \in {"consumed", "expired"} =>
            /\ ledger[a] # NoResult
            /\ ledger[a].command = queue[a].command
            /\ (queue'[a].state = "expired") = (ledger[a].outcome = "closed")

\* A slot goes back to the queue only on a result that is already durable, and
\* as that result says: a deadline or a missing row is never enough.
SlotReturnsOnResult == [][ReturnsOnResult]_consumptionVars

\* A purchase is of the admission's own epoch.
BuysInEpoch == occupations' # occupations => epoch = FirstEpoch

\* Nothing is bought with an admission of an epoch that was left, however long
\* before the recovery the purchase began.
NoPurchaseAfterReset == [][BuysInEpoch]_consumptionVars

Refusals == {"mismatch", "consumed", "expired", "closed", "reset"}

\* Definite answers are true and stay true: a purchase or a stored rejection is
\* the ledger's, and whoever was told no has bought nothing with that
\* admission, then or later.
AnswersMatchLedger ==
    \A r \in answers :
        /\ r.code # "error"
        /\ r.code = "target" => ledger[r.admission] = [outcome |-> "consumed", command |-> r.command]
        /\ r.code = "rejected" => ledger[r.admission] = [outcome |-> "rejected", command |-> r.command]
        /\ r.code \in Refusals => ledger[r.admission] # [outcome |-> "consumed", command |-> r.command]

\* A claim is never open forever: the request, the reclaimer or a recovery ends it.
ClaimsSettle == \A a \in Admissions : queue[a].state = "claimed" ~> queue[a].state # "claimed"
=============================================================================
