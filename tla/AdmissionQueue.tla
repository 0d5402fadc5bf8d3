--------------------------- MODULE AdmissionQueue ---------------------------
(***************************************************************************)
(* The waiting room in front of a purchase: one ready epoch of the Redis   *)
(* script of infra/redis/admission.ts.  The script runs atomically, so an  *)
(* operation is one action; what can go wrong is that the record of an     *)
(* admission and the indexes kept beside it drift apart over many calls,   *)
(* each of which expires, renews, promotes or finalises a few of them.     *)
(*                                                                         *)
(* A time is kept as the time left until it, 0 once it has come: the       *)
(* script only ever compares a time with now.  Admissions are named by     *)
(* their sequence number.  An operation the script refuses before it       *)
(* changes anything (rate limit, mismatch, not found) is a stuttering      *)
(* step.                                                                   *)
(***************************************************************************)
EXTENDS Integers, FiniteSets

CONSTANTS
    Users,          \* who may join
    JoinRequests,   \* idempotency keys of join
    NoUser,         \* no admission: the key of a hash is absent
    Capacity,       \* admissions that may hold a slot at once
    Rate,           \* promotions within RateWindow
    RateWindow,     \* the sliding window of the rate
    Batch,          \* promotions of one tick
    Cleanup,        \* expirations of one tick
    Reclaim,        \* overdue claims returned by one reconcile
    LeaseTime,      \* how long a place in the queue lasts without a status call
    AdmissionTime,  \* how long a slot lasts without a claim
    ClaimTime,      \* how long a claim is processed before it is reconciled
    MaxWaiting,     \* places in the queue
    MaxEntries      \* admissions of one epoch

Positive == Nat \ {0}

ASSUME ProfileAssumption ==
    /\ {Capacity, Rate, RateWindow, Batch, Cleanup, Reclaim} \subseteq Positive
    /\ {LeaseTime, AdmissionTime, ClaimTime, MaxWaiting, MaxEntries} \subseteq Positive

Ids == 1..MaxEntries
NoId == 0
Absent == -1

VARIABLES
    entries,   \* :entries, the record of each admission
    joins,     \* :joins, the admission of a join request
    latest,    \* :latest, a user's last admission
    active,    \* :users, a user's admission that is waiting or admitted
    waiting,   \* :waiting, ordered by sequence number
    leases,    \* :leases, when a waiting admission expires
    admitted,  \* :active, who holds a slot, with its expiry
    claims,    \* :claims, with the claim's deadline
    window,    \* :window, until when a promotion counts against the rate
    users,     \* users of :meta
    sequence,  \* :sequence
    ended      \* endAt has passed

indexes == <<joins, latest, users, sequence>>
queueVars == <<entries, joins, latest, active, waiting, leases, admitted,
               claims, window, users, sequence, ended>>

NotJoined == [state |-> "none", user |-> NoUser, phase |-> "idle",
              expiresAt |-> Absent, admittedAt |-> Absent, deadline |-> Absent]

Times == Absent..(LeaseTime + AdmissionTime + ClaimTime + RateWindow)

EntryRecords ==
    [state : {"none", "waiting", "admitted", "consumed", "cancelled", "expired"},
     user : Users \cup {NoUser}, phase : {"idle", "processing", "reconciling"},
     expiresAt : Times, admittedAt : Times, deadline : Times]

QueueTypeOK ==
    /\ entries \in [Ids -> EntryRecords]
    /\ joins \in [JoinRequests -> Ids \cup {NoId}]
    /\ {latest, active} \subseteq [Users -> Ids \cup {NoId}]
    /\ waiting \subseteq Ids
    /\ {leases, admitted, claims, window} \subseteq [Ids -> Times]
    /\ sequence \in 0..MaxEntries
    /\ users \in 0..sequence
    /\ ended \in BOOLEAN

Empty == [id \in Ids |-> Absent]

\* initialize, then publish, of a new epoch.
QueueInit ==
    /\ entries = [id \in Ids |-> NotJoined]
    /\ joins = [r \in JoinRequests |-> NoId]
    /\ latest = [u \in Users |-> NoId]
    /\ active = [u \in Users |-> NoId]
    /\ waiting = {}
    /\ leases = Empty /\ admitted = Empty /\ claims = Empty /\ window = Empty
    /\ users = 0
    /\ sequence = 0
    /\ ended = FALSE

----------------------------------------------------------------------------
(* Local functions of the script.                                          *)

Size(index) == Cardinality({id \in Ids : index[id] # Absent})
Due(index) == {id \in Ids : index[id] = 0}

\* The n members of a sorted set that LIMIT 0 n returns, when all are due.
Take(n, S) ==
    {T \in SUBSET S : Cardinality(T) = IF Cardinality(S) < n THEN Cardinality(S) ELSE n}

Last(n, S) == {id \in S : Cardinality({other \in S : other >= id}) <= n}
First(n, S) == {id \in S : Cardinality({other \in S : other <= id}) <= n}

Without(index, ids) == [id \in Ids |-> IF id \in ids THEN Absent ELSE index[id]]

HasKey(hash, none) == {k \in DOMAIN hash : hash[k] # none}

\* structures(): the script refuses every call once the counts disagree.
Structures ==
    /\ Cardinality({id \in Ids : entries[id].state # "none"}) = sequence
    /\ Cardinality(HasKey(joins, NoId)) = sequence
    /\ Cardinality(HasKey(latest, NoId)) = users
    /\ Cardinality(waiting) = Size(leases)
    /\ Cardinality(HasKey(active, NoId)) = Cardinality(waiting) + Size(admitted)

\* endAt closes everything but the finalisation of approved claims.
Open == ~ended /\ Structures

Active(id) == entries[id].state \in {"waiting", "admitted"}

Claimed(id) == entries[id].phase # "idle"

OverdueClaimedToo(id) == Active(id) /\ entries[id].expiresAt = 0

\* What expire() would expire: never a claimed admission.
Overdue(id) ==
    /\ Active(id) /\ ~Claimed(id)
    /\ entries[id].expiresAt = 0

OverdueAmong(ids) == {id \in ids \cap Ids : Overdue(id)}

Ended(id, state) ==
    [entries[id] EXCEPT !.state = state, !.phase = "idle", !.expiresAt = Absent]

\* The records once terminal() has run on ids.
Closed(ids, state) ==
    [id \in Ids |-> IF id \in ids THEN Ended(id, state) ELSE entries[id]]

ActiveWithout(ids) == [u \in Users |-> IF active[u] \in ids THEN NoId ELSE active[u]]

\* terminal() on each of ids and nothing else; clearActive() leaves the window alone.
Terminal(ids, state) ==
    /\ entries' = Closed(ids, state)
    /\ active' = ActiveWithout(ids)
    /\ waiting' = waiting \ ids
    /\ leases' = Without(leases, ids)
    /\ admitted' = Without(admitted, ids)
    /\ claims' = Without(claims, ids)

RenewRecord(id) ==
    /\ entries' = [entries EXCEPT ![id].expiresAt = LeaseTime]
    /\ UNCHANGED <<active, waiting, leases, admitted, claims>>

Renew(id) ==
    /\ entries' = [entries EXCEPT ![id].expiresAt = LeaseTime]
    /\ leases' = [leases EXCEPT ![id] = LeaseTime]
    /\ UNCHANGED <<active, waiting, admitted, claims>>

\* A poll finds its admission expired, or keeps its place in the queue.
Touch(id) ==
    /\ \/ Overdue(id) /\ Terminal({id}, "expired")
       \/ ~Overdue(id) /\ entries[id].state = "waiting" /\ Renew(id)
    /\ UNCHANGED <<indexes, window, ended>>

----------------------------------------------------------------------------
(* The clock.                                                              *)

Sooner(time) == IF time > 0 THEN time - 1 ELSE time
SoonerAll(index) == [id \in Ids |-> Sooner(index[id])]

\* A unit of time passes.  admittedAt, kept as the time left until the
\* promotion leaves the rate's window, is read by the properties only.
Advance ==
    /\ entries' = [id \in Ids |->
           [entries[id] EXCEPT !.expiresAt = Sooner(@), !.admittedAt = Sooner(@),
                               !.deadline = Sooner(@)]]
    /\ leases' = SoonerAll(leases)
    /\ admitted' = SoonerAll(admitted)
    /\ claims' = SoonerAll(claims)
    /\ window' = SoonerAll(window)
    /\ UNCHANGED <<indexes, active, waiting, ended>>

\* The epoch's endAt, epochMs after initialize, comes.
EndSession ==
    /\ ~ended
    /\ ended' = TRUE
    /\ UNCHANGED <<entries, indexes, active, waiting, leases, admitted, claims, window>>

----------------------------------------------------------------------------
(* Calls of a user.                                                        *)

Status(u) ==
    /\ Open
    /\ latest[u] # NoId
    /\ Touch(latest[u])

\* The same join request again: the admission it created.
JoinAgain(u, r) ==
    /\ Open
    /\ joins[r] # NoId
    /\ entries[joins[r]].user = u
    /\ Touch(joins[r])

FullOfPlaces(stillWaiting) == Cardinality(stillWaiting) >= MaxWaiting
Full(stillWaiting) ==
    Cardinality(stillWaiting) >= MaxWaiting \/ sequence >= MaxEntries

\* The user's admission, if any, has just expired.
MayJoin(u, expired) == active[u] = NoId \/ expired # {}

\* A new join: an overdue admission of the user expires first, even when the
\* queue turns out to be full.
Join(u, r) ==
    LET expired == OverdueAmong({active[u]})
        id == sequence + 1
    IN  /\ Open
        /\ joins[r] = NoId
        /\ MayJoin(u, expired)
        /\ UNCHANGED <<window, ended>>
        /\ \/ /\ Full(waiting \ expired)
              /\ Terminal(expired, "expired")
              /\ UNCHANGED indexes
           \/ /\ ~Full(waiting \ expired)
              /\ sequence' = id
              /\ entries' = [Closed(expired, "expired") EXCEPT
                     ![id] = [NotJoined EXCEPT !.state = "waiting", !.user = u,
                                               !.expiresAt = LeaseTime]]
              /\ joins' = [joins EXCEPT ![r] = id]
              /\ users' = IF latest[u] = NoId THEN users + 1 ELSE users
              /\ latest' = [latest EXCEPT ![u] = id]
              /\ active' = [active EXCEPT ![u] = id]
              /\ waiting' = (waiting \ expired) \cup {id}
              /\ leases' = [Without(leases, expired) EXCEPT ![id] = LeaseTime]
              /\ admitted' = Without(admitted, expired)
              /\ claims' = Without(claims, expired)

\* Refused once the admission is consumed or claimed.
Cancel(id) ==
    /\ Open
    /\ Active(id) /\ ~Claimed(id)
    /\ Terminal({id}, IF Overdue(id) THEN "expired" ELSE "cancelled")
    /\ UNCHANGED <<indexes, window, ended>>

----------------------------------------------------------------------------
(* The ticker.                                                             *)

Least(S) == CHOOSE n \in S : \A m \in S : n <= m

QuotaOfUnclaimed(recent, slots) ==
    Least({Batch, Rate - Size(recent),
           Capacity - Cardinality({id \in Ids : slots[id] # Absent /\ ~Claimed(id)})})

QuotaOfHolders(recent, slots) ==
    Least({Batch, Capacity - Size(slots),
           Rate - Cardinality({id \in Ids : recent[id] # Absent /\ slots[id] # Absent})})

\* How many a tick may promote, given the window and the slots after cleaning.
Quota(recent, slots) ==
    Least({Batch, Rate - Size(recent), Capacity - Size(slots)})

AllPromotions == window
\* The window without the promotions that left it.
RecentPromotions == Without(window, Due(window))

\* One tick: it cleans up to Cleanup admissions, then promotes from the head of
\* the queue unless cleaning took its whole budget.
TickCleaning(lapsed, idle) ==
    LET cleaned == OverdueAmong(lapsed \cup idle)
        queue == waiting \ cleaned
        slots == Without(admitted, cleaned)
        recent == RecentPromotions
        promoted == IF Cardinality(lapsed) + Cardinality(idle) >= Cleanup THEN {}
                    ELSE {id \in First(Quota(recent, slots), queue) :
                              \A ahead \in queue : ahead <= id => ~Overdue(ahead)}
    IN  /\ entries' = [id \in Ids |->
               IF id \in promoted
               THEN [entries[id] EXCEPT !.state = "admitted", !.expiresAt = AdmissionTime,
                                        !.admittedAt = RateWindow]
               ELSE Closed(cleaned, "expired")[id]]
        /\ active' = ActiveWithout(cleaned)
        /\ waiting' = queue \ promoted
        /\ leases' = Without(leases, cleaned \cup promoted)
        /\ admitted' = [id \in Ids |-> IF id \in promoted THEN AdmissionTime ELSE slots[id]]
        /\ claims' = Without(claims, cleaned)
        /\ window' = [id \in Ids |-> IF id \in promoted THEN RateWindow ELSE recent[id]]
        /\ UNCHANGED <<indexes, ended>>

TickWaitingOnly ==
    /\ Open
    /\ \E lapsed \in Take(Cleanup, Due(leases)) : TickCleaning(lapsed, {})

\* Lapsed places in the queue first, then slots nobody claimed in time.
Tick ==
    /\ Open
    /\ \E lapsed \in Take(Cleanup, Due(leases)) :
       \E idle \in Take(Cleanup - Cardinality(lapsed),
                        {id \in Due(admitted) : ~Claimed(id)}) :
           TickCleaning(lapsed, idle)

----------------------------------------------------------------------------
(* Purchases.                                                              *)

\* The first claim of an admission; an overdue one expires instead.
Claim(id) ==
    /\ Open
    /\ \/ Overdue(id) /\ Terminal({id}, "expired")
       \/ /\ ~Overdue(id) /\ entries[id].state = "admitted" /\ ~Claimed(id)
          /\ entries' = [entries EXCEPT ![id].phase = "processing",
                                        ![id].deadline = ClaimTime]
          /\ claims' = [claims EXCEPT ![id] = ClaimTime]
          /\ UNCHANGED <<active, waiting, leases, admitted>>
    /\ UNCHANGED <<indexes, window, ended>>

\* A claim again, past its deadline: from now on only the reclaimer settles it.
ClaimAgain(id) ==
    /\ Open
    /\ entries[id].state = "admitted" /\ Claimed(id) /\ entries[id].deadline = 0
    /\ entries' = [entries EXCEPT ![id].phase = "reconciling"]
    /\ UNCHANGED <<indexes, active, waiting, leases, admitted, claims, window, ended>>

\* The overdue claims, handed to the reclaimer.
Reconcile ==
    /\ Structures
    /\ \E overdue \in Take(Reclaim, Due(claims)) :
           entries' = [id \in Ids |-> IF id \in overdue
               THEN [entries[id] EXCEPT !.phase = "reconciling"] ELSE entries[id]]
    /\ UNCHANGED <<indexes, active, waiting, leases, admitted, claims, window, ended>>

\* complete and close: the owner of the claim token reports how it ended.
Finalise(id, state) ==
    /\ Structures
    /\ entries[id].state = "admitted" /\ Claimed(id)
    /\ Terminal({id}, state)
    /\ UNCHANGED <<indexes, window, ended>>

Complete(id) == Finalise(id, "consumed")
Close(id) == Finalise(id, "expired")

----------------------------------------------------------------------------
QueueNext ==
    \/ \E u \in Users : Status(u)
    \/ \E u \in Users, r \in JoinRequests : JoinAgain(u, r)
    \/ \E u \in Users, r \in JoinRequests : Join(u, r)
    \/ \E id \in Ids : Cancel(id)
    \/ Tick
    \/ \E id \in Ids : Claim(id)
    \/ \E id \in Ids : ClaimAgain(id)
    \/ Reconcile
    \/ \E id \in Ids : Complete(id)
    \/ \E id \in Ids : Close(id)
    \/ Advance
    \/ EndSession

QueueSpec == QueueInit /\ [][QueueNext]_queueVars

\* The ticker runs every tickMs, time passes, and whoever holds a claim, or
\* the reclaimer after it, finalises it.  Users need not do anything.
FairQueueSpec ==
    /\ QueueSpec
    /\ WF_queueVars(Tick)
    /\ WF_queueVars(Advance)
    /\ \A id \in Ids : WF_queueVars(Complete(id) \/ Close(id))

----------------------------------------------------------------------------
(* Properties.                                                             *)

\* Every index says what the records say, after any sequence of calls: who
\* waits, until when, who holds a slot, which claims are open, each user's
\* active and last admission, each admission's join request, and which
\* promotions still count against the rate.
IndexesAgree ==
    /\ waiting = {id \in Ids : entries[id].state = "waiting"}
    /\ \A id \in Ids :
           LET e == entries[id] IN
           /\ leases[id] = IF e.state = "waiting" THEN e.expiresAt ELSE Absent
           /\ admitted[id] = IF e.state = "admitted" THEN e.expiresAt ELSE Absent
           /\ claims[id] = IF Claimed(id) THEN e.deadline ELSE Absent
           /\ e.state = "none" <=> id > sequence
           /\ Active(id) => active[e.user] = id
           /\ e.state # "none" => latest[e.user] >= id /\ \E r \in JoinRequests : joins[r] = id
           /\ e.admittedAt > 0 => window[id] = e.admittedAt
    /\ \A u \in Users : active[u] # NoId => Active(active[u]) /\ entries[active[u]].user = u

\* No more than Capacity admissions hold a slot, those claimed and past their
\* own expiry included.
CapacityHeld == Cardinality({id \in Ids : entries[id].state = "admitted"}) <= Capacity

\* No window of RateWindow sees more than Rate promotions, whatever became of
\* the admissions promoted.
RateHeld == Cardinality({id \in Ids : entries[id].admittedAt > 0}) <= Rate

Promoted(id) == entries[id].state = "waiting" /\ entries'[id].state = "admitted"

PromotedInOrder ==
    \A i, j \in Ids : i < j /\ Promoted(j) => entries'[i].state # "waiting"

\* Nobody is promoted while somebody who joined earlier goes on waiting.
FirstComeFirstServed == [][PromotedInOrder]_queueVars

ClaimsKept ==
    \A id \in Ids : Claimed(id) =>
        \/ entries'[id].state = "admitted" /\ entries'[id].phase # "idle"
             /\ admitted'[id] # Absent /\ claims'[id] # Absent
        \/ Complete(id)
        \/ Close(id)

\* Once a purchase has claimed an admission, no expiry, tick, cancellation or
\* second join takes the slot away: only complete and close do.
ApprovedClaimSurvives == [][ClaimsKept]_queueVars

\* While the session lasts, whoever waits is promoted or drops out: the slots
\* of unclaimed and of settled admissions come back to the queue.
WaitingEnds ==
    \A id \in Ids : entries[id].state = "waiting" ~> (entries[id].state # "waiting" \/ ended)

\* A slot is never lost: it is claimed and settled, or comes back, while the
\* session lasts; a claimed one comes back even after it.
SlotsReturn ==
    \A id \in Ids : (entries[id].state = "admitted" /\ (Claimed(id) \/ ~ended))
        ~> (entries[id].state # "admitted" \/ (ended /\ ~Claimed(id)))
=============================================================================
