---------------------- MODULE AdmissionConsumptionProofs ----------------------
(***************************************************************************)
(* Proofs about AdmissionConsumption for every number of admissions,       *)
(* commands, requests, reclaimers, attempts and recoveries: one purchase   *)
(* an admission, answers that stay true, slots that return on a durable    *)
(* result, and no purchase after a reset.                                  *)
(***************************************************************************)
EXTENDS AdmissionConsumption, TLAPS

----------------------------------------------------------------------------
(* The inductive invariant.                                                *)

\* Who holds the advisory lock of admission a, and who that of a checkout key.
HoldsAdmission(q, a) ==
    /\ requests[q].admission = a
    /\ requests[q].pc \in {"key", "claim", "occupy", "commit"}

ReclaimerHolds(k, a) == reclaimers[k].admission = a /\ reclaimers[k].pc = "closing"

HoldsKey(q, c) ==
    /\ requests[q].command = c
    /\ requests[q].pc \in {"claim", "occupy", "commit"}

\* No lock has two holders.
AdmissionExclusive ==
    \A a \in Admissions :
        /\ \A p, q \in Requests : HoldsAdmission(p, a) /\ HoldsAdmission(q, a) => p = q
        /\ \A q \in Requests, k \in Reclaimers :
               ~(HoldsAdmission(q, a) /\ ReclaimerHolds(k, a))
        /\ \A k, l \in Reclaimers : ReclaimerHolds(k, a) /\ ReclaimerHolds(l, a) => k = l

KeyExclusive ==
    \A c \in DirectCheckouts :
        \A p, q \in Requests : HoldsKey(p, c) /\ HoldsKey(q, c) => p = q

\* A snapshot tells the truth as far as it goes: ledger rows and purchases stay.
SnapshotTrue(q) ==
    LET seen == requests[q].seen
    IN  /\ seen.occupations \subseteq occupations
        /\ \A a \in Admissions : seen.ledger[a] # NoResult =>
               /\ ledger[a] = seen.ledger[a]
               /\ ledger[a].outcome = "consumed" =>
                      \E o \in seen.occupations :
                          o.admission = a /\ o.command = ledger[a].command

Running == {"gate", "lock", "key", "claim", "occupy", "commit", "settle", "recheck"}

\* What request q has established on its way.
RequestSound(q) ==
    LET r == requests[q]
        a == r.admission
    IN  /\ r.pc \in Running => a \in Admissions /\ r.command \in Commands
        /\ SnapshotTrue(q)
        /\ r.pc \in {"lock", "key", "claim", "occupy", "commit"} => OrdersSeen(q) = {}
        /\ r.pc \in {"claim", "occupy", "commit", "recheck"} => r.seen.ledger[a] = NoResult
        /\ r.pc = "idle" => ~r.again
        /\ (r.again /\ r.pc \in Running) => r.seen.ledger[a] # NoResult
        /\ r.pc \in {"occupy", "commit"} =>
               /\ epoch = FirstEpoch
               /\ queue[a].command = r.command
               /\ queue[a].state = "claimed" \/ ledger[a] # NoResult
        /\ r.pc = "commit" =>
               /\ ledger[a] = NoResult
               /\ r.code \in {"consumed", "rejected"}
               /\ r.command \in DirectCheckouts =>
                      \A o \in occupations : o.command # r.command
        /\ r.pc = "settle" =>
               /\ ledger[a] = [outcome |-> r.code, command |-> r.command]
               /\ r.code \in {"consumed", "rejected"}
        /\ r.pc = "recheck" =>
               /\ r.code \in {"reset", "mismatch", "busy", "admitted", "consumed",
                              "expired", "gone"}
               /\ r.code = "reset" => epoch # FirstEpoch
               /\ r.code = "mismatch" => queue[a].command \notin {NoCommand, r.command}
               /\ r.code = "consumed" => ledger[a] # NoResult
               /\ r.code = "expired" => queue[a].state \notin {"admitted", "claimed"}

ReclaimerSound(k) ==
    LET r == reclaimers[k]
        a == r.admission
    IN  r.pc # "idle" =>
            /\ a \in Admissions /\ r.command \in Commands
            /\ queue[a].command = r.command
            /\ r.pc = "closing" => ledger[a] = NoResult
            /\ r.pc = "report" => ledger[a] # NoResult

\* The queue agrees with the ledger as far as it has been told.
QueueSound ==
    \A a \in Admissions :
        /\ ledger[a] # NoResult => ledger[a].command = queue[a].command
        /\ queue[a].state = "consumed" => ledger[a] # NoResult
        /\ queue[a].state = "claimed" => queue[a].command \in Commands

\* Admission a is never going to buy c: it has another result, or nothing can
\* pass the claim again, or the order of c belongs to another admission.
Refuted(a, c) ==
    /\ ledger[a] # [outcome |-> "consumed", command |-> c]
    /\ \/ ledger[a] # NoResult
       \/ epoch # FirstEpoch
       \/ queue[a].command \notin {NoCommand, c}
       \/ queue[a].state \notin {"admitted", "claimed"}
       \/ /\ c \in DirectCheckouts
          /\ \E o \in occupations : o.command = c /\ o.admission # a

AnswerSound(r) ==
    /\ r.code # "error"
    /\ r.code = "target" => ledger[r.admission] = [outcome |-> "consumed", command |-> r.command]
    /\ r.code = "rejected" => ledger[r.admission] = [outcome |-> "rejected", command |-> r.command]
    /\ r.code \in Refusals => Refuted(r.admission, r.command)

\* An admission buys what its ledger row says and nothing else, and the order of
\* a checkout key is the only one.
PurchaseSound ==
    /\ \A a \in Admissions : \A o \in occupations : o.admission = a =>
           ledger[a] = [outcome |-> "consumed", command |-> o.command]
    /\ \A a \in Admissions : (ledger[a] # NoResult /\ ledger[a].outcome = "consumed") =>
           \E o \in occupations : o.admission = a
    /\ \A o1, o2 \in occupations :
           \/ o1.admission = o2.admission
           \/ o1.command = o2.command /\ o1.command \in DirectCheckouts
           => o1 = o2

\* A recovery that is due has an epoch left.
RecoveryBounded == serving \/ epoch < LastEpoch

ConsumptionInv ==
    /\ ConsumptionTypeOK
    /\ RecoveryBounded
    /\ AdmissionExclusive /\ KeyExclusive
    /\ \A q \in Requests : RequestSound(q)
    /\ \A k \in Reclaimers : ReclaimerSound(k)
    /\ QueueSound
    /\ PurchaseSound
    /\ \A r \in answers : AnswerSound(r)

----------------------------------------------------------------------------
(* Rows.                                                                   *)

LEMMA NewRows ==
    /\ NothingSeen \in Snapshots
    /\ NewRequest \in RequestRows
    /\ [NewRequest EXCEPT !.pc = "done"] \in RequestRows
    /\ NewReclaimer \in ReclaimerRows
<1>1. NothingSeen \in Snapshots
  BY ConsumptionAssumption DEF NothingSeen, Snapshots, FirstEpoch, Occupations
<1>2. NewRequest \in RequestRows
  BY <1>1, ConsumptionAssumption DEF NewRequest, RequestRows
<1>3. [NewRequest EXCEPT !.pc = "done"] \in RequestRows
  BY <1>2 DEF RequestRows
<1>4. NewReclaimer \in ReclaimerRows
  BY DEF NewReclaimer, ReclaimerRows
<1> QED  BY <1>1, <1>2, <1>3, <1>4

LEMMA SnapshotType == ConsumptionTypeOK => Snapshot \in Snapshots
BY DEF ConsumptionTypeOK, Snapshot, Snapshots

\* No other request moves.
OthersKeep(q) == \A p \in Requests \ {q} : requests'[p] = requests[p]

RowsType == requests' \in [Requests -> RequestRows]

LEMMA BecomeRow ==
  ASSUME ConsumptionTypeOK, NEW q \in Requests, NEW r \in RequestRows, Become(q, r)
  PROVE  RowsType /\ OthersKeep(q) /\ requests'[q] = r
BY DEF ConsumptionTypeOK, Become, RowsType, OthersKeep

LEMMA DoneRow ==
  ASSUME ConsumptionTypeOK, NEW q \in Requests, Done(q)
  PROVE  /\ RowsType /\ OthersKeep(q)
         /\ requests'[q].pc = "done" /\ requests'[q].seen = NothingSeen
<1>1. /\ [NewRequest EXCEPT !.pc = "done"].pc = "done"
      /\ [NewRequest EXCEPT !.pc = "done"].seen = NothingSeen
  BY DEF NewRequest
<1> QED  BY <1>1, NewRows, BecomeRow DEF Done

LEMMA MovesRow ==
  ASSUME ConsumptionTypeOK, NEW q \in Requests,
         NEW pc \in {"idle", "gate", "lock", "key", "claim", "occupy", "commit", "settle",
                     "recheck", "done"}, Moves(q, pc)
  PROVE  /\ RowsType /\ OthersKeep(q)
         /\ requests'[q].pc = pc
         /\ requests'[q].admission = requests[q].admission
         /\ requests'[q].command = requests[q].command
         /\ requests'[q].seen = requests[q].seen
         /\ requests'[q].again = requests[q].again
         /\ requests'[q].code = requests[q].code
<1> DEFINE r == [requests[q] EXCEPT !.pc = pc]
<1>1. requests[q] \in RequestRows
  BY DEF ConsumptionTypeOK
<1>2. /\ r \in RequestRows /\ r.pc = pc /\ r.admission = requests[q].admission
      /\ r.command = requests[q].command /\ r.seen = requests[q].seen
      /\ r.again = requests[q].again /\ r.code = requests[q].code
  BY <1>1 DEF RequestRows
<1>3. Become(q, r)
  BY DEF Moves
<1> HIDE DEF r
<1> QED  BY <1>2, <1>3, BecomeRow

LEMMA BeginsRow ==
  ASSUME ConsumptionTypeOK, NEW q \in Requests, NEW r \in RequestRows, Begins(q, r)
  PROVE  /\ RowsType /\ OthersKeep(q)
         /\ requests'[q].pc = "gate"
         /\ requests'[q].seen = Snapshot
         /\ requests'[q].admission = r.admission
         /\ requests'[q].command = r.command
         /\ requests'[q].again = r.again
<1> DEFINE new == [r EXCEPT !.pc = "gate", !.seen = Snapshot]
<1>1. /\ new \in RequestRows /\ new.pc = "gate" /\ new.seen = Snapshot
      /\ new.admission = r.admission /\ new.command = r.command /\ new.again = r.again
  BY SnapshotType DEF RequestRows
<1>2. Become(q, new)
  BY DEF Begins
<1> HIDE DEF new
<1> QED  BY <1>1, <1>2, BecomeRow

\* A conflict ends the request or begins it again with what it had.
LEMMA ConflictRow ==
  ASSUME ConsumptionTypeOK, NEW q \in Requests, Conflict(q)
  PROVE  /\ RowsType /\ OthersKeep(q) /\ answers' = answers
         /\ \/ requests'[q].pc = "done" /\ requests'[q].seen = NothingSeen
            \/ /\ requests'[q].pc = "gate"
               /\ requests'[q].seen = Snapshot
               /\ requests'[q].admission = requests[q].admission
               /\ requests'[q].command = requests[q].command
               /\ requests'[q].again = requests[q].again
<1>1. requests[q] \in RequestRows
  BY DEF ConsumptionTypeOK
<1>2. CASE requests[q].attempt < Attempts
  <2> DEFINE r == [requests[q] EXCEPT !.attempt = @ + 1]
  <2>1. requests[q].attempt + 1 \in 1..Attempts
    BY <1>1, <1>2, ConsumptionAssumption DEF RequestRows
  <2>2. /\ r \in RequestRows /\ r.admission = requests[q].admission
        /\ r.command = requests[q].command /\ r.again = requests[q].again
    BY <1>1, <2>1 DEF RequestRows
  <2>3. Begins(q, r) /\ answers' = answers
    BY <1>2 DEF Conflict
  <2> HIDE DEF r
  <2> QED  BY <2>2, <2>3, BeginsRow
<1>3. CASE ~(requests[q].attempt < Attempts)
  BY <1>3, DoneRow DEF Conflict
<1> QED  BY <1>2, <1>3

----------------------------------------------------------------------------
(* What every step keeps.                                                  *)

\* Results, purchases, recoveries, claims and ends of claims are never undone.
Monotone ==
    /\ \A a \in Admissions : ledger[a] # NoResult => ledger'[a] = ledger[a]
    /\ occupations \subseteq occupations'
    /\ epoch # FirstEpoch => epoch' # FirstEpoch
    /\ \A a \in Admissions : queue[a].command # NoCommand =>
           queue'[a].command = queue[a].command
    /\ \A a \in Admissions : queue[a].state \notin {"admitted", "claimed"} =>
           queue'[a].state \notin {"admitted", "claimed"}

LEMMA SnapshotStays ==
  ASSUME Monotone, NEW q \in Requests, SnapshotTrue(q),
         requests'[q].seen = requests[q].seen
  PROVE  SnapshotTrue(q)'
BY DEF Monotone, SnapshotTrue

\* Nothing seen is nothing claimed.
LEMMA SnapshotNone ==
  ASSUME NEW q \in Requests, requests'[q].seen = NothingSeen
  PROVE  SnapshotTrue(q)'
BY DEF SnapshotTrue, NothingSeen

\* A snapshot just taken is the truth.
LEMMA SnapshotFresh ==
  ASSUME ConsumptionInv, UNCHANGED <<ledger, occupations>>, NEW q \in Requests,
         requests'[q].seen = Snapshot
  PROVE  SnapshotTrue(q)'
<1>1. \A a \in Admissions : (ledger[a] # NoResult /\ ledger[a].outcome = "consumed") =>
          \E o \in occupations : o.admission = a /\ o.command = ledger[a].command
  <2> SUFFICES ASSUME NEW a \in Admissions, ledger[a] # NoResult,
                      ledger[a].outcome = "consumed"
               PROVE  \E o \in occupations : o.admission = a /\ o.command = ledger[a].command
    OBVIOUS
  <2>1. PICK o \in occupations : o.admission = a
    BY DEF ConsumptionInv, PurchaseSound
  <2>2. ledger[a] = [outcome |-> "consumed", command |-> o.command]
    BY <2>1 DEF ConsumptionInv, PurchaseSound
  <2> QED  BY <2>1, <2>2
<1> QED  BY <1>1 DEF SnapshotTrue, Snapshot

\* What no step on other requests may take from request p.
Undisturbed(p) ==
    LET r == requests[p]
        a == r.admission
    IN  /\ r.pc \in {"occupy", "commit"} =>
               /\ epoch' = epoch
               /\ queue'[a].state = queue[a].state \/ ledger'[a] # NoResult
        /\ r.pc = "commit" =>
               /\ ledger'[a] = ledger[a]
               /\ r.command \in DirectCheckouts =>
                      \A o \in occupations' \ occupations : o.command # r.command

LEMMA RequestStays ==
  ASSUME ConsumptionInv, Monotone, NEW p \in Requests, requests'[p] = requests[p],
         Undisturbed(p)
  PROVE  RequestSound(p)'
<1>1. /\ RequestSound(p) /\ ConsumptionTypeOK
      /\ requests[p].pc \in Running => /\ requests[p].admission \in Admissions
                                       /\ requests[p].command \in Commands
  BY DEF ConsumptionInv, RequestSound
<1>2. SnapshotTrue(p)'
  BY <1>1, SnapshotStays DEF RequestSound
<1>3. OrdersSeen(p)' = OrdersSeen(p)
  BY DEF OrdersSeen
<1>4. requests[p].pc \in {"occupy", "commit"} =>
          /\ epoch' = FirstEpoch
          /\ queue'[requests[p].admission].command = requests[p].command
          /\ \/ queue'[requests[p].admission].state = "claimed"
             \/ ledger'[requests[p].admission] # NoResult
  BY <1>1, NullsAssumption DEF RequestSound, Undisturbed, Monotone, Running
<1>5. requests[p].pc = "commit" =>
          /\ ledger'[requests[p].admission] = NoResult
          /\ requests[p].command \in DirectCheckouts =>
                 \A o \in occupations' : o.command # requests[p].command
  BY <1>1 DEF RequestSound, Undisturbed
<1>6. requests[p].pc = "settle" =>
          ledger'[requests[p].admission]
            = [outcome |-> requests[p].code, command |-> requests[p].command]
  <2> SUFFICES ASSUME requests[p].pc = "settle"
               PROVE  ledger'[requests[p].admission] = ledger[requests[p].admission]
    BY <1>1 DEF RequestSound
  <2>1. ledger[requests[p].admission] \in Results
    BY <1>1 DEF RequestSound, Running, Results
  <2> QED  BY <1>1, <2>1, NullsAssumption DEF Monotone, Running
<1>7. requests[p].pc = "recheck" =>
          /\ requests[p].code = "reset" => epoch' # FirstEpoch
          /\ requests[p].code = "mismatch" =>
                 queue'[requests[p].admission].command \notin {NoCommand, requests[p].command}
          /\ requests[p].code = "consumed" => ledger'[requests[p].admission] # NoResult
          /\ requests[p].code = "expired" =>
                 queue'[requests[p].admission].state \notin {"admitted", "claimed"}
  BY <1>1 DEF RequestSound, Monotone, Running
<1> QED  BY <1>1, <1>2, <1>3, <1>4, <1>5, <1>6, <1>7 DEF RequestSound

\* The same for reclaimers, answers and refusals.
LEMMA ReclaimerStays ==
  ASSUME ConsumptionInv, Monotone, NEW k \in Reclaimers, reclaimers'[k] = reclaimers[k],
         reclaimers[k].pc = "closing" =>
             ledger'[reclaimers[k].admission] = ledger[reclaimers[k].admission]
  PROVE  ReclaimerSound(k)'
BY NullsAssumption DEF ConsumptionInv, Monotone, ReclaimerSound

LEMMA AnswerStays ==
  ASSUME ConsumptionInv, Monotone, NEW r \in answers,
         \A a \in Admissions, c \in Commands : Refuted(a, c) => Refuted(a, c)'
  PROVE  AnswerSound(r)'
<1>1. r.admission \in Admissions /\ r.command \in Commands
  BY DEF ConsumptionInv, ConsumptionTypeOK
<1>2. AnswerSound(r)
  BY DEF ConsumptionInv
<1>3. /\ [outcome |-> "consumed", command |-> r.command] # NoResult
      /\ [outcome |-> "rejected", command |-> r.command] # NoResult
  BY <1>1, NullsAssumption DEF Results
<1>4. r.code \in Refusals => Refuted(r.admission, r.command)'
  BY <1>1, <1>2 DEF AnswerSound
<1> QED  BY <1>1, <1>2, <1>3, <1>4 DEF AnswerSound, Monotone

\* A refusal stands unless the ledger gains exactly the purchase that was refused.
LEMMA RefutedStays ==
  ASSUME ConsumptionTypeOK, Monotone, NEW a \in Admissions, NEW c \in Commands,
         Refuted(a, c),
         ledger[a] = NoResult =>
             ledger'[a] # [outcome |-> "consumed", command |-> c]
  PROVE  Refuted(a, c)'
<1>1. ledger'[a] # [outcome |-> "consumed", command |-> c]
  BY DEF Refuted, Monotone
<1>2. CASE ledger[a] # NoResult
  BY <1>1, <1>2 DEF Refuted, Monotone
<1>3. CASE epoch # FirstEpoch
  BY <1>1, <1>3 DEF Refuted, Monotone
<1>4. CASE queue[a].command \notin {NoCommand, c}
  BY <1>1, <1>4 DEF Refuted, Monotone
<1>5. CASE queue[a].state \notin {"admitted", "claimed"}
  BY <1>1, <1>5 DEF Refuted, Monotone
<1>6. CASE c \in DirectCheckouts /\ \E o \in occupations : o.command = c /\ o.admission # a
  BY <1>1, <1>6 DEF Refuted, Monotone
<1> QED  BY <1>2, <1>3, <1>4, <1>5, <1>6 DEF Refuted

----------------------------------------------------------------------------
(* Steps of one request that change no shared row.                         *)

Quiet == UNCHANGED <<ledger, occupations, epoch, serving, queue, reclaimers>>

LEMMA QuietMonotone == ConsumptionTypeOK /\ Quiet => Monotone
BY DEF Quiet, Monotone

\* No request gains a lock.
LEMMA ExclusiveStays ==
  ASSUME AdmissionExclusive, KeyExclusive, NEW q \in Requests, OthersKeep(q),
         \A a \in Admissions : HoldsAdmission(q, a)' => HoldsAdmission(q, a),
         \A c \in DirectCheckouts : HoldsKey(q, c)' => HoldsKey(q, c),
         reclaimers' = reclaimers
  PROVE  AdmissionExclusive' /\ KeyExclusive'
<1>1. \A p \in Requests : /\ \A a \in Admissions : HoldsAdmission(p, a)' => HoldsAdmission(p, a)
                          /\ \A c \in DirectCheckouts : HoldsKey(p, c)' => HoldsKey(p, c)
  BY DEF OthersKeep, HoldsAdmission, HoldsKey
<1>2. \A k \in Reclaimers, a \in Admissions : ReclaimerHolds(k, a)' => ReclaimerHolds(k, a)
  BY DEF ReclaimerHolds
<1> QED  BY <1>1, <1>2 DEF AdmissionExclusive, KeyExclusive

LEMMA QuietStep ==
  ASSUME ConsumptionInv, Quiet, NEW q \in Requests, OthersKeep(q), RowsType,
         AdmissionExclusive', KeyExclusive', RequestSound(q)',
         ConsumptionTypeOK', \A r \in answers' \ answers : AnswerSound(r)
  PROVE  ConsumptionInv'
<1>1. Monotone /\ ConsumptionTypeOK
  BY QuietMonotone DEF ConsumptionInv
<1>2. ASSUME NEW p \in Requests
      PROVE  RequestSound(p)'
  <2>1. CASE p = q
    BY <2>1
  <2>2. CASE p # q
    <3>1. Undisturbed(p) /\ requests'[p] = requests[p]
      BY <2>2 DEF Undisturbed, Quiet, OthersKeep
    <3> QED  BY <1>1, <3>1, RequestStays
  <2> QED  BY <2>1, <2>2
<1>3. ASSUME NEW k \in Reclaimers
      PROVE  ReclaimerSound(k)'
  BY <1>1, ReclaimerStays DEF Quiet
<1>4. QueueSound' /\ PurchaseSound' /\ RecoveryBounded'
  BY DEF ConsumptionInv, Quiet, QueueSound, PurchaseSound, RecoveryBounded
<1>5. ASSUME NEW r \in answers'
      PROVE  AnswerSound(r)'
  <2>1. AnswerSound(r)
    BY DEF ConsumptionInv
  <2> QED  BY <2>1 DEF AnswerSound, Refuted, Quiet
<1> QED  BY <1>2, <1>3, <1>4, <1>5 DEF ConsumptionInv

AnswerRecords == [admission : Admissions, command : Commands,
                  code : {"target", "rejected", "error", "closed", "reset", "mismatch",
                          "admitted", "consumed", "expired", "gone"}]

LEMMA QuietType ==
  ASSUME ConsumptionTypeOK, Quiet, RowsType, answers' \subseteq AnswerRecords
  PROVE  ConsumptionTypeOK'
BY DEF ConsumptionTypeOK, Quiet, RowsType, AnswerRecords

\* A request that is over holds nothing and knows nothing.
LEMMA DoneSound ==
  ASSUME NEW q \in Requests, requests'[q].pc = "done", requests'[q].seen = NothingSeen
  PROVE  /\ RequestSound(q)'
         /\ \A a \in Admissions : ~HoldsAdmission(q, a)'
         /\ \A c \in DirectCheckouts : ~HoldsKey(q, c)'
BY SnapshotNone DEF RequestSound, HoldsAdmission, HoldsKey, Running

LEMMA UnansweredStep ==
  ASSUME ConsumptionInv, Quiet, NEW q \in Requests, Unanswered(q)
  PROVE  ConsumptionInv'
<1>1. /\ RowsType /\ OthersKeep(q) /\ answers' = answers
      /\ requests'[q].pc = "done" /\ requests'[q].seen = NothingSeen
  BY DoneRow DEF ConsumptionInv, Unanswered
<1>2. ConsumptionTypeOK'
  BY <1>1, QuietType DEF ConsumptionInv, ConsumptionTypeOK, AnswerRecords
<1>3. AdmissionExclusive' /\ KeyExclusive'
  BY <1>1, DoneSound, ExclusiveStays DEF ConsumptionInv, Quiet
<1> QED  BY <1>1, <1>2, <1>3, DoneSound, QuietStep

LEMMA AnsweredStep ==
  ASSUME ConsumptionInv, Quiet, NEW q \in Requests, requests[q].pc \in Running,
         NEW code \in {"target", "rejected", "error", "closed", "reset", "mismatch",
                       "admitted", "consumed", "expired", "gone"},
         Answered(q, code),
         AnswerSound([admission |-> requests[q].admission,
                      command |-> requests[q].command, code |-> code])
  PROVE  ConsumptionInv'
<1> DEFINE r == [admission |-> requests[q].admission,
                 command |-> requests[q].command, code |-> code]
<1>1. /\ RowsType /\ OthersKeep(q)
      /\ requests'[q].pc = "done" /\ requests'[q].seen = NothingSeen
  BY DoneRow DEF ConsumptionInv, Answered
<1>2. answers' = answers \cup {r}
  BY DEF Answered
<1>3. r \in AnswerRecords
  BY DEF ConsumptionInv, RequestSound, AnswerRecords
<1>4. ConsumptionTypeOK'
  BY <1>1, <1>2, <1>3, QuietType DEF ConsumptionInv, ConsumptionTypeOK, AnswerRecords
<1>5. AdmissionExclusive' /\ KeyExclusive'
  BY <1>1, DoneSound, ExclusiveStays DEF ConsumptionInv, Quiet
<1> QED  BY <1>1, <1>2, <1>4, <1>5, DoneSound, QuietStep

\* A request that begins a transaction takes a snapshot and holds nothing.
LEMMA BeginsStep ==
  ASSUME ConsumptionInv, Quiet, NEW q \in Requests, RowsType, OthersKeep(q),
         answers' = answers,
         requests'[q].pc = "gate", requests'[q].seen = Snapshot,
         requests'[q].admission \in Admissions, requests'[q].command \in Commands,
         requests'[q].again => ledger[requests'[q].admission] # NoResult
  PROVE  ConsumptionInv'
<1>1. ConsumptionTypeOK'
  BY QuietType DEF ConsumptionInv, ConsumptionTypeOK, AnswerRecords
<1>2. AdmissionExclusive' /\ KeyExclusive'
  BY ExclusiveStays DEF ConsumptionInv, Quiet, HoldsAdmission, HoldsKey
<1>3. SnapshotTrue(q)'
  BY SnapshotFresh DEF Quiet
<1>4. RequestSound(q)'
  BY <1>3 DEF RequestSound, Snapshot
<1> QED  BY <1>1, <1>2, <1>4, QuietStep

LEMMA ConflictStep ==
  ASSUME ConsumptionInv, Quiet, NEW q \in Requests, requests[q].pc \in Running,
         Conflict(q)
  PROVE  ConsumptionInv'
<1>1. /\ ConsumptionTypeOK /\ RequestSound(q) /\ SnapshotTrue(q)
  BY DEF ConsumptionInv, RequestSound
<1>2. RowsType /\ OthersKeep(q) /\ answers' = answers
  BY <1>1, ConflictRow
<1>3. CASE requests'[q].pc = "done" /\ requests'[q].seen = NothingSeen
  <2>1. ConsumptionTypeOK'
    BY <1>1, <1>2, QuietType DEF ConsumptionTypeOK, AnswerRecords
  <2>2. AdmissionExclusive' /\ KeyExclusive'
    BY <1>2, <1>3, DoneSound, ExclusiveStays DEF ConsumptionInv, Quiet
  <2> QED  BY <1>2, <1>3, <2>1, <2>2, DoneSound, QuietStep
<1>4. CASE /\ requests'[q].pc = "gate"
           /\ requests'[q].seen = Snapshot
           /\ requests'[q].admission = requests[q].admission
           /\ requests'[q].command = requests[q].command
           /\ requests'[q].again = requests[q].again
  <2>1. requests[q].admission \in Admissions /\ requests[q].command \in Commands
    BY <1>1 DEF RequestSound
  <2>2. requests[q].again => ledger[requests[q].admission] # NoResult
    BY <1>1, <2>1 DEF RequestSound, SnapshotTrue
  <2> QED  BY <1>2, <1>4, <2>1, <2>2, BeginsStep
<1> QED  BY <1>1, <1>3, <1>4, ConflictRow

----------------------------------------------------------------------------
(* The actions of a request that change no shared row.                     *)

LEMMA ArriveStep ==
  ASSUME ConsumptionInv, NEW q \in Requests, NEW a \in Admissions, NEW c \in Commands,
         Arrive(q, a, c)
  PROVE  ConsumptionInv'
<1> DEFINE r == [requests[q] EXCEPT !.admission = a, !.command = c]
<1>1. requests[q] \in RequestRows /\ RequestSound(q) /\ requests[q].pc = "idle"
  BY DEF ConsumptionInv, ConsumptionTypeOK, Arrive
<1>2. /\ r \in RequestRows /\ r.admission = a /\ r.command = c
      /\ r.again = requests[q].again
  BY <1>1 DEF RequestRows
<1>3. ~requests[q].again
  BY <1>1 DEF RequestSound
<1>4. Begins(q, r) /\ Quiet /\ answers' = answers
  BY DEF Arrive, Quiet, durable
<1> HIDE DEF r
<1>5. /\ RowsType /\ OthersKeep(q)
      /\ requests'[q].pc = "gate" /\ requests'[q].seen = Snapshot
      /\ requests'[q].admission = a /\ requests'[q].command = c
      /\ requests'[q].again = r.again
  BY <1>2, <1>4, BeginsRow DEF ConsumptionInv
<1> QED  BY <1>2, <1>3, <1>4, <1>5, BeginsStep

\* The order that was seen is the purchase of the admission, or refutes it.
LEMMA ReplayOrderStep ==
  ASSUME ConsumptionInv, NEW q \in Requests, ReplayOrder(q)
  PROVE  ConsumptionInv'
<1> DEFINE a == requests[q].admission
           c == requests[q].command
           code == IF LinkMatches(q) THEN "target" ELSE "mismatch"
<1>1. /\ requests[q].pc \in Running /\ Quiet /\ Answered(q, code)
      /\ OrdersSeen(q) # {}
  BY DEF ReplayOrder, Running, Quiet, durable
<1>2. a \in Admissions /\ c \in Commands /\ SnapshotTrue(q) /\ PurchaseSound
  BY <1>1 DEF ConsumptionInv, RequestSound
<1>3. \A o \in OrdersSeen(q) : o \in occupations /\ o.command = c /\ c \in DirectCheckouts
  BY <1>2 DEF OrdersSeen, SnapshotTrue
<1>4. CASE LinkMatches(q)
  <2>1. PICK o \in OrdersSeen(q) : o.admission = a
    BY <1>4 DEF LinkMatches
  <2>2. ledger[a] = [outcome |-> "consumed", command |-> c]
    BY <1>2, <1>3, <2>1 DEF PurchaseSound
  <2>3. AnswerSound([admission |-> a, command |-> c, code |-> "target"])
    BY <2>2 DEF AnswerSound, Refusals
  <2> QED  BY <1>1, <1>4, <2>3, AnsweredStep
<1>5. CASE ~LinkMatches(q)
  <2>1. PICK o \in OrdersSeen(q) : TRUE
    BY <1>1
  <2>2. o \in occupations /\ o.command = c /\ c \in DirectCheckouts /\ o.admission # a
    BY <1>3, <1>5, <2>1 DEF LinkMatches
  <2>3. ledger[a] # [outcome |-> "consumed", command |-> c]
    <3> SUFFICES ASSUME ledger[a] = [outcome |-> "consumed", command |-> c]
                 PROVE  FALSE
      OBVIOUS
    <3>1. ledger[a] # NoResult /\ ledger[a].outcome = "consumed"
      BY <1>2, NullsAssumption DEF Results
    <3>2. PICK o2 \in occupations : o2.admission = a
      BY <1>2, <3>1 DEF PurchaseSound
    <3>3. ledger[a] = [outcome |-> "consumed", command |-> o2.command]
      BY <1>2, <3>2 DEF PurchaseSound
    <3>4. o2.command = c
      <4> DEFINE mine == [outcome |-> "consumed", command |-> c]
                 other == [outcome |-> "consumed", command |-> o2.command]
      <4>1. mine.command = c /\ other.command = o2.command
        OBVIOUS
      <4>2. mine = other
        BY <3>3
      <4> HIDE DEF mine, other
      <4> QED  BY <4>1, <4>2
    <3> QED  BY <1>2, <2>2, <3>2, <3>4 DEF PurchaseSound
  <2>4. Refuted(a, c)
    BY <2>2, <2>3 DEF Refuted
  <2>5. AnswerSound([admission |-> a, command |-> c, code |-> "mismatch"])
    BY <2>4 DEF AnswerSound
  <2> QED  BY <1>1, <1>5, <2>5, AnsweredStep
<1> QED  BY <1>4, <1>5

LEMMA EnterGateStep ==
  ASSUME ConsumptionInv, NEW q \in Requests, EnterGate(q)
  PROVE  ConsumptionInv'
<1>1. /\ requests[q].pc = "gate" /\ requests[q].pc \in Running /\ Quiet
      /\ OrdersSeen(q) = {} /\ ConsumptionTypeOK /\ RequestSound(q)
  BY DEF EnterGate, Running, Quiet, durable, ConsumptionInv
<1>2. CASE Moves(q, "lock") /\ answers' = answers
  <2>1. /\ RowsType /\ OthersKeep(q)
        /\ requests'[q].pc = "lock"
        /\ requests'[q].admission = requests[q].admission
        /\ requests'[q].command = requests[q].command
        /\ requests'[q].seen = requests[q].seen
        /\ requests'[q].again = requests[q].again
        /\ requests'[q].code = requests[q].code
    BY <1>1, <1>2, MovesRow
  <2>2. SnapshotTrue(q)' /\ OrdersSeen(q)' = OrdersSeen(q)
    BY <1>1, <2>1, QuietMonotone, SnapshotStays DEF RequestSound, OrdersSeen
  <2>3. RequestSound(q)'
    BY <1>1, <2>1, <2>2 DEF RequestSound, Running
  <2>4. AdmissionExclusive' /\ KeyExclusive'
    BY <1>1, <2>1, ExclusiveStays DEF ConsumptionInv, Quiet, HoldsAdmission, HoldsKey
  <2>5. ConsumptionTypeOK'
    BY <1>1, <1>2, <2>1, QuietType DEF ConsumptionTypeOK, AnswerRecords
  <2> QED  BY <1>1, <1>2, <2>1, <2>3, <2>4, <2>5, QuietStep
<1>3. CASE Conflict(q)
  BY <1>1, <1>3, ConflictStep
<1> QED  BY <1>2, <1>3 DEF EnterGate

\* The lock is free when it is taken.
LEMMA LockAdmissionStep ==
  ASSUME ConsumptionInv, NEW q \in Requests, LockAdmission(q)
  PROVE  ConsumptionInv'
<1>1. /\ requests[q].pc = "lock" /\ Quiet /\ answers' = answers
      /\ ~AdmissionLocked(requests[q].admission) /\ Moves(q, "key")
      /\ ConsumptionTypeOK /\ RequestSound(q)
  BY DEF LockAdmission, Quiet, durable, ConsumptionInv
<1>2. /\ RowsType /\ OthersKeep(q)
      /\ requests'[q].pc = "key"
      /\ requests'[q].admission = requests[q].admission
      /\ requests'[q].command = requests[q].command
      /\ requests'[q].seen = requests[q].seen
      /\ requests'[q].again = requests[q].again
      /\ requests'[q].code = requests[q].code
  BY <1>1, MovesRow
<1>3. SnapshotTrue(q)' /\ OrdersSeen(q)' = OrdersSeen(q)
  BY <1>1, <1>2, QuietMonotone, SnapshotStays DEF RequestSound, OrdersSeen
<1>4. RequestSound(q)'
  BY <1>1, <1>2, <1>3 DEF RequestSound, Running
<1>5. AdmissionExclusive'
  <2>1. \A p \in Requests \ {q} : \A a \in Admissions : HoldsAdmission(p, a)' => HoldsAdmission(p, a)
    BY <1>2 DEF OthersKeep, HoldsAdmission
  <2>2. \A a \in Admissions : HoldsAdmission(q, a)' => a = requests[q].admission
    BY <1>2 DEF HoldsAdmission
  <2>3. \A p \in Requests : ~HoldsAdmission(p, requests[q].admission)
    BY <1>1 DEF AdmissionLocked, HoldsAdmission
  <2>4. \A k \in Reclaimers : ~ReclaimerHolds(k, requests[q].admission)
    BY <1>1 DEF AdmissionLocked, ReclaimerHolds
  <2>5. \A k \in Reclaimers, a \in Admissions : ReclaimerHolds(k, a)' => ReclaimerHolds(k, a)
    BY <1>1 DEF ReclaimerHolds, Quiet
  <2> QED  BY <2>1, <2>2, <2>3, <2>4, <2>5 DEF ConsumptionInv, AdmissionExclusive
<1>6. KeyExclusive'
  <2>1. \A p \in Requests : \A c \in DirectCheckouts : HoldsKey(p, c)' => HoldsKey(p, c)
    BY <1>2 DEF OthersKeep, HoldsKey
  <2> QED  BY <2>1 DEF ConsumptionInv, KeyExclusive
<1>7. ConsumptionTypeOK'
  BY <1>1, <1>2, QuietType DEF ConsumptionTypeOK, AnswerRecords
<1> QED  BY <1>1, <1>2, <1>4, <1>5, <1>6, <1>7, QuietStep

LEMMA GivesUpStep ==
  ASSUME ConsumptionInv, NEW q \in Requests, LockTimeout(q) \/ Fail(q)
  PROVE  ConsumptionInv'
BY UnansweredStep DEF LockTimeout, Fail, Quiet, durable

\* The key's lock is free when it is taken; a stored result is the truth.
LEMMA JudgeStep ==
  ASSUME ConsumptionInv, NEW q \in Requests, Judge(q)
  PROVE  ConsumptionInv'
<1> DEFINE a == requests[q].admission
           c == requests[q].command
           prior == requests[q].seen.ledger[a]
<1>1. /\ requests[q].pc = "key" /\ requests[q].pc \in Running /\ Quiet
      /\ ~KeyLocked(c) /\ ConsumptionTypeOK /\ RequestSound(q) /\ PurchaseSound
  BY DEF Judge, Running, Quiet, durable, ConsumptionInv
<1>2. /\ a \in Admissions /\ c \in Commands
      /\ SnapshotTrue(q) /\ OrdersSeen(q) = {}
  BY <1>1 DEF RequestSound
<1>3. CASE prior = NoResult /\ Moves(q, "claim") /\ answers' = answers
  <2>1. /\ RowsType /\ OthersKeep(q)
        /\ requests'[q].pc = "claim"
        /\ requests'[q].admission = a
        /\ requests'[q].command = c
        /\ requests'[q].seen = requests[q].seen
        /\ requests'[q].again = requests[q].again
        /\ requests'[q].code = requests[q].code
    BY <1>1, <1>3, MovesRow
  <2>2. SnapshotTrue(q)' /\ OrdersSeen(q)' = OrdersSeen(q)
    BY <1>1, <1>2, <2>1, QuietMonotone, SnapshotStays DEF OrdersSeen
  <2>3. RequestSound(q)'
    BY <1>1, <1>2, <1>3, <2>1, <2>2 DEF RequestSound, Running
  <2>4. AdmissionExclusive'
    <3>1. \A p \in Requests, b \in Admissions : HoldsAdmission(p, b)' => HoldsAdmission(p, b)
      BY <1>1, <2>1 DEF OthersKeep, HoldsAdmission
    <3>2. \A k \in Reclaimers, b \in Admissions : ReclaimerHolds(k, b)' => ReclaimerHolds(k, b)
      BY <1>1 DEF ReclaimerHolds, Quiet
    <3> QED  BY <3>1, <3>2 DEF ConsumptionInv, AdmissionExclusive
  <2>5. KeyExclusive'
    <3>1. \A p \in Requests \ {q} : \A d \in DirectCheckouts : HoldsKey(p, d)' => HoldsKey(p, d)
      BY <2>1 DEF OthersKeep, HoldsKey
    <3>2. \A d \in DirectCheckouts : HoldsKey(q, d)' => d = c
      BY <2>1 DEF HoldsKey
    <3>3. \A p \in Requests, d \in DirectCheckouts : d = c => ~HoldsKey(p, d)
      BY <1>1 DEF KeyLocked, HoldsKey
    <3> QED  BY <3>1, <3>2, <3>3 DEF ConsumptionInv, KeyExclusive
  <2>6. ConsumptionTypeOK'
    BY <1>1, <1>3, <2>1, QuietType DEF ConsumptionTypeOK, AnswerRecords
  <2> QED  BY <1>1, <1>3, <2>1, <2>3, <2>4, <2>5, <2>6, QuietStep
<1>4. CASE prior # NoResult /\ Answered(q, OwnResult(prior, c))
  <2> DEFINE code == OwnResult(prior, c)
  <2>1. ledger[a] = prior /\ ledger[a] \in Results
    <3>1. ledger[a] = prior
      BY <1>2, <1>4 DEF SnapshotTrue
    <3> QED  BY <1>1, <1>2, <1>4, <3>1 DEF ConsumptionTypeOK
  <2>2. ledger[a] = [outcome |-> ledger[a].outcome, command |-> ledger[a].command]
    BY <2>1 DEF Results
  <2>3. CASE prior.command # c
    <3>1. Refuted(a, c)
      BY <1>4, <2>1, <2>3 DEF Refuted
    <3>2. code = "mismatch"
      BY <2>3 DEF OwnResult
    <3>3. AnswerSound([admission |-> a, command |-> c, code |-> "mismatch"])
      BY <3>1 DEF AnswerSound
    <3> HIDE DEF code
    <3> QED  BY <1>1, <1>4, <3>2, <3>3, AnsweredStep DEF code
  <2>4. CASE prior.command = c /\ prior.outcome = "consumed"
    <3>1. ledger[a] = [outcome |-> "consumed", command |-> c]
      BY <2>1, <2>2, <2>4
    <3>2. c \notin DirectCheckouts
      <4>1. PICK o \in requests[q].seen.occupations :
                o.admission = a /\ o.command = ledger[a].command
        BY <1>2, <1>4, <2>1, <2>4 DEF SnapshotTrue
      <4> QED  BY <1>2, <2>1, <2>4, <4>1 DEF OrdersSeen
    <3>3. code = "target"
      BY <2>4, <3>2 DEF OwnResult
    <3>4. AnswerSound([admission |-> a, command |-> c, code |-> "target"])
      BY <3>1 DEF AnswerSound, Refusals
    <3> HIDE DEF code
    <3> QED  BY <1>1, <1>4, <3>3, <3>4, AnsweredStep DEF code
  <2>5. CASE prior.command = c /\ prior.outcome # "consumed"
    <3>1. code = prior.outcome /\ prior.outcome \in {"rejected", "closed"}
      BY <2>1, <2>5 DEF OwnResult, Results
    <3>2. Refuted(a, c)
      BY <1>4, <2>1, <2>5 DEF Refuted
    <3>3. code = "rejected" => ledger[a] = [outcome |-> "rejected", command |-> c]
      BY <2>1, <2>2, <2>5, <3>1
    <3>4. AnswerSound([admission |-> a, command |-> c, code |-> code])
      <4> HIDE DEF code
      <4> QED  BY <3>1, <3>2, <3>3 DEF AnswerSound
    <3> HIDE DEF code
    <3> QED  BY <1>1, <1>4, <3>1, <3>4, AnsweredStep DEF code
  <2> QED  BY <2>3, <2>4, <2>5
<1> QED  BY <1>3, <1>4 DEF Judge

\* With no occupation since the snapshot, the key has no order still.
LEMMA OccupyStep ==
  ASSUME ConsumptionInv, NEW q \in Requests, Occupy(q)
  PROVE  ConsumptionInv'
<1> DEFINE a == requests[q].admission
           c == requests[q].command
<1>1. /\ requests[q].pc = "occupy" /\ requests[q].pc \in Running /\ Quiet
      /\ ConsumptionTypeOK /\ RequestSound(q) /\ requests[q] \in RequestRows
  BY DEF Occupy, Running, Quiet, durable, ConsumptionInv, ConsumptionTypeOK
<1>2. CASE /\ requests[q].seen.occupations = occupations
           /\ ledger[a] = NoResult
           /\ \E outcome \in {"consumed", "rejected"} :
                  Become(q, [requests[q] EXCEPT !.pc = "commit", !.code = outcome])
           /\ answers' = answers
  <2>1. PICK outcome \in {"consumed", "rejected"} :
            Become(q, [requests[q] EXCEPT !.pc = "commit", !.code = outcome])
    BY <1>2
  <2> DEFINE r == [requests[q] EXCEPT !.pc = "commit", !.code = outcome]
  <2>2. /\ r \in RequestRows /\ r.pc = "commit" /\ r.admission = a /\ r.command = c
        /\ r.seen = requests[q].seen /\ r.again = requests[q].again
        /\ r.code = outcome
    BY <1>1 DEF RequestRows
  <2>3. Become(q, r)
    BY <2>1
  <2> HIDE DEF r
  <2>4. /\ RowsType /\ OthersKeep(q)
        /\ requests'[q].pc = "commit"
        /\ requests'[q].admission = a
        /\ requests'[q].command = c
        /\ requests'[q].seen = requests[q].seen
        /\ requests'[q].again = requests[q].again
        /\ requests'[q].code \in {"consumed", "rejected"}
    BY <1>1, <2>2, <2>3, BecomeRow
  <2>5. SnapshotTrue(q)' /\ OrdersSeen(q)' = OrdersSeen(q)
    BY <1>1, <2>4, QuietMonotone, SnapshotStays DEF RequestSound, OrdersSeen
  <2>6. c \in DirectCheckouts => \A o \in occupations : o.command # c
    BY <1>1, <1>2 DEF RequestSound, OrdersSeen
  <2>7. RequestSound(q)'
    BY <1>1, <1>2, <2>4, <2>5, <2>6 DEF RequestSound, Running, Quiet
  <2>8. AdmissionExclusive' /\ KeyExclusive'
    BY <1>1, <2>4, ExclusiveStays DEF ConsumptionInv, Quiet, HoldsAdmission, HoldsKey
  <2>9. ConsumptionTypeOK'
    BY <1>1, <1>2, <2>4, QuietType DEF ConsumptionTypeOK, AnswerRecords
  <2> QED  BY <1>1, <1>2, <2>4, <2>7, <2>8, <2>9, QuietStep
<1>3. CASE Conflict(q)
  BY <1>1, <1>3, ConflictStep
<1> QED  BY <1>2, <1>3 DEF Occupy

LEMMA CommitConflictStep ==
  ASSUME ConsumptionInv, NEW q \in Requests, CommitConflict(q)
  PROVE  ConsumptionInv'
BY ConflictStep DEF CommitConflict, Quiet, durable, Running

\* A refusal that stands: no row in the ledger, and nothing can put one there.
LEMMA RecheckStep ==
  ASSUME ConsumptionInv, NEW q \in Requests, Recheck(q)
  PROVE  ConsumptionInv'
<1> DEFINE a == requests[q].admission
           c == requests[q].command
<1>1. /\ requests[q].pc = "recheck" /\ requests[q].pc \in Running /\ Quiet
      /\ ConsumptionTypeOK /\ RequestSound(q) /\ requests[q] \in RequestRows
  BY DEF Recheck, Running, Quiet, durable, ConsumptionInv, ConsumptionTypeOK
<1>2. a \in Admissions /\ c \in Commands /\ requests[q].seen.ledger[a] = NoResult
  BY <1>1 DEF RequestSound
<1>3. CASE ~requests[q].again /\ ledger[a] # NoResult
  <2> DEFINE r == [requests[q] EXCEPT !.again = TRUE, !.attempt = 1]
  <2>0. 1 \in 1..Attempts /\ TRUE \in BOOLEAN
    BY ConsumptionAssumption
  <2>1. /\ r \in RequestRows /\ r.admission = a /\ r.command = c
    BY <1>1, <2>0 DEF RequestRows
  <2>2. Begins(q, r) /\ answers' = answers
    BY <1>3 DEF Recheck
  <2> HIDE DEF r
  <2>3. /\ RowsType /\ OthersKeep(q)
        /\ requests'[q].pc = "gate" /\ requests'[q].seen = Snapshot
        /\ requests'[q].admission = a /\ requests'[q].command = c
    BY <1>1, <2>1, <2>2, BeginsRow
  <2> QED  BY <1>1, <1>2, <1>3, <2>2, <2>3, BeginsStep
<1>4. CASE ~(~requests[q].again /\ ledger[a] # NoResult)
  <2>1. ledger[a] = NoResult
    BY <1>1, <1>2, <1>4 DEF RequestSound
  <2>2. CASE requests[q].code = "busy"
    BY <1>1, <1>4, <2>2, UnansweredStep DEF Recheck
  <2>3. CASE requests[q].code # "busy"
    <3>1. Answered(q, requests[q].code)
      BY <1>4, <2>3 DEF Recheck
    <3>2. requests[q].code \in {"reset", "mismatch", "admitted", "expired", "gone"}
      BY <1>1, <2>1, <2>3 DEF RequestSound
    <3>3. requests[q].code \in Refusals => Refuted(a, c)
      <4>1. ledger[a] # [outcome |-> "consumed", command |-> c]
        BY <1>2, <2>1, NullsAssumption DEF Results
      <4>2. requests[q].code \in Refusals =>
                \/ epoch # FirstEpoch
                \/ queue[a].command \notin {NoCommand, c}
                \/ queue[a].state \notin {"admitted", "claimed"}
        BY <1>1, <3>2 DEF RequestSound, Refusals
      <4> QED  BY <4>1, <4>2 DEF Refuted
    <3>4. AnswerSound([admission |-> a, command |-> c, code |-> requests[q].code])
      BY <3>2, <3>3 DEF AnswerSound
    <3> QED  BY <1>1, <3>1, <3>2, <3>4, AnsweredStep
  <2> QED  BY <2>2, <2>3
<1> QED  BY <1>3, <1>4

----------------------------------------------------------------------------
(* Steps that change a shared row.                                         *)

\* Exactly the purchase that was refused is not made.
NotBought(a, c) == ledger'[a] # [outcome |-> "consumed", command |-> c]

LEMMA SharedStep ==
  ASSUME ConsumptionInv, Monotone,
         ConsumptionTypeOK', RecoveryBounded', AdmissionExclusive', KeyExclusive',
         QueueSound', PurchaseSound',
         \A p \in Requests :
             RequestSound(p)' \/ (requests'[p] = requests[p] /\ Undisturbed(p)),
         \A k \in Reclaimers :
             \/ ReclaimerSound(k)'
             \/ /\ reclaimers'[k] = reclaimers[k]
                /\ reclaimers[k].pc = "closing" =>
                       ledger'[reclaimers[k].admission] = ledger[reclaimers[k].admission],
         \A a \in Admissions, c \in Commands :
             ledger[a] = NoResult /\ Refuted(a, c) => NotBought(a, c),
         \A r \in answers' : r \in answers \/ AnswerSound(r)'
  PROVE  ConsumptionInv'
<1>1. ASSUME NEW p \in Requests
      PROVE  RequestSound(p)'
  BY RequestStays
<1>2. ASSUME NEW k \in Reclaimers
      PROVE  ReclaimerSound(k)'
  BY ReclaimerStays
<1>3. ASSUME NEW a \in Admissions, NEW c \in Commands, Refuted(a, c)
      PROVE  Refuted(a, c)'
  BY <1>3, RefutedStays DEF NotBought, ConsumptionInv
<1>4. ASSUME NEW r \in answers'
      PROVE  AnswerSound(r)'
  BY <1>3, AnswerStays
<1> QED  BY <1>1, <1>2, <1>4 DEF ConsumptionInv

\* Nothing is bought by a step that leaves the ledger alone.
LEMMA NothingBought ==
  ASSUME NEW a \in Admissions, NEW c \in Commands, ledger[a] = NoResult,
         ledger'[a] = ledger[a]
  PROVE  NotBought(a, c)
BY NullsAssumption DEF NotBought, Results

\* An approved claim names the command of the one request that holds the admission.
LEMMA ClaimStep ==
  ASSUME ConsumptionInv, NEW q \in Requests, Claim(q)
  PROVE  ConsumptionInv'
<1> DEFINE a == requests[q].admission
           c == requests[q].command
<1>1. /\ requests[q].pc = "claim" /\ ConsumptionTypeOK /\ RequestSound(q)
      /\ UNCHANGED <<ledger, occupations, epoch, serving, reclaimers, answers>>
      /\ QueueSound /\ requests[q] \in RequestRows
  BY DEF Claim, durable, ConsumptionInv, ConsumptionTypeOK
<1>2. /\ a \in Admissions /\ c \in Commands /\ SnapshotTrue(q)
      /\ requests[q].pc \in Running /\ HoldsAdmission(q, a)
  BY <1>1 DEF RequestSound, Running, HoldsAdmission
<1>3. CASE ~serving
  <2>1. Unanswered(q) /\ Quiet
    BY <1>1, <1>3 DEF Claim, Unanswered, Quiet
  <2> QED  BY <2>1, UnansweredStep
<1>4. CASE serving /\ ~Approves(a, c)
  <2> DEFINE code == Refusal(a, c)
             r == [requests[q] EXCEPT !.pc = "recheck", !.code = code]
  <2>1. Quiet /\ Become(q, r)
    BY <1>1, <1>4 DEF Claim, ClaimInRedis, Quiet, Refused
  <2>2. /\ queue[a].state \in {"admitted", "claimed", "consumed", "expired", "gone"}
        /\ queue[a].command \in Commands \cup {NoCommand}
    BY <1>1, <1>2 DEF ConsumptionTypeOK
  <2>3. /\ code \in {"reset", "mismatch", "busy", "admitted", "consumed", "expired", "gone"}
        /\ code = "reset" => epoch # FirstEpoch
        /\ code = "mismatch" => queue[a].command \notin {NoCommand, c}
        /\ code = "consumed" => queue[a].state = "consumed"
        /\ code = "expired" => queue[a].state = "expired"
    BY <2>2 DEF Refusal
  <2> HIDE DEF code
  <2>4. /\ r \in RequestRows /\ r.pc = "recheck" /\ r.admission = a /\ r.command = c
        /\ r.seen = requests[q].seen /\ r.again = requests[q].again
        /\ r.code = code
    BY <1>1, <2>3 DEF RequestRows
  <2> HIDE DEF r
  <2>5. /\ RowsType /\ OthersKeep(q) /\ requests'[q] = r
    BY <1>1, <2>1, <2>4, BecomeRow
  <2>6. SnapshotTrue(q)'
    BY <1>1, <1>2, <2>1, <2>4, <2>5, QuietMonotone, SnapshotStays
  <2>7. /\ r.code = "consumed" => ledger[a] # NoResult
        /\ r.code = "expired" => queue[a].state \notin {"admitted", "claimed"}
    BY <1>1, <1>2, <2>3, <2>4 DEF QueueSound
  <2>8. RequestSound(q)'
    BY <1>1, <1>2, <2>1, <2>3, <2>4, <2>5, <2>6, <2>7 DEF RequestSound, Running, Quiet
  <2>9. AdmissionExclusive' /\ KeyExclusive'
    BY <1>1, <2>4, <2>5, ExclusiveStays DEF ConsumptionInv, HoldsAdmission, HoldsKey
  <2>10. ConsumptionTypeOK'
    BY <1>1, <2>1, <2>5, QuietType DEF ConsumptionTypeOK, AnswerRecords
  <2> QED  BY <1>1, <2>1, <2>5, <2>8, <2>9, <2>10, QuietStep
<1>5. CASE serving /\ Approves(a, c)
  <2>1. /\ queue' = [queue EXCEPT ![a].state = "claimed", ![a].command = c]
        /\ Moves(q, "occupy")
    BY <1>5 DEF Claim, ClaimInRedis
  <2>2. /\ RowsType /\ OthersKeep(q)
        /\ requests'[q].pc = "occupy"
        /\ requests'[q].admission = a
        /\ requests'[q].command = c
        /\ requests'[q].seen = requests[q].seen
        /\ requests'[q].again = requests[q].again
        /\ requests'[q].code = requests[q].code
    BY <1>1, <2>1, MovesRow
  <2>3. /\ queue'[a].state = "claimed" /\ queue'[a].command = c
        /\ \A b \in Admissions \ {a} : queue'[b] = queue[b]
        /\ queue' \in [Admissions -> [state : {"admitted", "claimed", "consumed", "expired", "gone"},
                                      command : Commands \cup {NoCommand}, overdue : BOOLEAN]]
    BY <1>1, <1>2, <2>1 DEF ConsumptionTypeOK
  <2>4. /\ epoch = FirstEpoch /\ queue[a].command \in {NoCommand, c}
        /\ queue[a].state \in {"admitted", "claimed"}
    BY <1>5 DEF Approves
  <2>5. Monotone
    BY <1>1, <2>3, <2>4 DEF Monotone
  <2>6. SnapshotTrue(q)' /\ OrdersSeen(q)' = OrdersSeen(q)
    BY <1>2, <2>2, <2>5, SnapshotStays DEF OrdersSeen
  <2>7. RequestSound(q)'
    BY <1>1, <1>2, <2>2, <2>3, <2>4, <2>6 DEF RequestSound, Running
  <2>8. AdmissionExclusive' /\ KeyExclusive'
    BY <1>1, <2>2, ExclusiveStays DEF ConsumptionInv, HoldsAdmission, HoldsKey
  <2>9. ConsumptionTypeOK'
    BY <1>1, <2>2, <2>3 DEF ConsumptionTypeOK, RowsType
  <2>10. \A b \in Admissions : ledger[b] # NoResult => ledger[b] \in Results
    BY <1>1 DEF ConsumptionTypeOK
  <2>11. ledger[a] # NoResult => ledger[a].command = c
    BY <1>1, <1>2, <2>4, <2>10, NullsAssumption DEF QueueSound, Results
  <2>12. QueueSound'
    BY <1>1, <1>2, <2>3, <2>11 DEF QueueSound
  <2>13. PurchaseSound' /\ RecoveryBounded'
    BY <1>1 DEF ConsumptionInv, PurchaseSound, RecoveryBounded
  <2>14. ASSUME NEW p \in Requests, p # q
         PROVE  requests'[p] = requests[p] /\ Undisturbed(p)
    <3>1. requests'[p] = requests[p]
      BY <2>2, <2>14 DEF OthersKeep
    <3>2. requests[p].pc \in {"occupy", "commit"} =>
              requests[p].admission \in Admissions \ {a}
      BY <1>2, <2>14 DEF ConsumptionInv, RequestSound, Running, HoldsAdmission, AdmissionExclusive
    <3> QED  BY <1>1, <2>3, <3>1, <3>2 DEF Undisturbed
  <2>15. \A b \in Admissions, d \in Commands : ledger[b] = NoResult => NotBought(b, d)
    BY <1>1, NothingBought
  <2> QED  BY <1>1, <2>5, <2>7, <2>8, <2>9, <2>12, <2>13, <2>14, <2>15, SharedStep
<1> QED  BY <1>3, <1>4, <1>5

\* The result becomes durable, and with it the purchase or the rejection.
LEMMA CommitStep ==
  ASSUME ConsumptionInv, NEW q \in Requests, Commit(q)
  PROVE  ConsumptionInv'
<1> DEFINE a == requests[q].admission
           c == requests[q].command
           code == requests[q].code
           row == [outcome |-> code, command |-> c]
           order == [admission |-> a, command |-> c, by |-> q]
<1>1. /\ requests[q].pc = "commit" /\ ConsumptionTypeOK /\ RequestSound(q)
      /\ UNCHANGED <<epoch, serving, queue, reclaimers, answers>>
      /\ QueueSound /\ PurchaseSound /\ RecoveryBounded
  BY DEF Commit, ConsumptionInv
<1>2. /\ a \in Admissions /\ c \in Commands /\ SnapshotTrue(q)
      /\ requests[q].pc \in Running
      /\ epoch = FirstEpoch /\ queue[a].command = c /\ ledger[a] = NoResult
      /\ queue[a].state = "claimed"
      /\ code \in {"consumed", "rejected"}
      /\ c \in DirectCheckouts => \A o \in occupations : o.command # c
      /\ OrdersSeen(q) = {} /\ requests[q].seen.ledger[a] = NoResult
  BY <1>1 DEF RequestSound, Running
<1>3. row \in Results /\ row # NoResult /\ row.outcome = code /\ row.command = c
  BY <1>2, NullsAssumption DEF Results
<1>4. /\ order \in Occupations /\ order.admission = a /\ order.command = c
  BY <1>2 DEF Occupations
<1>5. ledger' = [ledger EXCEPT ![a] = row]
  BY <1>2 DEF Commit
<1>6. \/ code = "consumed" /\ occupations' = occupations \cup {order}
      \/ code # "consumed" /\ occupations' = occupations
  BY DEF Commit
<1> HIDE DEF row, order
<1>7. /\ ledger'[a] = row
      /\ \A b \in Admissions \ {a} : ledger'[b] = ledger[b]
      /\ ledger' \in [Admissions -> Results \cup {NoResult}]
  BY <1>1, <1>2, <1>3, <1>5 DEF ConsumptionTypeOK
<1>8. Monotone
  BY <1>1, <1>2, <1>6, <1>7 DEF Monotone
<1>9. /\ OthersKeep(q) /\ RowsType /\ RequestSound(q)'
      /\ \A d \in DirectCheckouts : ~HoldsKey(q, d)'
      /\ \A b \in Admissions : ~HoldsAdmission(q, b)'
  <2>1. CASE Moves(q, "settle")
    <3>1. /\ RowsType /\ OthersKeep(q)
          /\ requests'[q].pc = "settle"
          /\ requests'[q].admission = a
          /\ requests'[q].command = c
          /\ requests'[q].seen = requests[q].seen
          /\ requests'[q].again = requests[q].again
          /\ requests'[q].code = code
      BY <1>1, <2>1, MovesRow
    <3>2. SnapshotTrue(q)'
      BY <1>2, <1>8, <3>1, SnapshotStays
    <3>3. ~requests[q].again
      BY <1>1, <1>2 DEF RequestSound
    <3>4. RequestSound(q)'
      BY <1>2, <1>7, <3>1, <3>2, <3>3 DEF RequestSound, Running, row
    <3> QED  BY <3>1, <3>4 DEF HoldsKey, HoldsAdmission
  <2>2. CASE Done(q)
    BY <1>1, <2>2, DoneRow, DoneSound
  <2> QED  BY <2>1, <2>2 DEF Commit
<1>10. HoldsAdmission(q, a) /\ (c \in DirectCheckouts => HoldsKey(q, c))
  BY <1>1 DEF HoldsAdmission, HoldsKey
<1>11. AdmissionExclusive' /\ KeyExclusive'
  BY <1>1, <1>9, ExclusiveStays DEF ConsumptionInv
<1>12. ConsumptionTypeOK'
  BY <1>1, <1>4, <1>6, <1>7, <1>9 DEF ConsumptionTypeOK, RowsType
<1>13. QueueSound' /\ RecoveryBounded'
  BY <1>1, <1>2, <1>3, <1>7 DEF QueueSound, RecoveryBounded
<1>14. PurchaseSound'
  <2>1. \A o \in occupations : /\ o.admission \in Admissions /\ o.command \in Commands
                               /\ ledger[o.admission] = [outcome |-> "consumed", command |-> o.command]
    BY <1>1 DEF ConsumptionTypeOK, Occupations, PurchaseSound
  <2>2. \A o \in occupations : ledger[o.admission] # NoResult
    <3>1. \A o \in occupations : [outcome |-> "consumed", command |-> o.command] \in Results
      BY <2>1 DEF Results
    <3> QED  BY <2>1, <3>1, NullsAssumption
  <2>3. \A o \in occupations : o.admission # a
    BY <1>2, <2>2
  <2>4. ASSUME NEW b \in Admissions, NEW o \in occupations', o.admission = b
        PROVE  ledger'[b] = [outcome |-> "consumed", command |-> o.command]
    <3>1. CASE o \in occupations
      BY <1>7, <2>1, <2>3, <2>4, <3>1
    <3>2. CASE code = "consumed" /\ o = order
      BY <1>4, <1>7, <2>4, <3>2 DEF row
    <3> QED  BY <1>6, <3>1, <3>2
  <2>5. ASSUME NEW b \in Admissions, ledger'[b] # NoResult, ledger'[b].outcome = "consumed"
        PROVE  \E o \in occupations' : o.admission = b
    <3>1. CASE b = a
      BY <1>3, <1>4, <1>6, <1>7, <2>5, <3>1
    <3>2. CASE b # a
      BY <1>1, <1>6, <1>7, <2>5, <3>2 DEF PurchaseSound
    <3> QED  BY <3>1, <3>2
  <2>6. ASSUME NEW o1 \in occupations', NEW o2 \in occupations',
               \/ o1.admission = o2.admission
               \/ o1.command = o2.command /\ o1.command \in DirectCheckouts
        PROVE  o1 = o2
    <3>1. CASE o1 \in occupations /\ o2 \in occupations
      BY <1>1, <2>6, <3>1 DEF PurchaseSound
    <3>2. CASE o1 = order \/ o2 = order
      BY <1>2, <1>4, <1>6, <2>3, <2>6, <3>2
    <3> QED  BY <1>6, <3>1, <3>2
  <2> QED  BY <2>4, <2>5, <2>6 DEF PurchaseSound
<1>15. ASSUME NEW p \in Requests, p # q
       PROVE  requests'[p] = requests[p] /\ Undisturbed(p)
  <2>1. requests'[p] = requests[p]
    BY <1>9, <1>15 DEF OthersKeep
  <2>2. requests[p].pc = "commit" => requests[p].admission \in Admissions \ {a}
    BY <1>2, <1>10, <1>15 DEF ConsumptionInv, RequestSound, Running, HoldsAdmission, AdmissionExclusive
  <2>3. (requests[p].pc = "commit" /\ requests[p].command \in DirectCheckouts)
            => requests[p].command # c
    BY <1>2, <1>10, <1>15 DEF ConsumptionInv, HoldsKey, KeyExclusive
  <2> QED  BY <1>1, <1>4, <1>6, <1>7, <2>1, <2>2, <2>3 DEF Undisturbed
<1>16. \A k \in Reclaimers :
           /\ reclaimers'[k] = reclaimers[k]
           /\ reclaimers[k].pc = "closing" =>
                  ledger'[reclaimers[k].admission] = ledger[reclaimers[k].admission]
  <2> SUFFICES ASSUME NEW k \in Reclaimers, reclaimers[k].pc = "closing"
               PROVE  reclaimers[k].admission \in Admissions \ {a}
    BY <1>1, <1>7
  <2> QED  BY <1>2, <1>10 DEF ConsumptionInv, ReclaimerSound, ReclaimerHolds, AdmissionExclusive
<1>17. ASSUME NEW b \in Admissions, NEW d \in Commands, ledger[b] = NoResult, Refuted(b, d)
       PROVE  NotBought(b, d)
  <2>1. CASE b # a
    BY <1>7, <1>17, <2>1, NothingBought
  <2>2. CASE b = a
    <3>1. d # c
      BY <1>2, <1>17, <2>2 DEF Refuted
    <3>2. [outcome |-> "consumed", command |-> d].command = d
      OBVIOUS
    <3>3. row # [outcome |-> "consumed", command |-> d]
      BY <1>3, <3>1, <3>2
    <3> QED  BY <1>7, <2>2, <3>3 DEF NotBought
  <2> QED  BY <2>1, <2>2
<1> QED  BY <1>1, <1>8, <1>9, <1>11, <1>12, <1>13, <1>14, <1>15, <1>16, <1>17, SharedStep

\* How a claim ends in Redis.
LEMMA FinalisedQueue ==
  ASSUME ConsumptionTypeOK, NEW a \in Admissions, NEW c \in Commands,
         NEW state \in {"consumed", "expired"}, Finalised(a, c, state) \/ queue' = queue
  PROVE  /\ queue' \in [Admissions -> [state : {"admitted", "claimed", "consumed", "expired", "gone"},
                                       command : Commands \cup {NoCommand}, overdue : BOOLEAN]]
         /\ \A b \in Admissions : queue'[b].command = queue[b].command
         /\ \A b \in Admissions \ {a} : queue'[b].state = queue[b].state
         /\ \/ queue'[a].state = queue[a].state
            \/ /\ queue[a].state = "claimed" /\ queue[a].command = c
               /\ queue'[a].state = state
BY DEF ConsumptionTypeOK, Finalised

LEMMA SettleStep ==
  ASSUME ConsumptionInv, NEW q \in Requests, Settle(q)
  PROVE  ConsumptionInv'
<1> DEFINE a == requests[q].admission
           c == requests[q].command
           code == IF requests[q].code = "consumed" THEN "target" ELSE "rejected"
<1>1. /\ requests[q].pc = "settle" /\ ConsumptionTypeOK /\ RequestSound(q)
      /\ UNCHANGED <<ledger, occupations, epoch, serving, reclaimers>>
      /\ QueueSound /\ Answered(q, code)
      /\ Finalised(a, c, "consumed") \/ queue' = queue
  BY DEF Settle, ConsumptionInv, durable
<1>2. /\ a \in Admissions /\ c \in Commands
      /\ ledger[a] = [outcome |-> requests[q].code, command |-> c]
      /\ requests[q].code \in {"consumed", "rejected"}
  BY <1>1 DEF RequestSound, Running
<1>3. ledger[a] # NoResult
  BY <1>2, NullsAssumption DEF Results
<1>4. /\ queue' \in [Admissions -> [state : {"admitted", "claimed", "consumed", "expired", "gone"},
                                    command : Commands \cup {NoCommand}, overdue : BOOLEAN]]
      /\ \A b \in Admissions : queue'[b].command = queue[b].command
      /\ \A b \in Admissions \ {a} : queue'[b].state = queue[b].state
      /\ \/ queue'[a].state = queue[a].state
         \/ queue[a].state = "claimed" /\ queue'[a].state = "consumed"
  BY <1>1, <1>2, FinalisedQueue
<1>5. Monotone
  BY <1>1, <1>4 DEF Monotone
<1>0. PICK answer : answer = [admission |-> a, command |-> c, code |-> code]
  OBVIOUS
<1>6. /\ RowsType /\ OthersKeep(q)
      /\ requests'[q].pc = "done" /\ requests'[q].seen = NothingSeen
      /\ answers' = answers \cup {answer}
  BY <1>0, <1>1, DoneRow DEF Answered
<1>7. answer \in AnswerRecords
  BY <1>0, <1>2 DEF AnswerRecords
<1>8. AnswerSound(answer)'
  BY <1>0, <1>1, <1>2 DEF AnswerSound, Refusals
<1>9. AdmissionExclusive' /\ KeyExclusive' /\ RequestSound(q)'
  BY <1>1, <1>6, DoneSound, ExclusiveStays DEF ConsumptionInv
<1>10. ConsumptionTypeOK'
  BY <1>1, <1>4, <1>6, <1>7 DEF ConsumptionTypeOK, RowsType, AnswerRecords
<1>11. QueueSound'
  BY <1>1, <1>3, <1>4 DEF QueueSound
<1>12. PurchaseSound' /\ RecoveryBounded'
  BY <1>1 DEF ConsumptionInv, PurchaseSound, RecoveryBounded
<1>13. ASSUME NEW p \in Requests, p # q
       PROVE  requests'[p] = requests[p] /\ Undisturbed(p)
  <2>1. requests[p].pc \in Running => requests[p].admission \in Admissions
    BY DEF ConsumptionInv, RequestSound
  <2> QED  BY <1>1, <1>3, <1>4, <1>6, <1>13, <2>1 DEF Undisturbed, OthersKeep, Running
<1>14. \A b \in Admissions, d \in Commands : ledger[b] = NoResult => NotBought(b, d)
  BY <1>1, NothingBought
<1> QED  BY <1>1, <1>5, <1>6, <1>8, <1>9, <1>10, <1>11, <1>12, <1>13, <1>14, SharedStep

----------------------------------------------------------------------------
(* Steps of reclaimers and of the rest of the system: no request moves.    *)

LEMMA LocksStay ==
  ASSUME AdmissionExclusive, KeyExclusive, requests' = requests,
         NEW k \in Reclaimers, \A l \in Reclaimers \ {k} : reclaimers'[l] = reclaimers[l],
         \A a \in Admissions : ReclaimerHolds(k, a)' =>
             \/ ReclaimerHolds(k, a)
             \/ /\ \A p \in Requests : ~HoldsAdmission(p, a)
                /\ \A l \in Reclaimers : ~ReclaimerHolds(l, a)
  PROVE  AdmissionExclusive' /\ KeyExclusive'
<1>1. /\ \A p \in Requests, a \in Admissions : HoldsAdmission(p, a)' <=> HoldsAdmission(p, a)
      /\ \A p \in Requests, c \in DirectCheckouts : HoldsKey(p, c)' <=> HoldsKey(p, c)
  BY DEF HoldsAdmission, HoldsKey
<1>2. \A l \in Reclaimers \ {k}, a \in Admissions : ReclaimerHolds(l, a)' <=> ReclaimerHolds(l, a)
  BY DEF ReclaimerHolds
<1> QED  BY <1>1, <1>2 DEF AdmissionExclusive, KeyExclusive

\* Only reclaimer k moves.
OtherReclaimersKeep(k) == \A l \in Reclaimers \ {k} : reclaimers'[l] = reclaimers[l]

LEMMA ReclaimerRow ==
  ASSUME ConsumptionTypeOK, NEW k \in Reclaimers, NEW r \in ReclaimerRows, Reclaimer(k, r)
  PROVE  /\ reclaimers' \in [Reclaimers -> ReclaimerRows]
         /\ OtherReclaimersKeep(k) /\ reclaimers'[k] = r
BY DEF ConsumptionTypeOK, Reclaimer, OtherReclaimersKeep

\* A step of one reclaimer that changes no shared row.
LEMMA QuietReclaimer ==
  ASSUME ConsumptionInv, NEW k \in Reclaimers, NEW r \in ReclaimerRows, Reclaimer(k, r),
         UNCHANGED <<ledger, occupations, epoch, serving, queue, requests, answers>>,
         ReclaimerSound(k)',
         r.pc = "closing" =>
             /\ \A p \in Requests : ~HoldsAdmission(p, r.admission)
             /\ \A l \in Reclaimers : ~ReclaimerHolds(l, r.admission)
  PROVE  ConsumptionInv'
<1>1. /\ reclaimers' \in [Reclaimers -> ReclaimerRows]
      /\ OtherReclaimersKeep(k) /\ reclaimers'[k] = r
  BY ReclaimerRow DEF ConsumptionInv
<1>2. Monotone
  BY DEF Monotone
<1>3. AdmissionExclusive' /\ KeyExclusive'
  <2>1. \A a \in Admissions : ReclaimerHolds(k, a)' =>
            /\ \A p \in Requests : ~HoldsAdmission(p, a)
            /\ \A l \in Reclaimers : ~ReclaimerHolds(l, a)
    BY <1>1 DEF ReclaimerHolds
  <2> QED  BY <1>1, <2>1, LocksStay DEF ConsumptionInv, OtherReclaimersKeep
<1>4. ConsumptionTypeOK'
  BY <1>1 DEF ConsumptionInv, ConsumptionTypeOK
<1>5. QueueSound' /\ PurchaseSound' /\ RecoveryBounded'
  BY DEF ConsumptionInv, QueueSound, PurchaseSound, RecoveryBounded
<1>6. \A p \in Requests : requests'[p] = requests[p] /\ Undisturbed(p)
  BY DEF Undisturbed
<1>7. \A a \in Admissions, c \in Commands : ledger[a] = NoResult => NotBought(a, c)
  BY NothingBought
<1>8. ASSUME NEW l \in Reclaimers
      PROVE  \/ ReclaimerSound(l)'
             \/ /\ reclaimers'[l] = reclaimers[l]
                /\ reclaimers[l].pc = "closing" =>
                       ledger'[reclaimers[l].admission] = ledger[reclaimers[l].admission]
  <2>1. CASE l = k
    BY <2>1
  <2>2. CASE l # k
    BY <1>1, <2>2 DEF OtherReclaimersKeep
  <2> QED  BY <2>1, <2>2
<1> QED  BY <1>2, <1>3, <1>4, <1>5, <1>6, <1>7, <1>8, SharedStep

LEMMA GivesUpSound ==
  ASSUME NEW k \in Reclaimers, reclaimers'[k] = NewReclaimer
  PROVE  ReclaimerSound(k)'
BY DEF ReclaimerSound, NewReclaimer

LEMMA GivesUpReclaimer ==
  ASSUME ConsumptionInv, NEW k \in Reclaimers, GivesUp(k),
         UNCHANGED <<ledger, occupations, epoch, serving, queue, requests, answers>>
  PROVE  ConsumptionInv'
<1>1. reclaimers'[k] = NewReclaimer
  BY NewRows, ReclaimerRow DEF GivesUp, ConsumptionInv
<1>2. NewReclaimer.pc # "closing"
  BY DEF NewReclaimer
<1> QED  BY <1>1, <1>2, NewRows, GivesUpSound, QuietReclaimer DEF GivesUp

LEMMA ReconcileStep ==
  ASSUME ConsumptionInv, NEW k \in Reclaimers, NEW a \in Admissions, Reconcile(k, a)
  PROVE  ConsumptionInv'
<1> DEFINE r == [pc |-> "reclaim", admission |-> a, command |-> queue[a].command]
<1>1. queue[a].command \in Commands
  BY DEF ConsumptionInv, QueueSound, Reconcile
<1>2. /\ r \in ReclaimerRows /\ r.pc = "reclaim" /\ r.admission = a
      /\ r.command = queue[a].command
  BY <1>1 DEF ReclaimerRows
<1>3. /\ Reclaimer(k, r)
      /\ UNCHANGED <<ledger, occupations, epoch, serving, queue, requests, answers>>
  BY DEF Reconcile, durable
<1> HIDE DEF r
<1>4. ReclaimerSound(k)'
  BY <1>1, <1>2, <1>3, ReclaimerRow DEF ConsumptionInv, ReclaimerSound
<1> QED  BY <1>2, <1>3, <1>4, QuietReclaimer

\* The row is read with the lock held: no row, and the claim is closed under it.
LEMMA ReclaimStep ==
  ASSUME ConsumptionInv, NEW k \in Reclaimers, Reclaim(k)
  PROVE  ConsumptionInv'
<1> DEFINE a == reclaimers[k].admission
           pc == IF ledger[a] # NoResult THEN "report" ELSE "closing"
           r == [reclaimers[k] EXCEPT !.pc = pc]
<1>1. /\ reclaimers[k].pc = "reclaim" /\ reclaimers[k] \in ReclaimerRows
      /\ UNCHANGED <<ledger, occupations, epoch, serving, queue, requests, answers>>
      /\ ReclaimerSound(k)
  BY DEF Reclaim, durable, ConsumptionInv, ConsumptionTypeOK
<1>2. CASE GivesUp(k)
  BY <1>1, <1>2, GivesUpReclaimer
<1>3. CASE ~AdmissionLocked(a) /\ Reclaimer(k, r)
  <2>1. /\ r \in ReclaimerRows /\ r.pc = pc /\ r.admission = a
        /\ r.command = reclaimers[k].command
    BY <1>1 DEF ReclaimerRows
  <2> HIDE DEF r
  <2>2. reclaimers'[k] = r
    BY <1>3, <2>1, ReclaimerRow DEF ConsumptionInv
  <2>3. ReclaimerSound(k)'
    BY <1>1, <2>1, <2>2 DEF ReclaimerSound
  <2>4. /\ \A p \in Requests : ~HoldsAdmission(p, a)
        /\ \A l \in Reclaimers : ~ReclaimerHolds(l, a)
    BY <1>3 DEF AdmissionLocked, HoldsAdmission, ReclaimerHolds
  <2> QED  BY <1>1, <1>3, <2>1, <2>3, <2>4, QuietReclaimer
<1> QED  BY <1>2, <1>3 DEF Reclaim

LEMMA ReclaimFailsStep ==
  ASSUME ConsumptionInv, NEW k \in Reclaimers, ReclaimFails(k)
  PROVE  ConsumptionInv'
BY GivesUpReclaimer DEF ReclaimFails, durable

\* The claim is closed while nobody else holds the admission.
LEMMA CommitClosedStep ==
  ASSUME ConsumptionInv, NEW k \in Reclaimers, CommitClosed(k)
  PROVE  ConsumptionInv'
<1> DEFINE a == reclaimers[k].admission
           c == reclaimers[k].command
           row == [outcome |-> "closed", command |-> c]
           r == [reclaimers[k] EXCEPT !.pc = "report"]
<1>1. /\ reclaimers[k].pc = "closing" /\ reclaimers[k] \in ReclaimerRows
      /\ UNCHANGED <<occupations, epoch, serving, queue, requests, answers>>
      /\ ledger' = [ledger EXCEPT ![a] = row] /\ Reclaimer(k, r)
      /\ ReclaimerSound(k) /\ ConsumptionTypeOK /\ QueueSound /\ PurchaseSound
  BY DEF CommitClosed, ConsumptionInv, ConsumptionTypeOK
<1>2. /\ a \in Admissions /\ c \in Commands /\ ledger[a] = NoResult
      /\ queue[a].command = c /\ ReclaimerHolds(k, a)
  BY <1>1 DEF ReclaimerSound, ReclaimerHolds
<1>3. row \in Results /\ row # NoResult /\ row.outcome = "closed" /\ row.command = c
  BY <1>2, NullsAssumption DEF Results
<1> HIDE DEF row
<1>4. /\ ledger'[a] = row
      /\ \A b \in Admissions \ {a} : ledger'[b] = ledger[b]
      /\ ledger' \in [Admissions -> Results \cup {NoResult}]
  BY <1>1, <1>2, <1>3 DEF ConsumptionTypeOK
<1>5. /\ r \in ReclaimerRows /\ r.pc = "report" /\ r.admission = a /\ r.command = c
  BY <1>1 DEF ReclaimerRows
<1> HIDE DEF r
<1>6. /\ reclaimers' \in [Reclaimers -> ReclaimerRows]
      /\ OtherReclaimersKeep(k) /\ reclaimers'[k] = r
  BY <1>1, <1>5, ReclaimerRow
<1>7. Monotone
  BY <1>1, <1>2, <1>4 DEF Monotone
<1>8. AdmissionExclusive' /\ KeyExclusive'
  <2>1. \A b \in Admissions : ~ReclaimerHolds(k, b)'
    BY <1>5, <1>6 DEF ReclaimerHolds
  <2> QED  BY <1>1, <1>6, <2>1, LocksStay DEF ConsumptionInv, OtherReclaimersKeep
<1>9. ConsumptionTypeOK'
  BY <1>1, <1>4, <1>6 DEF ConsumptionTypeOK
<1>10. QueueSound' /\ RecoveryBounded'
  BY <1>1, <1>2, <1>3, <1>4 DEF ConsumptionInv, QueueSound, RecoveryBounded
<1>11. PurchaseSound'
  <2>1. \A o \in occupations : /\ o.admission \in Admissions /\ o.command \in Commands
                               /\ ledger[o.admission] = [outcome |-> "consumed", command |-> o.command]
    BY <1>1 DEF ConsumptionTypeOK, Occupations, PurchaseSound
  <2>2. \A o \in occupations : o.admission # a
    <3>1. \A o \in occupations : [outcome |-> "consumed", command |-> o.command] \in Results
      BY <2>1 DEF Results
    <3> QED  BY <1>2, <2>1, <3>1, NullsAssumption
  <2>3. \A b \in Admissions : \A o \in occupations' : o.admission = b =>
            ledger'[b] = [outcome |-> "consumed", command |-> o.command]
    BY <1>1, <1>4, <2>1, <2>2
  <2>4. \A b \in Admissions : (ledger'[b] # NoResult /\ ledger'[b].outcome = "consumed") =>
            \E o \in occupations' : o.admission = b
    BY <1>1, <1>3, <1>4 DEF PurchaseSound
  <2> QED  BY <1>1, <2>3, <2>4 DEF PurchaseSound
<1>12. ASSUME NEW p \in Requests
       PROVE  requests'[p] = requests[p] /\ Undisturbed(p)
  <2>1. requests[p].pc = "commit" => requests[p].admission \in Admissions \ {a}
    BY <1>2 DEF ConsumptionInv, RequestSound, Running, HoldsAdmission, AdmissionExclusive
  <2> QED  BY <1>1, <1>4, <2>1 DEF Undisturbed
<1>13. ASSUME NEW l \in Reclaimers
       PROVE  \/ ReclaimerSound(l)'
              \/ /\ reclaimers'[l] = reclaimers[l]
                 /\ reclaimers[l].pc = "closing" =>
                        ledger'[reclaimers[l].admission] = ledger[reclaimers[l].admission]
  <2>1. CASE l = k
    BY <1>1, <1>2, <1>3, <1>4, <1>5, <1>6, <2>1 DEF ReclaimerSound
  <2>2. CASE l # k
    <3>1. reclaimers[l].pc = "closing" => reclaimers[l].admission \in Admissions \ {a}
      BY <1>2, <2>2 DEF ConsumptionInv, ReclaimerSound, ReclaimerHolds, AdmissionExclusive
    <3> QED  BY <1>4, <1>6, <2>2, <3>1 DEF OtherReclaimersKeep
  <2> QED  BY <2>1, <2>2
<1>14. ASSUME NEW b \in Admissions, NEW d \in Commands, ledger[b] = NoResult
       PROVE  NotBought(b, d)
  <2>1. CASE b # a
    BY <1>4, <1>14, <2>1, NothingBought
  <2>2. CASE b = a
    BY <1>3, <1>4, <2>2 DEF NotBought
  <2> QED  BY <2>1, <2>2
<1> QED  BY <1>1, <1>7, <1>8, <1>9, <1>10, <1>11, <1>12, <1>13, <1>14, SharedStep

\* A step on the queue that leaves every claim with its command, and ends one
\* only when the ledger has its result.
LEMMA QueueStep ==
  ASSUME ConsumptionInv, UNCHANGED <<ledger, occupations, epoch, requests, answers>>,
         queue' \in [Admissions -> [state : {"admitted", "claimed", "consumed", "expired", "gone"},
                                    command : Commands \cup {NoCommand}, overdue : BOOLEAN]],
         \A a \in Admissions :
             /\ queue'[a].command = queue[a].command
             /\ \/ queue'[a].state = queue[a].state
                \/ queue[a].state = "admitted" /\ queue'[a].state = "expired"
                \/ ledger[a] # NoResult /\ queue'[a].state \in {"consumed", "expired"},
         serving' \in BOOLEAN, serving' \/ epoch < LastEpoch,
         \/ reclaimers' = reclaimers
         \/ \E k \in Reclaimers : GivesUp(k)
  PROVE  ConsumptionInv'
<1>1. ConsumptionTypeOK /\ QueueSound
  BY DEF ConsumptionInv
<1>2. Monotone
  BY DEF Monotone
<1>3. /\ reclaimers' \in [Reclaimers -> ReclaimerRows]
      /\ \A k \in Reclaimers : reclaimers'[k] \in {reclaimers[k], NewReclaimer}
  <2>1. CASE reclaimers' = reclaimers
    BY <1>1, <2>1 DEF ConsumptionTypeOK
  <2>2. CASE \E k \in Reclaimers : GivesUp(k)
    BY <1>1, <2>2, NewRows, ReclaimerRow DEF GivesUp, OtherReclaimersKeep
  <2> QED  BY <2>1, <2>2
<1>4. AdmissionExclusive' /\ KeyExclusive'
  <2>1. /\ \A p \in Requests, a \in Admissions : HoldsAdmission(p, a)' <=> HoldsAdmission(p, a)
        /\ \A p \in Requests, c \in DirectCheckouts : HoldsKey(p, c)' <=> HoldsKey(p, c)
    BY DEF HoldsAdmission, HoldsKey
  <2>2. \A l \in Reclaimers, a \in Admissions : ReclaimerHolds(l, a)' => ReclaimerHolds(l, a)
    BY <1>3 DEF ReclaimerHolds, NewReclaimer
  <2> QED  BY <2>1, <2>2 DEF ConsumptionInv, AdmissionExclusive, KeyExclusive
<1>5. ConsumptionTypeOK'
  BY <1>1, <1>3 DEF ConsumptionTypeOK
<1>6. QueueSound'
  BY <1>1 DEF QueueSound
<1>7. PurchaseSound' /\ RecoveryBounded'
  BY DEF ConsumptionInv, PurchaseSound, RecoveryBounded
<1>8. ASSUME NEW p \in Requests
      PROVE  requests'[p] = requests[p] /\ Undisturbed(p)
  <2>1. requests[p].pc \in {"occupy", "commit"} =>
            /\ requests[p].admission \in Admissions
            /\ queue[requests[p].admission].state = "claimed"
                   \/ ledger[requests[p].admission] # NoResult
    BY DEF ConsumptionInv, RequestSound, Running
  <2> QED  BY <2>1 DEF Undisturbed
<1>9. ASSUME NEW l \in Reclaimers
      PROVE  \/ ReclaimerSound(l)'
             \/ /\ reclaimers'[l] = reclaimers[l]
                /\ reclaimers[l].pc = "closing" =>
                       ledger'[reclaimers[l].admission] = ledger[reclaimers[l].admission]
  BY <1>3, GivesUpSound
<1>10. \A a \in Admissions, c \in Commands : ledger[a] = NoResult => NotBought(a, c)
  BY NothingBought
<1> QED  BY <1>2, <1>4, <1>5, <1>6, <1>7, <1>8, <1>9, <1>10, SharedStep

LEMMA ReportStep ==
  ASSUME ConsumptionInv, NEW k \in Reclaimers, Report(k)
  PROVE  ConsumptionInv'
<1> DEFINE a == reclaimers[k].admission
           c == reclaimers[k].command
<1>1. /\ ConsumptionTypeOK /\ ReclaimerSound(k) /\ reclaimers[k].pc = "report"
      /\ UNCHANGED <<ledger, occupations, epoch, serving, requests, answers>> /\ GivesUp(k)
      /\ RecoveryBounded
  BY DEF Report, ConsumptionInv, durable
<1>2. a \in Admissions /\ c \in Commands /\ ledger[a] # NoResult
  BY <1>1 DEF ReclaimerSound
<1>3. PICK state \in {"consumed", "expired"} : Finalised(a, c, state)
  BY DEF Report
<1>4. /\ queue' \in [Admissions -> [state : {"admitted", "claimed", "consumed", "expired", "gone"},
                                    command : Commands \cup {NoCommand}, overdue : BOOLEAN]]
      /\ \A b \in Admissions : queue'[b].command = queue[b].command
      /\ \A b \in Admissions \ {a} : queue'[b].state = queue[b].state
      /\ queue'[a].state = queue[a].state \/ queue'[a].state = state
  BY <1>1, <1>2, <1>3, FinalisedQueue
<1>5. serving' \in BOOLEAN /\ (serving' \/ epoch < LastEpoch)
  BY <1>1 DEF ConsumptionTypeOK, RecoveryBounded
<1> QED  BY <1>1, <1>2, <1>4, <1>5, QueueStep

LEMMA DeadlineOrLapse ==
  ASSUME ConsumptionInv, NEW a \in Admissions, DeadlinePasses(a) \/ Lapse(a)
  PROVE  ConsumptionInv'
<1>1. /\ ConsumptionTypeOK /\ RecoveryBounded
      /\ UNCHANGED <<ledger, occupations, epoch, serving, requests, reclaimers, answers>>
  BY DEF DeadlinePasses, Lapse, ConsumptionInv, durable
<1>2. serving' \in BOOLEAN /\ (serving' \/ epoch < LastEpoch)
  BY <1>1 DEF ConsumptionTypeOK, RecoveryBounded
<1>3. /\ queue' \in [Admissions -> [state : {"admitted", "claimed", "consumed", "expired", "gone"},
                                    command : Commands \cup {NoCommand}, overdue : BOOLEAN]]
      /\ \A b \in Admissions :
             /\ queue'[b].command = queue[b].command
             /\ \/ queue'[b].state = queue[b].state
                \/ queue[b].state = "admitted" /\ queue'[b].state = "expired"
  <2>1. CASE DeadlinePasses(a)
    BY <1>1, <2>1 DEF DeadlinePasses, ConsumptionTypeOK
  <2>2. CASE Lapse(a)
    BY <1>1, <2>2 DEF Lapse, ConsumptionTypeOK
  <2> QED  BY <2>1, <2>2
<1> QED  BY <1>1, <1>2, <1>3, QueueStep

LEMMA LoseRedisStep ==
  ASSUME ConsumptionInv, LoseRedis
  PROVE  ConsumptionInv'
<1>1. /\ UNCHANGED <<ledger, occupations, epoch, queue, requests, reclaimers, answers>>
      /\ serving' = FALSE /\ epoch < LastEpoch
  BY DEF LoseRedis, durable
<1> QED  BY <1>1, QueueStep DEF ConsumptionInv, ConsumptionTypeOK

\* The exclusive gate: no request is past its claim when the epoch changes.
LEMMA RecoverStep ==
  ASSUME ConsumptionInv, Recover
  PROVE  ConsumptionInv'
<1>1. /\ ConsumptionTypeOK /\ QueueSound /\ RecoveryBounded /\ ~serving
      /\ UNCHANGED <<ledger, occupations, requests, reclaimers, answers>>
      /\ epoch' = epoch + 1 /\ serving' = TRUE
      /\ queue' = [a \in Admissions |-> [queue[a] EXCEPT !.state = "gone"]]
  BY DEF Recover, ConsumptionInv
<1>2. epoch' \in FirstEpoch..LastEpoch /\ epoch' # FirstEpoch
  BY <1>1, ConsumptionAssumption DEF ConsumptionTypeOK, RecoveryBounded, FirstEpoch
<1>3. /\ queue' \in [Admissions -> [state : {"admitted", "claimed", "consumed", "expired", "gone"},
                                    command : Commands \cup {NoCommand}, overdue : BOOLEAN]]
      /\ \A a \in Admissions : queue'[a].command = queue[a].command /\ queue'[a].state = "gone"
  BY <1>1 DEF ConsumptionTypeOK
<1>4. Monotone
  BY <1>1, <1>2, <1>3 DEF Monotone
<1>5. AdmissionExclusive' /\ KeyExclusive'
  BY <1>1 DEF ConsumptionInv, AdmissionExclusive, KeyExclusive, HoldsAdmission, HoldsKey,
              ReclaimerHolds
<1>6. ConsumptionTypeOK'
  BY <1>1, <1>2, <1>3 DEF ConsumptionTypeOK
<1>7. QueueSound' /\ PurchaseSound' /\ RecoveryBounded'
  BY <1>1, <1>3 DEF ConsumptionInv, QueueSound, PurchaseSound, RecoveryBounded
<1>8. \A p \in Requests : requests'[p] = requests[p] /\ Undisturbed(p)
  BY <1>1 DEF Recover, InsideGate, Undisturbed
<1>9. \A k \in Reclaimers : reclaimers'[k] = reclaimers[k] /\ ledger' = ledger
  BY <1>1
<1>10. \A a \in Admissions, c \in Commands : ledger[a] = NoResult => NotBought(a, c)
  BY <1>1, NothingBought
<1> QED  BY <1>1, <1>4, <1>5, <1>6, <1>7, <1>8, <1>9, <1>10, SharedStep

----------------------------------------------------------------------------
(* The theorems.                                                           *)

LEMMA ConsumptionInvInit == ConsumptionInit => ConsumptionInv
<1> SUFFICES ASSUME ConsumptionInit
             PROVE  ConsumptionInv
  OBVIOUS
<1> USE DEF ConsumptionInit
<1>1. ConsumptionTypeOK
  BY NewRows, ConsumptionAssumption DEF ConsumptionTypeOK, FirstEpoch
<1>2. /\ \A q \in Requests : requests[q].pc = "idle" /\ ~requests[q].again
                             /\ requests[q].seen = NothingSeen
      /\ \A k \in Reclaimers : reclaimers[k].pc = "idle"
  BY DEF NewRequest, NewReclaimer
<1>3. AdmissionExclusive /\ KeyExclusive
  BY <1>2 DEF AdmissionExclusive, KeyExclusive, HoldsAdmission, HoldsKey, ReclaimerHolds
<1>4. ASSUME NEW q \in Requests
      PROVE  RequestSound(q)
  <2>1. SnapshotTrue(q)
    BY <1>2 DEF SnapshotTrue, NothingSeen
  <2> QED  BY <1>2, <2>1 DEF RequestSound, Running
<1>5. \A k \in Reclaimers : ReclaimerSound(k)
  BY <1>2 DEF ReclaimerSound
<1>6. QueueSound /\ PurchaseSound /\ RecoveryBounded
  BY DEF QueueSound, PurchaseSound, RecoveryBounded
<1> QED  BY <1>1, <1>3, <1>4, <1>5, <1>6 DEF ConsumptionInv

LEMMA ConsumptionInvNext ==
  ConsumptionInv /\ [ConsumptionNext]_consumptionVars => ConsumptionInv'
<1> SUFFICES ASSUME ConsumptionInv, [ConsumptionNext]_consumptionVars
             PROVE  ConsumptionInv'
  OBVIOUS
<1>1. ASSUME NEW q \in Requests, NEW a \in Admissions, NEW c \in Commands, Arrive(q, a, c)
      PROVE  ConsumptionInv'
  BY <1>1, ArriveStep
<1>2. ASSUME NEW q \in Requests, RequestStep(q) \/ Fail(q)
      PROVE  ConsumptionInv'
  BY <1>2, ReplayOrderStep, EnterGateStep, LockAdmissionStep, GivesUpStep, JudgeStep,
     ClaimStep, OccupyStep, CommitStep, CommitConflictStep, SettleStep, RecheckStep
     DEF RequestStep
<1>3. ASSUME NEW k \in Reclaimers, ReclaimerStep(k) \/ ReclaimFails(k)
      PROVE  ConsumptionInv'
  BY <1>3, ReconcileStep, ReclaimStep, CommitClosedStep, ReportStep, ReclaimFailsStep
     DEF ReclaimerStep
<1>4. ASSUME NEW a \in Admissions, DeadlinePasses(a) \/ Lapse(a)
      PROVE  ConsumptionInv'
  BY <1>4, DeadlineOrLapse
<1>5. CASE LoseRedis
  BY <1>5, LoseRedisStep
<1>6. CASE Recover
  BY <1>6, RecoverStep
<1>7. CASE UNCHANGED consumptionVars
  <2>1. Quiet /\ requests' = requests /\ answers' = answers
    BY <1>7 DEF consumptionVars, Quiet
  <2>2. /\ ConsumptionTypeOK' /\ RecoveryBounded'
        /\ AdmissionExclusive' /\ KeyExclusive' /\ QueueSound' /\ PurchaseSound'
    BY <2>1 DEF ConsumptionInv, Quiet, ConsumptionTypeOK, RecoveryBounded, AdmissionExclusive,
                KeyExclusive, HoldsAdmission, HoldsKey, ReclaimerHolds, QueueSound, PurchaseSound
  <2>3. \A p \in Requests : requests'[p] = requests[p] /\ Undisturbed(p)
    BY <2>1 DEF Quiet, Undisturbed
  <2>4. Monotone
    BY <2>1, QuietMonotone DEF ConsumptionInv
  <2>5. \A a \in Admissions, c \in Commands : ledger[a] = NoResult => NotBought(a, c)
    BY <2>1, NothingBought DEF Quiet
  <2> QED  BY <2>1, <2>2, <2>3, <2>4, <2>5, SharedStep DEF Quiet
<1> QED  BY <1>1, <1>2, <1>3, <1>4, <1>5, <1>6, <1>7 DEF ConsumptionNext

\* ConsumptionInv holds of every reachable state.
THEOREM ConsumptionCorrect == ConsumptionSpec => []ConsumptionInv
BY ConsumptionInvInit, ConsumptionInvNext, PTL DEF ConsumptionSpec

\* Every variable of the admission's purchase has its type.
THEOREM ConsumptionTypes == ConsumptionSpec => []ConsumptionTypeOK
<1>1. ConsumptionInv => ConsumptionTypeOK
  BY DEF ConsumptionInv
<1> QED  BY <1>1, ConsumptionCorrect, PTL

\* An admission buys at most once and exactly what its ledger row says, and a
\* checkout key has at most one order: whatever requests, crashes, reclaimers
\* and recoveries interleave (occupyThroughAdmission and its savepoint).
THEOREM OneAdmissionOnePurchase == ConsumptionSpec => []OnePurchasePerAdmission
<1>1. ConsumptionInv => OnePurchasePerAdmission
  <2> SUFFICES ASSUME ConsumptionInv
               PROVE  OnePurchasePerAdmission
    OBVIOUS
  <2>1. ConsumptionTypeOK /\ PurchaseSound
    BY DEF ConsumptionInv
  <2>2. \A o \in occupations : /\ o.admission \in Admissions /\ o.command \in Commands
                               /\ ledger[o.admission] = [outcome |-> "consumed", command |-> o.command]
    BY <2>1 DEF ConsumptionTypeOK, Occupations, PurchaseSound
  <2>3. ASSUME NEW o \in occupations
        PROVE  /\ ledger[o.admission] # NoResult
               /\ ledger[o.admission].outcome = "consumed"
               /\ ledger[o.admission].command = o.command
    <3> DEFINE row == [outcome |-> "consumed", command |-> o.command]
    <3>1. row \in Results /\ row.outcome = "consumed" /\ row.command = o.command
      BY <2>2 DEF Results
    <3>2. ledger[o.admission] = row
      BY <2>2
    <3> HIDE DEF row
    <3> QED  BY <3>1, <3>2, NullsAssumption
  <2>4. ASSUME NEW a \in Admissions
        PROVE  {o.command : o \in {o \in occupations : o.admission = a}} =
                   IF ledger[a] # NoResult /\ ledger[a].outcome = "consumed"
                   THEN {ledger[a].command} ELSE {}
    <3>1. CASE ledger[a] # NoResult /\ ledger[a].outcome = "consumed"
      <4>1. PICK o \in occupations : o.admission = a
        BY <2>1, <3>1 DEF PurchaseSound
      <4>2. \A p \in occupations : p.admission = a => p.command = ledger[a].command
        BY <2>3
      <4> QED  BY <3>1, <4>1, <4>2
    <3>2. CASE ~(ledger[a] # NoResult /\ ledger[a].outcome = "consumed")
      BY <2>3, <3>2
    <3> QED  BY <3>1, <3>2
  <2>5. \A o1, o2 \in occupations :
            o1.admission = o2.admission \/ (o1.command = o2.command /\ o1.command \in DirectCheckouts)
                => o1 = o2
    BY <2>1 DEF PurchaseSound
  <2> QED  BY <2>4, <2>5 DEF OnePurchasePerAdmission
<1> QED  BY <1>1, ConsumptionCorrect, PTL

\* What a client was told stays true of the ledger forever: a purchase is its
\* purchase, a refusal never becomes one (ownResult, purchaseTransaction).
THEOREM AnswersHold == ConsumptionSpec => []AnswersMatchLedger
<1>1. ConsumptionInv => AnswersMatchLedger
  BY DEF ConsumptionInv, AnswerSound, Refuted, AnswersMatchLedger
<1> QED  BY <1>1, ConsumptionCorrect, PTL

\* What ends a claim in Redis is a request that settles or a reclaimer that reports.
LEMMA WhoEndsClaims ==
  ASSUME ConsumptionInv, ConsumptionNext, NEW a \in Admissions, queue[a].state = "claimed",
         queue'[a].state \in {"consumed", "expired"}
  PROVE  \/ \E q \in Requests : Settle(q)
         \/ \E k \in Reclaimers : Report(k)
<1>1. \A q \in Requests, b \in Admissions, c \in Commands : ~Arrive(q, b, c)
  BY DEF Arrive
<1>2. ASSUME NEW q \in Requests, RequestStep(q) \/ Fail(q)
      PROVE  Settle(q)
  <2>1. CASE Claim(q)
    <3>1. queue' = queue \/ ClaimInRedis(requests[q].admission, requests[q].command)
      BY <2>1 DEF Claim
    <3>2. queue'[a].state \in {queue[a].state, "claimed"}
      BY <3>1 DEF ClaimInRedis, ConsumptionInv, ConsumptionTypeOK
    <3> QED  BY <3>2
  <2>2. CASE queue' = queue
    BY <2>2
  <2> QED  BY <1>2, <2>1, <2>2 DEF RequestStep, Fail, ReplayOrder, EnterGate, LockAdmission,
              LockTimeout, Judge, Occupy, Commit, CommitConflict, Recheck
<1>3. ASSUME NEW k \in Reclaimers, ReclaimerStep(k) \/ ReclaimFails(k)
      PROVE  Report(k)
  BY <1>3 DEF ReclaimerStep, ReclaimFails, Reconcile, Reclaim, CommitClosed
<1>4. ASSUME NEW b \in Admissions
      PROVE  ~DeadlinePasses(b) /\ ~Lapse(b)
  BY DEF DeadlinePasses, Lapse, ConsumptionInv, ConsumptionTypeOK
<1>5. ~LoseRedis
  BY DEF LoseRedis
<1>6. ~Recover
  BY DEF Recover, ConsumptionInv, ConsumptionTypeOK
<1> QED  BY <1>1, <1>2, <1>3, <1>4, <1>5, <1>6 DEF ConsumptionNext

\* A slot goes back only on a result that is durable, and as it says: no
\* deadline, no missing row and no reclaimer that lost its lock returns one
\* (settleAdmission, reclaimOverdueClaims).
THEOREM SlotsReturnOnResults == ConsumptionSpec => SlotReturnsOnResult
<1>1. ConsumptionInv /\ [ConsumptionNext]_consumptionVars => [ReturnsOnResult]_consumptionVars
  <2> SUFFICES ASSUME ConsumptionInv, ConsumptionNext, NEW a \in Admissions,
                      queue[a].state = "claimed", queue'[a].state \in {"consumed", "expired"}
               PROVE  /\ ledger[a] # NoResult
                      /\ ledger[a].command = queue[a].command
                      /\ (queue'[a].state = "expired") = (ledger[a].outcome = "closed")
    BY DEF ReturnsOnResult
  <2>0. ConsumptionTypeOK /\ QueueSound
    BY DEF ConsumptionInv
  <2>1. CASE \E q \in Requests : Settle(q)
    <3>1. PICK q \in Requests : Settle(q)
      BY <2>1
    <3> DEFINE b == requests[q].admission
               c == requests[q].command
    <3>2. /\ b \in Admissions /\ c \in Commands
          /\ ledger[b] = [outcome |-> requests[q].code, command |-> c]
          /\ requests[q].code \in {"consumed", "rejected"}
      BY <3>1 DEF Settle, ConsumptionInv, RequestSound, Running
    <3>3. Finalised(b, c, "consumed") \/ queue' = queue
      BY <3>1 DEF Settle
    <3>4. a = b /\ queue'[a].state = "consumed"
      BY <2>0, <3>2, <3>3, FinalisedQueue
    <3>5. ledger[b] # NoResult /\ ledger[b].outcome # "closed"
      BY <3>2, NullsAssumption DEF Results
    <3> QED  BY <2>0, <3>4, <3>5 DEF QueueSound
  <2>2. CASE \E k \in Reclaimers : Report(k)
    <3>1. PICK k \in Reclaimers : Report(k)
      BY <2>2
    <3> DEFINE b == reclaimers[k].admission
               c == reclaimers[k].command
               state == IF ledger[b] = NoResult \/ ledger[b].outcome = "closed"
                        THEN "expired" ELSE "consumed"
    <3>2. b \in Admissions /\ c \in Commands /\ ledger[b] # NoResult
      BY <3>1 DEF Report, ConsumptionInv, ReclaimerSound
    <3>3. state \in {"consumed", "expired"} /\ Finalised(b, c, state)
      BY <3>1 DEF Report
    <3>4. (state = "expired") = (ledger[b].outcome = "closed")
      BY <3>2
    <3> HIDE DEF state
    <3>5. a = b /\ queue'[a].state = state
      BY <2>0, <3>2, <3>3, FinalisedQueue
    <3> QED  BY <2>0, <3>2, <3>4, <3>5 DEF QueueSound
  <2> QED  BY <2>1, <2>2, WhoEndsClaims
<1> QED  BY <1>1, ConsumptionCorrect, PTL DEF ConsumptionSpec, SlotReturnsOnResult

\* Nothing is bought once the admission's epoch was left: a purchase that is
\* under way holds the shared gate, and recover waits for it (openAdmissionGate).
THEOREM NothingBoughtAfterReset == ConsumptionSpec => NoPurchaseAfterReset
<1>1. ConsumptionInv /\ [ConsumptionNext]_consumptionVars => [BuysInEpoch]_consumptionVars
  <2> SUFFICES ASSUME ConsumptionInv, ConsumptionNext, occupations' # occupations
               PROVE  epoch = FirstEpoch
    BY DEF BuysInEpoch
  <2>1. PICK q \in Requests : Commit(q)
    BY DEF ConsumptionNext, Arrive, RequestStep, Fail, ReplayOrder, EnterGate, LockAdmission,
           LockTimeout, Judge, Claim, Occupy, CommitConflict, Settle, Recheck, ReclaimerStep,
           ReclaimFails, Reconcile, Reclaim, CommitClosed, Report, DeadlinePasses, Lapse,
           LoseRedis, Recover, durable
  <2> QED  BY <2>1 DEF Commit, ConsumptionInv, RequestSound
<1> QED  BY <1>1, ConsumptionCorrect, PTL DEF ConsumptionSpec, NoPurchaseAfterReset

=============================================================================
