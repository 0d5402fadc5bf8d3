------------------------- MODULE AdmissionQueueProofs -------------------------
(***************************************************************************)
(* Proofs about AdmissionQueue for every number of users and admissions    *)
(* and every profile: the indexes and counts of the script agree, capacity *)
(* and rate hold, promotion is in order, and a claimed slot stays.         *)
(***************************************************************************)
EXTENDS AdmissionQueue, FiniteSetTheorems, FunctionTheorems, WellFoundedInduction, TLAPS

----------------------------------------------------------------------------
(* The inductive invariant.                                                *)

\* The record of admission id, everything its state implies, and the indexes.
EntrySound(id) ==
    LET e == entries[id] IN
    /\ leases[id] = IF e.state = "waiting" THEN e.expiresAt ELSE Absent
    /\ admitted[id] = IF e.state = "admitted" THEN e.expiresAt ELSE Absent
    /\ claims[id] = IF Claimed(id) THEN e.deadline ELSE Absent
    /\ e.state = "none" <=> id > sequence
    /\ Active(id) => active[e.user] = id /\ e.expiresAt # Absent
    /\ e.state # "none" => /\ e.user \in Users /\ latest[e.user] >= id
                           /\ \E r \in JoinRequests : joins[r] = id
    /\ e.admittedAt > 0 => window[id] = e.admittedAt
    /\ Claimed(id) => e.state = "admitted" /\ e.deadline # Absent

UserSound(u) == active[u] # NoId => Active(active[u]) /\ entries[active[u]].user = u

\* A hash has as many keys as the counter beside it says.
KeysCounted ==
    /\ IsFiniteSet(HasKey(joins, NoId)) /\ Cardinality(HasKey(joins, NoId)) = sequence
    /\ IsFiniteSet(HasKey(latest, NoId)) /\ Cardinality(HasKey(latest, NoId)) = users

QueueInv ==
    /\ QueueTypeOK
    /\ waiting = {id \in Ids : entries[id].state = "waiting"}
    /\ \A id \in Ids : EntrySound(id)
    /\ \A u \in Users : UserSound(u)
    /\ KeysCounted
    /\ Size(window) <= Rate
    /\ Size(admitted) <= Capacity

----------------------------------------------------------------------------
(* Times, and sets of admissions.                                          *)

\* What a time may become, and what the profile's times are.
LEMMA TimeFacts ==
  /\ {Absent, 0, LeaseTime, AdmissionTime, ClaimTime, RateWindow} \subseteq Times
  /\ {LeaseTime, AdmissionTime, ClaimTime, RateWindow} \subseteq Positive
  /\ Absent \notin Positive /\ 0 \notin Positive /\ Absent # 0
  /\ \A t \in Times :
         /\ Sooner(t) \in Times /\ t \in Int
         /\ Sooner(t) = Absent <=> t = Absent
         /\ Sooner(t) > 0 => t > 0
<1>1. /\ {LeaseTime, AdmissionTime, ClaimTime, RateWindow} \subseteq Positive
      /\ LeaseTime \in Nat /\ AdmissionTime \in Nat /\ ClaimTime \in Nat /\ RateWindow \in Nat
  BY ProfileAssumption DEF Positive
<1>2. {Absent, 0, LeaseTime, AdmissionTime, ClaimTime, RateWindow} \subseteq Times
  BY <1>1 DEF Times, Absent
<1>3. \A t \in Times : /\ Sooner(t) \in Times /\ t \in Int
                       /\ Sooner(t) = Absent <=> t = Absent
                       /\ Sooner(t) > 0 => t > 0
  BY <1>1 DEF Times, Absent, Sooner
<1> QED  BY <1>1, <1>2, <1>3 DEF Positive, Absent

LEMMA IdFacts ==
  /\ MaxEntries \in Nat /\ Ids \subseteq Nat /\ NoId \notin Ids
  /\ IsFiniteSet(Ids)
<1>1. MaxEntries \in Nat
  BY ProfileAssumption DEF Positive
<1>2. IsFiniteSet(1..MaxEntries)
  BY <1>1, FS_Interval
<1> QED  BY <1>1, <1>2 DEF Ids, NoId

\* Sets of admissions are finite, and a part is no larger than the whole.
LEMMA SubsetCount ==
  ASSUME NEW T \in SUBSET Ids, NEW S \in SUBSET T
  PROVE  /\ IsFiniteSet(S) /\ IsFiniteSet(T)
         /\ Cardinality(S) \in Nat /\ Cardinality(T) \in Nat
         /\ Cardinality(S) <= Cardinality(T)
<1>1. IsFiniteSet(T)
  BY IdFacts, FS_Subset
<1>2. IsFiniteSet(S) /\ Cardinality(S) <= Cardinality(T)
  BY <1>1, FS_Subset
<1> QED  BY <1>1, <1>2, FS_CardinalityType

\* An index that loses members is no larger.
LEMMA SizeShrinks ==
  ASSUME NEW f, NEW g, \A id \in Ids : g[id] # Absent => f[id] # Absent
  PROVE  Size(g) \in Nat /\ Size(f) \in Nat /\ Size(g) <= Size(f)
<1> DEFINE F == {id \in Ids : f[id] # Absent}
           G == {id \in Ids : g[id] # Absent}
<1>1. F \in SUBSET Ids /\ G \in SUBSET F
  OBVIOUS
<1>2. Size(f) = Cardinality(F) /\ Size(g) = Cardinality(G)
  BY DEF Size
<1> HIDE DEF F, G
<1> QED  BY <1>1, <1>2, SubsetCount

\* Every set of admissions has a last one.
LEMMA LastOne ==
  ASSUME NEW S \in SUBSET Ids, S # {}
  PROVE  \E m \in S : \A id \in S : id <= m
<1> DEFINE R == {p \in Nat \X Nat : p[1] < p[2]}
           T == {MaxEntries - id : id \in S}
<1>1. IsWellFoundedOn(R, Nat)
  BY NatLessThanWellFounded DEF OpToRel
<1>2. T \subseteq Nat
  BY IdFacts DEF Ids
<1>3. T # {}
  OBVIOUS
<1>4. PICK t \in T : \A u \in T : ~(<<u, t>> \in R)
  <2> HIDE DEF R, T
  <2> QED  BY <1>1, <1>2, <1>3, WFMin
<1>5. PICK m \in S : t = MaxEntries - m
  OBVIOUS
<1>6. ASSUME NEW id \in S
      PROVE  id <= m
  <2>1. MaxEntries - id \in T
    OBVIOUS
  <2>2. ~(<<MaxEntries - id, t>> \in R)
    <3> HIDE DEF R, T
    <3> QED  BY <1>4, <2>1
  <2>3. MaxEntries - id \in Nat /\ t \in Nat
    BY <1>2, <2>1
  <2>4. ~(MaxEntries - id < t)
    BY <2>2, <2>3
  <2> QED  BY <1>5, <2>4, IdFacts
<1> QED  BY <1>6

\* The first n of a set are at most n, and whoever is ahead of one is one.
LEMMA FirstFacts ==
  ASSUME NEW S \in SUBSET Ids, NEW n \in Nat
  PROVE  /\ First(n, S) \subseteq S
         /\ Cardinality(First(n, S)) <= n
         /\ \A id \in First(n, S), ahead \in S : ahead <= id => ahead \in First(n, S)
<1>1. First(n, S) \subseteq S
  BY DEF First
<1>2. Cardinality(First(n, S)) <= n
  <2>1. CASE First(n, S) = {}
    BY <2>1, FS_EmptySet
  <2>2. CASE First(n, S) # {}
    <3>1. PICK m \in First(n, S) : \A id \in First(n, S) : id <= m
      BY <1>1, <2>2, LastOne
    <3> DEFINE below == {other \in S : other <= m}
    <3>2. below \in SUBSET Ids /\ First(n, S) \in SUBSET below
      BY <1>1, <3>1
    <3>3. Cardinality(below) <= n
      BY DEF First
    <3> HIDE DEF below
    <3>4. /\ Cardinality(First(n, S)) \in Nat /\ Cardinality(below) \in Nat
          /\ Cardinality(First(n, S)) <= Cardinality(below)
      BY <3>2, SubsetCount
    <3> QED  BY <3>3, <3>4
  <2> QED  BY <2>1, <2>2
<1>3. ASSUME NEW id \in First(n, S), NEW ahead \in S, ahead <= id
      PROVE  ahead \in First(n, S)
  <2> DEFINE above == {other \in S : other <= id}
             below == {other \in S : other <= ahead}
  <2>1. above \in SUBSET Ids /\ below \in SUBSET above
    <3>1. id \in Nat /\ ahead \in Nat /\ \A other \in S : other \in Nat
      BY <1>1, IdFacts
    <3>2. \A other \in S : other <= ahead => other <= id
      BY <1>3, <3>1
    <3> QED  BY <3>2
  <2>2. Cardinality(above) <= n
    BY DEF First
  <2> HIDE DEF above, below
  <2>3. /\ Cardinality(above) \in Nat /\ Cardinality(below) \in Nat
        /\ Cardinality(below) <= Cardinality(above)
    BY <2>1, SubsetCount
  <2>4. Cardinality(below) <= n
    BY <2>2, <2>3
  <2> QED  BY <2>4 DEF below, First
<1> QED  BY <1>1, <1>2, <1>3

----------------------------------------------------------------------------
(* Steps that end admissions, and steps of one admission.                  *)

LEMMA EntryType == QueueTypeOK => \A id \in Ids : entries[id] \in EntryRecords
BY DEF QueueTypeOK

LEMMA KeysKept == KeysCounted /\ UNCHANGED indexes => KeysCounted'
BY DEF KeysCounted, HasKey, indexes

\* The record of an admission that ended.
LEMMA EndedRecord ==
  ASSUME QueueTypeOK, NEW id \in Ids, NEW state \in {"consumed", "cancelled", "expired"}
  PROVE  /\ Ended(id, state) \in EntryRecords
         /\ Ended(id, state).state = state
         /\ Ended(id, state).user = entries[id].user
         /\ Ended(id, state).phase = "idle"
         /\ Ended(id, state).expiresAt = Absent
         /\ Ended(id, state).admittedAt = entries[id].admittedAt
BY EntryType, TimeFacts DEF Ended, EntryRecords

LEMMA TerminalType ==
  ASSUME QueueTypeOK, NEW ids \in SUBSET Ids,
         NEW state \in {"consumed", "cancelled", "expired"}, Terminal(ids, state)
  PROVE  /\ entries' \in [Ids -> EntryRecords]
         /\ active' \in [Users -> Ids \cup {NoId}]
         /\ waiting' \subseteq Ids
         /\ {leases', admitted', claims'} \subseteq [Ids -> Times]
<1>1. entries' \in [Ids -> EntryRecords]
  <2>1. \A id \in Ids : Ended(id, state) \in EntryRecords /\ entries[id] \in EntryRecords
    BY EndedRecord, EntryType
  <2> QED  BY <2>1 DEF Terminal, Closed
<1>2. active' \in [Users -> Ids \cup {NoId}]
  BY DEF Terminal, ActiveWithout, QueueTypeOK
<1>3. waiting' \subseteq Ids
  BY DEF Terminal, QueueTypeOK
<1>4. \A index \in [Ids -> Times] : Without(index, ids) \in [Ids -> Times]
  BY TimeFacts DEF Without
<1>5. {leases', admitted', claims'} \subseteq [Ids -> Times]
  BY <1>4 DEF Terminal, QueueTypeOK
<1> QED  BY <1>1, <1>2, <1>3, <1>5

\* terminal() on active admissions.
LEMMA TerminalStep ==
  ASSUME QueueInv, NEW ids \in SUBSET Ids, \A id \in ids : Active(id),
         NEW state \in {"consumed", "cancelled", "expired"}, Terminal(ids, state),
         UNCHANGED <<indexes, window, ended>>
  PROVE  QueueInv'
<1>1. QueueTypeOK /\ KeysCounted /\ UNCHANGED <<joins, latest, users, sequence, window, ended>>
  BY DEF QueueInv, indexes
<1>2. QueueTypeOK'
  BY <1>1, TerminalType DEF QueueTypeOK
<1>3. \A id \in Ids : entries'[id] = IF id \in ids THEN Ended(id, state) ELSE entries[id]
  BY DEF Terminal, Closed
<1>4. ASSUME NEW id \in Ids
      PROVE  EntrySound(id)'
  <2>1. EntrySound(id) /\ entries[id] \in EntryRecords
    BY <1>1, EntryType DEF QueueInv
  <2>2. CASE id \in ids
    <3>1. /\ entries'[id].state = state
          /\ entries'[id].user = entries[id].user
          /\ entries'[id].phase = "idle"
          /\ entries'[id].admittedAt = entries[id].admittedAt
      BY <1>1, <1>3, <2>2, EndedRecord
    <3>2. leases'[id] = Absent /\ admitted'[id] = Absent /\ claims'[id] = Absent
      BY <2>2 DEF Terminal, Without
    <3>3. entries[id].state # "none"
      BY <2>2 DEF Active
    <3> QED  BY <1>1, <2>1, <3>1, <3>2, <3>3 DEF EntrySound, Claimed, Active
  <2>3. CASE id \notin ids
    <3>1. entries'[id] = entries[id]
      BY <1>3, <2>3
    <3>2. leases'[id] = leases[id] /\ admitted'[id] = admitted[id] /\ claims'[id] = claims[id]
      BY <2>3 DEF Terminal, Without
    <3>3. Active(id) => active'[entries[id].user] = id
      BY <2>1, <2>3 DEF Terminal, ActiveWithout, EntrySound, Active
    <3> QED  BY <1>1, <2>1, <3>1, <3>2, <3>3 DEF EntrySound, Claimed, Active
  <2> QED  BY <2>2, <2>3
<1>5. ASSUME NEW u \in Users
      PROVE  UserSound(u)'
  <2>1. UserSound(u) /\ active[u] \in Ids \cup {NoId}
    BY <1>1 DEF QueueInv, QueueTypeOK
  <2>2. active'[u] # NoId => active'[u] = active[u] /\ active[u] \notin ids
    BY DEF Terminal, ActiveWithout
  <2>3. active'[u] # NoId => entries'[active'[u]] = entries[active[u]]
    BY <1>3, <2>1, <2>2
  <2> QED  BY <2>1, <2>2, <2>3 DEF UserSound, Active
<1>6. waiting' = {id \in Ids : entries'[id].state = "waiting"}
  <2>1. \A id \in ids : entries'[id].state = state
    BY <1>1, <1>3, EndedRecord
  <2> QED  BY <1>3, <2>1 DEF QueueInv, Terminal
<1>7. Size(admitted') <= Capacity
  <2>1. \A id \in Ids : admitted'[id] # Absent => admitted[id] # Absent
    BY DEF Terminal, Without
  <2>2. /\ Size(admitted') \in Nat /\ Size(admitted) \in Nat
        /\ Size(admitted') <= Size(admitted)
    BY <2>1, SizeShrinks
  <2> QED  BY <2>2, ProfileAssumption DEF QueueInv, Positive
<1> QED  BY <1>1, <1>2, <1>4, <1>5, <1>6, <1>7, KeysKept DEF QueueInv, indexes

\* A step on the records that leaves states, users and promotions as they are.
LEMMA RecordStep ==
  ASSUME QueueInv, entries' \in [Ids -> EntryRecords],
         {leases', claims'} \subseteq [Ids -> Times],
         UNCHANGED <<indexes, active, waiting, admitted, window>>, ended' \in BOOLEAN,
         \A id \in Ids :
             /\ entries'[id].state = entries[id].state
             /\ entries'[id].user = entries[id].user
             /\ entries'[id].admittedAt = entries[id].admittedAt
             /\ entries[id].state # "waiting" => entries'[id].expiresAt = entries[id].expiresAt
             /\ Active(id) => entries'[id].expiresAt # Absent
             /\ leases'[id] = IF entries[id].state = "waiting" THEN entries'[id].expiresAt
                              ELSE leases[id]
             /\ claims'[id] = IF entries'[id].phase # "idle" THEN entries'[id].deadline
                              ELSE Absent
             /\ entries'[id].phase # "idle" =>
                    entries[id].state = "admitted" /\ entries'[id].deadline # Absent
  PROVE  QueueInv'
<1>1. QueueTypeOK /\ KeysCounted /\ UNCHANGED <<joins, latest, users, sequence, window>>
  BY DEF QueueInv, indexes
<1>2. QueueTypeOK'
  BY <1>1 DEF QueueTypeOK
<1>3. ASSUME NEW id \in Ids
      PROVE  EntrySound(id)'
  <2>1. EntrySound(id)
    BY DEF QueueInv
  <2>2. leases'[id] = IF entries'[id].state = "waiting" THEN entries'[id].expiresAt ELSE Absent
    BY <2>1 DEF EntrySound
  <2>3. admitted'[id] = IF entries'[id].state = "admitted" THEN entries'[id].expiresAt ELSE Absent
    BY <2>1 DEF EntrySound
  <2> QED  BY <1>1, <2>1, <2>2, <2>3 DEF EntrySound, Claimed, Active
<1>4. ASSUME NEW u \in Users
      PROVE  UserSound(u)'
  <2>1. UserSound(u) /\ active[u] \in Ids \cup {NoId}
    BY <1>1 DEF QueueInv, QueueTypeOK
  <2> QED  BY <2>1 DEF UserSound, Active
<1>5. waiting' = {id \in Ids : entries'[id].state = "waiting"}
  BY DEF QueueInv
<1> QED  BY <1>1, <1>2, <1>3, <1>4, <1>5, KeysKept DEF QueueInv, Size

LEMMA RenewStep ==
  ASSUME QueueInv, NEW id \in Ids, entries[id].state = "waiting", Renew(id),
         UNCHANGED <<indexes, window, ended>>
  PROVE  QueueInv'
<1>1. QueueTypeOK /\ \A i \in Ids : EntrySound(i) /\ entries[i] \in EntryRecords
  BY EntryType DEF QueueInv
<1>2. /\ LeaseTime \in Times /\ LeaseTime # Absent
  BY TimeFacts DEF Positive, Absent
<1> DEFINE e == [entries[id] EXCEPT !.expiresAt = LeaseTime]
<1>3. /\ e \in EntryRecords
      /\ e.state = entries[id].state /\ e.user = entries[id].user
      /\ e.admittedAt = entries[id].admittedAt /\ e.phase = entries[id].phase
      /\ e.deadline = entries[id].deadline /\ e.expiresAt = LeaseTime
  BY <1>1, <1>2 DEF EntryRecords
<1>4. /\ entries' = [entries EXCEPT ![id] = e]
      /\ leases' = [leases EXCEPT ![id] = LeaseTime]
      /\ UNCHANGED <<active, waiting, admitted, claims>>
  BY DEF Renew
<1> HIDE DEF e
<1>5. /\ entries' \in [Ids -> EntryRecords]
      /\ {leases', claims'} \subseteq [Ids -> Times]
      /\ ended' \in BOOLEAN
  BY <1>1, <1>2, <1>3, <1>4 DEF QueueTypeOK
<1>6. ASSUME NEW i \in Ids
      PROVE  /\ entries'[i].state = entries[i].state
             /\ entries'[i].user = entries[i].user
             /\ entries'[i].admittedAt = entries[i].admittedAt
             /\ entries[i].state # "waiting" => entries'[i].expiresAt = entries[i].expiresAt
             /\ Active(i) => entries'[i].expiresAt # Absent
             /\ leases'[i] = IF entries[i].state = "waiting" THEN entries'[i].expiresAt
                             ELSE leases[i]
             /\ claims'[i] = IF entries'[i].phase # "idle" THEN entries'[i].deadline
                             ELSE Absent
             /\ entries'[i].phase # "idle" =>
                    entries[i].state = "admitted" /\ entries'[i].deadline # Absent
  <2>1. CASE i = id
    <3>1. entries'[i] = e /\ leases'[i] = LeaseTime /\ claims'[i] = claims[i]
      BY <1>1, <1>4, <2>1 DEF QueueTypeOK
    <3>2. EntrySound(id)
      BY <1>1
    <3> QED  BY <1>2, <1>3, <2>1, <3>1, <3>2 DEF EntrySound, Claimed
  <2>2. CASE i # id
    <3>1. entries'[i] = entries[i] /\ leases'[i] = leases[i] /\ claims'[i] = claims[i]
      BY <1>1, <1>4, <2>2 DEF QueueTypeOK
    <3> QED  BY <1>1, <3>1 DEF EntrySound, Claimed
  <2> QED  BY <2>1, <2>2
<1> QED  BY <1>4, <1>5, <1>6, RecordStep

\* status and a repeated join.
LEMMA TouchStep ==
  ASSUME QueueInv, NEW id \in Ids, Touch(id)
  PROVE  QueueInv'
<1>1. CASE Overdue(id) /\ Terminal({id}, "expired")
  BY <1>1, TerminalStep DEF Touch, Overdue
<1>2. CASE entries[id].state = "waiting" /\ Renew(id)
  BY <1>2, RenewStep DEF Touch
<1> QED  BY <1>1, <1>2 DEF Touch

LEMMA StatusStep ==
  ASSUME QueueInv, NEW u \in Users, Status(u)
  PROVE  QueueInv'
<1>1. latest[u] \in Ids
  BY DEF Status, QueueInv, QueueTypeOK
<1> QED  BY <1>1, TouchStep DEF Status

LEMMA JoinAgainStep ==
  ASSUME QueueInv, NEW u \in Users, NEW r \in JoinRequests, JoinAgain(u, r)
  PROVE  QueueInv'
<1>1. joins[r] \in Ids
  BY DEF JoinAgain, QueueInv, QueueTypeOK
<1> QED  BY <1>1, TouchStep DEF JoinAgain

LEMMA CancelStep ==
  ASSUME QueueInv, NEW id \in Ids, Cancel(id)
  PROVE  QueueInv'
BY TerminalStep DEF Cancel

LEMMA FinaliseStep ==
  ASSUME QueueInv, NEW id \in Ids, Complete(id) \/ Close(id)
  PROVE  QueueInv'
BY TerminalStep DEF Complete, Close, Finalise, Active

\* A claim: overdue, it ends the admission; otherwise it starts the deadline.
LEMMA ClaimStep ==
  ASSUME QueueInv, NEW id \in Ids, Claim(id)
  PROVE  QueueInv'
<1>1. CASE Overdue(id) /\ Terminal({id}, "expired")
  BY <1>1, TerminalStep DEF Claim, Overdue
<1>2. CASE /\ entries[id].state = "admitted" /\ ~Claimed(id)
           /\ entries' = [entries EXCEPT ![id].phase = "processing", ![id].deadline = ClaimTime]
           /\ claims' = [claims EXCEPT ![id] = ClaimTime]
           /\ UNCHANGED <<active, waiting, leases, admitted>>
  <2>1. QueueTypeOK /\ \A i \in Ids : EntrySound(i) /\ entries[i] \in EntryRecords
    BY EntryType DEF QueueInv
  <2>2. /\ ClaimTime \in Times /\ ClaimTime # Absent
    BY TimeFacts DEF Positive, Absent
  <2> DEFINE e == [entries[id] EXCEPT !.phase = "processing", !.deadline = ClaimTime]
  <2>3. /\ e \in EntryRecords
        /\ e.state = entries[id].state /\ e.user = entries[id].user
        /\ e.admittedAt = entries[id].admittedAt /\ e.phase = "processing"
        /\ e.deadline = ClaimTime /\ e.expiresAt = entries[id].expiresAt
    BY <2>1, <2>2 DEF EntryRecords
  <2>4. /\ entries' = [entries EXCEPT ![id] = e]
        /\ UNCHANGED <<indexes, window, ended>>
    BY <1>2 DEF Claim
  <2> HIDE DEF e
  <2>5. /\ entries' \in [Ids -> EntryRecords]
        /\ {leases', claims'} \subseteq [Ids -> Times]
        /\ ended' \in BOOLEAN
    BY <1>2, <2>1, <2>2, <2>3, <2>4 DEF QueueTypeOK
  <2>6. ASSUME NEW i \in Ids
        PROVE  /\ entries'[i].state = entries[i].state
               /\ entries'[i].user = entries[i].user
               /\ entries'[i].admittedAt = entries[i].admittedAt
               /\ entries[i].state # "waiting" => entries'[i].expiresAt = entries[i].expiresAt
               /\ Active(i) => entries'[i].expiresAt # Absent
               /\ leases'[i] = IF entries[i].state = "waiting" THEN entries'[i].expiresAt
                               ELSE leases[i]
               /\ claims'[i] = IF entries'[i].phase # "idle" THEN entries'[i].deadline
                               ELSE Absent
               /\ entries'[i].phase # "idle" =>
                      entries[i].state = "admitted" /\ entries'[i].deadline # Absent
    <3>1. CASE i = id
      <4>1. entries'[i] = e /\ leases'[i] = leases[i] /\ claims'[i] = ClaimTime
        BY <1>2, <2>1, <2>4, <3>1 DEF QueueTypeOK
      <4>2. EntrySound(id)
        BY <2>1
      <4> QED  BY <1>2, <2>2, <2>3, <3>1, <4>1, <4>2 DEF EntrySound, Active
    <3>2. CASE i # id
      <4>1. entries'[i] = entries[i] /\ leases'[i] = leases[i] /\ claims'[i] = claims[i]
        BY <1>2, <2>1, <2>4, <3>2 DEF QueueTypeOK
      <4> QED  BY <2>1, <4>1 DEF EntrySound, Claimed
    <3> QED  BY <3>1, <3>2
  <2> QED  BY <1>2, <2>4, <2>5, <2>6, RecordStep
<1> QED  BY <1>1, <1>2 DEF Claim

\* Claims past their deadline go to the reclaimer.
LEMMA ReconcilingStep ==
  ASSUME QueueInv, NEW ids \in SUBSET Ids, \A id \in ids : Claimed(id),
         entries' = [id \in Ids |-> IF id \in ids
                        THEN [entries[id] EXCEPT !.phase = "reconciling"] ELSE entries[id]],
         UNCHANGED <<indexes, active, waiting, leases, admitted, claims, window, ended>>
  PROVE  QueueInv'
<1>1. QueueTypeOK /\ \A i \in Ids : EntrySound(i) /\ entries[i] \in EntryRecords
  BY EntryType DEF QueueInv
<1>2. ASSUME NEW i \in Ids
      PROVE  /\ entries'[i] \in EntryRecords
             /\ entries'[i].state = entries[i].state /\ entries'[i].user = entries[i].user
             /\ entries'[i].admittedAt = entries[i].admittedAt
             /\ entries'[i].expiresAt = entries[i].expiresAt
             /\ entries'[i].deadline = entries[i].deadline
             /\ entries'[i].phase # "idle" <=> entries[i].phase # "idle"
  <2>1. CASE i \in ids
    <3>1. entries'[i] = [entries[i] EXCEPT !.phase = "reconciling"] /\ Claimed(i)
      BY <2>1
    <3> QED  BY <1>1, <3>1 DEF EntryRecords, Claimed
  <2>2. CASE i \notin ids
    BY <1>1, <2>2
  <2> QED  BY <2>1, <2>2
<1>3. entries' \in [Ids -> EntryRecords] /\ {leases', claims'} \subseteq [Ids -> Times]
      /\ ended' \in BOOLEAN
  BY <1>1, <1>2 DEF QueueTypeOK
<1>4. ASSUME NEW i \in Ids
      PROVE  /\ Active(i) => entries'[i].expiresAt # Absent
             /\ leases'[i] = IF entries[i].state = "waiting" THEN entries'[i].expiresAt
                             ELSE leases[i]
             /\ claims'[i] = IF entries'[i].phase # "idle" THEN entries'[i].deadline
                             ELSE Absent
             /\ entries'[i].phase # "idle" =>
                    entries[i].state = "admitted" /\ entries'[i].deadline # Absent
  BY <1>1, <1>2 DEF EntrySound, Claimed
<1> QED  BY <1>2, <1>3, <1>4, RecordStep

LEMMA ClaimAgainStep ==
  ASSUME QueueInv, NEW id \in Ids, ClaimAgain(id)
  PROVE  QueueInv'
<1>1. entries' = [i \in Ids |-> IF i \in {id}
                      THEN [entries[i] EXCEPT !.phase = "reconciling"] ELSE entries[i]]
  BY DEF ClaimAgain, QueueInv, QueueTypeOK
<1> QED  BY <1>1, ReconcilingStep DEF ClaimAgain

LEMMA ReconcileStep ==
  ASSUME QueueInv, Reconcile
  PROVE  QueueInv'
<1>1. PICK overdue \in Take(Reclaim, Due(claims)) :
          entries' = [id \in Ids |-> IF id \in overdue
              THEN [entries[id] EXCEPT !.phase = "reconciling"] ELSE entries[id]]
  BY DEF Reconcile
<1>2. overdue \in SUBSET Ids /\ \A id \in overdue : claims[id] = 0
  BY DEF Take, Due
<1>3. \A id \in overdue : Claimed(id)
  BY <1>2, TimeFacts DEF QueueInv, EntrySound
<1> QED  BY <1>1, <1>2, <1>3, ReconcilingStep DEF Reconcile

LEMMA EndSessionStep ==
  ASSUME QueueInv, EndSession
  PROVE  QueueInv'
<1>1. QueueTypeOK /\ \A i \in Ids : EntrySound(i)
  BY DEF QueueInv
<1>2. /\ entries' \in [Ids -> EntryRecords]
      /\ {leases', claims'} \subseteq [Ids -> Times]
      /\ ended' \in BOOLEAN
  BY <1>1 DEF EndSession, QueueTypeOK
<1> QED  BY <1>1, <1>2, RecordStep DEF EndSession, EntrySound, Claimed

----------------------------------------------------------------------------
(* The clock.                                                              *)

LEMMA AdvanceStep ==
  ASSUME QueueInv, Advance
  PROVE  QueueInv'
<1>1. /\ QueueTypeOK /\ KeysCounted
      /\ UNCHANGED <<joins, latest, users, sequence, active, waiting, ended>>
      /\ \A i \in Ids : EntrySound(i) /\ entries[i] \in EntryRecords
  BY EntryType DEF QueueInv, Advance, indexes
<1>2. ASSUME NEW i \in Ids
      PROVE  /\ entries'[i] \in EntryRecords
             /\ entries'[i].state = entries[i].state /\ entries'[i].user = entries[i].user
             /\ entries'[i].phase = entries[i].phase
             /\ entries'[i].admittedAt = Sooner(entries[i].admittedAt)
             /\ entries'[i].expiresAt = Sooner(entries[i].expiresAt)
             /\ entries'[i].deadline = Sooner(entries[i].deadline)
  <2>1. entries'[i] = [entries[i] EXCEPT !.expiresAt = Sooner(@), !.admittedAt = Sooner(@),
                                         !.deadline = Sooner(@)]
    BY DEF Advance
  <2>2. /\ Sooner(entries[i].expiresAt) \in Times /\ Sooner(entries[i].admittedAt) \in Times
        /\ Sooner(entries[i].deadline) \in Times
    BY <1>1, TimeFacts DEF EntryRecords
  <2> QED  BY <1>1, <2>1, <2>2 DEF EntryRecords
<1>3. \A f \in [Ids -> Times] : /\ SoonerAll(f) \in [Ids -> Times]
                                /\ \A i \in Ids : SoonerAll(f)[i] = Sooner(f[i])
  BY TimeFacts DEF SoonerAll
<1>4. /\ leases' = SoonerAll(leases) /\ admitted' = SoonerAll(admitted)
      /\ claims' = SoonerAll(claims) /\ window' = SoonerAll(window)
      /\ {leases, admitted, claims, window} \subseteq [Ids -> Times]
  BY <1>1 DEF Advance, QueueTypeOK
<1>5. entries' \in [Ids -> EntryRecords]
  BY <1>2 DEF Advance
<1>6. QueueTypeOK'
  BY <1>1, <1>3, <1>4, <1>5 DEF QueueTypeOK
<1>7. \A i \in Ids : /\ leases'[i] = Sooner(leases[i]) /\ admitted'[i] = Sooner(admitted[i])
                     /\ claims'[i] = Sooner(claims[i]) /\ window'[i] = Sooner(window[i])
                     /\ admitted[i] \in Times /\ window[i] \in Times
  BY <1>3, <1>4
<1>8. Sooner(Absent) = Absent
  BY TimeFacts
<1>9. ASSUME NEW i \in Ids
      PROVE  EntrySound(i)'
  <2>1. EntrySound(i)
    BY <1>1
  <2>2. /\ entries[i].expiresAt \in Times /\ entries[i].admittedAt \in Times
        /\ entries[i].deadline \in Times
    BY <1>1 DEF EntryRecords
  <2>3. leases'[i] = IF entries'[i].state = "waiting" THEN entries'[i].expiresAt ELSE Absent
    BY <1>2, <1>7, <1>8, <2>1 DEF EntrySound
  <2>4. admitted'[i] = IF entries'[i].state = "admitted" THEN entries'[i].expiresAt ELSE Absent
    BY <1>2, <1>7, <1>8, <2>1 DEF EntrySound
  <2>5. claims'[i] = IF entries'[i].phase # "idle" THEN entries'[i].deadline ELSE Absent
    BY <1>2, <1>7, <1>8, <2>1 DEF EntrySound, Claimed
  <2>6. entries'[i].admittedAt > 0 => window'[i] = entries'[i].admittedAt
    <3>1. Sooner(entries[i].admittedAt) > 0 => entries[i].admittedAt > 0
      BY <2>2, TimeFacts
    <3> QED  BY <1>2, <1>7, <2>1, <3>1 DEF EntrySound
  <2>7. /\ entries[i].expiresAt # Absent => entries'[i].expiresAt # Absent
        /\ entries[i].deadline # Absent => entries'[i].deadline # Absent
    BY <1>2, <2>2, TimeFacts
  <2> QED  BY <1>1, <1>2, <2>1, <2>3, <2>4, <2>5, <2>6, <2>7 DEF EntrySound, Claimed, Active
<1>10. ASSUME NEW u \in Users
       PROVE  UserSound(u)'
  <2>1. UserSound(u) /\ active[u] \in Ids \cup {NoId}
    BY <1>1 DEF QueueInv, QueueTypeOK
  <2> QED  BY <1>1, <1>2, <2>1 DEF UserSound, Active
<1>11. waiting' = {id \in Ids : entries'[id].state = "waiting"}
  BY <1>1, <1>2 DEF QueueInv
<1>12. Size(window') <= Rate /\ Size(admitted') <= Capacity
  <2>1. \A i \in Ids : /\ window'[i] # Absent <=> window[i] # Absent
                       /\ admitted'[i] # Absent <=> admitted[i] # Absent
    BY <1>7, TimeFacts
  <2> QED  BY <2>1 DEF QueueInv, Size
<1> QED  BY <1>1, <1>6, <1>9, <1>10, <1>11, <1>12, KeysKept DEF QueueInv, indexes

----------------------------------------------------------------------------
(* The ticker.                                                             *)

\* The smallest of three numbers.
LEMMA LeastFacts ==
  ASSUME NEW a \in Nat, NEW b \in Nat, NEW c \in Nat
  PROVE  /\ Least({a, b, c}) \in Nat
         /\ Least({a, b, c}) <= a /\ Least({a, b, c}) <= b /\ Least({a, b, c}) <= c
<1> DEFINE S == {a, b, c}
<1>1. \E n \in S : \A m \in S : n <= m
  <2>1. CASE a <= b /\ a <= c
    BY <2>1
  <2>2. CASE b <= a /\ b <= c
    BY <2>2
  <2>3. CASE c <= a /\ c <= b
    BY <2>3
  <2> QED  BY <2>1, <2>2, <2>3
<1>2. Least(S) \in S /\ \A m \in S : Least(S) <= m
  <2> HIDE DEF S
  <2> QED  BY <1>1 DEF Least
<1> QED  BY <1>2

\* An index that gains members of S grows by no more than S.
LEMMA SizeGrows ==
  ASSUME NEW f, NEW g, NEW S \in SUBSET Ids,
         \A id \in Ids : g[id] # Absent => f[id] # Absent \/ id \in S
  PROVE  /\ Size(f) \in Nat /\ Size(g) \in Nat /\ Cardinality(S) \in Nat
         /\ Size(g) <= Size(f) + Cardinality(S)
<1> DEFINE F == {id \in Ids : f[id] # Absent}
           G == {id \in Ids : g[id] # Absent}
<1>1. F \in SUBSET Ids /\ F \cup S \in SUBSET Ids /\ G \in SUBSET (F \cup S)
  OBVIOUS
<1>2. Size(f) = Cardinality(F) /\ Size(g) = Cardinality(G)
  BY DEF Size
<1> HIDE DEF F, G
<1>3. /\ IsFiniteSet(F) /\ IsFiniteSet(S) /\ Cardinality(F) \in Nat /\ Cardinality(S) \in Nat
      /\ Cardinality(G) \in Nat /\ Cardinality(F \cup S) \in Nat
      /\ Cardinality(G) <= Cardinality(F \cup S)
  <2>1. IsFiniteSet(F) /\ Cardinality(F) \in Nat
    BY <1>1, SubsetCount
  <2>2. IsFiniteSet(S) /\ Cardinality(S) \in Nat
    BY SubsetCount
  <2> QED  BY <1>1, <2>1, <2>2, SubsetCount
<1>4. F \cap S \in SUBSET Ids
  BY <1>1
<1>5. Cardinality(F \cap S) \in Nat
  BY <1>4, SubsetCount
<1>6. Cardinality(F \cup S) = Cardinality(F) + Cardinality(S) - Cardinality(F \cap S)
  BY <1>3, FS_Union
<1> QED  BY <1>2, <1>3, <1>5, <1>6

\* What one tick does: it expires some admissions, then promotes a head of the
\* queue that fits into the rate and the capacity that are left.
TickOf(cleaned, promoted) ==
    /\ \A id \in cleaned : Active(id) /\ ~Claimed(id)
    /\ promoted \subseteq waiting \ cleaned
    /\ \A id \in promoted : \A ahead \in waiting \ cleaned : ahead <= id => ahead \in promoted
    /\ Cardinality(promoted) <= Rate - Size(RecentPromotions)
    /\ Cardinality(promoted) <= Capacity - Size(Without(admitted, cleaned))
    /\ entries' = [id \in Ids |->
           IF id \in promoted
           THEN [entries[id] EXCEPT !.state = "admitted", !.expiresAt = AdmissionTime,
                                    !.admittedAt = RateWindow]
           ELSE Closed(cleaned, "expired")[id]]
    /\ active' = ActiveWithout(cleaned)
    /\ waiting' = (waiting \ cleaned) \ promoted
    /\ leases' = Without(leases, cleaned \cup promoted)
    /\ admitted' = [id \in Ids |-> IF id \in promoted THEN AdmissionTime
                                   ELSE Without(admitted, cleaned)[id]]
    /\ claims' = Without(claims, cleaned)
    /\ window' = [id \in Ids |-> IF id \in promoted THEN RateWindow ELSE RecentPromotions[id]]
    /\ UNCHANGED <<indexes, ended>>

LEMMA TickFacts ==
  ASSUME QueueInv, NEW lapsed \in SUBSET Ids, NEW idle \in SUBSET Ids,
         TickCleaning(lapsed, idle)
  PROVE  \E cleaned \in SUBSET Ids, promoted \in SUBSET Ids : TickOf(cleaned, promoted)
<1> DEFINE cleaned == OverdueAmong(lapsed \cup idle)
           queue == waiting \ cleaned
           slots == Without(admitted, cleaned)
           recent == RecentPromotions
           n == Quota(recent, slots)
           promoted == IF Cardinality(lapsed) + Cardinality(idle) >= Cleanup THEN {}
                       ELSE {id \in First(n, queue) :
                                 \A ahead \in queue : ahead <= id => ~Overdue(ahead)}
<1>1. /\ waiting \in SUBSET Ids /\ Size(window) <= Rate /\ Size(admitted) <= Capacity
      /\ Rate \in Nat /\ Capacity \in Nat /\ Batch \in Nat
  BY ProfileAssumption DEF QueueInv, QueueTypeOK, Positive
<1>2. cleaned \in SUBSET Ids /\ \A id \in cleaned : Active(id) /\ ~Claimed(id)
  BY DEF OverdueAmong, Overdue
<1>3. queue \in SUBSET Ids
  BY <1>1
<1>4. /\ Size(recent) \in Nat /\ Size(window) \in Nat /\ Size(recent) <= Size(window)
  <2>1. \A id \in Ids : recent[id] # Absent => window[id] # Absent
    BY DEF RecentPromotions, Without
  <2> HIDE DEF recent
  <2> QED  BY <2>1, SizeShrinks
<1>5. /\ Size(slots) \in Nat /\ Size(admitted) \in Nat /\ Size(slots) <= Size(admitted)
  <2>1. \A id \in Ids : slots[id] # Absent => admitted[id] # Absent
    BY DEF Without
  <2> HIDE DEF slots
  <2> QED  BY <2>1, SizeShrinks
<1>6. n \in Nat /\ n <= Rate - Size(recent) /\ n <= Capacity - Size(slots)
  <2>1. Rate - Size(recent) \in Nat /\ Capacity - Size(slots) \in Nat
    BY <1>1, <1>4, <1>5
  <2>2. n = Least({Batch, Rate - Size(recent), Capacity - Size(slots)})
    BY DEF Quota
  <2> HIDE DEF n, recent, slots
  <2> QED  BY <1>1, <2>1, <2>2, LeastFacts
<1>7. /\ First(n, queue) \subseteq queue
      /\ Cardinality(First(n, queue)) <= n
      /\ \A id \in First(n, queue), ahead \in queue : ahead <= id => ahead \in First(n, queue)
  <2> HIDE DEF n, queue
  <2> QED  BY <1>3, <1>6, FirstFacts
<1>8. promoted \in SUBSET First(n, queue) /\ First(n, queue) \in SUBSET Ids
  BY <1>3, <1>7
<1>9. Cardinality(promoted) <= Rate - Size(recent) /\ Cardinality(promoted) <= Capacity - Size(slots)
  <2> HIDE DEF promoted, n, queue, recent, slots
  <2>1. /\ Cardinality(promoted) \in Nat /\ Cardinality(First(n, queue)) \in Nat
        /\ Cardinality(promoted) <= Cardinality(First(n, queue))
    BY <1>8, SubsetCount
  <2> QED  BY <1>1, <1>4, <1>5, <1>6, <1>7, <2>1
<1>10. \A id \in promoted : \A ahead \in queue : ahead <= id => ahead \in promoted
  <2> SUFFICES ASSUME NEW id \in promoted, NEW ahead \in queue, ahead <= id
               PROVE  ahead \in promoted
    OBVIOUS
  <2>1. /\ id \in First(n, queue) /\ \A other \in queue : other <= id => ~Overdue(other)
        /\ ~(Cardinality(lapsed) + Cardinality(idle) >= Cleanup)
    OBVIOUS
  <2>2. ahead \in First(n, queue)
    BY <1>7, <2>1
  <2>3. \A other \in queue : other <= ahead => other <= id
    <3>1. \A other \in queue : other \in Nat
      BY <1>3, IdFacts
    <3>2. id \in Nat /\ ahead \in Nat
      BY <1>7, <2>1, <3>1
    <3> HIDE DEF queue
    <3> QED  BY <3>1, <3>2
  <2> QED  BY <2>1, <2>2, <2>3
<1>11. TickOf(cleaned, promoted)
  <2>1. promoted \subseteq waiting \ cleaned
    BY <1>7, <1>8
  <2> QED  BY <1>2, <1>9, <1>10, <2>1 DEF TickOf, TickCleaning
<1> QED  BY <1>2, <1>8, <1>11

LEMMA TickOfStep ==
  ASSUME QueueInv, NEW cleaned \in SUBSET Ids, NEW promoted \in SUBSET Ids,
         TickOf(cleaned, promoted)
  PROVE  QueueInv'
<1>1. /\ QueueTypeOK /\ KeysCounted
      /\ UNCHANGED <<joins, latest, users, sequence, ended>>
      /\ \A i \in Ids : EntrySound(i) /\ entries[i] \in EntryRecords
      /\ waiting = {id \in Ids : entries[id].state = "waiting"}
  BY EntryType DEF QueueInv, TickOf, indexes
<1>0. /\ active' = [u \in Users |-> IF active[u] \in cleaned THEN NoId ELSE active[u]]
      /\ waiting' = (waiting \ cleaned) \ promoted /\ promoted \subseteq waiting \ cleaned
  BY DEF TickOf, ActiveWithout
<1>2. /\ {AdmissionTime, RateWindow, Absent} \subseteq Times
      /\ AdmissionTime # Absent /\ RateWindow # Absent
  BY TimeFacts
<1>3. ASSUME NEW i \in promoted
      PROVE  /\ i \in Ids \ cleaned /\ entries[i].state = "waiting"
             /\ entries'[i] \in EntryRecords
             /\ entries'[i].state = "admitted" /\ entries'[i].user = entries[i].user
             /\ entries'[i].phase = entries[i].phase
             /\ entries'[i].expiresAt = AdmissionTime /\ entries'[i].admittedAt = RateWindow
             /\ leases'[i] = Absent /\ admitted'[i] = AdmissionTime
             /\ claims'[i] = claims[i] /\ window'[i] = RateWindow
  <2>1. i \in Ids \ cleaned /\ entries[i].state = "waiting"
    BY <1>1, <1>3 DEF TickOf
  <2>2. entries'[i] = [entries[i] EXCEPT !.state = "admitted", !.expiresAt = AdmissionTime,
                                         !.admittedAt = RateWindow]
    BY <1>3, <2>1 DEF TickOf
  <2>3. /\ entries'[i] \in EntryRecords
        /\ entries'[i].state = "admitted" /\ entries'[i].user = entries[i].user
        /\ entries'[i].phase = entries[i].phase
        /\ entries'[i].expiresAt = AdmissionTime /\ entries'[i].admittedAt = RateWindow
    BY <1>1, <1>2, <2>1, <2>2 DEF EntryRecords
  <2>4. /\ leases'[i] = Absent /\ admitted'[i] = AdmissionTime
        /\ claims'[i] = claims[i] /\ window'[i] = RateWindow
    BY <1>3, <2>1 DEF TickOf, Without
  <2> QED  BY <2>1, <2>3, <2>4
<1>4. ASSUME NEW i \in Ids \ promoted
      PROVE  /\ entries'[i] = IF i \in cleaned THEN Ended(i, "expired") ELSE entries[i]
             /\ leases'[i] = IF i \in cleaned THEN Absent ELSE leases[i]
             /\ admitted'[i] = IF i \in cleaned THEN Absent ELSE admitted[i]
             /\ claims'[i] = IF i \in cleaned THEN Absent ELSE claims[i]
             /\ window'[i] = IF window[i] = 0 THEN Absent ELSE window[i]
  BY <1>4 DEF TickOf, Closed, Without, RecentPromotions, Due
<1>5. ASSUME NEW i \in cleaned
      PROVE  /\ i \in Ids \ promoted
             /\ entries'[i] \in EntryRecords
             /\ entries'[i].state = "expired" /\ entries'[i].user = entries[i].user
             /\ entries'[i].phase = "idle" /\ entries'[i].admittedAt = entries[i].admittedAt
             /\ entries[i].state # "none"
  <2>1. i \in Ids \ promoted /\ Active(i)
    BY <1>5 DEF TickOf
  <2> QED  BY <1>1, <1>4, <1>5, <2>1, EndedRecord DEF Active
<1>6. QueueTypeOK'
  <2>1. \A i \in Ids : entries'[i] \in EntryRecords
    BY <1>1, <1>3, <1>4, <1>5
  <2>2. entries' \in [Ids -> EntryRecords]
    BY <2>1 DEF TickOf
  <2>3. /\ active' \in [Users -> Ids \cup {NoId}] /\ waiting' \subseteq Ids
    BY <1>1 DEF TickOf, ActiveWithout, QueueTypeOK
  <2>4. \A i \in Ids : /\ leases[i] \in Times /\ admitted[i] \in Times
                       /\ claims[i] \in Times /\ window[i] \in Times
    BY <1>1 DEF QueueTypeOK
  <2>5. \A i \in Ids : /\ leases'[i] \in Times /\ admitted'[i] \in Times
                       /\ claims'[i] \in Times /\ window'[i] \in Times
    BY <1>2, <1>3, <1>4, <2>4
  <2>6. {leases', admitted', claims', window'} \subseteq [Ids -> Times]
    BY <2>5 DEF TickOf, Without
  <2> QED  BY <1>1, <2>2, <2>3, <2>6 DEF QueueTypeOK
<1>7. ASSUME NEW i \in Ids
      PROVE  EntrySound(i)'
  <2>1. EntrySound(i)
    BY <1>1
  <2>2. CASE i \in promoted
    <3>0. Active(i) /\ active[entries[i].user] = i /\ entries[i].user \in Users /\ i \notin cleaned
      BY <1>3, <2>1, <2>2 DEF EntrySound, Active
    <3>1. active'[entries[i].user] = i
      BY <1>0, <3>0
    <3> QED  BY <1>1, <1>2, <1>3, <2>1, <2>2, <3>1 DEF EntrySound, Claimed, Active
  <2>3. CASE i \in cleaned
    <3>1. entries[i].admittedAt > 0 => window'[i] = entries[i].admittedAt
      BY <1>4, <1>5, <2>1, <2>3 DEF EntrySound
    <3> QED  BY <1>1, <1>4, <1>5, <2>1, <2>3, <3>1 DEF EntrySound, Claimed, Active
  <2>4. CASE i \notin promoted /\ i \notin cleaned
    <3>1. /\ entries'[i] = entries[i] /\ leases'[i] = leases[i] /\ admitted'[i] = admitted[i]
          /\ claims'[i] = claims[i]
          /\ entries[i].admittedAt > 0 => window'[i] = entries[i].admittedAt
      BY <1>4, <2>1, <2>4 DEF EntrySound
    <3>2. Active(i) => active'[entries[i].user] = i
      BY <1>0, <2>1, <2>4 DEF EntrySound, Active
    <3> QED  BY <1>1, <2>1, <3>1, <3>2 DEF EntrySound, Claimed, Active
  <2> QED  BY <2>2, <2>3, <2>4
<1>8. ASSUME NEW u \in Users
      PROVE  UserSound(u)'
  <2>1. UserSound(u) /\ active[u] \in Ids \cup {NoId}
    BY <1>1 DEF QueueInv, QueueTypeOK
  <2>2. active'[u] # NoId => active'[u] = active[u] /\ active[u] \in Ids \ cleaned
    BY <2>1 DEF TickOf, ActiveWithout
  <2>3. active'[u] # NoId => Active(active[u])' /\ entries'[active[u]].user = u
    <3>1. CASE active'[u] # NoId /\ active[u] \in promoted
      BY <1>3, <2>1, <2>2, <3>1 DEF UserSound, Active
    <3>2. CASE active'[u] # NoId /\ active[u] \notin promoted
      BY <1>4, <2>1, <2>2, <3>2 DEF UserSound, Active
    <3> QED  BY <3>1, <3>2
  <2> QED  BY <2>2, <2>3 DEF UserSound, Active
<1>9. waiting' = {id \in Ids : entries'[id].state = "waiting"}
  <2>1. ASSUME NEW i \in Ids
        PROVE  i \in waiting' <=> entries'[i].state = "waiting"
    <3>1. CASE i \in promoted
      BY <1>0, <1>3, <3>1
    <3>2. CASE i \in cleaned
      BY <1>0, <1>5, <3>2
    <3>3. CASE i \notin promoted /\ i \notin cleaned
      BY <1>0, <1>1, <1>4, <3>3
    <3> QED  BY <3>1, <3>2, <3>3
  <2>2. waiting' \subseteq Ids
    BY <1>0, <1>1
  <2> QED  BY <2>1, <2>2
<1>10. Size(window') <= Rate
  <2>1. \A i \in Ids : window'[i] # Absent => RecentPromotions[i] # Absent \/ i \in promoted
    BY DEF TickOf
  <2>2. /\ Size(RecentPromotions) \in Nat /\ Size(window') \in Nat /\ Cardinality(promoted) \in Nat
        /\ Size(window') <= Size(RecentPromotions) + Cardinality(promoted)
    BY <2>1, SizeGrows
  <2>3. Rate \in Nat /\ Cardinality(promoted) <= Rate - Size(RecentPromotions)
    BY ProfileAssumption DEF TickOf, Positive
  <2> QED  BY <2>2, <2>3
<1>11. Size(admitted') <= Capacity
  <2> DEFINE slots == Without(admitted, cleaned)
  <2>1. \A i \in Ids : admitted'[i] # Absent => slots[i] # Absent \/ i \in promoted
    BY DEF TickOf
  <2>2. Capacity \in Nat /\ Cardinality(promoted) <= Capacity - Size(slots)
    BY ProfileAssumption DEF TickOf, Positive
  <2> HIDE DEF slots
  <2>3. /\ Size(slots) \in Nat /\ Size(admitted') \in Nat /\ Cardinality(promoted) \in Nat
        /\ Size(admitted') <= Size(slots) + Cardinality(promoted)
    BY <2>1, SizeGrows
  <2> QED  BY <2>2, <2>3
<1> QED  BY <1>1, <1>6, <1>7, <1>8, <1>9, <1>10, <1>11, KeysKept DEF QueueInv, TickOf

LEMMA TickIs ==
  ASSUME QueueInv, Tick
  PROVE  \E cleaned \in SUBSET Ids, promoted \in SUBSET Ids : TickOf(cleaned, promoted)
<1>1. PICK lapsed \in Take(Cleanup, Due(leases)) :
          \E idle \in Take(Cleanup - Cardinality(lapsed),
                           {id \in Due(admitted) : ~Claimed(id)}) : TickCleaning(lapsed, idle)
  BY DEF Tick
<1>2. PICK idle \in Take(Cleanup - Cardinality(lapsed), {id \in Due(admitted) : ~Claimed(id)}) :
          TickCleaning(lapsed, idle)
  BY <1>1
<1>3. lapsed \in SUBSET Ids /\ idle \in SUBSET Ids
  BY DEF Take, Due
<1> QED  BY <1>2, <1>3, TickFacts

----------------------------------------------------------------------------
(* Joining.                                                                *)

\* A new place in the queue, after the user's overdue admission expired.
NewPlace(u, r, expired, id) ==
    /\ sequence' = id
    /\ entries' = [Closed(expired, "expired") EXCEPT
           ![id] = [NotJoined EXCEPT !.state = "waiting", !.user = u, !.expiresAt = LeaseTime]]
    /\ joins' = [joins EXCEPT ![r] = id]
    /\ users' = IF latest[u] = NoId THEN users + 1 ELSE users
    /\ latest' = [latest EXCEPT ![u] = id]
    /\ active' = [active EXCEPT ![u] = id]
    /\ waiting' = (waiting \ expired) \cup {id}
    /\ leases' = [Without(leases, expired) EXCEPT ![id] = LeaseTime]
    /\ admitted' = Without(admitted, expired)
    /\ claims' = Without(claims, expired)
    /\ UNCHANGED <<window, ended>>

LEMMA NewPlaceStep ==
  ASSUME QueueInv, NEW u \in Users, NEW r \in JoinRequests, NEW id \in Ids,
         id = sequence + 1, joins[r] = NoId,
         NEW expired \in SUBSET Ids, \A i \in expired : i = active[u] /\ Active(i),
         active[u] = NoId \/ active[u] \in expired,
         NewPlace(u, r, expired, id)
  PROVE  QueueInv'
<1>1. /\ QueueTypeOK /\ KeysCounted
      /\ \A i \in Ids : EntrySound(i) /\ entries[i] \in EntryRecords
      /\ \A v \in Users : UserSound(v)
      /\ waiting = {i \in Ids : entries[i].state = "waiting"}
      /\ window' = window /\ ended' = ended
  BY EntryType DEF QueueInv, NewPlace
<1>2. /\ {LeaseTime, Absent} \subseteq Times /\ LeaseTime # Absent
      /\ sequence \in Nat /\ users \in 0..sequence /\ sequence + 1 \in 1..MaxEntries
      /\ sequence' = sequence + 1 /\ id > sequence /\ Ids \subseteq Nat
      /\ users' \in 0..(sequence + 1)
  <2>1. {LeaseTime, Absent} \subseteq Times /\ LeaseTime # Absent /\ Ids \subseteq Nat
    BY TimeFacts, IdFacts
  <2>2. sequence \in Nat /\ users \in 0..sequence
    BY <1>1 DEF QueueTypeOK
  <2> QED  BY <2>1, <2>2 DEF NewPlace, Ids
<1>3. /\ entries[id].state = "none" /\ id \notin expired
      /\ admitted[id] = Absent /\ claims[id] = Absent
  BY <1>1, <1>2 DEF EntrySound, Active
<1> DEFINE new == [NotJoined EXCEPT !.state = "waiting", !.user = u, !.expiresAt = LeaseTime]
<1>4. /\ new \in EntryRecords /\ new.state = "waiting" /\ new.user = u /\ new.phase = "idle"
      /\ new.expiresAt = LeaseTime /\ ~(new.admittedAt > 0)
  <2>1. NotJoined \in EntryRecords /\ NotJoined.phase = "idle" /\ NotJoined.admittedAt = Absent
    BY <1>2 DEF NotJoined, EntryRecords
  <2>2. /\ new \in EntryRecords /\ new.state = "waiting" /\ new.user = u
        /\ new.phase = "idle" /\ new.expiresAt = LeaseTime /\ new.admittedAt = Absent
    BY <1>2, <2>1 DEF EntryRecords
  <2>3. ~(Absent > 0)
    BY DEF Absent
  <2> QED  BY <2>2, <2>3
<1>5. /\ entries'[id] = new /\ leases'[id] = LeaseTime
      /\ admitted'[id] = Absent /\ claims'[id] = Absent
  BY <1>3 DEF NewPlace, Closed, Without
<1> HIDE DEF new
<1>6. ASSUME NEW i \in Ids \ {id}
      PROVE  /\ entries'[i] = IF i \in expired THEN Ended(i, "expired") ELSE entries[i]
             /\ leases'[i] = IF i \in expired THEN Absent ELSE leases[i]
             /\ admitted'[i] = IF i \in expired THEN Absent ELSE admitted[i]
             /\ claims'[i] = IF i \in expired THEN Absent ELSE claims[i]
  BY <1>6 DEF NewPlace, Closed, Without
<1>7. ASSUME NEW i \in expired
      PROVE  /\ i \in Ids \ {id}
             /\ entries'[i] \in EntryRecords
             /\ entries'[i].state = "expired" /\ entries'[i].user = entries[i].user
             /\ entries'[i].phase = "idle" /\ entries'[i].admittedAt = entries[i].admittedAt
             /\ entries[i].state # "none"
  BY <1>1, <1>3, <1>6, <1>7, EndedRecord DEF Active
<1>8. /\ joins' = [joins EXCEPT ![r] = id] /\ latest' = [latest EXCEPT ![u] = id]
      /\ active' = [active EXCEPT ![u] = id]
      /\ joins \in [JoinRequests -> Ids \cup {NoId}]
      /\ latest \in [Users -> Ids \cup {NoId}] /\ active \in [Users -> Ids \cup {NoId}]
  BY <1>1 DEF NewPlace, QueueTypeOK
<1>9. QueueTypeOK'
  <2>1. \A i \in Ids : entries'[i] \in EntryRecords
    BY <1>1, <1>4, <1>5, <1>6, <1>7
  <2>2. entries' \in [Ids -> EntryRecords]
    BY <2>1 DEF NewPlace, Closed
  <2>3. \A i \in Ids : /\ leases[i] \in Times /\ admitted[i] \in Times /\ claims[i] \in Times
    BY <1>1 DEF QueueTypeOK
  <2>4. \A i \in Ids : /\ leases'[i] \in Times /\ admitted'[i] \in Times /\ claims'[i] \in Times
    <3> TAKE i \in Ids
    <3>1. CASE i = id
      BY <1>2, <1>5, <3>1
    <3>2. CASE i # id
      BY <1>2, <1>6, <2>3, <3>2
    <3> QED  BY <3>1, <3>2
  <2>5. {leases', admitted', claims'} \subseteq [Ids -> Times]
    BY <2>4 DEF NewPlace, Without
  <2>6. waiting' \subseteq Ids
    BY <1>1 DEF NewPlace
  <2>7. /\ joins' \in [JoinRequests -> Ids \cup {NoId}]
        /\ {latest', active'} \subseteq [Users -> Ids \cup {NoId}]
    BY <1>8
  <2>8. sequence' \in 0..MaxEntries /\ users' \in 0..sequence'
    BY <1>2
  <2> QED  BY <1>1, <2>2, <2>5, <2>6, <2>7, <2>8 DEF QueueTypeOK
<1>10. ASSUME NEW i \in Ids
       PROVE  EntrySound(i)'
  <2>1. EntrySound(i)
    BY <1>1
  <2>2. CASE i = id
    <3>1. \E q \in JoinRequests : joins'[q] = id
      BY <1>8
    <3>2. active'[u] = id /\ latest'[u] = id
      BY <1>8
    <3> QED  BY <1>2, <1>4, <1>5, <2>2, <3>1, <3>2 DEF EntrySound, Claimed, Active
  <2>3. CASE i # id
    <3>1. entries[i].state = "none" <=> i > sequence'
      <4>1. entries[i].state = "none" <=> i > sequence
        BY <2>1 DEF EntrySound
      <4>2. i \in Nat /\ sequence \in Nat /\ sequence' = sequence + 1 /\ i # sequence + 1
        BY <1>2, <2>3
      <4> QED  BY <4>1, <4>2
    <3>2. entries[i].state # "none" =>
              /\ entries[i].user \in Users /\ latest'[entries[i].user] >= i
              /\ \E q \in JoinRequests : joins'[q] = i
      <4> SUFFICES ASSUME entries[i].state # "none"
                   PROVE  /\ entries[i].user \in Users /\ latest'[entries[i].user] >= i
                          /\ \E q \in JoinRequests : joins'[q] = i
        OBVIOUS
      <4>1. i <= sequence /\ id >= i
        BY <1>2, <2>1 DEF EntrySound
      <4>2. PICK q \in JoinRequests : joins[q] = i
        BY <2>1 DEF EntrySound
      <4>3. q # r
        BY <4>2, IdFacts
      <4> QED  BY <1>8, <2>1, <4>1, <4>2, <4>3 DEF EntrySound
    <3>3. CASE i \in expired
      <4>1. /\ leases'[i] = Absent /\ admitted'[i] = Absent /\ claims'[i] = Absent
        BY <1>6, <2>3, <3>3
      <4> QED  BY <1>1, <1>7, <2>1, <3>1, <3>2, <3>3, <4>1 DEF EntrySound, Claimed, Active
    <3>4. CASE i \notin expired
      <4>1. /\ entries'[i] = entries[i] /\ leases'[i] = leases[i] /\ admitted'[i] = admitted[i]
            /\ claims'[i] = claims[i]
        BY <1>6, <2>3, <3>4
      <4>2. Active(i) => active'[entries[i].user] = i
        <5> SUFFICES ASSUME Active(i)
                     PROVE  active'[entries[i].user] = i
          OBVIOUS
        <5>1. active[entries[i].user] = i /\ entries[i].user \in Users
          BY <2>1 DEF EntrySound, Active
        <5>2. entries[i].user # u
          BY <3>4, <5>1, IdFacts
        <5> QED  BY <1>8, <5>1, <5>2
      <4> QED  BY <1>1, <2>1, <3>1, <3>2, <4>1, <4>2 DEF EntrySound, Claimed, Active
    <3> QED  BY <3>3, <3>4
  <2> QED  BY <2>2, <2>3
<1>11. ASSUME NEW v \in Users
       PROVE  UserSound(v)'
  <2>1. CASE v = u
    <3>1. active'[v] = id
      BY <1>8, <2>1
    <3> QED  BY <1>4, <1>5, <2>1, <3>1 DEF UserSound, Active
  <2>2. CASE v # u
    <3>1. active'[v] = active[v] /\ UserSound(v) /\ UserSound(u) /\ active[v] \in Ids \cup {NoId}
      BY <1>1, <1>8, <2>2
    <3>2. active[v] # NoId => active[v] \in Ids \ {id} /\ active[v] \notin expired
      BY <1>3, <2>2, <3>1 DEF UserSound, Active
    <3>3. active[v] # NoId => entries'[active[v]] = entries[active[v]]
      BY <1>6, <3>2
    <3> QED  BY <3>1, <3>3 DEF UserSound, Active
  <2> QED  BY <2>1, <2>2
<1>12. waiting' = {i \in Ids : entries'[i].state = "waiting"}
  <2>1. waiting' = (waiting \ expired) \cup {id}
    BY DEF NewPlace
  <2>2. ASSUME NEW i \in Ids
        PROVE  i \in waiting' <=> entries'[i].state = "waiting"
    <3>1. CASE i = id
      BY <1>4, <1>5, <2>1, <3>1
    <3>2. CASE i \in expired
      BY <1>7, <2>1, <3>2
    <3>3. CASE i # id /\ i \notin expired
      BY <1>1, <1>6, <2>1, <3>3
    <3> QED  BY <3>1, <3>2, <3>3
  <2> QED  BY <1>1, <2>1, <2>2
<1>13. KeysCounted'
  <2>1. /\ IsFiniteSet(HasKey(joins, NoId)) /\ Cardinality(HasKey(joins, NoId)) = sequence
        /\ IsFiniteSet(HasKey(latest, NoId)) /\ Cardinality(HasKey(latest, NoId)) = users
    BY <1>1 DEF KeysCounted
  <2>2. HasKey(joins', NoId) = HasKey(joins, NoId) \cup {r} /\ r \notin HasKey(joins, NoId)
    BY <1>8, IdFacts DEF HasKey
  <2>3. /\ HasKey(latest', NoId) = HasKey(latest, NoId) \cup {u}
        /\ u \in HasKey(latest, NoId) <=> latest[u] # NoId
    BY <1>8, IdFacts DEF HasKey
  <2>4. users' = IF latest[u] = NoId THEN users + 1 ELSE users
    BY DEF NewPlace
  <2>5. Cardinality(HasKey(joins', NoId)) = sequence' /\ IsFiniteSet(HasKey(joins', NoId))
    BY <1>2, <2>1, <2>2, FS_AddElement
  <2>6. Cardinality(HasKey(latest', NoId)) = users' /\ IsFiniteSet(HasKey(latest', NoId))
    BY <2>1, <2>3, <2>4, FS_AddElement
  <2> QED  BY <2>5, <2>6 DEF KeysCounted
<1>14. Size(window') <= Rate
  BY <1>1 DEF QueueInv, Size
<1>15. Size(admitted') <= Capacity
  <2>1. \A i \in Ids : admitted'[i] # Absent => admitted[i] # Absent
    BY DEF NewPlace, Without
  <2>2. /\ Size(admitted') \in Nat /\ Size(admitted) \in Nat
        /\ Size(admitted') <= Size(admitted)
    BY <2>1, SizeShrinks
  <2> QED  BY <2>2, ProfileAssumption DEF QueueInv, Positive
<1> QED  BY <1>9, <1>10, <1>11, <1>12, <1>13, <1>14, <1>15 DEF QueueInv

LEMMA JoinStep ==
  ASSUME QueueInv, NEW u \in Users, NEW r \in JoinRequests, Join(u, r)
  PROVE  QueueInv'
<1> DEFINE expired == OverdueAmong({active[u]})
           id == sequence + 1
<1>1. /\ expired \in SUBSET Ids /\ \A i \in expired : i = active[u] /\ Active(i)
  BY DEF OverdueAmong, Overdue
<1>2. active[u] = NoId \/ active[u] \in expired
  BY <1>1 DEF Join, MayJoin
<1>3. CASE Terminal(expired, "expired") /\ UNCHANGED indexes
  BY <1>1, <1>3, TerminalStep DEF Join
<1>4. CASE ~Full(waiting \ expired) /\ NewPlace(u, r, expired, id)
  <2>1. sequence \in 0..MaxEntries /\ ~(sequence >= MaxEntries) /\ MaxEntries \in Nat
    BY <1>4, IdFacts DEF Full, QueueInv, QueueTypeOK
  <2>2. id \in Ids
    BY <2>1 DEF Ids
  <2>3. joins[r] = NoId
    BY DEF Join
  <2> HIDE DEF expired
  <2> QED  BY <1>1, <1>2, <1>4, <2>2, <2>3, NewPlaceStep
<1> QED  BY <1>3, <1>4 DEF Join, NewPlace

----------------------------------------------------------------------------
(* The invariant.                                                          *)

LEMMA InitInv == QueueInit => QueueInv
<1> SUFFICES ASSUME QueueInit
             PROVE  QueueInv
  OBVIOUS
<1>1. {Absent} \subseteq Times /\ NotJoined \in EntryRecords /\ MaxEntries \in Nat
  BY TimeFacts, IdFacts DEF NotJoined, EntryRecords
<1>2. \A id \in Ids : id \in Nat /\ id > 0
  BY DEF Ids
<1>3. QueueTypeOK
  <2>1. Empty \in [Ids -> Times]
    BY <1>1 DEF Empty
  <2>2. entries \in [Ids -> EntryRecords]
    BY <1>1 DEF QueueInit
  <2>3. /\ joins \in [JoinRequests -> Ids \cup {NoId}]
        /\ {latest, active} \subseteq [Users -> Ids \cup {NoId}]
        /\ waiting \subseteq Ids /\ ended \in BOOLEAN
    BY DEF QueueInit
  <2>4. {leases, admitted, claims, window} \subseteq [Ids -> Times]
    BY <2>1 DEF QueueInit
  <2>5. sequence \in 0..MaxEntries /\ users \in 0..sequence
    BY <1>1 DEF QueueInit
  <2> QED  BY <2>2, <2>3, <2>4, <2>5 DEF QueueTypeOK
<1>4. /\ waiting = {id \in Ids : entries[id].state = "waiting"}
      /\ \A id \in Ids : EntrySound(id)
      /\ \A u \in Users : UserSound(u)
  <2>1. /\ NotJoined.state = "none" /\ NotJoined.phase = "idle"
        /\ NotJoined.admittedAt = Absent /\ ~(Absent > 0)
    BY DEF NotJoined, Absent
  <2>2. \A id \in Ids : entries[id] = NotJoined
    BY DEF QueueInit
  <2> QED  BY <1>2, <2>1, <2>2 DEF QueueInit, Empty, EntrySound, UserSound, Claimed, Active
<1>5. KeysCounted
  <2>1. HasKey(joins, NoId) = {} /\ HasKey(latest, NoId) = {}
    BY DEF QueueInit, HasKey
  <2> QED  BY <2>1, FS_EmptySet DEF QueueInit, KeysCounted
<1>6. Size(window) = 0 /\ Size(admitted) = 0
  <2>1. {id \in Ids : Empty[id] # Absent} = {}
    BY DEF Empty
  <2> QED  BY <2>1, FS_EmptySet DEF QueueInit, Size
<1> QED  BY <1>3, <1>4, <1>5, <1>6, ProfileAssumption DEF QueueInv, Positive

LEMMA InvNext == QueueInv /\ [QueueNext]_queueVars => QueueInv'
<1> SUFFICES ASSUME QueueInv, [QueueNext]_queueVars
             PROVE  QueueInv'
  OBVIOUS
<1>1. ASSUME NEW u \in Users, Status(u) PROVE QueueInv'
  BY <1>1, StatusStep
<1>2. ASSUME NEW u \in Users, NEW r \in JoinRequests, JoinAgain(u, r) PROVE QueueInv'
  BY <1>2, JoinAgainStep
<1>3. ASSUME NEW u \in Users, NEW r \in JoinRequests, Join(u, r) PROVE QueueInv'
  BY <1>3, JoinStep
<1>4. ASSUME NEW id \in Ids, Cancel(id) PROVE QueueInv'
  BY <1>4, CancelStep
<1>5. ASSUME Tick PROVE QueueInv'
  BY <1>5, TickIs, TickOfStep
<1>6. ASSUME NEW id \in Ids, Claim(id) PROVE QueueInv'
  BY <1>6, ClaimStep
<1>7. ASSUME NEW id \in Ids, ClaimAgain(id) PROVE QueueInv'
  BY <1>7, ClaimAgainStep
<1>8. ASSUME Reconcile PROVE QueueInv'
  BY <1>8, ReconcileStep
<1>9. ASSUME NEW id \in Ids, Complete(id) \/ Close(id) PROVE QueueInv'
  BY <1>9, FinaliseStep
<1>10. ASSUME Advance PROVE QueueInv'
  BY <1>10, AdvanceStep
<1>11. ASSUME EndSession PROVE QueueInv'
  BY <1>11, EndSessionStep
<1>12. CASE UNCHANGED queueVars
  BY <1>12 DEF queueVars, QueueInv, QueueTypeOK, EntrySound, UserSound, KeysCounted,
               HasKey, Size, Claimed, Active
<1> QED  BY <1>1, <1>2, <1>3, <1>4, <1>5, <1>6, <1>7, <1>8, <1>9, <1>10, <1>11, <1>12
         DEF QueueNext

\* The indexes and counts of the script follow the records, forever.
THEOREM QueueCorrect == QueueSpec => []QueueInv
<1> QED  BY InitInv, InvNext, PTL DEF QueueSpec

\* Every variable keeps its type.
THEOREM QueueTypes == QueueSpec => []QueueTypeOK
<1>1. QueueInv => QueueTypeOK
  BY DEF QueueInv
<1> QED  BY <1>1, QueueCorrect, PTL

\* The indexes of join, status, tick, claim and reconcile say what the records
\* say, after any sequence of calls.
THEOREM IndexesCorrect == QueueSpec => []IndexesAgree
<1>1. QueueInv => IndexesAgree
  BY DEF QueueInv, IndexesAgree, EntrySound, UserSound
<1> QED  BY <1>1, QueueCorrect, PTL

----------------------------------------------------------------------------
(* Counts.                                                                 *)

\* A user has at most one active admission, so the hash :users has as many keys
\* as there are active admissions.
LEMMA ActiveCounted ==
  ASSUME QueueInv
  PROVE  Cardinality(HasKey(active, NoId)) = Cardinality({id \in Ids : Active(id)})
<1> DEFINE H == HasKey(active, NoId)
           A == {id \in Ids : Active(id)}
           f == [id \in A |-> entries[id].user]
<1>1. /\ \A id \in Ids : EntrySound(id)
      /\ \A u \in Users : UserSound(u)
      /\ active \in [Users -> Ids \cup {NoId}]
  BY DEF QueueInv, QueueTypeOK
<1>2. \A id \in A : /\ entries[id].user \in Users /\ active[entries[id].user] = id
                    /\ id \in Ids
  BY <1>1 DEF EntrySound, Active
<1>3. \A u : u \in H <=> u \in Users /\ active[u] # NoId
  BY <1>1 DEF HasKey
<1>4. \A u \in H : active[u] \in A /\ entries[active[u]].user = u
  BY <1>1, <1>3 DEF UserSound
<1> HIDE DEF H, A
<1>5. f \in [A -> H]
  BY <1>2, <1>3, IdFacts
<1>6. \A a, b \in A : f[a] = f[b] => a = b
  BY <1>2
<1>7. \A u \in H : \E id \in A : f[id] = u
  BY <1>4
<1>8. f \in Bijection(A, H)
  <2> HIDE DEF f
  <2> QED  BY <1>5, <1>6, <1>7, Fun_IsBij
<1>9. ExistsBijection(A, H) /\ IsFiniteSet(A)
  <2>1. A \in SUBSET Ids
    BY DEF A
  <2> QED  BY <1>8, <2>1, IdFacts, FS_Subset DEF ExistsBijection
<1> QED  BY <1>9, FS_Bijection DEF H, A

\* An active admission waits, and has a lease, or holds a slot.
LEMMA PlacesCounted ==
  ASSUME QueueInv
  PROVE  /\ Cardinality(waiting) = Size(leases)
         /\ Cardinality({id \in Ids : Active(id)}) = Cardinality(waiting) + Size(admitted)
         /\ Size(admitted) = Cardinality({id \in Ids : entries[id].state = "admitted"})
<1> DEFINE held == {id \in Ids : entries[id].state = "admitted"}
<1>1. /\ \A id \in Ids : EntrySound(id)
      /\ waiting = {id \in Ids : entries[id].state = "waiting"}
  BY DEF QueueInv
<1>2. {id \in Ids : leases[id] # Absent} = waiting
  BY <1>1 DEF EntrySound, Active
<1>3. {id \in Ids : admitted[id] # Absent} = held
  BY <1>1 DEF EntrySound, Active
<1>4. {id \in Ids : Active(id)} = waiting \cup held /\ waiting \cap held = {}
  BY <1>1 DEF Active
<1>5. IsFiniteSet(waiting) /\ IsFiniteSet(held)
  <2>1. waiting \in SUBSET Ids /\ held \in SUBSET Ids
    BY <1>1
  <2> QED  BY <2>1, IdFacts, FS_Subset
<1>6. Cardinality(waiting \cup held) = Cardinality(waiting) + Cardinality(held)
  <2> HIDE DEF held
  <2>1. Cardinality(waiting \cup held)
          = Cardinality(waiting) + Cardinality(held) - Cardinality(waiting \cap held)
    BY <1>5, FS_Union
  <2>2. Cardinality(waiting \cap held) = 0
    BY <1>4, FS_EmptySet
  <2>3. Cardinality(waiting) \in Nat /\ Cardinality(held) \in Nat
    BY <1>5, FS_CardinalityType
  <2> QED  BY <2>1, <2>2, <2>3
<1> QED  BY <1>2, <1>3, <1>4, <1>6 DEF Size

\* The script's own check of its counts never fails: no sequence of calls, ticks
\* and expirations makes it refuse the event's queue from then on.
THEOREM StructuresHold == QueueSpec => []Structures
<1>1. ASSUME QueueInv
      PROVE  Structures
  <2>1. Cardinality({id \in Ids : entries[id].state # "none"}) = sequence
    <3>1. sequence \in Nat /\ sequence <= MaxEntries /\ MaxEntries \in Nat
      BY <1>1, IdFacts DEF QueueInv, QueueTypeOK
    <3>2. \A id \in Ids : entries[id].state = "none" <=> id > sequence
      BY <1>1 DEF QueueInv, EntrySound
    <3>3. {id \in Ids : entries[id].state # "none"} = 1..sequence
      BY <3>1, <3>2 DEF Ids
    <3>4. Cardinality(1..sequence) = sequence
      BY <3>1, FS_Interval
    <3> QED  BY <3>3, <3>4
  <2>2. /\ Cardinality(HasKey(joins, NoId)) = sequence
        /\ Cardinality(HasKey(latest, NoId)) = users
    BY <1>1 DEF QueueInv, KeysCounted
  <2> QED  BY <1>1, <2>1, <2>2, ActiveCounted, PlacesCounted DEF Structures
<1> QED  BY <1>1, QueueCorrect, PTL

\* Capacity: never more slots held than the profile allows, claimed and overdue
\* ones included.
THEOREM CapacityCorrect == QueueSpec => []CapacityHeld
<1>1. ASSUME QueueInv
      PROVE  CapacityHeld
  BY <1>1, PlacesCounted DEF QueueInv, CapacityHeld
<1> QED  BY <1>1, QueueCorrect, PTL

\* Rate: no window of RateWindow sees more promotions than the profile allows.
THEOREM RateCorrect == QueueSpec => []RateHeld
<1>1. ASSUME QueueInv
      PROVE  RateHeld
  <2> DEFINE recent == {id \in Ids : entries[id].admittedAt > 0}
             counted == {id \in Ids : window[id] # Absent}
  <2>1. \A id \in Ids : entries[id].admittedAt > 0 => window[id] # Absent
    <3>1. ~(Absent > 0)
      BY DEF Absent
    <3> QED  BY <1>1, <3>1 DEF QueueInv, EntrySound
  <2>2. counted \in SUBSET Ids /\ recent \in SUBSET counted
    BY <2>1
  <2>3. Cardinality(counted) <= Rate /\ Rate \in Nat
    BY <1>1, ProfileAssumption DEF QueueInv, Size, Positive
  <2> HIDE DEF recent, counted
  <2>4. /\ Cardinality(recent) \in Nat /\ Cardinality(counted) \in Nat
        /\ Cardinality(recent) <= Cardinality(counted)
    BY <2>2, SubsetCount
  <2>5. Cardinality(recent) <= Rate
    BY <2>3, <2>4
  <2> QED  BY <2>5 DEF recent, RateHeld
<1> QED  BY <1>1, QueueCorrect, PTL

----------------------------------------------------------------------------
(* What a step may do to one admission.                                    *)

NotPromoted(id) == entries'[id].state = "admitted" => entries[id].state = "admitted"

KeepsClaim(id) == Claimed(id) => entries'[id].phase # "idle"

LEMMA TerminalKeeps ==
  ASSUME QueueInv, NEW ids \in SUBSET Ids,
         NEW state \in {"consumed", "cancelled", "expired"}, Terminal(ids, state),
         NEW id \in Ids
  PROVE  NotPromoted(id) /\ ((Claimed(id) /\ id \in ids) \/ KeepsClaim(id))
<1>1. entries'[id] = IF id \in ids THEN Ended(id, state) ELSE entries[id]
  BY DEF Terminal, Closed
<1>2. Ended(id, state).state = state
  BY EndedRecord DEF QueueInv
<1> QED  BY <1>1, <1>2 DEF NotPromoted, KeepsClaim, Claimed

\* A step that rewrites the record of one admission, and not its state.
LEMMA RecordKeeps ==
  ASSUME NEW id \in Ids, entries'[id].state = entries[id].state,
         entries[id].phase # "idle" => entries'[id].phase # "idle"
  PROVE  NotPromoted(id) /\ KeepsClaim(id)
BY DEF NotPromoted, KeepsClaim, Claimed

LEMMA TouchKeeps ==
  ASSUME QueueInv, NEW i \in Ids, Touch(i), NEW id \in Ids
  PROVE  NotPromoted(id) /\ KeepsClaim(id)
<1>1. CASE Overdue(i) /\ Terminal({i}, "expired")
  BY <1>1, TerminalKeeps DEF Overdue
<1>2. CASE Renew(i)
  <2>1. entries \in [Ids -> EntryRecords]
    BY DEF QueueInv, QueueTypeOK
  <2>2. /\ entries'[id].state = entries[id].state
        /\ entries'[id].phase = entries[id].phase
    BY <1>2, <2>1 DEF Renew, EntryRecords
  <2> QED  BY <2>2, RecordKeeps
<1> QED  BY <1>1, <1>2 DEF Touch

LEMMA JoinKeeps ==
  ASSUME QueueInv, NEW u \in Users, NEW r \in JoinRequests, Join(u, r), NEW id \in Ids
  PROVE  NotPromoted(id) /\ KeepsClaim(id)
<1> DEFINE expired == OverdueAmong({active[u]})
<1>1. expired \in SUBSET Ids /\ \A i \in expired : ~Claimed(i)
  BY DEF OverdueAmong, Overdue
<1>2. CASE Terminal(expired, "expired")
  <2> HIDE DEF expired
  <2> QED  BY <1>1, <1>2, TerminalKeeps
<1>3. CASE NewPlace(u, r, expired, sequence + 1)
  <2>1. CASE id = sequence + 1
    <3>1. entries'[id] = [NotJoined EXCEPT !.state = "waiting", !.user = u,
                                           !.expiresAt = LeaseTime]
      BY <1>3, <2>1 DEF NewPlace, Closed
    <3>2. entries'[id].state = "waiting"
      BY <3>1 DEF NotJoined
    <3>3. ~Claimed(id)
      <4>1. EntrySound(id) /\ id > sequence
        BY <2>1 DEF QueueInv, QueueTypeOK
      <4> QED  BY <4>1 DEF EntrySound
    <3> QED  BY <3>2, <3>3 DEF NotPromoted, KeepsClaim
  <2>2. CASE id # sequence + 1
    <3>1. entries'[id] = IF id \in expired THEN Ended(id, "expired") ELSE entries[id]
      BY <1>3, <2>2 DEF NewPlace, Closed
    <3>2. Ended(id, "expired").state = "expired"
      BY EndedRecord DEF QueueInv
    <3> HIDE DEF expired
    <3> QED  BY <1>1, <3>1, <3>2 DEF NotPromoted, KeepsClaim, Claimed
  <2> QED  BY <2>1, <2>2
<1> QED  BY <1>2, <1>3 DEF Join, NewPlace

LEMMA ClaimKeeps ==
  ASSUME QueueInv, NEW i \in Ids, Claim(i), NEW id \in Ids
  PROVE  NotPromoted(id) /\ KeepsClaim(id)
<1>1. CASE Overdue(i) /\ Terminal({i}, "expired")
  BY <1>1, TerminalKeeps DEF Overdue
<1>2. CASE entries' = [entries EXCEPT ![i].phase = "processing", ![i].deadline = ClaimTime]
  <2>1. entries \in [Ids -> EntryRecords]
    BY DEF QueueInv, QueueTypeOK
  <2>2. /\ entries'[id].state = entries[id].state
        /\ entries[id].phase # "idle" => entries'[id].phase # "idle"
    BY <1>2, <2>1 DEF EntryRecords
  <2> QED  BY <2>2, RecordKeeps
<1> QED  BY <1>1, <1>2 DEF Claim

\* Neither a reconciliation nor the clock touches a state or ends a claim.
LEMMA SettlingKeeps ==
  ASSUME QueueInv, Reconcile \/ Advance \/ EndSession \/ \E i \in Ids : ClaimAgain(i),
         NEW id \in Ids
  PROVE  NotPromoted(id) /\ KeepsClaim(id)
<1>1. entries \in [Ids -> EntryRecords] /\ entries[id] \in EntryRecords
  BY DEF QueueInv, QueueTypeOK
<1>2. CASE Reconcile
  <2>1. PICK overdue \in Take(Reclaim, Due(claims)) :
            entries' = [i \in Ids |-> IF i \in overdue
                THEN [entries[i] EXCEPT !.phase = "reconciling"] ELSE entries[i]]
    BY <1>2 DEF Reconcile
  <2>2. /\ entries'[id].state = entries[id].state
        /\ entries[id].phase # "idle" => entries'[id].phase # "idle"
    BY <1>1, <2>1 DEF EntryRecords
  <2> QED  BY <2>2, RecordKeeps
<1>3. CASE \E i \in Ids : ClaimAgain(i)
  <2>1. PICK i \in Ids : entries' = [entries EXCEPT ![i].phase = "reconciling"]
    BY <1>3 DEF ClaimAgain
  <2>2. /\ entries'[id].state = entries[id].state
        /\ entries[id].phase # "idle" => entries'[id].phase # "idle"
    BY <1>1, <2>1 DEF EntryRecords
  <2> QED  BY <2>2, RecordKeeps
<1>4. CASE Advance
  <2>1. entries'[id] = [entries[id] EXCEPT !.expiresAt = Sooner(@), !.admittedAt = Sooner(@),
                                           !.deadline = Sooner(@)]
    BY <1>4 DEF Advance
  <2>2. entries'[id].state = entries[id].state /\ entries'[id].phase = entries[id].phase
    BY <1>1, <2>1 DEF EntryRecords
  <2> QED  BY <2>2, RecordKeeps
<1>5. CASE EndSession
  BY <1>5, RecordKeeps DEF EndSession
<1> QED  BY <1>2, <1>3, <1>4, <1>5

\* A tick promotes only whom TickOf names, and leaves claims alone.
LEMMA TickKeeps ==
  ASSUME QueueInv, NEW cleaned \in SUBSET Ids, NEW promoted \in SUBSET Ids,
         TickOf(cleaned, promoted), NEW id \in Ids
  PROVE  (NotPromoted(id) \/ id \in promoted) /\ KeepsClaim(id)
<1>1. entries \in [Ids -> EntryRecords] /\ entries[id] \in EntryRecords
  BY DEF QueueInv, QueueTypeOK
<1>2. \A i \in cleaned : ~Claimed(i)
  BY DEF TickOf
<1>3. CASE id \in promoted
  <2>1. entries'[id] = [entries[id] EXCEPT !.state = "admitted", !.expiresAt = AdmissionTime,
                                           !.admittedAt = RateWindow]
    BY <1>3 DEF TickOf
  <2>2. entries'[id].phase = entries[id].phase
    BY <1>1, <2>1 DEF EntryRecords
  <2> QED  BY <1>3, <2>2 DEF KeepsClaim, Claimed
<1>4. CASE id \notin promoted
  <2>1. entries'[id] = IF id \in cleaned THEN Ended(id, "expired") ELSE entries[id]
    BY <1>4 DEF TickOf, Closed
  <2>2. Ended(id, "expired").state = "expired"
    BY EndedRecord DEF QueueInv
  <2> QED  BY <1>2, <2>1, <2>2 DEF NotPromoted, KeepsClaim, Claimed
<1> QED  BY <1>3, <1>4

LEMMA StepKeeps ==
  ASSUME QueueInv, [QueueNext]_queueVars, NEW id \in Ids
  PROVE  /\ NotPromoted(id) \/ Tick
         /\ KeepsClaim(id) \/ Complete(id) \/ Close(id)
<1>1. CASE \E u \in Users : Status(u)
  <2>1. PICK u \in Users : Status(u)
    BY <1>1
  <2>2. latest[u] \in Ids /\ Touch(latest[u])
    BY <2>1 DEF Status, QueueInv, QueueTypeOK
  <2> QED  BY <2>2, TouchKeeps
<1>2. CASE \E u \in Users, r \in JoinRequests : JoinAgain(u, r)
  <2>1. PICK u \in Users, r \in JoinRequests : JoinAgain(u, r)
    BY <1>2
  <2>2. joins[r] \in Ids /\ Touch(joins[r])
    BY <2>1 DEF JoinAgain, QueueInv, QueueTypeOK
  <2> QED  BY <2>2, TouchKeeps
<1>3. CASE \E u \in Users, r \in JoinRequests : Join(u, r)
  BY <1>3, JoinKeeps
<1>4. CASE \E i \in Ids : Cancel(i)
  BY <1>4, TerminalKeeps DEF Cancel
<1>5. CASE Tick
  BY <1>5, TickIs, TickKeeps
<1>6. CASE \E i \in Ids : Claim(i)
  BY <1>6, ClaimKeeps
<1>7. CASE Reconcile \/ Advance \/ EndSession \/ \E i \in Ids : ClaimAgain(i)
  BY <1>7, SettlingKeeps
<1>8. CASE \E i \in Ids : Complete(i) \/ Close(i)
  <2>1. PICK i \in Ids : Complete(i) \/ Close(i)
    BY <1>8
  <2>2. Terminal({i}, "consumed") \/ Terminal({i}, "expired")
    BY <2>1 DEF Complete, Close, Finalise
  <2>3. NotPromoted(id) /\ (id \in {i} \/ KeepsClaim(id))
    BY <2>2, TerminalKeeps
  <2> QED  BY <2>1, <2>3
<1>9. CASE UNCHANGED queueVars
  BY <1>9, RecordKeeps DEF queueVars
<1> QED  BY <1>1, <1>2, <1>3, <1>4, <1>5, <1>6, <1>7, <1>8, <1>9 DEF QueueNext

----------------------------------------------------------------------------
(* Properties of steps.                                                    *)

\* Promotion is first come, first served: whoever a tick leaves waiting joined
\* after everyone it promotes, and nothing but a tick promotes.
THEOREM PromotionInOrder == QueueSpec => FirstComeFirstServed
<1>1. ASSUME QueueInv, [QueueNext]_queueVars
      PROVE  PromotedInOrder
  <2> SUFFICES ASSUME NEW i \in Ids, NEW j \in Ids, i < j, Promoted(j)
               PROVE  entries'[i].state # "waiting"
    BY DEF PromotedInOrder
  <2>1. ~NotPromoted(j)
    BY DEF Promoted, NotPromoted
  <2>2. PICK cleaned \in SUBSET Ids, promoted \in SUBSET Ids : TickOf(cleaned, promoted)
    BY <1>1, <2>1, StepKeeps, TickIs
  <2>3. j \in promoted
    BY <1>1, <2>1, <2>2, TickKeeps
  <2>4. QueueInv'
    BY <1>1, InvNext
  <2>5. SUFFICES ASSUME i \in waiting'
                 PROVE  FALSE
    BY <2>4 DEF QueueInv
  <2>6. i \in waiting \ cleaned /\ i \notin promoted
    BY <2>2, <2>5 DEF TickOf
  <2>7. i <= j
    BY IdFacts
  <2> QED  BY <2>2, <2>3, <2>6, <2>7 DEF TickOf
<1> QED  BY <1>1, QueueCorrect, PTL DEF QueueSpec, FirstComeFirstServed

\* A claimed admission keeps its slot and its claim until complete or close.
THEOREM ClaimsSurvive == QueueSpec => ApprovedClaimSurvives
<1>1. ASSUME QueueInv, [QueueNext]_queueVars
      PROVE  ClaimsKept
  <2> SUFFICES ASSUME NEW id \in Ids, Claimed(id), ~Complete(id), ~Close(id)
               PROVE  /\ entries'[id].state = "admitted" /\ entries'[id].phase # "idle"
                      /\ admitted'[id] # Absent /\ claims'[id] # Absent
    BY DEF ClaimsKept
  <2>1. entries'[id].phase # "idle"
    BY <1>1, StepKeeps DEF KeepsClaim
  <2>2. QueueInv'
    BY <1>1, InvNext
  <2>3. EntrySound(id)'
    BY <2>2 DEF QueueInv
  <2> QED  BY <2>1, <2>3 DEF EntrySound, Claimed, Active
<1> QED  BY <1>1, QueueCorrect, PTL DEF QueueSpec, ApprovedClaimSurvives

=============================================================================
