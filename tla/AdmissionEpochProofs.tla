------------------------ MODULE AdmissionEpochProofs ------------------------
(***************************************************************************)
(* Proofs about AdmissionEpoch for any number of instances, generations,   *)
(* faults and switches: only the holder of the gate publishes, and only    *)
(* what the policy holds open; no open generation is started over; no      *)
(* cleaning deletes an open queue.                                         *)
(***************************************************************************)
EXTENDS AdmissionEpoch, TLAPS

----------------------------------------------------------------------------
(* The inductive invariant.                                                *)

\* What an instance relies on from one of its steps to the next: while it
\* holds the gate nobody moves the policy, and a page of keys it is about to
\* unlink never holds the generation it saw in the control.
StateSound(r, pol) ==
    /\ r.pc \in Gated => pol.protected
    /\ r.pc = "init" => r.runId # 0
    /\ r.pc = "commit1" => r.target \in {pol.generation, pol.generation + 1}
    /\ r.pc = "publish" => pol.phase = "open" /\ pol.generation = r.target
    /\ r.pc = "unlink" => r.old.generation \notin r.keys

InstanceSound(i) ==
    /\ gate = i <=> inst[i].pc \in Gated
    /\ StateSound(inst[i], policy)

\* A generation that was open is behind the policy, or still open in it.
OpenedSound ==
    \A g \in opened : g < policy.generation \/ (g = policy.generation /\ policy.phase = "open")

EpochInv ==
    /\ EpochTypeOK
    /\ server <= faults.failed + 1
    /\ \A i \in Instances : InstanceSound(i)
    /\ OpenedSound

RedisTypeOK ==
    /\ control \in Controls \cup {NoControl}
    /\ space \in [Generations -> {"none", "intact", "damaged", "over"}]
    /\ opened \subseteq Generations

----------------------------------------------------------------------------
(* Records of instances.                                                   *)

PCs == Gated \cup {"idle", "look", "serve", "doubt", "clean", "scan", "unlink", "recover",
                   "gate1", "gate2", "gate3", "orphans", "gateOrphans"}

LEMMA RecordFacts ==
  ASSUME NEW r \in InstanceStates
  PROVE  /\ Idle(r) \in InstanceStates /\ Idle(r).pc = "idle"
         /\ \A pc \in PCs : /\ [r EXCEPT !.pc = pc] \in InstanceStates
                            /\ [r EXCEPT !.pc = pc].pc = pc
                            /\ [r EXCEPT !.pc = pc].old = r.old
                            /\ [r EXCEPT !.pc = pc].target = r.target
                            /\ [r EXCEPT !.pc = pc].keys = r.keys
                            /\ [r EXCEPT !.pc = pc].runId = r.runId
         /\ \A b \in BOOLEAN : /\ [r EXCEPT !.ready = b] \in InstanceStates
                               /\ [r EXCEPT !.ready = b].pc = r.pc
                               /\ [r EXCEPT !.up = b] \in InstanceStates
                               /\ [r EXCEPT !.up = b].pc = r.pc
<1>1. FirstPolicy \in Policies /\ 0 \in Generations
  BY GenerationsAssumption DEF FirstPolicy, Policies
<1>2. Idle(r) \in InstanceStates /\ Idle(r).pc = "idle"
  BY <1>1 DEF Idle, InstanceStates
<1> QED  BY <1>2 DEF InstanceStates, PCs

\* What the invariant says of an instance, and of the process it verifies.
LEMMA InstanceFacts ==
  ASSUME EpochInv, NEW i \in Instances
  PROVE  /\ inst[i] \in InstanceStates /\ policy \in Policies /\ RedisTypeOK
         /\ server \in 1..(Faults + 1) /\ server # 0
         /\ gate = i <=> inst[i].pc \in Gated
         /\ StateSound(inst[i], policy)
         /\ Verified(i) \in InstanceStates
         /\ Verified(i).pc = inst[i].pc /\ Verified(i).old = inst[i].old
         /\ Verified(i).keys = inst[i].keys /\ Verified(i).runId = server
<1>1. /\ inst[i] \in InstanceStates /\ policy \in Policies /\ RedisTypeOK
      /\ server \in 1..(Faults + 1)
      /\ InstanceSound(i)
  BY DEF EpochInv, EpochTypeOK, RedisTypeOK
<1>2. server # 0 /\ server \in 0..(Faults + 1)
  BY <1>1, FaultsAssumption
<1> QED  BY <1>1, <1>2 DEF InstanceSound, Verified, InstanceStates

\* A failed step leaves an instance at rest, or about to look again.
LEMMA FailsFacts ==
  ASSUME EpochInv, NEW i \in Instances, Fails(i)
  PROVE  \E r \in InstanceStates : Update(i, r) /\ r.pc \in {"idle", "doubt"}
<1>1. inst[i] \in InstanceStates
  BY InstanceFacts
<1> DEFINE rested == [Idle(inst[i]) EXCEPT !.ready = FALSE]
           doubting == [inst[i] EXCEPT !.pc = "doubt", !.ready = FALSE, !.again = TRUE]
<1>2. rested \in InstanceStates /\ rested.pc = "idle"
  <2>1. Idle(inst[i]) \in InstanceStates /\ Idle(inst[i]).pc = "idle"
    BY <1>1, RecordFacts
  <2> QED  BY <2>1 DEF InstanceStates
<1>3. doubting \in InstanceStates /\ doubting.pc = "doubt"
  BY <1>1 DEF InstanceStates
<1>4. Update(i, rested) \/ Update(i, doubting)
  BY DEF Fails
<1> HIDE DEF rested, doubting
<1> QED  BY <1>2, <1>3, <1>4

LEMMA RestsFacts ==
  ASSUME EpochInv, NEW i \in Instances, Rests(i) \/ Cleans(i)
  PROVE  \E r \in InstanceStates : Update(i, r) /\ r.pc \in {"idle", "clean"}
<1>1. inst[i] \in InstanceStates
  BY InstanceFacts
<1> DEFINE rested == Idle(inst[i])
           cleaning == [Idle(inst[i]) EXCEPT !.pc = "clean"]
<1>2. rested \in InstanceStates /\ rested.pc = "idle"
  BY <1>1, RecordFacts
<1>3. cleaning \in InstanceStates /\ cleaning.pc = "clean"
  BY <1>2, RecordFacts DEF PCs
<1>4. Update(i, rested) \/ Update(i, cleaning)
  BY DEF Rests, Cleans
<1> HIDE DEF rested, cleaning
<1> QED  BY <1>2, <1>3, <1>4

----------------------------------------------------------------------------
(* Steps of one instance.                                                  *)

\* What a step of instance i leaves behind beside its own record: the policy
\* changes only under the gate, or while it is free.
Shared(i) ==
    /\ policy' \in Policies
    /\ policy' = policy \/ gate \in {i, Nobody}
    /\ server' = server
    /\ RedisTypeOK' /\ OpenedSound'
    /\ faults' \in [failed : 0..Faults, switched : 0..Switches]
    /\ faults'.failed >= faults.failed

\* It does not hold the gate afterwards.
Outside(i) ==
    \/ gate' = gate /\ inst[i].pc \notin Gated
    \/ gate' = Nobody /\ gate \in {i, Nobody}

LEMMA ActorStep ==
  ASSUME EpochInv, NEW i \in Instances, NEW r \in InstanceStates, Update(i, r), Shared(i),
         gate' = gate \/ (gate \in {i, Nobody} /\ gate' \in {i, Nobody}),
         r.pc \in Gated <=> gate' = i, StateSound(r, policy')
  PROVE  EpochInv'
<1>1. /\ EpochTypeOK /\ inst \in [Instances -> InstanceStates]
      /\ \A j \in Instances : InstanceSound(j)
  BY DEF EpochInv, EpochTypeOK
<1>2. inst' = [inst EXCEPT ![i] = r]
  BY DEF Update
<1>3. inst' \in [Instances -> InstanceStates]
  BY <1>1, <1>2
<1>4. EpochTypeOK'
  BY <1>1, <1>3 DEF EpochTypeOK, RedisTypeOK, Shared
<1>5. ASSUME NEW j \in Instances
      PROVE  InstanceSound(j)'
  <2>1. CASE j = i
    <3>1. inst'[j] = r
      BY <1>1, <1>2, <2>1
    <3> QED  BY <2>1, <3>1 DEF InstanceSound
  <2>2. CASE j # i
    <3>1. inst'[j] = inst[j] /\ InstanceSound(j)
      BY <1>1, <1>2, <2>2
    <3>2. gate' = j <=> gate = j
      BY <2>2, NobodyAssumption
    <3>3. policy' = policy \/ inst[j].pc \notin Gated
      BY <2>2, <3>1, NobodyAssumption DEF InstanceSound, Shared
    <3>4. StateSound(inst[j], policy')
      BY <3>1, <3>3 DEF InstanceSound, StateSound, Gated
    <3> QED  BY <3>1, <3>2, <3>4 DEF InstanceSound
  <2> QED  BY <2>1, <2>2
<1>6. server' <= faults'.failed + 1
  <2>1. /\ server <= faults.failed + 1 /\ server' = server /\ server \in Int
        /\ faults.failed \in Int /\ faults'.failed \in Int /\ faults'.failed >= faults.failed
    BY <1>1 DEF EpochInv, EpochTypeOK, Shared
  <2> QED  BY <2>1
<1> QED  BY <1>4, <1>5, <1>6 DEF EpochInv, Shared

\* A step that takes no gate, nor a page of keys to unlink.
LEMMA UngatedStep ==
  ASSUME EpochInv, NEW i \in Instances, NEW r \in InstanceStates, Update(i, r), Shared(i),
         r.pc \notin Gated, r.pc # "unlink", Outside(i)
  PROVE  EpochInv'
<1>1. r.pc \in Gated <=> gate' = i
  BY InstanceFacts, NobodyAssumption DEF Outside
<1>2. StateSound(r, policy')
  BY DEF StateSound, Gated
<1>3. gate' = gate \/ (gate \in {i, Nobody} /\ gate' \in {i, Nobody})
  BY DEF Outside
<1> QED  BY <1>1, <1>2, <1>3, ActorStep

\* Nothing but the instance itself changes.
Quiet == UNCHANGED <<policy, gate, server, control, space, opened, faults>>

LEMMA QuietShared ==
  ASSUME EpochInv, NEW i \in Instances, UNCHANGED <<policy, server, control, space, opened, faults>>
  PROVE  Shared(i)
BY DEF EpochInv, EpochTypeOK, RedisTypeOK, OpenedSound, Shared

LEMMA QuietStep ==
  ASSUME EpochInv, NEW i \in Instances, NEW r \in InstanceStates, Update(i, r), Quiet,
         inst[i].pc \notin Gated, r.pc \notin Gated, r.pc # "unlink"
  PROVE  EpochInv'
<1>1. Shared(i) /\ Outside(i)
  BY QuietShared DEF Quiet, Outside
<1> QED  BY <1>1, UngatedStep

----------------------------------------------------------------------------
(* Ticks that look, doubt and serve.                                       *)

LEMMA TickStep ==
  ASSUME EpochInv, NEW i \in Instances, Tick(i)
  PROVE  EpochInv'
<1> DEFINE me == IF inst[i].ready THEN inst[i] ELSE Verified(i)
           r == [me EXCEPT !.pol = policy,
                           !.pc = IF policy.protected THEN "look"
                                  ELSE IF policy.phase = "open" THEN "gate1" ELSE "orphans"]
<1>1. me \in InstanceStates /\ policy \in Policies /\ inst[i].pc \notin Gated
  BY InstanceFacts DEF Tick, Gated
<1> HIDE DEF me
<1>2. r \in InstanceStates /\ r.pc \in {"look", "gate1", "orphans"}
  BY <1>1 DEF InstanceStates
<1>3. Update(i, r) /\ gate' = gate
  BY DEF Tick, me
<1> HIDE DEF r
<1>4. r.pc \notin Gated /\ r.pc # "unlink"
  BY <1>2 DEF Gated
<1> QED  BY <1>1, <1>2, <1>3, <1>4, QuietStep DEF Tick, redisVars, Quiet

LEMMA LookStep ==
  ASSUME EpochInv, NEW i \in Instances, Look(i)
  PROVE  EpochInv'
<1> DEFINE seen == IF inst[i].up THEN control ELSE NoControl
           agrees == /\ seen # NoControl
                     /\ seen.generation = inst[i].pol.generation
                     /\ inst[i].pol.phase = "open"
           observed == IF agrees THEN seen ELSE NoControl
           r == [inst[i] EXCEPT
                    !.old = observed,
                    !.pc = IF agrees /\ seen.runId = inst[i].runId /\ seen.mode = "ready"
                           THEN "serve" ELSE "recover"]
<1>1. inst[i] \in InstanceStates /\ inst[i].pc \notin Gated /\ observed \in Controls \cup {NoControl}
  BY InstanceFacts DEF Look, Gated, RedisTypeOK
<1>2. Update(i, r) /\ gate' = gate
  BY DEF Look
<1> HIDE DEF observed, agrees, seen
<1>3. r \in InstanceStates /\ r.pc \in {"serve", "recover"}
  BY <1>1 DEF InstanceStates
<1> HIDE DEF r
<1>4. r.pc \notin Gated /\ r.pc # "unlink"
  BY <1>3 DEF Gated
<1> QED  BY <1>1, <1>2, <1>3, <1>4, QuietStep DEF Look, redisVars, Quiet

\* A failed step, a rest or a clean, without a change of anything shared.
LEMMA EndsStep ==
  ASSUME EpochInv, NEW i \in Instances, Fails(i) \/ Rests(i) \/ Cleans(i),
         Outside(i), Shared(i)
  PROVE  EpochInv'
<1>1. PICK r \in InstanceStates : Update(i, r) /\ r.pc \in {"idle", "doubt", "clean"}
  BY FailsFacts, RestsFacts
<1>2. r.pc \notin Gated /\ r.pc # "unlink"
  BY <1>1 DEF Gated
<1> QED  BY <1>1, <1>2, UngatedStep

LEMMA QuietEndsStep ==
  ASSUME EpochInv, NEW i \in Instances, Fails(i) \/ Rests(i) \/ Cleans(i),
         inst[i].pc \notin Gated, Quiet
  PROVE  EpochInv'
<1>1. Shared(i) /\ Outside(i)
  BY QuietShared DEF Quiet, Outside
<1> QED  BY <1>1, EndsStep

LEMMA ServeStep ==
  ASSUME EpochInv, NEW i \in Instances, Serve(i)
  PROVE  EpochInv'
BY QuietEndsStep DEF Serve, Gated, Quiet, redisVars

LEMMA DoubtStep ==
  ASSUME EpochInv, NEW i \in Instances, Doubt(i)
  PROVE  EpochInv'
<1>1. inst[i].pc \notin Gated /\ Quiet
  BY DEF Doubt, Gated, Quiet, redisVars
<1>2. CASE Fails(i)
  BY <1>1, <1>2, QuietEndsStep
<1>3. CASE Update(i, [Idle(Verified(i)) EXCEPT !.pc = "clean"])
  <2> DEFINE r == [Idle(Verified(i)) EXCEPT !.pc = "clean"]
  <2>1. r \in InstanceStates /\ r.pc = "clean"
    <3>1. Idle(Verified(i)) \in InstanceStates
      BY InstanceFacts, RecordFacts
    <3> QED  BY <3>1, RecordFacts DEF PCs
  <2> HIDE DEF r
  <2>2. Update(i, r)
    BY <1>3 DEF r
  <2>3. r.pc \notin Gated /\ r.pc # "unlink"
    BY <2>1 DEF Gated
  <2> QED  BY <1>1, <2>1, <2>2, <2>3, QuietStep
<1>4. CASE Update(i, [Verified(i) EXCEPT !.pc = "recover"])
  <2> DEFINE r == [Verified(i) EXCEPT !.pc = "recover"]
  <2>1. r \in InstanceStates /\ r.pc = "recover"
    BY InstanceFacts, RecordFacts DEF PCs
  <2> HIDE DEF r
  <2>2. Update(i, r)
    BY <1>4 DEF r
  <2>3. r.pc \notin Gated /\ r.pc # "unlink"
    BY <2>1 DEF Gated
  <2> QED  BY <1>1, <2>1, <2>2, <2>3, QuietStep
<1> QED  BY <1>2, <1>3, <1>4 DEF Doubt

\* A step to another place of the same instance, outside the gate.
LEMMA GoesStep ==
  ASSUME EpochInv, NEW i \in Instances, NEW pc \in PCs \ Gated, pc # "unlink", Goes(i, pc),
         Outside(i), Shared(i)
  PROVE  EpochInv'
<1> DEFINE r == [inst[i] EXCEPT !.pc = pc]
<1>1. r \in InstanceStates /\ r.pc = pc
  BY InstanceFacts, RecordFacts
<1>2. Update(i, r)
  BY DEF Goes
<1> HIDE DEF r
<1> QED  BY <1>1, <1>2, UngatedStep

----------------------------------------------------------------------------
(* Cleaning.                                                               *)

LEMMA CleanStep ==
  ASSUME EpochInv, NEW i \in Instances, Clean(i)
  PROVE  EpochInv'
<1>1. inst[i].pc \notin Gated /\ Quiet
  BY DEF Clean, Gated, Quiet, redisVars
<1>2. CASE Rests(i)
  BY <1>1, <1>2, QuietEndsStep
<1>3. CASE Update(i, [inst[i] EXCEPT !.pc = "scan", !.old = control])
  <2> DEFINE r == [inst[i] EXCEPT !.pc = "scan", !.old = control]
  <2>1. inst[i] \in InstanceStates /\ control \in Controls \cup {NoControl}
    BY InstanceFacts DEF RedisTypeOK
  <2>2. r \in InstanceStates /\ r.pc = "scan"
    BY <2>1 DEF InstanceStates
  <2> HIDE DEF r
  <2>3. Update(i, r)
    BY <1>3 DEF r
  <2>4. r.pc \notin Gated /\ r.pc # "unlink"
    BY <2>2 DEF Gated
  <2> QED  BY <1>1, <2>2, <2>3, <2>4, QuietStep
<1> QED  BY <1>2, <1>3 DEF Clean

LEMMA ScanStep ==
  ASSUME EpochInv, NEW i \in Instances, Scan(i)
  PROVE  EpochInv'
<1>1. inst[i].pc \notin Gated /\ Quiet
  BY DEF Scan, Gated, Quiet, redisVars
<1>2. CASE Rests(i)
  BY <1>1, <1>2, QuietEndsStep
<1> DEFINE found == {g \in Generations \ {inst[i].old.generation} : space[g] # "none"}
           r == [inst[i] EXCEPT !.pc = "unlink", !.keys = found]
<1>3. CASE Update(i, r)
  <2>1. inst[i] \in InstanceStates /\ found \in SUBSET Generations
        /\ inst[i].old.generation \notin found
    BY InstanceFacts
  <2> HIDE DEF found
  <2>2. /\ r \in InstanceStates /\ r.pc = "unlink" /\ r.keys = found
        /\ r.old = inst[i].old
    BY <2>1 DEF InstanceStates
  <2> HIDE DEF r
  <2>3. StateSound(r, policy')
    BY <2>1, <2>2 DEF StateSound, Gated
  <2>4. r.pc \notin Gated /\ gate' # i /\ gate' = gate
    BY <1>1, <2>2, InstanceFacts DEF Gated, Quiet
  <2>5. Shared(i)
    BY <1>1, QuietShared DEF Quiet
  <2> QED  BY <1>1, <1>3, <2>2, <2>3, <2>4, <2>5, ActorStep
<1> QED  BY <1>2, <1>3 DEF Scan

LEMMA UnlinkStep ==
  ASSUME EpochInv, NEW i \in Instances, Unlink(i)
  PROVE  EpochInv'
<1>1. Outside(i)
  BY DEF Unlink, Outside, Gated
<1>2. Shared(i)
  BY DEF Unlink, Shared, RedisTypeOK, EpochInv, EpochTypeOK, OpenedSound
<1> QED  BY <1>1, <1>2, EndsStep DEF Unlink

----------------------------------------------------------------------------
(* Recovery.                                                               *)

LEMMA FreezeFacts ==
  ASSUME EpochInv, NEW g, Freeze(g)
  PROVE  control' \in Controls \cup {NoControl}
<1>1. control \in Controls \cup {NoControl}
  BY DEF EpochInv, EpochTypeOK
<1>2. control # NoControl => [control EXCEPT !.mode = "frozen"] \in Controls
  BY <1>1 DEF Controls
<1> QED  BY <1>1, <1>2 DEF Freeze

LEMMA RecoverStep ==
  ASSUME EpochInv, NEW i \in Instances, Recover(i)
  PROVE  EpochInv'
<1>1. Outside(i)
  BY DEF Recover, Outside, Gated
<1>2. control' \in Controls \cup {NoControl}
  BY FreezeFacts DEF Recover, EpochInv, EpochTypeOK
<1>3. Shared(i)
  BY <1>2 DEF Recover, Shared, RedisTypeOK, EpochInv, EpochTypeOK, OpenedSound
<1>4. CASE Fails(i)
  BY <1>1, <1>3, <1>4, EndsStep
<1> DEFINE me == IF inst[i].ready THEN inst[i] ELSE Verified(i)
           r == [me EXCEPT !.pc = "gate1"]
<1>5. CASE Update(i, r)
  <2>1. me \in InstanceStates
    BY InstanceFacts
  <2> HIDE DEF me
  <2>2. r \in InstanceStates /\ r.pc = "gate1"
    BY <2>1, RecordFacts DEF PCs
  <2> HIDE DEF r
  <2>3. r.pc \notin Gated /\ r.pc # "unlink"
    BY <2>2 DEF Gated
  <2> QED  BY <1>1, <1>3, <1>5, <2>2, <2>3, UngatedStep
<1> QED  BY <1>4, <1>5 DEF Recover

\* A policy that leaves its generation leaves everything that was open behind.
LEMMA AdvancedFacts ==
  ASSUME EpochInv, policy.generation + 1 \in Generations,
         policy' = Advanced(policy.generation + 1), opened' = opened
  PROVE  policy' \in Policies /\ OpenedSound'
<1>1. /\ policy' \in Policies /\ policy'.generation = policy.generation + 1
      /\ policy.generation \in Nat
  BY GenerationsAssumption DEF EpochInv, EpochTypeOK, Advanced, Policies
<1>2. opened \subseteq Nat
  BY GenerationsAssumption DEF EpochInv, EpochTypeOK
<1>3. \A g \in opened : g < policy.generation + 1
  BY <1>1, <1>2 DEF EpochInv, OpenedSound
<1> QED  BY <1>1, <1>3 DEF OpenedSound

LEMMA RetireFacts ==
  ASSUME EpochInv, NEW keys, Retire(keys)
  PROVE  RedisTypeOK' /\ control' = NoControl /\ opened' = opened
BY DEF EpochInv, EpochTypeOK, RedisTypeOK, Retire

LEMMA ReleasedStep ==
  ASSUME EpochInv, NEW i \in Instances, Released(i)
  PROVE  EpochInv'
<1>1. Outside(i) /\ gate = Nobody
  BY DEF Released, Outside, Gated
<1>2. RedisTypeOK' /\ OpenedSound' /\ policy' \in Policies
  <2>1. CASE Retire(inst[i].keys) /\ policy.generation + 1 \in Generations
                /\ policy' = Advanced(policy.generation + 1)
    BY <2>1, RetireFacts, AdvancedFacts
  <2>2. CASE Retire(inst[i].keys) /\ UNCHANGED policy
    BY <2>2, RetireFacts DEF EpochInv, EpochTypeOK, OpenedSound
  <2>3. CASE UNCHANGED <<policy, redisVars>>
    BY <2>3 DEF EpochInv, EpochTypeOK, RedisTypeOK, OpenedSound, redisVars
  <2> QED  BY <2>1, <2>2, <2>3 DEF Released
<1>3. Shared(i)
  BY <1>1, <1>2 DEF Released, Shared, EpochInv, EpochTypeOK
<1> QED  BY <1>1, <1>3, EndsStep DEF Released

\* The gate is taken, for the protected policy its holder reads there.
LEMMA TakeGateStep ==
  ASSUME EpochInv, NEW i \in Instances, NEW pc \in Gated, TakeGate(i, pc),
         gate = Nobody, policy.protected, pc \notin {"init", "commit1"},
         pc = "publish" => policy.phase = "open" /\ policy.generation = inst[i].target,
         UNCHANGED <<policy, server, redisVars, faults>>
  PROVE  EpochInv'
<1> DEFINE r == [inst[i] EXCEPT !.pc = pc]
<1>1. r \in InstanceStates /\ r.pc = pc /\ r.target = inst[i].target
  BY InstanceFacts, RecordFacts DEF PCs
<1>2. Update(i, r) /\ gate' = i
  BY DEF TakeGate, Goes
<1> HIDE DEF r
<1>3. Shared(i)
  BY QuietShared DEF redisVars
<1>4. StateSound(r, policy')
  BY <1>1 DEF StateSound, Gated
<1> QED  BY <1>1, <1>2, <1>3, <1>4, ActorStep

LEMMA Gate1Step ==
  ASSUME EpochInv, NEW i \in Instances, Gate1(i)
  PROVE  EpochInv'
BY TakeGateStep DEF Gate1, Gated

LEMMA Gate2Step ==
  ASSUME EpochInv, NEW i \in Instances, Gate2(i)
  PROVE  EpochInv'
<1>1. CASE TakeGate(i, "process2")
  BY <1>1, TakeGateStep DEF Gate2, Gated
<1>2. CASE Cleans(i) /\ UNCHANGED gate
  BY <1>2, QuietEndsStep DEF Gate2, Gated, Quiet, redisVars
<1> QED  BY <1>1, <1>2 DEF Gate2

LEMMA Gate3Step ==
  ASSUME EpochInv, NEW i \in Instances, Gate3(i)
  PROVE  EpochInv'
<1>1. CASE TakeGate(i, "publish") /\ policy.generation = inst[i].target /\ policy.phase = "open"
  BY <1>1, TakeGateStep DEF Gate3, Gated
<1>2. CASE Cleans(i) /\ UNCHANGED gate
  BY <1>2, QuietEndsStep DEF Gate3, Gated, Quiet, redisVars
<1> QED  BY <1>1, <1>2 DEF Gate3

\* A rolled back transaction, whatever it did to Redis before.
LEMMA AbortsStep ==
  ASSUME EpochInv, NEW i \in Instances, inst[i].pc \in Gated, Aborts(i), RedisTypeOK',
         UNCHANGED <<server, opened, faults>>
  PROVE  EpochInv'
<1>1. gate = i /\ Outside(i)
  BY InstanceFacts DEF Aborts, Outside
<1>2. Shared(i)
  BY DEF Aborts, Shared, EpochInv, EpochTypeOK, OpenedSound
<1> QED  BY <1>1, <1>2, EndsStep DEF Aborts

\* A step of the gate's holder, which keeps it and leaves the policy alone.
LEMMA HolderStep ==
  ASSUME EpochInv, NEW i \in Instances, inst[i].pc \in Gated, NEW r \in InstanceStates,
         Update(i, r), r.pc \in Gated \ {"publish"},
         r.pc = "init" => r.runId # 0,
         r.pc = "commit1" => r.target \in {policy.generation, policy.generation + 1},
         UNCHANGED <<gate, policy, server, opened, faults>>, RedisTypeOK'
  PROVE  EpochInv'
<1>1. gate = i /\ policy.protected
  BY InstanceFacts DEF StateSound
<1>2. Shared(i)
  BY DEF Shared, EpochInv, EpochTypeOK, OpenedSound
<1>3. StateSound(r, policy')
  BY <1>1 DEF StateSound, Gated
<1> QED  BY <1>1, <1>2, <1>3, ActorStep

LEMMA CurrentProcessStep ==
  ASSUME EpochInv, NEW i \in Instances, CurrentProcess(i)
  PROVE  EpochInv'
<1>1. inst[i].pc \in Gated /\ RedisTypeOK' /\ UNCHANGED <<server, opened, faults>>
  BY InstanceFacts DEF CurrentProcess, Gated, redisVars, RedisTypeOK
<1>2. CASE Aborts(i)
  BY <1>1, <1>2, AbortsStep
<1> DEFINE pc == IF inst[i].pc = "process1" THEN "decide" ELSE "init"
           r == [Verified(i) EXCEPT !.pc = pc]
<1>3. CASE Update(i, r) /\ UNCHANGED <<gate, policy>>
  <2>1. pc \in PCs /\ pc \in {"decide", "init"}
    BY DEF PCs, Gated
  <2> HIDE DEF pc
  <2>2. r \in InstanceStates /\ r.pc = pc /\ r.runId = server /\ server # 0
    BY <2>1, InstanceFacts, RecordFacts
  <2> HIDE DEF r
  <2>3. r.pc \in Gated \ {"publish"} /\ r.pc # "commit1"
    BY <2>1, <2>2 DEF Gated
  <2> QED  BY <1>1, <1>3, <2>2, <2>3, HolderStep
<1> QED  BY <1>2, <1>3 DEF CurrentProcess

LEMMA DecideStep ==
  ASSUME EpochInv, NEW i \in Instances, Decide(i)
  PROVE  EpochInv'
<1>1. /\ inst[i].pc \in Gated /\ UNCHANGED <<server, space, opened, faults>>
      /\ inst[i] \in InstanceStates /\ policy \in Policies
  BY InstanceFacts DEF Decide, Gated
<1>2. control' \in Controls \cup {NoControl}
  BY FreezeFacts, InstanceFacts DEF Decide, RedisTypeOK
<1>3. RedisTypeOK'
  BY <1>1, <1>2, InstanceFacts DEF RedisTypeOK
<1>4. CASE Aborts(i)
  BY <1>1, <1>3, <1>4, AbortsStep
<1>5. ASSUME NEW g \in Generations, g \in {policy.generation, policy.generation + 1},
             Update(i, [inst[i] EXCEPT !.pc = "commit1", !.target = g]),
             UNCHANGED <<gate, policy>>
      PROVE  EpochInv'
  <2> DEFINE r == [inst[i] EXCEPT !.pc = "commit1", !.target = g]
  <2>1. r \in InstanceStates /\ r.pc = "commit1" /\ r.target = g
    BY <1>1 DEF InstanceStates, Gated
  <2> HIDE DEF r
  <2>2. Update(i, r)
    BY <1>5 DEF r
  <2>3. r.pc \in Gated \ {"publish"} /\ r.pc # "init"
    BY <2>1 DEF Gated
  <2> QED  BY <1>1, <1>3, <1>5, <2>1, <2>2, <2>3, HolderStep
<1>6. policy.generation \in Generations
  BY <1>1 DEF Policies
<1> QED  BY <1>4, <1>5, <1>6 DEF Decide

LEMMA Commit1Step ==
  ASSUME EpochInv, NEW i \in Instances, Commit1(i)
  PROVE  EpochInv'
<1>1. /\ gate = i /\ inst[i].target \in Generations /\ Outside(i)
      /\ inst[i].target \in {policy.generation, policy.generation + 1}
  BY InstanceFacts DEF Commit1, StateSound, Outside, Gated, InstanceStates
<1>2. policy' \in Policies /\ OpenedSound' /\ RedisTypeOK'
  <2>1. CASE inst[i].target = policy.generation
    BY <2>1 DEF Commit1, EpochInv, EpochTypeOK, OpenedSound, RedisTypeOK, redisVars
  <2>2. CASE inst[i].target # policy.generation
    <3>1. policy' = Advanced(policy.generation + 1) /\ policy.generation + 1 \in Generations
      BY <1>1, <2>2 DEF Commit1
    <3>2. opened' = opened /\ RedisTypeOK'
      BY InstanceFacts DEF Commit1, redisVars, RedisTypeOK
    <3> QED  BY <3>1, <3>2, AdvancedFacts
  <2> QED  BY <2>1, <2>2
<1>3. Shared(i)
  BY <1>1, <1>2 DEF Commit1, Shared, EpochInv, EpochTypeOK
<1> QED  BY <1>1, <1>3, GoesStep DEF Commit1, PCs, Gated

LEMMA Commit2Step ==
  ASSUME EpochInv, NEW i \in Instances, Commit2(i)
  PROVE  EpochInv'
<1>1. gate = i /\ Outside(i)
  BY InstanceFacts DEF Commit2, Outside, Gated
<1>2. policy' \in Policies /\ OpenedSound' /\ RedisTypeOK'
  BY DEF Commit2, EpochInv, EpochTypeOK, OpenedSound, RedisTypeOK, redisVars, Policies
<1>3. Shared(i)
  BY <1>1, <1>2 DEF Commit2, Shared, EpochInv, EpochTypeOK
<1> QED  BY <1>1, <1>3, GoesStep DEF Commit2, PCs, Gated

LEMMA InitializeStep ==
  ASSUME EpochInv, NEW i \in Instances, Initialize(i)
  PROVE  EpochInv'
<1>1. /\ inst[i].pc \in Gated /\ inst[i].pc = "init" /\ gate = i
      /\ inst[i] \in InstanceStates /\ policy \in Policies /\ inst[i].runId # 0
      /\ opened' = opened /\ UNCHANGED <<server, faults>>
  BY InstanceFacts DEF Initialize, Gated, StateSound, redisVars
<1>2. RedisTypeOK'
  <2>1. CASE UNCHANGED <<control, space>>
    BY <1>1, <2>1, InstanceFacts DEF RedisTypeOK
  <2>2. CASE /\ control' = NewControl(policy.generation, inst[i].runId)
             /\ space' = [space EXCEPT ![policy.generation] = "intact"]
    <3>1. inst[i].runId \in 1..(Faults + 1) /\ policy.generation \in Generations
      BY <1>1, FaultsAssumption DEF InstanceStates, Policies
    <3>2. NewControl(policy.generation, inst[i].runId) \in Controls
      BY <3>1 DEF NewControl, Controls
    <3> QED  BY <1>1, <2>2, <3>1, <3>2, InstanceFacts DEF RedisTypeOK
  <2> QED  BY <2>1, <2>2 DEF Initialize, redisVars
<1>3. CASE Aborts(i)
  BY <1>1, <1>2, <1>3, AbortsStep
<1>4. CASE gate' = Nobody /\ Goes(i, "gate3") /\ UNCHANGED policy
  <2>1. Outside(i) /\ Shared(i)
    BY <1>1, <1>2, <1>4 DEF Outside, Shared, EpochInv, EpochTypeOK, OpenedSound
  <2> QED  BY <1>4, <2>1, GoesStep DEF PCs, Gated
<1>5. CASE Goes(i, "commit2") /\ UNCHANGED <<gate, policy>>
  <2> DEFINE r == [inst[i] EXCEPT !.pc = "commit2"]
  <2>1. r \in InstanceStates /\ r.pc = "commit2" /\ Update(i, r)
    BY <1>1, <1>5, RecordFacts DEF PCs, Gated, Goes
  <2> HIDE DEF r
  <2>2. r.pc \in Gated \ {"publish"} /\ r.pc \notin {"init", "commit1"}
    BY <2>1 DEF Gated
  <2> QED  BY <1>1, <1>2, <1>5, <2>1, <2>2, HolderStep
<1> QED  BY <1>3, <1>4, <1>5 DEF Initialize

LEMMA PublishStep ==
  ASSUME EpochInv, NEW i \in Instances, Publish(i)
  PROVE  EpochInv'
<1>1. /\ inst[i].pc \in Gated /\ gate = i /\ UNCHANGED <<server, space, faults>>
      /\ policy.phase = "open" /\ policy.generation \in Generations
  BY InstanceFacts DEF Publish, Gated, StateSound, Policies
<1>2. CASE Aborts(i) /\ UNCHANGED <<control, opened>>
  BY <1>1, <1>2, AbortsStep, InstanceFacts DEF RedisTypeOK
<1>3. CASE /\ Publishable(policy.generation) /\ control' = [control EXCEPT !.mode = "ready"]
           /\ opened' = opened \cup {policy.generation}
           /\ gate' = Nobody /\ Cleans(i) /\ UNCHANGED policy
  <2>1. control \in Controls /\ [control EXCEPT !.mode = "ready"] \in Controls
    BY <1>3, InstanceFacts DEF RedisTypeOK, Publishable, Controls
  <2>2. RedisTypeOK'
    BY <1>1, <1>3, <2>1, InstanceFacts DEF RedisTypeOK
  <2>3. OpenedSound'
    BY <1>1, <1>3 DEF EpochInv, OpenedSound
  <2>4. Shared(i) /\ Outside(i)
    BY <1>1, <1>3, <2>2, <2>3 DEF Shared, Outside, EpochInv, EpochTypeOK
  <2> QED  BY <1>3, <2>4, EndsStep
<1> QED  BY <1>2, <1>3 DEF Publish

LEMMA OrphansStep ==
  ASSUME EpochInv, NEW i \in Instances, Orphans(i)
  PROVE  EpochInv'
<1>1. inst[i].pc \notin Gated /\ Quiet
  BY DEF Orphans, Gated, Quiet, redisVars
<1>2. CASE Rests(i)
  BY <1>1, <1>2, QuietEndsStep
<1> DEFINE found == {g \in Generations : space[g] # "none"}
           r == [inst[i] EXCEPT !.pc = "gateOrphans", !.keys = found]
<1>3. CASE Update(i, r)
  <2>1. inst[i] \in InstanceStates /\ found \in SUBSET Generations
    BY InstanceFacts
  <2> HIDE DEF found
  <2>2. r \in InstanceStates /\ r.pc = "gateOrphans"
    BY <2>1 DEF InstanceStates
  <2> HIDE DEF r
  <2>3. r.pc \notin Gated /\ r.pc # "unlink"
    BY <2>2 DEF Gated
  <2> QED  BY <1>1, <1>3, <2>2, <2>3, QuietStep
<1> QED  BY <1>2, <1>3 DEF Orphans

LEMMA AdoptedStep ==
  ASSUME EpochInv, NEW i \in Instances, Adopted(i)
  PROVE  EpochInv'
BY QuietEndsStep DEF Adopted, Gated, Quiet, redisVars

----------------------------------------------------------------------------
(* Faults, and the switch of protection.                                   *)

LEMMA FaultFacts ==
  ASSUME EpochInv, Fault
  PROVE  /\ faults' \in [failed : 0..Faults, switched : 0..Switches]
         /\ faults'.failed = faults.failed + 1 /\ faults.failed \in Nat
         /\ faults.failed < Faults
BY FaultsAssumption DEF Fault, EpochInv, EpochTypeOK

\* A connection changes; where the instance is does not.
LEMMA ConnectionStep ==
  ASSUME EpochInv, NEW i \in Instances, NEW r \in InstanceStates, Update(i, r),
         r.pc = inst[i].pc, r.old = inst[i].old, r.keys = inst[i].keys,
         r.target = inst[i].target, r.runId = inst[i].runId,
         UNCHANGED <<policy, gate, server, redisVars>>,
         faults' = faults \/ Fault
  PROVE  EpochInv'
<1>1. Shared(i)
  BY FaultFacts DEF Shared, EpochInv, EpochTypeOK, OpenedSound, RedisTypeOK, redisVars
<1>2. StateSound(r, policy') /\ (r.pc \in Gated <=> gate' = i)
  BY InstanceFacts DEF StateSound
<1> QED  BY <1>1, <1>2, ActorStep

LEMMA DisconnectStep ==
  ASSUME EpochInv, NEW i \in Instances, Disconnect(i)
  PROVE  EpochInv'
<1> DEFINE r == [inst[i] EXCEPT !.up = FALSE]
<1>1. /\ r \in InstanceStates /\ r.pc = inst[i].pc /\ r.old = inst[i].old
      /\ r.keys = inst[i].keys /\ r.target = inst[i].target /\ r.runId = inst[i].runId
  BY InstanceFacts DEF InstanceStates
<1>2. Update(i, r)
  BY DEF Disconnect
<1> HIDE DEF r
<1> QED  BY <1>1, <1>2, ConnectionStep DEF Disconnect

LEMMA ReconnectStep ==
  ASSUME EpochInv, NEW i \in Instances, Reconnect(i)
  PROVE  EpochInv'
<1> DEFINE r == [inst[i] EXCEPT !.up = TRUE, !.ready = FALSE]
<1>1. /\ r \in InstanceStates /\ r.pc = inst[i].pc /\ r.old = inst[i].old
      /\ r.keys = inst[i].keys /\ r.target = inst[i].target /\ r.runId = inst[i].runId
  BY InstanceFacts DEF InstanceStates
<1>2. Update(i, r)
  BY DEF Reconnect
<1> HIDE DEF r
<1> QED  BY <1>1, <1>2, ConnectionStep DEF Reconnect

LEMMA UnavailableStep ==
  ASSUME EpochInv, NEW i \in Instances, Unavailable(i)
  PROVE  EpochInv'
<1> DEFINE r == [inst[i] EXCEPT !.ready = FALSE]
<1>1. /\ r \in InstanceStates /\ r.pc = inst[i].pc /\ r.old = inst[i].old
      /\ r.keys = inst[i].keys /\ r.target = inst[i].target /\ r.runId = inst[i].runId
  BY InstanceFacts DEF InstanceStates
<1>2. Update(i, r)
  BY DEF Unavailable
<1> HIDE DEF r
<1> QED  BY <1>1, <1>2, ConnectionStep DEF Unavailable

LEMMA StartedType == Started \in InstanceStates /\ Started.pc = "idle"
<1>1. FirstPolicy \in Policies /\ 0 \in Generations /\ 0 \in 0..(Faults + 1)
  BY GenerationsAssumption, FaultsAssumption DEF FirstPolicy, Policies
<1> QED  BY <1>1 DEF Started, InstanceStates

LEMMA RestartStep ==
  ASSUME EpochInv, NEW i \in Instances, Restart(i)
  PROVE  EpochInv'
<1>1. Outside(i)
  BY InstanceFacts DEF Restart, Outside
<1>2. Shared(i)
  BY FaultFacts DEF Restart, Shared, EpochInv, EpochTypeOK, OpenedSound, RedisTypeOK, redisVars
<1>3. Started.pc \notin Gated /\ Started.pc # "unlink"
  BY StartedType DEF Gated
<1> QED  BY <1>1, <1>2, <1>3, StartedType, UngatedStep DEF Restart

LEMMA LoseRedisStep ==
  ASSUME EpochInv, LoseRedis
  PROVE  EpochInv'
<1>1. server' \in 1..(Faults + 1) /\ server' <= faults'.failed + 1
  <2>1. /\ server \in Nat /\ server >= 1 /\ server <= faults.failed + 1 /\ server' = server + 1
        /\ faults'.failed = faults.failed + 1 /\ faults.failed \in Nat /\ faults.failed < Faults
        /\ Faults \in Nat
    BY FaultFacts, FaultsAssumption DEF LoseRedis, EpochInv, EpochTypeOK
  <2> QED  BY <2>1
<1>2. ASSUME NEW i \in Instances
      PROVE  /\ inst'[i] \in InstanceStates /\ inst'[i].pc = inst[i].pc
             /\ StateSound(inst'[i], policy)
  <2>1. inst'[i] = [inst[i] EXCEPT !.up = FALSE] /\ inst[i] \in InstanceStates
    BY InstanceFacts DEF LoseRedis
  <2>2. /\ inst'[i] \in InstanceStates /\ inst'[i].pc = inst[i].pc /\ inst'[i].old = inst[i].old
        /\ inst'[i].keys = inst[i].keys /\ inst'[i].target = inst[i].target
        /\ inst'[i].runId = inst[i].runId
    BY <2>1 DEF InstanceStates
  <2> QED  BY <2>2, InstanceFacts DEF StateSound
<1>3. inst' \in [Instances -> InstanceStates]
  BY <1>2 DEF LoseRedis
<1>4. EpochTypeOK'
  BY <1>1, <1>3, FaultFacts DEF LoseRedis, EpochInv, EpochTypeOK
<1>5. ASSUME NEW i \in Instances
      PROVE  InstanceSound(i)'
  BY <1>2, InstanceFacts DEF LoseRedis, InstanceSound
<1>6. OpenedSound'
  BY DEF LoseRedis, EpochInv, OpenedSound
<1> QED  BY <1>1, <1>4, <1>5, <1>6 DEF EpochInv

LEMMA SpoilStep ==
  ASSUME EpochInv, Spoil
  PROVE  EpochInv'
<1>1. control \in Controls /\ UNCHANGED <<policy, gate, server, opened, inst>>
  BY DEF Spoil, EpochInv, EpochTypeOK
<1>2. control' \in Controls
  BY <1>1 DEF Spoil, Controls
<1>3. space' \in [Generations -> {"none", "intact", "damaged", "over"}]
  BY DEF Spoil, EpochInv, EpochTypeOK
<1>4. EpochTypeOK'
  BY <1>1, <1>2, <1>3, FaultFacts DEF Spoil, EpochInv, EpochTypeOK
<1>5. \A i \in Instances : InstanceSound(i)'
  BY <1>1 DEF EpochInv, InstanceSound
<1>6. OpenedSound'
  BY <1>1 DEF EpochInv, OpenedSound
<1>7. server' <= faults'.failed + 1
  BY <1>1, FaultFacts DEF Spoil, EpochInv, EpochTypeOK
<1> QED  BY <1>4, <1>5, <1>6, <1>7 DEF EpochInv

LEMMA SwitchStep ==
  ASSUME EpochInv, Switch
  PROVE  EpochInv'
<1>1. /\ gate = Nobody /\ UNCHANGED <<gate, server, redisVars, inst>>
      /\ policy' = [policy EXCEPT !.protected = ~@]
  BY DEF Switch
<1>2. /\ policy' \in Policies /\ policy'.generation = policy.generation
      /\ policy'.phase = policy.phase
  BY <1>1 DEF EpochInv, EpochTypeOK, Policies
<1>3. /\ faults' \in [failed : 0..Faults, switched : 0..Switches]
      /\ faults'.failed = faults.failed
  BY FaultsAssumption DEF Switch, EpochInv, EpochTypeOK
<1>4. EpochTypeOK'
  BY <1>1, <1>2, <1>3 DEF EpochInv, EpochTypeOK, redisVars
<1>5. ASSUME NEW i \in Instances
      PROVE  InstanceSound(i)'
  <2>1. inst[i].pc \notin Gated /\ StateSound(inst[i], policy)
    BY <1>1, InstanceFacts, NobodyAssumption
  <2>2. StateSound(inst[i], policy')
    BY <2>1 DEF StateSound, Gated
  <2> QED  BY <1>1, <2>1, <2>2, NobodyAssumption DEF InstanceSound
<1>6. OpenedSound'
  BY <1>1, <1>2 DEF EpochInv, OpenedSound, redisVars
<1> QED  BY <1>1, <1>3, <1>4, <1>5, <1>6 DEF EpochInv

----------------------------------------------------------------------------
(* The invariant.                                                          *)

LEMMA InitInv == EpochInit => EpochInv
<1> SUFFICES ASSUME EpochInit
             PROVE  EpochInv
  OBVIOUS
<1>1. FirstPolicy \in Policies /\ 1 \in 1..(Faults + 1) /\ 0 \in 0..Faults /\ 0 \in 0..Switches
  BY GenerationsAssumption, FaultsAssumption DEF FirstPolicy, Policies
<1>2. \A i \in Instances : inst[i] = Started
  BY DEF EpochInit
<1>3. EpochTypeOK
  BY <1>1, StartedType DEF EpochInit, EpochTypeOK
<1>4. \A i \in Instances : InstanceSound(i)
  BY <1>2, StartedType, NobodyAssumption DEF EpochInit, InstanceSound, StateSound, Gated
<1> QED  BY <1>3, <1>4 DEF EpochInit, EpochInv, OpenedSound

LEMMA InvNext == EpochInv /\ [EpochNext]_epochVars => EpochInv'
<1> SUFFICES ASSUME EpochInv, [EpochNext]_epochVars
             PROVE  EpochInv'
  OBVIOUS
<1>1. ASSUME NEW i \in Instances, Step(i)
      PROVE  EpochInv'
  <2>1. CASE Tick(i) \/ Look(i) \/ Serve(i) \/ Doubt(i)
    BY <2>1, TickStep, LookStep, ServeStep, DoubtStep
  <2>2. CASE Clean(i) \/ Scan(i) \/ Unlink(i)
    BY <2>2, CleanStep, ScanStep, UnlinkStep
  <2>3. CASE Recover(i) \/ Released(i)
    BY <2>3, RecoverStep, ReleasedStep
  <2>4. CASE Gate1(i) \/ CurrentProcess(i) \/ Decide(i) \/ Commit1(i)
    BY <2>4, Gate1Step, CurrentProcessStep, DecideStep, Commit1Step
  <2>5. CASE Gate2(i) \/ Initialize(i) \/ Commit2(i)
    BY <2>5, Gate2Step, InitializeStep, Commit2Step
  <2>6. CASE Gate3(i) \/ Publish(i)
    BY <2>6, Gate3Step, PublishStep
  <2>7. CASE Orphans(i) \/ Adopted(i)
    BY <2>7, OrphansStep, AdoptedStep
  <2> QED  BY <1>1, <2>1, <2>2, <2>3, <2>4, <2>5, <2>6, <2>7 DEF Step
<1>2. ASSUME NEW i \in Instances,
             Unavailable(i) \/ Reconnect(i) \/ Disconnect(i) \/ Restart(i)
      PROVE  EpochInv'
  BY <1>2, UnavailableStep, ReconnectStep, DisconnectStep, RestartStep
<1>3. CASE LoseRedis
  BY <1>3, LoseRedisStep
<1>4. CASE Spoil
  BY <1>4, SpoilStep
<1>5. CASE Switch
  BY <1>5, SwitchStep
<1>6. CASE UNCHANGED epochVars
  BY <1>6 DEF epochVars, EpochInv, EpochTypeOK, InstanceSound, OpenedSound
<1> QED  BY <1>1, <1>2, <1>3, <1>4, <1>5, <1>6 DEF EpochNext

\* The gate, the policy and what every instance remembers stay consistent.
THEOREM EpochCorrect == EpochSpec => []EpochInv
<1> QED  BY InitInv, InvNext, PTL DEF EpochSpec

----------------------------------------------------------------------------
(* Properties of steps.                                                    *)

\* Only publish makes a control ready, and it keeps what the policy holds.
LEMMA ReadyOnlyByPublish ==
  ASSUME EpochInv, [EpochNext]_epochVars, ~Ready, Ready'
  PROVE  \E i \in Instances : Publish(i)
<1>1. CASE \E i \in Instances : Step(i)
  <2>1. PICK i \in Instances : Step(i)
    BY <1>1
  <2>2. \A g : ~Freeze(g)
    <3> SUFFICES ASSUME NEW g, Freeze(g)
                 PROVE  FALSE
      OBVIOUS
    <3>1. control # NoControl => [control EXCEPT !.mode = "frozen"].mode = "frozen"
      BY DEF EpochInv, EpochTypeOK, Controls
    <3> QED  BY <3>1 DEF Freeze, Ready
  <2>3. control' # control
    BY DEF Ready
  <2>4. control' # NoControl
    BY DEF Ready
  <2>5. \A g, n : control' # NewControl(g, n)
    BY DEF Ready, NewControl
  <2>6. ~(Tick(i) \/ Look(i) \/ Serve(i) \/ Doubt(i) \/ Clean(i) \/ Scan(i) \/ Unlink(i))
    BY <2>3 DEF Tick, Look, Serve, Doubt, Clean, Scan, Unlink, redisVars
  <2>7. ~(Recover(i) \/ Released(i) \/ Decide(i))
    BY <2>2, <2>3, <2>4 DEF Recover, Released, Decide, Retire, redisVars
  <2>8. ~(Gate1(i) \/ CurrentProcess(i) \/ Commit1(i) \/ Gate2(i) \/ Commit2(i) \/ Gate3(i))
    BY <2>3 DEF Gate1, CurrentProcess, Commit1, Gate2, Commit2, Gate3, redisVars
  <2>9. ~(Initialize(i) \/ Orphans(i) \/ Adopted(i))
    BY <2>3, <2>5 DEF Initialize, Orphans, Adopted, redisVars
  <2> QED  BY <2>1, <2>6, <2>7, <2>8, <2>9 DEF Step
<1>2. CASE \E i \in Instances : Unavailable(i) \/ Reconnect(i) \/ Disconnect(i) \/ Restart(i)
  BY <1>2 DEF Unavailable, Reconnect, Disconnect, Restart, redisVars, Ready
<1>3. CASE LoseRedis
  BY <1>3 DEF LoseRedis, Ready
<1>4. CASE Spoil
  <2>1. control \in Controls
    BY <1>4 DEF Spoil, EpochInv, EpochTypeOK
  <2>2. control' = control \/ control' = [control EXCEPT !.dirty = TRUE]
    BY <1>4 DEF Spoil
  <2>3. control'.mode = control.mode
    BY <2>1, <2>2 DEF Controls
  <2> QED  BY <1>4, <2>3 DEF Spoil, Ready
<1>5. CASE Switch
  BY <1>5 DEF Switch, redisVars, Ready
<1>6. CASE UNCHANGED epochVars
  BY <1>6 DEF epochVars, Ready
<1> QED  BY <1>1, <1>2, <1>3, <1>4, <1>5, <1>6 DEF EpochNext

\* A queue opens only under the gate, for the generation that the policy of a
\* protected event holds open at that moment, however late the publisher is.
THEOREM PublishersInTurn == EpochSpec => NoLatePublisher
<1>1. ASSUME EpochInv, [EpochNext]_epochVars
      PROVE  PublishedInTurn
  <2> SUFFICES ASSUME ~Ready, Ready'
               PROVE  /\ policy.generation = control'.generation
                      /\ policy.phase = "open" /\ policy.protected
    BY DEF PublishedInTurn
  <2>1. PICK i \in Instances : Publish(i)
    BY <1>1, ReadyOnlyByPublish
  <2>2. policy.phase = "open" /\ policy.protected
    BY <1>1, <2>1, InstanceFacts DEF Publish, StateSound, Gated
  <2>3. control' # control
    BY DEF Ready
  <2>4. /\ Publishable(policy.generation)
        /\ control' = [control EXCEPT !.mode = "ready"]
    BY <2>1, <2>3 DEF Publish
  <2>5. control \in Controls /\ control.generation = policy.generation
    BY <1>1, <2>4, InstanceFacts DEF Publishable, RedisTypeOK
  <2>6. control'.generation = control.generation
    BY <2>4, <2>5 DEF Controls
  <2> QED  BY <2>2, <2>5, <2>6
<1> QED  BY <1>1, EpochCorrect, PTL DEF EpochSpec, NoLatePublisher

\* What may happen to the namespace of a generation: a recovery writes it while
\* the policy is recovering in that generation; a release of protection, a
\* cleaning that found it beside the current control, or the loss of Redis
\* deletes it.
LEMMA NamespaceChanges ==
  ASSUME EpochInv, [EpochNext]_epochVars, NEW g \in Generations
  PROVE  /\ space[g] = "none" /\ space'[g] # "none" =>
                policy.phase = "recovering" /\ g = policy.generation
         /\ space[g] # "none" /\ space'[g] = "none" =>
                \/ server' # server
                \/ ~policy.protected
                \/ \E i \in Instances : /\ StateSound(inst[i], policy) /\ inst[i].pc = "unlink"
                                        /\ g \in inst[i].keys
                                        /\ control.generation = inst[i].old.generation
<1>1. space \in [Generations -> {"none", "intact", "damaged", "over"}]
  BY DEF EpochInv, EpochTypeOK
<1>2. CASE \E i \in Instances : Step(i)
  <2>1. PICK i \in Instances : Step(i)
    BY <1>2
  <2>2. CASE UNCHANGED space
    BY <2>2
  <2>3. CASE Unlink(i)
    <3>1. StateSound(inst[i], policy)
      BY InstanceFacts
    <3> QED  BY <1>1, <2>3, <3>1 DEF Unlink
  <2>4. CASE Released(i)
    BY <1>1, <2>4 DEF Released, Retire, redisVars
  <2>5. CASE Initialize(i)
    BY <1>1, <2>5 DEF Initialize, redisVars
  <2>6. \/ UNCHANGED space
        \/ Unlink(i) \/ Released(i) \/ Initialize(i)
    <3>1. Tick(i) \/ Look(i) \/ Serve(i) \/ Doubt(i) \/ Clean(i) \/ Scan(i) => UNCHANGED space
      BY DEF Tick, Look, Serve, Doubt, Clean, Scan, redisVars
    <3>2. Recover(i) \/ Gate1(i) \/ CurrentProcess(i) \/ Decide(i) \/ Commit1(i)
            => UNCHANGED space
      BY DEF Recover, Gate1, CurrentProcess, Decide, Commit1, redisVars
    <3>3. Gate2(i) \/ Commit2(i) \/ Gate3(i) \/ Publish(i) \/ Orphans(i) \/ Adopted(i)
            => UNCHANGED space
      BY DEF Gate2, Commit2, Gate3, Publish, Orphans, Adopted, redisVars
    <3> QED  BY <2>1, <3>1, <3>2, <3>3 DEF Step
  <2> QED  BY <2>2, <2>3, <2>4, <2>5, <2>6
<1>3. CASE \E i \in Instances : Unavailable(i) \/ Reconnect(i) \/ Disconnect(i) \/ Restart(i)
  BY <1>3 DEF Unavailable, Reconnect, Disconnect, Restart, redisVars
<1>4. CASE LoseRedis
  <2>1. server \in Nat
    BY DEF EpochInv, EpochTypeOK
  <2> QED  BY <1>4, <2>1 DEF LoseRedis
<1>5. CASE Spoil
  <2>1. \A h : \A state \in {"damaged", "over"} :
            space' = [space EXCEPT ![h] = state] /\ space[h] = "intact" =>
                (space'[g] = "none" <=> space[g] = "none")
    BY <1>1
  <2> QED  BY <1>5, <2>1 DEF Spoil
<1>6. CASE Switch \/ UNCHANGED epochVars
  BY <1>6 DEF Switch, redisVars, epochVars
<1> QED  BY <1>2, <1>3, <1>4, <1>5, <1>6 DEF EpochNext

\* Nobody's place is forgotten in silence: a generation that was ever open is
\* never written again.
THEOREM NothingStartedOver == EpochSpec => NeverStartedOver
<1>1. ASSUME EpochInv, [EpochNext]_epochVars
      PROVE  WrittenOnce
  <2> SUFFICES ASSUME NEW g \in Generations, space[g] = "none", space'[g] # "none", g \in opened
               PROVE  FALSE
    BY DEF WrittenOnce
  <2>1. policy.phase = "recovering" /\ g = policy.generation
    BY <1>1, NamespaceChanges
  <2>2. g < policy.generation \/ policy.phase = "open"
    BY <1>1 DEF EpochInv, OpenedSound
  <2>3. g \in Nat
    BY GenerationsAssumption
  <2> QED  BY <2>1, <2>2, <2>3
<1> QED  BY <1>1, EpochCorrect, PTL DEF EpochSpec, NeverStartedOver

\* A late cleaning page, or the retirement of orphans, never deletes the
\* namespace of an open queue under protection.
THEOREM OpenNamespaceSafe == EpochSpec => OpenNamespaceKept
<1>1. ASSUME EpochInv, [EpochNext]_epochVars
      PROVE  OpenKept
  <2> SUFFICES ASSUME Ready, policy.protected, space[control.generation] # "none",
                      server' = server, space'[control.generation] = "none"
               PROVE  FALSE
    BY DEF OpenKept
  <2>1. control.generation \in Generations
    BY <1>1 DEF Ready, EpochInv, EpochTypeOK, Controls
  <2>2. PICK i \in Instances : /\ StateSound(inst[i], policy) /\ inst[i].pc = "unlink"
                               /\ control.generation \in inst[i].keys
                               /\ control.generation = inst[i].old.generation
    BY <1>1, <2>1, NamespaceChanges
  <2> QED  BY <2>2 DEF StateSound
<1> QED  BY <1>1, EpochCorrect, PTL DEF EpochSpec, OpenNamespaceKept

=============================================================================
