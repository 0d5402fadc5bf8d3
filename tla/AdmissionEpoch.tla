--------------------------- MODULE AdmissionEpoch ---------------------------
(***************************************************************************)
(* Who may open the queue of a protected event, and when its memory is     *)
(* given up: core/services/admission.service.ts on several instances, one  *)
(* Redis and the event's row of admission_events.                          *)
(*                                                                         *)
(* Redis keeps nothing across a restart.  A recovery runs three            *)
(* transactions under the event's exclusive gate: decide whether the       *)
(* current generation survives or a new one begins, write its namespace    *)
(* and open the policy, publish.  Between and inside them Redis may be     *)
(* replaced, a connection dropped, the instance stopped, another instance  *)
(* may recover as well.  A generation stands for its epoch too: both       *)
(* change together.  The transactions are SERIALIZABLE and read the policy *)
(* FOR UPDATE, so they act on its latest row or begin again.               *)
(***************************************************************************)
EXTENDS Integers

CONSTANTS
    Instances,
    Nobody, NoControl,
    Generations,  \* 0 and what an event's generations may become
    Faults,       \* bounds what goes wrong
    Switches      \* bounds the changes of protection

ASSUME FaultsAssumption == Faults \in Nat /\ Switches \in Nat
ASSUME GenerationsAssumption == Generations \subseteq Nat /\ 0 \in Generations
ASSUME NobodyAssumption == Nobody \notin Instances

VARIABLES
    policy,   \* the event's row of admission_events
    gate,     \* who holds the exclusive event gate
    server,   \* the run id of the Redis process
    control,  \* :control in Redis
    space,    \* the namespace of each generation in Redis
    opened,   \* generations published so far
    inst,     \* what each instance knows and is doing
    faults    \* what went wrong or was switched so far

epochVars == <<policy, gate, server, control, space, opened, inst, faults>>
redisVars == <<control, space, opened>>

Controls == [generation : Generations, mode : {"initializing", "ready", "frozen"},
             runId : 1..(Faults + 1), dirty : BOOLEAN]

Policies ==
    [generation : Generations, phase : {"recovering", "open"}, protected : BOOLEAN]

\* Where an instance is while it holds the gate.
Gated == {"process1", "decide", "commit1", "process2", "init", "commit2", "publish"}

InstanceStates ==
    [pc : Gated \cup {"idle", "look", "serve", "doubt", "clean", "scan", "unlink", "recover",
                      "gate1", "gate2", "gate3", "orphans", "gateOrphans"},
     pol : Policies, old : Controls \cup {NoControl}, target : Generations,
     keys : SUBSET Generations, again : BOOLEAN, up : BOOLEAN, ready : BOOLEAN,
     runId : 0..(Faults + 1)]

EpochTypeOK ==
    /\ policy \in Policies
    /\ gate \in Instances \cup {Nobody}
    /\ server \in 1..(Faults + 1)
    /\ control \in Controls \cup {NoControl}
    /\ space \in [Generations -> {"none", "intact", "damaged", "over"}]
    /\ opened \subseteq Generations
    /\ faults \in [failed : 0..Faults, switched : 0..Switches]
    /\ inst \in [Instances -> InstanceStates]

FirstPolicy == [generation |-> 0, phase |-> "recovering", protected |-> TRUE]

\* Between ticks nothing of a tick is remembered.
Idle(r) == [r EXCEPT !.pc = "idle", !.pol = FirstPolicy, !.old = NoControl, !.target = 0,
                     !.keys = {}, !.again = FALSE]

\* A process that just started: connected, its environment not verified.
Started == [pc |-> "idle", pol |-> FirstPolicy, old |-> NoControl, target |-> 0, keys |-> {},
            again |-> FALSE, up |-> TRUE, ready |-> FALSE, runId |-> 0]

\* Migration 012, with the event's protection just switched on.
EpochInit ==
    /\ policy = FirstPolicy
    /\ gate = Nobody
    /\ server = 1
    /\ control = NoControl
    /\ space = [g \in Generations |-> "none"]
    /\ opened = {}
    /\ inst = [i \in Instances |-> Started]
    /\ faults = [failed |-> 0, switched |-> 0]

----------------------------------------------------------------------------
(* The script's lifecycle operations.                                      *)

\* probe: the generation is there, whole, and of this process.
Intact(g, runId) ==
    /\ control # NoControl
    /\ control.generation = g /\ control.runId = runId
    /\ ~control.dirty
    /\ control.mode \in {"initializing", "ready"}
    /\ space[g] = "intact"

Empty(g) == space[g] = "none"

Freeze(g) ==
    control' = IF control # NoControl /\ control.generation = g
               THEN [control EXCEPT !.mode = "frozen"] ELSE control

NewControl(g, runId) ==
    [generation |-> g, mode |-> "initializing", runId |-> runId, dirty |-> FALSE]

\* initialize accepts a namespace it finds written by the same process and
\* never erases another.
AlreadyInitialized(g, runId) ==
    /\ control # NoControl /\ control.generation = g
    /\ control.runId = runId /\ control.mode # "frozen" /\ ~control.dirty
    /\ space[g] \in {"intact", "over"}

MayInitialize(g) ==
    /\ control # NoControl => control.generation < g
    /\ Empty(g)

Publishable(g) ==
    /\ control # NoControl /\ control.generation = g
    /\ ~control.dirty /\ space[g] \in {"intact", "over"}
    /\ control.mode \in {"initializing", "ready"}

\* Any operation on the queue the control names.
Serves(runId) ==
    /\ control # NoControl /\ control.runId = runId
    /\ control.mode = "ready" /\ ~control.dirty /\ space[control.generation] = "intact"

\* retireAdmission: the control, its namespace and the keys a scan found.
Retire(keys) ==
    /\ control' = NoControl
    /\ space' = [g \in Generations |->
                    IF g \in keys \/ (control # NoControl /\ control.generation = g)
                    THEN "none" ELSE space[g]]
    /\ UNCHANGED opened

----------------------------------------------------------------------------
(* What an instance does next.                                             *)

Update(i, r) == inst' = [inst EXCEPT ![i] = r]
Goes(i, pc) == Update(i, [inst[i] EXCEPT !.pc = pc])
Rests(i) == Update(i, Idle(inst[i]))
Cleans(i) == Update(i, [Idle(inst[i]) EXCEPT !.pc = "clean"])

FailsForGood(i) == Update(i, [Idle(inst[i]) EXCEPT !.ready = FALSE])

\* A failed step of the tick: the first time the event is looked at again,
\* after that, or without protection, the tick ends.
Fails(i) ==
    IF inst[i].again \/ ~inst[i].pol.protected
    THEN Update(i, [Idle(inst[i]) EXCEPT !.ready = FALSE])
    ELSE Update(i, [inst[i] EXCEPT !.pc = "doubt", !.ready = FALSE, !.again = TRUE])

\* The transaction rolls back.
Aborts(i) == gate' = Nobody /\ Fails(i) /\ UNCHANGED policy

Advanced(g) == [policy EXCEPT !.generation = g, !.phase = "recovering"]

\* verifyEnvironment and currentProcess read the process behind the connection.
Verified(i) == [inst[i] EXCEPT !.ready = TRUE, !.runId = server]

----------------------------------------------------------------------------
(* maintain.                                                               *)

\* A tick reads the policy, after verifying the environment if it has to.
Tick(i) ==
    LET me == IF inst[i].ready THEN inst[i] ELSE Verified(i)
    IN  /\ inst[i].pc = "idle"
        /\ inst[i].ready \/ inst[i].up
        /\ Update(i, [me EXCEPT !.pol = policy,
                                !.pc = IF policy.protected THEN "look"
                                       ELSE IF policy.phase = "open" THEN "gate1" ELSE "orphans"])
        /\ UNCHANGED <<policy, gate, server, redisVars, faults>>

\* The control is read after the policy: one that disagrees with it may be a
\* newer recovery's, so it is not taken for an observation of a loss.
Look(i) ==
    LET seen == IF inst[i].up THEN control ELSE NoControl
        agrees == /\ seen # NoControl
                  /\ seen.generation = inst[i].pol.generation
                  /\ inst[i].pol.phase = "open"
        observed == IF agrees THEN seen ELSE NoControl
    IN  /\ inst[i].pc = "look"
        /\ Update(i, [inst[i] EXCEPT
               !.old = observed,
               !.pc = IF agrees /\ seen.runId = inst[i].runId /\ seen.mode = "ready"
                      THEN "serve" ELSE "recover"])
        /\ UNCHANGED <<policy, gate, server, redisVars, faults>>

\* promote and reconcile, on whatever control is there now.
Serve(i) ==
    /\ inst[i].pc = "serve"
    /\ IF inst[i].up /\ inst[i].ready /\ Serves(inst[i].runId) THEN Cleans(i) ELSE Fails(i)
    /\ UNCHANGED <<policy, gate, server, redisVars, faults>>

\* A failed command is not evidence of loss: the namespace is looked at again.
Doubt(i) ==
    LET pol == inst[i].pol
    IN  /\ inst[i].pc = "doubt"
        /\ IF ~inst[i].up
           THEN Fails(i)
           ELSE IF /\ pol.phase = "open" /\ Intact(pol.generation, server)
                   /\ control.mode = "ready"
                THEN Update(i, [Idle(Verified(i)) EXCEPT !.pc = "clean"])
                ELSE Update(i, [Verified(i) EXCEPT !.pc = "recover"])
        /\ UNCHANGED <<policy, gate, server, redisVars, faults>>

\* cleanRetired reads the control ...
Clean(i) ==
    /\ inst[i].pc = "clean"
    /\ IF inst[i].up /\ control # NoControl /\ control.mode = "ready"
       THEN Update(i, [inst[i] EXCEPT !.pc = "scan", !.old = control])
       ELSE Rests(i)
    /\ UNCHANGED <<policy, gate, server, redisVars, faults>>

\* ... then a page of keys, which a recovery may have written since ...
Scan(i) ==
    /\ inst[i].pc = "scan"
    /\ IF inst[i].up
       THEN Update(i, [inst[i] EXCEPT
                !.pc = "unlink",
                !.keys = {g \in Generations \ {inst[i].old.generation} : space[g] # "none"}])
       ELSE Rests(i)
    /\ UNCHANGED <<policy, gate, server, redisVars, faults>>

UnlinkScanned(i) ==
    /\ inst[i].pc = "unlink"
    /\ space' = IF inst[i].up
                THEN [g \in Generations |-> IF g \in inst[i].keys THEN "none" ELSE space[g]]
                ELSE space
    /\ Rests(i)
    /\ UNCHANGED <<policy, gate, server, control, opened, faults>>

\* ... and unlinks them while the control is still the one it read.
Unlink(i) ==
    /\ inst[i].pc = "unlink"
    /\ space' = IF /\ inst[i].up /\ control # NoControl /\ control.mode = "ready"
                   /\ control.generation = inst[i].old.generation
                THEN [g \in Generations |-> IF g \in inst[i].keys THEN "none" ELSE space[g]]
                ELSE space
    /\ Rests(i)
    /\ UNCHANGED <<policy, gate, server, control, opened, faults>>

----------------------------------------------------------------------------
(* recover.                                                                *)

\* What was observed is frozen, unless it is an interrupted publication.
Recover(i) ==
    LET old == inst[i].old
    IN  /\ inst[i].pc = "recover"
        /\ IF ~inst[i].ready /\ ~inst[i].up
           THEN Fails(i) /\ UNCHANGED control
           ELSE /\ Update(i, [IF inst[i].ready THEN inst[i] ELSE Verified(i) EXCEPT !.pc = "gate1"])
                /\ IF inst[i].up /\ old # NoControl /\ old.mode # "initializing"
                   THEN Freeze(old.generation) ELSE UNCHANGED control
        /\ UNCHANGED <<policy, gate, server, space, opened, faults>>

\* The barrier of a policy whose protection was released: its namespace is
\* retired and an open policy leaves its epoch, unless the COMMIT fails.
Released(i) ==
    /\ inst[i].pc \in {"gate1", "gate2", "gate3", "gateOrphans"}
    /\ gate = Nobody
    /\ ~policy.protected
    /\ IF inst[i].up
       THEN /\ Retire(inst[i].keys)
            /\ \/ /\ policy.phase = "open" /\ policy.generation + 1 \in Generations
                  /\ policy' = Advanced(policy.generation + 1)
               \/ policy.phase = "recovering" /\ UNCHANGED policy
            /\ Rests(i)
       ELSE UNCHANGED <<policy, redisVars>> /\ Fails(i)
    /\ UNCHANGED <<gate, server, faults>>

TakeGate(i, pc) == gate' = i /\ Goes(i, pc)

Gate1(i) ==
    /\ inst[i].pc = "gate1"
    /\ gate = Nobody /\ policy.protected
    /\ TakeGate(i, "process1")
    /\ UNCHANGED <<policy, server, redisVars, faults>>

\* currentProcess, once the gate is held.
CurrentProcess(i) ==
    /\ inst[i].pc \in {"process1", "process2"}
    /\ IF inst[i].up
       THEN /\ Update(i, [Verified(i) EXCEPT
                   !.pc = IF inst[i].pc = "process1" THEN "decide" ELSE "init"])
            /\ UNCHANGED <<gate, policy>>
       ELSE Aborts(i)
    /\ UNCHANGED <<server, redisVars, faults>>

\* The generation survives if its namespace is whole and not the one seen
\* lost, or was never written; otherwise it is frozen and left.
Decide(i) ==
    LET old == inst[i].old
        g == policy.generation
        followed == old # NoControl /\ old.generation # g
        resume == /\ Intact(g, inst[i].runId)
                  /\ followed \/ old = NoControl \/ old.mode = "initializing"
        first == /\ policy.phase = "recovering" /\ Empty(g)
                 /\ old = NoControl \/ ~old.dirty \/ followed
    IN  /\ inst[i].pc = "decide"
        /\ IF ~inst[i].up
           THEN Aborts(i) /\ UNCHANGED control
           ELSE /\ IF resume \/ first
                   THEN /\ UNCHANGED control
                        /\ Update(i, [inst[i] EXCEPT !.pc = "commit1", !.target = g])
                   ELSE /\ g + 1 \in Generations
                        /\ Freeze(g)
                        /\ Update(i, [inst[i] EXCEPT !.pc = "commit1", !.target = g + 1])
                /\ UNCHANGED <<gate, policy>>
        /\ UNCHANGED <<server, space, opened, faults>>

Commit1(i) ==
    /\ inst[i].pc = "commit1"
    /\ policy' = IF inst[i].target = policy.generation THEN policy ELSE Advanced(inst[i].target)
    /\ gate' = Nobody
    /\ Goes(i, "gate2")
    /\ UNCHANGED <<server, redisVars, faults>>

\* A policy that moved on meanwhile is another's recovery: nothing more to do.
Gate2(i) ==
    /\ inst[i].pc = "gate2"
    /\ gate = Nobody /\ policy.protected
    /\ IF policy.generation = inst[i].target
       THEN TakeGate(i, "process2")
       ELSE Cleans(i) /\ UNCHANGED gate
    /\ UNCHANGED <<policy, server, redisVars, faults>>

InitializeAgain(i) ==
    LET g == policy.generation
    IN  /\ inst[i].pc = "init"
        /\ \/ ~inst[i].up /\ Aborts(i) /\ UNCHANGED redisVars
           \/ /\ inst[i].up
              /\ UNCHANGED <<policy, opened>>
              /\ Goes(i, "commit2") /\ UNCHANGED gate
              /\ IF AlreadyInitialized(g, inst[i].runId) THEN UNCHANGED <<control, space>>
                 ELSE /\ control' = NewControl(g, inst[i].runId)
                      /\ space' = [space EXCEPT ![g] = "intact"]
        /\ UNCHANGED <<server, faults>>

\* An open generation was written before: it is whole, or the attempt fails.
\* One still recovering is written now; the connection must still be the one
\* the process was read on (ready) for the policy to open.
Initialize(i) ==
    LET g == policy.generation
        opens == IF inst[i].ready THEN Goes(i, "commit2") /\ UNCHANGED <<gate, policy>>
                 ELSE Aborts(i)
    IN  /\ inst[i].pc = "init"
        /\ \/ ~inst[i].up /\ Aborts(i) /\ UNCHANGED redisVars
           \/ /\ inst[i].up /\ policy.phase = "open"
              /\ IF Intact(g, inst[i].runId)
                 THEN gate' = Nobody /\ Goes(i, "gate3") /\ UNCHANGED policy
                 ELSE Aborts(i)
              /\ UNCHANGED redisVars
           \/ /\ inst[i].up /\ policy.phase = "recovering"
              /\ UNCHANGED opened
              /\ \/ /\ AlreadyInitialized(g, inst[i].runId)
                    /\ UNCHANGED <<control, space>> /\ opens
                 \/ /\ MayInitialize(g)
                    /\ control' = NewControl(g, inst[i].runId)
                    /\ space' = [space EXCEPT ![g] = "intact"]
                    /\ opens
                 \/ /\ ~AlreadyInitialized(g, inst[i].runId) /\ ~MayInitialize(g)
                    /\ UNCHANGED <<control, space>> /\ Aborts(i)
        /\ UNCHANGED <<server, faults>>

Commit2(i) ==
    /\ inst[i].pc = "commit2"
    /\ policy' = [policy EXCEPT !.phase = "open"]
    /\ gate' = Nobody
    /\ Goes(i, "gate3")
    /\ UNCHANGED <<server, redisVars, faults>>

Gate3Unprotected(i) ==
    /\ inst[i].pc = "gate3"
    /\ gate = Nobody
    /\ IF policy.generation = inst[i].target /\ policy.phase = "open"
       THEN TakeGate(i, "publish")
       ELSE Cleans(i) /\ UNCHANGED gate
    /\ UNCHANGED <<policy, server, redisVars, faults>>

\* Not the transaction of the opening: the gate is waited for again.
Gate3(i) ==
    /\ inst[i].pc = "gate3"
    /\ gate = Nobody /\ policy.protected
    /\ IF policy.generation = inst[i].target /\ policy.phase = "open"
       THEN TakeGate(i, "publish")
       ELSE Cleans(i) /\ UNCHANGED gate
    /\ UNCHANGED <<policy, server, redisVars, faults>>

Publish(i) ==
    LET g == policy.generation
    IN  /\ inst[i].pc = "publish"
        /\ IF inst[i].up /\ Publishable(g)
           THEN /\ control' = [control EXCEPT !.mode = "ready"]
                /\ opened' = opened \cup {g}
                /\ gate' = Nobody /\ Cleans(i) /\ UNCHANGED policy
           ELSE UNCHANGED <<control, opened>> /\ Aborts(i)
        /\ UNCHANGED <<server, space, faults>>

\* retireOrphans: a page of keys that no protected policy owned at the tick.
Orphans(i) ==
    /\ inst[i].pc = "orphans"
    /\ IF inst[i].up /\ (control # NoControl \/ \E g \in Generations : space[g] # "none")
       THEN Update(i, [inst[i] EXCEPT !.pc = "gateOrphans",
                                      !.keys = {g \in Generations : space[g] # "none"}])
       ELSE Rests(i)
    /\ UNCHANGED <<policy, gate, server, redisVars, faults>>

\* Protected again by now: they have an owner.
Adopted(i) ==
    /\ inst[i].pc = "gateOrphans"
    /\ gate = Nobody /\ policy.protected
    /\ Rests(i)
    /\ UNCHANGED <<policy, gate, server, redisVars, faults>>

----------------------------------------------------------------------------
(* What users do meanwhile.                                                *)

\* A request finds no queue of a protected event, or one that does not serve: it is answered
\* 503, and the instance trusts Redis no more.  It is only here that anything depends on it:
\* a tick that is serving fails for the same reason, any other verifies the process first.
Unavailable(i) ==
    /\ inst[i].pc = "recover" /\ inst[i].ready
    /\ inst[i].up => IF control = NoControl THEN policy.protected ELSE ~Serves(inst[i].runId)
    /\ Update(i, [inst[i] EXCEPT !.ready = FALSE])
    /\ UNCHANGED <<policy, gate, server, redisVars, faults>>

----------------------------------------------------------------------------
(* Faults, and the switch of protection.                                   *)

Fault == faults.failed < Faults /\ faults' = [faults EXCEPT !.failed = @ + 1]

\* The Redis process is replaced by an empty one.
LoseRedis ==
    /\ Fault
    /\ server' = server + 1
    /\ control' = NoControl
    /\ space' = [g \in Generations |-> "none"]
    /\ inst' = [i \in Instances |-> [inst[i] EXCEPT !.up = FALSE]]
    /\ UNCHANGED <<policy, gate, opened>>

\* A connection is lost, or retired after five seconds without an answer.
Disconnect(i) ==
    /\ Fault
    /\ inst[i].up
    /\ Update(i, [inst[i] EXCEPT !.up = FALSE])
    /\ UNCHANGED <<policy, gate, server, redisVars>>

\* A new connection makes what was verified on the old one void.
Reconnect(i) ==
    /\ ~inst[i].up
    /\ Update(i, [inst[i] EXCEPT !.up = TRUE, !.ready = FALSE])
    /\ UNCHANGED <<policy, gate, server, redisVars, faults>>

\* Keys disappear, a script fails halfway, or the session's endAt comes.
Spoil ==
    /\ Fault
    /\ control # NoControl
    /\ \/ \E state \in {"damaged", "over"} :
              /\ space[control.generation] = "intact"
              /\ space' = [space EXCEPT ![control.generation] = state]
              /\ UNCHANGED control
       \/ ~control.dirty /\ control' = [control EXCEPT !.dirty = TRUE] /\ UNCHANGED space
    /\ UNCHANGED <<policy, gate, server, opened, inst>>

\* The instance stops and starts again; its transaction rolls back.
Restart(i) ==
    /\ Fault
    /\ inst[i].pc # "idle"
    /\ Update(i, Started)
    /\ gate' = IF gate = i THEN Nobody ELSE gate
    /\ UNCHANGED <<policy, server, redisVars>>

\* Protection is switched by an UPDATE of the row, which the gate's holder has locked.
Switch ==
    /\ faults.switched < Switches
    /\ faults' = [faults EXCEPT !.switched = @ + 1]
    /\ gate = Nobody
    /\ policy' = [policy EXCEPT !.protected = ~@]
    /\ UNCHANGED <<gate, server, redisVars, inst>>

----------------------------------------------------------------------------
Step(i) ==
    \/ Tick(i) \/ Look(i) \/ Serve(i) \/ Doubt(i)
    \/ Clean(i) \/ Scan(i) \/ Unlink(i)
    \/ Recover(i) \/ Released(i)
    \/ Gate1(i) \/ CurrentProcess(i) \/ Decide(i) \/ Commit1(i)
    \/ Gate2(i) \/ Initialize(i) \/ Commit2(i)
    \/ Gate3(i) \/ Publish(i)
    \/ Orphans(i) \/ Adopted(i)

EpochNext ==
    \/ \E i \in Instances :
           Step(i) \/ Unavailable(i) \/ Reconnect(i) \/ Disconnect(i) \/ Restart(i)
    \/ LoseRedis
    \/ Spoil
    \/ Switch

EpochSpec == EpochInit /\ [][EpochNext]_epochVars

\* The scheduler runs maintain again and again; the client reconnects.
FairEpochSpec ==
    /\ EpochSpec
    /\ \A i \in Instances : WF_epochVars(Step(i)) /\ WF_epochVars(Reconnect(i))

----------------------------------------------------------------------------
(* Properties.                                                             *)

Ready == control # NoControl /\ control.mode = "ready"

PublishedInTurn ==
    ~Ready /\ Ready' =>
        /\ policy.generation = control'.generation
        /\ policy.phase = "open" /\ policy.protected

\* However late a publisher is, it opens only the generation the policy holds
\* open at that moment, under protection.
NoLatePublisher == [][PublishedInTurn]_epochVars

WrittenOnce ==
    \A g \in Generations : space[g] = "none" /\ space'[g] # "none" => g \notin opened

\* A generation that was open is never started over with an empty queue: who
\* joined it is told of a reset, never silently forgotten.
NeverStartedOver == [][WrittenOnce]_epochVars

OpenKept ==
    Ready /\ policy.protected /\ space[control.generation] # "none"
        => server' # server \/ space'[control.generation] # "none"

\* No cleaning deletes the namespace of an open queue under protection: only
\* the loss of Redis does.
OpenNamespaceKept == [][OpenKept]_epochVars

\* Once faults stop, the queue of a protected event is open and whole again.
Reopens == policy.protected ~> (~policy.protected \/ Serves(server))
=============================================================================
