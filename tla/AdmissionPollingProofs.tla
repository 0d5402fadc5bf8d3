----------------------- MODULE AdmissionPollingProofs -----------------------
(***************************************************************************)
(* Proofs about AdmissionPolling for every number of entries, epochs,      *)
(* keys and automatic repeats.  SoundTab says how the controller's own     *)
(* fields fit together; PollingInv relates them to the queue and to the    *)
(* purchases whose outcome is open.                                        *)
(***************************************************************************)
EXTENDS AdmissionPolling, SequenceTheorems, TLAPS

Exchange == UNION {Exchanges(kind) : kind \in Kinds}
Tabs == Controllers(Exchange \cup {None})

\* An exchange without an answer that asks for the place.
NewRead(x) == x # None /\ x.kind = "status" /\ x.answer = None

\* The exchange is about what the tab shows, or about its purchase.
Flown(c) ==
    c.flight # None =>
        /\ c.flight.current
        /\ c.flight.kind = "purchase" =>
               c.purchase # None /\ c.purchase.body = c.flight.argument
        /\ c.flight.kind = "cancel" =>
               c.entry # None /\ c.flight.argument = c.entry.id
        /\ c.flight.kind = "join" =>
               /\ c.intent # None
               /\ c.intent.epoch = c.epoch
               /\ c.flight.argument.epoch = c.intent.epoch
               /\ c.flight.argument.key = c.intent.key

\* The wait after a failure lets only purchases out.
Waits(c) ==
    /\ c.held /\ c.flight # None => c.flight.kind = "purchase"
    /\ c.timer = "any" => ~c.held

Phased(c) == c.phase \in States => c.entry # None /\ c.entry.state = c.phase

\* A key is of the entry its attempt started from.
Intended(c) ==
    c.intent # None =>
        /\ c.intent.epoch <= c.epoch
        /\ c.intent.epoch = c.epoch /\ c.entry # None => c.entry.id = c.intent.from

SoundTab(c) == c \in Tabs /\ Flown(c) /\ Waits(c) /\ Phased(c) /\ Intended(c)

\* What the controller knows of the queue and of its purchase stays.
Stays(c, d) ==
    /\ d.epoch = c.epoch
    /\ d.entry = c.entry
    /\ d.intent = c.intent
    /\ d.purchase = c.purchase

----------------------------------------------------------------------------
(* The exchanges.                                                          *)

LEMMA ExchangeFacts ==
  ASSUME NEW x \in Exchange
  PROVE  /\ x.kind \in Kinds
         /\ x \in Exchanges(x.kind)
         /\ x # None
         /\ x.argument \in Arguments(x.kind)
         /\ x.answer \in AnswersTo(x.kind) \cup {None}
         /\ x.current \in BOOLEAN
<1>1. PICK kind \in Kinds : x \in Exchanges(kind)
  BY DEF Exchange
<1>2. x.kind = kind
  BY <1>1 DEF Exchanges
<1>3. x # None
  BY <1>1, NoneAssumption
<1> QED  BY <1>1, <1>2, <1>3 DEF Exchanges

LEMMA ExchangeOfKind ==
  ASSUME NEW kind \in Kinds, NEW argument \in Arguments(kind)
  PROVE  LET x == [kind |-> kind, argument |-> argument, answer |-> None, current |-> TRUE]
         IN  x \in Exchange
<1> DEFINE x == [kind |-> kind, argument |-> argument, answer |-> None, current |-> TRUE]
<1>1. x \in Exchanges(kind)
  BY DEF Exchanges
<1> HIDE DEF x
<1>2. x \in Exchange
  BY <1>1 DEF Exchange
<1> QED  BY <1>2 DEF x

\* The same exchange with an answer, or abandoned.
LEMMA ExchangeKept ==
  ASSUME NEW x \in Exchange, NEW answer \in AnswersTo(x.kind), NEW current \in BOOLEAN
  PROVE  /\ [x EXCEPT !.answer = answer] \in Exchange
         /\ [x EXCEPT !.current = current] \in Exchange
<1> DEFINE y == [x EXCEPT !.answer = answer]
           z == [x EXCEPT !.current = current]
<1>1. x.kind \in Kinds /\ x \in Exchanges(x.kind)
  BY ExchangeFacts
<1>2. y \in Exchanges(x.kind) /\ z \in Exchanges(x.kind)
  BY <1>1 DEF Exchanges
<1> HIDE DEF y, z
<1>3. y \in Exchange /\ z \in Exchange
  BY <1>1, <1>2 DEF Exchange
<1> QED  BY <1>3 DEF y, z

----------------------------------------------------------------------------
(* The controller's small steps.                                           *)

LEMMA TabFields ==
  ASSUME NEW c \in Tabs
  PROVE  /\ c.flight \in Exchange \cup {None}
         /\ c.epoch \in 0..MaxEpoch
         /\ c.entry \in Places \cup {None}
         /\ c.intent \in Intents \cup {None}
         /\ c.purchase \in Purchases \cup {None}
         /\ c.held \in BOOLEAN
         /\ c.timer \in {"none", "any", "wait"}
BY DEF Tabs, Controllers

LEMMA DropSound ==
  ASSUME NEW c, SoundTab(c)
  PROVE  /\ SoundTab(Drop(c))
         /\ Stays(c, Drop(c))
         /\ Drop(c).flight = None
         /\ Drop(c).held = c.held
         /\ Drop(c).phase = c.phase
<1> DEFINE d == Drop(c)
<1>1. d \in Tabs
  BY DEF SoundTab, Drop, Tabs, Controllers
<1>2. /\ Stays(c, d)
      /\ d.flight = None
      /\ d.held = c.held
      /\ d.timer = c.timer
      /\ d.phase = c.phase
  BY DEF SoundTab, Drop, Stays, Tabs, Controllers
<1> HIDE DEF d
<1>3. SoundTab(d)
  BY <1>1, <1>2 DEF SoundTab, Stays, Flown, Waits, Phased, Intended
<1> QED  BY <1>2, <1>3 DEF d

\* A timer, and an error wait that is over or begins.
LEMMA TimerSound ==
  ASSUME NEW c, SoundTab(c), NEW due \in {"none", "any", "wait"}, due = "any" => ~c.held
  PROVE  LET d == [c EXCEPT !.timer = due]
         IN  /\ SoundTab(d)
             /\ Stays(c, d)
             /\ d.flight = c.flight
             /\ d.held = c.held
             /\ d.phase = c.phase
<1> DEFINE d == [c EXCEPT !.timer = due]
<1>1. d \in Tabs
  BY DEF SoundTab, Tabs, Controllers
<1>2. /\ Stays(c, d)
      /\ d.flight = c.flight
      /\ d.held = c.held
      /\ d.timer = due
      /\ d.phase = c.phase
  BY DEF SoundTab, Stays, Tabs, Controllers
<1> HIDE DEF d
<1>3. SoundTab(d)
  BY <1>1, <1>2 DEF SoundTab, Stays, Flown, Waits, Phased, Intended
<1> QED  BY <1>2, <1>3 DEF d

LEMMA RecoveredSound ==
  ASSUME NEW c, SoundTab(c)
  PROVE  /\ SoundTab(Recovered(c))
         /\ Stays(c, Recovered(c))
         /\ Recovered(c).flight = c.flight
         /\ ~Recovered(c).held
         /\ Recovered(c).phase = c.phase
<1> DEFINE d == Recovered(c)
<1>1. d \in Tabs
  BY DEF SoundTab, Recovered, Tabs, Controllers
<1>2. /\ Stays(c, d)
      /\ d.flight = c.flight
      /\ d.held = FALSE
      /\ d.timer = c.timer
      /\ d.phase = c.phase
  BY DEF SoundTab, Recovered, Stays, Tabs, Controllers
<1> HIDE DEF d
<1>3. SoundTab(d)
  BY <1>1, <1>2 DEF SoundTab, Stays, Flown, Waits, Phased, Intended
<1> QED  BY <1>2, <1>3 DEF d

LEMMA FailSound ==
  ASSUME NEW c, SoundTab(c), c.flight = None
  PROVE  /\ SoundTab(Fail(c))
         /\ Stays(c, Fail(c))
         /\ Fail(c).flight = None
<1> DEFINE d == Fail(c)
<1>1. d \in Tabs
  BY DEF SoundTab, Fail, Tabs, Controllers
<1>2. /\ Stays(c, d)
      /\ d.flight = None
      /\ d.timer = "wait"
      /\ d.phase = c.phase
  BY DEF SoundTab, Fail, Stays, Tabs, Controllers
<1> HIDE DEF d
<1>3. SoundTab(d)
  BY <1>1, <1>2 DEF SoundTab, Stays, Flown, Waits, Phased, Intended
<1> QED  BY <1>2, <1>3 DEF d

LEMMA StopsSound ==
  ASSUME NEW c, SoundTab(c)
  PROVE  /\ SoundTab(Stops(c))
         /\ Stays(c, Stops(c))
         /\ Stops(c).flight = c.flight
<1> DEFINE d == Stops(c)
<1>1. d \in Tabs
  BY DEF SoundTab, Stops, Tabs, Controllers
<1>2. /\ Stays(c, d)
      /\ d.flight = c.flight
      /\ d.held = c.held
      /\ d.timer = c.timer
      /\ d.phase = c.phase
  BY DEF SoundTab, Stops, Stays, Tabs, Controllers
<1> HIDE DEF d
<1>3. SoundTab(d)
  BY <1>1, <1>2 DEF SoundTab, Stays, Flown, Waits, Phased, Intended
<1> QED  BY <1>2, <1>3 DEF d

\* A button's own request is over, or begins.
LEMMA BusySound ==
  ASSUME NEW c, SoundTab(c), NEW busy \in BOOLEAN
  PROVE  LET d == [c EXCEPT !.busy = busy]
         IN  /\ SoundTab(d)
             /\ Stays(c, d)
             /\ d.flight = c.flight
             /\ d.held = c.held
             /\ d.phase = c.phase
<1> DEFINE d == [c EXCEPT !.busy = busy]
<1>1. d \in Tabs
  BY DEF SoundTab, Tabs, Controllers
<1>2. /\ Stays(c, d)
      /\ d.flight = c.flight
      /\ d.held = c.held
      /\ d.timer = c.timer
      /\ d.phase = c.phase
  BY DEF SoundTab, Stays, Tabs, Controllers
<1> HIDE DEF d
<1>3. SoundTab(d)
  BY <1>1, <1>2 DEF SoundTab, Stays, Flown, Waits, Phased, Intended
<1> QED  BY <1>2, <1>3 DEF d

\* The key of a join is forgotten.
LEMMA ForgetSound ==
  ASSUME NEW c, SoundTab(c), c.flight = None
  PROVE  LET d == [c EXCEPT !.intent = None]
         IN  /\ SoundTab(d)
             /\ d.epoch = c.epoch
             /\ d.entry = c.entry
             /\ d.purchase = c.purchase
             /\ d.intent = None
             /\ d.flight = None
             /\ d.held = c.held
<1> DEFINE d == [c EXCEPT !.intent = None]
<1>1. d \in Tabs
  BY DEF SoundTab, Tabs, Controllers
<1>2. /\ d.epoch = c.epoch
      /\ d.entry = c.entry
      /\ d.purchase = c.purchase
      /\ d.intent = None
      /\ d.flight = None
      /\ d.held = c.held
      /\ d.timer = c.timer
      /\ d.phase = c.phase
  BY DEF SoundTab, Tabs, Controllers
<1> HIDE DEF d
<1>3. SoundTab(d)
  BY <1>1, <1>2 DEF SoundTab, Flown, Waits, Phased, Intended
<1> QED  BY <1>2, <1>3 DEF d

\* The record of the purchase begins, ends, or is told its status.
LEMMA PurchaseSound ==
  ASSUME NEW c, SoundTab(c), NEW p \in Purchases \cup {None},
         \/ c.flight = None
         \/ p # None /\ c.purchase # None /\ p.body = c.purchase.body
  PROVE  LET d == [c EXCEPT !.purchase = p]
         IN  /\ SoundTab(d)
             /\ d.epoch = c.epoch
             /\ d.entry = c.entry
             /\ d.intent = c.intent
             /\ d.purchase = p
             /\ d.flight = c.flight
             /\ d.held = c.held
             /\ d.phase = c.phase
<1> DEFINE d == [c EXCEPT !.purchase = p]
<1>1. d \in Tabs
  BY DEF SoundTab, Tabs, Controllers
<1>2. /\ d.epoch = c.epoch
      /\ d.entry = c.entry
      /\ d.intent = c.intent
      /\ d.purchase = p
      /\ d.flight = c.flight
      /\ d.held = c.held
      /\ d.timer = c.timer
      /\ d.phase = c.phase
  BY DEF SoundTab, Tabs, Controllers
<1> HIDE DEF d
<1>3. SoundTab(d)
  BY <1>1, <1>2 DEF SoundTab, Flown, Waits, Phased, Intended
<1> QED  BY <1>2, <1>3 DEF d

\* An exchange begins, about what the tab holds.
Fits(c, kind, argument) ==
    /\ kind \in Kinds
    /\ argument \in Arguments(kind)
    /\ c.held => kind = "purchase"
    /\ kind = "purchase" => c.purchase # None /\ c.purchase.body = argument
    /\ kind = "cancel" => c.entry # None /\ argument = c.entry.id
    /\ kind = "join" => /\ c.intent # None
                        /\ c.intent.epoch = c.epoch
                        /\ argument = [epoch |-> c.intent.epoch, key |-> c.intent.key]

LEMMA SendSound ==
  ASSUME NEW c, SoundTab(c), NEW kind, NEW argument, Fits(c, kind, argument)
  PROVE  LET d == Send(c, kind, argument)
         IN  /\ SoundTab(d)
             /\ Stays(c, d)
             /\ d.flight \in Exchange
             /\ d.flight.kind = kind
             /\ d.flight.argument = argument
             /\ d.flight.answer = None
<1> DEFINE x == [kind |-> kind, argument |-> argument, answer |-> None, current |-> TRUE]
           d == [c EXCEPT !.flight = x]
<1>1. /\ x \in Exchange
      /\ x.kind = kind
      /\ x.argument = argument
      /\ x.answer = None
      /\ x.current
  BY ExchangeOfKind DEF Fits
<1>2. kind = "join" => argument.epoch = c.intent.epoch /\ argument.key = c.intent.key
  BY DEF Fits
<1> HIDE DEF x
<1>3. d \in Tabs
  BY <1>1 DEF SoundTab, Tabs, Controllers
<1>4. /\ Stays(c, d)
      /\ d.flight = x
      /\ d.held = c.held
      /\ d.timer = c.timer
      /\ d.phase = c.phase
  BY DEF SoundTab, Stays, Tabs, Controllers
<1>5. d = Send(c, kind, argument)
  BY DEF Send, x
<1> HIDE DEF d
<1>6. SoundTab(d)
  BY <1>1, <1>2, <1>3, <1>4 DEF SoundTab, Fits, Stays, Flown, Waits, Phased, Intended
<1> QED  BY <1>1, <1>4, <1>5, <1>6

\* Nothing is sent but, when the tab is free, a read.
Reads(c, d) ==
    /\ SoundTab(d)
    /\ Stays(c, d)
    /\ d.flight = c.flight \/ NewRead(d.flight)

LEMMA PollReads ==
  ASSUME NEW c, SoundTab(c), ~c.held
  PROVE  Reads(c, Poll(c))
<1>1. CASE c.flight # None \/ Purchasing(c)
  BY <1>1 DEF Poll, Reads, Stays
<1>2. CASE ~(c.flight # None \/ Purchasing(c))
  <2> DEFINE u == [c EXCEPT !.timer = "none"]
  <2>1. /\ SoundTab(u)
        /\ Stays(c, u)
        /\ u.flight = c.flight
        /\ u.held = c.held
    BY TimerSound
  <2>2. Poll(c) = Send(u, "status", None)
    BY <1>2 DEF Poll, Unschedule
  <2> HIDE DEF u
  <2>3. Fits(u, "status", None)
    BY <2>1 DEF Fits, Kinds, Arguments
  <2> DEFINE d == Send(u, "status", None)
  <2>4. /\ SoundTab(d)
        /\ Stays(u, d)
        /\ d.flight \in Exchange
        /\ d.flight.kind = "status"
        /\ d.flight.answer = None
    BY <2>1, <2>3, SendSound
  <2> HIDE DEF d
  <2>5. NewRead(d.flight)
    BY <2>4, ExchangeFacts DEF NewRead
  <2> QED  BY <2>1, <2>2, <2>4, <2>5 DEF Reads, Stays, d
<1> QED  BY <1>1, <1>2

LEMMA RefreshReads ==
  ASSUME NEW c, SoundTab(c)
  PROVE  Reads(c, Refresh(c))
<1>1. CASE c.held
  <2> DEFINE d == [c EXCEPT !.timer = "wait"]
  <2>1. SoundTab(d) /\ Stays(c, d) /\ d.flight = c.flight
    BY TimerSound
  <2>2. Refresh(c) = d
    BY <1>1 DEF Refresh, Schedule
  <2> HIDE DEF d
  <2> QED  BY <2>1, <2>2 DEF Reads
<1>2. CASE ~c.held
  BY <1>2, PollReads DEF Refresh
<1> QED  BY <1>1, <1>2

----------------------------------------------------------------------------
(* Answers.                                                                *)

\* The controller d that follows c once it was told seen.
Told(c, d, seen) ==
    /\ d.epoch = seen.epoch
    /\ d.entry = seen.entry
    /\ d.intent \in {c.intent, None}
    /\ d.purchase = c.purchase

LEMMA SightingFacts ==
  ASSUME NEW seen \in Sightings
  PROVE  /\ seen.epoch \in Epochs
         /\ seen.entry \in Places \cup {None}
         /\ seen.entry # None => seen.entry.state \in States /\ seen.entry.id \in Ids
BY DEF Sightings, Places

LEMMA ApplyTells ==
  ASSUME NEW c, SoundTab(c), c.flight = None, NEW seen \in Sightings,
         c.epoch <= seen.epoch
  PROVE  LET d == Apply(c, seen)
         IN  /\ SoundTab(d)
             /\ Told(c, d, seen)
             /\ d.flight = None
             /\ d.held = c.held
<1> DEFINE lost == /\ c.epoch # 0 /\ seen.epoch # c.epoch
                   /\ c.entry # None /\ c.entry.state \in Live
           reset == seen.entry = None /\ (c.reset \/ lost)
           phase == IF seen.entry # None THEN seen.entry.state
                    ELSE IF reset THEN "reset" ELSE "not-joined"
           intent == IF /\ c.intent # None /\ seen.entry # None
                        /\ seen.entry.id # c.intent.from
                     THEN None ELSE c.intent
           epochs == 0..MaxEpoch
           places == Places \cup {None}
           intents == Intents \cup {None}
           phases == States \cup {"loading", "not-enabled", "not-joined", "reset"}
<1>1. /\ seen.epoch \in Epochs
      /\ seen.entry \in places
      /\ seen.entry # None => seen.entry.state \in States
  BY SightingFacts
<1>2. c \in Tabs
  BY DEF SoundTab
<1>3. /\ seen.epoch \in epochs
      /\ intent \in intents
      /\ phase \in phases
      /\ reset \in BOOLEAN
  <2>1. c.intent \in intents /\ c.reset \in BOOLEAN
    BY <1>2 DEF Tabs, Controllers
  <2>2. reset \in BOOLEAN
    BY <2>1
  <2> QED  BY <1>1, <2>1, <2>2, PollingAssumption DEF Epochs
<1>4. /\ intent \in {c.intent, None}
      /\ intent # None /\ seen.entry # None => seen.entry.id = intent.from
      /\ phase \in States => seen.entry # None /\ seen.entry.state = phase
  BY DEF States, Live
<1>5. PICK key \in intents, shown \in phases, started \in BOOLEAN :
           key = intent /\ shown = phase /\ started = reset
  BY <1>3
<1> DEFINE d == [c EXCEPT !.epoch = seen.epoch, !.entry = seen.entry, !.reset = started,
                          !.intent = key, !.phase = shown]
<1>6. Apply(c, seen) = d
  BY <1>5 DEF Apply
<1>7. /\ key \in {c.intent, None}
      /\ key # None /\ seen.entry # None => seen.entry.id = key.from
      /\ shown \in States => seen.entry # None /\ seen.entry.state = shown
  BY <1>4, <1>5
<1> HIDE DEF intent, phase, reset, lost
<1> DEFINE all == [phase : phases, epoch : epochs, entry : places, reset : BOOLEAN,
                   stopped : BOOLEAN, held : BOOLEAN, timer : {"none", "any", "wait"},
                   flight : Exchange \cup {None}, busy : BOOLEAN, intent : intents,
                   purchase : Purchases \cup {None}]
<1>8. Tabs = all
  BY DEF Tabs, Controllers
<1> HIDE DEF places, intents, phases, epochs
<1>9. d \in all
  BY <1>1, <1>2, <1>3, <1>5, <1>8
<1>10. /\ d.epoch = seen.epoch
       /\ d.entry = seen.entry
       /\ d.intent = key
       /\ d.phase = shown
       /\ d.purchase = c.purchase
       /\ d.flight = c.flight
       /\ d.held = c.held
       /\ d.timer = c.timer
  BY <1>2, <1>8
<1> HIDE DEF d
<1>11. Intended(d)
  <2> SUFFICES ASSUME d.intent # None
               PROVE  /\ d.intent.epoch <= d.epoch
                      /\ d.intent.epoch = d.epoch /\ d.entry # None => d.entry.id = d.intent.from
    BY DEF Intended
  <2>1. d.intent = c.intent /\ c.intent # None
    BY <1>7, <1>10
  <2>2. c.intent.epoch <= c.epoch
    BY <2>1 DEF SoundTab, Intended
  <2>3. c.intent.epoch \in Int /\ c.epoch \in Int /\ seen.epoch \in Int
    BY <1>1, <1>2, <2>1, TabFields, PollingAssumption DEF Intents, Epochs
  <2> QED  BY <1>7, <1>10, <2>1, <2>2, <2>3
<1>12. SoundTab(d)
  BY <1>7, <1>8, <1>9, <1>10, <1>11 DEF SoundTab, Flown, Waits, Phased
<1> QED  BY <1>6, <1>7, <1>10, <1>12 DEF Told

LEMMA AcceptTells ==
  ASSUME NEW c, SoundTab(c), c.flight = None, NEW seen \in Sightings,
         c.epoch <= seen.epoch
  PROVE  LET d == Accept(c, seen)
         IN  /\ SoundTab(d)
             /\ Told(c, d, seen)
             /\ d.flight = None
<1> DEFINE r == Recovered(c)
           n == Apply(r, seen)
           d == [n EXCEPT !.timer = "any"]
<1>1. /\ SoundTab(r)
      /\ Stays(c, r)
      /\ r.flight = None
      /\ ~r.held
  BY RecoveredSound
<1> HIDE DEF r
<1>2. /\ SoundTab(n)
      /\ Told(r, n, seen)
      /\ n.flight = None
      /\ n.held = r.held
  BY <1>1, ApplyTells DEF Stays
<1> HIDE DEF n
<1>3. /\ SoundTab(d)
      /\ Stays(n, d)
      /\ d.flight = None
  BY <1>1, <1>2, TimerSound
<1> HIDE DEF d
<1>4. Accept(c, seen) \in {n, d}
  BY DEF Accept, Schedule, n, r, d
<1> QED  BY <1>1, <1>2, <1>3, <1>4 DEF Told, Stays

LEMMA UnqueuedSound ==
  ASSUME NEW c, SoundTab(c), c.flight = None
  PROVE  LET d == Unqueued(c)
         IN  /\ SoundTab(d)
             /\ d.epoch = c.epoch
             /\ d.entry = None
             /\ d.intent = c.intent
             /\ d.purchase = c.purchase
             /\ d.flight = None
<1> DEFINE r == Recovered(c)
           d == [r EXCEPT !.entry = None, !.phase = "not-enabled"]
<1>1. /\ SoundTab(r)
      /\ Stays(c, r)
      /\ r.flight = None
      /\ ~r.held
  BY RecoveredSound
<1>2. Unqueued(c) = d
  BY DEF Unqueued
<1> HIDE DEF r
<1>3. d \in Tabs
  BY <1>1 DEF SoundTab, Tabs, Controllers
<1>4. /\ d.epoch = r.epoch
      /\ d.entry = None
      /\ d.intent = r.intent
      /\ d.purchase = r.purchase
      /\ d.flight = None
      /\ d.held = r.held
      /\ d.timer = r.timer
      /\ d.phase = "not-enabled"
  BY <1>1 DEF SoundTab, Tabs, Controllers
<1> HIDE DEF d
<1>5. SoundTab(d)
  BY <1>1, <1>3, <1>4 DEF SoundTab, Flown, Waits, Phased, Intended, States, Live
<1> QED  BY <1>1, <1>2, <1>4, <1>5 DEF Stays

\* What follows c once an answer was dealt with: its own place and key, none,
\* or those of a usable answer.
Follows(c, d, answer) ==
    /\ SoundTab(d)
    /\ d.flight = None \/ NewRead(d.flight)
    /\ d.intent \in {c.intent, None}
    /\ \/ d.epoch = c.epoch /\ d.entry \in {c.entry, None}
       \/ Usable(answer) /\ d.epoch = answer.epoch /\ d.entry = answer.entry

LEMMA AnswerFacts ==
  ASSUME NEW kind \in Kinds \ {"purchase"}, NEW answer \in AnswersTo(kind)
  PROVE  /\ Usable(answer) => answer \in Sightings
         /\ ~Usable(answer) => answer.code \in Failures
BY DEF AnswersTo, Sightings, Usable, Failures

\* The answer does not contradict what the tab knows.
Later(c, answer) == Usable(answer) => c.epoch <= answer.epoch

LEMMA FailFollows ==
  ASSUME NEW c, SoundTab(c), c.flight = None, NEW answer
  PROVE  /\ Follows(c, Fail(c), answer) /\ Fail(c).purchase = c.purchase
         /\ Follows(c, Stops(c), answer) /\ Stops(c).purchase = c.purchase
         /\ Follows(c, Refresh(c), answer) /\ Refresh(c).purchase = c.purchase
         /\ Follows(c, Unqueued(c), answer) /\ Unqueued(c).purchase = c.purchase
<1>1. /\ SoundTab(Fail(c)) /\ Stays(c, Fail(c)) /\ Fail(c).flight = None
      /\ SoundTab(Stops(c)) /\ Stays(c, Stops(c)) /\ Stops(c).flight = None
  BY FailSound, StopsSound
<1>2. Reads(c, Refresh(c))
  BY RefreshReads
<1>3. /\ SoundTab(Unqueued(c))
      /\ Unqueued(c).epoch = c.epoch
      /\ Unqueued(c).entry = None
      /\ Unqueued(c).intent = c.intent
      /\ Unqueued(c).purchase = c.purchase
      /\ Unqueued(c).flight = None
  BY UnqueuedSound
<1> QED  BY <1>1, <1>2, <1>3 DEF Follows, Reads, Stays

LEMMA AcceptFollows ==
  ASSUME NEW c, SoundTab(c), c.flight = None, NEW answer \in Sightings, Later(c, answer)
  PROVE  Follows(c, Accept(c, answer), answer) /\ Accept(c, answer).purchase = c.purchase
<1>1. Usable(answer)
  BY DEF Usable, Sightings
<1>2. /\ SoundTab(Accept(c, answer))
      /\ Told(c, Accept(c, answer), answer)
      /\ Accept(c, answer).flight = None
  BY <1>1, AcceptTells DEF Later
<1> QED  BY <1>1, <1>2 DEF Follows, Told

LEMMA StatusFollows ==
  ASSUME NEW c, SoundTab(c), c.flight = None, NEW answer \in AnswersTo("status"),
         Later(c, answer)
  PROVE  Follows(c, OnStatus(c, answer), answer) /\ OnStatus(c, answer).purchase = c.purchase
<1>1. "status" \in Kinds \ {"purchase"}
  BY DEF Kinds
<1>2. CASE Usable(answer)
  <2>1. answer \in Sightings
    BY <1>1, <1>2, AnswerFacts
  <2>2. OnStatus(c, answer) = Accept(c, answer)
    BY <1>2 DEF OnStatus, Usable
  <2> QED  BY <2>1, <2>2, AcceptFollows
<1>3. CASE ~Usable(answer)
  <2>1. answer.code \in Failures
    BY <1>1, <1>3, AnswerFacts
  <2>2. OnStatus(c, answer) \in {Unqueued(c), Fail(c), Stops(c)}
    BY <1>3, <2>1 DEF OnStatus, Failures
  <2> QED  BY <2>2, FailFollows
<1> QED  BY <1>2, <1>3

LEMMA RefusedFollows ==
  ASSUME NEW c, SoundTab(c), c.flight = None, NEW answer
  PROVE  Follows(c, Refused(c, answer), answer) /\ Refused(c, answer).purchase = c.purchase
<1>1. Refused(c, answer) \in {Stops(c), Fail(c), Refresh(c)}
  BY DEF Refused
<1> QED  BY <1>1, FailFollows

\* The tab without the key of its join; a read may be under way.
LEMMA ForgetFollows ==
  ASSUME NEW c, NEW d, NEW answer, Follows(c, d, answer)
  PROVE  /\ Follows(c, [d EXCEPT !.intent = None], answer)
         /\ [d EXCEPT !.intent = None].purchase = d.purchase
<1> DEFINE e == [d EXCEPT !.intent = None]
<1>1. d \in Tabs
  BY DEF Follows, SoundTab
<1>2. e \in Tabs
  BY <1>1 DEF Tabs, Controllers
<1>3. /\ e.epoch = d.epoch
      /\ e.entry = d.entry
      /\ e.purchase = d.purchase
      /\ e.intent = None
      /\ e.flight = d.flight
      /\ e.held = d.held
      /\ e.timer = d.timer
      /\ e.phase = d.phase
  BY <1>1 DEF Tabs, Controllers
<1> HIDE DEF e
<1>4. SoundTab(e)
  BY <1>2, <1>3 DEF Follows, NewRead, SoundTab, Flown, Waits, Phased, Intended
<1>5. Follows(c, e, answer)
  BY <1>3, <1>4 DEF Follows
<1> QED  BY <1>3, <1>5 DEF e

LEMMA JoinFollows ==
  ASSUME NEW c, SoundTab(c), c.flight = None, NEW answer \in AnswersTo("join"),
         Later(c, answer)
  PROVE  Follows(c, OnJoin(c, answer), answer) /\ OnJoin(c, answer).purchase = c.purchase
<1>1. "join" \in Kinds \ {"purchase"}
  BY DEF Kinds
<1>2. CASE Usable(answer)
  <2>1. answer \in Sightings
    BY <1>1, <1>2, AnswerFacts
  <2>2. OnJoin(c, answer) = Accept(c, answer)
    BY <1>2 DEF OnJoin, Usable
  <2> QED  BY <2>1, <2>2, AcceptFollows
<1>3. CASE answer.code = "not-enabled"
  <2> DEFINE f == [c EXCEPT !.intent = None]
  <2>1. /\ SoundTab(f)
        /\ f.epoch = c.epoch
        /\ f.entry = c.entry
        /\ f.purchase = c.purchase
        /\ f.intent = None
        /\ f.flight = None
    BY ForgetSound
  <2>2. OnJoin(c, answer) = Unqueued(f)
    BY <1>3 DEF OnJoin, Usable
  <2> HIDE DEF f
  <2>3. Follows(f, Unqueued(f), answer) /\ Unqueued(f).purchase = f.purchase
    BY <2>1, FailFollows
  <2> QED  BY <2>1, <2>2, <2>3 DEF Follows
<1>4. CASE answer.code = "undecided"
  <2>1. OnJoin(c, answer) = Refused(c, answer)
    BY <1>4 DEF OnJoin, Usable
  <2> QED  BY <2>1, RefusedFollows
<1>5. CASE ~Usable(answer) /\ answer.code \notin {"not-enabled", "undecided"}
  <2> DEFINE e == [Refused(c, answer) EXCEPT !.intent = None]
  <2>1. OnJoin(c, answer) = e
    BY <1>5 DEF OnJoin
  <2>2. Follows(c, e, answer) /\ e.purchase = c.purchase
    BY RefusedFollows, ForgetFollows
  <2> QED  BY <2>1, <2>2
<1> QED  BY <1>2, <1>3, <1>4, <1>5

LEMMA CancelFollows ==
  ASSUME NEW c, SoundTab(c), c.flight = None, NEW target, NEW answer \in AnswersTo("cancel"),
         Later(c, answer)
  PROVE  /\ Follows(c, OnCancel(c, target, answer), answer)
         /\ OnCancel(c, target, answer).purchase = c.purchase
<1>1. "cancel" \in Kinds \ {"purchase"}
  BY DEF Kinds
<1>2. CASE Usable(answer) /\ answer.entry # None /\ answer.entry.id = target
  <2>1. answer \in Sightings
    BY <1>1, <1>2, AnswerFacts
  <2>2. OnCancel(c, target, answer) = Accept(c, answer)
    BY <1>2 DEF OnCancel
  <2> QED  BY <2>1, <2>2, AcceptFollows
<1>3. CASE ~(Usable(answer) /\ answer.entry # None /\ answer.entry.id = target)
  <2>1. OnCancel(c, target, answer) = Refused(c, answer)
    BY <1>3 DEF OnCancel
  <2> QED  BY <2>1, RefusedFollows
<1> QED  BY <1>2, <1>3

\* A decided purchase is forgotten; otherwise the tab keeps the one it sent.
LEMMA PurchaseFollows ==
  ASSUME NEW c, SoundTab(c), c.flight = None, c.purchase # None,
         NEW answer \in AnswersTo("purchase")
  PROVE  LET d == OnPurchase(c, answer)
         IN  /\ Follows(c, d, answer)
             /\ answer.code # "undecided" => d.purchase = None
             /\ answer.code = "undecided" =>
                    d.purchase # None /\ d.purchase.body = c.purchase.body
<1>1. c.purchase \in Purchases /\ AutoRetries \in Nat
  BY PollingAssumption DEF SoundTab, Tabs, Controllers
<1>2. CASE answer.code # "undecided"
  <2> DEFINE e == [c EXCEPT !.purchase = None]
  <2>1. /\ SoundTab(e)
        /\ e.epoch = c.epoch
        /\ e.entry = c.entry
        /\ e.intent = c.intent
        /\ e.purchase = None
        /\ e.flight = None
    BY PurchaseSound
  <2>2. OnPurchase(c, answer) = Refresh(e)
    BY <1>2 DEF OnPurchase
  <2> HIDE DEF e
  <2>3. Follows(e, Refresh(e), answer) /\ Refresh(e).purchase = None
    BY <2>1, FailFollows
  <2> QED  BY <1>2, <2>1, <2>2, <2>3 DEF Follows
<1>3. CASE answer.code = "undecided" /\ c.purchase.auto >= AutoRetries
  <2> DEFINE p == [c.purchase EXCEPT !.status = "unconfirmed"]
  <2>1. p \in Purchases /\ p.body = c.purchase.body
    BY <1>1 DEF Purchases
  <2>2. p # None
    BY <2>1, NoneAssumption
  <2> HIDE DEF p
  <2> DEFINE e == [c EXCEPT !.purchase = p]
  <2>3. /\ SoundTab(e)
        /\ e.epoch = c.epoch
        /\ e.entry = c.entry
        /\ e.intent = c.intent
        /\ e.purchase = p
        /\ e.flight = None
    BY <2>1, PurchaseSound
  <2>4. OnPurchase(c, answer) = Refresh(e)
    BY <1>3 DEF OnPurchase, p
  <2> HIDE DEF e
  <2>5. Follows(e, Refresh(e), answer) /\ Refresh(e).purchase = p
    BY <2>3, FailFollows
  <2> QED  BY <1>3, <2>1, <2>2, <2>3, <2>4, <2>5 DEF Follows
<1>4. CASE answer.code = "undecided" /\ ~(c.purchase.auto >= AutoRetries)
  <2> DEFINE p == [c.purchase EXCEPT !.status = "retrying", !.auto = @ + 1]
  <2>1. p \in Purchases /\ p.body = c.purchase.body
    <3>1. c.purchase.auto \in 0..AutoRetries /\ c.purchase.auto < AutoRetries
      BY <1>1, <1>4 DEF Purchases
    <3>2. c.purchase.auto + 1 \in 0..AutoRetries
      BY <1>1, <3>1
    <3> QED  BY <1>1, <3>2 DEF Purchases
  <2>2. p # None
    BY <2>1, NoneAssumption
  <2>3. OnPurchase(c, answer) = [c EXCEPT !.purchase = p]
    <3>1. c \in Tabs
      BY DEF SoundTab
    <3>2. OnPurchase(c, answer)
            = [c EXCEPT !.purchase.status = "retrying", !.purchase.auto = @ + 1]
      BY <1>4 DEF OnPurchase
    <3> QED  BY <1>1, <3>1, <3>2 DEF Tabs, Controllers, Purchases
  <2> HIDE DEF p
  <2> DEFINE e == [c EXCEPT !.purchase = p]
  <2>4. /\ SoundTab(e)
        /\ e.epoch = c.epoch
        /\ e.entry = c.entry
        /\ e.intent = c.intent
        /\ e.purchase = p
        /\ e.flight = None
    BY <2>1, PurchaseSound
  <2> HIDE DEF e
  <2> QED  BY <1>4, <2>1, <2>2, <2>3, <2>4 DEF Follows, e
<1> QED  BY <1>2, <1>3, <1>4

----------------------------------------------------------------------------
(* The queue.                                                              *)

Records == [key : 0..MaxKeys, state : States \cup {"gone"}]

\* A recovery leaves no key behind.
QueueOK(q) ==
    /\ q \in Queues
    /\ Len(q.entries) <= MaxEntries
    /\ \A id \in 1..Len(q.entries) : q.entries[id].state = "gone" => q.entries[id].key = 0

\* The place is of an earlier epoch, or the entry is there and at least as far.
AtMost(q, epoch, entry) ==
    /\ epoch <= q.epoch
    /\ entry # None =>
           /\ entry.id <= Len(q.entries)
           /\ epoch = q.epoch =>
                  /\ q.entries[entry.id].state # "gone"
                  /\ Rank(entry.state) <= Rank(q.entries[entry.id].state)

\* Only the join that is under way can have used the key.
KeyFresh(q, intent) ==
    intent # None =>
        /\ intent.from # None => intent.from <= Len(q.entries)
        /\ \A id \in 1..Len(q.entries) :
               q.entries[id].key = intent.key => intent.from = None \/ intent.from < id

Known(q, c) == AtMost(q, c.epoch, c.entry) /\ KeyFresh(q, c.intent)

Shown(c) == [epoch |-> c.epoch, entry |-> c.entry]

\* A place the server answered with: true, and not before what the tab shows.
Tells(q, c, answer) ==
    /\ AtMost(q, answer.epoch, answer.entry)
    /\ c.epoch <= answer.epoch
    /\ c.entry # None /\ answer.entry # None => NotBack(Shown(c), answer)

Answered(q, c) ==
    c.flight # None /\ c.flight.answer # None /\ Usable(c.flight.answer) =>
        Tells(q, c, c.flight.answer)

\* What the server may do to the queue: entries only move on, and all of them
\* are lost at once.
Grows(q, r) ==
    /\ q.epoch <= r.epoch
    /\ Len(q.entries) <= Len(r.entries)
    /\ \A id \in 1..Len(q.entries) :
           /\ r.entries[id].key \in {q.entries[id].key, 0}
           /\ q.epoch = r.epoch /\ q.entries[id].state # "gone" =>
                  /\ r.entries[id].state # "gone"
                  /\ Rank(q.entries[id].state) <= Rank(r.entries[id].state)

LEMMA Ranks ==
  /\ Rank("waiting") = 0 /\ Rank("admitted") = 1
  /\ Rank("processing") = 2 /\ Rank("ended") = 3
  /\ \A state \in States : Rank(state) \in 0..3
BY DEF Rank, States, Live

LEMMA QueueFacts ==
  ASSUME NEW q, QueueOK(q)
  PROVE  /\ q.epoch \in Epochs
         /\ q.entries \in Seq(Records)
         /\ Len(q.entries) \in 0..MaxEntries
         /\ DOMAIN q.entries = 1..Len(q.entries)
         /\ \A id \in 1..Len(q.entries) :
                /\ q.entries[id] \in Records
                /\ q.entries[id].key \in 0..MaxKeys
                /\ q.entries[id].state \in States \cup {"gone"}
<1>1. q.epoch \in Epochs /\ q.entries \in Seq(Records)
  BY DEF QueueOK, Queues, Records
<1>2. Len(q.entries) \in Nat /\ DOMAIN q.entries = 1..Len(q.entries)
  BY <1>1, LenProperties
<1>3. Len(q.entries) \in 0..MaxEntries
  BY <1>2, PollingAssumption DEF QueueOK
<1>4. \A id \in 1..Len(q.entries) : q.entries[id] \in Records
  BY <1>1, ElementOfSeq
<1>5. \A record \in Records : record.key \in 0..MaxKeys /\ record.state \in States \cup {"gone"}
  BY DEF Records
<1> QED  BY <1>1, <1>2, <1>3, <1>4, <1>5

\* What was true of the queue stays true as it grows.
LEMMA GrowthKeeps ==
  ASSUME NEW q, QueueOK(q), NEW r, QueueOK(r), Grows(q, r)
  PROVE  /\ \A epoch \in 0..MaxEpoch, entry \in Places \cup {None} :
                AtMost(q, epoch, entry) => AtMost(r, epoch, entry)
         /\ \A intent \in Intents \cup {None} : KeyFresh(q, intent) => KeyFresh(r, intent)
<1>1. /\ q.epoch \in Int /\ r.epoch \in Int
      /\ Len(q.entries) \in Nat /\ Len(r.entries) \in Nat
      /\ \A id \in 1..Len(q.entries) : q.entries[id].state \in States \cup {"gone"}
      /\ \A id \in 1..Len(r.entries) : r.entries[id].state \in States \cup {"gone"}
  BY QueueFacts, PollingAssumption DEF Epochs
<1>2. /\ q.epoch <= r.epoch
      /\ Len(q.entries) <= Len(r.entries)
      /\ \A id \in 1..Len(q.entries) :
             /\ r.entries[id].key \in {q.entries[id].key, 0}
             /\ q.epoch = r.epoch /\ q.entries[id].state # "gone" =>
                    /\ r.entries[id].state # "gone"
                    /\ Rank(q.entries[id].state) <= Rank(r.entries[id].state)
  BY DEF Grows
<1>3. ASSUME NEW epoch \in 0..MaxEpoch, NEW entry \in Places \cup {None}, AtMost(q, epoch, entry)
      PROVE  AtMost(r, epoch, entry)
  <2>1. epoch \in Int /\ epoch <= r.epoch
    BY <1>1, <1>2, <1>3, PollingAssumption DEF AtMost
  <2>2. ASSUME entry # None
        PROVE  /\ entry.id <= Len(r.entries)
               /\ epoch = r.epoch =>
                      /\ r.entries[entry.id].state # "gone"
                      /\ Rank(entry.state) <= Rank(r.entries[entry.id].state)
    <3>1. entry.id \in Ids /\ entry.state \in States
      BY <2>2 DEF Places
    <3>2. entry.id \in Nat \ {0} /\ entry.id <= Len(q.entries)
      BY <1>3, <2>2, <3>1, PollingAssumption DEF AtMost, Ids
    <3>3. entry.id \in 1..Len(q.entries) /\ entry.id \in 1..Len(r.entries)
      BY <1>1, <1>2, <3>2
    <3>4. ASSUME epoch = r.epoch
          PROVE  /\ r.entries[entry.id].state # "gone"
                 /\ Rank(entry.state) <= Rank(r.entries[entry.id].state)
      <4>1. epoch = q.epoch
        BY <1>1, <1>2, <1>3, <3>4 DEF AtMost
      <4>2. q.entries[entry.id].state # "gone" /\ Rank(entry.state) <= Rank(q.entries[entry.id].state)
        BY <1>3, <2>2, <4>1 DEF AtMost
      <4>3. /\ r.entries[entry.id].state # "gone"
            /\ Rank(q.entries[entry.id].state) <= Rank(r.entries[entry.id].state)
        BY <1>2, <3>3, <3>4, <4>1, <4>2
      <4>4. /\ Rank(entry.state) \in Int
            /\ Rank(q.entries[entry.id].state) \in Int
            /\ Rank(r.entries[entry.id].state) \in Int
        BY <1>1, <3>1, <3>3, <4>2, <4>3, Ranks
      <4> QED  BY <4>2, <4>3, <4>4
    <3> QED  BY <1>1, <3>3, <3>4
  <2> QED  BY <2>1, <2>2 DEF AtMost
<1>4. ASSUME NEW intent \in Intents \cup {None}, KeyFresh(q, intent)
      PROVE  KeyFresh(r, intent)
  <2> SUFFICES ASSUME intent # None
               PROVE  /\ intent.from # None => intent.from <= Len(r.entries)
                      /\ \A id \in 1..Len(r.entries) :
                             r.entries[id].key = intent.key =>
                                 intent.from = None \/ intent.from < id
    BY DEF KeyFresh
  <2>1. intent.key \in Keys /\ intent.from \in Ids \cup {None}
    BY DEF Intents
  <2>2. intent.key # 0 /\ (intent.from # None => intent.from \in Int)
    BY <2>1, PollingAssumption DEF Keys, Ids
  <2>3. /\ intent.from # None => intent.from <= Len(q.entries)
        /\ \A id \in 1..Len(q.entries) :
               q.entries[id].key = intent.key => intent.from = None \/ intent.from < id
    BY <1>4 DEF KeyFresh
  <2>4. ASSUME NEW id \in 1..Len(r.entries), r.entries[id].key = intent.key, intent.from # None
        PROVE  intent.from < id
    <3>1. CASE id \in 1..Len(q.entries)
      BY <1>2, <2>2, <2>3, <2>4, <3>1
    <3>2. CASE id \notin 1..Len(q.entries)
      BY <1>1, <2>2, <2>3, <2>4, <3>2
    <3> QED  BY <3>1, <3>2
  <2> QED  BY <1>1, <1>2, <2>2, <2>3, <2>4
<1> QED  BY <1>3, <1>4

\* An entry changes its state.
LEMMA BecomesGrows ==
  ASSUME NEW q, QueueOK(q), NEW id \in Ids, NEW state \in States,
         q.entries[id].state \in States, Rank(q.entries[id].state) <= Rank(state)
  PROVE  LET r == [q EXCEPT !.entries[id].state = state]
         IN  /\ QueueOK(r)
             /\ Grows(q, r)
             /\ r.epoch = q.epoch
             /\ id <= Len(q.entries) => r.entries[id].state = state
             /\ Len(r.entries) = Len(q.entries)
<1> DEFINE e == [q.entries EXCEPT ![id].state = state]
           r == [q EXCEPT !.entries = e]
<1>1. /\ q.epoch \in Epochs
      /\ q.entries \in Seq(Records)
      /\ Len(q.entries) \in 0..MaxEntries
      /\ q.entries \in [1..Len(q.entries) -> Records]
  BY QueueFacts, LenProperties
<1>2. e \in [1..Len(q.entries) -> Records]
  BY <1>1 DEF Records
<1>3. e \in Seq(Records)
  BY <1>1, <1>2, SeqDef
<1>4. Len(e) = Len(q.entries)
  BY <1>1, <1>2, <1>3, LenProperties
<1>5. \A j \in 1..Len(q.entries) :
          /\ e[j].key = q.entries[j].key
          /\ e[j].state = IF j = id THEN state ELSE q.entries[j].state
  BY <1>1 DEF Records
<1>6. id \in Nat \ {0}
  BY PollingAssumption DEF Ids
<1> HIDE DEF e
<1>7. r = [q EXCEPT !.entries[id].state = state]
  BY DEF e
<1>8. r \in Queues /\ r.epoch = q.epoch /\ r.entries = e
  BY <1>3 DEF QueueOK, Queues, Records
<1> HIDE DEF r
<1>9. QueueOK(r)
  BY <1>4, <1>5, <1>8 DEF QueueOK, States, Live
<1>10. Grows(q, r)
  <2>1. q.epoch <= r.epoch /\ Len(q.entries) <= Len(r.entries)
    BY <1>1, <1>4, <1>8, PollingAssumption DEF Epochs
  <2>2. ASSUME NEW j \in 1..Len(q.entries)
        PROVE  /\ r.entries[j].key \in {q.entries[j].key, 0}
               /\ q.entries[j].state # "gone" =>
                      /\ r.entries[j].state # "gone"
                      /\ Rank(q.entries[j].state) <= Rank(r.entries[j].state)
    <3>1. q.entries[j].state \in States \cup {"gone"} /\ state # "gone"
      BY QueueFacts DEF States, Live
    <3>2. Rank(q.entries[j].state) <= Rank(q.entries[j].state) \/ q.entries[j].state = "gone"
      BY <3>1, Ranks
    <3> QED  BY <1>5, <1>8, <3>1, <3>2
  <2> QED  BY <2>1, <2>2 DEF Grows
<1> QED  BY <1>1, <1>4, <1>5, <1>6, <1>7, <1>8, <1>9, <1>10

\* An entry is added.
LEMMA EntersGrows ==
  ASSUME NEW q, QueueOK(q), NEW key \in 0..MaxKeys, Len(q.entries) < MaxEntries
  PROVE  LET r == [q EXCEPT !.entries = Append(@, [key |-> key, state |-> "waiting"])]
         IN  /\ QueueOK(r)
             /\ Grows(q, r)
             /\ r.epoch = q.epoch
             /\ Len(r.entries) = Len(q.entries) + 1
             /\ r.entries[Len(q.entries) + 1].state = "waiting"
<1> DEFINE new == [key |-> key, state |-> "waiting"]
           e == Append(q.entries, new)
           r == [q EXCEPT !.entries = e]
<1>1. /\ q.epoch \in Epochs
      /\ q.entries \in Seq(Records)
      /\ Len(q.entries) \in 0..MaxEntries
  BY QueueFacts
<1>2. new \in Records /\ new.key = key /\ new.state = "waiting"
  BY DEF Records, States, Live
<1> HIDE DEF new
<1>3. /\ e \in Seq(Records)
      /\ Len(e) = Len(q.entries) + 1
      /\ \A j \in 1..Len(q.entries) : e[j] = q.entries[j]
      /\ e[Len(q.entries) + 1] = new
  BY <1>1, <1>2, AppendProperties
<1> HIDE DEF e
<1>4. r = [q EXCEPT !.entries = Append(@, [key |-> key, state |-> "waiting"])]
  BY DEF e, new
<1>5. r \in Queues /\ r.epoch = q.epoch /\ r.entries = e
  BY <1>3 DEF QueueOK, Queues, Records
<1> HIDE DEF r
<1>6. Len(r.entries) <= MaxEntries
  BY <1>1, <1>3, <1>5, PollingAssumption
<1>7. ASSUME NEW j \in 1..Len(r.entries), r.entries[j].state = "gone"
      PROVE  r.entries[j].key = 0
  <2>1. j \in 1..Len(q.entries) \/ j = Len(q.entries) + 1
    BY <1>1, <1>3, <1>5
  <2> QED  BY <1>2, <1>3, <1>5, <1>7, <2>1 DEF QueueOK
<1>8. QueueOK(r)
  BY <1>5, <1>6, <1>7 DEF QueueOK
<1>9. Grows(q, r)
  <2>1. q.epoch <= r.epoch /\ Len(q.entries) <= Len(r.entries)
    BY <1>1, <1>3, <1>5, PollingAssumption DEF Epochs
  <2>2. ASSUME NEW j \in 1..Len(q.entries)
        PROVE  /\ r.entries[j] = q.entries[j]
               /\ q.entries[j].state # "gone" =>
                      Rank(q.entries[j].state) <= Rank(r.entries[j].state)
    <3>1. q.entries[j].state \in States \cup {"gone"}
      BY QueueFacts
    <3>2. Rank(q.entries[j].state) <= Rank(q.entries[j].state) \/ q.entries[j].state = "gone"
      BY <3>1, Ranks
    <3> QED  BY <1>3, <1>5, <3>2
  <2> QED  BY <2>1, <2>2 DEF Grows
<1> QED  BY <1>2, <1>3, <1>4, <1>5, <1>8, <1>9

\* All entries are lost.
LEMMA ResetGrows ==
  ASSUME NEW q, QueueOK(q), q.epoch < MaxEpoch
  PROVE  LET r == [epoch |-> q.epoch + 1,
                   entries |-> [id \in DOMAIN q.entries |-> [key |-> 0, state |-> "gone"]]]
         IN  QueueOK(r) /\ Grows(q, r)
<1> DEFINE lost == [key |-> 0, state |-> "gone"]
           e == [id \in DOMAIN q.entries |-> lost]
           r == [epoch |-> q.epoch + 1, entries |-> e]
<1>1. /\ q.epoch \in Epochs
      /\ Len(q.entries) \in 0..MaxEntries
      /\ DOMAIN q.entries = 1..Len(q.entries)
  BY QueueFacts
<1>2. lost \in Records /\ lost.key = 0 /\ lost.state = "gone"
  BY PollingAssumption DEF Records
<1>3. e \in [1..Len(q.entries) -> Records] /\ \A j \in 1..Len(q.entries) : e[j] = lost
  BY <1>1, <1>2
<1> HIDE DEF lost, e
<1>4. e \in Seq(Records)
  BY <1>1, <1>3, SeqDef
<1>5. Len(e) = Len(q.entries)
  BY <1>1, <1>3, <1>4, LenProperties
<1>6. q.epoch + 1 \in Epochs
  BY <1>1, PollingAssumption DEF Epochs
<1>7. r \in Queues /\ r.epoch = q.epoch + 1 /\ r.entries = e
  BY <1>4, <1>6 DEF Queues, Records
<1>8. r = [epoch |-> q.epoch + 1,
           entries |-> [id \in DOMAIN q.entries |-> [key |-> 0, state |-> "gone"]]]
  BY DEF e, lost
<1> HIDE DEF r
<1>9. QueueOK(r)
  BY <1>1, <1>2, <1>3, <1>5, <1>7, PollingAssumption DEF QueueOK
<1>10. Grows(q, r)
  <2>1. q.epoch \in Int /\ q.epoch < r.epoch /\ Len(q.entries) <= Len(r.entries)
    BY <1>1, <1>5, <1>7, PollingAssumption DEF Epochs
  <2> QED  BY <1>2, <1>3, <1>7, <2>1, PollingAssumption DEF Grows, Epochs
<1> QED  BY <1>8, <1>9, <1>10

----------------------------------------------------------------------------
(* The invariant.                                                          *)

TabOK(q, c) == SoundTab(c) /\ Known(q, c) /\ Answered(q, c)

LateOK(x) == x = None \/ (x \in Exchange /\ ~x.current)

\* An open purchase is the tab's and the stored one.
OpenHeld(c, p, o) ==
    /\ p \in Bodies \cup {None}
    /\ o \in SUBSET Bodies
    /\ \A body \in o : p = body /\ c.purchase # None /\ c.purchase.body = body

Holds(q, c, l, p, o) == QueueOK(q) /\ TabOK(q, c) /\ LateOK(l) /\ OpenHeld(c, p, o)

PollingInv == Holds(queue, tab, late, pending, open)

\* What the page is shown does not move back.
Advances(c, d) == c.entry # None /\ d.entry # None => NotBack(Shown(c), Shown(d))

LEMMA ViewAdvances == Advances(tab, tab') => ViewKept
BY DEF Advances, ViewKept, View, Shown

LEMMA SameView ==
  ASSUME NEW c, NEW d, SoundTab(c), d.epoch = c.epoch, d.entry \in {c.entry, None}
  PROVE  Advances(c, d)
<1>1. c.entry \in Places \cup {None}
  BY TabFields DEF SoundTab
<1>2. c.entry # None => c.entry.state \in States
  BY <1>1 DEF Places
<1>3. c.entry # None => Rank(c.entry.state) <= Rank(c.entry.state)
  BY <1>2, Ranks
<1> QED  BY <1>3 DEF Advances, NotBack, Shown

\* The tab shows the same or nothing, and has the same key or none.
LEMMA KnowsNoMore ==
  ASSUME NEW q, NEW c, Known(q, c), NEW d,
         d.epoch = c.epoch, d.entry \in {c.entry, None}, d.intent \in {c.intent, None}
  PROVE  Known(q, d)
BY DEF Known, AtMost, KeyFresh

LEMMA Unanswering ==
  ASSUME NEW q, NEW d, d.flight = None \/ d.flight.answer = None
  PROVE  Answered(q, d)
BY DEF Answered

\* A step of the tab alone that leaves what it shows and its purchase.
LEMMA TabReads ==
  ASSUME NEW q, NEW c, TabOK(q, c), NEW d, Reads(c, d)
  PROVE  TabOK(q, d) /\ Advances(c, d) /\ d.purchase = c.purchase
<1>1. SoundTab(d) /\ Stays(c, d)
  BY DEF Reads
<1>2. Known(q, d) /\ Advances(c, d)
  BY <1>1, KnowsNoMore, SameView DEF TabOK, Stays
<1>3. Answered(q, d)
  <2>1. CASE d.flight = c.flight
    BY <1>1, <2>1 DEF TabOK, Answered, Tells, Stays, Shown
  <2>2. CASE NewRead(d.flight)
    BY <2>2 DEF NewRead, Answered
  <2> QED  BY <2>1, <2>2 DEF Reads
<1> QED  BY <1>1, <1>2, <1>3 DEF TabOK, Stays

\* An answer was dealt with: b is the tab without the exchange.
LEMMA FollowsOK ==
  ASSUME NEW q, NEW c, TabOK(q, c), NEW b, Stays(c, b), NEW d, NEW answer,
         Follows(b, d, answer), Usable(answer) => Tells(q, c, answer)
  PROVE  TabOK(q, d) /\ Advances(c, d)
<1>1. SoundTab(d) /\ d.intent \in {c.intent, None}
  BY DEF Follows, Stays
<1>2. Answered(q, d)
  BY DEF Follows, NewRead, Answered
<1>3. CASE d.epoch = c.epoch /\ d.entry \in {c.entry, None}
  <2>1. Known(q, d) /\ Advances(c, d)
    BY <1>1, <1>3, KnowsNoMore, SameView DEF TabOK
  <2> QED  BY <1>1, <1>2, <2>1 DEF TabOK
<1>4. CASE Usable(answer) /\ d.epoch = answer.epoch /\ d.entry = answer.entry
  <2>1. AtMost(q, d.epoch, d.entry) /\ KeyFresh(q, d.intent)
    BY <1>1, <1>4 DEF Tells, TabOK, Known, KeyFresh
  <2>2. Advances(c, d)
    BY <1>4 DEF Tells, Advances, NotBack, Shown
  <2> QED  BY <1>1, <1>2, <2>1, <2>2 DEF TabOK, Known
<1> QED  BY <1>3, <1>4 DEF Follows, Stays

\* done
LEMMA DoneSound ==
  ASSUME NEW q, NEW c, TabOK(q, c), c.flight # None, NEW answer \in AnswersTo(c.flight.kind),
         Usable(answer) => Tells(q, c, answer)
  PROVE  LET d == Done(c, c.flight, answer)
         IN  /\ TabOK(q, d)
             /\ Advances(c, d)
             /\ c.flight.kind # "purchase" => d.purchase = c.purchase
             /\ c.flight.kind = "purchase" =>
                    /\ answer.code # "undecided" => d.purchase = None
                    /\ answer.code = "undecided" =>
                           d.purchase # None /\ d.purchase.body = c.purchase.body
<1> DEFINE free == Drop(c)
           d == Done(c, c.flight, answer)
<1>1. SoundTab(free) /\ Stays(c, free) /\ free.flight = None
  BY DropSound DEF TabOK
<1>2. c.flight.kind \in Kinds
  BY TabFields, ExchangeFacts DEF TabOK, SoundTab
<1>3. Later(free, answer)
  BY <1>1 DEF Later, Tells, Stays
<1>4. CASE c.flight.kind = "status"
  <2>1. d = OnStatus(free, answer)
    BY <1>4 DEF Done
  <2> HIDE DEF d, free
  <2>2. Follows(free, d, answer) /\ d.purchase = free.purchase
    BY <1>1, <1>3, <1>4, <2>1, StatusFollows
  <2>3. TabOK(q, d) /\ Advances(c, d)
    BY <1>1, <2>2, FollowsOK
  <2> QED  BY <1>1, <1>4, <2>2, <2>3 DEF Stays, d
<1>5. CASE c.flight.kind \in {"join", "cancel"}
  <2> DEFINE b == [free EXCEPT !.busy = FALSE]
  <2> HIDE DEF free
  <2>1. SoundTab(b) /\ Stays(free, b) /\ b.flight = free.flight
    BY <1>1, BusySound
  <2>2. Later(b, answer) /\ Stays(c, b) /\ b.flight = None
    BY <1>1, <1>3, <2>1 DEF Later, Stays
  <2>3. d = IF c.flight.kind = "join" THEN OnJoin(b, answer)
            ELSE OnCancel(b, c.flight.argument, answer)
    BY <1>5 DEF Done, free
  <2> HIDE DEF d, b
  <2>4. CASE c.flight.kind = "join"
    <3>1. Follows(b, d, answer) /\ d.purchase = b.purchase
      BY <2>1, <2>2, <2>3, <2>4, JoinFollows
    <3>2. TabOK(q, d) /\ Advances(c, d)
      BY <2>2, <3>1, FollowsOK
    <3> QED  BY <2>2, <2>4, <3>1, <3>2 DEF Stays, d
  <2>5. CASE c.flight.kind = "cancel"
    <3>1. Follows(b, d, answer) /\ d.purchase = b.purchase
      BY <2>1, <2>2, <2>3, <2>5, CancelFollows
    <3>2. TabOK(q, d) /\ Advances(c, d)
      BY <2>2, <3>1, FollowsOK
    <3> QED  BY <2>2, <2>5, <3>1, <3>2 DEF Stays, d
  <2> QED  BY <1>5, <2>4, <2>5
<1>6. CASE c.flight.kind = "purchase"
  <2>1. d = OnPurchase(free, answer)
    BY <1>6 DEF Done
  <2>2. free.purchase # None /\ free.purchase = c.purchase
    BY <1>1, <1>6 DEF TabOK, SoundTab, Flown, Stays
  <2> HIDE DEF d, free
  <2>3. /\ Follows(free, d, answer)
        /\ answer.code # "undecided" => d.purchase = None
        /\ answer.code = "undecided" =>
               d.purchase # None /\ d.purchase.body = free.purchase.body
    BY <1>1, <1>6, <2>1, <2>2, PurchaseFollows
  <2>4. TabOK(q, d) /\ Advances(c, d)
    BY <1>1, <2>3, FollowsOK
  <2> QED  BY <1>6, <2>2, <2>3, <2>4 DEF d
<1> QED  BY <1>2, <1>4, <1>5, <1>6 DEF Kinds

----------------------------------------------------------------------------
(* What the tab does.                                                      *)

\* Every lemma below says of a step that it keeps the invariant and the view.
Kept == PollingInv' /\ Advances(tab, tab')

LEMMA Assembled ==
  ASSUME QueueOK(queue'), TabOK(queue', tab'), LateOK(late'), OpenHeld(tab', pending', open'),
         Advances(tab, tab')
  PROVE  Kept
BY DEF Kept, PollingInv, Holds

\* The tab changes nothing of what is open.
LEMMA TabOnly ==
  ASSUME PollingInv, UNCHANGED <<queue, pending, open>>, LateOK(late'),
         TabOK(queue, tab'), Advances(tab, tab'),
         tab.purchase # None =>
             tab'.purchase # None /\ tab'.purchase.body = tab.purchase.body
  PROVE  Kept
<1>1. QueueOK(queue') /\ TabOK(queue', tab')
  BY DEF PollingInv, Holds
<1>2. OpenHeld(tab', pending', open')
  BY DEF PollingInv, Holds, OpenHeld
<1> QED  BY <1>1, <1>2, Assembled

\* The exchange x may become the late one.
LEMMA AbandonsLate ==
  ASSUME PollingInv, Abandons(tab.flight)
  PROVE  LateOK(late')
<1>1. LateOK(late) /\ tab.flight \in Exchange \cup {None}
  BY TabFields DEF PollingInv, Holds, TabOK, SoundTab
<1> DEFINE gone == [tab.flight EXCEPT !.current = FALSE]
<1>2. late' = late \/ (tab.flight # None /\ late' = gone)
  BY DEF Abandons
<1>3. ASSUME tab.flight # None
      PROVE  gone \in Exchange /\ ~gone.current
  <2>1. tab.flight \in Exchange
    BY <1>1, <1>3
  <2>2. tab.flight.answer \in AnswersTo(tab.flight.kind) \cup {None}
    BY <2>1, ExchangeFacts
  <2>3. tab.flight \in Exchanges(tab.flight.kind)
    BY <2>1, ExchangeFacts
  <2>4. gone \in Exchanges(tab.flight.kind) /\ gone.current = FALSE
    BY <2>3 DEF Exchanges
  <2>5. tab.flight.kind \in Kinds
    BY <2>1, ExchangeFacts
  <2> HIDE DEF gone
  <2> QED  BY <2>4, <2>5 DEF Exchange
<1> HIDE DEF gone
<1> QED  BY <1>1, <1>2, <1>3 DEF LateOK

\* An answer, or none in time, to the current exchange.
LEMMA CompletesCurrent ==
  ASSUME PollingInv, tab.flight # None, UNCHANGED queue, LateOK(late'),
         NEW answer \in AnswersTo(tab.flight.kind),
         Usable(answer) => Tells(queue, tab, answer),
         Completes(tab.flight, answer)
  PROVE  Kept
<1>1. QueueOK(queue) /\ TabOK(queue, tab) /\ OpenHeld(tab, pending, open)
  BY DEF PollingInv, Holds
<1>2. /\ tab.flight.current
      /\ tab.flight.kind = "purchase" =>
             tab.purchase # None /\ tab.purchase.body = tab.flight.argument
  BY <1>1 DEF TabOK, SoundTab, Flown
<1>3. tab' = Done(tab, tab.flight, answer)
  BY <1>2 DEF Completes, Finish
<1>4. /\ TabOK(queue, tab')
      /\ Advances(tab, tab')
      /\ tab.flight.kind # "purchase" => tab'.purchase = tab.purchase
      /\ tab.flight.kind = "purchase" =>
             /\ answer.code # "undecided" => tab'.purchase = None
             /\ answer.code = "undecided" =>
                    tab'.purchase # None /\ tab'.purchase.body = tab.purchase.body
  BY <1>1, <1>3, DoneSound
<1>5. CASE tab.flight.kind = "purchase" /\ answer.code # "undecided"
  <2>1. pending' = None /\ open' = open \ {tab.flight.argument}
    BY <1>2, <1>5 DEF Completes, Reports
  <2>2. open' = {}
    BY <1>1, <1>2, <1>5, <2>1 DEF OpenHeld
  <2>3. OpenHeld(tab', pending', open')
    BY <2>1, <2>2 DEF OpenHeld
  <2> QED  BY <1>1, <1>4, <2>3, Assembled
<1>6. CASE ~(tab.flight.kind = "purchase" /\ answer.code # "undecided")
  <2>1. UNCHANGED <<pending, open>>
    BY <1>6 DEF Completes, Reports
  <2> QED  BY <1>4, <1>6, <2>1, TabOnly
<1> QED  BY <1>5, <1>6

LEMMA Received == ASSUME PollingInv, Receive PROVE Kept
<1>1. TabOK(queue, tab) /\ LateOK(late)
  BY DEF PollingInv, Holds
<1>2. tab.flight # None /\ tab.flight.answer # None
  BY DEF Receive
<1>3. tab.flight.answer \in AnswersTo(tab.flight.kind)
  BY <1>1, <1>2, TabFields, ExchangeFacts DEF TabOK, SoundTab
<1>4. Usable(tab.flight.answer) => Tells(queue, tab, tab.flight.answer)
  BY <1>1, <1>2 DEF TabOK, Answered
<1> QED  BY <1>1, <1>2, <1>3, <1>4, CompletesCurrent DEF Receive

\* Without a usable answer.
LEMMA Silence ==
  ASSUME NEW kind \in Kinds, NEW code \in Failures
  PROVE  LET answer == [code |-> code]
         IN  answer \in AnswersTo(kind) /\ ~Usable(answer)
BY DEF AnswersTo, Usable, Failures

LEMMA Missed == ASSUME PollingInv, NEW code \in Failures, Miss(code) PROVE Kept
<1> DEFINE answer == [code |-> code]
<1>1. TabOK(queue, tab) /\ LateOK(late)
  BY DEF PollingInv, Holds
<1>2. tab.flight # None /\ Completes(tab.flight, answer) /\ UNCHANGED <<queue, late>>
  BY DEF Miss
<1>3. tab.flight.kind \in Kinds
  BY <1>1, <1>2, TabFields, ExchangeFacts DEF TabOK, SoundTab
<1>4. answer \in AnswersTo(tab.flight.kind) /\ ~Usable(answer)
  BY <1>3, Silence
<1> HIDE DEF answer
<1> QED  BY <1>1, <1>2, <1>4, CompletesCurrent

LEMMA TimedOut == ASSUME PollingInv, TimeOut PROVE Kept
<1> DEFINE answer == [code |-> "undecided"]
<1>1. TabOK(queue, tab)
  BY DEF PollingInv, Holds
<1>2. tab.flight # None /\ Completes(tab.flight, answer) /\ UNCHANGED queue
  BY DEF TimeOut
<1>3. tab.flight.kind \in Kinds
  BY <1>1, <1>2, TabFields, ExchangeFacts DEF TabOK, SoundTab
<1>4. answer \in AnswersTo(tab.flight.kind) /\ ~Usable(answer)
  BY <1>3, Silence DEF Failures
<1>5. LateOK(late')
  BY AbandonsLate DEF TimeOut
<1> HIDE DEF answer
<1> QED  BY <1>2, <1>4, <1>5, CompletesCurrent

\* Nothing is done with an answer that comes late.
LEMMA ReceivedLate == ASSUME PollingInv, ReceiveLate \/ MissLate PROVE Kept
<1>1. LateOK(late) /\ late # None
  BY DEF PollingInv, Holds, ReceiveLate, MissLate
<1>2. UNCHANGED <<queue, tab, pending, open>> /\ late' = None
  BY <1>1 DEF LateOK, ReceiveLate, MissLate, Completes, Finish, Reports
<1>3. TabOK(queue, tab') /\ Advances(tab, tab')
  BY <1>2, SameView DEF PollingInv, Holds, TabOK
<1> QED  BY <1>2, <1>3, TabOnly DEF LateOK

LEMMA WaitEnded == ASSUME PollingInv, WaitEnds PROVE Kept
<1> DEFINE d == [tab EXCEPT !.held = FALSE]
<1>1. TabOK(queue, tab) /\ LateOK(late)
  BY DEF PollingInv, Holds
<1>2. tab \in Tabs
  BY <1>1 DEF TabOK, SoundTab
<1>3. d \in Tabs
  BY <1>2 DEF Tabs, Controllers
<1>4. /\ Stays(tab, d)
      /\ d.flight = tab.flight
      /\ d.held = FALSE
      /\ d.timer = tab.timer
      /\ d.phase = tab.phase
  BY <1>2 DEF Stays, Tabs, Controllers
<1>5. tab' = d
  BY DEF WaitEnds
<1> HIDE DEF d
<1>6. SoundTab(d)
  BY <1>1, <1>3, <1>4 DEF TabOK, SoundTab, Stays, Flown, Waits, Phased, Intended
<1>7. Reads(tab, d)
  BY <1>4, <1>6 DEF Reads
<1> QED  BY <1>1, <1>5, <1>7, TabReads, TabOnly DEF WaitEnds

LEMMA PollTimed == ASSUME PollingInv, PollTimer PROVE Kept
<1> DEFINE u == [tab EXCEPT !.timer = "none"]
<1>1. TabOK(queue, tab) /\ LateOK(late)
  BY DEF PollingInv, Holds
<1>2. ~tab.held
  BY <1>1, TabFields DEF PollTimer, TabOK, SoundTab, Waits
<1>3. SoundTab(u) /\ Stays(tab, u) /\ u.flight = tab.flight /\ u.held = tab.held
  BY <1>1, TimerSound DEF TabOK
<1>4. tab' = Poll(u)
  BY DEF PollTimer, Unschedule
<1> HIDE DEF u
<1>5. Reads(u, tab')
  BY <1>2, <1>3, <1>4, PollReads
<1>6. Reads(tab, tab')
  BY <1>3, <1>5 DEF Reads, Stays
<1> QED  BY <1>1, <1>6, TabReads, TabOnly DEF PollTimer

LEMMA Returned == ASSUME PollingInv, Return PROVE Kept
<1> DEFINE a == [tab EXCEPT !.timer = "any"]
           w == [tab EXCEPT !.timer = "wait"]
<1>1. TabOK(queue, tab) /\ LateOK(late)
  BY DEF PollingInv, Holds
<1>2. SoundTab(w) /\ Stays(tab, w) /\ w.flight = tab.flight
  BY <1>1, TimerSound DEF TabOK
<1>3. ~tab.held => SoundTab(a) /\ Stays(tab, a) /\ a.flight = tab.flight
  BY <1>1, TimerSound DEF TabOK
<1>4. (tab' = a /\ ~tab.held) \/ tab' \in {w, tab}
  BY DEF Return, Schedule
<1> HIDE DEF a, w
<1>5. Reads(tab, tab')
  BY <1>1, <1>2, <1>3, <1>4 DEF Reads, Stays, TabOK
<1> QED  BY <1>1, <1>5, TabReads, TabOnly DEF Return

\* A request is sent in place of what was under way: b is the tab before that.
LEMMA SendsOK ==
  ASSUME NEW q, NEW c, TabOK(q, c), NEW b, SoundTab(b), b.epoch = c.epoch, b.entry = c.entry,
         KeyFresh(q, b.intent), NEW kind, NEW argument, Fits(b, kind, argument)
  PROVE  LET d == Send(b, kind, argument)
         IN  TabOK(q, d) /\ Advances(c, d) /\ d.purchase = b.purchase
<1> DEFINE d == Send(b, kind, argument)
<1>1. SoundTab(d) /\ Stays(b, d) /\ d.flight.answer = None
  BY SendSound
<1> HIDE DEF d
<1>2. AtMost(q, d.epoch, d.entry) /\ KeyFresh(q, d.intent)
  BY <1>1 DEF TabOK, Known, Stays
<1>3. Advances(c, d)
  BY <1>1, SameView DEF TabOK, Stays
<1>4. TabOK(q, d)
  BY <1>1, <1>2, Unanswering DEF TabOK, Known
<1> QED  BY <1>1, <1>3, <1>4 DEF Stays, d

LEMMA AttemptOK ==
  ASSUME NEW q, NEW c, TabOK(q, c), NEW b, SoundTab(b), b.epoch = c.epoch, b.entry = c.entry,
         b.intent = c.intent, b.purchase # None
  PROVE  LET d == Attempt(b)
         IN  /\ TabOK(q, d)
             /\ Advances(c, d)
             /\ d.purchase # None /\ d.purchase.body = b.purchase.body
<1> DEFINE p == [b.purchase EXCEPT !.status = "sending"]
           e == [b EXCEPT !.purchase = p]
<1>1. b.purchase \in Purchases
  BY TabFields DEF SoundTab
<1>2. p \in Purchases /\ p.body = b.purchase.body /\ p.body \in Bodies
  BY <1>1 DEF Purchases
<1>3. p # None
  BY <1>2, NoneAssumption
<1>4. Attempt(b) = Send(e, "purchase", b.purchase.body)
  BY <1>1 DEF Attempt
<1> HIDE DEF p
<1>5. /\ SoundTab(e)
      /\ e.epoch = b.epoch
      /\ e.entry = b.entry
      /\ e.intent = b.intent
      /\ e.purchase = p
  BY <1>2, <1>3, PurchaseSound
<1> HIDE DEF e
<1>6. Fits(e, "purchase", b.purchase.body)
  BY <1>2, <1>3, <1>5 DEF Fits, Kinds, Arguments
<1>7. KeyFresh(q, e.intent)
  BY <1>5 DEF TabOK, Known
<1> DEFINE d == Send(e, "purchase", b.purchase.body)
<1>8. TabOK(q, d) /\ Advances(c, d) /\ d.purchase = e.purchase
  BY <1>5, <1>6, <1>7, SendsOK
<1> QED  BY <1>2, <1>3, <1>4, <1>5, <1>8

LEMMA PurchaseTimed == ASSUME PollingInv, PurchaseTimer PROVE Kept
<1>1. TabOK(queue, tab) /\ LateOK(late) /\ SoundTab(tab)
  BY DEF PollingInv, Holds, TabOK
<1>2. tab.purchase # None /\ tab' = Attempt(tab)
  BY DEF PurchaseTimer
<1>3. /\ TabOK(queue, tab')
      /\ Advances(tab, tab')
      /\ tab'.purchase # None /\ tab'.purchase.body = tab.purchase.body
  BY <1>1, <1>2, AttemptOK
<1> QED  BY <1>1, <1>3, TabOnly DEF PurchaseTimer

----------------------------------------------------------------------------
(* What the user does.                                                     *)

LEMMA PreemptSound ==
  ASSUME NEW c, SoundTab(c)
  PROVE  LET d == Preempt(c)
         IN  /\ SoundTab(d)
             /\ Stays(c, d)
             /\ d.flight = None
             /\ d.held = c.held
             /\ d.phase = c.phase
<1> DEFINE f == Drop(c)
           d == [f EXCEPT !.timer = "none"]
<1>1. SoundTab(f) /\ Stays(c, f) /\ f.flight = None /\ f.held = c.held /\ f.phase = c.phase
  BY DropSound
<1>2. Preempt(c) = d
  BY DEF Preempt, Unschedule
<1> HIDE DEF f
<1>3. SoundTab(d) /\ Stays(f, d) /\ d.flight = f.flight /\ d.held = f.held /\ d.phase = f.phase
  BY <1>1, TimerSound
<1> HIDE DEF d
<1> QED  BY <1>1, <1>2, <1>3 DEF Stays

\* The tab that is about to send a join or a cancel.
LEMMA MutantSound ==
  ASSUME NEW c, SoundTab(c)
  PROVE  LET d == [Preempt(c) EXCEPT !.busy = TRUE]
         IN  SoundTab(d) /\ Stays(c, d) /\ d.flight = None /\ d.held = c.held
<1> DEFINE f == Preempt(c)
           d == [f EXCEPT !.busy = TRUE]
<1>1. SoundTab(f) /\ Stays(c, f) /\ f.flight = None /\ f.held = c.held
  BY PreemptSound
<1> HIDE DEF f
<1>2. SoundTab(d) /\ Stays(f, d) /\ d.flight = f.flight /\ d.held = f.held
  BY <1>1, BusySound
<1> HIDE DEF d
<1>3. SoundTab(d) /\ Stays(c, d) /\ d.flight = None /\ d.held = c.held
  BY <1>1, <1>2 DEF Stays
<1> QED  BY <1>3 DEF d, f

LEMMA JoinedAgain == ASSUME PollingInv, JoinAgain PROVE Kept
<1> DEFINE b == [Preempt(tab) EXCEPT !.busy = TRUE]
           argument == [epoch |-> tab.epoch, key |-> tab.intent.key]
<1>1. TabOK(queue, tab) /\ SoundTab(tab) /\ KeyFresh(queue, tab.intent)
  BY DEF PollingInv, Holds, TabOK, Known
<1>2. SoundTab(b) /\ Stays(tab, b) /\ b.flight = None /\ b.held = tab.held
  BY <1>1, MutantSound
<1>3. /\ ~tab.held
      /\ tab.intent # None /\ tab.intent.epoch = tab.epoch
      /\ tab' = Send(b, "join", argument)
      /\ Abandons(tab.flight)
      /\ UNCHANGED <<queue, pending, open>>
  BY DEF JoinAgain, MayJoin, MayMutate, Retries, Mutate
<1> HIDE DEF b
<1>4. tab.intent \in Intents
  BY <1>1, <1>3, TabFields DEF SoundTab
<1>5. argument \in Arguments("join") /\ argument = [epoch |-> b.intent.epoch, key |-> b.intent.key]
  BY <1>2, <1>3, <1>4 DEF Arguments, Intents, Stays
<1> HIDE DEF argument
<1>6. Fits(b, "join", argument)
  BY <1>2, <1>3, <1>5 DEF Fits, Kinds, Stays
<1>7. b.epoch = tab.epoch /\ b.entry = tab.entry /\ KeyFresh(queue, b.intent)
  BY <1>1, <1>2 DEF Stays
<1>8. TabOK(queue, tab') /\ Advances(tab, tab') /\ tab'.purchase = b.purchase
  BY <1>1, <1>2, <1>3, <1>6, <1>7, SendsOK
<1> QED  BY <1>2, <1>3, <1>8, AbandonsLate, TabOnly DEF Stays

LEMMA Cancelled == ASSUME PollingInv, Cancel PROVE Kept
<1> DEFINE b == [Preempt(tab) EXCEPT !.busy = TRUE]
<1>1. TabOK(queue, tab) /\ SoundTab(tab) /\ KeyFresh(queue, tab.intent)
  BY DEF PollingInv, Holds, TabOK, Known
<1>2. SoundTab(b) /\ Stays(tab, b) /\ b.flight = None /\ b.held = tab.held
  BY <1>1, MutantSound
<1>3. /\ ~tab.held
      /\ tab.phase \in States
      /\ tab' = Send(b, "cancel", tab.entry.id)
      /\ Abandons(tab.flight)
      /\ UNCHANGED <<queue, pending, open>>
  BY DEF Cancel, MayMutate, Mutate, States, Live
<1> HIDE DEF b
<1>4. tab.entry # None /\ tab.entry \in Places
  BY <1>1, <1>3, TabFields DEF SoundTab, Phased
<1>5. tab.entry.id \in Arguments("cancel")
  BY <1>4 DEF Arguments, Places
<1>6. Fits(b, "cancel", tab.entry.id)
  BY <1>2, <1>3, <1>4, <1>5 DEF Fits, Kinds, Stays
<1>7. b.epoch = tab.epoch /\ b.entry = tab.entry /\ KeyFresh(queue, b.intent)
  BY <1>1, <1>2 DEF Stays
<1>8. TabOK(queue, tab') /\ Advances(tab, tab') /\ tab'.purchase = b.purchase
  BY <1>1, <1>2, <1>3, <1>6, <1>7, SendsOK
<1> QED  BY <1>2, <1>3, <1>8, AbandonsLate, TabOnly DEF Stays

\* The key of a new attempt, of the entry the tab shows.
LEMMA IntentSound ==
  ASSUME NEW b, SoundTab(b), b.flight = None, NEW intent \in Intents,
         intent.epoch = b.epoch, b.entry # None => b.entry.id = intent.from
  PROVE  LET d == [b EXCEPT !.intent = intent]
         IN  /\ SoundTab(d)
             /\ d.epoch = b.epoch
             /\ d.entry = b.entry
             /\ d.intent = intent
             /\ d.purchase = b.purchase
             /\ d.held = b.held
<1> DEFINE d == [b EXCEPT !.intent = intent]
<1>1. d \in Tabs
  BY DEF SoundTab, Tabs, Controllers
<1>2. /\ d.epoch = b.epoch
      /\ d.entry = b.entry
      /\ d.intent = intent
      /\ d.purchase = b.purchase
      /\ d.flight = None
      /\ d.held = b.held
      /\ d.timer = b.timer
      /\ d.phase = b.phase
  BY DEF SoundTab, Tabs, Controllers
<1>3. b.epoch \in 0..MaxEpoch /\ b.epoch <= b.epoch
  BY TabFields, PollingAssumption DEF SoundTab
<1> HIDE DEF d
<1>4. SoundTab(d)
  BY <1>1, <1>2, <1>3 DEF SoundTab, Flown, Waits, Phased, Intended
<1> QED  BY <1>2, <1>4 DEF d

LEMMA JoinedNew == ASSUME PollingInv, Join PROVE Kept
<1>1. QueueOK(queue) /\ TabOK(queue, tab) /\ SoundTab(tab) /\ tab \in Tabs
  BY DEF PollingInv, Holds, TabOK, SoundTab
<1> DEFINE from == IF tab.entry = None THEN None ELSE tab.entry.id
<1>2. PICK key \in NewKey :
        Mutate([tab EXCEPT !.intent = [epoch |-> tab.epoch, key |-> key, from |-> from]],
               "join", [epoch |-> tab.epoch, key |-> key])
  BY DEF Join
<1> DEFINE intent == [epoch |-> tab.epoch, key |-> key, from |-> from]
           argument == [epoch |-> tab.epoch, key |-> key]
           m == [Preempt(tab) EXCEPT !.busy = TRUE]
           b == [m EXCEPT !.intent = intent]
<1>3. /\ ~tab.held /\ tab.epoch # 0 /\ tab.purchase = None
      /\ UNCHANGED <<queue, pending, open>>
  BY DEF Join, MayJoin, MayMutate, Idle
<1>4. /\ key \in Keys
      /\ \A id \in DOMAIN queue.entries : queue.entries[id].key # key
  BY <1>2 DEF NewKey, KeysInUse, Keys
<1>5. tab.epoch \in Epochs /\ tab.entry \in Places \cup {None} /\ from \in Ids \cup {None}
  BY <1>1, <1>3, TabFields, PollingAssumption DEF Epochs, Places
<1>6. intent \in Intents /\ argument \in Arguments("join")
  BY <1>4, <1>5 DEF Intents, Arguments
<1>7. KeyFresh(queue, intent)
  <2>1. from # None => from <= Len(queue.entries)
    BY <1>1 DEF TabOK, Known, AtMost
  <2> QED  BY <1>1, <1>4, <2>1, QueueFacts DEF KeyFresh
<1>8. SoundTab(m) /\ Stays(tab, m) /\ m.flight = None /\ m.held = tab.held
  BY <1>1, MutantSound
<1>9. tab' = Send([Preempt([tab EXCEPT !.intent = intent]) EXCEPT !.busy = TRUE], "join", argument)
  BY <1>2 DEF Mutate
<1>10. Abandons(tab.flight) /\ LateOK(late')
  BY <1>2, AbandonsLate DEF Mutate
<1>11. [Preempt([tab EXCEPT !.intent = intent]) EXCEPT !.busy = TRUE] = b
  BY <1>1 DEF Preempt, Drop, Unschedule, Tabs, Controllers
<1>12. intent.epoch = m.epoch /\ (m.entry # None => m.entry.id = intent.from)
  BY <1>8 DEF Stays
<1>13. intent.epoch = argument.epoch /\ argument = [epoch |-> intent.epoch, key |-> intent.key]
  OBVIOUS
<1> HIDE DEF m, intent, argument
<1>14. /\ SoundTab(b)
       /\ b.epoch = m.epoch
       /\ b.entry = m.entry
       /\ b.intent = intent
       /\ b.purchase = m.purchase
       /\ b.held = m.held
  BY <1>6, <1>8, <1>12, IntentSound
<1> HIDE DEF b
<1>15. intent # None
  BY <1>6, NoneAssumption
<1>16. Fits(b, "join", argument)
  BY <1>3, <1>6, <1>8, <1>12, <1>13, <1>14, <1>15 DEF Fits, Kinds
<1>17. b.epoch = tab.epoch /\ b.entry = tab.entry /\ KeyFresh(queue, b.intent)
  BY <1>7, <1>8, <1>14 DEF Stays
<1>18. tab' = Send(b, "join", argument)
  BY <1>9, <1>11
<1>19. TabOK(queue, tab') /\ Advances(tab, tab')
  BY <1>1, <1>14, <1>16, <1>17, <1>18, SendsOK
<1> QED  BY <1>3, <1>10, <1>19, TabOnly

\* Only a tab without a purchase starts one, so that no other is open.
LEMMA PurchaseStarted == ASSUME PollingInv, NEW form \in Forms, StartPurchase(form) PROVE Kept
<1> DEFINE body == [id |-> tab.entry.id, form |-> form]
           p == Buys(body)
           f == Preempt(tab)
           b == [f EXCEPT !.purchase = p]
<1>1. /\ QueueOK(queue) /\ TabOK(queue, tab) /\ SoundTab(tab)
      /\ OpenHeld(tab, pending, open)
  BY DEF PollingInv, Holds, TabOK
<1>2. /\ tab.purchase = None
      /\ tab.phase = "admitted"
      /\ tab' = Attempt(b)
      /\ pending' = body
      /\ open' = open \cup {body}
      /\ UNCHANGED queue
      /\ LateOK(late')
  BY AbandonsLate DEF StartPurchase, Idle
<1>3. tab.entry # None /\ tab.entry \in Places
  BY <1>1, <1>2, TabFields DEF SoundTab, Phased, States, Live
<1>4. body \in Bodies
  BY <1>3 DEF Bodies, Places
<1>5. p \in Purchases /\ p.body = body
  BY <1>4, PollingAssumption DEF Buys, Purchases
<1> HIDE DEF body, p
<1>6. SoundTab(f) /\ Stays(tab, f) /\ f.flight = None
  BY <1>1, PreemptSound
<1> HIDE DEF f
<1>7. /\ SoundTab(b)
      /\ b.epoch = f.epoch
      /\ b.entry = f.entry
      /\ b.intent = f.intent
      /\ b.purchase = p
  BY <1>5, <1>6, PurchaseSound
<1> HIDE DEF b
<1>8. p # None
  BY <1>5, NoneAssumption
<1>9. /\ TabOK(queue, tab')
      /\ Advances(tab, tab')
      /\ tab'.purchase # None /\ tab'.purchase.body = body
  <2>1. b.epoch = tab.epoch /\ b.entry = tab.entry /\ b.intent = tab.intent /\ b.purchase # None
    BY <1>6, <1>7, <1>8 DEF Stays
  <2> QED  BY <1>1, <1>2, <1>5, <1>7, <2>1, AttemptOK
<1>10. open = {}
  BY <1>1, <1>2 DEF OpenHeld
<1>11. OpenHeld(tab', pending', open')
  BY <1>2, <1>4, <1>9, <1>10 DEF OpenHeld
<1> QED  BY <1>1, <1>2, <1>9, <1>11, Assembled

LEMMA PurchaseRetried == ASSUME PollingInv, RetryPurchase PROVE Kept
<1> DEFINE f == Preempt(tab)
           p == [tab.purchase EXCEPT !.auto = 0]
           b == [f EXCEPT !.purchase = p]
<1>1. TabOK(queue, tab) /\ SoundTab(tab)
  BY DEF PollingInv, Holds, TabOK
<1>2. /\ tab.purchase # None
      /\ tab' = Attempt([f EXCEPT !.purchase.auto = 0])
      /\ UNCHANGED <<queue, pending, open>>
      /\ LateOK(late')
  BY AbandonsLate DEF RetryPurchase
<1>3. tab.purchase \in Purchases
  BY <1>1, <1>2, TabFields DEF SoundTab
<1>4. p \in Purchases /\ p.body = tab.purchase.body
  BY <1>3, PollingAssumption DEF Purchases
<1>5. SoundTab(f) /\ Stays(tab, f) /\ f.flight = None
  BY <1>1, PreemptSound
<1>6. [f EXCEPT !.purchase.auto = 0] = b
  <2>1. f.purchase = tab.purchase
    BY <1>5 DEF Stays
  <2> HIDE DEF f
  <2> QED  BY <2>1
<1> HIDE DEF f, p
<1>7. /\ SoundTab(b)
      /\ b.epoch = f.epoch
      /\ b.entry = f.entry
      /\ b.intent = f.intent
      /\ b.purchase = p
  BY <1>4, <1>5, PurchaseSound
<1>8. p # None
  BY <1>4, NoneAssumption
<1>9. tab' = Attempt(b)
  BY <1>2, <1>6
<1> HIDE DEF b
<1>10. b.epoch = tab.epoch /\ b.entry = tab.entry /\ b.intent = tab.intent /\ b.purchase # None
  BY <1>5, <1>7, <1>8 DEF Stays
<1>11. /\ TabOK(queue, tab')
       /\ Advances(tab, tab')
       /\ tab'.purchase # None /\ tab'.purchase.body = tab.purchase.body
  BY <1>1, <1>4, <1>7, <1>9, <1>10, AttemptOK
<1> QED  BY <1>2, <1>11, TabOnly

LEMMA PurchaseStopped == ASSUME PollingInv, StopPurchase PROVE Kept
<1> DEFINE f == Drop(tab)
           p == [tab.purchase EXCEPT !.status = "unconfirmed"]
           b == [f EXCEPT !.purchase = p]
<1>1. TabOK(queue, tab) /\ SoundTab(tab)
  BY DEF PollingInv, Holds, TabOK
<1>2. /\ tab.purchase # None
      /\ tab' = Refresh([f EXCEPT !.purchase.status = "unconfirmed"])
      /\ UNCHANGED <<queue, pending, open>>
      /\ LateOK(late')
  BY AbandonsLate DEF StopPurchase, Purchasing
<1>3. tab.purchase \in Purchases
  BY <1>1, <1>2, TabFields DEF SoundTab
<1>4. p \in Purchases /\ p.body = tab.purchase.body
  BY <1>3 DEF Purchases
<1>5. SoundTab(f) /\ Stays(tab, f) /\ f.flight = None
  BY <1>1, DropSound
<1>6. [f EXCEPT !.purchase.status = "unconfirmed"] = b
  <2>1. f.purchase = tab.purchase
    BY <1>5 DEF Stays
  <2> HIDE DEF f
  <2> QED  BY <2>1
<1> HIDE DEF f, p
<1>7. /\ SoundTab(b)
      /\ b.epoch = f.epoch
      /\ b.entry = f.entry
      /\ b.intent = f.intent
      /\ b.purchase = p
      /\ b.flight = f.flight
  BY <1>4, <1>5, PurchaseSound
<1>8. p # None
  BY <1>4, NoneAssumption
<1>9. tab' = Refresh(b)
  BY <1>2, <1>6
<1> HIDE DEF b
<1>10. b.epoch = tab.epoch /\ b.entry = tab.entry /\ b.intent = tab.intent
  BY <1>5, <1>7 DEF Stays
<1>11. TabOK(queue, b) /\ Advances(tab, b)
  <2>1. Known(queue, b) /\ Advances(tab, b)
    BY <1>1, <1>10, KnowsNoMore, SameView DEF TabOK
  <2>2. Answered(queue, b)
    BY <1>5, <1>7, Unanswering
  <2> QED  BY <1>7, <2>1, <2>2 DEF TabOK
<1>12. TabOK(queue, tab') /\ tab'.purchase = p
  BY <1>7, <1>9, <1>11, RefreshReads, TabReads
<1>13. Advances(tab, tab')
  <2>1. tab'.epoch = tab.epoch /\ tab'.entry = tab.entry
    BY <1>7, <1>9, <1>10, RefreshReads DEF Reads, Stays
  <2> QED  BY <1>1, <2>1, SameView
<1> QED  BY <1>2, <1>4, <1>8, <1>12, <1>13, TabOnly

\* A new controller, with nothing but the purchase it restored.
LEMMA NewSound ==
  ASSUME NEW q, QueueOK(q), NEW body \in Bodies \cup {None}
  PROVE  LET n == NewController(body)
         IN  /\ TabOK(q, n)
             /\ ~n.held
             /\ n.entry = None
             /\ body # None => n.purchase # None /\ n.purchase.body = body
<1> DEFINE p == IF body = None THEN None
                ELSE [body |-> body, status |-> "unconfirmed", auto |-> AutoRetries]
           n == [phase |-> "loading", epoch |-> 0, entry |-> None, reset |-> FALSE,
                 stopped |-> FALSE, held |-> FALSE, timer |-> "none", flight |-> None,
                 busy |-> FALSE, intent |-> None, purchase |-> p]
<1>1. NewController(body) = n
  BY DEF NewController
<1>2. /\ p \in Purchases \cup {None}
      /\ body # None => p \in Purchases /\ p.body = body
  BY PollingAssumption DEF Purchases
<1>3. body # None => p # None /\ p.body = body
  BY <1>2, NoneAssumption
<1> HIDE DEF p
<1>4. n \in Tabs
  BY <1>2, PollingAssumption DEF Tabs, Controllers
<1>5. /\ n.phase = "loading" /\ n.epoch = 0 /\ n.entry = None /\ ~n.held
      /\ n.timer = "none" /\ n.flight = None /\ n.intent = None /\ n.purchase = p
  OBVIOUS
<1> HIDE DEF n
<1>6. SoundTab(n)
  BY <1>4, <1>5 DEF SoundTab, Flown, Waits, Phased, Intended, States, Live
<1>7. Known(q, n) /\ Answered(q, n)
  BY <1>5, QueueFacts, PollingAssumption DEF Known, AtMost, KeyFresh, Answered, Epochs
<1> QED  BY <1>1, <1>3, <1>5, <1>6, <1>7 DEF TabOK

LEMMA Restarted == ASSUME PollingInv, Restart PROVE Kept
<1> DEFINE n == NewController(pending)
<1>1. QueueOK(queue) /\ OpenHeld(tab, pending, open) /\ pending \in Bodies \cup {None}
  BY DEF PollingInv, Holds, OpenHeld
<1>2. /\ TabOK(queue, n)
      /\ ~n.held
      /\ n.entry = None
      /\ pending # None => n.purchase # None /\ n.purchase.body = pending
  BY <1>1, NewSound
<1>3. tab' = Poll(n) /\ UNCHANGED <<queue, pending, open>> /\ LateOK(late')
  BY AbandonsLate DEF Restart
<1> HIDE DEF n
<1>4. Reads(n, tab')
  BY <1>2, <1>3, PollReads DEF TabOK
<1>5. TabOK(queue, tab') /\ tab'.purchase = n.purchase
  BY <1>2, <1>4, TabReads
<1>6. tab'.entry = None
  BY <1>2, <1>4 DEF Reads, Stays
<1>7. OpenHeld(tab', pending', open')
  <2>1. \A body \in open : body \in Bodies /\ pending = body
    BY <1>1 DEF OpenHeld
  <2>2. None \notin Bodies
    BY NoneAssumption
  <2>3. \A body \in open : tab'.purchase # None /\ tab'.purchase.body = body
    BY <1>2, <1>5, <2>1, <2>2
  <2> QED  BY <1>1, <1>3, <2>3 DEF OpenHeld
<1>8. Advances(tab, tab')
  BY <1>6 DEF Advances
<1> QED  BY <1>1, <1>3, <1>5, <1>7, <1>8, Assembled

----------------------------------------------------------------------------
(* What the server does.                                                   *)

LEMMA GrowsSame == ASSUME NEW q, QueueOK(q) PROVE Grows(q, q)
<1>1. q.epoch \in Int /\ Len(q.entries) \in Nat
  BY QueueFacts, PollingAssumption DEF Epochs
<1>2. ASSUME NEW id \in 1..Len(q.entries), q.entries[id].state # "gone"
      PROVE  Rank(q.entries[id].state) <= Rank(q.entries[id].state)
  BY <1>2, QueueFacts, Ranks
<1> QED  BY <1>1, <1>2 DEF Grows

LEMMA GrowthTab ==
  ASSUME NEW q, NEW r, NEW c, QueueOK(q), QueueOK(r), Grows(q, r), TabOK(q, c)
  PROVE  TabOK(r, c)
<1>1. c.epoch \in 0..MaxEpoch /\ c.entry \in Places \cup {None} /\ c.intent \in Intents \cup {None}
  BY TabFields DEF TabOK, SoundTab
<1>2. Known(r, c)
  BY <1>1, GrowthKeeps DEF TabOK, Known
<1>3. Answered(r, c)
  <2> SUFFICES ASSUME c.flight # None, c.flight.answer # None, Usable(c.flight.answer)
               PROVE  AtMost(r, c.flight.answer.epoch, c.flight.answer.entry)
    BY DEF TabOK, Answered, Tells
  <2>1. c.flight \in Exchange
    BY TabFields DEF TabOK, SoundTab
  <2>2. c.flight.answer \in AnswersTo(c.flight.kind)
    BY <2>1, ExchangeFacts
  <2>3. c.flight.answer \in Sightings
    BY <2>2 DEF AnswersTo, Usable, Failures
  <2>4. c.flight.answer.epoch \in 0..MaxEpoch /\ c.flight.answer.entry \in Places \cup {None}
    BY <2>3, SightingFacts, PollingAssumption DEF Epochs
  <2>5. AtMost(q, c.flight.answer.epoch, c.flight.answer.entry)
    BY DEF TabOK, Answered, Tells
  <2> QED  BY <2>4, <2>5, GrowthKeeps
<1> QED  BY <1>2, <1>3 DEF TabOK

\* Only the queue changes.
LEMMA QueueOnly ==
  ASSUME PollingInv, QueueOK(queue'), Grows(queue, queue'), UNCHANGED <<tab, late, pending, open>>
  PROVE  Kept
<1>1. TabOK(queue', tab')
  BY GrowthTab DEF PollingInv, Holds
<1>2. Advances(tab, tab')
  BY SameView DEF PollingInv, Holds, TabOK
<1>3. LateOK(late') /\ OpenHeld(tab', pending', open')
  BY DEF PollingInv, Holds
<1> QED  BY <1>1, <1>2, <1>3, Assembled

\* An exchange is answered, and the queue may change with it.
LEMMA AnswerGiven ==
  ASSUME PollingInv, QueueOK(queue'), Grows(queue, queue'), UNCHANGED <<pending, open>>,
         NEW x \in {tab.flight, late} \ {None}, x.answer = None,
         NEW answer \in AnswersTo(x.kind),
         x = tab.flight /\ Usable(answer) => Tells(queue', tab, answer),
         Answers(x, answer)
  PROVE  Kept
<1>1. /\ TabOK(queue', tab)
      /\ SoundTab(tab) /\ tab \in Tabs
      /\ LateOK(late)
      /\ OpenHeld(tab, pending, open)
  BY GrowthTab DEF PollingInv, Holds, TabOK, SoundTab
<1>2. CASE x.current
  <2> DEFINE y == [x EXCEPT !.answer = answer]
             d == [tab EXCEPT !.flight = y]
  <2>1. x = tab.flight /\ x \in Exchange
    BY <1>1, <1>2, TabFields DEF LateOK
  <2>2. y \in Exchange
    BY <2>1, ExchangeKept
  <2>3. x \in Exchanges(x.kind)
    BY <2>1, ExchangeFacts
  <2>4. y.kind = x.kind /\ y.argument = x.argument /\ y.current /\ y.answer = answer
    BY <1>2, <2>3 DEF Exchanges
  <2>5. tab' = d /\ UNCHANGED late
    BY <1>2, <2>1 DEF Answers
  <2> HIDE DEF y
  <2>6. d \in Tabs
    BY <1>1, <2>2 DEF Tabs, Controllers
  <2>7. /\ Stays(tab, d)
        /\ d.flight = y
        /\ d.held = tab.held
        /\ d.timer = tab.timer
        /\ d.phase = tab.phase
    BY <1>1 DEF Stays, Tabs, Controllers
  <2> HIDE DEF d
  <2>8. SoundTab(d)
    BY <1>1, <2>1, <2>4, <2>6, <2>7 DEF SoundTab, Stays, Flown, Waits, Phased, Intended
  <2>9. Known(queue', d) /\ Advances(tab, d)
    BY <1>1, <2>7, KnowsNoMore, SameView DEF TabOK, Stays
  <2>10. Answered(queue', d)
    BY <2>1, <2>4, <2>7 DEF Answered, Tells, Stays, Shown
  <2>11. TabOK(queue', tab') /\ Advances(tab, tab')
    BY <2>5, <2>8, <2>9, <2>10 DEF TabOK
  <2>12. OpenHeld(tab', pending', open')
    BY <1>1, <2>5, <2>7 DEF OpenHeld, Stays
  <2> QED  BY <1>1, <2>5, <2>11, <2>12, Assembled
<1>3. CASE ~x.current
  <2>1. tab' = tab /\ late' = None
    BY <1>3 DEF Answers, Finish
  <2>2. Advances(tab, tab')
    BY <1>1, <2>1, SameView
  <2>3. OpenHeld(tab', pending', open') /\ TabOK(queue', tab') /\ LateOK(late')
    BY <1>1, <2>1 DEF OpenHeld, LateOK
  <2> QED  BY <2>2, <2>3, Assembled
<1> QED  BY <1>2, <1>3

LEMMA LatestFacts ==
  ASSUME QueueOK(queue), Latest # 0
  PROVE  /\ Latest \in 1..Len(queue.entries)
         /\ Latest = Len(queue.entries)
         /\ Latest \in Ids
         /\ StateOf(Latest) \in States
<1>1. Latest = Len(queue.entries) /\ StateOf(Latest) # "gone"
  BY DEF Latest
<1>2. Latest \in 1..Len(queue.entries) /\ Latest \in Ids
  BY <1>1, QueueFacts, PollingAssumption DEF Ids
<1> QED  BY <1>1, <1>2, QueueFacts DEF StateOf

\* An entry as it stands is at most what it is.
LEMMA SeenTrue ==
  ASSUME NEW q, QueueOK(q), NEW id \in 1..Len(q.entries), q.entries[id].state # "gone"
  PROVE  LET answer == [code |-> "seen", epoch |-> q.epoch,
                        entry |-> [id |-> id, state |-> q.entries[id].state]]
         IN  /\ answer \in Sightings
             /\ AtMost(q, answer.epoch, answer.entry)
             /\ answer.epoch = q.epoch
             /\ answer.entry.id = id /\ answer.entry.state = q.entries[id].state
<1> DEFINE place == [id |-> id, state |-> q.entries[id].state]
<1>1. q.epoch \in Epochs /\ q.entries[id].state \in States /\ id \in Ids
  BY QueueFacts, PollingAssumption DEF Ids
<1>2. place \in Places /\ place.id = id /\ place.state = q.entries[id].state
  BY <1>1 DEF Places
<1>3. Rank(q.entries[id].state) <= Rank(q.entries[id].state) /\ q.epoch <= q.epoch /\ id <= Len(q.entries)
  BY <1>1, Ranks, QueueFacts, PollingAssumption DEF Epochs
<1> HIDE DEF place
<1> DEFINE answer == [code |-> "seen", epoch |-> q.epoch, entry |-> place]
<1>4. answer \in Sightings /\ answer.epoch = q.epoch /\ answer.entry = place
  BY <1>1, <1>2 DEF Sightings
<1> HIDE DEF answer
<1>5. AtMost(q, answer.epoch, answer.entry)
  BY <1>2, <1>3, <1>4 DEF AtMost
<1> QED  BY <1>2, <1>4, <1>5 DEF answer, place

\* A true place that is not behind the tab's own, in what the server knows.
LEMMA TellsCurrent ==
  ASSUME NEW q, QueueOK(q), NEW c, TabOK(q, c), NEW answer \in Sightings,
         answer.epoch = q.epoch, AtMost(q, answer.epoch, answer.entry),
         answer.entry # None /\ c.entry # None /\ c.epoch = q.epoch =>
             \/ c.entry.id < answer.entry.id
             \/ /\ c.entry.id = answer.entry.id
                /\ answer.entry.state = q.entries[answer.entry.id].state
  PROVE  Tells(q, c, answer)
<1>1. c.epoch \in Int /\ q.epoch \in Int /\ c.epoch <= q.epoch
  BY QueueFacts, TabFields, PollingAssumption DEF TabOK, SoundTab, Known, AtMost, Epochs
<1>2. ASSUME c.entry # None, answer.entry # None
      PROVE  NotBack(Shown(c), answer)
  <2>1. CASE c.epoch < q.epoch
    BY <2>1 DEF NotBack, Shown
  <2>2. CASE c.epoch = q.epoch
    <3>1. Rank(c.entry.state) <= Rank(q.entries[c.entry.id].state)
      BY <1>2, <2>2 DEF TabOK, Known, AtMost
    <3> QED  BY <1>2, <2>2, <3>1 DEF NotBack, Shown
  <2> QED  BY <1>1, <2>1, <2>2
<1> QED  BY <1>1, <1>2 DEF Tells

LEMMA StatusServed == ASSUME PollingInv, ServeStatus PROVE Kept
<1>1. PICK x \in Unanswered("status") : Answers(x, Seen(Latest))
  BY DEF ServeStatus
<1>2. /\ x \in {tab.flight, late} \ {None}
      /\ x.kind = "status" /\ x.answer = None
      /\ UNCHANGED <<queue, pending, open>>
  BY DEF Unanswered, ServeStatus
<1>3. QueueOK(queue) /\ TabOK(queue, tab) /\ Grows(queue, queue')
  BY <1>2, GrowsSame DEF PollingInv, Holds
<1>4. Seen(Latest) \in Sightings /\ Tells(queue, tab, Seen(Latest))
  <2>1. CASE Latest = 0
    <3> DEFINE answer == [code |-> "seen", epoch |-> queue.epoch, entry |-> None]
    <3>1. Seen(Latest) = answer
      BY <2>1 DEF Seen
    <3>2. answer \in Sightings /\ answer.epoch = queue.epoch /\ answer.entry = None
      BY <1>3, QueueFacts DEF Sightings
    <3> HIDE DEF answer
    <3>3. AtMost(queue, answer.epoch, answer.entry)
      BY <1>3, <3>2, QueueFacts, PollingAssumption DEF AtMost, Epochs
    <3> QED  BY <1>3, <3>1, <3>2, <3>3, TellsCurrent
  <2>2. CASE Latest # 0
    <3> DEFINE id == Latest
               answer == [code |-> "seen", epoch |-> queue.epoch,
                          entry |-> [id |-> id, state |-> queue.entries[id].state]]
    <3>1. id \in 1..Len(queue.entries) /\ id = Len(queue.entries) /\ StateOf(id) \in States
      BY <1>3, <2>2, LatestFacts
    <3>2. Seen(Latest) = answer
      BY <2>2 DEF Seen, SeenAs, StateOf
    <3>3. queue.entries[id].state # "gone"
      BY <3>1 DEF StateOf, States, Live
    <3> HIDE DEF id
    <3>4. /\ answer \in Sightings
          /\ AtMost(queue, answer.epoch, answer.entry)
          /\ answer.epoch = queue.epoch
          /\ answer.entry.id = id /\ answer.entry.state = queue.entries[id].state
      BY <1>3, <3>1, <3>3, SeenTrue
    <3> HIDE DEF answer
    <3>5. tab.entry # None => tab.entry.id <= id /\ tab.entry.id \in Int /\ id \in Int
      BY <1>3, <3>1, TabFields, QueueFacts, PollingAssumption
         DEF TabOK, SoundTab, Known, AtMost, Places, Ids
    <3>6. Tells(queue, tab, answer)
      BY <1>3, <3>4, <3>5, TellsCurrent
    <3> QED  BY <3>2, <3>4, <3>6
  <2> QED  BY <2>1, <2>2
<1>5. Seen(Latest) \in AnswersTo(x.kind)
  BY <1>2, <1>4 DEF AnswersTo
<1>6. QueueOK(queue') /\ Tells(queue', tab, Seen(Latest))
  BY <1>2, <1>3, <1>4
<1> DEFINE answer == Seen(Latest)
<1> HIDE DEF answer
<1>7. answer \in AnswersTo(x.kind) /\ Tells(queue', tab, answer) /\ Answers(x, answer)
  BY <1>1, <1>5, <1>6 DEF answer
<1> QED  BY <1>2, <1>3, <1>6, <1>7, AnswerGiven

\* The place of the entry id, after what the request did to it, answers x.
LEMMA PlaceGiven ==
  ASSUME PollingInv, QueueOK(queue'), Grows(queue, queue'), UNCHANGED <<pending, open>>,
         NEW x \in {tab.flight, late} \ {None}, x.answer = None, x.kind \in {"join", "cancel"},
         NEW id \in 1..Len(queue'.entries), NEW state \in States,
         queue'.entries[id].state = state, queue'.epoch = queue.epoch,
         x = tab.flight /\ tab.entry # None /\ tab.epoch = queue.epoch => tab.entry.id <= id,
         Answers(x, SeenAs(id, state))
  PROVE  Kept
<1> DEFINE answer == [code |-> "seen", epoch |-> queue'.epoch,
                      entry |-> [id |-> id, state |-> queue'.entries[id].state]]
<1>1. SeenAs(id, state) = answer
  BY DEF SeenAs
<1>2. queue'.entries[id].state # "gone"
  BY DEF States, Live
<1>3. TabOK(queue', tab)
  BY GrowthTab DEF PollingInv, Holds
<1> HIDE DEF answer
<1>4. /\ answer \in Sightings
      /\ AtMost(queue', answer.epoch, answer.entry)
      /\ answer.epoch = queue'.epoch
      /\ answer.entry.id = id /\ answer.entry.state = queue'.entries[id].state
  <2> DEFINE q == queue'
  <2> HIDE DEF q
  <2>1. QueueOK(q) /\ id \in 1..Len(q.entries) /\ q.entries[id].state # "gone"
    BY <1>2 DEF q
  <2>2. LET given == [code |-> "seen", epoch |-> q.epoch,
                      entry |-> [id |-> id, state |-> q.entries[id].state]]
        IN  /\ given \in Sightings
            /\ AtMost(q, given.epoch, given.entry)
            /\ given.epoch = q.epoch
            /\ given.entry.id = id /\ given.entry.state = q.entries[id].state
    BY <2>1, SeenTrue
  <2> QED  BY <2>2 DEF answer, q
<1>5. x = tab.flight => Tells(queue', tab, answer)
  <2> SUFFICES ASSUME x = tab.flight
               PROVE  Tells(queue', tab, answer)
    OBVIOUS
  <2>1. tab.entry # None => tab.entry.id \in Int
    BY <1>3, TabFields, PollingAssumption DEF TabOK, SoundTab, Places, Ids
  <2>2. id \in Int
    OBVIOUS
  <2>3. answer.entry # None /\ tab.entry # None /\ tab.epoch = queue'.epoch =>
            \/ tab.entry.id < answer.entry.id
            \/ /\ tab.entry.id = answer.entry.id
               /\ answer.entry.state = queue'.entries[answer.entry.id].state
    BY <1>4, <2>1, <2>2
  <2> QED  BY <1>3, <1>4, <2>3, TellsCurrent
<1>6. answer \in AnswersTo(x.kind)
  BY <1>4 DEF AnswersTo
<1>7. Answers(x, answer)
  BY <1>1
<1> QED  BY <1>5, <1>6, <1>7, AnswerGiven

LEMMA RefusalGiven ==
  ASSUME PollingInv, UNCHANGED <<queue, pending, open>>,
         NEW x \in {tab.flight, late} \ {None}, x.answer = None, x.kind \in Kinds,
         NEW code \in Failures \cup {"decided"}, code = "decided" => x.kind = "purchase",
         Answers(x, [code |-> code])
  PROVE  Kept
<1> DEFINE answer == [code |-> code]
<1>1. answer \in AnswersTo(x.kind) /\ ~Usable(answer)
  BY DEF AnswersTo, Usable, Failures
<1>2. QueueOK(queue') /\ Grows(queue, queue')
  BY GrowsSame DEF PollingInv, Holds
<1> HIDE DEF answer
<1>3. Answers(x, answer)
  BY DEF answer
<1> QED  BY <1>1, <1>2, <1>3, AnswerGiven

LEMMA JoinServed == ASSUME PollingInv, ServeJoin PROVE Kept
<1> DEFINE own(x) == {id \in DOMAIN queue.entries : queue.entries[id].key = x.argument.key}
<1>1. PICK x \in Unanswered("join") :
        \/ \E id \in own(x) :
              x.argument.epoch = queue.epoch /\ Answers(x, Seen(id)) /\ UNCHANGED queue
        \/ Answers(x, [code |-> "refused"]) /\ UNCHANGED queue
        \/ /\ x.argument.epoch = queue.epoch
           /\ Len(queue.entries) < MaxEntries
           /\ Enters(x.argument.key)
           /\ Answers(x, SeenAs(Len(queue.entries) + 1, "waiting"))
  BY DEF ServeJoin
<1>2. /\ x \in {tab.flight, late} \ {None}
      /\ x.kind = "join" /\ x.answer = None
      /\ UNCHANGED <<pending, open>>
  BY DEF Unanswered, ServeJoin
<1>3. QueueOK(queue) /\ TabOK(queue, tab) /\ SoundTab(tab) /\ LateOK(late)
  BY DEF PollingInv, Holds, TabOK
<1>4. x \in Exchange
  BY <1>2, <1>3, TabFields DEF LateOK, SoundTab
<1>5. x.argument.key \in Keys /\ x.argument.key \in 1..MaxKeys
  BY <1>2, <1>4, ExchangeFacts DEF Arguments, Keys
<1>6. ASSUME x = tab.flight, tab.entry # None
      PROVE  /\ tab.entry.id \in Ids
             /\ tab.entry.id <= Len(queue.entries)
             /\ tab.intent # None /\ x.argument.key = tab.intent.key
             /\ tab.intent.from = tab.entry.id
  <2>1. tab.entry \in Places
    BY <1>3, <1>6, TabFields DEF SoundTab
  <2> QED  BY <1>2, <1>3, <1>6, <2>1 DEF TabOK, SoundTab, Flown, Intended, Known, AtMost, Places
<1>7. CASE \E id \in own(x) :
             x.argument.epoch = queue.epoch /\ Answers(x, Seen(id)) /\ UNCHANGED queue
  <2>1. PICK id \in own(x) : Answers(x, Seen(id)) /\ UNCHANGED queue
    BY <1>7
  <2>2. /\ id \in 1..Len(queue.entries)
        /\ queue.entries[id].key = x.argument.key
        /\ queue.entries[id].state \in States \cup {"gone"}
    BY <1>3, <2>1, QueueFacts
  <2>3. queue.entries[id].state \in States
    BY <1>3, <1>5, <2>2 DEF QueueOK
  <2>4. id # 0 /\ Seen(id) = SeenAs(id, queue.entries[id].state)
    BY <2>2 DEF Seen, StateOf
  <2>5. ASSUME x = tab.flight, tab.entry # None
        PROVE  tab.entry.id <= id
    <3>1. tab.entry.id # None
      BY <1>6, <2>5, NoneAssumption
    <3>2. tab.intent.from < id
      BY <1>3, <1>6, <2>2, <2>5, <3>1 DEF TabOK, Known, KeyFresh
    <3> QED  BY <1>6, <2>5, <3>2, PollingAssumption DEF Ids
  <2>6. QueueOK(queue') /\ Grows(queue, queue') /\ queue' = queue
    BY <1>3, <2>1, GrowsSame
  <2> QED  BY <1>2, <2>1, <2>2, <2>3, <2>4, <2>5, <2>6, PlaceGiven
<1>8. CASE Answers(x, [code |-> "refused"]) /\ UNCHANGED queue
  BY <1>2, <1>8, RefusalGiven DEF Failures, Kinds
<1>9. CASE /\ Len(queue.entries) < MaxEntries
           /\ Enters(x.argument.key)
           /\ Answers(x, SeenAs(Len(queue.entries) + 1, "waiting"))
  <2> DEFINE r == [queue EXCEPT !.entries =
                       Append(@, [key |-> x.argument.key, state |-> "waiting"])]
             id == Len(queue.entries) + 1
  <2>1. queue' = r
    BY <1>9 DEF Enters
  <2>2. /\ QueueOK(r)
        /\ Grows(queue, r)
        /\ r.epoch = queue.epoch
        /\ Len(r.entries) = id
        /\ r.entries[id].state = "waiting"
    BY <1>3, <1>5, <1>9, EntersGrows
  <2> HIDE DEF r
  <2>3. id \in 1..Len(r.entries) /\ "waiting" \in States
    BY <1>3, <2>2, QueueFacts DEF States, Live
  <2>4. x = tab.flight /\ tab.entry # None => tab.entry.id <= id
    BY <1>3, <1>6, QueueFacts, PollingAssumption DEF Ids
  <2>5. Answers(x, SeenAs(id, "waiting"))
    BY <1>9
  <2> HIDE DEF id
  <2>6. /\ QueueOK(queue') /\ Grows(queue, queue') /\ queue'.epoch = queue.epoch
        /\ id \in 1..Len(queue'.entries) /\ queue'.entries[id].state = "waiting"
    BY <2>1, <2>2, <2>3
  <2> QED  BY <1>2, <2>3, <2>4, <2>5, <2>6, PlaceGiven
<1> QED  BY <1>1, <1>7, <1>8, <1>9

\* The state of an entry moves on, with or without an answer.
LEMMA BecomesOK ==
  ASSUME PollingInv, NEW id \in Ids, NEW state \in States, Becomes(id, state),
         StateOf(id) \in States, Rank(StateOf(id)) <= Rank(state)
  PROVE  /\ QueueOK(queue')
         /\ Grows(queue, queue')
         /\ queue'.epoch = queue.epoch
         /\ id <= Len(queue.entries) => queue'.entries[id].state = state
         /\ Len(queue'.entries) = Len(queue.entries)
<1>1. QueueOK(queue)
  BY DEF PollingInv, Holds
<1>2. queue' = [queue EXCEPT !.entries[id].state = state]
  BY DEF Becomes
<1>3. queue.entries[id].state \in States /\ Rank(queue.entries[id].state) <= Rank(state)
  BY DEF StateOf
<1> DEFINE r == [queue EXCEPT !.entries[id].state = state]
<1>4. /\ QueueOK(r)
      /\ Grows(queue, r)
      /\ r.epoch = queue.epoch
      /\ id <= Len(queue.entries) => r.entries[id].state = state
      /\ Len(r.entries) = Len(queue.entries)
  BY <1>1, <1>3, BecomesGrows
<1> QED  BY <1>2, <1>4

LEMMA CancelServed == ASSUME PollingInv, ServeCancel PROVE Kept
<1>1. PICK x \in Unanswered("cancel") :
        \/ /\ StateOf(x.argument) \in {"waiting", "admitted", "ended"}
           /\ Becomes(x.argument, "ended")
           /\ Answers(x, SeenAs(x.argument, "ended"))
        \/ Answers(x, [code |-> "refused"]) /\ UNCHANGED queue
  BY DEF ServeCancel
<1>2. /\ x \in {tab.flight, late} \ {None}
      /\ x.kind = "cancel" /\ x.answer = None
      /\ UNCHANGED <<pending, open>>
  BY DEF Unanswered, ServeCancel
<1>3. QueueOK(queue) /\ TabOK(queue, tab) /\ SoundTab(tab) /\ LateOK(late)
  BY DEF PollingInv, Holds, TabOK
<1>4. x \in Exchange
  BY <1>2, <1>3, TabFields DEF LateOK, SoundTab
<1> DEFINE id == x.argument
<1>5. id \in Ids
  BY <1>2, <1>4, ExchangeFacts DEF Arguments
<1>6. x = tab.flight => tab.entry # None /\ tab.entry.id = id /\ id <= Len(queue.entries)
  BY <1>2, <1>3 DEF TabOK, SoundTab, Flown, Known, AtMost
<1>7. CASE /\ StateOf(id) \in {"waiting", "admitted", "ended"}
           /\ Becomes(id, "ended")
           /\ Answers(x, SeenAs(id, "ended"))
  <2>1. "ended" \in States /\ StateOf(id) \in States /\ Rank(StateOf(id)) <= Rank("ended")
    BY <1>7, Ranks DEF States, Live
  <2>2. /\ QueueOK(queue')
        /\ Grows(queue, queue')
        /\ queue'.epoch = queue.epoch
        /\ id <= Len(queue.entries) => queue'.entries[id].state = "ended"
        /\ Len(queue'.entries) = Len(queue.entries)
    BY <1>5, <1>7, <2>1, BecomesOK
  <2> HIDE DEF id
  <2>3. CASE x = tab.flight
    <3>1. id \in 1..Len(queue'.entries) /\ queue'.entries[id].state = "ended"
      BY <1>3, <1>5, <1>6, <2>2, <2>3, QueueFacts, PollingAssumption DEF Ids
    <3>2. tab.entry.id <= id
      BY <1>5, <1>6, <2>3, PollingAssumption DEF Ids
    <3> QED  BY <1>2, <1>7, <2>1, <2>2, <3>1, <3>2, PlaceGiven
  <2>4. CASE x # tab.flight
    <3> DEFINE answer == SeenAs(id, "ended")
    <3>1. answer \in AnswersTo(x.kind)
      BY <1>2, <1>3, <1>5, <2>1, QueueFacts DEF AnswersTo, SeenAs, Sightings, Places
    <3>2. Answers(x, answer)
      BY <1>7
    <3> HIDE DEF answer
    <3> QED  BY <1>2, <2>2, <2>4, <3>1, <3>2, AnswerGiven
  <2> QED  BY <2>3, <2>4
<1>8. CASE Answers(x, [code |-> "refused"]) /\ UNCHANGED queue
  BY <1>2, <1>8, RefusalGiven DEF Failures, Kinds
<1> QED  BY <1>1, <1>7, <1>8

LEMMA PurchaseServed == ASSUME PollingInv, ServePurchase PROVE Kept
<1>1. PICK x \in Unanswered("purchase") :
        \/ /\ StateOf(x.argument.id) = "admitted"
           /\ Becomes(x.argument.id, "processing")
           /\ UNCHANGED <<tab, late>>
        \/ /\ StateOf(x.argument.id) = "processing"
           /\ Becomes(x.argument.id, "ended")
           /\ Answers(x, [code |-> "decided"])
        \/ Answers(x, [code |-> "decided"]) /\ UNCHANGED queue
  BY DEF ServePurchase
<1>2. /\ x \in {tab.flight, late} \ {None}
      /\ x.kind = "purchase" /\ x.answer = None
      /\ UNCHANGED <<pending, open>>
  BY DEF Unanswered, ServePurchase
<1>3. QueueOK(queue) /\ SoundTab(tab) /\ LateOK(late)
  BY DEF PollingInv, Holds, TabOK
<1>4. x \in Exchange
  BY <1>2, <1>3, TabFields DEF LateOK, SoundTab
<1> DEFINE id == x.argument.id
<1>5. id \in Ids
  BY <1>2, <1>4, ExchangeFacts DEF Arguments, Bodies
<1>6. {"admitted", "processing", "ended"} \subseteq States
  BY DEF States, Live
<1>7. CASE StateOf(id) = "admitted" /\ Becomes(id, "processing") /\ UNCHANGED <<tab, late>>
  <2>1. Rank(StateOf(id)) <= Rank("processing")
    BY <1>7, Ranks
  <2>2. QueueOK(queue') /\ Grows(queue, queue')
    BY <1>5, <1>6, <1>7, <2>1, BecomesOK
  <2> QED  BY <1>2, <1>7, <2>2, QueueOnly
<1>8. CASE /\ StateOf(id) = "processing"
           /\ Becomes(id, "ended")
           /\ Answers(x, [code |-> "decided"])
  <2>1. Rank(StateOf(id)) <= Rank("ended")
    BY <1>8, Ranks
  <2>2. QueueOK(queue') /\ Grows(queue, queue')
    BY <1>5, <1>6, <1>8, <2>1, BecomesOK
  <2> DEFINE answer == [code |-> "decided"]
  <2>3. answer \in AnswersTo(x.kind) /\ ~Usable(answer)
    BY <1>2 DEF AnswersTo, Usable
  <2>4. Answers(x, answer)
    BY <1>8
  <2> HIDE DEF answer
  <2> QED  BY <1>2, <2>2, <2>3, <2>4, AnswerGiven
<1>9. CASE Answers(x, [code |-> "decided"]) /\ UNCHANGED queue
  BY <1>2, <1>9, RefusalGiven DEF Kinds
<1> QED  BY <1>1, <1>7, <1>8, <1>9

LEMMA QueueMoved ==
  ASSUME PollingInv, Promote \/ Expire \/ OtherJoin \/ ResetQueue
  PROVE  Kept
<1>1. QueueOK(queue)
  BY DEF PollingInv, Holds
<1>2. UNCHANGED <<tab, late, pending, open>>
  BY DEF Promote, Expire, OtherJoin, ResetQueue
<1>3. CASE Promote \/ Expire
  <2>1. Latest # 0 /\ (Becomes(Latest, "ended") \/ (StateOf(Latest) = "waiting" /\ Becomes(Latest, "admitted")))
    BY <1>3 DEF Promote, Expire, LatestLive
  <2> DEFINE id == Latest
  <2>2. id \in Ids /\ StateOf(id) \in States
    BY <1>1, <2>1, LatestFacts
  <2>3. Rank(StateOf(id)) \in 0..3 /\ {"admitted", "ended"} \subseteq States
    BY <2>2, Ranks DEF States, Live
  <2> HIDE DEF id
  <2>4. Becomes(id, "ended") \/ (StateOf(id) = "waiting" /\ Becomes(id, "admitted"))
    BY <2>1 DEF id
  <2>5. QueueOK(queue') /\ Grows(queue, queue')
    <3>1. CASE Becomes(id, "ended")
      BY <2>2, <2>3, <3>1, BecomesOK, Ranks
    <3>2. CASE StateOf(id) = "waiting" /\ Becomes(id, "admitted")
      BY <2>2, <2>3, <3>2, BecomesOK, Ranks
    <3> QED  BY <2>4, <3>1, <3>2
  <2> QED  BY <1>2, <2>5, QueueOnly
<1>4. CASE OtherJoin
  <2>1. 0 \in 0..MaxKeys /\ Len(queue.entries) < MaxEntries
    BY <1>4, PollingAssumption DEF OtherJoin
  <2>2. queue' = [queue EXCEPT !.entries = Append(@, [key |-> 0, state |-> "waiting"])]
    BY <1>4 DEF OtherJoin, Enters
  <2>3. QueueOK(queue') /\ Grows(queue, queue')
    BY <1>1, <2>1, <2>2, EntersGrows
  <2> QED  BY <1>2, <2>3, QueueOnly
<1>5. CASE ResetQueue
  <2>1. QueueOK(queue') /\ Grows(queue, queue')
    BY <1>1, <1>5, ResetGrows DEF ResetQueue
  <2> QED  BY <1>2, <2>1, QueueOnly
<1> QED  BY <1>3, <1>4, <1>5

----------------------------------------------------------------------------
(* The theorems.                                                           *)

LEMMA PollingInitial == PollingInit => PollingInv
<1> SUFFICES ASSUME PollingInit
             PROVE  PollingInv
  OBVIOUS
<1> DEFINE n == NewController(None)
           q == [epoch |-> 1, entries |-> <<>>]
<1>1. QueueOK(q)
  <2>1. <<>> \in Seq(Records) /\ Len(<<>>) = 0
    BY EmptySeq
  <2> QED  BY <2>1, PollingAssumption DEF QueueOK, Queues, Epochs, Records
<1>2. queue = q /\ tab = Poll(n) /\ pending = None /\ open = {} /\ late = None
  BY DEF PollingInit
<1> HIDE DEF q
<1>3. TabOK(q, n) /\ ~n.held
  BY <1>1, NewSound
<1> HIDE DEF n
<1>4. TabOK(q, Poll(n))
  BY <1>3, PollReads, TabReads DEF TabOK
<1>5. OpenHeld(tab, pending, open) /\ LateOK(late)
  BY <1>2 DEF OpenHeld, LateOK
<1> QED  BY <1>1, <1>2, <1>4, <1>5 DEF PollingInv, Holds

LEMMA PollingStep == PollingInv /\ [PollingNext]_pollingVars => PollingInv' /\ Advances(tab, tab')
<1> SUFFICES ASSUME PollingInv, [PollingNext]_pollingVars
             PROVE  Kept
  BY DEF Kept
<1>1. CASE TabNext
  BY <1>1, Received, ReceivedLate, Missed, TimedOut, WaitEnded, PollTimed, PurchaseTimed,
     Returned
     DEF TabNext
<1>2. CASE UserNext
  BY <1>2, JoinedNew, JoinedAgain, Cancelled, PurchaseStarted, PurchaseRetried,
     PurchaseStopped, Restarted
     DEF UserNext
<1>3. CASE ServerNext
  BY <1>3, StatusServed, JoinServed, CancelServed, PurchaseServed, QueueMoved DEF ServerNext
<1>4. CASE UNCHANGED pollingVars
  <2>1. QueueOK(queue) /\ TabOK(queue, tab) /\ LateOK(late) /\ OpenHeld(tab, pending, open)
    BY DEF PollingInv, Holds
  <2>2. QueueOK(queue') /\ TabOK(queue', tab') /\ LateOK(late') /\ OpenHeld(tab', pending', open')
    BY <1>4, <2>1 DEF pollingVars
  <2>3. Advances(tab, tab')
    BY <1>4, <2>1, SameView DEF pollingVars, TabOK
  <2> QED  BY <2>2, <2>3, Assembled
<1> QED  BY <1>1, <1>2, <1>3, <1>4 DEF PollingNext

\* The tab, the queue and the open purchases fit together after every step.
THEOREM PollingCorrect == PollingSpec => []PollingInv
BY PollingInitial, PollingStep, PTL DEF PollingSpec

\* No purchase takes the place of one that was sent and not decided.
THEOREM OnePurchaseOpen == PollingSpec => []OneOpenPurchase
<1>1. ASSUME PollingInv
      PROVE  OneOpenPurchase
  BY <1>1 DEF PollingInv, Holds, OpenHeld, OneOpenPurchase
<1> QED  BY <1>1, PollingCorrect, PTL

\* No request to the queue is out while the wait after a failure lasts.
THEOREM WaitHeld == PollingSpec => []QueueWaitHeld
<1>1. ASSUME PollingInv
      PROVE  QueueWaitHeld
  BY <1>1 DEF PollingInv, Holds, TabOK, SoundTab, Waits, QueueWaitHeld
<1> QED  BY <1>1, PollingCorrect, PTL

\* The place the page shows never moves back.
THEOREM ViewAdvancesAlways == PollingSpec => ViewNeverGoesBack
<1>1. PollingInv /\ [PollingNext]_pollingVars => [ViewKept]_pollingVars
  BY PollingStep, ViewAdvances
<1> QED  BY <1>1, PollingCorrect, PTL DEF PollingSpec, ViewNeverGoesBack

\* Every reachable state is one of the controller's and of the queue's.
THEOREM PollingTyped == PollingSpec => []PollingTypeOK
<1>1. ASSUME PollingInv
      PROVE  PollingTypeOK
  <2>1. /\ QueueOK(queue) /\ tab \in Tabs /\ LateOK(late)
        /\ pending \in Bodies \cup {None} /\ open \subseteq Bodies
    BY <1>1 DEF PollingInv, Holds, TabOK, SoundTab, OpenHeld
  <2>2. tab \in Controllers({tab.flight})
    BY <2>1 DEF Tabs, Controllers
  <2>3. ASSUME NEW x \in {tab.flight, late} \ {None}
        PROVE  x.kind \in Kinds /\ x \in Exchanges(x.kind)
    BY <2>1, TabFields, ExchangeFacts DEF LateOK
  <2> QED  BY <2>1, <2>2, <2>3 DEF PollingTypeOK, QueueOK
<1> QED  BY <1>1, PollingCorrect, PTL

=============================================================================
