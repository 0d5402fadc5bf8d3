------------------------------ MODULE DemoPage ------------------------------
(***************************************************************************)
(* The demo page (frontend/app.jsx): one user presses buttons, every       *)
(* button starts an asynchronous handler, and the handlers share a demo    *)
(* session that expires, is rejected, is cleared and is issued again.      *)
(* The user may change the API base or the mode, or press Reset, while     *)
(* handlers wait.                                                          *)
(*                                                                         *)
(* A handler keeps the mode it was started under (its closure).  It waits  *)
(* for the session ("session"), sends its request ("server"), and repeats  *)
(* it once with a new session when the token was rejected.  The mock mode  *)
(* is a base of its own that needs no session.  What the page shows is     *)
(* kept only as far as buttons depend on it, and it has one event; an      *)
(* answer of step 1 or 7 is only its end.  Rendering and effects are taken *)
(* as part of the step that set the state.                                 *)
(*                                                                         *)
(* The controller of the queue is AdmissionPolling; here it is the phase   *)
(* it shows and the purchase it sends through the page.                    *)
(***************************************************************************)
EXTENDS Integers

CONSTANTS
    Bases, Mock,   \* API bases, among them the mock mode
    Users,
    Buttons,       \* the buttons of steps that are pressed
    Slots,         \* the handlers under way at a time
    None,
    MaxGen         \* bounds the ends of a session generation

ASSUME DemoPageAssumption == Mock \in Bases /\ None \notin Users
                                  /\ Buttons \subseteq {"s1", "s3", "s4", "s5", "A", "B", "s7"}

VARIABLES
    place,       \* the API base selected, and the last session's user with its base
    auth,        \* the session, its generation and the requests for one
    controller,  \* the queue context's controller, or None
    open,        \* the stored purchases of unknown outcome
    flows,       \* the handlers under way
    running,     \* the steps shown as running
    proven,      \* step 6 is shown as done
    shown        \* what the page holds

pageVars == <<place, auth, controller, open, flows, running, proven, shown>>

\* Steps 1 and 7 read with GraphQL, without a session.
Reads == {"s1", "s7"}
Steps == Reads \cup {"s3", "s4", "s5", "s6"}
Dups == {"A", "B"}
Phases == {"closed", "not-enabled", "admitted", "consumed"}
Asks == {"first", "second"}
Idle == [kind |-> None]
Blank == [reservation |-> FALSE, order |-> FALSE, settlement |-> FALSE, key |-> FALSE,
          busy |-> {}]
\* The page once the demo was run to its end.
Complete == [reservation |-> TRUE, order |-> TRUE, settlement |-> TRUE, key |-> TRUE,
             busy |-> {}]

Kinds == Steps \cup Dups \cup {"buy", "load", "all"}

\* None is told from whatever may stand in its place.
ASSUME NoneAssumption ==
    /\ None \notin Asks \cup Phases \cup Kinds
    /\ None \notin [gen : Nat] /\ None \notin [fresh : BOOLEAN]

Auths == [gen : Nat, session : [fresh : BOOLEAN] \cup {None}, flight : Asks \cup {None},
          asks : [Asks -> [gen : Nat] \cup {None}]]
Flows == [kind : Kinds, base : Bases, at : {"server", "session", "pause"},
          ask : Asks \cup {None}, again : BOOLEAN, next : Steps \cup {None}]

PageTypeOK ==
    /\ place \in [base : Bases, user : Users \cup {None}, userBase : Bases \cup {None}]
    /\ auth \in Auths
    /\ controller \in Phases \cup {None}
    /\ open \subseteq [base : Bases, user : Users \cup {None}]
    /\ flows \in [Slots -> Flows \cup {Idle}]
    /\ running \subseteq Steps
    /\ proven \in BOOLEAN

Live(base) == base # Mock
Under(kind) == \E x \in Slots : flows[x].kind = kind

DemoPageInit ==
    /\ place \in [base : Bases, user : {None}, userBase : {None}]
    /\ auth = [gen |-> 0, session |-> None, flight |-> None, asks |-> [a \in Asks |-> None]]
    /\ controller = None
    /\ open = {}
    /\ flows = [x \in Slots |-> Idle]
    /\ running = {}
    /\ proven = FALSE
    /\ shown \in {Blank, Complete}

----------------------------------------------------------------------------
(* The session.  s is the auth record.                                     *)

\* clearLiveDemoSession
Cleared(s) == [s EXCEPT !.gen = @ + 1, !.session = None, !.flight = None]

\* liveSessionRef.current = null: the page still shows the session, and nobody uses it.
Dropped(s) == IF s.session = None THEN s ELSE [s EXCEPT !.session.fresh = FALSE]

HasSession(s) == s.session # None /\ s.session.fresh
FreeAsks(s) == {a \in Asks : s.asks[a] = None}

\* A call of ensureLiveDemoSession can be answered within the bounds.
MayEnsure(s) == HasSession(s) \/ s.flight # None \/ FreeAsks(s) # {}

\* ensureLiveDemoSession: the session, the request under way, or a request of its own.
Ensured(s) ==
    IF HasSession(s) \/ s.flight # None THEN s
    ELSE LET a == CHOOSE x \in FreeAsks(s) : TRUE
         IN  [s EXCEPT !.asks[a] = [gen |-> s.gen], !.flight = a]

\* Where the handler that called it goes on.
Awaits(s, flow) ==
    IF HasSession(s) THEN [flow EXCEPT !.at = "server", !.ask = None]
    ELSE [flow EXCEPT !.at = "session", !.ask = Ensured(s).flight]

----------------------------------------------------------------------------
(* The queue context: one controller per base, event and user.             *)

QueueUser(p) == IF Live(p.base) /\ p.userBase = p.base THEN p.user ELSE None

\* The stored purchase of this context: its outcome is open.
Here == [base |-> place.base, user |-> QueueUser(place)]
PurchaseOpen == Here \in open

\* The purchase that was running stays shown as running.
MountLeavingStep(p) ==
    /\ place' = p
    /\ controller' = IF QueueUser(p) = None THEN None ELSE "closed"
    /\ UNCHANGED <<running, proven>>

\* The page at p, where another controller takes over and the purchase of the one before is not
\* running any more.
Mount(p) ==
    /\ place' = p
    /\ controller' = IF QueueUser(p) = None THEN None ELSE "closed"
    /\ running' = IF controller # None THEN running \ {"s3"} ELSE running
    /\ UNCHANGED proven

Without(fs, kinds) == [x \in Slots |-> IF fs[x].kind \in kinds THEN Idle ELSE fs[x]]

\* What the controller was sending has nowhere to land, and what was loaded is stale.
Disposed(fs) == Without(fs, {"buy", "load"})

SwitchBase(base) ==
    /\ base # place.base /\ auth.gen < MaxGen
    /\ Mount([place EXCEPT !.base = base])
    /\ auth' = Cleared(auth)
    /\ flows' = Disposed(flows)
    /\ UNCHANGED <<open, shown>>

\* recheckQueue with a queue user: the context starts again.
Recheck ==
    /\ QueueUser(place) # None
    /\ Mount(place)
    /\ flows' = Disposed(flows)
    /\ UNCHANGED <<auth, open, shown>>

\* A live page with an event and no queue user asks for a session by itself.
RecoverSession ==
    /\ Live(place.base) /\ QueueUser(place) = None
    /\ ~HasSession(auth) /\ auth.flight = None /\ FreeAsks(auth) # {}
    /\ auth' = Ensured(auth)
    /\ UNCHANGED <<place, controller, open, flows, running, proven, shown>>

----------------------------------------------------------------------------
(* The buttons.                                                            *)

\* A handler starts: in the live mode with the session, in the mock mode or to read at once.
Begin(kind) ==
    LET flow == [kind |-> kind, base |-> place.base, at |-> "server", ask |-> None,
                 again |-> FALSE, next |-> None]
        free == {x \in Slots : flows[x] = Idle}
    IN  /\ free # {}
        /\ LET x == CHOOSE y \in free : TRUE
           IN  IF Live(place.base) /\ kind \notin Reads
               THEN /\ MayEnsure(auth)
                    /\ auth' = Ensured(auth)
                    /\ flows' = [flows EXCEPT ![x] = Awaits(auth, flow)]
               ELSE /\ flows' = [flows EXCEPT ![x] = flow]
                    /\ UNCHANGED auth

Runs(step) == running' = running \cup {step} /\ UNCHANGED proven
Stops(steps) == running' = running \ steps /\ UNCHANGED proven
SessionReady == Live(place.base) => auth.session # None

Free(k) == k \notin running \cup shown.busy

\* Step 3, with the queue not in use or, for Buy, admitted.
MayReserve(phase) ==
    Free("s3") /\ (Live(place.base) => controller = phase /\ ~PurchaseOpen)

MayCheckOut == Free("s4") /\ shown.reservation
MaySettle == Free("s5") /\ shown.order /\ SessionReady

\* Step 6: runDupReplay with the key of step 5, runDupSemantic with a new one.
MayReplay == Free("A") /\ shown.order /\ shown.settlement /\ shown.key /\ SessionReady
MayRepeat == Free("B") /\ shown.order /\ shown.settlement /\ SessionReady

MayLookUp == Free("s7")

\* Step 1 has a second button that is always there.
MayPress(k) ==
    CASE k = "s1" -> TRUE
      [] k = "s3" -> MayReserve("not-enabled")
      [] k = "s4" -> MayCheckOut
      [] k = "s5" -> MaySettle
      [] k = "A" -> MayReplay
      [] k = "B" -> MayRepeat
      [] k = "s7" -> MayLookUp

Press(k) ==
    /\ MayPress(k)
    /\ Begin(k)
    /\ shown' = [shown EXCEPT !.busy = @ \cup ({k} \cap Dups), !.key = @ \/ k = "s5"]
    /\ IF k \notin Dups THEN Runs(k)
       ELSE IF proven THEN UNCHANGED <<running, proven>> ELSE Runs("s6")
    /\ UNCHANGED <<place, controller, open>>

\* The controller sends its purchase.
Sends == Begin("buy") /\ Runs("s3")

\* Step 3 of a protected event: the purchase is stored and sent.
Buy ==
    /\ Live(place.base) /\ MayReserve("admitted")
    /\ Sends
    /\ open' = open \cup {Here}
    /\ UNCHANGED <<place, controller, shown>>

\* The same request again, when the outcome stayed unknown.
RetryPurchase ==
    /\ controller # None /\ PurchaseOpen /\ ~Under("buy")
    /\ Sends
    /\ UNCHANGED <<place, controller, open, shown>>

\* loadReservation: the reservation this admission was used for is read back, whether the page
\* holds another one or none.
LoadReservation ==
    /\ controller = "consumed"
    /\ Begin("load")
    /\ UNCHANGED <<place, controller, open, running, proven, shown>>

\* The controller's view moves on; while a purchase is being sent it reads nothing.  With
\* another admission what was asked for the one before is stale.
QueueMoves ==
    /\ controller # None /\ ~Under("buy")
    /\ controller' \in Phases
    /\ flows' = IF controller' = "consumed" THEN flows ELSE Without(flows, {"load"})
    /\ UNCHANGED <<place, auth, open, running, proven, shown>>

\* Reset: the page is blank and the session ends; a purchase being sent stops, and stays open.
Reset ==
    /\ auth.gen < MaxGen
    /\ auth' = Cleared(auth)
    /\ shown' = Blank
    /\ running' = {}
    /\ proven' = FALSE
    /\ flows' = Disposed(flows)
    /\ UNCHANGED <<place, controller, open>>

\* runAll, in the mock mode: Reset, and one step after the other without the buttons' guards.
RunAll ==
    /\ ~Live(place.base) /\ auth.gen < MaxGen
    /\ \E x \in Slots :
           /\ flows[x] = Idle
           /\ flows' = [flows EXCEPT ![x] = [kind |-> "all", base |-> place.base, at |-> "pause",
                                             ask |-> None, again |-> FALSE, next |-> "s1"]]
    /\ auth' = Cleared(auth)
    /\ shown' = Blank
    /\ running' = {}
    /\ proven' = FALSE
    /\ UNCHANGED <<place, controller, open>>

\* The next step of runAll; of the duplicates it shows only the end.
RunNext(x) ==
    /\ flows[x].kind = "all" /\ flows[x].at = "pause"
    /\ flows' = [flows EXCEPT ![x].at = "server"]
    /\ IF flows[x].next = "s6" THEN UNCHANGED <<running, proven>> ELSE Runs(flows[x].next)
    /\ shown' = CASE flows[x].next = "s3" -> [shown EXCEPT !.reservation = FALSE]
                  [] flows[x].next = "s5" -> [shown EXCEPT !.key = TRUE]
                  [] OTHER -> shown
    /\ UNCHANGED <<place, auth, controller, open>>

----------------------------------------------------------------------------
(* The answers.                                                            *)

\* The handlers of these kinds failed.  A duplicate that failed ends step 6 for both.
Failed(kinds) == Stops(IF kinds \cap Dups = {} THEN kinds ELSE kinds \cup {"s6"})

\* The end of any request forgets the one under way.
EndedForgettingAny(a) == [auth EXCEPT !.asks[a] = None, !.flight = None]

\* A request for a session ends; the request of a later call is not its to forget.
Ended(a) == [auth EXCEPT !.asks[a] = None, !.flight = IF @ = a THEN None ELSE @]

Waiting(a) == {x \in Slots : flows[x].kind # None /\ flows[x].ask = a}

\* The session arrives, and the queue context follows its user.
SessionAnswered(a, user) ==
    /\ auth.asks[a] # None /\ auth.asks[a].gen = auth.gen
    /\ auth' = [Ended(a) EXCEPT !.session = [fresh |-> TRUE]]
    /\ LET p == [place EXCEPT !.user = IF Live(place.base) THEN user ELSE None,
                             !.userBase = place.base]
           new == QueueUser(p) # QueueUser(place)
           on == [x \in Slots |->
                    IF x \notin Waiting(a) THEN flows[x]
                    ELSE [flows[x] EXCEPT !.at = "server", !.ask = None]]
       IN  /\ flows' = IF new THEN Disposed(on) ELSE on
           /\ IF new THEN Mount(p)
              ELSE place' = p /\ UNCHANGED <<controller, running, proven>>
    /\ UNCHANGED <<open, shown>>

\* The end of an earlier generation's request is ignored.
SessionFailsIfCurrent(a) ==
    /\ auth.asks[a] # None /\ auth.asks[a].gen = auth.gen
    /\ auth' = [Ended(a) EXCEPT !.session = None]
    /\ LET kinds == {flows[x].kind : x \in Waiting(a)}
       IN  /\ Failed(kinds)
           /\ shown' = [shown EXCEPT !.busy = @ \ kinds]
    /\ flows' = [x \in Slots |-> IF x \in Waiting(a) THEN Idle ELSE flows[x]]
    /\ UNCHANGED <<place, controller, open>>

\* It fails: an answer that is no session, one of an earlier generation, or none within the
\* timeout.  Every handler that waited for it fails too.
SessionFails(a) ==
    /\ auth.asks[a] # None
    /\ auth' = IF auth.asks[a].gen = auth.gen THEN [Ended(a) EXCEPT !.session = None]
               ELSE Ended(a)
    /\ LET kinds == {flows[x].kind : x \in Waiting(a)}
       IN  /\ Failed(kinds)
           /\ shown' = [shown EXCEPT !.busy = @ \ kinds]
    /\ flows' = [x \in Slots |-> IF x \in Waiting(a) THEN Idle ELSE flows[x]]
    /\ UNCHANGED <<place, controller, open>>

AtServer(x) == flows[x].kind # None /\ flows[x].at = "server"
Over(x) == flows' = [flows EXCEPT ![x] = Idle]

\* The first attempt is refused for its token: the handler of a step clears the session, which
\* makes a load stale; a purchase or a load only drops it.  All go on with a new one.
Rejected(x) ==
    /\ AtServer(x) /\ Live(flows[x].base) /\ ~flows[x].again /\ flows[x].kind \notin Reads
    /\ LET own == flows[x].kind \in {"buy", "load"}
           s == IF own THEN Dropped(auth) ELSE Cleared(auth)
       IN  /\ own \/ auth.gen < MaxGen
           /\ MayEnsure(s)
           /\ auth' = Ensured(s)
           /\ flows' = [(IF own THEN flows ELSE Without(flows, {"load"}))
                             EXCEPT ![x] = [Awaits(s, flows[x]) EXCEPT !.again = TRUE]]
    /\ UNCHANGED <<place, controller, open, running, proven, shown>>

\* A step's request fails for any reason.
StepFails(x) ==
    /\ AtServer(x) /\ flows[x].kind \in Steps \cup Dups
    /\ Failed({flows[x].kind})
    /\ shown' = [shown EXCEPT !.busy = @ \ {flows[x].kind}]
    /\ Over(x)
    /\ UNCHANGED <<place, auth, controller, open>>

\* What the page shows after the success of a step.
Shown(step) ==
    CASE step = "s3" -> [shown EXCEPT !.reservation = TRUE]
      [] step = "s4" -> [shown EXCEPT !.order = TRUE]
      [] step = "s5" -> [shown EXCEPT !.settlement = TRUE]
      [] OTHER -> [shown EXCEPT !.busy = @ \ {step}]

Proves == running' = running \ {"s6"} /\ proven' = TRUE

StepSucceeds(x) ==
    /\ AtServer(x) /\ flows[x].kind \in Steps \cup Dups
    /\ IF flows[x].kind \in Dups THEN Proves ELSE Stops({flows[x].kind})
    /\ shown' = Shown(flows[x].kind)
    /\ Over(x)
    /\ UNCHANGED <<place, auth, controller, open>>

RunAllAnswered(x) ==
    /\ AtServer(x) /\ flows[x].kind = "all"
    /\ LET step == flows[x].next
       IN  /\ IF step = "s6" THEN Proves ELSE Stops({step})
           /\ shown' = Shown(step)
           /\ IF step = "s7" THEN Over(x)
              ELSE flows' = [flows EXCEPT ![x].at = "pause",
                                          ![x].next = CASE step = "s1" -> "s3"
                                                         [] step = "s3" -> "s4"
                                                         [] step = "s4" -> "s5"
                                                         [] step = "s5" -> "s6"
                                                         [] step = "s6" -> "s7"]
    /\ UNCHANGED <<place, auth, controller, open>>

\* The reservation is adopted and step 3 done, or the answer is no reservation.
Loaded(x, ok) ==
    /\ AtServer(x) /\ flows[x].kind = "load"
    /\ shown' = [shown EXCEPT !.reservation = @ \/ ok]
    /\ IF ok THEN Stops({"s3"}) ELSE UNCHANGED <<running, proven>>
    /\ Over(x)
    /\ UNCHANGED <<place, auth, controller, open>>

\* onPurchaseResult: the outcome is known.
Bought(x, ok) ==
    /\ AtServer(x) /\ flows[x].kind = "buy"
    /\ open' = open \ {Here}
    /\ Stops({"s3"})
    /\ shown' = [shown EXCEPT !.reservation = @ \/ ok]
    /\ Over(x)
    /\ UNCHANGED <<place, auth, controller>>

\* It is not: the controller repeats the purchase, or leaves it to the user.
PurchaseUnknown(x) ==
    /\ AtServer(x) /\ flows[x].kind = "buy"
    /\ \/ Over(x) /\ UNCHANGED auth
       \/ /\ MayEnsure(auth)
          /\ auth' = Ensured(auth)
          /\ flows' = [flows EXCEPT ![x] = [Awaits(auth, flows[x])
                                            EXCEPT !.again = FALSE]]
    /\ UNCHANGED <<place, controller, open, running, proven, shown>>

SessionAges ==
    /\ HasSession(auth)
    /\ auth' = Dropped(auth)
    /\ UNCHANGED <<place, controller, open, flows, running, proven, shown>>

----------------------------------------------------------------------------
User ==
    \/ \E base \in Bases : SwitchBase(base)
    \/ Recheck \/ LoadReservation \/ Buy \/ RetryPurchase \/ Reset \/ RunAll
    \/ \E k \in Buttons : Press(k)

StepAnswered(x) == StepFails(x) \/ StepSucceeds(x) \/ RunAllAnswered(x)
QueueAnswered(x) ==
    \/ PurchaseUnknown(x)
    \/ \E ok \in BOOLEAN : Bought(x, ok) \/ Loaded(x, ok)

DemoPageNext ==
    \/ User \/ QueueMoves \/ RecoverSession \/ SessionAges
    \/ \E a \in Asks : SessionFails(a) \/ \E user \in Users : SessionAnswered(a, user)
    \/ \E x \in Slots : StepAnswered(x) \/ QueueAnswered(x) \/ Rejected(x) \/ RunNext(x)

\* Every request for a session has a timeout.
DemoPageFairness == \A a \in Asks : WF_pageVars(SessionFails(a))

DemoPageSpec == DemoPageInit /\ [][DemoPageNext]_pageVars /\ DemoPageFairness
----------------------------------------------------------------------------
\* At any time at most one request is out for a session of the current generation, whoever
\* asked, was rejected or timed out in between (app.jsx:305-307, 354, 358).
OneSessionRequest ==
    \A a, b \in Asks :
        /\ a # b
        /\ auth.asks[a] # None
        /\ auth.asks[b] # None
        => auth.asks[a].gen # auth.gen \/ auth.asks[b].gen # auth.gen

\* A step shown as running has a handler that will end it, or, for step 3, a purchase the user
\* can ask about again: no Reset, rejected token or failed session leaves it running for ever.
RunningInFlight ==
    \A k \in running :
        \/ Under(k) \/ Under("all")
        \/ k = "s6" /\ (Under("A") \/ Under("B"))
        \/ k = "s3" /\ controller # None /\ PurchaseOpen

\* A handler that waits for a session stops waiting, even when the request was cleared, the
\* page is at another base, or the server never answers (app.jsx:317-320).
WaitsEnd ==
    \A x \in Slots :
        LET waits == flows[x].kind # None /\ flows[x].at = "session" IN waits ~> ~waits
====
