--------------------------- MODULE DemoPageProofs ---------------------------
(***************************************************************************)
(* Proofs about DemoPage for every set of bases, users and buttons and any *)
(* number of handlers at a time.  One invariant carries both theorems: the *)
(* request under way is the only one of its generation, and a step that is *)
(* shown as running has a handler, or a stored purchase, to end it.        *)
(***************************************************************************)
EXTENDS DemoPage, TLAPS

\* A request of the current generation is the one under way.
Sound(s) ==
    /\ s \in Auths
    /\ \A a \in Asks : s.asks[a] # None =>
           /\ s.asks[a].gen <= s.gen
           /\ s.asks[a].gen = s.gen => s.flight = a

\* runAll is in the mock mode, waits for no session and always has a next step.
SoundFlows ==
    {f \in Flows : f.kind = "all" => ~Live(f.base) /\ f.ask = None /\ f.next # None}
        \cup {Idle}

\* The handler f will end step k.
Covers(f, k) ==
    \/ f.kind = k
    \/ f.kind = "all" /\ f.at = "server" /\ f.next = k
    \/ f.kind \in Dups /\ k = "s6"

\* The controller still has the purchase that step 3 shows.
Asked(k) == k = "s3" /\ controller # None /\ PurchaseOpen

StepsSound == \A k \in running : (\E x \in Slots : Covers(flows[x], k)) \/ Asked(k)

PageInv ==
    /\ PageTypeOK
    /\ Sound(auth)
    /\ flows \in [Slots -> SoundFlows]
    /\ StepsSound

----------------------------------------------------------------------------
(* The session.                                                            *)

\* What ends a generation, drops a session or asks for one keeps one request.
LEMMA ClearedSound ==
  ASSUME NEW s, Sound(s)
  PROVE  Sound(Cleared(s))
<1> DEFINE c == Cleared(s)
<1>1. /\ s.gen + 1 \in Nat
      /\ s \in Auths
  BY DEF Sound, Auths
<1>2. c \in Auths
  BY <1>1 DEF Cleared, Auths
<1>3. /\ c.gen = s.gen + 1
      /\ c.asks = s.asks
  BY <1>1 DEF Cleared, Auths
<1>4. ASSUME NEW a \in Asks, c.asks[a] # None
      PROVE  /\ c.asks[a].gen <= c.gen
             /\ c.asks[a].gen # c.gen
  <2>1. /\ s.asks[a].gen <= s.gen
        /\ s.asks[a].gen \in Nat
        /\ s.gen \in Nat
    BY <1>1, <1>3, <1>4 DEF Sound, Auths
  <2> QED  BY <2>1, <1>3
<1> QED  BY <1>2, <1>4 DEF Sound

LEMMA DroppedSound ==
  ASSUME NEW s, Sound(s)
  PROVE  Sound(Dropped(s))
<1>1. s \in Auths
  BY DEF Sound
<1>2. CASE s.session = None
  BY <1>2 DEF Dropped
<1>3. CASE s.session # None
  <2> DEFINE c == [s EXCEPT !.session.fresh = FALSE]
  <2>1. s.session \in [fresh : BOOLEAN]
    BY <1>1, <1>3 DEF Auths
  <2>2. [s.session EXCEPT !.fresh = FALSE] \in [fresh : BOOLEAN]
    BY <2>1
  <2>3. c \in Auths
    BY <1>1, <2>2 DEF Auths
  <2>4. /\ c.gen = s.gen
        /\ c.asks = s.asks
        /\ c.flight = s.flight
    BY <1>1 DEF Auths
  <2>5. Dropped(s) = c
    BY <1>3 DEF Dropped
  <2> HIDE DEF c
  <2> QED  BY <2>3, <2>4, <2>5 DEF Sound
<1> QED  BY <1>2, <1>3

\* A call finds the request of this generation, or nobody has one.
LEMMA EnsuredSound ==
  ASSUME NEW s, Sound(s), MayEnsure(s)
  PROVE  Sound(Ensured(s))
<1>1. s \in Auths
  BY DEF Sound
<1>2. CASE HasSession(s) \/ s.flight # None
  BY <1>2 DEF Ensured
<1>3. CASE ~(HasSession(s) \/ s.flight # None)
  <2>1. FreeAsks(s) # {}
    BY <1>3 DEF MayEnsure
  <2>2. PICK a \in FreeAsks(s) : a = CHOOSE x \in FreeAsks(s) : TRUE
    BY <2>1
  <2> DEFINE c == [s EXCEPT !.asks[a] = [gen |-> s.gen], !.flight = a]
  <2>3. Ensured(s) = c
    BY <1>3, <2>2 DEF Ensured
  <2>4. a \in Asks
    BY <2>2 DEF FreeAsks
  <2>5. [gen |-> s.gen] \in [gen : Nat]
    BY <1>1 DEF Auths
  <2>6. c.asks = [s.asks EXCEPT ![a] = [gen |-> s.gen]]
    BY <1>1 DEF Auths
  <2>7. /\ c.gen = s.gen
        /\ c.flight = a
    BY <1>1 DEF Auths
  <2>8. c \in Auths
    BY <1>1, <2>4, <2>5 DEF Auths
  <2> HIDE DEF c
  <2>9. ASSUME NEW b \in Asks, c.asks[b] # None
        PROVE  /\ c.asks[b].gen <= c.gen
               /\ c.asks[b].gen = c.gen => c.flight = b
    <3>1. s.asks \in [Asks -> [gen : Nat] \cup {None}] /\ s.gen \in Nat
      BY <1>1 DEF Auths
    <3>2. CASE b = a
      BY <3>1, <3>2, <2>4, <2>6, <2>7
    <3>3. CASE b # a
      <4>1. c.asks[b] = s.asks[b]
        BY <3>1, <3>3, <2>6
      <4>2. /\ s.asks[b].gen <= s.gen
            /\ s.asks[b].gen = s.gen => s.flight = b
        BY <4>1, <2>9 DEF Sound
      <4>3. s.flight = None /\ b # None
        BY <1>3, NoneAssumption
      <4> QED  BY <4>1, <4>2, <4>3, <2>7, <3>1
    <3> QED  BY <3>2, <3>3
  <2> QED  BY <2>3, <2>8, <2>9 DEF Sound
<1> QED  BY <1>2, <1>3

\* The end of a request forgets that request and no other.
LEMMA EndedSound ==
  ASSUME NEW a \in Asks, NEW session \in [fresh : BOOLEAN] \cup {None}, Sound(auth)
  PROVE  /\ Sound(Ended(a))
         /\ Sound([Ended(a) EXCEPT !.session = session])
<1>1. auth \in Auths
  BY DEF Sound
<1> DEFINE e == Ended(a)
           c == [e EXCEPT !.session = session]
<1>2. e \in Auths
  BY <1>1 DEF Ended, Auths
<1>3. /\ e.gen = auth.gen
      /\ e.asks = [auth.asks EXCEPT ![a] = None]
      /\ e.flight = IF auth.flight = a THEN None ELSE auth.flight
  BY <1>1 DEF Ended, Auths
<1> HIDE DEF e
<1>4. /\ c \in Auths
      /\ c.gen = e.gen
      /\ c.asks = e.asks
      /\ c.flight = e.flight
  BY <1>2 DEF Auths
<1> HIDE DEF c
<1>5. ASSUME NEW b \in Asks, e.asks[b] # None
      PROVE  /\ e.asks[b].gen <= e.gen
             /\ e.asks[b].gen = e.gen => e.flight = b
  <2>1. auth.asks \in [Asks -> [gen : Nat] \cup {None}]
    BY <1>1 DEF Auths
  <2>2. b # a /\ e.asks[b] = auth.asks[b]
    BY <1>3, <1>5, <2>1
  <2>3. /\ auth.asks[b].gen <= auth.gen
        /\ auth.asks[b].gen = auth.gen => auth.flight = b
    BY <1>5, <2>2 DEF Sound
  <2> QED  BY <2>2, <2>3, <1>3
<1>6. Sound(e)
  BY <1>2, <1>5 DEF Sound
<1>7. Sound(c)
  BY <1>4, <1>5 DEF Sound
<1> QED  BY <1>6, <1>7 DEF e, c

----------------------------------------------------------------------------
(* The handlers.                                                           *)

LEMMA FlowFacts ==
  ASSUME PageInv, NEW x \in Slots
  PROVE  /\ flows[x] \in SoundFlows
         /\ flows[x].kind # None => flows[x] \in Flows
         /\ flows[x] = Idle => flows[x].kind = None
         /\ flows[x].kind = "all" => /\ flows[x] \in Flows
                                     /\ ~Live(flows[x].base)
                                     /\ flows[x].ask = None
                                     /\ flows[x].next \in Steps
<1>1. flows[x] \in SoundFlows
  BY DEF PageInv
<1>2. Idle.kind = None
  BY DEF Idle
<1>3. None # "all"
  BY NoneAssumption DEF Kinds
<1>4. ASSUME flows[x].kind # None
      PROVE  flows[x] \in Flows
  BY <1>1, <1>2, <1>4 DEF SoundFlows
<1>5. ASSUME flows[x].kind = "all"
      PROVE  /\ flows[x] \in Flows
             /\ ~Live(flows[x].base)
             /\ flows[x].ask = None
             /\ flows[x].next \in Steps
  <2>1. flows[x] \in Flows /\ flows[x] # Idle
    BY <1>2, <1>3, <1>4, <1>5
  <2>2. ~Live(flows[x].base) /\ flows[x].ask = None /\ flows[x].next # None
    BY <2>1, <1>1, <1>5 DEF SoundFlows
  <2> QED  BY <2>1, <2>2 DEF Flows
<1> QED  BY <1>1, <1>2, <1>4, <1>5

\* A step is a name, and an idle slot ends none.
LEMMA IdleCovers ==
  ASSUME NEW k \in Steps
  PROVE  /\ ~Covers(Idle, k)
         /\ k # None
<1>1. /\ None \notin Steps
      /\ None \notin Dups
      /\ None # "all"
  BY NoneAssumption DEF Kinds
<1>2. Idle.kind = None
  BY DEF Idle
<1> QED  BY <1>1, <1>2 DEF Covers

\* Where a handler goes on once it has called for the session.
LEMMA AwaitsSound ==
  ASSUME NEW s, Sound(s), MayEnsure(s), NEW f \in Flows, f.kind # "all",
         NEW again \in BOOLEAN
  PROVE  /\ Awaits(s, f) \in SoundFlows
         /\ [Awaits(s, f) EXCEPT !.again = again] \in SoundFlows
         /\ Awaits(s, f).kind = f.kind
         /\ [Awaits(s, f) EXCEPT !.again = again].kind = f.kind
<1> DEFINE g == Awaits(s, f)
           h == [g EXCEPT !.again = again]
<1>1. Ensured(s).flight \in Asks \cup {None}
  BY EnsuredSound DEF Sound, Auths
<1>2. g \in Flows /\ g.kind = f.kind
  BY <1>1 DEF Awaits, Flows
<1> HIDE DEF g
<1>3. h \in Flows /\ h.kind = f.kind
  BY <1>2 DEF Flows
<1> HIDE DEF h
<1>4. g \in SoundFlows /\ h \in SoundFlows
  BY <1>2, <1>3 DEF SoundFlows
<1> QED  BY <1>2, <1>3, <1>4 DEF g, h

\* What a handler that starts leaves: its own slot, and the others as they were.
Started(kind) ==
    /\ Sound(auth')
    /\ flows' \in [Slots -> SoundFlows]
    /\ \E x \in Slots :
           /\ flows[x] = Idle
           /\ flows'[x].kind = kind
           /\ \A y \in Slots : y # x => flows'[y] = flows[y]

LEMMA BeginStarts ==
  ASSUME PageInv, NEW kind \in Kinds \ {"all"}, Begin(kind)
  PROVE  Started(kind)
<1> DEFINE flow == [kind |-> kind, base |-> place.base, at |-> "server", ask |-> None,
                    again |-> FALSE, next |-> None]
           free == {x \in Slots : flows[x] = Idle}
<1>1. PICK x \in free : x = CHOOSE y \in free : TRUE
  BY DEF Begin
<1>2. /\ flow \in Flows
      /\ flow.kind = kind
  BY DEF PageInv, PageTypeOK, Flows
<1>3. flow \in SoundFlows
  BY <1>2 DEF SoundFlows
<1>4. flows \in [Slots -> SoundFlows] /\ Sound(auth)
  BY DEF PageInv
<1>5. IF Live(place.base) /\ kind \notin Reads
      THEN /\ MayEnsure(auth)
           /\ auth' = Ensured(auth)
           /\ flows' = [flows EXCEPT ![x] = Awaits(auth, flow)]
      ELSE /\ flows' = [flows EXCEPT ![x] = flow]
           /\ UNCHANGED auth
  BY <1>1 DEF Begin
<1> HIDE DEF flow
<1>6. CASE Live(place.base) /\ kind \notin Reads
  <2>1. /\ Awaits(auth, flow) \in SoundFlows
        /\ Awaits(auth, flow).kind = kind
    BY <1>2, <1>4, <1>5, <1>6, AwaitsSound
  <2>2. Sound(auth')
    BY <1>4, <1>5, <1>6, EnsuredSound
  <2> QED  BY <2>1, <2>2, <1>1, <1>4, <1>5, <1>6 DEF Started
<1>7. CASE ~(Live(place.base) /\ kind \notin Reads)
  <2>1. auth' = auth
    BY <1>5, <1>7
  <2>2. Sound(auth')
    BY <2>1, <1>4
  <2> QED  BY <2>2, <1>1, <1>2, <1>3, <1>4, <1>5, <1>7 DEF Started
<1> QED  BY <1>6, <1>7

----------------------------------------------------------------------------
(* What keeps the steps covered.                                           *)

\* What a step leaves of the rest of the page.
RestTyped ==
    /\ place \in [base : Bases, user : Users \cup {None}, userBase : Bases \cup {None}]
    /\ controller \in Phases \cup {None}
    /\ open \subseteq [base : Bases, user : Users \cup {None}]
    /\ running \subseteq Steps
    /\ proven \in BOOLEAN

LEMMA Assembled ==
  ASSUME Sound(auth'), flows' \in [Slots -> SoundFlows], RestTyped', StepsSound'
  PROVE  PageInv'
<1>1. auth' \in Auths
  BY DEF Sound
<1>2. flows' \in [Slots -> Flows \cup {Idle}]
  BY DEF SoundFlows
<1>3. PageTypeOK'
  BY <1>1, <1>2 DEF PageTypeOK, RestTyped
<1> QED  BY <1>3 DEF PageInv

\* Handlers that end leave every other step its handler.
Ends(over) ==
    /\ over \subseteq Slots
    /\ flows' = [x \in Slots |-> IF x \in over THEN Idle ELSE flows[x]]
    /\ \A x \in over, k \in running' : ~Covers(flows[x], k)

LEMMA EndsKeep ==
  ASSUME PageInv, NEW over, Ends(over), running' \subseteq running,
         \A k \in running' : Asked(k) => Asked(k)'
  PROVE  /\ flows' \in [Slots -> SoundFlows]
         /\ StepsSound'
<1>1. flows \in [Slots -> SoundFlows] /\ Idle \in SoundFlows
  BY DEF PageInv, SoundFlows
<1>2. flows' \in [Slots -> SoundFlows]
  BY <1>1 DEF Ends
<1>3. ASSUME NEW k \in running'
      PROVE  (\E x \in Slots : Covers(flows'[x], k)) \/ Asked(k)'
  <2>1. (\E x \in Slots : Covers(flows[x], k)) \/ Asked(k)
    BY <1>3 DEF PageInv, StepsSound
  <2>2. ASSUME NEW x \in Slots, Covers(flows[x], k)
        PROVE  flows'[x] = flows[x]
    BY <2>2 DEF Ends
  <2> QED  BY <2>1, <2>2
<1> QED  BY <1>2, <1>3 DEF StepsSound

\* Purchases and loads cover no step.
LEMMA DisposedEnds ==
  ASSUME PageInv, NEW kinds \in SUBSET {"buy", "load"}, flows' = Without(flows, kinds),
         running' \subseteq running
  PROVE  Ends({x \in Slots : flows[x].kind \in kinds})
<1> DEFINE over == {x \in Slots : flows[x].kind \in kinds}
<1>1. flows' = [x \in Slots |-> IF x \in over THEN Idle ELSE flows[x]]
  BY DEF Without
<1>2. ASSUME NEW x \in over, NEW k \in running'
      PROVE  ~Covers(flows[x], k)
  <2>1. k \in Steps
    BY <1>2 DEF PageInv, PageTypeOK
  <2>2. flows[x].kind \in {"buy", "load"}
    OBVIOUS
  <2> QED  BY <2>1, <2>2 DEF Covers, Steps, Reads, Dups
<1> QED  BY <1>1, <1>2 DEF Ends

\* A new controller takes over; step 3 of the one before is not running any more.
LEMMA MountKeeps ==
  ASSUME PageInv, NEW p, Mount(p), NEW fs \in [Slots -> SoundFlows],
         \A x \in Slots : /\ fs[x].kind = flows[x].kind
                          /\ flows[x].kind = "all" => fs[x] = flows[x],
         flows' = Disposed(fs)
  PROVE  /\ flows' \in [Slots -> SoundFlows]
         /\ StepsSound'
         /\ running' \subseteq running
         /\ controller' \in Phases \cup {None}
         /\ place' = p
         /\ proven' = proven
<1>1. Idle \in SoundFlows
  BY DEF SoundFlows
<1>2. flows' \in [Slots -> SoundFlows]
  BY <1>1 DEF Disposed, Without
<1>3. running' \subseteq running /\ (controller # None => "s3" \notin running')
  BY DEF Mount
<1>4. ASSUME NEW k \in running'
      PROVE  \E x \in Slots : Covers(flows'[x], k)
  <2>1. k \in running /\ ~Asked(k)
    BY <1>3, <1>4 DEF Asked
  <2>2. PICK x \in Slots : Covers(flows[x], k)
    BY <2>1 DEF PageInv, StepsSound
  <2>3. k \in Steps
    BY <2>1 DEF PageInv, PageTypeOK
  <2>4. flows[x].kind \notin {"buy", "load"}
    BY <2>2, <2>3 DEF Covers, Steps, Reads, Dups
  <2>5. flows'[x] = fs[x]
    BY <2>4 DEF Disposed, Without
  <2>6. Covers(fs[x], k)
    BY <2>2 DEF Covers
  <2> QED  BY <2>5, <2>6
<1>5. StepsSound'
  BY <1>4 DEF StepsSound
<1> QED  BY <1>2, <1>3, <1>5 DEF Mount, Phases

\* A handler that starts may run a step of its own.
LEMMA StartedKeeps ==
  ASSUME PageInv, NEW kind, Started(kind),
         \A k \in running : Asked(k) => Asked(k)',
         \A k \in running' \ running : \/ k = kind
                                       \/ kind \in Dups /\ k = "s6"
                                       \/ Asked(k)'
  PROVE  StepsSound'
<1>1. PICK x \in Slots : /\ flows[x] = Idle
                         /\ flows'[x].kind = kind
                         /\ \A y \in Slots : y # x => flows'[y] = flows[y]
  BY DEF Started
<1>2. ASSUME NEW k \in running'
      PROVE  (\E y \in Slots : Covers(flows'[y], k)) \/ Asked(k)'
  <2>1. CASE k \in running
    <3>1. k \in Steps
      BY <2>1 DEF PageInv, PageTypeOK
    <3>2. (\E y \in Slots : Covers(flows[y], k)) \/ Asked(k)'
      BY <2>1 DEF PageInv, StepsSound
    <3>3. ASSUME NEW y \in Slots, Covers(flows[y], k)
          PROVE  Covers(flows'[y], k)
      BY <3>1, <3>3, <1>1, IdleCovers
    <3> QED  BY <3>2, <3>3
  <2>2. CASE k \notin running
    BY <2>2, <1>1, <1>2 DEF Covers
  <2> QED  BY <2>1, <2>2
<1> QED  BY <1>2 DEF StepsSound

----------------------------------------------------------------------------
(* The invariant: the user.                                                *)

LEMMA RestOf ==
  ASSUME PageInv
  PROVE  /\ RestTyped
         /\ Sound(auth)
         /\ auth \in Auths
         /\ flows \in [Slots -> SoundFlows]
         /\ Idle \in SoundFlows
         /\ "s3" \in Steps /\ "s6" \in Steps
BY DEF PageInv, PageTypeOK, RestTyped, Sound, SoundFlows, Steps, Reads

LEMMA BaseSwitched ==
  ASSUME PageInv, NEW base \in Bases, SwitchBase(base)
  PROVE  PageInv'
<1> DEFINE p == [place EXCEPT !.base = base]
<1>1. Mount(p) /\ flows' = Disposed(flows)
  BY DEF SwitchBase
<1>2. p \in [base : Bases, user : Users \cup {None}, userBase : Bases \cup {None}]
  BY DEF PageInv, PageTypeOK
<1> HIDE DEF p
<1>3. Sound(auth')
  BY RestOf, ClearedSound DEF SwitchBase
<1>4. /\ flows' \in [Slots -> SoundFlows]
      /\ StepsSound'
      /\ running' \subseteq running
      /\ controller' \in Phases \cup {None}
      /\ place' = p
      /\ proven' = proven
  BY <1>1, RestOf, MountKeeps
<1>5. RestTyped'
  BY <1>2, <1>4, RestOf DEF RestTyped, SwitchBase
<1> QED  BY <1>3, <1>4, <1>5, Assembled

LEMMA Rechecked ==
  ASSUME PageInv, Recheck
  PROVE  PageInv'
<1>1. Mount(place) /\ flows' = Disposed(flows) /\ auth' = auth /\ open' = open
  BY DEF Recheck
<1>2. /\ flows' \in [Slots -> SoundFlows]
      /\ StepsSound'
      /\ running' \subseteq running
      /\ controller' \in Phases \cup {None}
      /\ place' = place
      /\ proven' = proven
  BY <1>1, RestOf, MountKeeps
<1>3. RestTyped'
  BY <1>1, <1>2, RestOf DEF RestTyped
<1>4. Sound(auth')
  BY <1>1, RestOf
<1> QED  BY <1>2, <1>3, <1>4, Assembled

LEMMA SessionAsked ==
  ASSUME PageInv, RecoverSession
  PROVE  PageInv'
<1>1. Sound(auth')
  BY RestOf, EnsuredSound DEF RecoverSession, MayEnsure
<1>2. RestTyped' /\ flows' \in [Slots -> SoundFlows]
  BY RestOf DEF RestTyped, RecoverSession
<1>3. StepsSound'
  BY DEF PageInv, StepsSound, Covers, Asked, PurchaseOpen, Here, RecoverSession
<1> QED  BY <1>1, <1>2, <1>3, Assembled

LEMMA SessionAged ==
  ASSUME PageInv, SessionAges
  PROVE  PageInv'
<1>1. Sound(auth')
  BY RestOf, DroppedSound DEF SessionAges
<1>2. RestTyped' /\ flows' \in [Slots -> SoundFlows]
  BY RestOf DEF RestTyped, SessionAges
<1>3. StepsSound'
  BY DEF PageInv, StepsSound, Covers, Asked, PurchaseOpen, Here, SessionAges
<1> QED  BY <1>1, <1>2, <1>3, Assembled

LEMMA Pressed ==
  ASSUME PageInv, NEW k \in Buttons, Press(k)
  PROVE  PageInv'
<1>1. k \in Steps \cup Dups /\ k # "s6"
  BY DemoPageAssumption DEF Steps, Reads, Dups
<1>2. k \in Kinds \ {"all"}
  BY <1>1 DEF Kinds, Steps, Reads, Dups
<1>3. Started(k)
  BY <1>2, BeginStarts DEF Press
<1>4. /\ running' \subseteq running \cup (IF k \in Dups THEN {"s6"} ELSE {k})
      /\ proven' = proven
      /\ UNCHANGED <<place, controller, open>>
  BY DEF Press, Runs
<1>5. RestTyped'
  BY <1>1, <1>4, RestOf DEF RestTyped
<1>6. \A s : Asked(s) => Asked(s)'
  BY <1>4 DEF Asked, PurchaseOpen, Here
<1>7. StepsSound'
  BY <1>3, <1>4, <1>6, StartedKeeps
<1> QED  BY <1>3, <1>5, <1>7, Assembled DEF Started

\* The purchase the controller sends is stored: step 3 can be asked about.
LEMMA PurchaseSent ==
  ASSUME PageInv, Sends, controller # None, PurchaseOpen',
         open' \subseteq open \cup {Here}, open \subseteq open',
         UNCHANGED <<place, controller>>
  PROVE  PageInv'
<1>1. "buy" \in Kinds \ {"all"}
  BY DEF Kinds
<1>2. Started("buy")
  BY <1>1, BeginStarts DEF Sends
<1>3. running' = running \cup {"s3"} /\ proven' = proven
  BY DEF Sends, Runs
<1>4. Here \in [base : Bases, user : Users \cup {None}]
  <2>1. QueueUser(place) \in Users \cup {None}
    BY DEF PageInv, PageTypeOK, QueueUser
  <2> QED  BY <2>1 DEF PageInv, PageTypeOK, Here
<1>5. RestTyped'
  BY <1>3, <1>4, RestOf DEF RestTyped
<1>6. \A s : Asked(s) => Asked(s)'
  BY DEF Asked
<1>7. Asked("s3")'
  BY DEF Asked
<1>8. StepsSound'
  BY <1>2, <1>3, <1>6, <1>7, StartedKeeps
<1> QED  BY <1>2, <1>5, <1>8, Assembled DEF Started

LEMMA Purchased ==
  ASSUME PageInv, Buy
  PROVE  PageInv'
<1>1. controller # None
  BY NoneAssumption DEF Buy, MayReserve, Phases
<1>2. PurchaseOpen'
  BY DEF Buy, PurchaseOpen, Here
<1> QED  BY <1>1, <1>2, PurchaseSent DEF Buy

LEMMA PurchaseRetried ==
  ASSUME PageInv, RetryPurchase
  PROVE  PageInv'
<1>1. PurchaseOpen'
  BY DEF RetryPurchase, PurchaseOpen, Here
<1> QED  BY <1>1, PurchaseSent DEF RetryPurchase

LEMMA LoadStarted ==
  ASSUME PageInv, LoadReservation
  PROVE  PageInv'
<1>1. "load" \in Kinds \ {"all"}
  BY DEF Kinds
<1>2. Started("load")
  BY <1>1, BeginStarts DEF LoadReservation
<1>3. RestTyped'
  BY RestOf DEF RestTyped, LoadReservation
<1>4. \A s : Asked(s) => Asked(s)'
  BY DEF Asked, PurchaseOpen, Here, LoadReservation
<1>5. StepsSound'
  BY <1>2, <1>4, StartedKeeps DEF LoadReservation
<1> QED  BY <1>2, <1>3, <1>5, Assembled DEF Started

LEMMA QueueMoved ==
  ASSUME PageInv, QueueMoves
  PROVE  PageInv'
<1>1. controller' \in Phases /\ controller' # None
  BY NoneAssumption DEF QueueMoves, Phases
<1>2. PICK kinds \in SUBSET {"buy", "load"} : flows' = Without(flows, kinds)
  <2>1. CASE controller' = "consumed"
    <3>1. flows' = Without(flows, {})
      BY <2>1, RestOf DEF QueueMoves, Without
    <3> QED  BY <3>1
  <2>2. CASE controller' # "consumed"
    BY <2>2 DEF QueueMoves
  <2> QED  BY <2>1, <2>2
<1>3. \A s : Asked(s) => Asked(s)'
  BY <1>1 DEF Asked, PurchaseOpen, Here, QueueMoves
<1>4. Ends({x \in Slots : flows[x].kind \in kinds})
  BY <1>2, DisposedEnds DEF QueueMoves
<1>5. flows' \in [Slots -> SoundFlows] /\ StepsSound'
  BY <1>3, <1>4, EndsKeep DEF QueueMoves
<1>6. RestTyped' /\ Sound(auth')
  BY <1>1, RestOf DEF RestTyped, QueueMoves
<1> QED  BY <1>5, <1>6, Assembled

\* Nothing runs on a page that was reset.
LEMMA ResetSound ==
  ASSUME PageInv, Reset
  PROVE  PageInv'
<1>1. Sound(auth')
  BY RestOf, ClearedSound DEF Reset
<1>2. flows' \in [Slots -> SoundFlows]
  BY RestOf DEF Reset, Disposed, Without
<1>3. RestTyped' /\ StepsSound'
  BY RestOf DEF RestTyped, StepsSound, Reset
<1> QED  BY <1>1, <1>2, <1>3, Assembled

LEMMA RunAllSound ==
  ASSUME PageInv, RunAll
  PROVE  PageInv'
<1>1. Sound(auth')
  BY RestOf, ClearedSound DEF RunAll
<1> DEFINE f == [kind |-> "all", base |-> place.base, at |-> "pause", ask |-> None,
                 again |-> FALSE, next |-> "s1"]
<1>2. f \in SoundFlows
  <2>1. f \in Flows
    BY DEF Flows, Kinds, Steps, Reads, PageInv, PageTypeOK
  <2>2. None # "s1"
    BY NoneAssumption DEF Kinds, Steps, Reads
  <2>3. ~Live(f.base)
    BY DEF RunAll
  <2> QED  BY <2>1, <2>2, <2>3 DEF SoundFlows
<1>3. PICK x \in Slots : flows' = [flows EXCEPT ![x] = f]
  BY DEF RunAll
<1> HIDE DEF f
<1>4. flows' \in [Slots -> SoundFlows]
  BY <1>2, <1>3, RestOf
<1>5. RestTyped' /\ StepsSound'
  BY RestOf DEF RestTyped, StepsSound, RunAll
<1> QED  BY <1>1, <1>4, <1>5, Assembled

LEMMA RunAllGoesOn ==
  ASSUME PageInv, NEW x \in Slots, RunNext(x)
  PROVE  PageInv'
<1> DEFINE f == [flows[x] EXCEPT !.at = "server"]
<1>1. /\ flows[x] \in Flows
      /\ flows[x].kind = "all"
      /\ flows[x].ask = None
      /\ flows[x].next \in Steps
      /\ flows[x].at = "pause"
      /\ ~Live(flows[x].base)
  BY FlowFacts DEF RunNext
<1>2. /\ f \in Flows
      /\ f.base = flows[x].base
      /\ f.kind = "all"
      /\ f.ask = None
      /\ f.at = "server"
      /\ f.next = flows[x].next
  BY <1>1 DEF Flows
<1>3. flows' = [flows EXCEPT ![x] = f]
  BY DEF RunNext
<1> HIDE DEF f
<1>4. f.next # None
  BY <1>1, <1>2, IdleCovers
<1>5. f \in SoundFlows
  BY <1>1, <1>2, <1>4 DEF SoundFlows
<1>6. flows' \in [Slots -> SoundFlows]
  BY <1>3, <1>5, RestOf
<1>7. /\ running' \subseteq running \cup {flows[x].next}
      /\ proven' = proven
      /\ UNCHANGED <<place, auth, controller, open>>
  BY DEF RunNext, Runs
<1>8. RestTyped' /\ Sound(auth')
  BY <1>1, <1>7, RestOf DEF RestTyped
<1>9. ASSUME NEW k \in running'
      PROVE  (\E y \in Slots : Covers(flows'[y], k)) \/ Asked(k)'
  <2>1. CASE k = flows[x].next
    BY <2>1, <1>2, <1>3, RestOf DEF Covers
  <2>2. CASE k # flows[x].next
    <3>1. k \in running
      BY <2>2, <1>7, <1>9
    <3>2. (\E y \in Slots : Covers(flows[y], k)) \/ Asked(k)
      BY <3>1 DEF PageInv, StepsSound
    <3>3. Asked(k) => Asked(k)'
      BY <1>7 DEF Asked, PurchaseOpen, Here
    <3>4. k \in Steps
      BY <3>1 DEF PageInv, PageTypeOK
    <3>5. ~Covers(flows[x], k)
      BY <3>4, <1>1 DEF Covers, Steps, Reads, Dups
    <3>6. \A y \in Slots : y # x => flows'[y] = flows[y]
      BY <1>3, RestOf
    <3> QED  BY <3>2, <3>3, <3>5, <3>6
  <2> QED  BY <2>1, <2>2
<1>10. StepsSound'
  BY <1>9 DEF StepsSound
<1> QED  BY <1>6, <1>8, <1>10, Assembled

----------------------------------------------------------------------------
(* The invariant: the answers.                                             *)

\* The session arrives: who waited for it goes on, each with its step.
LEMMA SessionArrived ==
  ASSUME PageInv, NEW a \in Asks, NEW user \in Users, SessionAnswered(a, user)
  PROVE  PageInv'
<1> DEFINE p == [place EXCEPT !.user = IF Live(place.base) THEN user ELSE None,
                              !.userBase = place.base]
           new == QueueUser(p) # QueueUser(place)
           on == [x \in Slots |->
                    IF x \notin Waiting(a) THEN flows[x]
                    ELSE [flows[x] EXCEPT !.at = "server", !.ask = None]]
<1>1. /\ flows' = IF new THEN Disposed(on) ELSE on
      /\ IF new THEN Mount(p)
         ELSE place' = p /\ UNCHANGED <<controller, running, proven>>
      /\ open' = open
      /\ auth' = [Ended(a) EXCEPT !.session = [fresh |-> TRUE]]
  BY DEF SessionAnswered
<1>2. /\ p \in [base : Bases, user : Users \cup {None}, userBase : Bases \cup {None}]
      /\ p.base = place.base
  BY DEF PageInv, PageTypeOK
<1>3. Sound(auth')
  <2>1. [fresh |-> TRUE] \in [fresh : BOOLEAN]
    OBVIOUS
  <2> QED  BY <1>1, <2>1, RestOf, EndedSound
<1>4. ASSUME NEW x \in Slots
      PROVE  /\ on[x] \in SoundFlows
             /\ on[x].kind = flows[x].kind
             /\ flows[x].kind = "all" => on[x] = flows[x]
  <2>1. CASE x \notin Waiting(a)
    BY <2>1, RestOf
  <2>2. CASE x \in Waiting(a)
    <3> DEFINE f == [flows[x] EXCEPT !.at = "server", !.ask = None]
    <3>1. flows[x].kind # None /\ flows[x].ask = a
      BY <2>2 DEF Waiting
    <3>2. flows[x] \in Flows
      BY <3>1, FlowFacts
    <3>3. flows[x].kind # "all"
      BY <3>1, FlowFacts, NoneAssumption
    <3>4. f \in Flows /\ f.kind = flows[x].kind
      BY <3>2 DEF Flows
    <3>5. on[x] = f
      BY <2>2
    <3> HIDE DEF f
    <3> QED  BY <3>3, <3>4, <3>5 DEF SoundFlows
  <2> QED  BY <2>1, <2>2
<1>5. on \in [Slots -> SoundFlows]
  BY <1>4
<1> HIDE DEF on, p
<1>6. CASE new
  <2>1. Mount(p) /\ flows' = Disposed(on)
    BY <1>1, <1>6
  <2>2. /\ flows' \in [Slots -> SoundFlows]
        /\ StepsSound'
        /\ running' \subseteq running
        /\ controller' \in Phases \cup {None}
        /\ place' = p
        /\ proven' = proven
    BY <2>1, <1>4, <1>5, MountKeeps
  <2>3. RestTyped'
    BY <1>1, <1>2, <2>2, RestOf DEF RestTyped
  <2> QED  BY <1>3, <2>2, <2>3, Assembled
<1>7. CASE ~new
  <2>1. flows' = on /\ place' = p /\ UNCHANGED <<controller, running, proven, open>>
    BY <1>1, <1>7
  <2>2. Here' = Here
    <3>1. QueueUser(place') = QueueUser(place)
      BY <1>7, <2>1
    <3>2. Here' = [base |-> place'.base, user |-> QueueUser(place')]
      BY DEF Here, QueueUser
    <3> QED  BY <1>2, <2>1, <3>1, <3>2 DEF Here
  <2>3. ASSUME NEW k \in running'
        PROVE  (\E x \in Slots : Covers(flows'[x], k)) \/ Asked(k)'
    <3>1. (\E x \in Slots : Covers(flows[x], k)) \/ Asked(k)
      BY <2>1, <2>3 DEF PageInv, StepsSound
    <3>2. Asked(k) => Asked(k)'
      BY <2>1, <2>2 DEF Asked, PurchaseOpen
    <3>3. ASSUME NEW x \in Slots, Covers(flows[x], k)
          PROVE  Covers(flows'[x], k)
      BY <3>3, <1>4, <2>1 DEF Covers
    <3> QED  BY <3>1, <3>2, <3>3
  <2>4. StepsSound'
    BY <2>3 DEF StepsSound
  <2>5. RestTyped'
    BY <1>2, <2>1, RestOf DEF RestTyped
  <2> QED  BY <1>3, <1>5, <2>1, <2>4, <2>5, Assembled
<1> QED  BY <1>6, <1>7

\* It does not: every handler that waited for it ends, and its step with it.
LEMMA SessionFailed ==
  ASSUME PageInv, NEW a \in Asks, SessionFails(a)
  PROVE  PageInv'
<1> DEFINE kinds == {flows[x].kind : x \in Waiting(a)}
<1>1. /\ Failed(kinds)
      /\ flows' = [x \in Slots |-> IF x \in Waiting(a) THEN Idle ELSE flows[x]]
      /\ UNCHANGED <<place, controller, open>>
  BY DEF SessionFails
<1>2. Sound(auth')
  BY RestOf, EndedSound DEF SessionFails
<1>3. /\ running' \subseteq running
      /\ proven' = proven
      /\ running' \cap kinds = {}
      /\ kinds \cap Dups # {} => "s6" \notin running'
  BY <1>1 DEF Failed, Stops
<1>4. ASSUME NEW x \in Waiting(a), NEW k \in running'
      PROVE  ~Covers(flows[x], k)
  <2>1. /\ flows[x].kind \in kinds
        /\ flows[x].kind # None
        /\ flows[x].ask = a
        /\ x \in Slots
    BY DEF Waiting
  <2>2. flows[x].kind # "all"
    BY <2>1, FlowFacts, NoneAssumption
  <2> QED  BY <2>1, <2>2, <1>3 DEF Covers
<1>5. Ends(Waiting(a))
  BY <1>1, <1>4 DEF Ends, Waiting
<1>6. \A k : Asked(k) => Asked(k)'
  BY <1>1 DEF Asked, PurchaseOpen, Here
<1>7. flows' \in [Slots -> SoundFlows] /\ StepsSound'
  BY <1>3, <1>5, <1>6, EndsKeep
<1>8. RestTyped'
  BY <1>1, <1>3, RestOf DEF RestTyped
<1> QED  BY <1>2, <1>7, <1>8, Assembled

\* A handler ends, and what is left of running is not its step.
LEMMA OneEnds ==
  ASSUME PageInv, NEW x \in Slots, Over(x), running' \subseteq running,
         \A k \in running' : ~Covers(flows[x], k),
         \A k \in running' : Asked(k) => Asked(k)'
  PROVE  /\ flows' \in [Slots -> SoundFlows]
         /\ StepsSound'
<1>1. flows' = [y \in Slots |-> IF y \in {x} THEN Idle ELSE flows[y]]
  BY RestOf DEF Over
<1>2. Ends({x})
  BY <1>1 DEF Ends
<1> QED  BY <1>2, EndsKeep

LEMMA StepEnds ==
  ASSUME PageInv, NEW x \in Slots, StepFails(x) \/ StepSucceeds(x)
  PROVE  PageInv'
<1>1. /\ flows[x].kind \in Steps \cup Dups
      /\ Over(x)
      /\ UNCHANGED <<place, auth, controller, open>>
  BY DEF StepFails, StepSucceeds
<1>2. /\ running' \subseteq running
      /\ proven' \in {proven, TRUE}
      /\ IF flows[x].kind \in Dups THEN "s6" \notin running'
         ELSE flows[x].kind \notin running'
  BY <1>1 DEF StepFails, StepSucceeds, Failed, Stops, Proves
<1>3. ASSUME NEW k \in running'
      PROVE  ~Covers(flows[x], k)
  <2>1. k \in Steps
    BY <1>2, <1>3 DEF PageInv, PageTypeOK
  <2> QED  BY <1>1, <1>2, <2>1 DEF Covers, Steps, Reads, Dups
<1>4. \A k : Asked(k) => Asked(k)'
  BY <1>1 DEF Asked, PurchaseOpen, Here
<1>5. flows' \in [Slots -> SoundFlows] /\ StepsSound'
  BY <1>1, <1>2, <1>3, <1>4, OneEnds
<1>6. RestTyped' /\ Sound(auth')
  BY <1>1, <1>2, RestOf DEF RestTyped
<1> QED  BY <1>5, <1>6, Assembled

\* runAll pauses between its steps, and shows none of them then.
LEMMA RunAllPauses ==
  ASSUME PageInv, NEW x \in Slots, RunAllAnswered(x)
  PROVE  PageInv'
<1> DEFINE step == flows[x].next
<1>1. /\ flows[x] \in Flows
      /\ flows[x].kind = "all"
      /\ flows[x].ask = None
      /\ ~Live(flows[x].base)
      /\ step \in Steps
  BY FlowFacts DEF RunAllAnswered
<1>2. /\ running' \subseteq running
      /\ step \notin running'
      /\ proven' \in {proven, TRUE}
      /\ UNCHANGED <<place, auth, controller, open>>
  BY DEF RunAllAnswered, Proves, Stops
<1>3. ASSUME NEW k \in running'
      PROVE  ~Covers(flows[x], k) /\ (Asked(k) => Asked(k)')
  <2>1. k \in Steps
    BY <1>2, <1>3 DEF PageInv, PageTypeOK
  <2>2. ~Covers(flows[x], k)
    BY <1>1, <1>2, <1>3, <2>1 DEF Covers, Steps, Reads, Dups
  <2>3. Asked(k) => Asked(k)'
    BY <1>2 DEF Asked, PurchaseOpen, Here
  <2> QED  BY <2>2, <2>3
<1>4. RestTyped' /\ Sound(auth')
  BY <1>2, RestOf DEF RestTyped
<1>5. CASE step = "s7"
  <2>1. Over(x)
    BY <1>5 DEF RunAllAnswered
  <2>2. flows' \in [Slots -> SoundFlows] /\ StepsSound'
    BY <1>2, <1>3, <2>1, OneEnds
  <2> QED  BY <1>4, <2>2, Assembled
<1>6. CASE step # "s7"
  <2>1. PICK next \in Steps : flows' = [flows EXCEPT ![x].at = "pause", ![x].next = next]
    <3>1. step \in {"s1", "s3", "s4", "s5", "s6"}
      BY <1>1, <1>6 DEF Steps, Reads
    <3>2. (CASE step = "s1" -> "s3"
             [] step = "s3" -> "s4"
             [] step = "s4" -> "s5"
             [] step = "s5" -> "s6"
             [] step = "s6" -> "s7") \in Steps
      BY <3>1 DEF Steps, Reads
    <3> QED  BY <1>6, <3>2 DEF RunAllAnswered
  <2> DEFINE f == [flows[x] EXCEPT !.at = "pause", !.next = next]
  <2>2. flows' = [flows EXCEPT ![x] = f]
    BY <2>1, RestOf
  <2>3. /\ f \in Flows
        /\ f.base = flows[x].base
        /\ f.ask = None
        /\ f.next = next
    BY <1>1 DEF Flows
  <2> HIDE DEF f
  <2>4. f \in SoundFlows
    BY <1>1, <2>3, IdleCovers DEF SoundFlows
  <2>5. flows' \in [Slots -> SoundFlows]
    BY <2>2, <2>4, RestOf
  <2>6. \A y \in Slots : y # x => flows'[y] = flows[y]
    BY <2>2, RestOf
  <2>7. StepsSound'
    BY <1>2, <1>3, <2>6 DEF PageInv, StepsSound
  <2> QED  BY <1>4, <2>5, <2>7, Assembled
<1> QED  BY <1>5, <1>6

LEMMA LoadEnds ==
  ASSUME PageInv, NEW x \in Slots, NEW ok \in BOOLEAN, Loaded(x, ok)
  PROVE  PageInv'
<1>1. /\ flows[x].kind = "load"
      /\ Over(x)
      /\ UNCHANGED <<place, auth, controller, open>>
      /\ running' \subseteq running
      /\ proven' = proven
  BY DEF Loaded, Stops
<1>2. ASSUME NEW k \in running'
      PROVE  ~Covers(flows[x], k) /\ (Asked(k) => Asked(k)')
  <2>1. k \in Steps
    BY <1>1, <1>2 DEF PageInv, PageTypeOK
  <2> QED  BY <1>1, <2>1 DEF Covers, Steps, Reads, Dups, Asked, PurchaseOpen, Here
<1>3. flows' \in [Slots -> SoundFlows] /\ StepsSound'
  BY <1>1, <1>2, OneEnds
<1>4. RestTyped' /\ Sound(auth')
  BY <1>1, RestOf DEF RestTyped
<1> QED  BY <1>3, <1>4, Assembled

\* A purchase whose outcome is known ends step 3 with its record.
LEMMA PurchaseDecided ==
  ASSUME PageInv, NEW x \in Slots, NEW ok \in BOOLEAN, Bought(x, ok)
  PROVE  PageInv'
<1>1. /\ flows[x].kind = "buy"
      /\ Over(x)
      /\ open' = open \ {Here}
      /\ running' = running \ {"s3"}
      /\ UNCHANGED <<place, auth, controller, proven>>
  BY DEF Bought, Stops
<1>2. ASSUME NEW k \in running'
      PROVE  ~Covers(flows[x], k) /\ ~Asked(k)
  <2>1. k \in Steps
    BY <1>1, <1>2 DEF PageInv, PageTypeOK
  <2> QED  BY <1>1, <1>2, <2>1 DEF Covers, Steps, Reads, Dups, Asked
<1>3. flows' \in [Slots -> SoundFlows] /\ StepsSound'
  BY <1>1, <1>2, OneEnds
<1>4. RestTyped' /\ Sound(auth')
  BY <1>1, RestOf DEF RestTyped
<1> QED  BY <1>3, <1>4, Assembled

\* A handler that is sent off again keeps its kind.
LEMMA Resent ==
  ASSUME PageInv, NEW x \in Slots, NEW f \in SoundFlows, f.kind = flows[x].kind,
         f.kind # "all", NEW kinds \in SUBSET {"buy", "load"},
         flows' = [Without(flows, kinds) EXCEPT ![x] = f],
         UNCHANGED <<place, controller, open, running, proven>>
  PROVE  /\ flows' \in [Slots -> SoundFlows]
         /\ StepsSound'
         /\ RestTyped'
<1>1. Without(flows, kinds) \in [Slots -> SoundFlows]
  BY RestOf DEF Without
<1>2. flows' \in [Slots -> SoundFlows]
  BY <1>1
<1>3. \A y \in Slots : y # x => flows'[y] = Without(flows, kinds)[y]
  BY <1>1
<1>4. ASSUME NEW k \in running'
      PROVE  (\E y \in Slots : Covers(flows'[y], k)) \/ Asked(k)'
  <2>1. k \in running /\ k \in Steps
    BY <1>4 DEF PageInv, PageTypeOK
  <2>2. (\E y \in Slots : Covers(flows[y], k)) \/ Asked(k)
    BY <2>1 DEF PageInv, StepsSound
  <2>3. Asked(k) => Asked(k)'
    BY DEF Asked, PurchaseOpen, Here
  <2>4. ASSUME NEW y \in Slots, Covers(flows[y], k)
        PROVE  Covers(flows'[y], k)
    <3>1. CASE y = x
      <4>1. flows'[y] = f
        BY <3>1, <1>1
      <4> QED  BY <2>4, <3>1, <4>1 DEF Covers
    <3>2. CASE y # x
      <4>1. flows[y].kind \notin kinds
        BY <2>1, <2>4 DEF Covers, Steps, Reads, Dups
      <4>2. flows'[y] = flows[y]
        BY <3>2, <4>1, <1>3 DEF Without
      <4> QED  BY <2>4, <4>2
    <3> QED  BY <3>1, <3>2
  <2> QED  BY <2>2, <2>3, <2>4
<1>5. StepsSound'
  BY <1>4 DEF StepsSound
<1>6. RestTyped'
  BY RestOf DEF RestTyped
<1> QED  BY <1>2, <1>5, <1>6

LEMMA WithoutNone ==
  ASSUME PageInv
  PROVE  Without(flows, {}) = flows
BY RestOf DEF Without

LEMMA PurchaseGoesOn ==
  ASSUME PageInv, NEW x \in Slots, PurchaseUnknown(x)
  PROVE  PageInv'
<1>1. /\ flows[x].kind = "buy"
      /\ UNCHANGED <<place, controller, open, running, proven>>
  BY DEF PurchaseUnknown
<1>2. CASE Over(x) /\ UNCHANGED auth
  <2>1. ASSUME NEW k \in running'
        PROVE  ~Covers(flows[x], k) /\ (Asked(k) => Asked(k)')
    <3>1. k \in Steps
      BY <1>1, <2>1 DEF PageInv, PageTypeOK
    <3> QED  BY <1>1, <3>1 DEF Covers, Steps, Reads, Dups, Asked, PurchaseOpen, Here
  <2>2. flows' \in [Slots -> SoundFlows] /\ StepsSound'
    BY <1>1, <1>2, <2>1, OneEnds
  <2>3. RestTyped' /\ Sound(auth')
    BY <1>1, <1>2, RestOf DEF RestTyped
  <2> QED  BY <2>2, <2>3, Assembled
<1>3. CASE /\ MayEnsure(auth)
           /\ auth' = Ensured(auth)
           /\ flows' = [flows EXCEPT ![x] = [Awaits(auth, flows[x]) EXCEPT !.again = FALSE]]
  <2> DEFINE f == [Awaits(auth, flows[x]) EXCEPT !.again = FALSE]
  <2>1. flows[x] \in Flows /\ flows[x].kind # "all"
    BY <1>1, FlowFacts, NoneAssumption DEF Kinds
  <2>2. f \in SoundFlows /\ f.kind = flows[x].kind
    BY <1>3, <2>1, RestOf, AwaitsSound
  <2>3. flows' = [Without(flows, {}) EXCEPT ![x] = f]
    BY <1>3, WithoutNone
  <2> HIDE DEF f
  <2>4. flows' \in [Slots -> SoundFlows] /\ StepsSound' /\ RestTyped'
    BY <1>1, <2>1, <2>2, <2>3, Resent
  <2>5. Sound(auth')
    BY <1>3, RestOf, EnsuredSound
  <2> QED  BY <2>4, <2>5, Assembled
<1> QED  BY <1>2, <1>3 DEF PurchaseUnknown

\* A rejected token sends the handler off with another session.
LEMMA TokenRejected ==
  ASSUME PageInv, NEW x \in Slots, Rejected(x)
  PROVE  PageInv'
<1> DEFINE own == flows[x].kind \in {"buy", "load"}
           s == IF own THEN Dropped(auth) ELSE Cleared(auth)
           f == [Awaits(s, flows[x]) EXCEPT !.again = TRUE]
           kinds == IF own THEN {} ELSE {"load"}
<1>1. /\ flows[x].kind # None
      /\ Live(flows[x].base)
      /\ MayEnsure(s)
      /\ auth' = Ensured(s)
      /\ UNCHANGED <<place, controller, open, running, proven>>
  BY DEF Rejected, AtServer
<1>2. flows' = [Without(flows, kinds) EXCEPT ![x] = f]
  BY WithoutNone DEF Rejected
<1>3. Sound(s)
  BY RestOf, DroppedSound, ClearedSound
<1>4. Sound(auth')
  BY <1>1, <1>3, EnsuredSound
<1>5. flows[x] \in Flows /\ flows[x].kind # "all"
  BY <1>1, FlowFacts
<1> HIDE DEF s
<1>6. f \in SoundFlows /\ f.kind = flows[x].kind
  BY <1>1, <1>3, <1>5, AwaitsSound
<1> HIDE DEF f
<1>7. kinds \in SUBSET {"buy", "load"}
  OBVIOUS
<1> HIDE DEF kinds
<1>8. flows' \in [Slots -> SoundFlows] /\ StepsSound' /\ RestTyped'
  BY <1>1, <1>2, <1>5, <1>6, <1>7, Resent
<1> QED  BY <1>4, <1>8, Assembled

----------------------------------------------------------------------------
(* The theorems.                                                           *)

LEMMA PageInitial == DemoPageInit => PageInv
<1> SUFFICES ASSUME DemoPageInit
             PROVE  PageInv
  OBVIOUS
<1>1. auth \in Auths
  BY DEF DemoPageInit, Auths
<1>2. Sound(auth)
  BY <1>1 DEF DemoPageInit, Sound
<1>3. flows \in [Slots -> SoundFlows]
  BY DEF DemoPageInit, SoundFlows
<1>4. PageTypeOK
  BY <1>1 DEF DemoPageInit, PageTypeOK
<1> QED  BY <1>2, <1>3, <1>4 DEF PageInv, StepsSound, DemoPageInit

LEMMA PageStep == PageInv /\ [DemoPageNext]_pageVars => PageInv'
<1> SUFFICES ASSUME PageInv, [DemoPageNext]_pageVars
             PROVE  PageInv'
  OBVIOUS
<1>1. CASE User
  BY <1>1, BaseSwitched, Rechecked, LoadStarted, Purchased, PurchaseRetried, ResetSound,
     RunAllSound, Pressed
     DEF User
<1>2. CASE QueueMoves \/ RecoverSession \/ SessionAges
  BY <1>2, QueueMoved, SessionAsked, SessionAged
<1>3. CASE \E a \in Asks : SessionFails(a) \/ \E user \in Users : SessionAnswered(a, user)
  BY <1>3, SessionFailed, SessionArrived
<1>4. ASSUME NEW x \in Slots, StepAnswered(x) \/ QueueAnswered(x)
      PROVE  PageInv'
  <2>1. CASE StepAnswered(x)
    BY <2>1, StepEnds, RunAllPauses DEF StepAnswered
  <2>2. CASE QueueAnswered(x)
    BY <2>2, PurchaseGoesOn, PurchaseDecided, LoadEnds DEF QueueAnswered
  <2> QED  BY <1>4, <2>1, <2>2
<1>5. ASSUME NEW x \in Slots, Rejected(x) \/ RunNext(x)
      PROVE  PageInv'
  BY <1>5, TokenRejected, RunAllGoesOn
<1>6. CASE UNCHANGED pageVars
  BY <1>6
     DEF pageVars, PageInv, PageTypeOK, Sound, StepsSound, Covers, Asked, PurchaseOpen, Here,
         QueueUser
<1> QED  BY <1>1, <1>2, <1>3, <1>4, <1>5, <1>6 DEF DemoPageNext

\* The session and the handlers fit together after every step, for any number of
\* handlers at a time.
THEOREM PageCorrect == DemoPageSpec => []PageInv
BY PageInitial, PageStep, PTL DEF DemoPageSpec

\* Two requests of the current generation would both be the one under way.
THEOREM OneRequest == DemoPageSpec => []OneSessionRequest
<1>1. ASSUME PageInv
      PROVE  OneSessionRequest
  BY <1>1 DEF PageInv, Sound, OneSessionRequest
<1> QED  BY <1>1, PageCorrect, PTL

\* Every step that is shown as running has a handler or a stored purchase.
THEOREM RunningEnds == DemoPageSpec => []RunningInFlight
<1>1. ASSUME PageInv
      PROVE  RunningInFlight
  BY <1>1 DEF PageInv, StepsSound, Covers, Asked, Dups, RunningInFlight, Under
<1> QED  BY <1>1, PageCorrect, PTL

=============================================================================
