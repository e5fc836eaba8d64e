-------------------------- MODULE ControllerInput --------------------------
(***************************************************************************)
(* Game controllers and Stream Deck keys: the engine that turns buttons     *)
(* into actions (debounce, chords, sequences, deferral, holds), the         *)
(* dispatcher that performs an action and keeps the register of what is     *)
(* held, the wizard that captures a binding, and the plugin's posts         *)
(* (backend/services/controller_engine.py, input_dispatch.py,               *)
(* api/routes/input_devices.py, integrations/streamdeck, gameSetupWizard).  *)
(*                                                                          *)
(* One poll thread handles one event at a time: what it has to dispatch is  *)
(* a queue, and it takes the next event when that is empty.  The routes,    *)
(* the keyboard and the shutdown are other threads.  Clocks are not         *)
(* modelled: a debounce window, a deferral and the window of a sequence     *)
(* may each end between any two events.                                     *)
(***************************************************************************)
EXTENDS Integers, Sequences, SequencesExt, FiniteSets

CONSTANTS
  Pads,       \* the controllers
  Names,      \* device keys, made of a controller's name
  NameOf,     \* controllers of one make have one name
  Tokens,     \* buttons, hat directions, axis crossings
  Plans,      \* bound: what a behaviour keeps to (Plan)
  Deck,       \* a Stream Deck with a key for dictation
  Other,      \* who began a recording that no hold is to end
  Lost,       \* who held one until the hold was forgotten
  None

Actions  == {"begin", "toggle", "stop", "read"}
Bindings == [action : Actions, style : {"single", "chord", "sequence"},
             events : Seq(Tokens), hold : BOOLEAN, scope : Names \union {"any"}]

\* Its controllers, its resolved bindings (a profile switch selects others), and
\* what else there is.
Plan == [pads : SUBSET Pads, tables : SUBSET Seq(Bindings),
         others : SUBSET {"bounces", "wizard", "keyboard", "deck", "shutdown"}]

\* One binding for an action; only what can be released is held.
ASSUME ControllerAssumption ==
  /\ NameOf \in [Pads -> Names]
  /\ \A p \in Plans : p \in Plan /\ \A T \in p.tables :
       /\ \A i, j \in DOMAIN T : T[i].action = T[j].action => i = j
       /\ \A i \in DOMAIN T : T[i].events # <<>> /\ (T[i].hold => T[i].action = "begin")
  /\ Deck \notin {Other, Lost, None} /\ Other \notin {Lost, None} /\ Lost # None
  /\ {Deck, Other, Lost, None} \intersect Names = {}

VARIABLES
  attached,   \* the controllers plugged in
  down,       \* per controller: the tokens that are active
  known,      \* the names the engine keeps a state for
  dev,        \* per name: that state
  out,        \* what the poll thread is dispatching
  alive,      \* the poll thread runs
  swallow,    \* the event it found to belong to a capture
  capture,    \* whether tokens are captured; those down, and the most at once
  wizard,     \* the wizard waits for a captured binding
  table,      \* the bindings in force
  recording,  \* who began the recording, None if there is none
  register,   \* InputActionDispatcher._held: the devices that hold dictation
  deck,       \* the Stream Deck's key: up, down, or unplugged
  posts,      \* the plugin's requests on their way
  deckOn,     \* enabled_kinds["stream_deck"]
  stopping,   \* the shutdown has released what was held
  plan        \* bound: the plan of this behaviour

devices  == << known, dev, out >>
physical == << attached, down >>
poll     == << alive, swallow >>
wizardry == << capture, wizard >>
profile  == << table, plan >>
runtime  == << recording, register >>
streams  == << deck, posts, deckOn >>
vars == << physical, devices, poll, wizardry, profile, runtime, streams, stopping >>

Fresh == [pressed |-> {}, recent |-> {}, latched |-> {}, held |-> {}, pending |-> {},
          progress |-> [a \in Actions |-> 0], landed |-> {}]
NoCapture == [on |-> FALSE, held |-> {}, peak |-> {}]

Init ==
  /\ attached = {} /\ down = [p \in Pads |-> {}]
  /\ known = {} /\ dev = [n \in Names |-> Fresh] /\ out = <<>>
  /\ alive = TRUE /\ swallow = None
  /\ capture = NoCapture /\ wizard = FALSE
  /\ plan \in Plans /\ table \in plan.tables
  /\ recording = None /\ register = {}
  /\ deck = "up" /\ posts = {} /\ deckOn = TRUE /\ stopping = FALSE

Polling == alive /\ ~stopping /\ out = <<>> /\ swallow = None
-----------------------------------------------------------------------------
(* The dispatcher.                                                          *)

\* InputActionDispatcher.dispatch, for an action of a device that is enabled.
\* A recording may fail to start, which is answered and not raised.
Perform(who, action, hold) ==
  /\ \/ /\ action = "begin"
        /\ recording' \in IF recording = None THEN {None, IF hold THEN who ELSE Other}
                                              ELSE {recording}
     \/ /\ action = "toggle"
        /\ recording' \in IF recording = None THEN {None, Other} ELSE {None}
     \/ action \in {"end", "stop"} /\ recording' = None
     \/ action = "read" /\ recording' = recording
  /\ register' = IF hold THEN register \union {who}
                 ELSE IF action = "end" THEN register \ {who} ELSE register

Press(n, b, loose) == [key |-> n, kind |-> "press", binding |-> b, loose |-> loose]
Release(n, h)      == [key |-> n, kind |-> "release", binding |-> h.binding, loose |-> h.loose]
Releases(n, H)     == SetToSeq({Release(n, h) : h \in H})

\* Mutant: a hold is noted beside the one its action has already.
NotedBeside(held, e) == held \union {[binding |-> e.binding, loose |-> e.loose]}

\* A press that is held is noted by the engine too, one binding for an action.
Noted(held, e) ==
  {h \in held : h.binding.action # e.binding.action}
  \union {[binding |-> e.binding, loose |-> e.loose]}

Dispatch ==
  /\ alive /\ out # <<>>
  /\ out' = Tail(out)
  /\ LET e == Head(out)
     IN  \/ /\ e.kind = "release"
            /\ Perform(e.key, "end", FALSE)
            /\ UNCHANGED dev
         \/ /\ e.kind = "press"
            /\ Perform(e.key, e.binding.action, e.binding.hold)
            /\ dev' = IF e.binding.hold
                         THEN [dev EXCEPT ![e.key].held = Noted(@, e)] ELSE dev
  /\ UNCHANGED << physical, known, poll, wizardry, profile, streams, stopping >>
-----------------------------------------------------------------------------
(* A token goes down.  `d' is the state of its device.                       *)

InForce(n) == {b \in ToSet(table) : b.scope \in {"any", n} \/ b.action = "stop"}
Set(b)     == ToSet(b.events)
Chord(b)   == b.style = "chord"

\* Where the token brings a sequence, whose window may be over.
Progress(d, b, t, late) ==
  LET reached  == IF b.action \in late THEN 0 ELSE d.progress[b.action]
      expected == b.events[IF reached < Len(b.events) THEN reached + 1 ELSE 1]
  IN  IF t = expected THEN reached + 1 ELSE IF t = b.events[1] THEN 1 ELSE 0

Completes(d, b, t, late) ==
  \/ b.style = "single" /\ t = b.events[1]
  \/ Chord(b) /\ t \in Set(b) /\ Set(b) \subseteq d.pressed /\ b.action \notin d.latched
  \/ b.style = "sequence" /\ Progress(d, b, t, late) >= Len(b.events)

\* Chords that fire are latched, sequences advance or start again.
Advanced(d, bs, t, late) ==
  [d EXCEPT
     !.latched = @ \union {b.action : b \in {c \in bs : Chord(c) /\ Completes(d, c, t, late)}},
     !.progress = [a \in Actions |->
        IF \E b \in bs : b.action = a /\ b.style = "sequence"
          THEN LET b == CHOOSE x \in bs : x.action = a
               IN  IF Completes(d, b, t, late) THEN 0 ELSE Progress(d, b, t, late)
          ELSE @[a]],
     !.landed = @ \union {b \in bs : Chord(b) /\ Completes(d, b, t, late)}]

\* A longer binding that can still land makes a shorter one wait; never the
\* emergency stop.
CanLand(d, q, b) ==
  /\ q.action # b.action
  /\ Len(q.events) > Cardinality(Set(b))
  /\ \/ Chord(q) /\ Set(b) \subseteq Set(q) /\ d.pressed \subseteq Set(q)
     \/ q.style = "sequence" /\ d.progress[q.action] > 0
Deferred(d, bs, b) == b.action # "stop" /\ \E q \in bs : CanLand(d, q, b)

\* Mutant: only a binding of the same buttons is cancelled.
CancelledSame(fired, x) ==
  \E b \in fired :
    /\ \A c \in fired : Len(c.events) <= Len(b.events)
    /\ Set(x.binding) = Set(b)

\* The longest bindings that fire cancel what still waits inside them.
Cancelled(fired, x) ==
  \E b \in fired :
    /\ \A c \in fired : Len(c.events) <= Len(b.events)
    /\ Set(x.binding) \subseteq Set(b)

Waiting(d, fired, deferred) ==
  {x \in d.pending : ~Cancelled(fired, x) /\ x.binding.action \notin {b.action : b \in deferred}}
  \union {[binding |-> b, tokens |-> d.pressed] : b \in deferred}

\* The bindings of B in the order of the table.
InOrder(B) ==
  LET places == {i \in DOMAIN table : table[i] \in B}
      rank(i) == Cardinality({j \in places : j <= i})
  IN  [k \in 1 .. Cardinality(places) |-> table[CHOOSE i \in places : rank(i) = k]]

Bounces(t) == IF "bounces" \in plan.others THEN {t} ELSE {}
Fire(n, t, late) ==
  LET bs       == InForce(n)
      before   == [dev[n] EXCEPT !.pressed = @ \union {t}, !.recent = @ \union Bounces(t)]
      fired    == {b \in bs : Completes(before, b, t, late)}
      d        == Advanced(before, bs, t, late)
      deferred == {b \in fired : Deferred(d, bs, b)}
      now      == InOrder(fired \ deferred)
  IN  /\ dev' = [dev EXCEPT ![n] = [d EXCEPT !.pending = Waiting(d, fired, deferred)]]
      /\ out' = [i \in DOMAIN now |-> Press(n, now[i], FALSE)]

\* A press within the debounce window of the last is dropped; while a binding
\* is captured it is swallowed.
TokenDown(p, t) ==
  LET n == NameOf[p]
  IN  /\ Polling /\ p \in attached /\ t \notin down[p]
      /\ down' = [down EXCEPT ![p] = @ \union {t}]
      /\ known' = known \union {n}
      /\ \/ t \in dev[n].recent /\ UNCHANGED << dev, out, swallow >>
         \/ /\ t \notin dev[n].recent /\ capture.on
            /\ dev' = [dev EXCEPT ![n].pressed = @ \union {t}, ![n].recent = @ \union Bounces(t)]
            /\ swallow' = [token |-> t, goes |-> "down"]
            /\ UNCHANGED out
         \/ /\ t \notin dev[n].recent /\ ~capture.on
            /\ \E late \in SUBSET {a \in Actions : dev[n].progress[a] > 0} : Fire(n, t, late)
            /\ UNCHANGED swallow
      /\ UNCHANGED << attached, alive, wizardry, profile, runtime, streams, stopping >>
-----------------------------------------------------------------------------
(* A token goes up.                                                         *)

Satisfied(pressed, b) == IF Chord(b) THEN Set(b) \subseteq pressed ELSE Last(b.events) \in pressed

Rearmed(n, d) ==
  d.latched \ {b.action : b \in {c \in InForce(n) : Chord(c) /\ ~(Set(c) \subseteq d.pressed)}}

\* Mutant: what is held is looked up in the bindings of now.
LetGoOfNow(n, d) ==
  LET over == {h \in d.held : \E b \in InForce(n) :
                 b.action = h.binding.action /\ ~Satisfied(d.pressed, b)}
  IN  /\ dev' = [dev EXCEPT ![n] = [d EXCEPT !.latched = Rearmed(n, d), !.held = @ \ over]]
      /\ out' = Releases(n, over)
LetGo(n, d) ==
  LET over == {h \in d.held : ~Satisfied(d.pressed, h.binding)}
  IN  /\ dev' = [dev EXCEPT ![n] = [d EXCEPT !.latched = Rearmed(n, d), !.held = @ \ over]]
      /\ out' = Releases(n, over)

\* What a capture keeps from the engine: the hold stays, its buttons do not.
LetGoUnseen(n, d) ==
  dev' = [dev EXCEPT ![n] = [d EXCEPT !.held =
            {[h EXCEPT !.loose = @ \/ ~Satisfied(d.pressed, h.binding)] : h \in @}]]

TokenUp(p, t) ==
  LET n == NameOf[p]
      d == [dev[n] EXCEPT !.pressed = @ \ {t}, !.landed = {b \in @ : t \notin Set(b)}]
  IN  /\ Polling /\ p \in attached /\ t \in down[p]
      /\ down' = [down EXCEPT ![p] = @ \ {t}]
      /\ \/ n \notin known /\ UNCHANGED << dev, out, swallow >>
         \/ /\ n \in known /\ capture.on
            /\ LetGoUnseen(n, d)
            /\ swallow' = [token |-> t, goes |-> "up"]
            /\ UNCHANGED out
         \/ n \in known /\ ~capture.on /\ LetGo(n, d) /\ UNCHANGED swallow
      /\ UNCHANGED << attached, known, alive, wizardry, profile, runtime, streams, stopping >>

\* The windows: of a bounce, and of a deferral, which tick() then fires.
Settle(n, t) ==
  /\ t \in dev[n].recent
  /\ dev' = [dev EXCEPT ![n].recent = @ \ {t}]
  /\ UNCHANGED << physical, known, out, poll, wizardry, profile, runtime, streams, stopping >>
Tick(n, x) ==
  /\ Polling /\ ~capture.on /\ x \in dev[n].pending
  /\ dev' = [dev EXCEPT ![n].pending = @ \ {x}]
  /\ out' = << Press(n, x.binding, ~Satisfied(dev[n].pressed, x.binding)) >>
  /\ UNCHANGED << physical, known, poll, wizardry, profile, runtime, streams, stopping >>
-----------------------------------------------------------------------------
(* Devices come and go; the sidecar shuts down.                             *)

\* A name the engine has already is taken for a reconnect: its state is reset,
\* and what it held is forgotten.
Attach(p) ==
  LET n == NameOf[p]
  IN  /\ Polling /\ p \in plan.pads \ attached
      /\ attached' = attached \union {p}
      /\ known' = known \union {n}
      /\ dev' = [dev EXCEPT ![n] = Fresh]
      /\ recording' = IF recording = n THEN Lost ELSE recording
      /\ UNCHANGED << down, out, poll, wizardry, profile, register, streams, stopping >>

\* Mutant: the state is reset before what it held is looked at.
UnplugReset(p) ==
  LET n == NameOf[p]
  IN  /\ Polling /\ p \in attached
      /\ attached' = attached \ {p} /\ down' = [down EXCEPT ![p] = {}]
      /\ known' = known \ {n}
      /\ dev' = [dev EXCEPT ![n] = Fresh]
      /\ UNCHANGED << out, poll, wizardry, profile, runtime, streams, stopping >>
Unplug(p) ==
  LET n == NameOf[p]
  IN  /\ Polling /\ p \in attached
      /\ attached' = attached \ {p} /\ down' = [down EXCEPT ![p] = {}]
      /\ known' = known \ {n}
      /\ dev' = [dev EXCEPT ![n] = Fresh]
      /\ out' = Releases(n, dev[n].held)
      /\ UNCHANGED << poll, wizardry, profile, runtime, streams, stopping >>

\* Another thread releases everything; the poll thread ends when what it is at
\* is done.
Shutdown ==
  LET holding == {n \in Names : dev[n].held # {}}
  IN  /\ "shutdown" \in plan.others /\ ~stopping /\ stopping' = TRUE
      /\ dev' = [n \in Names |-> Fresh]
      /\ register' = register \ holding
      /\ recording' = IF holding = {} THEN recording ELSE None
      /\ UNCHANGED << physical, known, out, poll, wizardry, profile, streams >>
-----------------------------------------------------------------------------
(* The wizard's capture.                                                     *)

\* The poll thread uses the capture it found a moment ago; if a cancel came in
\* between, that raises and ends the thread.
Swallow ==
  /\ alive /\ swallow # None
  /\ swallow' = None
  /\ \/ ~capture.on /\ alive' = FALSE /\ UNCHANGED capture
     \/ /\ capture.on
        /\ LET held == IF swallow.goes = "down" THEN capture.held \union {swallow.token}
                                                ELSE capture.held \ {swallow.token}
           IN  capture' = [on |-> TRUE, held |-> held,
                           peak |-> IF Cardinality(held) > Cardinality(capture.peak)
                                      THEN held ELSE capture.peak]
        /\ UNCHANGED alive
  /\ UNCHANGED << physical, devices, wizard, profile, runtime, streams, stopping >>

WizardBegins ==
  /\ "wizard" \in plan.others /\ ~wizard /\ wizard' = TRUE
  /\ capture' = [NoCapture EXCEPT !.on = TRUE]
  /\ UNCHANGED << physical, devices, poll, profile, runtime, streams, stopping >>
\* It returns with the binding, and cancels only when there is none in time.
WizardReads ==
  /\ wizard /\ wizard' = FALSE
  /\ capture.on /\ capture.held = {} /\ capture.peak # {}
  /\ UNCHANGED << physical, devices, poll, capture, profile, runtime, streams, stopping >>
WizardGivesUp ==
  /\ wizard /\ wizard' = FALSE
  /\ capture' = NoCapture
  /\ UNCHANGED << physical, devices, poll, profile, runtime, streams, stopping >>
-----------------------------------------------------------------------------
(* Beside the controllers: profiles, the keyboard, the Stream Deck.          *)

SwitchProfile(T) ==
  /\ T # table /\ table' = T
  /\ UNCHANGED << plan, physical, devices, poll, wizardry, runtime, streams, stopping >>

Keyboard ==
  /\ "keyboard" \in plan.others
  /\ recording' \in IF recording = None THEN {Other} ELSE {None}
  /\ UNCHANGED << physical, devices, poll, wizardry, profile, register, streams, stopping >>

\* The key's events are posted one by one and may overtake each other.
DeckEvent(from, to, post) ==
  /\ deck \in from /\ deck' = to
  /\ post \notin posts /\ posts' = posts \union ({post} \ {None})
  /\ UNCHANGED << physical, devices, poll, wizardry, profile, runtime, deckOn, stopping >>
DeckKey ==
  /\ "deck" \in plan.others
  /\ \/ DeckEvent({"up"}, "down", "keyDown") \/ DeckEvent({"down"}, "up", "keyUp")
     \/ DeckEvent({"up", "down"}, "gone", "disconnected") \/ DeckEvent({"gone"}, "up", None)

\* A deck that is switched off is refused, its releases too; one that is gone
\* holds nothing, whatever became of its releases.
Arrive(post) ==
  /\ post \in posts /\ posts' = posts \ {post}
  /\ \/ post = "keyDown" /\ deckOn /\ Perform(Deck, "begin", TRUE)
     \/ post = "keyUp" /\ deckOn /\ Perform(Deck, "end", FALSE)
     \/ post # "disconnected" /\ ~deckOn /\ UNCHANGED runtime
     \/ /\ post = "disconnected"
        /\ register' = register \ {Deck}
        /\ recording' = IF Deck \in register /\ deckOn THEN None
                        ELSE IF recording = Deck THEN Lost ELSE recording
  /\ UNCHANGED << physical, devices, poll, wizardry, profile, deck, deckOn, stopping >>

DeckEnabled ==
  /\ "deck" \in plan.others
  /\ deckOn' = ~deckOn
  /\ UNCHANGED << physical, devices, poll, wizardry, profile, runtime, deck, posts, stopping >>
-----------------------------------------------------------------------------
Next ==
  \/ \E p \in Pads : Attach(p) \/ Unplug(p) \/ \E t \in Tokens : TokenDown(p, t) \/ TokenUp(p, t)
  \/ \E n \in Names :
       \/ \E t \in Tokens : Settle(n, t)
       \/ \E x \in dev[n].pending : Tick(n, x)
  \/ Dispatch \/ Swallow \/ Shutdown
  \/ WizardBegins \/ WizardReads \/ WizardGivesUp
  \/ \E T \in plan.tables : SwitchProfile(T)
  \/ Keyboard \/ DeckKey \/ DeckEnabled
  \/ \E post \in posts : Arrive(post)

Spec == Init /\ [][Next]_vars
-----------------------------------------------------------------------------
InTables  == UNION {ToSet(T) : T \in plan.tables}
HeldSet   == [binding : InTables, loose : BOOLEAN]
Emissions == [key : Names, kind : {"press", "release"}, binding : InTables, loose : BOOLEAN]

\* Types of the engine's and the dispatcher's state.
TypeOK ==
  /\ attached \subseteq Pads /\ down \in [Pads -> SUBSET Tokens]
  /\ known \subseteq Names
  /\ \A n \in Names :
       LET d == dev[n]
       IN  /\ d.pressed \subseteq Tokens /\ d.recent \subseteq Tokens
           /\ d.latched \subseteq Actions /\ d.landed \subseteq InTables
           /\ d.held \subseteq HeldSet
           /\ \A x \in d.pending : x.binding \in InTables /\ x.tokens \subseteq Tokens
           /\ d.progress \in [Actions -> Nat]
           /\ \A g, h \in d.held : g.binding.action = h.binding.action => g = h
           /\ \A x, y \in d.pending : x.binding.action = y.binding.action => x = y
  /\ out \in Seq(Emissions)
  /\ alive \in BOOLEAN
  /\ swallow = None \/ swallow \in [token : Tokens, goes : {"down", "up"}]
  /\ capture.on \in BOOLEAN /\ capture.held \subseteq Tokens /\ capture.peak \subseteq Tokens
  /\ wizard \in BOOLEAN /\ plan \in Plans /\ table \in plan.tables
  /\ recording \in Names \union {None, Other, Lost, Deck}
  /\ register \subseteq Names \union {Deck}
  /\ deck \in {"up", "down", "gone"} /\ deckOn \in BOOLEAN
  /\ posts \subseteq {"keyDown", "keyUp", "disconnected"}
  /\ stopping \in BOOLEAN

\* A recording that a hold began can be ended by the loss of its device: engine
\* and dispatcher both have the hold while a controller of that name is plugged
\* in, and when it is let go or pulled out the release is on its way.
Holds(n)  == \E h \in dev[n].held : h.binding.action = "begin"
Ending(n) == \E e \in ToSet(out) : e.key = n /\ e.kind = "release"
HoldTracked ==
  /\ \A n \in Names : recording = n =>
       \/ Ending(n)
       \/ n \in register /\ Holds(n) /\ \E p \in attached : NameOf[p] = n
  /\ recording = Deck => Deck \in register

\* A hold outlives its buttons only in the two ways the code has: it was fired
\* late, after they had been let go, or they were let go under a capture; as
\* long as the poll thread lives.
HeldIsDown ==
  alive => \A n \in Names : \A h \in dev[n].held :
    \/ h.loose
    \/ Satisfied(UNION {down[p] : p \in {q \in attached : NameOf[q] = n}}, h.binding)

\* While a chord that fired is held, no shorter action inside it still waits to
\* fire, except one whose own press completed the chord.
DeferralCancelled ==
  \A n \in Names : \A c \in dev[n].landed : \A x \in dev[n].pending :
    Set(x.binding) \subseteq Set(c) => Set(c) \subseteq x.tokens
=============================================================================
