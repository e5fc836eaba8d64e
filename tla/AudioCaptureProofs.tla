------------------------- MODULE AudioCaptureProofs -------------------------
(***************************************************************************)
(* Proofs about AudioCapture for any set of threads, any streams of other  *)
(* applications and any plans: the types and the holders of the three      *)
(* locks, the account of what is muted, what an ended recording holds,     *)
(* that a recording can be stopped (StoppableInv), that an emergency stop  *)
(* ends the recording whatever is under way (QuietInv), and that no        *)
(* threads wait for one another (WorkInv and the order of the locks).      *)
(***************************************************************************)
EXTENDS AudioCapture, SequenceTheorems, TLAPS

Leasing(t, pc) == \/ pc \in {"plan", "mute", "watch", "unwatch"}
                  \/ (pc = "restore" /\ t # Startup)
Streaming == {"switch", "reopen", "open", "closing"}
Recording == {"recorder", "stopped", "failed"}

\* For whom an actor is where it is: the recorder, the wake listener, a stop of
\* everything, a stop or a failed start of the recorder, or itself.
Position(t, pc, ret) ==
    /\ pc \in {"acquire", "duck"} => ret = "recorder"
    /\ pc \in {"plan", "mute", "watch"} => ret = IF t = Watcher THEN "next" ELSE "recorder"
    /\ pc \in {"subscribe", "switch", "reopen", "open", "close"} => ret \in {"recorder", "wake"}
    /\ pc = "closing" => ret \in {"recorder", "wake", "all"}
    /\ pc = "unduck" => ret \in {"stopped", "failed"}
    /\ pc \in {"release", "restore", "unwatch"} => ret \in {"next", "stopped", "failed"}
    /\ pc \in {"next", "asked", "record", "name", "started", "halt", "event", "recover"}
         => ret = "next"
    /\ pc = "recover" => t = Startup
    /\ t = Startup => pc \in {"next", "recover", "restore"} /\ ret = "next"
    /\ pc = "event" => t = Watcher
    /\ t = Watcher => pc \in {"next", "event", "plan", "mute", "watch"}

\* Where the actors are, with the locks that their places take.
Placed ==
    /\ thr \in [Actors -> ActorState]
    /\ \A t \in Actors :
         /\ Position(t, thr[t].pc, thr[t].ret)
         /\ t \in {Watcher, Startup} => thr[t].calls = <<>>
         /\ llock = t <=> Leasing(t, thr[t].pc)
         /\ block = t <=> thr[t].pc \in Streaming
         /\ rlock = t <=> thr[t].ret \in Recording
    /\ {rlock, llock, block} \subseteq Actors \union {None}

\* The variables other than the actors' places and the locks.
Typed ==
    /\ {is_recording, wiping, recording, open, listener, ducked, held, down,
        watching, crossed} \subseteq BOOLEAN
    /\ plan \in Plans /\ calm \in Actors \union {None}
    /\ subs \subseteq {"recorder", "wake"} /\ ducks \subseteq {"fresh", "stale"}
    /\ mode \in {"off", "isolate", "key"}
    /\ mine \subseteq Streams /\ journal \subseteq Streams
    /\ todo \subseteq Streams /\ did \subseteq Streams
    /\ apps \in [Streams -> {"absent", "on", "ours", "lost", "users", "gone"}]
    /\ bounds \in [starts : Nat, wakes : Nat, faults : Nat, crashes : Nat]

LEMMA TypeFrom == Typed /\ Placed => TypeOK
BY DEF Typed, Placed, Leasing, Streaming, At, TypeOK

\* Actor t, and no other, is now at pc, for ret.
Moved(t, pc, ret) ==
    /\ thr' \in [Actors -> ActorState]
    /\ thr'[t].pc = pc /\ thr'[t].ret = ret
    /\ \A u \in Actors \ {t} : thr'[u] = thr[u]
    /\ t \in {Watcher, Startup} => thr'[t].calls = thr[t].calls

LEMMA GoMoves ==
    ASSUME Placed, NEW t \in Actors, NEW pc \in Pcs, Go(t, pc)
    PROVE  Moved(t, pc, thr[t].ret)
BY DEF Placed, Go, Moved, ActorState

LEMMA GoForMoves ==
    ASSUME Placed, NEW t \in Actors, NEW pc \in Pcs,
           NEW ret \in {"next", "recorder", "wake", "all", "stopped", "failed"},
           GoFor(t, pc, ret)
    PROVE  Moved(t, pc, ret)
BY DEF Placed, GoFor, Moved, ActorState

LEMMA EnterMoves ==
    ASSUME Placed, NEW t \in Actors, NEW pc \in Pcs,
           NEW ret \in {"next", "recorder", "wake", "all", "stopped", "failed"},
           NEW op \in Ops, Calls(t, op), Enter(t, pc, ret)
    PROVE  Moved(t, pc, ret) /\ t \notin {Watcher, Startup} /\ At(t, "next")
<1>1. thr[t] \in ActorState /\ At(t, "next") /\ thr[t].calls # <<>>
  BY DEF Placed, Calls
<1>2. Tail(thr[t].calls) \in Seq(Ops)
  BY <1>1, HeadTailProperties DEF ActorState
<1>3. t \notin {Watcher, Startup}
  BY <1>1 DEF Placed
<1> QED BY <1>1, <1>2, <1>3 DEF Placed, Enter, Moved, ActorState

LEMMA InitType == Init => Typed /\ Placed
<1> SUFFICES ASSUME Init PROVE Typed /\ Placed
  OBVIOUS
<1> Idle \in ActorState /\ Idle.pc = "next" /\ Idle.ret = "next" /\ Idle.calls = <<>>
  BY DEF Idle, ActorState, Pcs
<1>1. Placed
  BY CaptureAssumption DEF Init, Placed, Position, Leasing, Streaming, Recording, Actors
<1>2. Typed
  <2>1. plan \in Plan
    BY CaptureAssumption DEF Init
  <2>2. bounds \in [starts : Nat, wakes : Nat, faults : Nat, crashes : Nat]
    BY <2>1 DEF Init, Plan, MaxFaults
  <2> QED BY <2>2 DEF Init, Typed
<1> QED BY <1>1, <1>2

\* A lock whose holder may be t, before and after t moves to where it needs it or not.
LockStep(lock, lock1, t, needs) ==
    IF needs THEN lock1 = t /\ lock \in {t, None}
             ELSE lock1 = IF lock = t THEN None ELSE lock

LEMMA MovedPlaced ==
    ASSUME Placed, NEW t \in Actors, NEW pc, NEW ret, Moved(t, pc, ret), Position(t, pc, ret),
           LockStep(llock, llock', t, Leasing(t, pc)),
           LockStep(block, block', t, pc \in Streaming),
           LockStep(rlock, rlock', t, ret \in Recording)
    PROVE  Placed'
<1>a. None \notin Actors
  BY CaptureAssumption DEF Actors
<1>1. \A u \in Actors :
         /\ Position(u, thr'[u].pc, thr'[u].ret)
         /\ u \in {Watcher, Startup} => thr'[u].calls = <<>>
  BY DEF Placed, Moved
<1>2. ASSUME NEW u \in Actors PROVE llock' = u <=> Leasing(u, thr'[u].pc)
  <2>1. llock = u <=> Leasing(u, thr[u].pc)
    BY DEF Placed
  <2>2. CASE u = t
    BY <1>a, <2>1, <2>2 DEF Moved, LockStep
  <2>3. CASE u # t
    <3>1. thr'[u] = thr[u]
      BY <2>3 DEF Moved
    <3> QED BY <1>a, <2>1, <2>3, <3>1 DEF LockStep
  <2> QED BY <2>2, <2>3
<1>3. ASSUME NEW u \in Actors PROVE block' = u <=> thr'[u].pc \in Streaming
  <2>1. block = u <=> thr[u].pc \in Streaming
    BY DEF Placed
  <2>2. CASE u = t
    BY <1>a, <2>1, <2>2 DEF Moved, LockStep
  <2>3. CASE u # t
    <3>1. thr'[u] = thr[u]
      BY <2>3 DEF Moved
    <3> QED BY <1>a, <2>1, <2>3, <3>1 DEF LockStep
  <2> QED BY <2>2, <2>3
<1>4. ASSUME NEW u \in Actors PROVE rlock' = u <=> thr'[u].ret \in Recording
  <2>1. rlock = u <=> thr[u].ret \in Recording
    BY DEF Placed
  <2>2. CASE u = t
    BY <1>a, <2>1, <2>2 DEF Moved, LockStep
  <2>3. CASE u # t
    <3>1. thr'[u] = thr[u]
      BY <2>3 DEF Moved
    <3> QED BY <1>a, <2>1, <2>3, <3>1 DEF LockStep
  <2> QED BY <2>2, <2>3
<1>5. {rlock', llock', block'} \subseteq Actors \union {None}
  BY DEF Placed, LockStep
<1> QED BY <1>1, <1>2, <1>3, <1>4, <1>5 DEF Placed, Moved, Leasing, Streaming, Recording, Position

Locks(l, b, r) == llock' = l /\ block' = b /\ rlock' = r

LEMMA FaultType ==
    ASSUME Typed, NEW kind, Fault(kind)
    PROVE  /\ bounds' \in [starts : Nat, wakes : Nat, faults : Nat, crashes : Nat]
           /\ bounds' # bounds
BY DEF Typed, Fault

LEMMA LoseType ==
    ASSUME Typed, NEW S
    PROVE  Lose(S) \in [Streams -> {"absent", "on", "ours", "lost", "users", "gone"}]
BY DEF Typed, Lose

LEMMA ListType ==
    ASSUME Typed, NEW wanted \in SUBSET Streams, List(wanted)
    PROVE  /\ todo' \subseteq Streams
           /\ bounds' \in [starts : Nat, wakes : Nat, faults : Nat, crashes : Nat]
           /\ bounds' = bounds => todo' = wanted
<1>1. CASE todo' = wanted /\ UNCHANGED bounds
  BY <1>1 DEF Typed
<1>2. CASE Fault("list") /\ todo' = {}
  BY <1>2, FaultType
<1> QED BY <1>1, <1>2 DEF List

\* Calls of the hotkey manager, and the wipe's flag, keep types and places.
LEMMA FlagStepType ==
    ASSUME Typed, Placed, NEW t \in Actors,
           \/ AskStart(t) \/ TakeStart(t) \/ Started(t) \/ TakeStop(t)
           \/ WipeFlag(t, "wipe") \/ WipeFlag(t, "wiped")
    PROVE  Typed' /\ Placed'
<1> USE DEF At, hotkeys, recorder, mic, volume, engaged, history, lease
<1> /\ thr[t] \in ActorState /\ Position(t, thr[t].pc, thr[t].ret)
    /\ llock = t <=> Leasing(t, thr[t].pc)
    /\ block = t <=> thr[t].pc \in Streaming
    /\ rlock = t <=> thr[t].ret \in Recording
    /\ t # None
  BY CaptureAssumption DEF Placed, Actors
<1>1. CASE AskStart(t)
  <2>1. Typed'
    BY <1>1 DEF AskStart, Typed
  <2>2. \/ Moved(t, "next", "next")
        \/ Moved(t, "asked", "next")
    BY <1>1, EnterMoves DEF AskStart, Ops, Pcs
  <2>3. Placed'
    BY <1>1, <2>2, MovedPlaced DEF AskStart, Calls, Position, Placed, LockStep, Leasing,
       Streaming, Recording
  <2> QED BY <2>1, <2>3
<1>2. CASE TakeStart(t)
  <2>1. Typed'
    BY <1>2 DEF TakeStart, Typed
  <2>2. \/ Moved(t, "next", "next")
        \/ Moved(t, "record", "next")
    BY <1>2, GoMoves DEF TakeStart, Pcs, Position
  <2>3. Placed'
    BY <1>2, <2>2, MovedPlaced DEF TakeStart, Position, Placed, LockStep, Leasing,
       Streaming, Recording
  <2> QED BY <2>1, <2>3
<1>3. CASE Started(t)
  <2>1. Typed'
    BY <1>3 DEF Started, Typed
  <2>2. Moved(t, "next", "next")
    <3>1. CASE recording
      BY <1>3, <3>1, GoMoves DEF Started, Pcs, Position
    <3>2. CASE ~ recording
      <4>1. Emergency \o thr[t].calls \in Seq(Ops)
        BY ConcatProperties DEF Emergency, Ops, ActorState
      <4>2. t \notin {Watcher, Startup} /\ thr[t].ret = "next"
        BY <1>3 DEF Started, Position
      <4> DEFINE r == [thr[t] EXCEPT !.pc = "next", !.calls = Emergency \o @]
      <4>3. r \in ActorState /\ r.pc = "next" /\ r.ret = "next"
        BY <4>1, <4>2 DEF ActorState, Pcs
      <4>4. thr \in [Actors -> ActorState] /\ thr' = [thr EXCEPT ![t] = r]
        BY <1>3, <3>2 DEF Started, Placed
      <4> HIDE DEF r
      <4> QED BY <4>2, <4>3, <4>4 DEF Moved
    <3> QED BY <3>1, <3>2
  <2>3. Placed'
    BY <1>3, <2>2, MovedPlaced DEF Started, Position, LockStep, Leasing, Streaming, Recording
  <2> QED BY <2>1, <2>3
<1>4. CASE TakeStop(t)
  <2>1. Typed'
    BY <1>4 DEF TakeStop, Typed
  <2>2. \/ Moved(t, "halt", "next")
        \/ Moved(t, "next", "next")
    BY <1>4, EnterMoves DEF TakeStop, Ops, Pcs
  <2>3. Placed'
    BY <1>4, <2>2, MovedPlaced DEF TakeStop, Calls, Position, Placed, LockStep, Leasing,
       Streaming, Recording
  <2> QED BY <2>1, <2>3
<1>5. CASE WipeFlag(t, "wipe")
  <2>1. Typed'
    BY <1>5 DEF WipeFlag, Typed
  <2>2. Moved(t, "next", "next")
    BY <1>5, EnterMoves DEF WipeFlag, Ops, Pcs
  <2>3. Placed'
    BY <1>5, <2>2, MovedPlaced DEF WipeFlag, Calls, Position, Placed, LockStep, Leasing,
       Streaming, Recording
  <2> QED BY <2>1, <2>3
<1>6. CASE WipeFlag(t, "wiped")
  <2>1. Typed'
    BY <1>6 DEF WipeFlag, Typed
  <2>2. Moved(t, "next", "next")
    BY <1>6, EnterMoves DEF WipeFlag, Ops, Pcs
  <2>3. Placed'
    BY <1>6, <2>2, MovedPlaced DEF WipeFlag, Calls, Position, Placed, LockStep, Leasing,
       Streaming, Recording
  <2> QED BY <2>1, <2>3
<1> QED BY <1>1, <1>2, <1>3, <1>4, <1>5, <1>6

\* Steps of the recorder and of the ducker do.
LEMMA RecorderStepType ==
    ASSUME Typed, Placed, NEW t \in Actors,
           \/ RecorderStart(t) \/ SpawnDuck(t) \/ RecorderStop(t) \/ Unduck(t)
           \/ UnduckNow(t)
    PROVE  Typed' /\ Placed'
<1> USE DEF At, hotkeys, recorder, mic, volume, engaged, history, lease
<1> /\ thr[t] \in ActorState /\ Position(t, thr[t].pc, thr[t].ret)
    /\ llock = t <=> Leasing(t, thr[t].pc)
    /\ block = t <=> thr[t].pc \in Streaming
    /\ rlock = t <=> thr[t].ret \in Recording
    /\ t # None
  BY CaptureAssumption DEF Placed, Actors
<1>1. CASE RecorderStart(t)
  <2>1. Typed'
    BY <1>1 DEF RecorderStart, Typed
  <2>a. thr[t].pc = "record"
    BY <1>1 DEF RecorderStart
  <2>2. \/ Moved(t, "started", "next") /\ Locks(llock, block, rlock)
        \/ Moved(t, "acquire", "recorder") /\ rlock = None /\ Locks(llock, block, t)
    BY <1>1, <2>a, GoMoves, GoForMoves DEF RecorderStart, RecorderFree, Locks, Pcs, Position
  <2>3. Placed'
    <3>1. CASE Moved(t, "started", "next") /\ Locks(llock, block, rlock)
      BY <2>a, <3>1, MovedPlaced DEF Locks, Position, LockStep, Leasing, Streaming, Recording
    <3>2. CASE Moved(t, "acquire", "recorder") /\ rlock = None /\ Locks(llock, block, t)
      BY <2>a, <3>2, MovedPlaced DEF Locks, Position, LockStep, Leasing, Streaming, Recording
    <3> QED BY <2>2, <3>1, <3>2
  <2> QED BY <2>1, <2>3
<1>2. CASE SpawnDuck(t)
  <2>1. Typed'
    BY <1>2 DEF SpawnDuck, Typed
  <2>2. Moved(t, "subscribe", "recorder")
    BY <1>2, GoMoves DEF SpawnDuck, Pcs, Position
  <2>3. Placed'
    BY <1>2, <2>2, MovedPlaced DEF SpawnDuck, Position, Placed, LockStep, Leasing,
       Streaming, Recording
  <2> QED BY <2>1, <2>3
<1>3. CASE RecorderStop(t)
  <2>1. Typed'
    BY <1>3 DEF RecorderStop, Typed
  <2>2. \/ Moved(t, "close", "recorder")
        \/ Moved(t, "release", "stopped")
    BY <1>3, GoForMoves DEF RecorderStop, Pcs, Position
  <2>3. Placed'
    BY <1>3, <2>2, MovedPlaced DEF RecorderStop, RecorderFree, Position, Placed, LockStep, Leasing,
       Streaming, Recording
  <2> QED BY <2>1, <2>3
<1>4. CASE Unduck(t)
  <2>1. Typed'
    BY <1>4 DEF Unduck, StaleDucks, Typed
  <2>2. Moved(t, "release", thr[t].ret)
    BY <1>4, GoMoves DEF Unduck, Pcs, Position
  <2>3. Placed'
    BY <1>4, <2>2, MovedPlaced DEF Unduck, Position, Placed, LockStep, Leasing,
       Streaming, Recording
  <2> QED BY <2>1, <2>3
<1>5. CASE UnduckNow(t)
  <2>1. Typed'
    BY <1>5 DEF UnduckNow, StaleDucks, Typed
  <2>2. Moved(t, "next", "next")
    BY <1>5, EnterMoves DEF UnduckNow, Ops, Pcs
  <2>3. Placed'
    BY <1>5, <2>2, MovedPlaced DEF UnduckNow, Calls, Position, Placed, LockStep, Leasing,
       Streaming, Recording
  <2> QED BY <2>1, <2>3
<1> QED BY <1>1, <1>2, <1>3, <1>4, <1>5

\* Steps of the shared stream do.
LEMMA StreamStepType ==
    ASSUME Typed, Placed, NEW t \in Actors,
           \/ AskWakeOn(t) \/ Subscribe(t) \/ SwitchClose(t) \/ Opened(t)
           \/ OpenFails(t) \/ NameListener(t) \/ TakeWakeOff(t) \/ CloseSub(t)
           \/ StopAll(t) \/ CloseStream(t)
    PROVE  Typed' /\ Placed'
<1> USE DEF At, hotkeys, recorder, mic, volume, engaged, history, lease
<1> /\ thr[t] \in ActorState /\ Position(t, thr[t].pc, thr[t].ret)
    /\ llock = t <=> Leasing(t, thr[t].pc)
    /\ block = t <=> thr[t].pc \in Streaming
    /\ rlock = t <=> thr[t].ret \in Recording
    /\ t # None
  BY CaptureAssumption DEF Placed, Actors
<1>1. CASE AskWakeOn(t)
  <2>1. Typed'
    BY <1>1 DEF AskWakeOn, Typed
  <2>2. \/ Moved(t, "next", "next")
        \/ Moved(t, "subscribe", "wake")
    BY <1>1, EnterMoves DEF AskWakeOn, Ops, Pcs
  <2>3. Placed'
    BY <1>1, <2>2, MovedPlaced DEF AskWakeOn, Calls, Position, Placed, LockStep, Leasing,
       Streaming, Recording
  <2> QED BY <2>1, <2>3
<1>2. CASE Subscribe(t)
  <2>1. Typed'
    BY <1>2 DEF Subscribe, Position, Typed
  <2>a. thr[t].pc = "subscribe"
    BY <1>2 DEF Subscribe
  <2>2. \/ Moved(t, "started", "next") /\ thr[t].ret = "recorder" /\ Locks(llock, block, None)
        \/ Moved(t, "name", "next") /\ thr[t].ret = "wake" /\ Locks(llock, block, rlock)
        \/ Moved(t, "switch", thr[t].ret) /\ block = None /\ Locks(llock, t, rlock)
        \/ Moved(t, "open", thr[t].ret) /\ block = None /\ Locks(llock, t, rlock)
    BY <1>2, <2>a, GoMoves, GoForMoves DEF Subscribe, MicFree, Subscribed, Locks, Pcs, Position
  <2>3. Placed'
    <3>1. CASE Moved(t, "started", "next") /\ thr[t].ret = "recorder" /\ Locks(llock, block, None)
      BY <2>a, <3>1, MovedPlaced DEF Locks, Position, LockStep, Leasing, Streaming, Recording
    <3>2. CASE Moved(t, "name", "next") /\ thr[t].ret = "wake" /\ Locks(llock, block, rlock)
      BY <2>a, <3>2, MovedPlaced DEF Locks, Position, LockStep, Leasing, Streaming, Recording
    <3>3. CASE Moved(t, "switch", thr[t].ret) /\ block = None /\ Locks(llock, t, rlock)
      BY <2>a, <3>3, MovedPlaced DEF Locks, Position, LockStep, Leasing, Streaming, Recording
    <3>4. CASE Moved(t, "open", thr[t].ret) /\ block = None /\ Locks(llock, t, rlock)
      BY <2>a, <3>4, MovedPlaced DEF Locks, Position, LockStep, Leasing, Streaming, Recording
    <3> QED BY <2>2, <3>1, <3>2, <3>3, <3>4
  <2> QED BY <2>1, <2>3
<1>3. CASE SwitchClose(t)
  <2>1. Typed'
    BY <1>3 DEF SwitchClose, Typed
  <2>2. Moved(t, "reopen", thr[t].ret)
    BY <1>3, GoMoves DEF SwitchClose, Pcs, Position
  <2>3. Placed'
    BY <1>3, <2>2, MovedPlaced DEF SwitchClose, Position, Placed, LockStep, Leasing,
       Streaming, Recording
  <2> QED BY <2>1, <2>3
<1>4. CASE Opened(t)
  <2>1. Typed'
    BY <1>4 DEF Opened, Subscribed, Typed
  <2>2. \/ Moved(t, "started", "next")
        \/ Moved(t, "name", "next")
    BY <1>4, GoForMoves DEF Opened, Subscribed, Pcs, Position
  <2>3. Placed'
    BY <1>4, <2>2, MovedPlaced DEF Opened, Subscribed, Position, Placed, LockStep, Leasing,
       Streaming, Recording
  <2> QED BY <2>1, <2>3
<1>5. CASE OpenFails(t)
  <2>1. Typed'
    BY <1>5, FaultType DEF OpenFails, Typed
  <2>a. thr[t].pc \in {"open", "reopen"}
    BY <1>5 DEF OpenFails
  <2>2. \/ Moved(t, "unduck", "failed") /\ thr[t].ret = "recorder" /\ Locks(llock, None, rlock)
        \/ Moved(t, "next", "next") /\ thr[t].ret = "wake" /\ Locks(llock, None, rlock)
    BY <1>5, <2>a, GoForMoves DEF OpenFails, Locks, Pcs, Position
  <2>3. Placed'
    <3>1. CASE Moved(t, "unduck", "failed") /\ thr[t].ret = "recorder" /\ Locks(llock, None, rlock)
      BY <2>a, <3>1, MovedPlaced DEF Locks, Position, LockStep, Leasing, Streaming, Recording
    <3>2. CASE Moved(t, "next", "next") /\ thr[t].ret = "wake" /\ Locks(llock, None, rlock)
      BY <2>a, <3>2, MovedPlaced DEF Locks, Position, LockStep, Leasing, Streaming, Recording
    <3> QED BY <2>2, <3>1, <3>2
  <2> QED BY <2>1, <2>3
<1>6. CASE NameListener(t)
  <2>1. Typed'
    BY <1>6 DEF NameListener, Typed
  <2>2. Moved(t, "next", "next")
    BY <1>6, GoMoves DEF NameListener, Pcs, Position
  <2>3. Placed'
    BY <1>6, <2>2, MovedPlaced DEF NameListener, Position, Placed, LockStep, Leasing,
       Streaming, Recording
  <2> QED BY <2>1, <2>3
<1>7. CASE TakeWakeOff(t)
  <2>1. Typed'
    BY <1>7 DEF TakeWakeOff, Typed
  <2>2. \/ Moved(t, "close", "wake")
        \/ Moved(t, "next", "next")
    BY <1>7, EnterMoves DEF TakeWakeOff, Ops, Pcs
  <2>3. Placed'
    BY <1>7, <2>2, MovedPlaced DEF TakeWakeOff, Calls, Position, Placed, LockStep, Leasing,
       Streaming, Recording
  <2> QED BY <2>1, <2>3
<1>8. CASE CloseSub(t)
  <2>1. Typed'
    BY <1>8 DEF CloseSub, Closed, Typed
  <2>a. thr[t].pc = "close"
    BY <1>8 DEF CloseSub
  <2>2. \/ Moved(t, "closing", thr[t].ret) /\ block = None /\ Locks(llock, t, rlock)
        \/ Moved(t, "unduck", "stopped") /\ thr[t].ret = "recorder" /\ Locks(llock, block, rlock)
        \/ Moved(t, "next", "next") /\ thr[t].ret = "wake" /\ Locks(llock, block, rlock)
    BY <1>8, <2>a, GoMoves, GoForMoves DEF CloseSub, MicFree, Closed, Locks, Pcs, Position
  <2>3. Placed'
    <3>1. CASE Moved(t, "closing", thr[t].ret) /\ block = None /\ Locks(llock, t, rlock)
      BY <2>a, <3>1, MovedPlaced DEF Locks, Position, LockStep, Leasing, Streaming, Recording
    <3>2. CASE Moved(t, "unduck", "stopped") /\ thr[t].ret = "recorder" /\ Locks(llock, block, rlock)
      BY <2>a, <3>2, MovedPlaced DEF Locks, Position, LockStep, Leasing, Streaming, Recording
    <3>3. CASE Moved(t, "next", "next") /\ thr[t].ret = "wake" /\ Locks(llock, block, rlock)
      BY <2>a, <3>3, MovedPlaced DEF Locks, Position, LockStep, Leasing, Streaming, Recording
    <3> QED BY <2>2, <3>1, <3>2, <3>3
  <2> QED BY <2>1, <2>3
<1>9. CASE StopAll(t)
  <2>1. Typed'
    BY <1>9 DEF StopAll, Typed
  <2>a. thr[t].pc = "next" /\ t \notin {Watcher, Startup}
    BY <1>9 DEF StopAll, Calls, Placed
  <2>2. \/ Moved(t, "closing", "all") /\ block = None /\ Locks(llock, t, rlock)
        \/ Moved(t, "next", "next") /\ Locks(llock, block, rlock)
    BY <1>9, <2>a, EnterMoves DEF StopAll, MicFree, Calls, Ops, Locks, Pcs, Position
  <2>3. Placed'
    <3>1. CASE Moved(t, "closing", "all") /\ block = None /\ Locks(llock, t, rlock)
      BY <2>a, <3>1, MovedPlaced DEF Locks, Position, LockStep, Leasing, Streaming, Recording
    <3>2. CASE Moved(t, "next", "next") /\ Locks(llock, block, rlock)
      BY <2>a, <3>2, MovedPlaced DEF Locks, Position, LockStep, Leasing, Streaming, Recording
    <3> QED BY <2>2, <3>1, <3>2
  <2> QED BY <2>1, <2>3
<1>10. CASE CloseStream(t)
  <2>1. Typed'
    BY <1>10 DEF CloseStream, Closed, Typed
  <2>a. thr[t].pc = "closing"
    BY <1>10 DEF CloseStream
  <2>2. \/ Moved(t, "unduck", "stopped") /\ thr[t].ret = "recorder" /\ Locks(llock, None, rlock)
        \/ Moved(t, "next", "next") /\ thr[t].ret # "recorder" /\ Locks(llock, None, rlock)
    BY <1>10, <2>a, GoForMoves DEF CloseStream, Closed, Locks, Pcs, Position
  <2>3. Placed'
    <3>1. CASE Moved(t, "unduck", "stopped") /\ thr[t].ret = "recorder" /\ Locks(llock, None, rlock)
      BY <2>a, <3>1, MovedPlaced DEF Locks, Position, LockStep, Leasing, Streaming, Recording
    <3>2. CASE Moved(t, "next", "next") /\ thr[t].ret # "recorder" /\ Locks(llock, None, rlock)
      BY <2>a, <3>2, MovedPlaced DEF Locks, Position, LockStep, Leasing, Streaming, Recording
    <3> QED BY <2>2, <3>1, <3>2
  <2> QED BY <2>1, <2>3
<1> QED BY <1>1, <1>2, <1>3, <1>4, <1>5, <1>6, <1>7, <1>8, <1>9, <1>10

\* Steps of the lease do.
LEMMA LeaseStepType ==
    ASSUME Typed, Placed, NEW t \in Actors,
           \/ Acquire(t) \/ WriteJournal(t) \/ (\E s \in Streams : Mute(t, s))
           \/ Watch(t) \/ OnNewStream(t) \/ CallRelease(t) \/ Release(t)
           \/ (\E s \in Streams : Unmute(t, s)) \/ Restored(t) \/ Unwatch(t)
    PROVE  Typed' /\ Placed'
<1> USE DEF At, hotkeys, recorder, mic, volume, engaged, history, lease
<1> /\ thr[t] \in ActorState /\ Position(t, thr[t].pc, thr[t].ret)
    /\ llock = t <=> Leasing(t, thr[t].pc)
    /\ block = t <=> thr[t].pc \in Streaming
    /\ rlock = t <=> thr[t].ret \in Recording
    /\ t # None
  BY CaptureAssumption DEF Placed, Actors
<1>1. CASE Acquire(t)
  <2>1. Typed'
    <3>1. \A S : Lose(S) \in [Streams -> {"absent", "on", "ours", "lost", "users", "gone"}]
      BY LoseType
    <3>2. CASE Engage(t)
      <4>1. /\ todo' \subseteq Streams /\ did' = {}
            /\ bounds' \in [starts : Nat, wakes : Nat, faults : Nat, crashes : Nat]
        BY <3>2, ListType DEF Engage
      <4> QED BY <1>1, <3>1, <4>1 DEF Acquire, Typed
    <3>3. CASE ~ Engage(t)
      BY <1>1, <3>1, <3>3 DEF Acquire, Typed
    <3> QED BY <3>2, <3>3
  <2>a. thr[t].pc = "acquire"
    BY <1>1 DEF Acquire
  <2>2. \/ Moved(t, "duck", "recorder") /\ Locks(llock, block, rlock)
        \/ Moved(t, "watch", "recorder") /\ llock = None /\ Locks(t, block, rlock)
        \/ Moved(t, "plan", "recorder") /\ llock = None /\ Locks(t, block, rlock)
    BY <1>1, <2>a, GoMoves DEF Acquire, LeaseFree, Engage, Locks, Pcs, Position
  <2>3. Placed'
    <3>1. CASE Moved(t, "duck", "recorder") /\ Locks(llock, block, rlock)
      BY <2>a, <3>1, MovedPlaced DEF Locks, Position, LockStep, Leasing, Streaming, Recording
    <3>2. CASE Moved(t, "watch", "recorder") /\ llock = None /\ Locks(t, block, rlock)
      BY <2>a, <3>2, MovedPlaced DEF Locks, Position, LockStep, Leasing, Streaming, Recording
    <3>3. CASE Moved(t, "plan", "recorder") /\ llock = None /\ Locks(t, block, rlock)
      BY <2>a, <3>3, MovedPlaced DEF Locks, Position, LockStep, Leasing, Streaming, Recording
    <3> QED BY <2>2, <3>1, <3>2, <3>3
  <2> QED BY <2>1, <2>3
<1>2. CASE WriteJournal(t)
  <2>1. Typed'
    BY <1>2 DEF WriteJournal, Fault, Typed
  <2>2. \/ Moved(t, "mute", thr[t].ret)
        \/ Moved(t, "watch", thr[t].ret)
    BY <1>2, GoMoves DEF WriteJournal, Pcs, Position
  <2>3. Placed'
    BY <1>2, <2>2, MovedPlaced DEF WriteJournal, Position, Placed, LockStep, Leasing,
       Streaming, Recording
  <2> QED BY <2>1, <2>3
<1>3. ASSUME NEW s \in Streams, Mute(t, s) PROVE Typed' /\ Placed'
  <2>1. Typed'
    BY <1>3 DEF Mute, MuteFailed, Fault, Typed
  <2>2. \/ Moved(t, "mute", thr[t].ret)
        \/ Moved(t, "watch", thr[t].ret)
    BY <1>3, GoMoves DEF Mute, Pcs, Position
  <2>3. Placed'
    BY <1>3, <2>2, MovedPlaced DEF Mute, Position, Placed, LockStep, Leasing,
       Streaming, Recording
  <2> QED BY <2>1, <2>3
<1>4. CASE Watch(t)
  <2>1. Typed'
    BY <1>4 DEF Watch, Typed
  <2>a. thr[t].pc = "watch"
    BY <1>4 DEF Watch
  <2>2. \/ Moved(t, "next", "next") /\ t = Watcher /\ Locks(None, block, rlock)
        \/ Moved(t, "duck", "recorder") /\ t # Watcher /\ Locks(None, block, rlock)
    BY <1>4, <2>a, GoMoves DEF Watch, Locks, Pcs, Position
  <2>3. Placed'
    <3>1. CASE Moved(t, "next", "next") /\ t = Watcher /\ Locks(None, block, rlock)
      BY <2>a, <3>1, MovedPlaced DEF Locks, Position, LockStep, Leasing, Streaming, Recording
    <3>2. CASE Moved(t, "duck", "recorder") /\ t # Watcher /\ Locks(None, block, rlock)
      BY <2>a, <3>2, MovedPlaced DEF Locks, Position, LockStep, Leasing, Streaming, Recording
    <3> QED BY <2>2, <3>1, <3>2
  <2> QED BY <2>1, <2>3
<1>5. CASE OnNewStream(t)
  <2>1. Typed'
    BY <1>5 DEF OnNewStream, Engage, List, Fault, Typed
  <2>a. thr[t].pc = "event"
    BY <1>5 DEF OnNewStream
  <2>2. \/ Moved(t, "watch", "next") /\ llock = None /\ Locks(t, block, rlock)
        \/ Moved(t, "plan", "next") /\ llock = None /\ Locks(t, block, rlock)
        \/ Moved(t, "next", "next") /\ Locks(llock, block, rlock)
    BY <1>5, <2>a, GoMoves DEF OnNewStream, LeaseFree, Engage, Locks, Pcs, Position
  <2>3. Placed'
    <3>1. CASE Moved(t, "watch", "next") /\ llock = None /\ Locks(t, block, rlock)
      BY <2>a, <3>1, MovedPlaced DEF Locks, Position, LockStep, Leasing, Streaming, Recording
    <3>2. CASE Moved(t, "plan", "next") /\ llock = None /\ Locks(t, block, rlock)
      BY <2>a, <3>2, MovedPlaced DEF Locks, Position, LockStep, Leasing, Streaming, Recording
    <3>3. CASE Moved(t, "next", "next") /\ Locks(llock, block, rlock)
      BY <2>a, <3>3, MovedPlaced DEF Locks, Position, LockStep, Leasing, Streaming, Recording
    <3> QED BY <2>2, <3>1, <3>2, <3>3
  <2> QED BY <2>1, <2>3
<1>6. CASE CallRelease(t)
  <2>1. Typed'
    BY <1>6 DEF CallRelease, Typed
  <2>2. Moved(t, "release", "next")
    BY <1>6, EnterMoves DEF CallRelease, Ops, Pcs
  <2>3. Placed'
    BY <1>6, <2>2, MovedPlaced DEF CallRelease, Calls, Position, Placed, LockStep, Leasing,
       Streaming, Recording
  <2> QED BY <2>1, <2>3
<1>7. CASE Release(t)
  <2>1. Typed'
    <3>1. Lose(mine) \in [Streams -> {"absent", "on", "ours", "lost", "users", "gone"}]
      BY LoseType
    <3>2. CASE List({s \in mine : Muted(s)})
      <4>1. {s \in mine : Muted(s)} \in SUBSET Streams
        BY DEF Typed
      <4>2. /\ todo' \subseteq Streams
            /\ bounds' \in [starts : Nat, wakes : Nat, faults : Nat, crashes : Nat]
        BY <3>2, <4>1, ListType
      <4> QED BY <1>7, <3>1, <4>2 DEF Release, Typed
    <3>3. CASE ~ List({s \in mine : Muted(s)})
      BY <1>7, <3>3 DEF Release, Typed
    <3> QED BY <3>2, <3>3
  <2>a. thr[t].pc = "release"
    BY <1>7 DEF Release
  <2>2. \/ Moved(t, "next", "next") /\ thr[t].ret = "next" /\ Locks(llock, block, rlock)
        \/ Moved(t, "next", "next") /\ thr[t].ret = "stopped" /\ Locks(llock, block, None)
        \/ Moved(t, "started", "next") /\ thr[t].ret = "failed" /\ Locks(llock, block, None)
        \/ Moved(t, "unwatch", thr[t].ret) /\ llock = None /\ Locks(t, block, rlock)
        \/ Moved(t, "restore", thr[t].ret) /\ llock = None /\ Locks(t, block, rlock)
    BY <1>7, <2>a, GoMoves, GoForMoves DEF Release, LeaseFree, Return, Locks, Pcs, Position
  <2>3. Placed'
    <3>1. CASE Moved(t, "next", "next") /\ thr[t].ret = "next" /\ Locks(llock, block, rlock)
      BY <2>a, <3>1, MovedPlaced DEF Locks, Position, LockStep, Leasing, Streaming, Recording
    <3>2. CASE Moved(t, "next", "next") /\ thr[t].ret = "stopped" /\ Locks(llock, block, None)
      BY <2>a, <3>2, MovedPlaced DEF Locks, Position, LockStep, Leasing, Streaming, Recording
    <3>3. CASE Moved(t, "started", "next") /\ thr[t].ret = "failed" /\ Locks(llock, block, None)
      BY <2>a, <3>3, MovedPlaced DEF Locks, Position, LockStep, Leasing, Streaming, Recording
    <3>4. CASE Moved(t, "unwatch", thr[t].ret) /\ llock = None /\ Locks(t, block, rlock)
      BY <2>a, <3>4, MovedPlaced DEF Locks, Position, LockStep, Leasing, Streaming, Recording
    <3>5. CASE Moved(t, "restore", thr[t].ret) /\ llock = None /\ Locks(t, block, rlock)
      BY <2>a, <3>5, MovedPlaced DEF Locks, Position, LockStep, Leasing, Streaming, Recording
    <3> QED BY <2>2, <3>1, <3>2, <3>3, <3>4, <3>5
  <2> QED BY <2>1, <2>3
<1>8. ASSUME NEW s \in Streams, Unmute(t, s) PROVE Typed' /\ Placed'
  <2>1. Typed'
    BY <1>8, FaultType DEF Unmute, Typed
  <2>2. Placed'
    BY <1>8 DEF Unmute, Placed, Position, Leasing, Streaming, Recording
  <2> QED BY <2>1, <2>2
<1>9. CASE Restored(t)
  <2>1. Typed'
    BY <1>9 DEF Restored, Fault, Typed
  <2>2. Moved(t, "unwatch", thr[t].ret)
    BY <1>9, GoMoves DEF Restored, Pcs, Position
  <2>3. Placed'
    BY <1>9, <2>2, MovedPlaced DEF Restored, Position, Placed, LockStep, Leasing,
       Streaming, Recording
  <2> QED BY <2>1, <2>3
<1>10. CASE Unwatch(t)
  <2>1. Typed'
    BY <1>10 DEF Unwatch, Return, Typed
  <2>2. \/ Moved(t, "next", "next")
        \/ Moved(t, "started", "next")
    BY <1>10, GoForMoves DEF Unwatch, Return, Pcs, Position
  <2>3. Placed'
    BY <1>10, <2>2, MovedPlaced DEF Unwatch, Return, Position, Placed, LockStep, Leasing,
       Streaming, Recording
  <2> QED BY <2>1, <2>3
<1> QED BY <1>1, <1>2, <1>3, <1>4, <1>5, <1>6, <1>7, <1>8, <1>9, <1>10

LEMMA StepType ==
    ASSUME Typed, Placed, NEW t \in Actors, Step(t)
    PROVE  Typed' /\ Placed'
BY FlagStepType, RecorderStepType, StreamStepType, LeaseStepType DEF Step

\* So do the steps of nobody's calls.
LEMMA OtherStepType ==
    ASSUME Typed, Placed,
           \/ \E t \in Users \union {Callback}, script \in Scripts : Begin(t, script)
           \/ StreamEvent \/ Recover \/ Recovered \/ Crash
           \/ \E g \in {"fresh", "stale"} : DuckCommit(g)
           \/ \E s \in Streams : AppStep(s)
    PROVE  Typed' /\ Placed'
<1> USE DEF At, hotkeys, recorder, mic, volume, engaged, history, lease
<1>a. {Watcher, Startup, Callback} \subseteq Actors /\ None \notin Actors
  BY CaptureAssumption DEF Actors
<1>b. \A t \in {Watcher, Startup} :
         /\ thr[t] \in ActorState /\ Position(t, thr[t].pc, thr[t].ret)
         /\ llock = t <=> Leasing(t, thr[t].pc)
         /\ block = t <=> thr[t].pc \in Streaming
         /\ rlock = t <=> thr[t].ret \in Recording
         /\ t # None
  BY <1>a DEF Placed
<1>1. ASSUME NEW t \in Users \union {Callback}, NEW script \in Scripts, Begin(t, script)
      PROVE  Typed' /\ Placed'
  <2>1. t \in Actors /\ t \notin {Watcher, Startup}
    BY CaptureAssumption DEF Actors
  <2>2. script \in Seq(Ops)
    <3>1. Start \in Seq(Ops) /\ Stop \in Seq(Ops) /\ WakeOn \in Seq(Ops) /\ WakeOff \in Seq(Ops)
      BY DEF Start, Stop, WakeOn, WakeOff, Ops
    <3>2. Emergency \in Seq(Ops)
      BY DEF Emergency, Ops
    <3>3. Wipe \in Seq(Ops)
      BY DEF Wipe, Ops
    <3>4. Shutdown \in Seq(Ops)
      BY DEF Shutdown, Ops
    <3> QED BY <3>1, <3>2, <3>3, <3>4 DEF Scripts
  <2>3. bounds' \in [starts : Nat, wakes : Nat, faults : Nat, crashes : Nat]
    <3>1. CASE script = Start
      BY <1>1, <3>1 DEF Begin, Typed
    <3>2. CASE script = WakeOn /\ script # Start
      BY <1>1, <3>2 DEF Begin, Typed
    <3>3. CASE script \notin {Start, WakeOn}
      BY <1>1, <3>3 DEF Begin, Typed
    <3> QED BY <3>1, <3>2, <3>3
  <2>4. calm' \in Actors \union {None}
    BY <1>1, <2>1 DEF Begin, Typed
  <2>5. Typed'
    BY <1>1, <2>3, <2>4 DEF Begin, Typed
  <2>6. thr[t].pc = "next" /\ thr[t].ret = "next"
    BY <1>1 DEF Begin, Busy, Idle
  <2>7. Moved(t, "next", "next")
    BY <1>1, <2>1, <2>2, <2>6 DEF Begin, Moved, Placed, ActorState
  <2>8. Locks(llock, block, rlock)
    BY <1>1 DEF Begin, Locks
  <2>9. Position(t, "next", "next")
    BY <2>1 DEF Position
  <2>10. /\ llock = t <=> Leasing(t, thr[t].pc)
         /\ block = t <=> thr[t].pc \in Streaming
         /\ rlock = t <=> thr[t].ret \in Recording
    BY <2>1 DEF Placed
  <2>11. Placed'
    BY <2>1, <2>6, <2>7, <2>8, <2>9, <2>10, MovedPlaced
       DEF Locks, LockStep, Leasing, Streaming, Recording
  <2> QED BY <2>5, <2>11
<1>2. CASE StreamEvent
  <2>1. Typed'
    BY <1>2 DEF StreamEvent, Typed
  <2>2. thr[Watcher].pc = "next" /\ thr[Watcher].ret = "next"
    BY <1>2 DEF StreamEvent, Busy, Idle
  <2>3. Moved(Watcher, "event", "next") /\ Locks(llock, block, rlock)
    BY <1>2, <1>a, <2>2, GoMoves DEF StreamEvent, Locks, Pcs
  <2>4. Placed'
    BY <1>a, <1>b, <2>2, <2>3, MovedPlaced, CaptureAssumption
       DEF Locks, Position, LockStep, Leasing, Streaming, Recording
  <2> QED BY <2>1, <2>4
<1>3. CASE Recover
  <2>1. /\ todo' \subseteq Streams
        /\ bounds' \in [starts : Nat, wakes : Nat, faults : Nat, crashes : Nat]
    <3>1. {s \in journal : Muted(s)} \in SUBSET Streams
      BY DEF Typed
    <3> QED BY <1>3, <3>1, ListType DEF Recover
  <2>2. Typed'
    BY <1>3, <2>1, LoseType DEF Recover, Typed
  <2>3. thr[Startup].pc = "recover" /\ thr[Startup].ret = "next"
    BY <1>3, <1>b DEF Recover, Position
  <2>4. Moved(Startup, "restore", "next") /\ Locks(llock, block, rlock)
    BY <1>3, <1>a, <2>3, GoMoves DEF Recover, Locks, Pcs
  <2>5. Placed'
    BY <1>a, <1>b, <2>3, <2>4, MovedPlaced, CaptureAssumption
       DEF Locks, Position, LockStep, Leasing, Streaming, Recording
  <2> QED BY <2>2, <2>5
<1>4. CASE Recovered
  <2>1. Typed'
    BY <1>4, LoseType DEF Recovered, Typed
  <2>2. thr[Startup].pc = "restore" /\ thr[Startup].ret = "next"
    BY <1>4, <1>b DEF Recovered, Position
  <2>3. Moved(Startup, "next", "next") /\ Locks(llock, block, rlock)
    BY <1>4, <1>a, <2>2, GoMoves DEF Recovered, Locks, Pcs
  <2>4. Placed'
    BY <1>a, <1>b, <2>2, <2>3, MovedPlaced, CaptureAssumption
       DEF Locks, Position, LockStep, Leasing, Streaming, Recording
  <2> QED BY <2>1, <2>4
<1>5. CASE Crash
  <2>1. Typed'
    <3>1. bounds' \in [starts : Nat, wakes : Nat, faults : Nat, crashes : Nat]
      BY <1>5 DEF Crash, Typed
    <3> QED BY <1>5, <3>1 DEF Crash, Typed
  <2> DEFINE r == [Idle EXCEPT !.pc = "recover"]
  <2>2. /\ Idle \in ActorState /\ Idle.pc = "next" /\ Idle.ret = "next" /\ Idle.calls = <<>>
        /\ r \in ActorState /\ r.pc = "recover" /\ r.ret = "next" /\ r.calls = <<>>
    <3>1. Idle \in ActorState /\ Idle.pc = "next" /\ Idle.ret = "next" /\ Idle.calls = <<>>
      BY DEF Idle, ActorState, Pcs
    <3>2. r \in ActorState /\ r.pc = "recover" /\ r.ret = Idle.ret /\ r.calls = Idle.calls
      BY <3>1 DEF ActorState, Pcs
    <3> QED BY <3>1, <3>2
  <2>3. thr' = [t \in Actors |-> IF t = Startup THEN r ELSE Idle]
    BY <1>5 DEF Crash
  <2> HIDE DEF r
  <2>4. Placed'
    BY <1>5, <1>a, <2>2, <2>3, CaptureAssumption
       DEF Crash, Placed, Position, Leasing, Streaming, Recording
  <2> QED BY <2>1, <2>4
<1>6. ASSUME NEW g \in {"fresh", "stale"}, DuckCommit(g) PROVE Typed' /\ Placed'
  BY <1>6 DEF DuckCommit, Typed, Placed
<1>7. ASSUME NEW s \in Streams, AppStep(s) PROVE Typed' /\ Placed'
  <2>1. Typed'
    BY <1>7 DEF AppStep, Typed
  <2>2. Placed'
    BY <1>7 DEF AppStep, Placed
  <2> QED BY <2>1, <2>2
<1> QED BY <1>1, <1>2, <1>3, <1>4, <1>5, <1>6, <1>7

LEMMA NextType == Typed /\ Placed /\ [Next]_vars => Typed' /\ Placed'
<1> SUFFICES ASSUME Typed, Placed, [Next]_vars PROVE Typed' /\ Placed'
  OBVIOUS
<1>1. CASE UNCHANGED vars
  BY <1>1 DEF vars, hotkeys, recorder, mic, volume, engaged, history, lease, Typed, Placed
<1>2. ASSUME NEW t \in Actors, Step(t) PROVE Typed' /\ Placed'
  BY <1>2, StepType
<1> QED BY <1>1, <1>2, OtherStepType DEF Next

\* TypeOK holds of every behaviour: the variables keep their types and each lock
\* has for its holder the actor whose place needs it, and no other.
THEOREM TypeOK_Safety == Spec => []TypeOK
<1>1. Init => Typed /\ Placed
  BY InitType
<1>2. Typed /\ Placed /\ [Next]_vars => Typed' /\ Placed'
  BY NextType
<1>3. Typed /\ Placed => TypeOK
  BY TypeFrom
<1> QED BY <1>1, <1>2, <1>3, PTL DEF Spec

-----------------------------------------------------------------------------
(* What is muted stays in the journal.                                      *)

Ours == {s \in Streams : apps[s] = "ours"}

\* What the place of the holder of the lease's lock says of the streams muted.
Accounted(pc) ==
    /\ pc \in {"plan", "mute", "watch"} => held
    /\ pc = "plan" => Ours \subseteq mine
    /\ pc = "mute" => todo \subseteq journal /\ Ours \subseteq mine \union did
    /\ pc = "watch" => Ours \subseteq mine \union did
    /\ pc = "restore" => Ours \subseteq todo \union did /\ ~ held
    /\ pc = "unwatch" => Ours \subseteq did /\ mine = {} /\ ~ held

\* Nothing else runs while the sidecar starts.
StartingUp ==
    /\ \A u \in Actors \ {Startup} : thr[u] = Idle
    /\ ~ watching
    /\ thr[Startup].pc = "restore" => Ours \subseteq todo \union did

MuteInv ==
    /\ Ours \subseteq journal
    /\ llock = None => IF held THEN Ours \subseteq mine ELSE mine = {}
    /\ llock # None => Accounted(thr[llock].pc)
    /\ thr[Startup] = Idle \/ StartingUp

LEMMA InitMutes == Init => MuteInv
BY CaptureAssumption DEF Init, MuteInv, Ours, Actors

\* The steps outside the lease.
QuietStep(t) ==
    \/ AskStart(t) \/ TakeStart(t) \/ Started(t) \/ TakeStop(t)
    \/ WipeFlag(t, "wipe") \/ WipeFlag(t, "wiped") \/ RecorderStart(t)
    \/ SpawnDuck(t) \/ RecorderStop(t) \/ Unduck(t) \/ UnduckNow(t)
    \/ AskWakeOn(t) \/ Subscribe(t) \/ SwitchClose(t) \/ Opened(t)
    \/ OpenFails(t) \/ NameListener(t) \/ TakeWakeOff(t) \/ CloseSub(t)
    \/ StopAll(t) \/ CloseStream(t) \/ CallRelease(t)

Quiet(t) ==
    /\ UNCHANGED <<held, mine, journal, apps, todo, did, llock, watching>>
    /\ \A u \in Actors \ {t} : thr'[u] = thr[u]
    /\ ~ Leasing(t, thr[t].pc)

LEMMA QuietSteps ==
    ASSUME Placed, NEW t \in Actors, QuietStep(t)
    PROVE  Quiet(t)
<1> USE DEF At, engaged, lease, Quiet, Leasing
<1> thr \in [Actors -> ActorState]
  BY DEF Placed
<1>1. CASE AskStart(t)
  BY <1>1 DEF AskStart, Enter, Calls
<1>2. CASE TakeStart(t)
  BY <1>2 DEF TakeStart, Go
<1>3. CASE Started(t)
  BY <1>3 DEF Started, Go
<1>4. CASE TakeStop(t)
  BY <1>4 DEF TakeStop, Enter, Calls
<1>5. CASE WipeFlag(t, "wipe")
  BY <1>5 DEF WipeFlag, Enter, Calls
<1>6. CASE WipeFlag(t, "wiped")
  BY <1>6 DEF WipeFlag, Enter, Calls
<1>7. CASE RecorderStart(t)
  BY <1>7 DEF RecorderStart, Go, GoFor
<1>8. CASE SpawnDuck(t)
  BY <1>8 DEF SpawnDuck, Go
<1>9. CASE RecorderStop(t)
  BY <1>9 DEF RecorderStop, GoFor
<1>10. CASE Unduck(t)
  BY <1>10 DEF Unduck, Go
<1>11. CASE UnduckNow(t)
  BY <1>11 DEF UnduckNow, Enter, Calls
<1>12. CASE AskWakeOn(t)
  BY <1>12 DEF AskWakeOn, Enter, Calls
<1>13. CASE Subscribe(t)
  BY <1>13 DEF Subscribe, Go, GoFor, Subscribed
<1>14. CASE SwitchClose(t)
  BY <1>14 DEF SwitchClose, Go
<1>15. CASE Opened(t)
  BY <1>15 DEF Opened, GoFor, Subscribed
<1>16. CASE OpenFails(t)
  BY <1>16 DEF OpenFails, GoFor
<1>17. CASE NameListener(t)
  BY <1>17 DEF NameListener, Go
<1>18. CASE TakeWakeOff(t)
  BY <1>18 DEF TakeWakeOff, Enter, Calls
<1>19. CASE CloseSub(t)
  BY <1>19 DEF CloseSub, Go, GoFor, Closed
<1>20. CASE StopAll(t)
  BY <1>20 DEF StopAll, Enter, Calls
<1>21. CASE CloseStream(t)
  BY <1>21 DEF CloseStream, GoFor, Closed
<1>22. CASE CallRelease(t)
  BY <1>22 DEF CallRelease, Enter, Calls
<1> QED BY <1>1, <1>2, <1>3, <1>4, <1>5, <1>6, <1>7, <1>8, <1>9, <1>10, <1>11,
       <1>12, <1>13, <1>14, <1>15, <1>16, <1>17, <1>18, <1>19, <1>20, <1>21, <1>22 DEF QuietStep

LEMMA QuietMutes ==
    ASSUME Placed, Placed', MuteInv, NEW t \in Actors \ {Startup}, Quiet(t),
           thr[Startup] = Idle
    PROVE  MuteInv'
<1>1. llock # t
  BY DEF Placed, Quiet
<1>2. Startup \in Actors /\ llock \in Actors \union {None}
  BY DEF Placed, Actors
<1>3. thr'[Startup] = Idle
  BY <1>2 DEF Quiet
<1>4. llock # None => thr'[llock] = thr[llock]
  BY <1>1, <1>2 DEF Quiet
<1> QED BY <1>3, <1>4 DEF Quiet, MuteInv, Ours, Accounted

\* Only an actor with something to do makes a step, and while the sidecar starts
\* that is the startup's own unmuting.
LEMMA StepAlone ==
    ASSUME Placed, MuteInv, NEW t \in Actors, Step(t)
    PROVE  \/ t # Startup /\ thr[Startup] = Idle
           \/ t = Startup /\ StartingUp /\ \E s \in Streams : Unmute(t, s)
<1>1. Startup \in Actors
  BY DEF Actors
<1>2. CASE t = Startup
  <2>1. thr[t].pc \in {"next", "recover", "restore"} /\ thr[t].calls = <<>> /\ Startup # Watcher
    BY <1>1, <1>2, CaptureAssumption DEF Placed, Position
  <2>2. \E s \in Streams : Unmute(t, s)
    BY <1>2, <2>1 DEF Step, AskStart, TakeStart, Started, TakeStop, RecorderStart, SpawnDuck,
       RecorderStop, Unduck, UnduckNow, AskWakeOn, Subscribe, SwitchClose, Opened, OpenFails,
       NameListener, TakeWakeOff, CloseSub, StopAll, CloseStream, Acquire, WriteJournal, Mute,
       Watch, OnNewStream, CallRelease, Release, Restored, Unwatch, WipeFlag, At, Calls
  <2>3. thr[Startup] # Idle
    BY <1>2, <2>2 DEF Unmute, At, Idle
  <2> QED BY <1>2, <2>2, <2>3 DEF MuteInv
<1>3. CASE t # Startup /\ thr[Startup] # Idle
  <2>1. thr[t].pc = "next" /\ thr[t].calls = <<>>
    BY <1>3 DEF MuteInv, StartingUp, Idle
  <2>2. FALSE
    BY <2>1 DEF Step, AskStart, TakeStart, Started, TakeStop, RecorderStart, SpawnDuck,
       RecorderStop, Unduck, UnduckNow, AskWakeOn, Subscribe, SwitchClose, Opened, OpenFails,
       NameListener, TakeWakeOff, CloseSub, StopAll, CloseStream, Acquire, WriteJournal, Mute,
       Watch, OnNewStream, CallRelease, Release, Unmute, Restored, Unwatch, WipeFlag, At, Calls
  <2> QED BY <2>2
<1> QED BY <1>2, <1>3

\* A step of the lease by t, which was at pc: what is left to show when its new
\* place and the lock are known.
LEMMA LeaseMutes ==
    ASSUME Placed, Placed', MuteInv, NEW t \in Actors \ {Startup}, thr[Startup] = Idle,
           \A u \in Actors \ {t} : thr'[u] = thr[u],
           Ours' \subseteq journal',
           llock \in {t, None},
           \/ /\ Leasing(t, thr'[t].pc)
              /\ Accounted(thr[t].pc)'
           \/ /\ ~ Leasing(t, thr'[t].pc)
              /\ IF held' THEN Ours' \subseteq mine' ELSE mine' = {}
    PROVE  MuteInv'
<1>1. Startup \in Actors /\ None \notin Actors
  BY CaptureAssumption DEF Actors
<1>2. thr'[Startup] = Idle
  BY <1>1
<1>3. CASE Leasing(t, thr'[t].pc)
  <2>1. llock' = t
    BY <1>3 DEF Placed
  <2> QED BY <1>1, <1>2, <1>3, <2>1 DEF MuteInv
<1>4. CASE ~ Leasing(t, thr'[t].pc)
  <2>1. llock' # t
    BY <1>4 DEF Placed
  <2>2. ASSUME NEW u \in Actors \ {t} PROVE llock' # u
    BY <1>1, <2>2 DEF Placed
  <2>3. llock' = None
    BY <2>1, <2>2 DEF Placed
  <2> QED BY <1>2, <1>4, <2>3 DEF MuteInv
<1> QED BY <1>3, <1>4

\* The steps of the lease, each with what it does to the streams.
LEMMA LeaseStepMutes ==
    ASSUME Typed, Placed, Placed', MuteInv, NEW t \in Actors \ {Startup}, thr[Startup] = Idle,
           \/ Acquire(t) \/ WriteJournal(t) \/ (\E s \in Streams : Mute(t, s)) \/ Watch(t)
           \/ OnNewStream(t) \/ Release(t) \/ (\E s \in Streams : Unmute(t, s))
           \/ Restored(t) \/ Unwatch(t)
    PROVE  MuteInv'
<1> USE DEF At, engaged, lease
<1> thr \in [Actors -> ActorState] /\ thr[t] \in ActorState
  BY DEF Placed
<1>a. llock = t <=> Leasing(t, thr[t].pc)
  BY DEF Placed
<1>b. t # None
  BY CaptureAssumption DEF Actors
<1>c. llock = None => IF held THEN Ours \subseteq mine ELSE mine = {}
  BY DEF MuteInv
<1>d. llock = t => Accounted(thr[t].pc)
  BY <1>b DEF MuteInv
<1>e. Ours \subseteq journal
  BY DEF MuteInv
<1>1. CASE Acquire(t)
  <2>1. /\ \A u \in Actors \ {t} : thr'[u] = thr[u]
        /\ UNCHANGED <<mine, journal>>
    BY <1>1 DEF Acquire, Engage, Go
  <2>2. llock = None
    BY <1>1 DEF Acquire, LeaseFree
  <2>3. CASE thr' = [thr EXCEPT ![t].pc = "duck"] /\ UNCHANGED <<held, engaged>>
    <3>1. thr'[t].pc = "duck"
      BY <2>3 DEF ActorState
    <3>2. Ours' = Ours
      BY <2>3 DEF Ours
    <3> QED BY <1>c, <1>e, <2>1, <2>2, <2>3, <3>1, <3>2, LeaseMutes DEF Leasing
  <2>4. CASE held' = TRUE /\ thr' = [thr EXCEPT ![t].pc = "duck"] /\ apps' = Lose(journal)
    <3>1. thr'[t].pc = "duck"
      BY <2>4 DEF ActorState
    <3>2. Ours' = {}
      BY <1>e, <2>4 DEF Ours, Lose
    <3> QED BY <2>1, <2>2, <2>4, <3>1, <3>2, LeaseMutes DEF Leasing
  <2>5. CASE held' = TRUE /\ apps' = Lose(journal) /\ Engage(t)
    <3>1. thr'[t].pc \in {"plan", "watch"}
      BY <2>5 DEF Engage, Go, ActorState
    <3>2. Ours' = {}
      BY <1>e, <2>5 DEF Ours, Lose
    <3> QED BY <2>1, <2>2, <2>5, <3>1, <3>2, LeaseMutes DEF Leasing, Accounted
  <2> QED BY <1>1, <2>3, <2>4, <2>5 DEF Acquire, Go
<1>2. CASE WriteJournal(t)
  <2>1. /\ \A u \in Actors \ {t} : thr'[u] = thr[u]
        /\ thr[t].pc = "plan" /\ UNCHANGED <<mine, did, apps, held, llock>>
        /\ \/ thr'[t].pc = "mute" /\ journal' = mine \union todo /\ todo' = todo
           \/ thr'[t].pc = "watch" /\ journal' = journal
    BY <1>2 DEF WriteJournal, Go, ActorState
  <2>2. held /\ Ours \subseteq mine /\ Ours' = Ours /\ llock = t
    BY <1>a, <1>d, <2>1 DEF Leasing, Accounted, Ours
  <2> QED BY <1>e, <2>1, <2>2, LeaseMutes DEF Leasing, Accounted
<1>3. ASSUME NEW s \in Streams, Mute(t, s) PROVE MuteInv'
  <2>1. /\ \A u \in Actors \ {t} : thr'[u] = thr[u]
        /\ thr[t].pc = "mute" /\ UNCHANGED <<mine, journal, held, llock>>
        /\ s \in todo /\ todo' = todo \ {s}
        /\ thr'[t].pc \in {"mute", "watch"}
    BY <1>3 DEF Mute, Go, ActorState
  <2>2. held /\ todo \subseteq journal /\ Ours \subseteq mine \union did /\ llock = t
    BY <1>a, <1>d, <2>1 DEF Leasing, Accounted
  <2>3. \/ did' = did \union {s} /\ Ours' \subseteq Ours \union {s}
        \/ did' = did /\ Ours' \subseteq Ours
    BY <1>3 DEF Mute, MuteFailed, Ours, Typed
  <2> QED BY <1>e, <2>1, <2>2, <2>3, LeaseMutes DEF Leasing, Accounted
<1>4. CASE Watch(t)
  <2>1. /\ \A u \in Actors \ {t} : thr'[u] = thr[u]
        /\ thr[t].pc = "watch" /\ UNCHANGED <<journal, held, apps>>
        /\ mine' = mine \union did
        /\ thr'[t].pc \in {"next", "duck"}
    BY <1>4 DEF Watch, Go, ActorState
  <2>2. held /\ Ours \subseteq mine \union did /\ Ours' = Ours /\ llock = t
    BY <1>a, <1>d, <2>1 DEF Leasing, Accounted, Ours
  <2> QED BY <1>e, <2>1, <2>2, LeaseMutes DEF Leasing
<1>5. CASE OnNewStream(t)
  <2>1. /\ \A u \in Actors \ {t} : thr'[u] = thr[u]
        /\ UNCHANGED <<mine, journal, held, apps>> /\ llock = None
        /\ \/ held /\ thr'[t].pc \in {"plan", "watch"}
           \/ thr'[t].pc = "next"
    BY <1>5 DEF OnNewStream, LeaseFree, Engage, Go, ActorState
  <2>2. Ours' = Ours
    BY <2>1 DEF Ours
  <2> QED BY <1>c, <1>e, <2>1, <2>2, LeaseMutes DEF Leasing, Accounted
<1>6. CASE Release(t)
  <2>1. /\ \A u \in Actors \ {t} : thr'[u] = thr[u]
        /\ UNCHANGED <<mine, journal>> /\ llock = None /\ held' = FALSE
    BY <1>6 DEF Release, LeaseFree, Return, Go, GoFor
  <2>2. CASE ~ held /\ Return(t) /\ UNCHANGED engaged
    <3>1. ~ Leasing(t, thr'[t].pc)
      BY <2>2 DEF Return, GoFor, ActorState, Leasing
    <3>2. Ours' = Ours
      BY <2>2 DEF Ours
    <3> QED BY <1>c, <1>e, <2>1, <2>2, <3>1, <3>2, LeaseMutes
  <2>3. CASE held /\ mine = {} /\ Go(t, "unwatch") /\ UNCHANGED apps
    <3>1. thr'[t].pc = "unwatch" /\ Ours' = Ours
      BY <2>3 DEF Go, ActorState, Ours
    <3>2. Ours = {}
      BY <1>c, <2>1, <2>3
    <3> QED BY <2>1, <2>3, <3>1, <3>2, LeaseMutes DEF Leasing, Accounted
  <2>4. CASE /\ held /\ Go(t, "restore") /\ List({s \in mine : Muted(s)})
             /\ apps' = IF bounds' = bounds THEN apps ELSE Lose(mine)
    <3>1. thr'[t].pc = "restore"
      BY <2>4 DEF Go, ActorState
    <3>2. Ours \subseteq mine
      BY <1>c, <2>1, <2>4
    <3>3. CASE bounds' = bounds
      <4>1. todo' = {s \in mine : Muted(s)}
        <5>1. {s \in mine : Muted(s)} \in SUBSET Streams
          BY DEF Typed
        <5> QED BY <2>4, <3>3, <5>1, ListType
      <4>2. Ours' = Ours /\ Ours \subseteq todo'
        BY <2>4, <3>2, <3>3, <4>1 DEF Ours, Muted
      <4> QED BY <1>e, <2>1, <3>1, <4>2, LeaseMutes DEF Leasing, Accounted
    <3>4. CASE bounds' # bounds
      <4>1. Ours' = {}
        BY <2>4, <3>2, <3>4 DEF Ours, Lose
      <4> QED BY <2>1, <3>1, <4>1, LeaseMutes DEF Leasing, Accounted
    <3> QED BY <3>3, <3>4
  <2> QED BY <1>6, <2>2, <2>3, <2>4 DEF Release
<1>7. ASSUME NEW s \in Streams, Unmute(t, s) PROVE MuteInv'
  <2>1. /\ \A u \in Actors : thr'[u] = thr[u]
        /\ thr[t].pc = "restore" /\ UNCHANGED <<mine, journal, held, llock>>
        /\ todo' = todo \ {s}
    BY <1>7 DEF Unmute
  <2>2. ~ held /\ Ours \subseteq todo \union did /\ llock = t
    BY <1>a, <1>d, <2>1 DEF Leasing, Accounted
  <2>3. \/ Ours' \subseteq Ours \ {s} /\ did' = did
        \/ Ours' = Ours /\ did' = did \union {s}
    BY <1>7 DEF Unmute, Ours, Typed
  <2> QED BY <1>e, <2>1, <2>2, <2>3, LeaseMutes DEF Leasing, Accounted
<1>8. CASE Restored(t)
  <2>1. /\ \A u \in Actors \ {t} : thr'[u] = thr[u]
        /\ thr[t].pc = "restore" /\ thr'[t].pc = "unwatch"
        /\ UNCHANGED <<held, apps, todo, did, llock>> /\ mine' = {} /\ todo = {}
        /\ journal' = did \/ journal' = journal
    BY <1>8 DEF Restored, Go, ActorState
  <2>2. ~ held /\ Ours \subseteq did /\ Ours' = Ours /\ llock = t
    BY <1>a, <1>d, <2>1 DEF Leasing, Accounted, Ours
  <2> QED BY <1>e, <2>1, <2>2, LeaseMutes DEF Leasing, Accounted
<1>9. CASE Unwatch(t)
  <2>1. /\ \A u \in Actors \ {t} : thr'[u] = thr[u]
        /\ thr[t].pc = "unwatch" /\ ~ Leasing(t, thr'[t].pc)
        /\ UNCHANGED <<held, apps, mine>>
        /\ journal' = IF did = {} THEN {} ELSE journal
    BY <1>9 DEF Unwatch, Return, GoFor, ActorState, Leasing
  <2>2. ~ held /\ Ours \subseteq did /\ mine = {} /\ Ours' = Ours /\ llock = t
    BY <1>a, <1>d, <2>1 DEF Leasing, Accounted, Ours
  <2> QED BY <1>e, <2>1, <2>2, LeaseMutes
<1> QED BY <1>1, <1>2, <1>3, <1>4, <1>5, <1>6, <1>7, <1>8, <1>9

\* The startup's recovery, under no lock because nothing else runs.
LEMMA StartupMutes ==
    ASSUME Typed, Placed, Placed', MuteInv,
           \/ Recover \/ Recovered \/ (StartingUp /\ \E s \in Streams : Unmute(Startup, s))
    PROVE  MuteInv'
<1> USE DEF At, engaged, lease
<1>a. thr \in [Actors -> ActorState] /\ Startup \in Actors /\ None \notin Actors
  BY CaptureAssumption DEF Placed, Actors
<1>b. thr[Startup].pc # "next" => StartingUp
  BY DEF MuteInv, Idle
<1>c. Ours \subseteq journal
  BY DEF MuteInv
<1>d. StartingUp => llock = None /\ IF held THEN Ours \subseteq mine ELSE mine = {}
  <2>1. ASSUME StartingUp, NEW u \in Actors PROVE llock # u
    <3>1. thr[u].pc = "next" \/ u = Startup
      BY <2>1 DEF StartingUp, Idle
    <3> QED BY <3>1 DEF Placed, Leasing, Position
  <2> QED BY <2>1 DEF Placed, MuteInv
<1>1. CASE Recover
  <2>1. /\ StartingUp /\ UNCHANGED <<journal, held, mine, llock, watching>>
        /\ \A u \in Actors \ {Startup} : thr'[u] = thr[u]
        /\ thr'[Startup].pc = "restore"
    BY <1>1, <1>a, <1>b DEF Recover, Go, ActorState
  <2>2. CASE bounds' = bounds
    <3>1. todo' = {s \in journal : Muted(s)}
      <4>1. {s \in journal : Muted(s)} \in SUBSET Streams
        BY DEF Typed
      <4> QED BY <1>1, <2>2, <4>1, ListType DEF Recover
    <3>2. Ours' = Ours /\ Ours \subseteq todo'
      BY <1>1, <1>c, <2>2, <3>1 DEF Recover, Ours, Muted
    <3> QED BY <1>c, <1>d, <2>1, <3>2 DEF MuteInv, StartingUp
  <2>3. CASE bounds' # bounds
    <3>1. Ours' = {}
      BY <1>1, <1>c, <2>3 DEF Recover, Ours, Lose
    <3> QED BY <1>d, <2>1, <3>1 DEF MuteInv, StartingUp
  <2> QED BY <2>2, <2>3
<1>2. CASE Recovered
  <2>1. /\ StartingUp /\ thr[Startup].pc = "restore" /\ todo = {}
        /\ UNCHANGED <<held, mine, llock, watching>>
        /\ \A u \in Actors \ {Startup} : thr'[u] = thr[u]
        /\ thr'[Startup].pc = "next"
    BY <1>2, <1>a, <1>b DEF Recovered, Go, ActorState
  <2>2. Ours' = {}
    BY <1>2, <2>1 DEF Recovered, StartingUp, Ours, Lose
  <2> QED BY <1>d, <2>1, <2>2 DEF MuteInv, StartingUp
<1>3. ASSUME StartingUp, NEW s \in Streams, Unmute(Startup, s) PROVE MuteInv'
  <2>1. /\ thr' = thr /\ thr[Startup].pc = "restore"
        /\ UNCHANGED <<mine, journal, held, llock, watching>> /\ todo' = todo \ {s}
    BY <1>3 DEF Unmute
  <2>2. \/ Ours' \subseteq Ours \ {s} /\ did' = did
        \/ Ours' = Ours /\ did' = did \union {s}
    BY <1>3 DEF Unmute, Ours, Typed
  <2>3. Ours \subseteq todo \union did
    BY <1>3, <2>1 DEF StartingUp
  <2> QED BY <1>3, <1>c, <1>d, <2>1, <2>2, <2>3 DEF MuteInv, StartingUp
<1> QED BY <1>1, <1>2, <1>3

LEMMA OtherStepMutes ==
    ASSUME Typed, Placed, Placed', MuteInv,
           \/ \E t \in Users \union {Callback}, script \in Scripts : Begin(t, script)
           \/ StreamEvent \/ Crash
           \/ \E g \in {"fresh", "stale"} : DuckCommit(g)
           \/ \E s \in Streams : AppStep(s)
    PROVE  MuteInv'
<1> USE DEF At, engaged, lease
<1> thr \in [Actors -> ActorState]
  BY DEF Placed
<1>1. ASSUME NEW t \in Users \union {Callback}, NEW script \in Scripts, Begin(t, script)
      PROVE  MuteInv'
  <2>1. t \in Actors \ {Startup}
    BY CaptureAssumption DEF Actors
  <2>2. Quiet(t) /\ thr[Startup] = Idle
    BY <1>1 DEF Begin, Busy, Idle, Quiet, Leasing
  <2> QED BY <2>1, <2>2, QuietMutes
<1>2. CASE StreamEvent
  <2>1. Watcher \in Actors \ {Startup}
    BY CaptureAssumption DEF Actors
  <2>2. Quiet(Watcher)
    BY <1>2 DEF StreamEvent, Go, Busy, Idle, Quiet, Leasing
  <2>3. thr[Startup] = Idle
    BY <1>2 DEF StreamEvent, MuteInv, StartingUp
  <2> QED BY <2>1, <2>2, <2>3, QuietMutes
<1>3. CASE Crash
  <2>1. Ours' = Ours /\ journal' = journal /\ llock' = None /\ mine' = {} /\ ~ held' /\ ~ watching'
    BY <1>3 DEF Crash, Ours
  <2>2. /\ \A u \in Actors \ {Startup} : thr'[u] = Idle
        /\ thr'[Startup].pc = "recover"
    BY <1>3 DEF Crash, Idle, Actors
  <2> QED BY <2>1, <2>2 DEF MuteInv, StartingUp
<1>4. ASSUME NEW g \in {"fresh", "stale"}, DuckCommit(g) PROVE MuteInv'
  BY <1>4 DEF DuckCommit, MuteInv, Ours, Accounted, StartingUp
<1>5. ASSUME NEW s \in Streams, AppStep(s) PROVE MuteInv'
  <2>1. /\ UNCHANGED <<held, mine, journal, todo, did, llock, watching, thr>>
        /\ Ours' \subseteq Ours
    BY <1>5 DEF AppStep, Ours, Typed
  <2> QED BY <2>1 DEF MuteInv, Accounted, StartingUp
<1> QED BY <1>1, <1>2, <1>3, <1>4, <1>5

LEMMA NextMutes == Typed /\ Placed /\ Placed' /\ MuteInv /\ [Next]_vars => MuteInv'
<1> SUFFICES ASSUME Typed, Placed, Placed', MuteInv, [Next]_vars PROVE MuteInv'
  OBVIOUS
<1>1. CASE UNCHANGED vars
  BY <1>1 DEF vars, engaged, lease, MuteInv, Ours, Accounted, StartingUp
<1>2. ASSUME NEW t \in Actors, Step(t) PROVE MuteInv'
  <2>1. CASE t # Startup /\ thr[Startup] = Idle
    <3>1. CASE QuietStep(t)
      BY <2>1, <3>1, QuietSteps, QuietMutes
    <3>2. CASE ~ QuietStep(t)
      BY <1>2, <2>1, <3>2, LeaseStepMutes DEF Step, QuietStep
    <3> QED BY <3>1, <3>2
  <2>2. CASE t = Startup /\ StartingUp /\ \E s \in Streams : Unmute(t, s)
    BY <2>2, StartupMutes
  <2> QED BY <1>2, <2>1, <2>2, StepAlone
<1> QED BY <1>1, <1>2, StartupMutes, OtherStepMutes DEF Next

\* MutesAccounted holds of every behaviour: whatever step a crash, a fault or
\* another application comes at, a stream that this program muted and has not
\* given up is in the journal that the next startup undoes.
THEOREM MutesAccounted_Safety == Spec => []MutesAccounted
<1>1. Init => Typed /\ Placed /\ MuteInv
  BY InitType, InitMutes
<1>2. Typed /\ Placed /\ MuteInv /\ [Next]_vars => Typed' /\ Placed' /\ MuteInv'
  BY NextType, NextMutes
<1>3. MuteInv => MutesAccounted
  BY DEF MuteInv, Ours, MutesAccounted
<1> QED BY <1>1, <1>2, <1>3, PTL DEF Spec

-----------------------------------------------------------------------------
(* What a recording takes, it holds no longer than it lasts.                *)

Off == ~ ducked /\ "fresh" \notin ducks /\ "recorder" \notin subs

\* What the place of the holder of the recorder's lock says.
Holding(pc, ret) ==
    /\ ret = "recorder" /\ pc \notin {"close", "closing"} => recording
    /\ ret = "recorder" /\ pc \in {"close", "closing"} => ~ recording
    /\ ret = "recorder" /\ pc = "closing" => "recorder" \notin subs
    /\ pc = "unduck" => ~ recording /\ "recorder" \notin subs
    /\ ret \in {"stopped", "failed"} /\ pc # "unduck" => ~ recording /\ Off

HeldInv ==
    /\ down => held
    /\ rlock = None /\ ~ recording => ~ held /\ Off
    /\ rlock # None => Holding(thr[rlock].pc, thr[rlock].ret)

LEMMA InitHeld == Init => HeldInv
BY DEF Init, HeldInv, Off

\* Nothing more is held, and what is recorded stays as it is.
Lessens ==
    /\ recording' = recording
    /\ held' => held
    /\ ducked' => ducked \/ "fresh" \in ducks
    /\ "fresh" \in ducks' => "fresh" \in ducks
    /\ "recorder" \in subs' => "recorder" \in subs

LEMMA HeldMove ==
    ASSUME Placed, Placed', HeldInv, NEW t \in Actors,
           \A u \in Actors \ {t} : thr'[u] = thr[u],
           down' => held',
           \/ rlock # t /\ rlock' = rlock /\ Lessens
           \/ rlock' = t /\ rlock \in {t, None} /\ Holding(thr[t].pc, thr[t].ret)'
           \/ rlock = t /\ rlock' = None /\ (recording' \/ (~ held' /\ Off'))
    PROVE  HeldInv'
<1>1. t # None /\ rlock \in Actors \union {None}
  BY CaptureAssumption DEF Placed, Actors
<1>2. CASE rlock # t /\ rlock' = rlock /\ Lessens
  <2>1. rlock # None => thr'[rlock] = thr[rlock]
    BY <1>1, <1>2
  <2> QED BY <1>2, <2>1 DEF HeldInv, Holding, Lessens, Off
<1>3. CASE rlock' = t /\ Holding(thr[t].pc, thr[t].ret)'
  BY <1>1, <1>3 DEF HeldInv
<1>4. CASE rlock = t /\ rlock' = None /\ (recording' \/ (~ held' /\ Off'))
  BY <1>4 DEF HeldInv
<1> QED BY <1>2, <1>3, <1>4

\* Steps of an actor that does not hold the recorder's lock and does not take it.
LEMMA FreeHeld ==
    ASSUME Typed, Placed, Placed', HeldInv, NEW t \in Actors,
           \/ AskStart(t) \/ TakeStart(t) \/ Started(t) \/ TakeStop(t)
           \/ WipeFlag(t, "wipe") \/ WipeFlag(t, "wiped") \/ UnduckNow(t)
           \/ AskWakeOn(t) \/ NameListener(t) \/ TakeWakeOff(t) \/ StopAll(t)
           \/ CallRelease(t) \/ OnNewStream(t)
    PROVE  HeldInv'
<1> USE DEF At, hotkeys, recorder, mic, volume, engaged, history, lease
<1>a. /\ thr \in [Actors -> ActorState] /\ Position(t, thr[t].pc, thr[t].ret)
      /\ rlock = t <=> thr[t].ret \in Recording
      /\ down => held
  BY DEF Placed, HeldInv
<1>b. SUFFICES /\ \A u \in Actors \ {t} : thr'[u] = thr[u]
               /\ thr[t].ret \notin Recording /\ rlock' = rlock
               /\ Lessens /\ (down' => held')
  BY <1>a, HeldMove
<1>1. CASE AskStart(t)
  BY <1>1, <1>a DEF AskStart, Enter, Calls, Position, Recording, Lessens
<1>2. CASE TakeStart(t)
  BY <1>2, <1>a DEF TakeStart, Go, Position, Recording, Lessens
<1>3. CASE Started(t)
  <2>1. CASE recording
    BY <1>3, <1>a, <2>1 DEF Started, Go, Position, Recording, Lessens
  <2>2. CASE ~ recording
    BY <1>3, <1>a, <2>2 DEF Started, Position, Recording, Lessens
  <2> QED BY <2>1, <2>2
<1>4. CASE TakeStop(t)
  BY <1>4, <1>a DEF TakeStop, Enter, Calls, Position, Recording, Lessens
<1>5. CASE WipeFlag(t, "wipe")
  BY <1>5, <1>a DEF WipeFlag, Enter, Calls, Position, Recording, Lessens
<1>6. CASE WipeFlag(t, "wiped")
  BY <1>6, <1>a DEF WipeFlag, Enter, Calls, Position, Recording, Lessens
<1>7. CASE UnduckNow(t)
  BY <1>7, <1>a DEF UnduckNow, Enter, Calls, StaleDucks, Position, Recording, Lessens
<1>8. CASE AskWakeOn(t)
  BY <1>8, <1>a DEF AskWakeOn, Enter, Calls, Position, Recording, Lessens
<1>9. CASE NameListener(t)
  BY <1>9, <1>a DEF NameListener, Go, Position, Recording, Lessens
<1>10. CASE TakeWakeOff(t)
  BY <1>10, <1>a DEF TakeWakeOff, Enter, Calls, Position, Recording, Lessens
<1>11. CASE StopAll(t)
  BY <1>11, <1>a DEF StopAll, Enter, Calls, Position, Recording, Lessens
<1>12. CASE CallRelease(t)
  BY <1>12, <1>a DEF CallRelease, Enter, Calls, Position, Recording, Lessens
<1>13. CASE OnNewStream(t)
  BY <1>13, <1>a DEF OnNewStream, Engage, Go, Position, Recording, Lessens
<1> QED BY <1>1, <1>2, <1>3, <1>4, <1>5, <1>6, <1>7, <1>8, <1>9, <1>10, <1>11, <1>12, <1>13

\* Steps that only the holder of the recorder's lock makes, or that take it.
LEMMA RecorderHeld ==
    ASSUME Typed, Placed, Placed', HeldInv, NEW t \in Actors,
           \/ RecorderStart(t) \/ SpawnDuck(t) \/ RecorderStop(t) \/ Unduck(t) \/ Acquire(t)
    PROVE  HeldInv'
<1> USE DEF At, hotkeys, recorder, mic, volume, engaged, history, lease
<1>a. /\ thr \in [Actors -> ActorState] /\ thr[t] \in ActorState
      /\ Position(t, thr[t].pc, thr[t].ret)
      /\ rlock = t <=> thr[t].ret \in Recording
      /\ t # None
  BY CaptureAssumption DEF Placed, Actors
<1>b. /\ down => held
      /\ rlock = None /\ ~ recording => ~ held /\ Off
      /\ rlock = t => Holding(thr[t].pc, thr[t].ret)
  BY <1>a DEF HeldInv
<1>1. CASE RecorderStart(t)
  <2>1. /\ \A u \in Actors \ {t} : thr'[u] = thr[u]
        /\ rlock = None /\ down' = down /\ held' = held
        /\ \/ recording /\ rlock' = rlock /\ Lessens
           \/ /\ recording' /\ rlock' = t
              /\ thr'[t].pc = "acquire" /\ thr'[t].ret = "recorder"
    <3>1. CASE recording
      BY <1>1, <1>a, <3>1 DEF RecorderStart, RecorderFree, Go, Lessens, Typed
    <3>2. CASE ~ recording
      BY <1>1, <1>a, <3>2 DEF RecorderStart, RecorderFree, GoFor, ActorState
    <3> QED BY <3>1, <3>2
  <2> QED BY <1>a, <1>b, <2>1, HeldMove DEF Holding
<1>2. CASE SpawnDuck(t)
  <2>1. /\ \A u \in Actors \ {t} : thr'[u] = thr[u]
        /\ thr[t].pc = "duck" /\ UNCHANGED <<rlock, down, held, recording>>
        /\ thr'[t].pc = "subscribe" /\ thr'[t].ret = thr[t].ret
    BY <1>2, <1>a DEF SpawnDuck, Go, ActorState
  <2>2. thr[t].ret = "recorder" /\ rlock = t /\ recording
    BY <1>a, <1>b, <2>1 DEF Position, Recording, Holding
  <2> QED BY <1>a, <1>b, <2>1, <2>2, HeldMove DEF Holding
<1>3. CASE RecorderStop(t)
  <2>1. /\ \A u \in Actors \ {t} : thr'[u] = thr[u]
        /\ rlock = None /\ rlock' = t /\ ~ recording'
        /\ UNCHANGED <<down, held, ducked, ducks, subs>>
        /\ \/ thr'[t].pc = "close" /\ thr'[t].ret = "recorder"
           \/ ~ recording /\ thr'[t].pc = "release" /\ thr'[t].ret = "stopped"
    BY <1>3, <1>a DEF RecorderStop, RecorderFree, GoFor, ActorState
  <2> QED BY <1>a, <1>b, <2>1, HeldMove DEF Holding, Off
<1>4. CASE Unduck(t)
  <2>1. /\ \A u \in Actors \ {t} : thr'[u] = thr[u]
        /\ thr[t].pc = "unduck" /\ UNCHANGED <<rlock, down, held, recording, subs>>
        /\ ~ ducked' /\ "fresh" \notin ducks'
        /\ thr'[t].pc = "release" /\ thr'[t].ret = thr[t].ret
    BY <1>4, <1>a DEF Unduck, StaleDucks, Go, ActorState
  <2>2. thr[t].ret \in {"stopped", "failed"} /\ rlock = t /\ ~ recording /\ "recorder" \notin subs
    BY <1>a, <1>b, <2>1 DEF Position, Recording, Holding
  <2> QED BY <1>a, <1>b, <2>1, <2>2, HeldMove DEF Holding, Off
<1>5. CASE Acquire(t)
  <2>1. /\ \A u \in Actors \ {t} : thr'[u] = thr[u]
        /\ thr[t].pc = "acquire" /\ UNCHANGED <<rlock, recording>>
        /\ thr'[t].pc \in {"duck", "plan", "watch"} /\ thr'[t].ret = thr[t].ret
        /\ \/ UNCHANGED <<down, held>>
           \/ held' = TRUE
    BY <1>5, <1>a DEF Acquire, Engage, Go, ActorState
  <2>2. thr[t].ret = "recorder" /\ rlock = t /\ recording
    BY <1>a, <1>b, <2>1 DEF Position, Recording, Holding
  <2> QED BY <1>a, <1>b, <2>1, <2>2, HeldMove DEF Holding
<1> QED BY <1>1, <1>2, <1>3, <1>4, <1>5

\* Steps of the shared stream, for the recorder or for the wake listener.
LEMMA StreamHeld ==
    ASSUME Typed, Placed, Placed', HeldInv, NEW t \in Actors,
           \/ Subscribe(t) \/ SwitchClose(t) \/ Opened(t) \/ OpenFails(t)
           \/ CloseSub(t) \/ CloseStream(t)
    PROVE  HeldInv'
<1> USE DEF At, hotkeys, recorder, mic, volume, engaged, history, lease
<1>a. /\ thr \in [Actors -> ActorState] /\ thr[t] \in ActorState
      /\ Position(t, thr[t].pc, thr[t].ret)
      /\ rlock = t <=> thr[t].ret \in Recording
  BY DEF Placed
<1>b. /\ down => held
      /\ rlock = t /\ t # None => Holding(thr[t].pc, thr[t].ret)
  BY DEF HeldInv
<1>c. t # None
  BY CaptureAssumption DEF Actors
<1>1. /\ \A u \in Actors \ {t} : thr'[u] = thr[u]
      /\ UNCHANGED <<down, held, ducked, ducks>>
      /\ thr[t].pc \in {"subscribe", "switch", "open", "reopen", "close", "closing"}
  BY <1>a DEF Subscribe, Subscribed, SwitchClose, Opened, OpenFails, CloseSub, CloseStream,
     Closed, Go, GoFor
<1>2. CASE thr[t].ret # "recorder"
  <2>1. rlock # t
    BY <1>a, <1>1, <1>2 DEF Position, Recording
  <2>2. /\ rlock' = rlock /\ recording' = recording
        /\ "recorder" \in subs' => "recorder" \in subs
    BY <1>2 DEF Subscribe, Subscribed, SwitchClose, Opened, OpenFails, CloseSub, CloseStream,
       Closed
  <2> QED BY <1>b, <1>1, <2>1, <2>2, HeldMove DEF Lessens
<1>3. CASE thr[t].ret = "recorder"
  <2>1. rlock = t
    BY <1>a, <1>3 DEF Recording
  <2>2. CASE Subscribe(t) \/ SwitchClose(t) \/ Opened(t)
    <3>1. /\ recording /\ recording' = recording
      BY <1>b, <1>c, <1>3, <2>1, <2>2 DEF Subscribe, SwitchClose, Opened, Holding
    <3>2. \/ rlock' = None
          \/ /\ rlock' = rlock /\ thr'[t].pc \in {"switch", "open", "reopen"}
             /\ thr'[t].ret = thr[t].ret
      BY <1>a, <1>3, <2>2 DEF Subscribe, SwitchClose, Opened, Subscribed, Go, GoFor, ActorState
    <3> QED BY <1>b, <1>1, <1>3, <2>1, <3>1, <3>2, HeldMove DEF Holding
  <2>3. CASE OpenFails(t)
    <3>1. /\ rlock' = rlock /\ ~ recording' /\ "recorder" \notin subs'
          /\ thr'[t].pc = "unduck" /\ thr'[t].ret = "failed"
      BY <1>a, <1>3, <2>3 DEF OpenFails, GoFor, ActorState
    <3> QED BY <1>b, <1>1, <2>1, <3>1, HeldMove DEF Holding
  <2>4. CASE CloseSub(t)
    <3>1. /\ rlock' = rlock /\ recording' = recording /\ "recorder" \notin subs'
          /\ thr[t].pc = "close"
          /\ \/ thr'[t].pc = "closing" /\ thr'[t].ret = "recorder"
             \/ thr'[t].pc = "unduck" /\ thr'[t].ret = "stopped"
      BY <1>a, <1>3, <2>4 DEF CloseSub, Closed, Go, GoFor, ActorState
    <3>2. ~ recording
      BY <1>b, <1>c, <1>3, <2>1, <3>1 DEF Holding
    <3> QED BY <1>b, <1>1, <2>1, <3>1, <3>2, HeldMove DEF Holding
  <2>5. CASE CloseStream(t)
    <3>1. /\ UNCHANGED <<rlock, recording, subs>> /\ thr[t].pc = "closing"
          /\ thr'[t].pc = "unduck" /\ thr'[t].ret = "stopped"
      BY <1>a, <1>3, <2>5 DEF CloseStream, Closed, GoFor, ActorState
    <3>2. ~ recording /\ "recorder" \notin subs
      BY <1>b, <1>c, <1>3, <2>1, <3>1 DEF Holding
    <3> QED BY <1>b, <1>1, <2>1, <3>1, <3>2, HeldMove DEF Holding
  <2> QED BY <2>2, <2>3, <2>4, <2>5
<1> QED BY <1>2, <1>3

\* Steps of the lease, for the recorder, the watcher, or a stop of its own.
LEMMA LeaseHeld ==
    ASSUME Typed, Placed, Placed', MuteInv, HeldInv, NEW t \in Actors,
           \/ WriteJournal(t) \/ (\E s \in Streams : Mute(t, s)) \/ Watch(t) \/ Release(t)
           \/ (\E s \in Streams : Unmute(t, s)) \/ Restored(t) \/ Unwatch(t)
    PROVE  HeldInv'
<1> USE DEF At, hotkeys, recorder, mic, volume, engaged, history, lease
<1>a. /\ thr \in [Actors -> ActorState] /\ thr[t] \in ActorState
      /\ Position(t, thr[t].pc, thr[t].ret)
      /\ rlock = t <=> thr[t].ret \in Recording
      /\ llock = t <=> Leasing(t, thr[t].pc)
      /\ t # None
  BY CaptureAssumption DEF Placed, Actors
<1>b. /\ down => held
      /\ rlock = t => Holding(thr[t].pc, thr[t].ret)
      /\ llock = t => Accounted(thr[t].pc)
  BY <1>a DEF HeldInv, MuteInv
<1>c. /\ \A u \in Actors \ {t} : thr'[u] = thr[u]
      /\ UNCHANGED <<recording, ducked, ducks, subs>> /\ (held' => held)
      /\ down' => held'
  BY <1>a, <1>b DEF WriteJournal, Mute, Watch, Release, Unmute, Restored, Unwatch, Return,
     Go, GoFor
<1>1. CASE thr[t].ret \notin Recording
  <2>1. rlock' = rlock
    BY <1>1 DEF WriteJournal, Mute, Watch, Release, Unmute, Restored, Unwatch, Return, Recording
  <2> QED BY <1>a, <1>c, <1>1, <2>1, HeldMove DEF Lessens
<1>2. CASE thr[t].ret \in Recording
  <2>1. rlock = t /\ Holding(thr[t].pc, thr[t].ret)
    BY <1>a, <1>b, <1>2
  <2>2. CASE \/ WriteJournal(t) \/ (\E s \in Streams : Mute(t, s)) \/ Watch(t)
    <3>1. /\ thr[t].pc \in {"plan", "mute", "watch"}
          /\ rlock' = rlock /\ thr'[t].ret = thr[t].ret
          /\ thr'[t].pc \in {"mute", "watch", "duck", "next"}
      BY <1>a, <2>2 DEF WriteJournal, Mute, Watch, Go, ActorState
    <3>2. thr[t].ret = "recorder"
      BY <1>a, <1>2, <3>1 DEF Position, Recording
    <3> QED BY <1>c, <2>1, <3>1, <3>2, HeldMove DEF Holding
  <2>3. CASE Release(t) \/ (\E s \in Streams : Unmute(t, s)) \/ Restored(t) \/ Unwatch(t)
    <3>1. /\ thr[t].pc \in {"release", "restore", "unwatch"}
          /\ \/ /\ rlock' = rlock /\ thr'[t].ret = thr[t].ret
                /\ thr'[t].pc \in {"restore", "unwatch"}
             \/ /\ rlock' = None /\ (Release(t) \/ Unwatch(t))
      BY <1>a, <1>2, <2>3 DEF Release, Unmute, Restored, Unwatch, Return, Go, GoFor, ActorState,
         Recording
    <3>2. thr[t].ret \in {"stopped", "failed"} /\ ~ recording /\ Off
      BY <1>a, <1>2, <2>1, <3>1 DEF Position, Recording, Holding
    <3>3. ~ recording' /\ Off'
      BY <1>c, <3>2 DEF Off
    <3>4. Release(t) => ~ held'
      BY DEF Release
    <3>5. Unwatch(t) => ~ held'
      BY <1>a, <1>b DEF Unwatch, Leasing, Accounted
    <3>6. CASE rlock' = rlock
      BY <1>c, <2>1, <3>1, <3>2, <3>3, <3>6, HeldMove, <1>a DEF Holding
    <3>7. CASE rlock' = None
      BY <1>c, <2>1, <3>1, <3>3, <3>4, <3>5, <3>7, HeldMove, <1>a
    <3> QED BY <3>1, <3>6, <3>7
  <2> QED BY <2>2, <2>3
<1> QED BY <1>1, <1>2

\* The steps of nobody's call: an event, the recovery, a crash, a duck thread,
\* another application; and a call that begins.
LEMMA OtherHeld ==
    ASSUME Typed, Placed, Placed', HeldInv,
           \/ \E t \in Users \union {Callback}, script \in Scripts : Begin(t, script)
           \/ StreamEvent \/ Recover \/ Recovered \/ Crash
           \/ \E g \in {"fresh", "stale"} : DuckCommit(g)
           \/ \E s \in Streams : AppStep(s)
    PROVE  HeldInv'
<1> USE DEF At, hotkeys, recorder, mic, volume, engaged, history, lease
<1>a. /\ thr \in [Actors -> ActorState] /\ Watcher \in Actors /\ Startup \in Actors
      /\ \A t \in Actors : rlock = t <=> thr[t].ret \in Recording
      /\ \A t \in Actors : Position(t, thr[t].pc, thr[t].ret)
      /\ down => held
  BY DEF Placed, Actors, HeldInv
<1>1. ASSUME NEW t \in Users \union {Callback}, NEW script \in Scripts, Begin(t, script)
      PROVE  HeldInv'
  <2>1. /\ t \in Actors /\ thr[t].ret = "next" /\ rlock' = rlock /\ Lessens /\ down' = down
        /\ held' = held /\ \A u \in Actors \ {t} : thr'[u] = thr[u]
    BY <1>1, <1>a DEF Begin, Busy, Idle, Lessens, Actors
  <2> QED BY <1>a, <2>1, HeldMove DEF Recording
<1>2. CASE StreamEvent
  <2>1. /\ thr[Watcher].ret = "next" /\ rlock' = rlock /\ Lessens /\ down' = down
        /\ held' = held /\ \A u \in Actors \ {Watcher} : thr'[u] = thr[u]
    BY <1>2, <1>a DEF StreamEvent, Busy, Idle, Go, Lessens
  <2> QED BY <1>a, <2>1, HeldMove DEF Recording
<1>3. CASE Recover \/ Recovered
  <2>1. /\ thr[Startup].ret = "next" /\ rlock' = rlock /\ Lessens /\ down' = down
        /\ held' = held /\ \A u \in Actors \ {Startup} : thr'[u] = thr[u]
    BY <1>3, <1>a DEF Recover, Recovered, Go, Lessens, Position
  <2> QED BY <1>a, <2>1, HeldMove DEF Recording
<1>4. CASE Crash
  BY <1>4 DEF Crash, HeldInv, Off
<1>5. ASSUME NEW g \in {"fresh", "stale"}, DuckCommit(g) PROVE HeldInv'
  <2>1. /\ UNCHANGED <<thr, rlock, recording, held, down, subs>>
        /\ Off => Off'
    BY <1>5 DEF DuckCommit, Off
  <2>2. rlock # None => thr'[rlock] = thr[rlock]
    BY <2>1
  <2> QED BY <2>1, <2>2 DEF HeldInv, Holding
<1>6. ASSUME NEW s \in Streams, AppStep(s) PROVE HeldInv'
  BY <1>6 DEF AppStep, HeldInv, Holding, Off
<1> QED BY <1>1, <1>2, <1>3, <1>4, <1>5, <1>6

LEMMA NextHeld ==
    Typed /\ Placed /\ Placed' /\ MuteInv /\ HeldInv /\ [Next]_vars => HeldInv'
<1> SUFFICES ASSUME Typed, Placed, Placed', MuteInv, HeldInv, [Next]_vars PROVE HeldInv'
  OBVIOUS
<1>1. CASE UNCHANGED vars
  BY <1>1 DEF vars, hotkeys, recorder, mic, volume, engaged, history, lease, HeldInv, Holding, Off
<1>2. ASSUME NEW t \in Actors, Step(t) PROVE HeldInv'
  BY <1>2, FreeHeld, RecorderHeld, StreamHeld, LeaseHeld DEF Step
<1> QED BY <1>1, <1>2, OtherHeld DEF Next

\* NothingLeftBehind holds of every behaviour: once a recording has ended and its
\* stop or failed start has left the recorder, the lease, the key, the ducked
\* volume and the subscription it took are given back, whatever ran beside it.
THEOREM NothingLeftBehind_Safety == Spec => []NothingLeftBehind
<1>1. Init => Typed /\ Placed /\ MuteInv /\ HeldInv
  BY InitType, InitMutes, InitHeld
<1>2. Typed /\ Placed /\ MuteInv /\ HeldInv /\ [Next]_vars
        => Typed' /\ Placed' /\ MuteInv' /\ HeldInv'
  BY NextType, NextMutes, NextHeld
<1>3. HeldInv => NothingLeftBehind
  BY DEF HeldInv, Off, NothingLeftBehind
<1> QED BY <1>1, <1>2, <1>3, PTL DEF Spec

-----------------------------------------------------------------------------
(* A recording can be stopped.                                              *)

\* Whoever is about to start the recorder has the flag set, or was overtaken.
StoppableInv ==
    /\ RecordingStoppable
    /\ \A t \in Actors : At(t, "record") => is_recording \/ crossed

\* A step of an actor that neither stops the recorder nor is let through to it.
Aside(t) ==
    /\ \A u \in Actors \ {t} : thr'[u] = thr[u]
    /\ thr[t].pc # "halt" /\ thr'[t].pc # "record"
    /\ UNCHANGED <<is_recording, crossed>> /\ (recording' => recording)

LEMMA AsideStoppable ==
    ASSUME StoppableInv, NEW t \in Actors, Aside(t)
    PROVE  StoppableInv'
BY DEF StoppableInv, RecordingStoppable, Aside, At

\* The steps of the recorder, the ducker, the stream and the lease, but for the
\* recorder's own start and stop.
LEMMA AsideSteps ==
    ASSUME Placed, NEW t \in Actors, Step(t),
           ~ TakeStart(t), ~ Started(t), ~ TakeStop(t), ~ RecorderStart(t), ~ RecorderStop(t)
    PROVE  Aside(t)
<1> USE DEF At, hotkeys, recorder, mic, volume, engaged, history, lease
<1>a. thr \in [Actors -> ActorState]
  BY DEF Placed
<1>1. CASE \/ AskStart(t) \/ WipeFlag(t, "wipe") \/ WipeFlag(t, "wiped") \/ CallRelease(t)
           \/ UnduckNow(t) \/ AskWakeOn(t) \/ TakeWakeOff(t) \/ StopAll(t)
  BY <1>1, <1>a DEF AskStart, WipeFlag, CallRelease, UnduckNow, AskWakeOn, TakeWakeOff,
     StopAll, Enter, Calls, Aside
<1>2. CASE SpawnDuck(t) \/ Unduck(t) \/ NameListener(t) \/ SwitchClose(t)
  BY <1>2, <1>a DEF SpawnDuck, Unduck, NameListener, SwitchClose, Go, Aside, ActorState
<1>3. CASE Subscribe(t) \/ Opened(t) \/ OpenFails(t)
  BY <1>3, <1>a DEF Subscribe, Opened, OpenFails, Subscribed, Go, GoFor, Aside, ActorState
<1>4. CASE CloseSub(t) \/ CloseStream(t)
  BY <1>4, <1>a DEF CloseSub, CloseStream, Closed, Go, GoFor, Aside, ActorState
<1>5. CASE Acquire(t) \/ WriteJournal(t) \/ Watch(t) \/ OnNewStream(t)
  BY <1>5, <1>a DEF Acquire, WriteJournal, Watch, OnNewStream, Engage, Go, Aside, ActorState
<1>6. CASE \E s \in Streams : Mute(t, s) \/ Unmute(t, s)
  BY <1>6, <1>a DEF Mute, Unmute, Go, Aside, ActorState
<1>7. CASE Release(t) \/ Restored(t) \/ Unwatch(t)
  BY <1>7, <1>a DEF Release, Restored, Unwatch, Return, Go, GoFor, Aside, ActorState
<1> QED BY <1>1, <1>2, <1>3, <1>4, <1>5, <1>6, <1>7 DEF Step

\* A start of another, a stop, and what the recorder then does.
LEMMA HotkeyStoppable ==
    ASSUME Placed, StoppableInv, NEW t \in Actors,
           TakeStart(t) \/ Started(t) \/ TakeStop(t) \/ RecorderStart(t) \/ RecorderStop(t)
    PROVE  StoppableInv'
<1> USE DEF At, hotkeys, recorder, mic, volume, engaged, history, lease
<1>a. thr \in [Actors -> ActorState]
  BY DEF Placed
<1>1. CASE TakeStart(t)
  BY <1>1, <1>a DEF TakeStart, Go, StoppableInv, RecordingStoppable, ActorState
<1>2. CASE Started(t)
  <2>1. CASE recording
    <3>1. Aside(t)
      BY <1>2, <1>a, <2>1 DEF Started, Go, Aside, ActorState
    <3> QED BY <3>1, AsideStoppable
  <2>2. CASE ~ recording
    <3>1. /\ ~ recording' /\ thr'[t].pc = "next"
          /\ \A u \in Actors \ {t} : thr'[u] = thr[u]
          /\ (\E u \in Actors \ {t} : thr[u].pc = "record") => crossed'
      BY <1>2, <1>a, <2>2 DEF Started, ActorState
    <3> QED BY <3>1 DEF StoppableInv, RecordingStoppable
  <2> QED BY <2>1, <2>2
<1>3. CASE TakeStop(t)
  <2>1. /\ \A u \in Actors \ {t} : thr'[u] = thr[u]
        /\ thr[t].pc = "next" /\ thr'[t].pc \in {"halt", "next"}
        /\ is_recording => thr'[t].pc = "halt"
        /\ recording' = recording
    BY <1>3, <1>a DEF TakeStop, Calls, Enter
  <2>2. crossed' = (crossed \/ \E u \in Actors : thr[u].pc = "record")
    BY <1>3 DEF TakeStop
  <2> QED BY <2>1, <2>2 DEF StoppableInv, RecordingStoppable
<1>4. CASE RecorderStart(t)
  <2>1. /\ \A u \in Actors \ {t} : thr'[u] = thr[u]
        /\ thr[t].pc = "record" /\ thr'[t].pc \in {"started", "acquire"}
        /\ UNCHANGED <<is_recording, crossed>>
    BY <1>4, <1>a DEF RecorderStart, Go, GoFor, ActorState
  <2> QED BY <2>1 DEF StoppableInv, RecordingStoppable
<1>5. CASE RecorderStop(t)
  <2>1. /\ \A u \in Actors \ {t} : thr'[u] = thr[u]
        /\ ~ recording' /\ thr'[t].pc \in {"close", "release"}
        /\ UNCHANGED <<is_recording, crossed>>
    BY <1>5, <1>a DEF RecorderStop, GoFor, ActorState
  <2> QED BY <2>1 DEF StoppableInv, RecordingStoppable
<1> QED BY <1>1, <1>2, <1>3, <1>4, <1>5

LEMMA NextStoppable ==
    Typed /\ Placed /\ StoppableInv /\ [Next]_vars => StoppableInv'
<1> SUFFICES ASSUME Typed, Placed, StoppableInv, [Next]_vars PROVE StoppableInv'
  OBVIOUS
<1> USE DEF At, hotkeys, recorder, mic, volume, engaged, history, lease
<1>a. thr \in [Actors -> ActorState] /\ Watcher \in Actors /\ Startup \in Actors
  BY DEF Placed, Actors
<1>1. CASE UNCHANGED vars
  BY <1>1 DEF vars, StoppableInv, RecordingStoppable
<1>2. ASSUME NEW t \in Actors, Step(t) PROVE StoppableInv'
  BY <1>2, AsideSteps, AsideStoppable, HotkeyStoppable
<1>3. ASSUME NEW t \in Users \union {Callback}, NEW script \in Scripts, Begin(t, script)
      PROVE  StoppableInv'
  <2>1. t \in Actors /\ Aside(t)
    BY <1>3, <1>a DEF Begin, Busy, Idle, Aside, Actors
  <2> QED BY <2>1, AsideStoppable
<1>4. CASE StreamEvent
  <2>1. Aside(Watcher)
    BY <1>4, <1>a DEF StreamEvent, Busy, Idle, Go, Aside
  <2> QED BY <1>a, <2>1, AsideStoppable
<1>5. CASE Recover \/ Recovered
  <2>1. Aside(Startup)
    BY <1>5, <1>a DEF Recover, Recovered, Go, Aside, ActorState
  <2> QED BY <1>a, <2>1, AsideStoppable
<1>6. CASE Crash
  BY <1>6 DEF Crash, Idle, StoppableInv, RecordingStoppable
<1>7. CASE \/ \E g \in {"fresh", "stale"} : DuckCommit(g)
           \/ \E s \in Streams : AppStep(s)
  BY <1>7 DEF DuckCommit, AppStep, StoppableInv, RecordingStoppable
<1> QED BY <1>1, <1>2, <1>3, <1>4, <1>5, <1>6, <1>7 DEF Next

\* RecordingStoppable holds of every behaviour: a recorder that records while the
\* hotkey manager's flag is down is being stopped, or a stop overtook its start.
THEOREM RecordingStoppable_Safety == Spec => []RecordingStoppable
<1>1. Init => Typed /\ Placed /\ StoppableInv
  <2>1. Init => StoppableInv
    BY DEF Init, Idle, StoppableInv, RecordingStoppable, At
  <2> QED BY <2>1, InitType
<1>2. Typed /\ Placed /\ StoppableInv /\ [Next]_vars => Typed' /\ Placed' /\ StoppableInv'
  BY NextType, NextStoppable
<1>3. StoppableInv => RecordingStoppable
  BY DEF StoppableInv
<1> QED BY <1>1, <1>2, <1>3, PTL DEF Spec

-----------------------------------------------------------------------------
(* An emergency stop that met no start leaves nothing on.                   *)

\* A start, from its first test to where nothing it does can take hold of
\* anything any more.
Rises == {"asked", "record", "acquire", "plan", "mute", "watch", "duck", "subscribe",
          "switch", "reopen", "open", "name"}
Beginnings == {"start", "wakeon"}
Rising(t) == thr[t].pc \in Rises \/ \E op \in Beginnings : Calls(t, op)

Has(calls, op) == \E i \in 1 .. Len(calls) : calls[i] = op

\* A start is a sequence of its own and has not begun.
StartsAlone ==
    \A t \in Actors : \A i \in 1 .. Len(thr[t].calls) :
      thr[t].calls[i] \in Beginnings => At(t, "next") /\ Len(thr[t].calls) = 1

\* Nobody starts anything, and what is still on has the emergency stop ahead.
Calming(t) ==
    /\ open => Has(thr[t].calls, "stopall") \/ At(t, "closing")
    /\ held => Has(thr[t].calls, "release") \/ At(t, "release")
QuietInv ==
    /\ StartsAlone /\ calm # Watcher
    /\ calm # None => /\ \A u \in Actors \ {Watcher} : ~ Rising(u)
                      /\ Calming(calm)

LEMMA HasNext ==
    ASSUME NEW c \in Seq(Ops), c # <<>>, NEW op, Has(c, op)
    PROVE  Head(c) = op \/ Has(Tail(c), op)
<1>1. PICK i \in 1 .. Len(c) : c[i] = op
  BY DEF Has
<1>2. Len(c) \in Nat /\ Len(Tail(c)) = Len(c) - 1 /\ Head(c) = c[1]
  BY HeadTailProperties
<1>3. CASE i # 1
  <2>1. i - 1 \in 1 .. Len(Tail(c)) /\ Tail(c)[i - 1] = c[i]
    BY <1>2, <1>3
  <2> QED BY <1>1, <2>1 DEF Has
<1> QED BY <1>1, <1>2, <1>3

LEMMA HasAfter ==
    ASSUME NEW c \in Seq(Ops)
    PROVE  /\ Emergency \o c \in Seq(Ops)
           /\ \A op : Has(c, op) => Has(Emergency \o c, op)
           /\ \A op \in Beginnings : Has(Emergency \o c, op) => Has(c, op)
<1>1. Emergency \in Seq(Ops) /\ Len(Emergency) = 4
  BY DEF Emergency, Ops
<1>2. /\ Emergency \o c \in Seq(Ops) /\ Len(Emergency \o c) = 4 + Len(c)
      /\ \A i \in 1 .. (4 + Len(c)) :
           (Emergency \o c)[i] = IF i <= 4 THEN Emergency[i] ELSE c[i - 4]
  <2> HIDE DEF Emergency
  <2> DEFINE e == Emergency
  <2>1. e \in Seq(Ops) /\ Len(e) = 4 /\ Len(c) \in Nat
    BY <1>1
  <2>2. /\ e \o c \in Seq(Ops) /\ Len(e \o c) = Len(e) + Len(c)
        /\ \A i \in 1 .. (Len(e) + Len(c)) :
             (e \o c)[i] = IF i <= Len(e) THEN e[i] ELSE c[i - Len(e)]
    BY <2>1, ConcatProperties
  <2> QED BY <2>1, <2>2
<1>3. Len(c) \in Nat
  OBVIOUS
<1>4. ASSUME NEW op, Has(c, op) PROVE Has(Emergency \o c, op)
  <2>1. PICK i \in 1 .. Len(c) : c[i] = op
    BY <1>4 DEF Has
  <2>2. i + 4 \in 1 .. (4 + Len(c)) /\ ~ (i + 4 <= 4) /\ (i + 4) - 4 = i
    BY <1>3, <2>1
  <2>3. (Emergency \o c)[i + 4] = op
    BY <1>2, <2>1, <2>2
  <2> QED BY <1>2, <2>2, <2>3 DEF Has
<1>5. ASSUME NEW op \in Beginnings, Has(Emergency \o c, op) PROVE Has(c, op)
  <2>1. PICK i \in 1 .. (4 + Len(c)) : (Emergency \o c)[i] = op
    BY <1>2, <1>5 DEF Has
  <2>2. \A k \in 1 .. 4 : Emergency[k] \notin Beginnings
    BY DEF Emergency, Beginnings
  <2>3. ~ (i <= 4)
    BY <1>2, <2>1, <2>2, <1>3
  <2>4. i - 4 \in 1 .. Len(c) /\ c[i - 4] = op
    BY <1>2, <1>3, <2>1, <2>3
  <2> QED BY <2>4 DEF Has
<1> QED BY <1>2, <1>4, <1>5

\* What a step makes of the calls its actor has left.
Proceeds(t) ==
    /\ \A u \in Actors \ {t} : thr'[u] = thr[u]
    /\ calm' = calm
    /\ \/ thr[t].pc # "next" /\ thr'[t].calls = thr[t].calls
       \/ thr[t].pc = "started" /\ thr'[t].calls = Emergency \o thr[t].calls
       \/ /\ thr[t].pc = "next" /\ thr[t].calls # <<>>
          /\ thr'[t].calls = Tail(thr[t].calls)

LEMMA StepProceeds ==
    ASSUME Placed, NEW t \in Actors, Step(t)
    PROVE  Proceeds(t)
<1> USE DEF At, hotkeys, recorder, mic, volume, engaged, history, lease
<1>a. thr \in [Actors -> ActorState]
  BY DEF Placed
<1>1. CASE \/ AskStart(t) \/ WipeFlag(t, "wipe") \/ WipeFlag(t, "wiped") \/ CallRelease(t)
           \/ UnduckNow(t) \/ AskWakeOn(t) \/ TakeWakeOff(t) \/ StopAll(t) \/ TakeStop(t)
  <2>1. \E pc, ret : Enter(t, pc, ret)
    BY <1>1 DEF AskStart, WipeFlag, CallRelease, UnduckNow, AskWakeOn, TakeWakeOff, StopAll, TakeStop
  <2>2. thr[t].pc = "next" /\ thr[t].calls # <<>> /\ calm' = calm
    BY <1>1 DEF AskStart, WipeFlag, CallRelease, UnduckNow, AskWakeOn, TakeWakeOff, StopAll,
       TakeStop, Calls
  <2> QED BY <1>a, <2>1, <2>2 DEF Enter, Proceeds
<1>2. CASE \/ SpawnDuck(t) \/ Unduck(t) \/ NameListener(t) \/ SwitchClose(t) \/ TakeStart(t)
           \/ RecorderStart(t) \/ RecorderStop(t)
  BY <1>2, <1>a DEF SpawnDuck, Unduck, NameListener, SwitchClose, TakeStart, RecorderStart,
     RecorderStop, Go, GoFor, Proceeds, ActorState
<1>3. CASE Subscribe(t) \/ Opened(t) \/ OpenFails(t)
  BY <1>3, <1>a DEF Subscribe, Opened, OpenFails, Subscribed, Go, GoFor, Proceeds, ActorState
<1>4. CASE CloseSub(t) \/ CloseStream(t) \/ Started(t)
  BY <1>4, <1>a DEF CloseSub, CloseStream, Closed, Started, Go, GoFor, Proceeds, ActorState
<1>5. CASE Acquire(t) \/ WriteJournal(t) \/ Watch(t) \/ OnNewStream(t)
  BY <1>5, <1>a DEF Acquire, WriteJournal, Watch, OnNewStream, Engage, Go, Proceeds, ActorState
<1>6. CASE \E s \in Streams : Mute(t, s) \/ Unmute(t, s)
  BY <1>6, <1>a DEF Mute, Unmute, Go, Proceeds, ActorState
<1>7. CASE Release(t) \/ Restored(t) \/ Unwatch(t)
  BY <1>7, <1>a DEF Release, Restored, Unwatch, Return, Go, GoFor, Proceeds, ActorState
<1> QED BY <1>1, <1>2, <1>3, <1>4, <1>5, <1>6, <1>7 DEF Step

LEMMA ProceedsAlone ==
    ASSUME Placed, StartsAlone, NEW t \in Actors, Proceeds(t)
    PROVE  StartsAlone' /\ \A op \in Beginnings : ~ Calls(t, op)'
<1>1. thr[t].calls \in Seq(Ops)
  BY DEF Placed, ActorState
<1>2. \A i \in 1 .. Len(thr'[t].calls) : thr'[t].calls[i] \notin Beginnings
  <2>1. CASE thr[t].pc # "next" /\ thr'[t].calls = thr[t].calls
    BY <2>1 DEF StartsAlone, At
  <2>2. CASE thr[t].pc = "started" /\ thr'[t].calls = Emergency \o thr[t].calls
    <3>1. \A op \in Beginnings : ~ Has(thr[t].calls, op)
      BY <2>2 DEF StartsAlone, At, Has
    <3>2. \A op \in Beginnings : ~ Has(thr'[t].calls, op)
      BY <1>1, <2>2, <3>1, HasAfter
    <3> QED BY <3>2 DEF Has
  <2>3. CASE thr[t].calls # <<>> /\ thr'[t].calls = Tail(thr[t].calls)
    <3> DEFINE c == thr[t].calls
    <3>1. Len(c) \in Nat /\ Len(Tail(c)) = Len(c) - 1
          /\ \A i \in 1 .. Len(Tail(c)) : Tail(c)[i] = c[i + 1]
      BY <1>1, <2>3
    <3>2. \A i \in 1 .. Len(c) : c[i] \in Beginnings => Len(c) = 1
      BY DEF StartsAlone
    <3> HIDE DEF c
    <3>3. \A i \in 1 .. Len(Tail(c)) : i + 1 \in 1 .. Len(c) /\ Len(c) # 1
      BY <3>1
    <3> QED BY <2>3, <3>1, <3>2, <3>3 DEF c
  <2> QED BY <2>1, <2>2, <2>3 DEF Proceeds
<1>3. StartsAlone'
  <2>1. ASSUME NEW u \in Actors \ {t} PROVE thr'[u] = thr[u]
    BY DEF Proceeds
  <2> QED BY <1>2, <2>1 DEF StartsAlone, At
<1>4. thr'[t].calls \in Seq(Ops)
  <2>1. thr[t].calls # <<>> => Tail(thr[t].calls) \in Seq(Ops)
    BY <1>1, HeadTailProperties
  <2> QED BY <1>1, <2>1, HasAfter DEF Proceeds
<1>5. thr'[t].calls # <<>> =>
        1 \in 1 .. Len(thr'[t].calls) /\ Head(thr'[t].calls) = thr'[t].calls[1]
  BY <1>4
<1>6. \A op \in Beginnings : ~ Calls(t, op)'
  BY <1>2, <1>5 DEF Calls
<1> QED BY <1>3, <1>6

\* A step of an actor that is not starting anything: it opens and takes hold of
\* nothing, and goes on towards the end of what is still on.
Lulls(t) ==
    /\ thr'[t].pc \notin Rises
    /\ (open' => open) /\ (held' => held)
    /\ thr[t].pc = "closing" => ~ open'
    /\ thr[t].pc = "release" => ~ held'
    /\ Calls(t, "stopall") /\ open' => thr'[t].pc = "closing"
    /\ Calls(t, "release") => thr'[t].pc = "release"

LEMMA StepLulls ==
    ASSUME Placed, NEW t \in Actors \ {Watcher}, Step(t), ~ Rising(t)
    PROVE  Lulls(t)
<1> USE DEF At, hotkeys, recorder, mic, volume, engaged, history, lease
<1>a. /\ thr \in [Actors -> ActorState] /\ Position(t, thr[t].pc, thr[t].ret)
      /\ thr[t].pc \notin Rises /\ \A op \in Beginnings : ~ Calls(t, op)
  BY DEF Placed, Rising
<1>1. ~ (\/ AskStart(t) \/ TakeStart(t) \/ RecorderStart(t) \/ SpawnDuck(t) \/ AskWakeOn(t)
         \/ Subscribe(t) \/ SwitchClose(t) \/ Opened(t) \/ OpenFails(t) \/ NameListener(t))
  BY <1>a DEF AskStart, TakeStart, RecorderStart, SpawnDuck, AskWakeOn, Subscribe, SwitchClose,
     Opened, OpenFails, NameListener, Rises, Beginnings
<1>2. ~ (\/ Acquire(t) \/ WriteJournal(t) \/ (\E s \in Streams : Mute(t, s)) \/ Watch(t)
         \/ OnNewStream(t))
  BY <1>a DEF Acquire, WriteJournal, Mute, Watch, OnNewStream, Rises, Position
<1>3. CASE WipeFlag(t, "wipe") \/ WipeFlag(t, "wiped") \/ UnduckNow(t) \/ TakeStop(t)
  BY <1>3, <1>a DEF WipeFlag, UnduckNow, TakeStop, Enter, Calls, Lulls, Rises
<1>4. CASE CallRelease(t) \/ StopAll(t) \/ TakeWakeOff(t)
  BY <1>4, <1>a DEF CallRelease, StopAll, TakeWakeOff, Enter, Calls, Lulls, Rises
<1>5. CASE Unduck(t) \/ RecorderStop(t)
  BY <1>5, <1>a DEF Unduck, RecorderStop, Go, GoFor, Calls, Lulls, Rises, ActorState
<1>6. CASE Started(t)
  BY <1>6, <1>a DEF Started, Go, Calls, Lulls, Rises, ActorState
<1>7. CASE CloseSub(t) \/ CloseStream(t)
  BY <1>7, <1>a DEF CloseSub, CloseStream, Closed, Go, GoFor, Calls, Lulls, Rises, ActorState
<1>8. CASE Release(t) \/ Restored(t) \/ Unwatch(t)
  BY <1>8, <1>a DEF Release, Restored, Unwatch, Return, Go, GoFor, Calls, Lulls, Rises, ActorState
<1>9. CASE \E s \in Streams : Unmute(t, s)
  BY <1>9, <1>a DEF Unmute, Calls, Lulls, Rises
<1> QED BY <1>1, <1>2, <1>3, <1>4, <1>5, <1>6, <1>7, <1>8, <1>9 DEF Step

LEMMA CalmingOn ==
    ASSUME Placed, NEW t \in Actors, Proceeds(t), Lulls(t), Calming(t)
    PROVE  Calming(t)'
<1>1. thr[t].calls \in Seq(Ops)
  BY DEF Placed, ActorState
<1>2. ASSUME open' PROVE Has(thr'[t].calls, "stopall") \/ thr'[t].pc = "closing"
  <2>1. Has(thr[t].calls, "stopall")
    BY <1>2 DEF Calming, Lulls, At
  <2>2. ~ Calls(t, "stopall") \/ thr'[t].pc = "closing"
    BY <1>2 DEF Lulls
  <2>3. CASE thr[t].pc = "next" /\ thr[t].calls # <<>> /\ thr'[t].calls = Tail(thr[t].calls)
    BY <1>1, <2>1, <2>2, <2>3, HasNext DEF Calls, At
  <2>4. CASE thr'[t].calls = Emergency \o thr[t].calls
    BY <1>1, <2>1, <2>4, HasAfter
  <2> QED BY <2>1, <2>3, <2>4 DEF Proceeds
<1>3. ASSUME held' PROVE Has(thr'[t].calls, "release") \/ thr'[t].pc = "release"
  <2>1. Has(thr[t].calls, "release")
    BY <1>3 DEF Calming, Lulls, At
  <2>2. ~ Calls(t, "release") \/ thr'[t].pc = "release"
    BY DEF Lulls
  <2>3. CASE thr[t].pc = "next" /\ thr[t].calls # <<>> /\ thr'[t].calls = Tail(thr[t].calls)
    BY <1>1, <2>1, <2>2, <2>3, HasNext DEF Calls, At
  <2>4. CASE thr'[t].calls = Emergency \o thr[t].calls
    BY <1>1, <2>1, <2>4, HasAfter
  <2> QED BY <2>1, <2>3, <2>4 DEF Proceeds
<1> QED BY <1>2, <1>3 DEF Calming, At

\* Neither the watcher nor anybody beside calm changes what is still on for it.
LEMMA BesideQuiet ==
    ASSUME QuietInv, Placed, StartsAlone', NEW t \in Actors, calm' \in {None, calm}, calm # t,
           \A u \in Actors \ {t} : thr'[u] = thr[u],
           open' => open, held' => held,
           t # Watcher => ~ Rising(t)' \/ calm' = None,
           Watcher # None, calm \in Actors \union {None}
    PROVE  QuietInv'
<1>1. SUFFICES ASSUME calm' # None
               PROVE  (\A u \in Actors \ {Watcher} : ~ Rising(u)') /\ Calming(calm)'
  BY DEF QuietInv
<1>2. calm' = calm /\ calm # None /\ thr'[calm] = thr[calm]
  BY <1>1
<1>3. ASSUME NEW u \in Actors \ {Watcher} PROVE ~ Rising(u)'
  <2>1. CASE u = t
    BY <1>1, <2>1
  <2>2. CASE u # t
    <3>1. ~ Rising(u) /\ thr'[u] = thr[u]
      BY <1>2, <2>2 DEF QuietInv
    <3> QED BY <3>1 DEF Rising, Calls, At
  <2> QED BY <2>1, <2>2
<1>4. Calming(calm)'
  BY <1>2 DEF QuietInv, Calming, At
<1> QED BY <1>3, <1>4

LEMMA StepQuiet ==
    ASSUME Typed, Placed, QuietInv, NEW t \in Actors, Step(t)
    PROVE  QuietInv'
<1>1. Proceeds(t) /\ StartsAlone' /\ \A op \in Beginnings : ~ Calls(t, op)'
  BY StepProceeds, ProceedsAlone DEF QuietInv
<1>2. calm' = calm /\ calm \in Actors \union {None} /\ \A u \in Actors \ {t} : thr'[u] = thr[u]
  BY <1>1 DEF Proceeds, Typed
<1>b. Watcher # None
  BY CaptureAssumption
<1>3. CASE calm = None
  BY <1>1, <1>2, <1>3, <1>b DEF QuietInv
<1>4. CASE calm # None /\ t = Watcher
  <2>1. thr[t].pc \in {"next", "event", "plan", "mute", "watch"} /\ thr[t].calls = <<>>
    BY <1>4 DEF Placed, Position
  <2>2. open' = open /\ held' = held
    <3>1. ~ (\/ AskStart(t) \/ TakeStart(t) \/ Started(t) \/ TakeStop(t) \/ RecorderStart(t)
             \/ SpawnDuck(t) \/ RecorderStop(t) \/ Unduck(t) \/ UnduckNow(t) \/ AskWakeOn(t)
             \/ Subscribe(t) \/ SwitchClose(t) \/ Opened(t) \/ OpenFails(t) \/ NameListener(t)
             \/ TakeWakeOff(t) \/ CloseSub(t) \/ StopAll(t) \/ CloseStream(t) \/ Acquire(t)
             \/ CallRelease(t) \/ Release(t) \/ (\E s \in Streams : Unmute(t, s))
             \/ Restored(t) \/ Unwatch(t) \/ WipeFlag(t, "wipe") \/ WipeFlag(t, "wiped"))
      BY <2>1 DEF AskStart, TakeStart, Started, TakeStop, RecorderStart, SpawnDuck, RecorderStop,
         Unduck, UnduckNow, AskWakeOn, Subscribe, SwitchClose, Opened, OpenFails, NameListener,
         TakeWakeOff, CloseSub, StopAll, CloseStream, Acquire, CallRelease, Release, Unmute,
         Restored, Unwatch, WipeFlag, Calls, At
    <3>2. WriteJournal(t) \/ (\E s \in Streams : Mute(t, s)) \/ Watch(t) \/ OnNewStream(t)
      BY <3>1 DEF Step
    <3> QED BY <3>2 DEF WriteJournal, Mute, Watch, OnNewStream, mic, lease
  <2>3. calm # Watcher
    BY <1>4 DEF QuietInv
  <2> QED BY <1>1, <1>2, <1>4, <2>2, <2>3, <1>b, BesideQuiet
<1>5. CASE calm # None /\ t # Watcher
  <2>1. Lulls(t)
    BY <1>5, StepLulls DEF QuietInv
  <2>2. ~ Rising(t)'
    BY <1>1, <2>1 DEF Rising, Lulls
  <2>3. CASE calm # t
    BY <1>1, <1>2, <2>1, <2>2, <2>3, <1>b, BesideQuiet DEF Lulls
  <2>4. CASE calm = t
    <3>1. Calming(t)'
      BY <1>1, <2>1, <2>4, <1>5, CalmingOn DEF QuietInv
    <3>2. ASSUME NEW u \in Actors \ {Watcher, t} PROVE ~ Rising(u)'
      <4>1. ~ Rising(u) /\ thr'[u] = thr[u]
        BY <1>2, <1>5, <3>2 DEF QuietInv
      <4> QED BY <4>1 DEF Rising, Calls, At
    <3>3. Calming(calm)'
      BY <1>2, <2>4, <3>1 DEF Calming, At
    <3> QED BY <1>1, <2>2, <3>2, <3>3, <1>2, <1>5 DEF QuietInv
  <2> QED BY <2>3, <2>4
<1> QED BY <1>3, <1>4, <1>5

LEMMA OtherLength ==
    ASSUME NEW c, NEW d, NEW n, Len(c) = 1, Len(d) = n, n # 1
    PROVE  c # d
OBVIOUS

LEMMA OneIsSome == ASSUME NEW c, Len(c) = 1 PROVE c # <<>>
OBVIOUS

LEMMA ScriptFacts ==
    ASSUME NEW script \in Scripts
    PROVE  /\ script \in Seq(Ops) /\ script # <<>>
           /\ script \in {Start, WakeOn} => Len(script) = 1
           /\ script \notin {Start, WakeOn} =>
                \A i \in 1 .. Len(script) : script[i] \notin Beginnings
           /\ script \in {Emergency, Wipe} => Has(script, "stopall") /\ Has(script, "release")
<1> USE DEF Ops, Beginnings
<1>a. /\ Len(Emergency) = 4 /\ Len(Wipe) = 6
      /\ Start \in Seq(Ops) /\ Len(Start) = 1 /\ Start[1] = "start"
      /\ Stop \in Seq(Ops) /\ Len(Stop) = 1 /\ Stop[1] = "stop"
      /\ WakeOn \in Seq(Ops) /\ Len(WakeOn) = 1 /\ WakeOn[1] = "wakeon"
      /\ WakeOff \in Seq(Ops) /\ Len(WakeOff) = 1 /\ WakeOff[1] = "wakeoff"
  BY DEF Emergency, Wipe, Start, Stop, WakeOn, WakeOff
<1>1. CASE script = Start \/ script = WakeOn
  <2>1. script \in Seq(Ops) /\ Len(script) = 1
    BY <1>a, <1>1
  <2>2. script # Emergency /\ script # Wipe
    BY <1>a, <2>1, OtherLength, 4 # 1, 6 # 1
  <2>3. script # <<>>
    BY <2>1, OneIsSome
  <2> QED BY <1>1, <2>1, <2>2, <2>3
<1>2. CASE script = Stop \/ script = WakeOff
  <2>1. script \in Seq(Ops) /\ Len(script) = 1 /\ script[1] \in {"stop", "wakeoff"}
    BY <1>a, <1>2
  <2>2. script # Emergency /\ script # Wipe
    BY <1>a, <2>1, OtherLength, 4 # 1, 6 # 1
  <2>3. script # <<>>
    BY <2>1, OneIsSome
  <2>5. script # Start /\ script # WakeOn
    BY <1>a, <2>1
  <2>4. \A i \in 1 .. Len(script) : i = 1
    BY <2>1
  <2> QED BY <2>1, <2>2, <2>3, <2>4, <2>5
<1>3. CASE script = Shutdown
  BY <1>3 DEF Shutdown, Emergency, Wipe, Start, WakeOn
<1>4. CASE script = Emergency
  <2>1. Len(script) = 4 /\ script[3] = "stopall" /\ script[4] = "release"
    BY <1>4 DEF Emergency
  <2>2. 3 \in 1 .. 4 /\ 4 \in 1 .. 4
    OBVIOUS
  <2>3. Has(script, "stopall") /\ Has(script, "release")
    BY <2>1, <2>2 DEF Has
  <2> QED BY <1>4, <2>3 DEF Emergency, Start, WakeOn
<1>5. CASE script = Wipe
  <2>1. Len(script) = 6 /\ script[3] = "stopall" /\ script[4] = "release"
    BY <1>5 DEF Wipe
  <2>2. 3 \in 1 .. 6 /\ 4 \in 1 .. 6
    OBVIOUS
  <2>3. Has(script, "stopall") /\ Has(script, "release")
    BY <2>1, <2>2 DEF Has
  <2> QED BY <1>5, <2>3 DEF Wipe, Start, WakeOn
<1> QED BY <1>1, <1>2, <1>3, <1>4, <1>5 DEF Scripts

LEMMA BeginQuiet ==
    ASSUME Typed, Placed, QuietInv, NEW t \in Users \union {Callback}, NEW script \in Scripts,
           Begin(t, script)
    PROVE  QuietInv'
<1>1. /\ t \in Actors /\ t # Watcher /\ t # Startup /\ thr \in [Actors -> ActorState]
      /\ Watcher # None /\ calm \in Actors \union {None}
  BY CaptureAssumption DEF Actors, Placed, Typed
<1>2. /\ thr[t] = Idle /\ \A u \in Actors \ {t} : thr'[u] = thr[u]
      /\ thr'[t].pc = "next" /\ thr'[t].calls = script
      /\ open' = open /\ held' = held
  BY <1>1 DEF Begin, Busy, Idle, mic, lease
<1>3. StartsAlone'
  BY <1>2, ScriptFacts DEF QuietInv, StartsAlone, At
<1>4. CASE script \in {Start, WakeOn}
  <2>1. calm' = None
    BY <1>4 DEF Begin
  <2> QED BY <1>1, <1>3, <2>1 DEF QuietInv
<1>5. CASE script \notin {Start, WakeOn}
  <2>1. ~ Rising(t)'
    <3>1. 1 \in 1 .. Len(script) /\ Head(script) = script[1]
      BY ScriptFacts
    <3>2. Head(script) \notin Beginnings
      BY <1>5, <3>1, ScriptFacts
    <3> QED BY <1>2, <3>2 DEF Rising, Rises, Calls
  <2>2. CASE calm' = t /\ script \in {Emergency, Wipe}
             /\ ~ \E u \in Users \union {Callback} : InStart(u)
    <3>1. Calming(calm)'
      BY <1>2, <2>2, ScriptFacts DEF Calming
    <3>2. ASSUME NEW u \in Actors \ {Watcher} PROVE ~ Rising(u)'
      <4>1. CASE u = t
        BY <2>1, <4>1
      <4>2. CASE u \in (Users \union {Callback}) \ {t}
        <5>1. thr'[u] = thr[u] /\ ~ InStart(u)
          BY <1>1, <1>2, <2>2, <4>2
        <5>2. ~ Rising(u)
          BY <5>1 DEF InStart, Rising, Rises, Beginnings
        <5> QED BY <5>1, <5>2 DEF Rising, Calls, At
      <4>3. CASE u = Startup
        <5>1. thr'[u] = thr[u] /\ thr[u].calls = <<>> /\ thr[u].pc \in {"next", "recover", "restore"}
          BY <1>1, <1>2, <4>3 DEF Placed, Position
        <5> QED BY <5>1 DEF Rising, Rises, Calls
      <4> QED BY <4>1, <4>2, <4>3 DEF Actors
    <3> QED BY <1>1, <1>3, <2>2, <3>1, <3>2 DEF QuietInv
  <2>3. CASE calm' = calm
    <3>1. CASE calm = None
      BY <1>1, <1>3, <2>3, <3>1 DEF QuietInv
    <3>2. CASE calm # None /\ calm # t
      BY <1>1, <1>2, <1>3, <2>1, <2>3, <3>2, BesideQuiet
    <3>3. CASE calm = t
      <4>1. t # None /\ Calming(t)
        BY <1>1, <3>3, CaptureAssumption DEF QuietInv, Actors
      <4>2. ~ open /\ ~ held
        BY <1>2, <4>1 DEF Calming, Has, Idle, At
      <4>3. ASSUME NEW u \in Actors \ {Watcher} PROVE ~ Rising(u)'
        <5>1. CASE u = t
          BY <2>1, <5>1
        <5>2. CASE u # t
          <6>1. thr'[u] = thr[u] /\ ~ Rising(u)
            BY <1>2, <3>3, <4>1, <5>2 DEF QuietInv
          <6> QED BY <6>1 DEF Rising, Calls, At
        <5> QED BY <5>1, <5>2
      <4>4. Calming(calm)'
        BY <1>2, <4>2 DEF Calming
      <4> QED BY <1>1, <1>3, <2>3, <3>3, <4>3, <4>4 DEF QuietInv
    <3> QED BY <3>1, <3>2, <3>3
  <2> QED BY <1>5, <2>2, <2>3 DEF Begin
<1> QED BY <1>4, <1>5

LEMMA NextQuiet ==
    Typed /\ Placed /\ QuietInv /\ [Next]_vars => QuietInv'
<1> SUFFICES ASSUME Typed, Placed, QuietInv, [Next]_vars PROVE QuietInv'
  OBVIOUS
<1> USE DEF hotkeys, recorder, mic, volume, engaged, history, lease
<1>a. /\ thr \in [Actors -> ActorState] /\ Watcher \in Actors /\ Startup \in Actors
      /\ Watcher # None /\ calm \in Actors \union {None} /\ Startup # Watcher
  BY CaptureAssumption DEF Placed, Actors, Typed
<1>1. CASE UNCHANGED vars
  BY <1>1 DEF vars, QuietInv, StartsAlone, Rising, Calming, Calls, At
<1>2. CASE StreamEvent
  <2>1. /\ \A u \in Actors \ {Watcher} : thr'[u] = thr[u]
        /\ calm' = calm /\ open' = open /\ held' = held
        /\ thr'[Watcher].calls = thr[Watcher].calls /\ thr[Watcher].calls = <<>>
    BY <1>2, <1>a DEF StreamEvent, Go, ActorState, Placed
  <2>2. StartsAlone'
    BY <2>1 DEF QuietInv, StartsAlone, At
  <2>3. calm # Watcher
    BY DEF QuietInv
  <2> QED BY <1>a, <2>1, <2>2, <2>3, BesideQuiet
<1>3. CASE Recover \/ Recovered
  <2>1. /\ \A u \in Actors \ {Startup} : thr'[u] = thr[u]
        /\ calm' = calm /\ open' = open /\ held' = held
        /\ thr'[Startup].calls = <<>> /\ thr'[Startup].pc \in {"restore", "next"}
        /\ thr[Startup].calls = <<>> /\ thr[Startup].pc \in {"recover", "restore"}
    BY <1>3, <1>a DEF Recover, Recovered, Go, ActorState, Placed, At
  <2>2. StartsAlone'
    BY <2>1 DEF QuietInv, StartsAlone, At
  <2>3. ~ Rising(Startup)'
    BY <2>1 DEF Rising, Rises, Calls
  <2>4. CASE calm # Startup
    BY <1>a, <2>1, <2>2, <2>3, <2>4, BesideQuiet
  <2>5. CASE calm = Startup
    <3>1. ~ open /\ ~ held
      <4>1. Startup # None
        BY CaptureAssumption
      <4> QED BY <2>1, <2>5, <4>1 DEF QuietInv, Calming, Has, At
    <3>2. Calming(calm)'
      BY <2>1, <3>1 DEF Calming
    <3>3. ASSUME NEW u \in Actors \ {Watcher} PROVE ~ Rising(u)'
      <4>1. CASE u # Startup
        <5>1. thr'[u] = thr[u] /\ ~ Rising(u)
          BY <2>1, <2>5, <4>1, CaptureAssumption DEF QuietInv
        <5> QED BY <5>1 DEF Rising, Calls, At
      <4> QED BY <2>3, <4>1
    <3> QED BY <1>a, <2>1, <2>2, <2>5, <3>2, <3>3 DEF QuietInv
  <2> QED BY <2>4, <2>5
<1>4. CASE Crash
  BY <1>4, <1>a DEF Crash, Idle, QuietInv, StartsAlone
<1>5. CASE \/ \E g \in {"fresh", "stale"} : DuckCommit(g)
           \/ \E s \in Streams : AppStep(s)
  BY <1>5 DEF DuckCommit, AppStep, QuietInv, StartsAlone, Rising, Calming, Calls, At
<1> QED BY <1>1, <1>2, <1>3, <1>4, <1>5, StepQuiet, BeginQuiet DEF Next

\* PanicQuiets holds of every behaviour: an emergency stop or a wipe that met no
\* start leaves no capture running, no lease held and no key down.
THEOREM PanicQuiets_Safety == Spec => []PanicQuiets
<1>1. Init => Typed /\ Placed /\ MuteInv /\ HeldInv /\ QuietInv
  <2>1. Init => QuietInv
    BY CaptureAssumption DEF Init, Idle, QuietInv, StartsAlone
  <2> QED BY <2>1, InitType, InitMutes, InitHeld
<1>2. Typed /\ Placed /\ MuteInv /\ HeldInv /\ QuietInv /\ [Next]_vars
        => Typed' /\ Placed' /\ MuteInv' /\ HeldInv' /\ QuietInv'
  BY NextType, NextMutes, NextHeld, NextQuiet
<1>3. HeldInv /\ QuietInv => PanicQuiets
  BY DEF HeldInv, QuietInv, Calming, Has, PanicQuiets, Busy, Idle, At
<1> QED BY <1>1, <1>2, <1>3, PTL DEF Spec

-----------------------------------------------------------------------------
(* No threads wait for one another: the recorder's lock is taken before the *)
(* stream's and the lease's, and who holds one of those two takes no other. *)

\* Who has streams to mute.
Mutes(u) == thr[u].pc \in {"plan", "mute"}
WorkInv == \A u \in Actors : Mutes(u) => todo # {}

LEMMA InitWork == Init => WorkInv
BY DEF Init, WorkInv, Mutes, Idle

\* A step of t that leaves the streams to mute alone, or is under the lease's lock.
LEMMA WorkMove ==
    ASSUME Placed, Placed', WorkInv, NEW t \in Actors,
           \A u \in Actors \ {t} : thr'[u] = thr[u],
           todo' = todo \/ llock \in {t, None},
           Mutes(t)' => todo' # {}
    PROVE  WorkInv'
<1> SUFFICES ASSUME NEW u \in Actors, Mutes(u)' PROVE todo' # {}
  BY DEF WorkInv
<1>1. CASE u # t
  <2>1. thr'[u] = thr[u]
    BY <1>1
  <2>2. Mutes(u)
    BY <2>1 DEF Mutes
  <2>3. llock = u
    BY <2>2 DEF Placed, Leasing, Mutes
  <2>4. u # None
    BY CaptureAssumption DEF Actors
  <2> QED BY <1>1, <2>2, <2>3, <2>4 DEF WorkInv
<1> QED BY <1>1

LEMMA LeaseStepWorks ==
    ASSUME Placed, Placed', WorkInv, NEW t \in Actors \ {Startup},
           \/ Acquire(t) \/ WriteJournal(t) \/ (\E s \in Streams : Mute(t, s)) \/ Watch(t)
           \/ OnNewStream(t) \/ Release(t) \/ (\E s \in Streams : Unmute(t, s))
           \/ Restored(t) \/ Unwatch(t)
    PROVE  WorkInv'
<1> USE DEF At, engaged, lease
<1> thr \in [Actors -> ActorState] /\ thr[t] \in ActorState
  BY DEF Placed
<1>a. Leasing(t, thr[t].pc) => llock = t
  BY DEF Placed
<1>b. ASSUME Engage(t)
      PROVE  /\ \A u \in Actors \ {t} : thr'[u] = thr[u]
             /\ thr'[t].pc = IF todo' = {} THEN "watch" ELSE "plan"
  BY <1>b DEF Engage, Go, ActorState
<1>1. CASE Acquire(t)
  <2>1. llock = None
    BY <1>1 DEF Acquire, LeaseFree
  <2>2. /\ \A u \in Actors \ {t} : thr'[u] = thr[u]
        /\ Mutes(t)' => todo' # {}
    <3>1. CASE Go(t, "duck")
      BY <3>1 DEF Go, ActorState, Mutes
    <3>2. CASE Engage(t)
      BY <1>b, <3>2 DEF Mutes
    <3> QED BY <1>1, <3>1, <3>2 DEF Acquire
  <2> QED BY <2>1, <2>2, WorkMove
<1>2. CASE WriteJournal(t)
  <2>1. /\ \A u \in Actors \ {t} : thr'[u] = thr[u]
        /\ thr[t].pc = "plan"
        /\ \/ thr'[t].pc = "mute" /\ todo' = todo
           \/ thr'[t].pc = "watch"
    BY <1>2 DEF WriteJournal, Go, ActorState
  <2>2. llock = t /\ todo # {}
    BY <1>a, <2>1 DEF Leasing, WorkInv, Mutes
  <2> QED BY <2>1, <2>2, WorkMove DEF Mutes
<1>3. ASSUME NEW s \in Streams, Mute(t, s) PROVE WorkInv'
  <2>1. /\ \A u \in Actors \ {t} : thr'[u] = thr[u]
        /\ thr[t].pc = "mute"
        /\ thr'[t].pc = IF todo' = {} THEN "watch" ELSE "mute"
    BY <1>3 DEF Mute, Go, ActorState
  <2> QED BY <1>a, <2>1, WorkMove DEF Leasing, Mutes
<1>4. CASE Watch(t)
  <2>1. /\ \A u \in Actors \ {t} : thr'[u] = thr[u]
        /\ thr'[t].pc \in {"next", "duck"} /\ todo' = todo
    BY <1>4 DEF Watch, Go, ActorState
  <2> QED BY <2>1, WorkMove DEF Mutes
<1>5. CASE OnNewStream(t)
  <2>1. llock = None
    BY <1>5 DEF OnNewStream, LeaseFree
  <2>2. /\ \A u \in Actors \ {t} : thr'[u] = thr[u]
        /\ Mutes(t)' => todo' # {}
    <3>1. CASE Go(t, "next")
      BY <3>1 DEF Go, ActorState, Mutes
    <3>2. CASE Engage(t)
      BY <1>b, <3>2 DEF Mutes
    <3> QED BY <1>5, <3>1, <3>2 DEF OnNewStream
  <2> QED BY <2>1, <2>2, WorkMove
<1>6. CASE Release(t)
  <2>1. llock = None
    BY <1>6 DEF Release, LeaseFree
  <2>2. /\ \A u \in Actors \ {t} : thr'[u] = thr[u]
        /\ thr'[t].pc \in {"next", "started", "unwatch", "restore"}
    BY <1>6 DEF Release, Return, Go, GoFor, ActorState
  <2> QED BY <2>1, <2>2, WorkMove DEF Mutes
<1>7. ASSUME NEW s \in Streams, Unmute(t, s) PROVE WorkInv'
  <2>1. thr' = thr /\ thr[t].pc = "restore"
    BY <1>7 DEF Unmute
  <2> QED BY <1>a, <2>1, WorkMove DEF Leasing, Mutes
<1>8. CASE Restored(t)
  <2>1. /\ \A u \in Actors \ {t} : thr'[u] = thr[u]
        /\ thr'[t].pc = "unwatch" /\ todo' = todo
    BY <1>8 DEF Restored, Go, ActorState
  <2> QED BY <2>1, WorkMove DEF Mutes
<1>9. CASE Unwatch(t)
  <2>1. /\ \A u \in Actors \ {t} : thr'[u] = thr[u]
        /\ thr'[t].pc \in {"next", "started"} /\ todo' = todo
    BY <1>9 DEF Unwatch, Return, GoFor, ActorState
  <2> QED BY <2>1, WorkMove DEF Mutes
<1> QED BY <1>1, <1>2, <1>3, <1>4, <1>5, <1>6, <1>7, <1>8, <1>9

\* Outside the lease nobody comes to a place with streams to mute.
LEMMA QuietStepMutesNone ==
    ASSUME Placed, NEW t \in Actors, QuietStep(t)
    PROVE  ~ Mutes(t)'
<1> USE DEF At, Mutes
<1> thr \in [Actors -> ActorState]
  BY DEF Placed
<1>1. CASE AskStart(t)
  BY <1>1 DEF AskStart, Enter, Calls, ActorState
<1>2. CASE TakeStart(t)
  BY <1>2 DEF TakeStart, Go, ActorState
<1>3. CASE Started(t)
  BY <1>3 DEF Started, Go, ActorState
<1>4. CASE TakeStop(t)
  BY <1>4 DEF TakeStop, Enter, Calls, ActorState
<1>5. CASE WipeFlag(t, "wipe")
  BY <1>5 DEF WipeFlag, Enter, Calls, ActorState
<1>6. CASE WipeFlag(t, "wiped")
  BY <1>6 DEF WipeFlag, Enter, Calls, ActorState
<1>7. CASE RecorderStart(t)
  BY <1>7 DEF RecorderStart, Go, GoFor, ActorState
<1>8. CASE SpawnDuck(t)
  BY <1>8 DEF SpawnDuck, Go, ActorState
<1>9. CASE RecorderStop(t)
  BY <1>9 DEF RecorderStop, GoFor, ActorState
<1>10. CASE Unduck(t)
  BY <1>10 DEF Unduck, Go, ActorState
<1>11. CASE UnduckNow(t)
  BY <1>11 DEF UnduckNow, Enter, Calls, ActorState
<1>12. CASE AskWakeOn(t)
  BY <1>12 DEF AskWakeOn, Enter, Calls, ActorState
<1>13. CASE Subscribe(t)
  BY <1>13 DEF Subscribe, Go, GoFor, Subscribed, ActorState
<1>14. CASE SwitchClose(t)
  BY <1>14 DEF SwitchClose, Go, ActorState
<1>15. CASE Opened(t)
  BY <1>15 DEF Opened, GoFor, Subscribed, ActorState
<1>16. CASE OpenFails(t)
  BY <1>16 DEF OpenFails, GoFor, ActorState
<1>17. CASE NameListener(t)
  BY <1>17 DEF NameListener, Go, ActorState
<1>18. CASE TakeWakeOff(t)
  BY <1>18 DEF TakeWakeOff, Enter, Calls, ActorState
<1>19. CASE CloseSub(t)
  BY <1>19 DEF CloseSub, Go, GoFor, Closed, ActorState
<1>20. CASE StopAll(t)
  BY <1>20 DEF StopAll, Enter, Calls, ActorState
<1>21. CASE CloseStream(t)
  BY <1>21 DEF CloseStream, GoFor, Closed, ActorState
<1>22. CASE CallRelease(t)
  BY <1>22 DEF CallRelease, Enter, Calls, ActorState
<1> QED BY <1>1, <1>2, <1>3, <1>4, <1>5, <1>6, <1>7, <1>8, <1>9, <1>10, <1>11,
       <1>12, <1>13, <1>14, <1>15, <1>16, <1>17, <1>18, <1>19, <1>20, <1>21, <1>22 DEF QuietStep

LEMMA NextWork ==
    Typed /\ Placed /\ Placed' /\ MuteInv /\ WorkInv /\ [Next]_vars => WorkInv'
<1> SUFFICES ASSUME Typed, Placed, Placed', MuteInv, WorkInv, [Next]_vars PROVE WorkInv'
  OBVIOUS
<1> USE DEF At, engaged, lease
<1>a. thr \in [Actors -> ActorState] /\ {Watcher, Startup, Callback} \subseteq Actors
  BY DEF Placed, Actors
<1>b. thr[Startup].pc # "next" => StartingUp
  BY DEF MuteInv, Idle
<1>c. ASSUME StartingUp, \A u \in Actors \ {Startup} : thr'[u] = thr[u],
             thr'[Startup].pc \in {"next", "restore"}
      PROVE  WorkInv'
  BY <1>c DEF StartingUp, WorkInv, Mutes, Idle
<1>1. CASE UNCHANGED vars
  BY <1>1 DEF vars, WorkInv, Mutes
<1>2. ASSUME NEW t \in Actors, Step(t) PROVE WorkInv'
  <2>1. CASE t # Startup
    <3>1. CASE QuietStep(t)
      BY <3>1, QuietSteps, QuietStepMutesNone, WorkMove DEF Quiet
    <3>2. CASE ~ QuietStep(t)
      BY <1>2, <2>1, <3>2, LeaseStepWorks DEF Step, QuietStep
    <3> QED BY <3>1, <3>2
  <2>2. CASE t = Startup
    <3>1. StartingUp /\ \E s \in Streams : Unmute(Startup, s)
      BY <1>2, <2>2, StepAlone
    <3>2. thr' = thr /\ thr[Startup].pc = "restore"
      BY <3>1 DEF Unmute
    <3> QED BY <1>c, <3>1, <3>2
  <2> QED BY <2>1, <2>2
<1>3. ASSUME NEW t \in Users \union {Callback}, NEW script \in Scripts, Begin(t, script)
      PROVE  WorkInv'
  <2>1. t \in Actors
    BY DEF Actors
  <2>2. \A u \in Actors : thr'[u].pc = thr[u].pc
    BY <1>3, <1>a, <2>1 DEF Begin, ActorState
  <2> QED BY <1>3, <2>2 DEF Begin, WorkInv, Mutes
<1>4. CASE StreamEvent
  <2>1. /\ \A u \in Actors \ {Watcher} : thr'[u] = thr[u]
        /\ thr'[Watcher].pc = "event" /\ todo' = todo
    BY <1>4, <1>a DEF StreamEvent, Go, ActorState
  <2> QED BY <1>a, <2>1, WorkMove DEF Mutes
<1>5. CASE Recover
  BY <1>5, <1>a, <1>b, <1>c DEF Recover, Go, ActorState
<1>6. CASE Recovered
  BY <1>6, <1>a, <1>b, <1>c DEF Recovered, Go, ActorState
<1>7. CASE Crash
  <2>1. /\ \A u \in Actors \ {Startup} : thr'[u] = Idle
        /\ thr'[Startup].pc = "recover"
    BY <1>7 DEF Crash, Idle, Actors
  <2> QED BY <2>1 DEF WorkInv, Mutes, Idle
<1>8. ASSUME NEW g \in {"fresh", "stale"}, DuckCommit(g) PROVE WorkInv'
  BY <1>8 DEF DuckCommit, WorkInv, Mutes
<1>9. ASSUME NEW s \in Streams, AppStep(s) PROVE WorkInv'
  BY <1>9 DEF AppStep, WorkInv, Mutes
<1> QED BY <1>1, <1>2, <1>3, <1>4, <1>5, <1>6, <1>7, <1>8, <1>9 DEF Next

\* Who is at a place of its own has work to do.
LEMMA BusyWorks ==
    ASSUME Placed, WorkInv, NEW t \in Actors, Busy(t)
    PROVE  /\ At(t, "next") => thr[t].calls # <<>>
           /\ At(t, "mute") => todo # {}
<1>1. thr[t] \in ActorState /\ Position(t, thr[t].pc, thr[t].ret)
  BY DEF Placed
<1>2. thr[t].pc = "next" /\ thr[t].calls = <<>> => thr[t] = Idle
  BY <1>1 DEF Position, ActorState, Idle
<1> QED BY <1>2 DEF Busy, At, WorkInv, Mutes

\* From whoever waits to the holder of the lock it waits for: the holder of the
\* lease's or the stream's lock waits for none, and when those two are free the
\* holder of the recorder's does not wait either.
LEMMA HolderSteps ==
    ASSUME Typed, Placed, WorkInv, ~ Busy(Callback), NEW t \in Users \union {Watcher}, Busy(t)
    PROVE  \E u \in Actors : CanStep(u)
<1> USE DEF At
<1>a. None \notin Actors /\ t \in Actors /\ {rlock, llock, block} \subseteq Actors \union {None}
  BY CaptureAssumption DEF Placed, Actors
<1>b. ASSUME NEW u \in Actors, thr[u].pc # "next" \/ thr[u].ret # "next" PROVE Busy(u)
  BY <1>b DEF Busy, Idle
<1>1. CASE llock # None
  <2>1. llock \in Actors
    BY <1>1, <1>a
  <2>2. Leasing(llock, thr[llock].pc)
    BY <2>1 DEF Placed
  <2>3. Busy(llock)
    BY <1>b, <2>1, <2>2 DEF Leasing
  <2>4. RecorderFree(llock) /\ MicFree(llock) /\ LeaseFree(llock)
    BY <2>2 DEF Leasing, RecorderFree, MicFree, LeaseFree, Calls
  <2> QED BY <2>1, <2>3, <2>4, BusyWorks DEF CanStep
<1>2. CASE block # None
  <2>1. block \in Actors
    BY <1>2, <1>a
  <2>2. thr[block].pc \in Streaming
    BY <2>1 DEF Placed
  <2>3. Busy(block)
    BY <1>b, <2>1, <2>2 DEF Streaming
  <2>4. RecorderFree(block) /\ MicFree(block) /\ LeaseFree(block)
    BY <2>2 DEF Streaming, RecorderFree, MicFree, LeaseFree, Calls, CallbackOver
  <2> QED BY <2>1, <2>3, <2>4, BusyWorks DEF CanStep
<1>3. CASE llock = None /\ block = None /\ rlock # None
  <2>1. rlock \in Actors
    BY <1>3, <1>a
  <2>2. thr[rlock].ret \in Recording /\ Position(rlock, thr[rlock].pc, thr[rlock].ret)
    BY <2>1 DEF Placed
  <2>3. thr[rlock].pc \notin {"next", "record", "halt"}
    BY <2>2 DEF Position, Recording
  <2>4. Busy(rlock)
    BY <1>b, <2>1, <2>3
  <2>5. RecorderFree(rlock) /\ MicFree(rlock) /\ LeaseFree(rlock)
    BY <1>3, <2>3 DEF RecorderFree, MicFree, LeaseFree, CallbackOver
  <2> QED BY <2>1, <2>4, <2>5, BusyWorks DEF CanStep
<1>4. CASE llock = None /\ block = None /\ rlock = None
  <2>1. RecorderFree(t) /\ MicFree(t) /\ LeaseFree(t)
    BY <1>4 DEF RecorderFree, MicFree, LeaseFree, CallbackOver
  <2> QED BY <1>a, <2>1, BusyWorks DEF CanStep
<1> QED BY <1>1, <1>2, <1>3, <1>4

\* NothingHangs holds of every behaviour: while threads or the watcher have
\* something under way and no start runs in the audio callback, one of them has
\* all it waits for.
THEOREM NothingHangs_Safety == Spec => []NothingHangs
<1>1. Init => Typed /\ Placed /\ MuteInv /\ WorkInv
  BY InitType, InitMutes, InitWork
<1>2. Typed /\ Placed /\ MuteInv /\ WorkInv /\ [Next]_vars
        => Typed' /\ Placed' /\ MuteInv' /\ WorkInv'
  BY NextType, NextMutes, NextWork
<1>3. Typed /\ Placed /\ WorkInv => NothingHangs
  BY HolderSteps DEF NothingHangs
<1> QED BY <1>1, <1>2, <1>3, PTL DEF Spec

=============================================================================
