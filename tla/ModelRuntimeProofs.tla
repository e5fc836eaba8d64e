------------------------- MODULE ModelRuntimeProofs -------------------------
(***************************************************************************)
(* Proofs about ModelRuntime for any set of runtimes, any number of threads *)
(* and coroutines, any number of engine objects and any amount of memory:   *)
(* types, leases, the refinement of ExclusiveUse, and that a model in hand  *)
(* is spared.                                                               *)
(***************************************************************************)
EXTENDS ModelRuntime, TLAPS

UseKinds == {"use", "route", "bare", "warm"}
Freeing == {"free", "note", "resume", "forget"}
Working == {"engine", "create", "return", "lease", "ensure", "evict", "load",
            "report", "infer", "busy", "release", "stop"}

\* What the place of actor t says of the rest of its state r.
Position(t, r) ==
    /\ r.pc \in Working => r.kind \in UseKinds /\ r.n \in Names
    /\ r.pc \in Freeing
         => /\ r.victim \in Names
            /\ \/ r.kind \in UseKinds /\ r.n \in Names /\ r.eng \in Engines
               \/ r.kind = "unload" /\ r.pc # "forget"
               \/ t = Sweeper
    /\ r.pc \in {"ensure", "evict", "load", "report", "infer", "busy"} => r.eng \in Engines
    /\ r.pc = "lease" => r.kind = "route" \/ (r.kind = "use" /\ r.eng \in Engines)
    /\ r.pc \in {"create", "return"} => r.kind # "route"
    /\ r.pc \in {"drain", "select"} => /\ r.kind \in {"unload", "select"}
                                      /\ r.victim \in Names /\ t \in Tasks
    /\ r.pc = "sweep" => t = Sweeper /\ r.victim \in Names
    /\ t = Sweeper => r.kind = "none"
    /\ r.getting => r.pc \in {"evict", "load", "report"} \union Freeing

Placed ==
    /\ thr \in [Actors -> ActorState]
    /\ \A t \in Actors : Position(t, thr[t])

\* The variables other than the actors' places.
Typed ==
    /\ readers \in [Names -> SUBSET Actors]
    /\ writer \in [Names -> Actors \union {None}]
    /\ cancel \in [Names -> BOOLEAN]
    /\ ledger \in [Names -> {"none", "used", "idle"}]
    /\ pinned \in [Names -> BOOLEAN] /\ plan \in Plans
    /\ engine \in [Names -> Engines \union {NoEngine}]
    /\ loaded \subseteq Engines
    /\ lock \in [Engines -> Actors \union {None}]
    /\ constructed \in BOOLEAN /\ outdated \in BOOLEAN
    /\ loop \in Tasks \union {None}

LEMMA TypeFrom == Typed /\ Placed => TypeOK
BY DEF Typed, Placed, Position, TypeOK

LEMMA LlmEngine == "llm" \in Names => <<"llm", 1>> \in Engines
BY RuntimeAssumption DEF Engines

LEMMA RestPlaced ==
    Rest \in ActorState /\ \A t \in Actors : Position(t, Rest)
BY DEF Rest, ActorState, Position, Working, Freeing

LEMMA InitType == Init => Typed /\ Placed
<1>1. Init => Typed
  BY DEF Init, Typed
<1>2. Init => Placed
  BY RestPlaced DEF Init, Placed
<1> QED BY <1>1, <1>2

\* An actor moves alone, and to a place it may have.
LEMMA MovePlaced ==
    ASSUME Placed, NEW t \in Actors, NEW r \in ActorState, Position(t, r), Go(t, r)
    PROVE  Placed'
BY DEF Placed, Go

LEMMA SweepPlaced ==
    ASSUME NEW n \in Names
    PROVE  LET r == [Rest EXCEPT !.pc = "sweep", !.victim = n]
           IN  r \in ActorState /\ Position(Sweeper, r)
BY DEF Rest, ActorState, Position, Working, Freeing

LEMMA WritePlaced ==
    ASSUME NEW n \in Names, NEW t \in Tasks
    PROVE  /\ LET r == [Rest EXCEPT !.kind = "select", !.victim = n, !.pc = "select"]
              IN  r \in ActorState /\ Position(t, r)
           /\ LET r == [Rest EXCEPT !.kind = "unload", !.victim = n, !.pc = "free"]
              IN  r \in ActorState /\ Position(t, r)
<1> t # Sweeper
  BY RuntimeAssumption
<1> QED BY DEF Rest, ActorState, Position, Working, Freeing

LEMMA BeginPlaced ==
    ASSUME NEW n \in Names, NEW k \in UseKinds, NEW p \in {"lease", "engine"},
           p = "lease" => k = "route",
           NEW t \in Actors \ {Sweeper}
    PROVE  LET r == [Rest EXCEPT !.pc = p, !.kind = k, !.n = n]
           IN  r \in ActorState /\ Position(t, r)
<1> DEFINE r == [Rest EXCEPT !.pc = p, !.kind = k, !.n = n]
<1>1. Rest \in ActorState /\ ~ Rest.getting
  BY DEF Rest, ActorState
<1>2. r \in ActorState /\ r.pc = p /\ r.kind = k /\ r.n = n /\ ~ r.getting
  BY <1>1 DEF ActorState, UseKinds
<1>3. Position(t, r)
  BY <1>2 DEF Position, Working, Freeing
<1> QED BY <1>2, <1>3

\* A user that has its engine in hand goes on, or asks for admission, in a
\* place it may have.
LEMMA WorkPlaced ==
    ASSUME NEW t \in Actors \ {Sweeper}, NEW r \in ActorState,
           r.kind \in UseKinds, r.n \in Names, r.eng \in Engines
    PROVE  /\ \A p \in {"load", "report"} :
                LET q == [r EXCEPT !.pc = p] IN q \in ActorState /\ Position(t, q)
           /\ ~ r.getting => \A p \in {"infer", "busy", "release", "idle", "stop"} :
                LET q == [r EXCEPT !.pc = p] IN q \in ActorState /\ Position(t, q)
           /\ \A c \in SUBSET Names :
                LET q == [r EXCEPT !.pc = "evict", !.cands = c]
                IN  q \in ActorState /\ Position(t, q)
<1>1. \A p \in {"load", "report"} :
        LET q == [r EXCEPT !.pc = p] IN q \in ActorState /\ Position(t, q)
  BY DEF ActorState, Position, Working, Freeing
<1>2. ~ r.getting => \A p \in {"infer", "busy", "release", "idle", "stop"} :
        LET q == [r EXCEPT !.pc = p] IN q \in ActorState /\ Position(t, q)
  BY DEF ActorState, Position, Working, Freeing
<1>3. \A c \in SUBSET Names :
        LET q == [r EXCEPT !.pc = "evict", !.cands = c]
        IN  q \in ActorState /\ Position(t, q)
  BY DEF ActorState, Position, Working, Freeing
<1> QED BY <1>1, <1>2, <1>3

\* Where a user goes with a model, and without one.
LEMMA NextPlaces ==
    ASSUME NEW k \in UseKinds
    PROVE  /\ HasModel(k) \in {"infer", "busy", "release", "idle", "stop"}
           /\ HasEngine(k) \in {"infer", "busy", "release", "idle", "stop"} \union {"lease", "ensure"}
           /\ GivesUp(k) \in {"infer", "busy", "release", "idle", "stop"}
BY DEF HasModel, HasEngine, GivesUp, UseKinds

\* Every step of a use keeps the types and the places.
LEMMA UseStepType ==
    ASSUME Typed, Placed, NEW t \in Threads \union Tasks, UseStep(t)
    PROVE  Typed' /\ Placed'
<1> t \in Actors /\ t # Sweeper
  BY RuntimeAssumption DEF Actors
<1> USE RuntimeAssumption DEF At, leases, engines, profile
<1> thr[t] \in ActorState /\ Position(t, thr[t])
  BY DEF Placed
<1>1. ASSUME NEW n \in Names, NEW k \in UseKinds, Begin(t, n, k)
      PROVE  Typed' /\ Placed'
  <2>1. Typed'
    BY <1>1 DEF Begin, Typed
  <2>2. Placed'
    BY <1>1, BeginPlaced, MovePlaced DEF Begin
  <2> QED BY <2>1, <2>2
<1>2. CASE Block(t)
  BY <1>2 DEF Block, Typed, Placed
<1>3. CASE AcquireRead(t)
  <2>1. Typed'
    BY <1>3 DEF AcquireRead, KeepLoop, YieldLoop, Typed
  <2>2. Placed'
    BY <1>3, MovePlaced DEF AcquireRead, UseKinds, ActorState, Position, Working, Freeing
  <2> QED BY <2>1, <2>2
<1>4. CASE ReleaseRead(t)
  <2>1. Typed'
    BY <1>4, RestPlaced DEF ReleaseRead, YieldLoop, Drop, Typed
  <2>2. Placed'
    BY <1>4, MovePlaced, RestPlaced DEF ReleaseRead, ActorState, Position, Working, Freeing
  <2> QED BY <2>1, <2>2
<1>5. CASE FindEngine(t)
  <2>1. Typed'
    BY <1>5 DEF FindEngine, YieldLoop, Typed
  <2>2. Placed'
    <3> DEFINE e == engine[thr[t].n]
    <3>1. At(t, "engine") /\ e \in Engines \union {NoEngine}
      BY <1>5 DEF FindEngine, Typed, Position, Working
    <3>2. \A p \in {"release", "ensure"} :
            LET r == [thr[t] EXCEPT !.eng = e, !.pc = p]
            IN  (p = "ensure" => e # NoEngine) => r \in ActorState /\ Position(t, r)
      BY <3>1 DEF ActorState, Position, Working, Freeing
    <3>3. \A p \in {"create", "return"} :
            LET r == [thr[t] EXCEPT !.pc = p]
            IN  thr[t].kind # "route" => r \in ActorState /\ Position(t, r)
      BY <3>1 DEF ActorState, Position, Working, Freeing
    <3> QED BY <1>5, <3>2, <3>3, MovePlaced DEF FindEngine
  <2> QED BY <2>1, <2>2
<1>6. CASE CreateEngine(t)
  <2>1. Typed'
    BY <1>6 DEF CreateEngine, Free, Typed
  <2>2. Placed'
    BY <1>6, MovePlaced DEF CreateEngine, ActorState, Position, Working, Freeing
  <2> QED BY <2>1, <2>2
<1>7. CASE ReturnEngine(t)
  <2>1. Typed'
    BY <1>7, RestPlaced DEF ReturnEngine, Typed
  <2>2. Placed'
    <3> DEFINE e == engine[thr[t].n]
    <3>1. CASE e = NoEngine
      BY <1>7, <3>1, MovePlaced, RestPlaced DEF ReturnEngine
    <3>2. CASE e # NoEngine
      <4>1. At(t, "return") /\ e \in Engines
        BY <1>7, <3>2 DEF ReturnEngine, Typed, Position, Working
      <4>2. \A p \in {"lease", "ensure"} :
              LET r == [thr[t] EXCEPT !.eng = e, !.pc = p]
              IN  (p = "lease" => thr[t].kind = "use") => r \in ActorState /\ Position(t, r)
        BY <4>1 DEF ActorState, Position, Working, Freeing
      <4> QED BY <1>7, <3>2, <4>2, MovePlaced DEF ReturnEngine
    <3> QED BY <3>1, <3>2
  <2> QED BY <2>1, <2>2
<1>8. CASE GetLlm(t)
  <2>1. Typed'
    BY <1>8, LlmEngine DEF GetLlm, YieldLoop, Typed
  <2>a. \A h \in SUBSET Engines :
           LET r == Admission([[thr[t] EXCEPT !.eng = <<"llm", 1>>] EXCEPT !.getting = TRUE], h)
           IN  r \in ActorState /\ Position(t, r)
    <3> DEFINE q == [[thr[t] EXCEPT !.eng = <<"llm", 1>>] EXCEPT !.getting = TRUE]
    <3>1. At(t, "engine") /\ thr[t].n \in Names /\ <<"llm", 1>> \in Engines
      BY <1>8, LlmEngine DEF GetLlm, Position, Working
    <3>2. LET r == [q EXCEPT !.pc = "load"] IN r \in ActorState /\ Position(t, r)
      BY <3>1 DEF ActorState, Position, Working, Freeing
    <3>3. \A c \in SUBSET Names :
            LET r == [q EXCEPT !.pc = "evict", !.cands = c] IN r \in ActorState /\ Position(t, r)
      BY <3>1 DEF ActorState, Position, Working, Freeing
    <3> QED BY <3>2, <3>3 DEF Admission
  <2>b. LET r == [[thr[t] EXCEPT !.eng = <<"llm", 1>>] EXCEPT !.pc = HasEngine(thr[t].kind)]
        IN  r \in ActorState /\ Position(t, r)
    BY <1>8, LlmEngine DEF GetLlm, HasEngine, UseKinds, ActorState, Position, Working, Freeing
  <2>2. Placed'
    BY <1>8, <2>a, <2>b, MovePlaced DEF GetLlm, Typed
  <2> QED BY <2>1, <2>2
<1>9. CASE Ensure(t)
  <2>1. Typed'
    BY <1>9 DEF Ensure, Typed
  <2>2. Placed'
    <3>1. thr[t].kind \in UseKinds /\ thr[t].n \in Names /\ thr[t].eng \in Engines /\ ~ thr[t].getting
      BY <1>9 DEF Ensure, Position, Working, Freeing
    <3>2. Loads(t) \in {"infer", "busy", "release", "idle", "stop"}
      BY <3>1, NextPlaces DEF Loads
    <3>3. LET r == [thr[t] EXCEPT !.pc = Loads(t)] IN r \in ActorState /\ Position(t, r)
      BY <3>1, <3>2, WorkPlaced
    <3>4. \A h : LET r == Admission(thr[t], h) IN r \in ActorState /\ Position(t, r)
      BY <3>1, WorkPlaced DEF Admission
    <3> QED BY <1>9, <3>3, <3>4, MovePlaced DEF Ensure
  <2> QED BY <2>1, <2>2
<1>10. CASE EvictNext(t)
  <2>1. Typed'
    BY <1>10 DEF EvictNext, TakeWrite, Typed
  <2>2. Placed'
    <3>1. thr[t].kind \in UseKinds /\ thr[t].n \in Names /\ thr[t].eng \in Engines
      BY <1>10 DEF EvictNext, Position, Working
    <3>2. \A m \in Names :
            LET r == [thr[t] EXCEPT !.cands = @ \ {m}] IN r \in ActorState /\ Position(t, r)
      BY <1>10, <3>1 DEF EvictNext, ActorState, Position, Working, Freeing
    <3>3. \A m \in Names :
            LET r == [thr[t] EXCEPT !.cands = @ \ {m}, !.pc = "free", !.victim = m]
            IN  r \in ActorState /\ Position(t, r)
      BY <3>1 DEF ActorState, Position, Working, Freeing
    <3>4. thr[t].cands \subseteq Names
      BY DEF ActorState
    <3> QED BY <1>10, <3>2, <3>3, <3>4, MovePlaced DEF EvictNext
  <2> QED BY <2>1, <2>2
<1>11. CASE Refused(t)
  <2>1. Typed'
    BY <1>11 DEF Refused, GiveUpLoad, Unlock, Typed
  <2>a. LET r == [thr[t] EXCEPT !.getting = FALSE, !.cands = {},
                  !.pc = IF thr[t].getting THEN HasEngine(thr[t].kind)
                         ELSE GivesUp(thr[t].kind)]
        IN  r \in ActorState /\ Position(t, r)
    BY <1>11 DEF Refused, HasEngine, GivesUp, UseKinds, ActorState, Position, Working, Freeing
  <2>2. Placed'
    BY <1>11, <2>a, MovePlaced DEF Refused, GiveUpLoad
  <2> QED BY <2>1, <2>2
<1>12. CASE LoadFails(t)
  <2>1. Typed'
    BY <1>12 DEF LoadFails, GiveUpLoad, Unlock, Typed
  <2>a. LET r == [thr[t] EXCEPT !.getting = FALSE, !.cands = {},
                  !.pc = IF thr[t].getting THEN HasEngine(thr[t].kind)
                         ELSE GivesUp(thr[t].kind)]
        IN  r \in ActorState /\ Position(t, r)
    BY <1>12 DEF LoadFails, HasEngine, GivesUp, UseKinds, ActorState, Position, Working, Freeing
  <2>2. Placed'
    BY <1>12, <2>a, MovePlaced DEF LoadFails, GiveUpLoad
  <2> QED BY <2>1, <2>2
<1>13. CASE Load(t)
  <2>1. Typed'
    BY <1>13 DEF Load, Position, Working, Freeing, Typed
  <2>2. Placed'
    <3>1. thr[t].kind \in UseKinds /\ thr[t].n \in Names /\ thr[t].eng \in Engines
      BY <1>13 DEF Load, Position, Working
    <3>2. LET r == [thr[t] EXCEPT !.pc = "report"] IN r \in ActorState /\ Position(t, r)
      BY <3>1, WorkPlaced
    <3> QED BY <1>13, <3>2, MovePlaced DEF Load
  <2> QED BY <2>1, <2>2
<1>14. CASE Report(t)
  <2>1. Typed'
    BY <1>14 DEF Report, Unlock, Position, Working, Freeing, Typed
  <2>a. LET r == [thr[t] EXCEPT !.pc = Loads(t), !.getting = FALSE, !.cands = {}]
        IN  r \in ActorState /\ Position(t, r)
    <3>1. /\ thr[t].kind \in UseKinds /\ thr[t].n \in Names /\ thr[t].eng \in Engines
          /\ t # Sweeper
      BY <1>14 DEF Report, Position, Working, UseKinds
    <3>2. CASE thr[t].getting
      BY <3>1, <3>2 DEF Loads, HasEngine, UseKinds, ActorState, Position, Working, Freeing
    <3>3. CASE ~ thr[t].getting
      BY <3>1, <3>3 DEF Loads, HasModel, UseKinds, ActorState, Position, Working, Freeing
    <3> QED BY <3>2, <3>3
  <2>2. Placed'
    BY <1>14, <2>a, MovePlaced DEF Report
  <2> QED BY <2>1, <2>2
<1>15. CASE Infer(t)
  <2>1. Typed'
    BY <1>15 DEF Infer, Typed
  <2>2. Placed'
    <3>1. thr[t].kind \in UseKinds /\ thr[t].n \in Names /\ thr[t].eng \in Engines /\ ~ thr[t].getting
      BY <1>15 DEF Infer, Position, Working, Freeing
    <3>2. \A p \in {"busy", GivesUp(thr[t].kind)} :
            LET r == [thr[t] EXCEPT !.pc = p] IN r \in ActorState /\ Position(t, r)
      BY <3>1, NextPlaces, WorkPlaced
    <3> QED BY <1>15, <3>2, MovePlaced DEF Infer
  <2> QED BY <2>1, <2>2
<1>16. CASE Answer(t)
  <2>1. Typed'
    BY <1>16 DEF Answer, Unlock, Typed
  <2>2. Placed'
    <3>1. thr[t].kind \in UseKinds /\ thr[t].n \in Names /\ thr[t].eng \in Engines /\ ~ thr[t].getting
      BY <1>16 DEF Answer, Position, Working, Freeing
    <3>2. LET r == [thr[t] EXCEPT !.pc = GivesUp(thr[t].kind)]
          IN  r \in ActorState /\ Position(t, r)
      BY <3>1, NextPlaces, WorkPlaced
    <3> QED BY <1>16, <3>2, MovePlaced DEF Answer
  <2> QED BY <2>1, <2>2
<1>17. CASE Stop(t)
  <2>1. Typed'
    BY <1>17, RestPlaced DEF Stop, Drop, Typed
  <2>2. Placed'
    BY <1>17, MovePlaced, RestPlaced DEF Stop, ActorState, Position, Working, Freeing
  <2> QED BY <2>1, <2>2
<1>18. CASE BeginDrop(t)
  <2>1. Typed'
    BY <1>18 DEF BeginDrop, KeepLoop, Typed
  <2>a. LET r == [Rest EXCEPT !.pc = "drop", !.n = "stt", !.eng = engine["stt"]]
        IN  r \in ActorState /\ Position(t, r)
    BY <1>18 DEF BeginDrop, Typed, Rest, ActorState, Position, Working, Freeing
  <2>2. Placed'
    BY <1>18, <2>a, MovePlaced DEF BeginDrop
  <2> QED BY <2>1, <2>2
<1>19. CASE DropModel(t)
  <2>1. Typed'
    BY <1>19, RestPlaced DEF DropModel, YieldLoop, Typed
  <2>2. Placed'
    BY <1>19, MovePlaced, RestPlaced DEF DropModel, ActorState, Position, Working, Freeing
  <2> QED BY <2>1, <2>2
<1> QED BY <1>1, <1>2, <1>3, <1>4, <1>5, <1>6, <1>7, <1>8, <1>9,
       <1>10, <1>11, <1>12, <1>13, <1>14, <1>15, <1>16, <1>17, <1>18, <1>19 DEF UseStep, UseKinds

\* Every step of a writer does.
LEMMA WriteStepType ==
    ASSUME Typed, Placed, NEW t \in Actors, WriteStep(t)
    PROVE  Typed' /\ Placed'
<1> USE RuntimeAssumption DEF At, leases, engines, profile
<1> thr[t] \in ActorState /\ Position(t, thr[t])
  BY DEF Placed
<1>1. ASSUME NEW n \in Names, NEW k \in {"unload", "select"}, BeginWrite(t, n, k)
      PROVE  Typed' /\ Placed'
  <2>1. Typed'
    BY <1>1 DEF BeginWrite, TakeWrite, KeepLoop, Typed
  <2> t \in Tasks
    BY <1>1 DEF BeginWrite
  <2>2. Placed'
    <3>1. CASE k = "select"
      BY <1>1, <3>1, WritePlaced, MovePlaced DEF BeginWrite
    <3>2. CASE k = "unload"
      BY <1>1, <3>2, WritePlaced, MovePlaced DEF BeginWrite
    <3> QED BY <3>1, <3>2
  <2> QED BY <2>1, <2>2
<1>2. ASSUME NEW n \in Names, NEW k \in {"unload", "select"}, BeginForced(t, n, k)
      PROVE  Typed' /\ Placed'
  <2>1. Typed'
    BY <1>2 DEF BeginForced, Typed
  <2> t \in Tasks /\ t # Sweeper
    BY <1>2, RuntimeAssumption DEF BeginForced
  <2>a. LET r == [Rest EXCEPT !.kind = k, !.victim = n, !.pc = "drain"]
        IN  r \in ActorState /\ Position(t, r)
    BY <1>2 DEF BeginForced, Rest, Actors, ActorState, Position, Working, Freeing
  <2>2. Placed'
    BY <1>2, <2>a, MovePlaced DEF BeginForced
  <2> QED BY <2>1, <2>2
<1>3. CASE Drained(t)
  <2>1. Typed'
    BY <1>3 DEF Drained, TakeWrite, Position, Working, Freeing, Typed
  <2>2. Placed'
    BY <1>3, MovePlaced DEF Drained, ActorState, Position, Working, Freeing
  <2> QED BY <2>1, <2>2
<1>4. CASE DrainTimesOut(t)
  <2>1. Typed'
    BY <1>4, RestPlaced DEF DrainTimesOut, Typed
  <2>2. Placed'
    BY <1>4, MovePlaced, RestPlaced DEF DrainTimesOut, ActorState, Position, Working, Freeing
  <2> QED BY <2>1, <2>2
<1>5. CASE Select(t)
  <2>a. outdated' \in BOOLEAN
    <3>1. (<<"llm", 1>> \in loaded) \in BOOLEAN
      OBVIOUS
    <3> QED BY <1>5, <3>1, Zenon DEF Select, Typed
  <2>1. Typed'
    BY <1>5, <2>a DEF Select, Typed
  <2>2. Placed'
    BY <1>5, MovePlaced, RestPlaced DEF Select, ActorState, Position, Working, Freeing
  <2> QED BY <2>1, <2>2
<1>6. CASE FreeModel(t)
  <2>1. Typed'
    BY <1>6 DEF FreeModel, Typed
  <2>2. Placed'
    BY <1>6, MovePlaced DEF FreeModel, ActorState, Position, Working, Freeing
  <2> QED BY <2>1, <2>2
<1>7. CASE NoteUnloaded(t)
  <2>1. Typed'
    BY <1>7 DEF NoteUnloaded, Typed
  <2>2. Placed'
    BY <1>7, MovePlaced DEF NoteUnloaded, ActorState, Position, Working, Freeing
  <2> QED BY <2>1, <2>2
<1>8. CASE ReleaseWrite(t)
  <2>1. Typed'
    BY <1>8, RestPlaced DEF ReleaseWrite, Typed
  <2>2. Placed'
    BY <1>8, MovePlaced, RestPlaced DEF ReleaseWrite, ActorState, Position, Working, Freeing
  <2> QED BY <2>1, <2>2
<1>9. CASE Forget(t)
  <2>1. Typed'
    BY <1>9, RestPlaced DEF Forget, Typed
  <2>a. t # Sweeper => \A p \in {"load", "evict"} :
           LET r == [thr[t] EXCEPT !.victim = "none", !.pc = p]
           IN  r \in ActorState /\ Position(t, r)
    BY <1>9 DEF Forget, UseKinds, ActorState, Position, Working, Freeing
  <2>2. Placed'
    BY <1>9, <2>a, MovePlaced, RestPlaced DEF Forget
  <2> QED BY <2>1, <2>2
<1> QED BY <1>1, <1>2, <1>3, <1>4, <1>5, <1>6, <1>7, <1>8, <1>9 DEF WriteStep

\* So do the sweep, time and the user.
LEMMA OtherStepType ==
    ASSUME Typed, Placed,
           \/ SweepAcquire \/ SwitchProfile \/ VoiceIdles
           \/ \E n \in Names : SweepCheck(n) \/ Age(n) \/ SetPinned(n)
    PROVE  Typed' /\ Placed'
<1> Sweeper \in Actors
  BY DEF Actors
<1> USE RuntimeAssumption DEF At, leases, engines, profile
<1> thr[Sweeper] \in ActorState /\ Position(Sweeper, thr[Sweeper])
  BY DEF Placed
<1>1. CASE SweepAcquire
  <2>1. Typed'
    BY <1>1, RestPlaced DEF SweepAcquire, TakeWrite, Typed
  <2>2. Placed'
    BY <1>1, MovePlaced, RestPlaced DEF SweepAcquire, ActorState, Position, Working, Freeing
  <2> QED BY <2>1, <2>2
<1>2. CASE SwitchProfile
  BY <1>2 DEF SwitchProfile, Typed, Placed
<1>3. CASE VoiceIdles
  BY <1>3 DEF VoiceIdles, Typed, Placed
<1>4. ASSUME NEW n \in Names, SweepCheck(n)
      PROVE  Typed' /\ Placed'
  <2>1. Typed'
    BY <1>4 DEF SweepCheck, Typed
  <2>2. Placed'
    BY <1>4, SweepPlaced, MovePlaced DEF SweepCheck
  <2> QED BY <2>1, <2>2
<1>5. ASSUME NEW n \in Names, Age(n)
      PROVE  Typed' /\ Placed'
  BY <1>5 DEF Age, Typed, Placed
<1>6. ASSUME NEW n \in Names, SetPinned(n)
      PROVE  Typed' /\ Placed'
  BY <1>6 DEF SetPinned, Typed, Placed
<1> QED BY <1>1, <1>2, <1>3, <1>4, <1>5, <1>6 DEF At

LEMMA NextType == Typed /\ Placed /\ [Next]_vars => Typed' /\ Placed'
<1>1. ASSUME Typed, Placed, UNCHANGED vars PROVE Typed' /\ Placed'
  BY <1>1 DEF vars, Typed, Placed
<1> QED BY <1>1, UseStepType, WriteStepType, OtherStepType DEF Next

LEMMA TypedAlways == Spec => [](Typed /\ Placed)
BY InitType, NextType, PTL DEF Spec

\* Every variable keeps its type, and an actor that loads or infers has an
\* engine in hand: an unload that clears the module global between its test and
\* its return is noticed (server.py ensure_transcriber_initialized,
\* ensure_tts_initialized).
THEOREM TypeOK_Safety == Spec => []TypeOK
BY TypedAlways, TypeFrom, PTL

-----------------------------------------------------------------------------
(* The leases. LeasesAccounted is inductive together with the exclusion of  *)
(* readers and writer. Every step either is Quiet, leaving all leases and    *)
(* everybody's standing alone, or is a step of ExclusiveUse on the           *)
(* coordinator's own readers and writer.                                    *)

Quiet ==
    /\ UNCHANGED <<readers, writer>>
    /\ \A u \in Actors, n \in Names : /\ Using(u, n)' <=> Using(u, n)
                                      /\ Rebuilding(u, n)' <=> Rebuilding(u, n)
SameStand(r, q) ==
   \A n \in Names : /\ InUse(r, n) <=> InUse(q, n)
                    /\ InRebuild(r, n) <=> InRebuild(q, n)
LEMMA GoQuiet ==
    ASSUME Placed, NEW t \in Actors, NEW r, Go(t, r), SameStand(r, thr[t]),
           UNCHANGED <<readers, writer>>
    PROVE  Quiet
BY DEF Placed, Go, Quiet, SameStand, Using, Rebuilding

LEMMA AdmissionStands ==
    ASSUME NEW r \in ActorState, NEW q \in ActorState, NEW held,
           q.kind = r.kind, q.n = r.n, q.victim = r.victim,
           \/ r.pc = "ensure" /\ ~ q.getting
           \/ r.pc = "engine" /\ q.getting
    PROVE  SameStand(Admission(q, held), r)
<1>1. SameStand([q EXCEPT !.pc = "load"], r)
  BY DEF SameStand, InUse, InRebuild, ActorState
<1>2. \A c \in SUBSET Names : SameStand([q EXCEPT !.pc = "evict", !.cands = c], r)
  BY DEF SameStand, InUse, InRebuild, ActorState
<1> QED BY <1>1, <1>2 DEF Admission

LEMMA GetLlmQuiet == ASSUME Placed, NEW t \in Actors, GetLlm(t) PROVE Quiet
<1> USE DEF At, leases, engines, profile
<1> thr \in [Actors -> ActorState] /\ thr[t] \in ActorState /\ Position(t, thr[t])
  BY DEF Placed
<1>1. At(t, "engine") /\ thr[t].n \in Names /\ ~ thr[t].getting /\ thr[t].kind \in UseKinds
  BY DEF GetLlm, Position, Working, Freeing
<1> DEFINE e == <<"llm", 1>>
           q == [[thr[t] EXCEPT !.eng = e] EXCEPT !.getting = TRUE]
           f == [[thr[t] EXCEPT !.eng = e] EXCEPT !.pc = HasEngine(thr[t].kind)]
<1>2. e \in Engines
  BY <1>1, LlmEngine DEF GetLlm
<1>3. q \in ActorState /\ q.kind = thr[t].kind /\ q.n = thr[t].n /\ q.victim = thr[t].victim /\ q.getting
  BY <1>2 DEF ActorState
<1>4. \A h : SameStand(Admission(q, h), thr[t])
  <2> HIDE DEF q
  <2> QED BY <1>1, <1>3, AdmissionStands
<1>5. SameStand(f, thr[t])
  BY <1>1, <1>2 DEF SameStand, InUse, InRebuild, ActorState, HasEngine, UseKinds
<1> QED BY <1>4, <1>5, GoQuiet DEF GetLlm

LEMMA EnsureQuiet == ASSUME Placed, NEW t \in Actors, Ensure(t) PROVE Quiet
<1> USE DEF At, leases, engines, profile
<1> thr \in [Actors -> ActorState] /\ thr[t] \in ActorState /\ Position(t, thr[t])
  BY DEF Placed
<1>1. At(t, "ensure") /\ ~ thr[t].getting /\ thr[t].kind \in UseKinds
  BY DEF Ensure, Position, Working, Freeing
<1>2. \A h : SameStand(Admission(thr[t], h), thr[t])
  BY <1>1, AdmissionStands
<1>3. SameStand([thr[t] EXCEPT !.pc = Loads(t)], thr[t])
  BY <1>1 DEF SameStand, InUse, InRebuild, ActorState, HasModel, Loads, UseKinds
<1> QED BY <1>2, <1>3, GoQuiet DEF Ensure

LEMMA FindEngineQuiet == ASSUME Placed, NEW t \in Actors, FindEngine(t) PROVE Quiet
<1> USE DEF At, leases, engines, profile
<1> thr \in [Actors -> ActorState] /\ thr[t] \in ActorState /\ Position(t, thr[t])
  BY DEF Placed
<1>1. At(t, "engine") /\ ~ thr[t].getting
  BY DEF FindEngine, Position, Working, Freeing
<1> DEFINE e == engine[thr[t].n]
<1>2. thr[t].kind = "route" => \A p \in {"release", "ensure"} : SameStand([thr[t] EXCEPT !.eng = e, !.pc = p], thr[t])
  BY <1>1 DEF SameStand, InUse, InRebuild, ActorState
<1>3. thr[t].kind # "route" => \A p \in {"create", "return"} : SameStand([thr[t] EXCEPT !.pc = p], thr[t])
  BY <1>1 DEF SameStand, InUse, InRebuild, ActorState
<1> QED BY <1>2, <1>3, GoQuiet DEF FindEngine

LEMMA BeginQuiet == ASSUME Placed, NEW t \in Actors, NEW n \in Names, NEW k \in UseKinds, Begin(t, n, k) PROVE Quiet
<1> USE DEF At, leases, engines, profile
<1> thr \in [Actors -> ActorState] /\ thr[t] \in ActorState /\ Position(t, thr[t])
  BY DEF Placed
<1>1. At(t, "idle")
  BY DEF Begin
<1>2. ASSUME NEW p \in {"lease", "engine"}, p = "engine" => k # "route" PROVE SameStand([Rest EXCEPT !.pc = p, !.kind = k, !.n = n], thr[t])
  BY <1>1, <1>2 DEF SameStand, InUse, InRebuild, ActorState, Rest
<1> QED BY <1>2, GoQuiet DEF Begin

Exclusive == \A n \in Names : writer[n] # None => readers[n] = {}
LeaseInv == LeasesAccounted /\ Exclusive
Coordinator == INSTANCE ExclusiveUse
          WITH Runtimes <- Names, Nobody <- None, users <- readers, owner <- writer
LeaseStep == LeaseInv' /\ [Coordinator!Next]_<<readers, writer>>

LEMMA QuietStep == LeaseInv /\ Quiet => LeaseStep
BY DEF LeaseInv, LeasesAccounted, Exclusive, Quiet, LeaseStep

LEMMA AcquireReadLease == ASSUME Typed, Placed, LeaseInv, NEW t \in Actors, AcquireRead(t) PROVE LeaseStep
<1> USE DEF At, leases, engines, profile
<1> DEFINE n == thr[t].n
<1> thr \in [Actors -> ActorState] /\ thr[t] \in ActorState /\ Position(t, thr[t])
  BY DEF Placed
<1>1. n \in Names /\ thr[t].kind \in {"use", "route"} /\ ~ thr[t].getting /\ writer[n] = None
  BY DEF AcquireRead, Position, Working, Freeing
<1>2. readers' = [readers EXCEPT ![n] = @ \union {t}] /\ UNCHANGED writer
  BY DEF AcquireRead
<1>3. \A m \in Names : /\ InUse(thr'[t], m) <=> m = n
                       /\ ~ InUse(thr[t], m)
                       /\ InRebuild(thr'[t], m) <=> InRebuild(thr[t], m)
  BY <1>1 DEF AcquireRead, Go, InUse, InRebuild, ActorState
<1>4. \A u \in Actors \ {t} : thr'[u] = thr[u]
  BY DEF AcquireRead, Go
<1>5. LeaseInv'
  BY <1>1, <1>2, <1>3, <1>4 DEF LeaseInv, LeasesAccounted, Exclusive, Using, Rebuilding, Typed
<1>6. Coordinator!Join(t, n)
  BY <1>1, <1>2 DEF Coordinator!Join
<1> QED BY <1>1, <1>5, <1>6 DEF LeaseStep, Coordinator!Next

LEMMA ReleaseReadLease == ASSUME Typed, Placed, LeaseInv, NEW t \in Actors, ReleaseRead(t) PROVE LeaseStep
<1> USE DEF At, leases, engines, profile
<1> DEFINE n == thr[t].n
<1> thr \in [Actors -> ActorState] /\ thr[t] \in ActorState /\ Position(t, thr[t])
  BY DEF Placed
<1>1. n \in Names
  BY DEF ReleaseRead, Position, Working
<1>2. readers' = [readers EXCEPT ![n] = @ \ {t}] /\ UNCHANGED writer
  BY DEF ReleaseRead
<1>3. \A m \in Names : /\ ~ InUse(thr'[t], m)
                       /\ InUse(thr[t], m) => m = n
                       /\ InRebuild(thr'[t], m) <=> InRebuild(thr[t], m)
  BY DEF ReleaseRead, Go, InUse, InRebuild, ActorState, Rest
<1>4. \A u \in Actors \ {t} : thr'[u] = thr[u]
  BY DEF ReleaseRead, Go
<1>5. LeaseInv'
  BY <1>1, <1>2, <1>3, <1>4 DEF LeaseInv, LeasesAccounted, Exclusive, Using, Rebuilding, Typed
<1>6. Coordinator!Leave(t, n)
  BY <1>2 DEF Coordinator!Leave
<1> QED BY <1>1, <1>5, <1>6 DEF LeaseStep, Coordinator!Next

LEMMA TakesWrite == ASSUME Typed, Placed, LeaseInv, NEW t \in Actors, NEW n \in Names,
   TakeWrite(t, n), ~ Busy(n), UNCHANGED readers, NEW r, Go(t, r),
   \A m \in Names : /\ InUse(r, m) <=> InUse(thr[t], m)
                    /\ InRebuild(r, m) <=> m = n
                    /\ ~ InRebuild(thr[t], m)
   PROVE LeaseStep
<1> DEFINE q == thr'[t]
<1>1. \A m \in Names : /\ InUse(thr'[t], m) <=> InUse(thr[t], m)
                       /\ InRebuild(thr'[t], m) <=> m = n
                       /\ ~ InRebuild(thr[t], m)
  BY DEF Placed, Go
<1>2. \A u \in Actors \ {t}, m \in Names : /\ InUse(thr'[u], m) <=> InUse(thr[u], m)
                                           /\ InRebuild(thr'[u], m) <=> InRebuild(thr[u], m)
  BY DEF Placed, Go
<1>3. t # None /\ None \notin Actors
  BY RuntimeAssumption DEF Actors
<1>5. LeaseInv'
  <2>1. ASSUME NEW m \in Names PROVE readers'[m] = {u \in Actors : InUse(thr'[u], m)}
    <3>1. \A u \in Actors : InUse(thr'[u], m) <=> InUse(thr[u], m)
      BY <2>1, <1>1, <1>2
    <3> QED BY <3>1 DEF LeaseInv, LeasesAccounted, Using, Rebuilding
  <2>2. ASSUME NEW m \in Names, NEW u \in Actors PROVE writer'[m] = u <=> InRebuild(thr'[u], m)
    <3>1. writer' = [writer EXCEPT ![n] = t] /\ writer \in [Names -> Actors \union {None}]
      BY DEF Typed, TakeWrite
    <3>2. writer[m] = u <=> InRebuild(thr[u], m)
      BY <2>2 DEF LeaseInv, LeasesAccounted, Using, Rebuilding
    <3>3. CASE u = t
      BY <2>2, <3>1, <3>2, <3>3, <1>1, <1>3
    <3>4. CASE u # t
      BY <2>2, <3>1, <3>2, <3>4, <1>2, <1>3 DEF Busy
    <3> QED BY <3>3, <3>4
  <2>3. Exclusive'
    BY DEF LeaseInv, Exclusive, Typed, TakeWrite, Busy
  <2> QED BY <2>1, <2>2, <2>3 DEF LeaseInv, LeasesAccounted, Using, Rebuilding
<1>6. Coordinator!Seize(t, n)
  BY DEF Coordinator!Seize, TakeWrite, Busy
<1> QED BY <1>5, <1>6 DEF LeaseStep, Coordinator!Next

LEMMA GivesWrite == ASSUME Typed, Placed, LeaseInv, NEW t \in Actors, NEW n \in Names,
   writer' = [writer EXCEPT ![n] = None], UNCHANGED readers, NEW r, Go(t, r),
   InRebuild(thr[t], n),
   \A m \in Names : /\ InUse(r, m) <=> InUse(thr[t], m)
                    /\ ~ InRebuild(r, m)
                    /\ InRebuild(thr[t], m) => m = n
   PROVE LeaseStep
<1>1. \A m \in Names : /\ InUse(thr'[t], m) <=> InUse(thr[t], m)
                       /\ InRebuild(thr[t], m) <=> m = n
                       /\ ~ InRebuild(thr'[t], m)
  BY DEF Placed, Go
<1>2. \A u \in Actors \ {t}, m \in Names : /\ InUse(thr'[u], m) <=> InUse(thr[u], m)
                                           /\ InRebuild(thr'[u], m) <=> InRebuild(thr[u], m)
  BY DEF Placed, Go
<1>3. t # None /\ None \notin Actors
  BY RuntimeAssumption DEF Actors
<1>4. writer[n] = t
  BY <1>1 DEF LeaseInv, LeasesAccounted, Using, Rebuilding
<1>5. LeaseInv'
  <2>1. ASSUME NEW m \in Names PROVE readers'[m] = {u \in Actors : InUse(thr'[u], m)}
    <3>1. \A u \in Actors : InUse(thr'[u], m) <=> InUse(thr[u], m)
      BY <2>1, <1>1, <1>2
    <3> QED BY <3>1 DEF LeaseInv, LeasesAccounted, Using, Rebuilding
  <2>2. ASSUME NEW m \in Names, NEW u \in Actors PROVE writer'[m] = u <=> InRebuild(thr'[u], m)
    <3>1. writer' = [writer EXCEPT ![n] = None] /\ writer \in [Names -> Actors \union {None}]
      BY DEF Typed
    <3>2. writer[m] = u <=> InRebuild(thr[u], m)
      BY <2>2 DEF LeaseInv, LeasesAccounted, Using, Rebuilding
    <3>3. CASE u = t
      BY <2>2, <3>1, <3>2, <3>3, <1>1, <1>3, <1>4
    <3>4. CASE u # t
      BY <2>2, <3>1, <3>2, <3>4, <1>2, <1>3, <1>4
    <3> QED BY <3>3, <3>4
  <2>3. Exclusive'
    BY DEF LeaseInv, Exclusive, Typed
  <2> QED BY <2>1, <2>2, <2>3 DEF LeaseInv, LeasesAccounted, Using, Rebuilding
<1>6. Coordinator!GiveBack(t, n)
  BY <1>4 DEF Coordinator!GiveBack
<1> QED BY <1>5, <1>6 DEF LeaseStep, Coordinator!Next

\* The other steps that leave every lease alone.
LEMMA OtherQuiet ==
    ASSUME Placed, NEW t \in Actors,
           \/ CreateEngine(t) \/ ReturnEngine(t) \/ Refused(t) \/ LoadFails(t)
           \/ Load(t) \/ Report(t) \/ Infer(t) \/ Answer(t)
           \/ Stop(t) \/ BeginDrop(t) \/ DropModel(t) \/ DrainTimesOut(t)
           \/ FreeModel(t) \/ NoteUnloaded(t) \/ Forget(t)
    PROVE  Quiet
<1> USE DEF At, Go, leases, engines, profile
<1> thr \in [Actors -> ActorState] /\ thr[t] \in ActorState /\ Position(t, thr[t])
  BY DEF Placed
<1>1. CASE CreateEngine(t)
  BY <1>1 DEF CreateEngine, Position, Working, Freeing,
     UseKinds, ActorState, Using, Rebuilding, InUse, InRebuild, Quiet
<1>2. CASE ReturnEngine(t)
  BY <1>2 DEF ReturnEngine, Rest, Position, Working, Freeing,
     UseKinds, ActorState, Using, Rebuilding, InUse, InRebuild, Quiet
<1>3. CASE Refused(t)
  BY <1>3 DEF Refused, GiveUpLoad, HasEngine, GivesUp, Position, Working, Freeing,
     UseKinds, ActorState, Using, Rebuilding, InUse, InRebuild, Quiet
<1>4. CASE LoadFails(t)
  BY <1>4 DEF LoadFails, GiveUpLoad, HasEngine, GivesUp, Position, Working, Freeing,
     UseKinds, ActorState, Using, Rebuilding, InUse, InRebuild, Quiet
<1>5. CASE Load(t)
  BY <1>5 DEF Load, Position, Working, Freeing,
     UseKinds, ActorState, Using, Rebuilding, InUse, InRebuild, Quiet
<1>6. CASE Report(t)
  BY <1>6 DEF Report, Loads, HasEngine, HasModel, Position, Working, Freeing,
     UseKinds, ActorState, Using, Rebuilding, InUse, InRebuild, Quiet
<1>7. CASE Infer(t)
  BY <1>7 DEF Infer, GivesUp, Position, Working, Freeing,
     UseKinds, ActorState, Using, Rebuilding, InUse, InRebuild, Quiet
<1>8. CASE Answer(t)
  BY <1>8 DEF Answer, GivesUp, Position, Working, Freeing,
     UseKinds, ActorState, Using, Rebuilding, InUse, InRebuild, Quiet
<1>9. CASE Stop(t)
  BY <1>9 DEF Stop, Rest, Position, Working, Freeing,
     UseKinds, ActorState, Using, Rebuilding, InUse, InRebuild, Quiet
<1>10. CASE BeginDrop(t)
  BY <1>10 DEF BeginDrop, Rest, Position, Working, Freeing,
     UseKinds, ActorState, Using, Rebuilding, InUse, InRebuild, Quiet
<1>11. CASE DropModel(t)
  BY <1>11 DEF DropModel, Rest, Position, Working, Freeing,
     UseKinds, ActorState, Using, Rebuilding, InUse, InRebuild, Quiet
<1>12. CASE DrainTimesOut(t)
  BY <1>12 DEF DrainTimesOut, Rest, Position, Working, Freeing,
     UseKinds, ActorState, Using, Rebuilding, InUse, InRebuild, Quiet
<1>13. CASE FreeModel(t)
  BY <1>13 DEF FreeModel, Position, Working, Freeing,
     UseKinds, ActorState, Using, Rebuilding, InUse, InRebuild, Quiet
<1>14. CASE NoteUnloaded(t)
  BY <1>14 DEF NoteUnloaded, Position, Working, Freeing,
     UseKinds, ActorState, Using, Rebuilding, InUse, InRebuild, Quiet
<1>15. CASE Forget(t)
  BY <1>15 DEF Forget, Rest, Position, Working, Freeing,
     UseKinds, ActorState, Using, Rebuilding, InUse, InRebuild, Quiet
<1> QED BY <1>1, <1>2, <1>3, <1>4, <1>5, <1>6, <1>7, <1>8,
           <1>9, <1>10, <1>11, <1>12, <1>13, <1>14, <1>15

\* An eviction, the sweep and the routes take the write lease of a free runtime.
LEMMA EvictNextLease ==
    ASSUME Typed, Placed, LeaseInv, NEW t \in Actors, EvictNext(t)
    PROVE  LeaseStep
<1> USE DEF At, leases, engines, profile
<1> thr \in [Actors -> ActorState] /\ thr[t] \in ActorState /\ Position(t, thr[t])
  BY DEF Placed
<1>1. PICK m \in thr[t].cands :
        \/ /\ Busy(m) /\ Go(t, [thr[t] EXCEPT !.cands = @ \ {m}])
           /\ UNCHANGED writer
        \/ /\ ~ Busy(m) /\ TakeWrite(t, m)
           /\ Go(t, [thr[t] EXCEPT !.cands = @ \ {m}, !.pc = "free", !.victim = m])
  BY DEF EvictNext
<1>2. m \in Names /\ thr[t].pc = "evict" /\ UNCHANGED readers
  BY DEF EvictNext, ActorState
<1>3. SameStand([thr[t] EXCEPT !.cands = @ \ {m}], thr[t])
  BY DEF SameStand, InUse, InRebuild, ActorState
<1>4. LET r == [thr[t] EXCEPT !.cands = @ \ {m}, !.pc = "free", !.victim = m]
      IN  \A o \in Names : /\ InUse(r, o) <=> InUse(thr[t], o)
                           /\ InRebuild(r, o) <=> o = m
                           /\ ~ InRebuild(thr[t], o)
  BY <1>2 DEF InUse, InRebuild, ActorState
<1>5. CASE Busy(m)
  BY <1>1, <1>2, <1>3, <1>5, GoQuiet, QuietStep
<1>6. CASE ~ Busy(m)
  BY <1>1, <1>2, <1>4, <1>6, TakesWrite
<1> QED BY <1>5, <1>6

LEMMA SweepAcquireLease ==
    ASSUME Typed, Placed, LeaseInv, SweepAcquire
    PROVE  LeaseStep
<1> USE DEF At, leases, engines, profile
<1> DEFINE t == Sweeper
           n == thr[t].victim
           r == [thr[t] EXCEPT !.pc = "free"]
<1> t \in Actors
  BY DEF Actors
<1> thr \in [Actors -> ActorState] /\ thr[t] \in ActorState /\ Position(t, thr[t])
  BY DEF Placed
<1>1. n \in Names /\ thr[t].pc = "sweep" /\ UNCHANGED readers
  BY DEF SweepAcquire, Position
<1>2. SameStand(Rest, thr[t])
  BY <1>1 DEF SameStand, InUse, InRebuild, ActorState, Rest
<1>3. \A o \in Names : /\ InUse(r, o) <=> InUse(thr[t], o)
                       /\ InRebuild(r, o) <=> o = n
                       /\ ~ InRebuild(thr[t], o)
  BY <1>1 DEF InUse, InRebuild, ActorState, Position
<1>4. CASE Busy(n)
  BY <1>1, <1>2, <1>4, GoQuiet, QuietStep DEF SweepAcquire
<1>5. CASE ~ Busy(n)
  BY <1>1, <1>3, <1>5, TakesWrite DEF SweepAcquire
<1> QED BY <1>4, <1>5

LEMMA BeginWriteLease ==
    ASSUME Typed, Placed, LeaseInv, NEW t \in Actors, NEW n \in Names,
           NEW k \in {"unload", "select"}, BeginWrite(t, n, k)
    PROVE  LeaseStep
<1> USE DEF At, leases, engines, profile
<1> DEFINE r == [Rest EXCEPT !.kind = k, !.victim = n,
                 !.pc = IF k = "select" THEN "select" ELSE "free"]
<1>1. \A o \in Names : /\ InUse(r, o) <=> InUse(thr[t], o)
                       /\ InRebuild(r, o) <=> o = n
                       /\ ~ InRebuild(thr[t], o)
  BY DEF BeginWrite, InUse, InRebuild, Rest
<1> QED BY <1>1, TakesWrite DEF BeginWrite

LEMMA BeginForcedQuiet ==
    ASSUME Placed, NEW t \in Actors, NEW n \in Names,
           NEW k \in {"unload", "select"}, BeginForced(t, n, k)
    PROVE  Quiet
<1> USE DEF At, leases, engines, profile
<1>1. SameStand([Rest EXCEPT !.kind = k, !.victim = n, !.pc = "drain"], thr[t])
  BY DEF BeginForced, SameStand, InUse, InRebuild, Rest
<1> QED BY <1>1, GoQuiet DEF BeginForced

LEMMA DrainedLease ==
    ASSUME Typed, Placed, LeaseInv, NEW t \in Actors, Drained(t)
    PROVE  LeaseStep
<1> USE DEF At, leases, engines, profile
<1> DEFINE n == thr[t].victim
           r == [thr[t] EXCEPT !.pc = IF thr[t].kind = "select" THEN "select" ELSE "free"]
<1> thr \in [Actors -> ActorState] /\ thr[t] \in ActorState /\ Position(t, thr[t])
  BY DEF Placed
<1>1. n \in Names /\ thr[t].pc = "drain" /\ thr[t].kind \in {"unload", "select"}
  BY DEF Drained, Position
<1>2. \A o \in Names : /\ InUse(r, o) <=> InUse(thr[t], o)
                       /\ InRebuild(r, o) <=> o = n
                       /\ ~ InRebuild(thr[t], o)
  BY <1>1 DEF InUse, InRebuild, ActorState
<1> QED BY <1>1, <1>2, TakesWrite DEF Drained

\* release_write and the end of a selection give it back.
LEMMA ReleaseWriteLease ==
    ASSUME Typed, Placed, LeaseInv, NEW t \in Actors, ReleaseWrite(t)
    PROVE  LeaseStep
<1> USE DEF At, leases, engines, profile
<1> DEFINE n == thr[t].victim
           r == [thr[t] EXCEPT !.pc = "forget"]
<1> thr \in [Actors -> ActorState] /\ thr[t] \in ActorState /\ Position(t, thr[t])
  BY DEF Placed
<1>1. n \in Names /\ thr[t].pc = "resume"
  BY DEF ReleaseWrite, Position, Freeing
<1>2. InRebuild(thr[t], n)
  BY <1>1 DEF InRebuild
<1>3. thr[t].kind = "unload" =>
        \A o \in Names : /\ InUse(Rest, o) <=> InUse(thr[t], o)
                         /\ ~ InRebuild(Rest, o)
                         /\ InRebuild(thr[t], o) => o = n
  BY DEF InUse, InRebuild, Rest
<1>4. \A o \in Names : /\ InUse(r, o) <=> InUse(thr[t], o)
                       /\ ~ InRebuild(r, o)
                       /\ InRebuild(thr[t], o) => o = n
  BY <1>1 DEF InUse, InRebuild, ActorState
<1>5. CASE thr[t].kind = "unload"
  BY <1>1, <1>2, <1>3, <1>5, GivesWrite DEF ReleaseWrite
<1>6. CASE thr[t].kind # "unload"
  BY <1>1, <1>2, <1>4, <1>6, GivesWrite DEF ReleaseWrite
<1> QED BY <1>5, <1>6

LEMMA SelectLease ==
    ASSUME Typed, Placed, LeaseInv, NEW t \in Actors, Select(t)
    PROVE  LeaseStep
<1> USE DEF At, leases, engines, profile
<1> DEFINE n == thr[t].victim
<1> thr \in [Actors -> ActorState] /\ thr[t] \in ActorState /\ Position(t, thr[t])
  BY DEF Placed
<1>1. n \in Names /\ thr[t].pc = "select" /\ thr[t].kind \in {"unload", "select"}
  BY DEF Select, Position
<1>2. InRebuild(thr[t], n)
  BY <1>1 DEF InRebuild
<1>3. \A o \in Names : /\ InUse(Rest, o) <=> InUse(thr[t], o)
                       /\ ~ InRebuild(Rest, o)
                       /\ InRebuild(thr[t], o) => o = n
  BY <1>1 DEF InUse, InRebuild, Rest
<1> QED BY <1>1, <1>2, <1>3, GivesWrite DEF Select

LEMMA NextLease ==
    ASSUME Typed, Placed, LeaseInv, [Next]_vars
    PROVE  LeaseStep
<1> USE DEF leases, engines, profile
<1>1. CASE UNCHANGED vars
  BY <1>1, QuietStep DEF vars, Quiet, Using, Rebuilding
<1>2. ASSUME NEW t \in Threads \union Tasks, UseStep(t) PROVE LeaseStep
  <2> t \in Actors
    BY <1>2 DEF Actors
  <2>1. CASE \E n \in Names, k \in UseKinds : Begin(t, n, k)
    BY <2>1, BeginQuiet, QuietStep
  <2>2. CASE Block(t)
    BY <2>2, QuietStep DEF Block, Quiet, Using, Rebuilding
  <2>3. CASE AcquireRead(t)
    BY <2>3, AcquireReadLease
  <2>4. CASE ReleaseRead(t)
    BY <2>4, ReleaseReadLease
  <2>5. CASE FindEngine(t) \/ GetLlm(t) \/ Ensure(t)
    BY <2>5, FindEngineQuiet, GetLlmQuiet, EnsureQuiet, QuietStep
  <2>6. CASE EvictNext(t)
    BY <2>6, EvictNextLease
  <2> QED BY <1>2, <2>1, <2>2, <2>3, <2>4, <2>5, <2>6, OtherQuiet, QuietStep
             DEF UseStep, UseKinds
<1>3. ASSUME NEW t \in Actors, WriteStep(t) PROVE LeaseStep
  BY <1>3, BeginWriteLease, BeginForcedQuiet, DrainedLease, ReleaseWriteLease,
     SelectLease, OtherQuiet, QuietStep DEF WriteStep
<1>4. ASSUME NEW n \in Names, SweepCheck(n) PROVE LeaseStep
  <2>1. Sweeper \in Actors
    BY DEF Actors
  <2>2. SameStand([Rest EXCEPT !.pc = "sweep", !.victim = n], thr[Sweeper])
    BY <1>4 DEF SweepCheck, At, SameStand, InUse, InRebuild, Rest
  <2> QED BY <1>4, <2>1, <2>2, GoQuiet, QuietStep DEF SweepCheck
<1>5. CASE SwitchProfile \/ VoiceIdles \/ \E n \in Names : Age(n) \/ SetPinned(n)
  BY <1>5, QuietStep DEF SwitchProfile, VoiceIdles, Age, SetPinned, Quiet, Using, Rebuilding
<1> QED BY <1>1, <1>2, <1>3, <1>4, <1>5, SweepAcquireLease DEF Next

LEMMA InitLease == Init => LeaseInv
BY RuntimeAssumption DEF Init, LeaseInv, LeasesAccounted, Exclusive, Using, Rebuilding,
   InUse, InRebuild, Rest, Actors

LEMMA LeaseAlways == Spec => [](Typed /\ Placed /\ LeaseInv)
<1>1. Typed /\ Placed /\ LeaseInv /\ [Next]_vars => (Typed /\ Placed /\ LeaseInv)'
  BY NextType, NextLease DEF LeaseStep
<1> QED BY <1>1, InitType, InitLease, PTL DEF Spec

\* Every read and write lease is returned exactly once, on the runtime it was
\* taken for, by whichever path its holder leaves (read_lease, write_lease,
\* _evict_component, check_idle_eviction and their callers).
THEOREM LeasesAccounted_Safety == Spec => []LeasesAccounted
<1>1. LeaseInv => LeasesAccounted
  BY DEF LeaseInv
<1> QED BY <1>1, LeaseAlways, PTL

LEMMA Mapping ==
    ASSUME Typed, LeaseInv PROVE using = readers /\ rebuilder = writer
<1>1. using = readers
  BY DEF using, Typed, LeaseInv, LeasesAccounted
<1>2. ASSUME NEW n \in Names PROVE rebuilder[n] = writer[n]
  <2>1. \A t \in Actors : writer[n] = t <=> Rebuilding(t, n)
    BY <1>2 DEF LeaseInv, LeasesAccounted
  <2>2. writer[n] \in Actors \union {None}
    BY <1>2 DEF Typed
  <2>3. CASE \E t \in Actors : Rebuilding(t, n)
    BY <1>2, <2>1, <2>3 DEF rebuilder
  <2>4. CASE ~ \E t \in Actors : Rebuilding(t, n)
    BY <1>2, <2>1, <2>2, <2>4 DEF rebuilder
  <2> QED BY <2>3, <2>4
<1>3. rebuilder = writer
  BY <1>2 DEF rebuilder, Typed
<1> QED BY <1>1, <1>3

\* Inference and destruction of a model exclude each other, whoever does them:
\* the positions of all threads, coroutines and sweeps implement ExclusiveUse
\* (model_runtime_coordinator.py, lines 8-16 and 59-107).
THEOREM LeaseKept_Refinement == Spec => LeaseKept
<1>1. Init => Lease!Init
  BY InitType, InitLease, Mapping DEF Init, Lease!Init
<1>2. ASSUME Typed, Placed, LeaseInv, [Next]_vars
      PROVE  [Lease!Next]_<<using, rebuilder>>
  <2>1. LeaseStep /\ Typed'
    BY <1>2, NextLease, NextType
  <2>2. using = readers /\ rebuilder = writer
    BY <1>2, Mapping
  <2>3. using' = readers' /\ rebuilder' = writer'
    <3>1. Typed' /\ LeaseInv' => (using = readers /\ rebuilder = writer)'
      BY Mapping, PTL
    <3> QED BY <2>1, <3>1 DEF LeaseStep
  <2> QED BY <2>1, <2>2, <2>3
      DEF LeaseStep, Coordinator!Next, Coordinator!Join, Coordinator!Leave,
          Coordinator!Seize, Coordinator!GiveBack,
          Lease!Next, Lease!Join, Lease!Leave, Lease!Seize, Lease!GiveBack
<1> QED BY <1>1, <1>2, LeaseAlways, PTL DEF Spec, LeaseKept, Lease!Spec

-----------------------------------------------------------------------------
(* A model in hand is spared.                                               *)

\* Whoever has an engine has one of its own runtime, and whoever loads, or keeps
\* or answers from, a speech or voice engine has its lock.
Locking(r) == \/ r.pc \in {"evict", "load", "report", "busy"}
              \/ r.pc \in Freeing /\ r.kind \in UseKinds
Owning(r) == r.eng # NoEngine => r.eng[1] = r.n
EngineInv ==
    /\ \A n \in Names : engine[n] # NoEngine => engine[n][1] = n
    /\ \A t \in Actors : Owning(thr[t])
    /\ \A t \in Actors : Locking(thr[t]) /\ thr[t].n # "llm" => lock[thr[t].eng] = t

LEMMA InitEngine == Init => EngineInv
BY DEF Init, EngineInv, Owning, Locking, Rest, Freeing

\* A step of t that takes no lock from another and leaves it with what it needs.
Carries(t) ==
    /\ \A n \in Names : engine'[n] # NoEngine => engine'[n][1] = n
    /\ \A u \in Actors \ {t} : thr'[u] = thr[u]
    /\ \A u \in Actors \ {t}, e \in Engines : lock[e] = u => lock'[e] = u
    /\ Owning(thr'[t])
    /\ Locking(thr'[t]) /\ thr'[t].n # "llm" => lock'[thr'[t].eng] = t

LEMMA LockingEngine ==
    ASSUME Placed, NEW t \in Actors, Locking(thr[t])
    PROVE  thr[t].eng \in Engines /\ thr[t].n \in Names
BY DEF Placed, Position, Locking, Freeing, UseKinds, Working

LEMMA CarriesInv ==
    ASSUME Placed, EngineInv, NEW t \in Actors, Carries(t) PROVE EngineInv'
<1>1. ASSUME NEW u \in Actors PROVE Owning(thr'[u])
  BY <1>1 DEF Carries, EngineInv
<1>2. ASSUME NEW u \in Actors, Locking(thr'[u]), thr'[u].n # "llm"
      PROVE  lock'[thr'[u].eng] = u
  <2>1. CASE u = t
    BY <1>2, <2>1 DEF Carries
  <2>2. CASE u # t
    <3>1. thr'[u] = thr[u]
      BY <2>2 DEF Carries
    <3>2. lock[thr[u].eng] = u /\ thr[u].eng \in Engines
      BY <1>2, <3>1, LockingEngine DEF EngineInv
    <3> QED BY <2>2, <3>1, <3>2 DEF Carries
  <2> QED BY <2>1, <2>2
<1> QED BY <1>1, <1>2 DEF EngineInv, Carries

\* A move that keeps the engine in hand and begins nothing that needs a lock, or
\* drops everything.
Keeping(r, q) ==
    \/ ~ Locking(r) /\ r.eng = NoEngine
    \/ r.eng = q.eng /\ r.n = q.n /\ (Locking(r) => Locking(q))
LEMMA GoCarries ==
    ASSUME Placed, EngineInv, NEW t \in Actors, NEW r, Go(t, r), Keeping(r, thr[t]),
           UNCHANGED lock,
           \A n \in Names : engine'[n] \in {engine[n], NoEngine}
    PROVE  Carries(t)
<1>1. thr'[t] = r /\ \A u \in Actors \ {t} : thr'[u] = thr[u]
  BY DEF Go, Placed
<1>2. \A n \in Names : engine'[n] # NoEngine => engine'[n][1] = n
  BY DEF EngineInv
<1>3. Owning(r) /\ (Locking(r) /\ r.n # "llm" => lock[r.eng] = t)
  BY DEF Keeping, EngineInv, Owning
<1> QED BY <1>1, <1>2, <1>3 DEF Carries

LEMMA RestKept == \A q : Keeping(Rest, q)
BY DEF Keeping, Locking, Freeing, Rest

\* The steps that touch neither locks nor the engine in hand.
LEMMA PlainCarries ==
    ASSUME Placed, EngineInv, NEW t \in Actors,
           \/ \E n \in Names, k \in UseKinds : Begin(t, n, k)
           \/ AcquireRead(t) \/ ReleaseRead(t) \/ Load(t) \/ Stop(t) \/ EvictNext(t)
           \/ DropModel(t) \/ NoteUnloaded(t) \/ ReleaseWrite(t) \/ Forget(t)
           \/ FreeModel(t) \/ Select(t) \/ Drained(t) \/ DrainTimesOut(t)
           \/ \E n \in Names, k \in {"unload", "select"} : BeginWrite(t, n, k) \/ BeginForced(t, n, k)
    PROVE  Carries(t)
<1> USE DEF At, leases, engines, profile
<1>0. thr[t] \in ActorState /\ Position(t, thr[t])
  BY DEF Placed
<1>1. CASE \E n \in Names, k \in UseKinds : Begin(t, n, k)
  <2>1. PICK n \in Names, k \in UseKinds : Begin(t, n, k)
    BY <1>1
  <2> DEFINE r == [Rest EXCEPT !.pc = IF k = "route" THEN "lease" ELSE "engine", !.kind = k, !.n = n]
  <2>2. Keeping(r, thr[t])
    BY DEF Keeping, Locking, Freeing, Rest
  <2> QED BY <2>1, <2>2, GoCarries DEF Begin
<1>2. CASE AcquireRead(t)
  <2>1. ASSUME NEW p \in {"engine", "ensure"} PROVE Keeping([thr[t] EXCEPT !.pc = p], thr[t])
    BY <1>0, <2>1 DEF Keeping, Locking, Freeing, ActorState
  <2> QED BY <1>2, <2>1, GoCarries DEF AcquireRead
<1>3. CASE ReleaseRead(t) \/ Stop(t) \/ DropModel(t) \/ DrainTimesOut(t) \/ Select(t)
  BY <1>3, GoCarries, RestKept DEF ReleaseRead, Stop, DropModel, DrainTimesOut, Select
<1>4. CASE Load(t)
  <2>1. Keeping([thr[t] EXCEPT !.pc = "report"], thr[t])
    BY <1>0, <1>4 DEF Load, Keeping, Locking, Freeing, ActorState
  <2> QED BY <1>4, <2>1, GoCarries DEF Load
<1>5. CASE EvictNext(t)
  <2>1. PICK m \in thr[t].cands :
          \/ Go(t, [thr[t] EXCEPT !.cands = @ \ {m}])
          \/ Go(t, [thr[t] EXCEPT !.cands = @ \ {m}, !.pc = "free", !.victim = m])
    BY <1>5 DEF EvictNext
  <2>2. /\ Keeping([thr[t] EXCEPT !.cands = @ \ {m}], thr[t])
        /\ Keeping([thr[t] EXCEPT !.cands = @ \ {m}, !.pc = "free", !.victim = m], thr[t])
    BY <1>0, <1>5 DEF EvictNext, Keeping, Locking, ActorState
  <2> QED BY <1>5, <2>1, <2>2, GoCarries DEF EvictNext
<1>6. CASE NoteUnloaded(t)
  <2>1. Keeping([thr[t] EXCEPT !.pc = "resume"], thr[t])
    BY <1>0, <1>6 DEF NoteUnloaded, Keeping, Locking, Freeing, ActorState
  <2> QED BY <1>6, <2>1, GoCarries DEF NoteUnloaded
<1>7. CASE ReleaseWrite(t)
  <2>1. Keeping([thr[t] EXCEPT !.pc = "forget"], thr[t])
    BY <1>0, <1>7 DEF ReleaseWrite, Keeping, Locking, Freeing, ActorState
  <2> QED BY <1>7, <2>1, GoCarries, RestKept DEF ReleaseWrite
<1>8. CASE Forget(t)
  <2>1. CASE t = Sweeper
    BY <1>8, <2>1, GoCarries, RestKept DEF Forget
  <2>2. CASE t # Sweeper
    <3>1. Locking(thr[t])
      BY <1>0, <1>8, <2>2 DEF Forget, Position, Locking, Freeing
    <3>2. ASSUME NEW p \in {"load", "evict"}
          PROVE  Keeping([thr[t] EXCEPT !.victim = "none", !.pc = p], thr[t])
      BY <1>0, <3>1, <3>2 DEF Keeping, ActorState
    <3> QED BY <1>8, <2>2, <3>2, GoCarries DEF Forget
  <2> QED BY <2>1, <2>2
<1>9. CASE FreeModel(t)
  <2>1. Keeping([thr[t] EXCEPT !.pc = "note"], thr[t])
    BY <1>0, <1>9 DEF FreeModel, Keeping, Locking, Freeing, ActorState
  <2>2. \A n \in Names : engine'[n] \in {engine[n], NoEngine}
    BY <1>9 DEF FreeModel
  <2> QED BY <1>9, <2>1, <2>2, GoCarries DEF FreeModel
<1>10. CASE Drained(t)
  <2>1. ASSUME NEW p \in {"select", "free"} PROVE Keeping([thr[t] EXCEPT !.pc = p], thr[t])
    <3>1. thr[t].kind \notin UseKinds
      BY <1>0, <1>10 DEF Drained, Position, UseKinds
    <3> QED BY <1>0, <2>1, <3>1 DEF Keeping, Locking, Freeing, ActorState
  <2> QED BY <1>10, <2>1, GoCarries DEF Drained
<1>11. CASE \E n \in Names, k \in {"unload", "select"} : BeginWrite(t, n, k) \/ BeginForced(t, n, k)
  <2>1. PICK n \in Names, k \in {"unload", "select"} : BeginWrite(t, n, k) \/ BeginForced(t, n, k)
    BY <1>11
  <2>2. ASSUME NEW p \in {"select", "free", "drain"}
        PROVE  Keeping([Rest EXCEPT !.kind = k, !.victim = n, !.pc = p], thr[t])
    BY <2>2 DEF Keeping, Locking, Freeing, UseKinds, Rest
  <2> QED BY <2>1, <2>2, GoCarries DEF BeginWrite, BeginForced
<1> QED BY <1>1, <1>2, <1>3, <1>4, <1>5, <1>6, <1>7, <1>8, <1>9, <1>10, <1>11

\* What the locks of the others are after a lock is taken, or returned.
LEMMA LocksApart ==
    ASSUME Typed, NEW t \in Actors,
           \/ UNCHANGED lock
           \/ Unlock(t)
           \/ \E e \in Engines : lock[e] = None /\ lock' = [lock EXCEPT ![e] = t]
    PROVE  \A u \in Actors \ {t}, e \in Engines : lock[e] = u => lock'[e] = u
BY RuntimeAssumption DEF Typed, Unlock, Actors

LEMMA AdmissionKeeps ==
    ASSUME NEW q \in ActorState, NEW held
    PROVE  LET r == Admission(q, held)
           IN  r.eng = q.eng /\ r.n = q.n /\ r.pc \in {"load", "evict"}
BY DEF Admission, ActorState

LEMMA EngineCarries ==
    ASSUME Typed, Placed, EngineInv, NEW t \in Actors,
           FindEngine(t) \/ CreateEngine(t) \/ ReturnEngine(t)
    PROVE  Carries(t)
<1> USE DEF At, leases, engines, profile
<1>0. thr[t] \in ActorState /\ Position(t, thr[t]) /\ thr[t].n \in Names
  BY DEF Placed, FindEngine, CreateEngine, ReturnEngine, Position, Working
<1>1. CASE CreateEngine(t)
  <2> DEFINE n == thr[t].n
             New == {e \in Engines : e[1] = n /\ Free(e)}
  <2>1. New # {} /\ engine' = [engine EXCEPT ![n] = CHOOSE e \in New : TRUE] /\ UNCHANGED lock
    BY <1>1 DEF CreateEngine
  <2>2. (CHOOSE e \in New : TRUE) \in New
    BY <2>1
  <2>3. \A m \in Names : engine'[m] # NoEngine => engine'[m][1] = m
    BY <2>1, <2>2 DEF EngineInv, Typed
  <2>4. thr' = [thr EXCEPT ![t] = [thr[t] EXCEPT !.pc = "return"]]
    BY <1>1 DEF CreateEngine, Go
  <2>5. /\ \A u \in Actors \ {t} : thr'[u] = thr[u]
        /\ thr'[t].eng = thr[t].eng /\ thr'[t].n = thr[t].n /\ thr'[t].pc = "return"
    BY <1>0, <2>4 DEF Placed, ActorState
  <2>6. Owning(thr'[t]) /\ ~ Locking(thr'[t])
    BY <2>5 DEF EngineInv, Owning, Locking, Freeing
  <2> QED BY <2>1, <2>3, <2>5, <2>6 DEF Carries
<1>2. CASE FindEngine(t) \/ ReturnEngine(t)
  <2> DEFINE e == engine[thr[t].n]
  <2>1. PICK r : /\ Go(t, r)
                 /\ \/ r = Rest
                    \/ \E p \in {"release", "ensure", "create", "return", "lease"} :
                         \/ r = [thr[t] EXCEPT !.eng = e, !.pc = p]
                         \/ r = [thr[t] EXCEPT !.pc = p]
    <3>1. CASE FindEngine(t)
      BY <3>1 DEF FindEngine
    <3>2. CASE ReturnEngine(t)
      BY <3>2 DEF ReturnEngine
    <3> QED BY <1>2, <3>1, <3>2
  <2>2. UNCHANGED <<engine, lock>>
    BY <1>2 DEF FindEngine, ReturnEngine
  <2>3. Owning(r) /\ ~ Locking(r)
    <3>1. CASE r = Rest
      BY <3>1 DEF Owning, Locking, Freeing, Rest
    <3>2. ASSUME NEW p \in {"release", "ensure", "create", "return", "lease"},
                 r = [thr[t] EXCEPT !.eng = e, !.pc = p]
          PROVE  Owning(r) /\ ~ Locking(r)
      <4>1. r.eng = e /\ r.n = thr[t].n /\ r.pc = p
        BY <1>0, <3>2 DEF ActorState
      <4> QED BY <1>0, <4>1 DEF EngineInv, Owning, Locking, Freeing
    <3>3. ASSUME NEW p \in {"release", "ensure", "create", "return", "lease"},
                 r = [thr[t] EXCEPT !.pc = p]
          PROVE  Owning(r) /\ ~ Locking(r)
      <4>1. r.eng = thr[t].eng /\ r.n = thr[t].n /\ r.pc = p
        BY <1>0, <3>3 DEF ActorState
      <4> QED BY <4>1 DEF EngineInv, Owning, Locking, Freeing
    <3> QED BY <2>1, <3>1, <3>2, <3>3
  <2>4. thr'[t] = r /\ \A u \in Actors \ {t} : thr'[u] = thr[u]
    BY <2>1 DEF Go, Placed
  <2> QED BY <2>2, <2>3, <2>4 DEF Carries, EngineInv
<1> QED BY <1>1, <1>2

LEMMA GetLlmCarries ==
    ASSUME Typed, Placed, EngineInv, NEW t \in Actors, GetLlm(t) PROVE Carries(t)
<1> USE DEF At, leases, engines, profile
<1>0. thr[t] \in ActorState /\ thr[t].n = "llm" /\ "llm" \in Names /\ thr[t].kind \in UseKinds
  BY DEF Placed, GetLlm, Position, Working
<1> DEFINE e == <<"llm", 1>>
           use == [thr[t] EXCEPT !.eng = e]
           ask == [use EXCEPT !.getting = TRUE]
           has == [use EXCEPT !.pc = HasEngine(thr[t].kind)]
<1>1. e \in Engines /\ use \in ActorState /\ ask \in ActorState
  BY <1>0, LlmEngine DEF ActorState
<1>2. \A held : LET r == Admission(ask, held) IN r.eng = e /\ r.n = "llm"
  <2>1. ask.eng = e /\ ask.n = "llm"
    BY <1>0, <1>1 DEF ActorState
  <2> HIDE DEF ask
  <2> QED BY <1>1, <2>1, AdmissionKeeps
<1>3. has.eng = e /\ has.n = "llm"
  BY <1>0, <1>1 DEF ActorState
<1>4. PICK r : Go(t, r) /\ r.eng = e /\ r.n = "llm"
  <2> HIDE DEF ask, has
  <2>1. \/ \E held : Go(t, Admission(ask, held))
        \/ Go(t, has)
    BY DEF GetLlm, ask, has
  <2> QED BY <1>2, <1>3, <2>1
<1>5. UNCHANGED engine /\ (UNCHANGED lock \/ (lock[e] = None /\ lock' = [lock EXCEPT ![e] = t]))
  BY DEF GetLlm
<1>6. \A u \in Actors \ {t}, f \in Engines : lock[f] = u => lock'[f] = u
  BY <1>1, <1>5, LocksApart
<1>7. thr'[t] = r /\ \A u \in Actors \ {t} : thr'[u] = thr[u]
  BY <1>4 DEF Go, Placed
<1> QED BY <1>4, <1>5, <1>6, <1>7 DEF Carries, EngineInv, Owning

LEMMA EnsureCarries ==
    ASSUME Typed, Placed, EngineInv, NEW t \in Actors, Ensure(t) PROVE Carries(t)
<1> USE DEF At, leases, engines, profile
<1> DEFINE e == thr[t].eng
<1>0. /\ thr[t] \in ActorState /\ e \in Engines /\ ~ thr[t].getting /\ thr[t].kind \in UseKinds
      /\ UNCHANGED engine /\ e # NoEngine /\ e[1] = thr[t].n
  <2>1. thr[t] \in ActorState /\ e \in Engines /\ ~ thr[t].getting /\ thr[t].kind \in UseKinds
    BY DEF Placed, Ensure, Position, Freeing, Working
  <2>2. e # NoEngine
    BY <2>1, RuntimeAssumption DEF Engines, NoEngine
  <2> QED BY <2>1, <2>2 DEF Ensure, EngineInv, Owning
<1>1. CASE /\ e \in loaded /\ (e[1] = "llm" \/ lock[e] = None)
           /\ lock' = IF Keeps(t) THEN [lock EXCEPT ![e] = t] ELSE lock
           /\ Go(t, [thr[t] EXCEPT !.pc = Loads(t)])
  <2> DEFINE r == [thr[t] EXCEPT !.pc = Loads(t)]
  <2>1. r.eng = e /\ r.n = thr[t].n /\ r.kind = thr[t].kind /\ r.pc = Loads(t)
    BY <1>0 DEF ActorState
  <2>2. Keeps(t) => lock[e] = None /\ lock' = [lock EXCEPT ![e] = t]
    BY <1>0, <1>1 DEF Keeps
  <2>3. ~ Keeps(t) => lock' = lock /\ Loads(t) \in {"infer", "stop"}
    BY <1>0, <1>1 DEF Loads, HasModel
  <2>4. Locking(r) => lock'[e] = t
    <3>1. CASE Keeps(t)
      BY <1>0, <2>2, <3>1 DEF Typed
    <3>2. CASE ~ Keeps(t)
      BY <2>1, <2>3, <3>2 DEF Locking, Freeing
    <3> QED BY <3>1, <3>2
  <2>5. \A u \in Actors \ {t}, f \in Engines : lock[f] = u => lock'[f] = u
    BY <1>0, <2>2, <2>3, LocksApart
  <2>6. thr'[t] = r /\ \A u \in Actors \ {t} : thr'[u] = thr[u]
    BY <1>1 DEF Go, Placed
  <2>7. Owning(r)
    BY <1>0, <2>1 DEF Owning
  <2> HIDE DEF r
  <2> QED BY <1>0, <2>1, <2>4, <2>5, <2>6, <2>7 DEF Carries, EngineInv
<1>2. CASE /\ e \notin loaded /\ lock[e] = None
           /\ lock' = [lock EXCEPT ![e] = t]
           /\ Go(t, Admission(thr[t], loaded))
  <2> DEFINE r == Admission(thr[t], loaded)
  <2>1. r.eng = e /\ r.n = thr[t].n
    BY <1>0, AdmissionKeeps
  <2>2. \A u \in Actors \ {t}, f \in Engines : lock[f] = u => lock'[f] = u
    BY <1>0, <1>2, LocksApart
  <2>3. lock'[e] = t
    BY <1>0, <1>2 DEF Typed
  <2>4. thr'[t] = r /\ \A u \in Actors \ {t} : thr'[u] = thr[u]
    BY <1>2 DEF Go, Placed
  <2>5. Owning(r)
    BY <1>0, <2>1 DEF Owning
  <2> HIDE DEF r
  <2> QED BY <1>0, <2>1, <2>2, <2>3, <2>4, <2>5 DEF Carries, EngineInv
<1> QED BY <1>1, <1>2 DEF Ensure

\* The steps that end a load or an answer.
LEMMA EndCarries ==
    ASSUME Typed, Placed, EngineInv, NEW t \in Actors,
           Refused(t) \/ LoadFails(t) \/ Report(t) \/ Infer(t) \/ Answer(t)
    PROVE  Carries(t)
<1> USE DEF At, leases, engines, profile
<1> DEFINE e == thr[t].eng
<1>0. /\ thr[t] \in ActorState /\ e \in Engines /\ thr[t].kind \in UseKinds
      /\ UNCHANGED engine /\ e # NoEngine /\ e[1] = thr[t].n
  <2>1. thr[t] \in ActorState /\ e \in Engines /\ thr[t].kind \in UseKinds /\ UNCHANGED engine
    BY DEF Placed, Refused, LoadFails, GiveUpLoad, Report, Infer, Answer, Position, Freeing, Working
  <2>2. e # NoEngine
    BY <2>1, RuntimeAssumption DEF Engines, NoEngine
  <2> QED BY <2>1, <2>2 DEF EngineInv, Owning
<1>1. ASSUME NEW r, Go(t, r), r.eng = e, r.n = thr[t].n, ~ Locking(r), UNCHANGED lock \/ Unlock(t)
      PROVE  Carries(t)
  <2>1. \A u \in Actors \ {t}, f \in Engines : lock[f] = u => lock'[f] = u
    BY <1>1, LocksApart
  <2>2. thr'[t] = r /\ \A u \in Actors \ {t} : thr'[u] = thr[u]
    BY <1>1 DEF Go, Placed
  <2> QED BY <1>0, <1>1, <2>1, <2>2 DEF Carries, EngineInv, Owning
<1>2. ASSUME NEW p \in Working, p \notin {"evict", "load", "report", "busy"}
      PROVE  /\ LET r == [thr[t] EXCEPT !.pc = p]
                IN  r.eng = e /\ r.n = thr[t].n /\ ~ Locking(r)
             /\ LET r == [thr[t] EXCEPT !.getting = FALSE, !.cands = {}, !.pc = p]
                IN  r.eng = e /\ r.n = thr[t].n /\ ~ Locking(r)
             /\ LET r == [thr[t] EXCEPT !.pc = p, !.getting = FALSE, !.cands = {}]
                IN  r.eng = e /\ r.n = thr[t].n /\ ~ Locking(r)
  BY <1>0, <1>2 DEF ActorState, Locking, Freeing, Working
<1>3. CASE Refused(t) \/ LoadFails(t)
  <2>1. /\ Unlock(t)
        /\ \E p \in {"lease", "stop", "ensure", "release"} :
             Go(t, [thr[t] EXCEPT !.getting = FALSE, !.cands = {}, !.pc = p])
    BY <1>3 DEF Refused, LoadFails, GiveUpLoad, HasEngine, GivesUp
  <2> QED BY <1>1, <1>2, <2>1 DEF Working
<1>4. CASE Report(t)
  <2>1. CASE Loads(t) # "busy"
    <3>1. Loads(t) \in {"lease", "stop", "ensure", "infer"}
      BY <2>1 DEF Loads, HasEngine, HasModel
    <3>2. UNCHANGED lock \/ Unlock(t)
      BY <1>4 DEF Report
    <3>3. Go(t, [thr[t] EXCEPT !.pc = Loads(t), !.getting = FALSE, !.cands = {}])
      BY <1>4 DEF Report
    <3> QED BY <1>1, <1>2, <3>1, <3>2, <3>3 DEF Working
  <2>2. CASE Loads(t) = "busy"
    <3>1. Keeps(t) /\ UNCHANGED lock
      BY <1>0, <1>4, <2>2 DEF Report, Loads, HasEngine, HasModel, UseKinds
    <3> DEFINE r == [thr[t] EXCEPT !.pc = Loads(t), !.getting = FALSE, !.cands = {}]
    <3>2. Keeping(r, thr[t])
      BY <1>0, <1>4 DEF Report, Keeping, Locking, ActorState
    <3>3. Go(t, r)
      BY <1>4 DEF Report
    <3> HIDE DEF r
    <3> QED BY <1>0, <3>1, <3>2, <3>3, GoCarries
  <2> QED BY <2>1, <2>2
<1>5. CASE Infer(t) /\ e \in loaded
  <2> DEFINE r == [thr[t] EXCEPT !.pc = "busy"]
  <2>1. r.eng = e /\ r.n = thr[t].n /\ Go(t, r)
    BY <1>0, <1>5 DEF ActorState, Infer
  <2>2. IF e[1] = "llm" THEN UNCHANGED lock ELSE lock[e] = None /\ lock' = [lock EXCEPT ![e] = t]
    BY <1>5 DEF Infer
  <2>3. \A u \in Actors \ {t}, f \in Engines : lock[f] = u => lock'[f] = u
    BY <1>0, <2>2, LocksApart
  <2>4. thr[t].n # "llm" => lock'[e] = t
    BY <1>0, <2>2 DEF Typed
  <2>5. thr'[t] = r /\ \A u \in Actors \ {t} : thr'[u] = thr[u]
    BY <2>1 DEF Go, Placed
  <2>6. Owning(r)
    BY <1>0, <2>1 DEF Owning
  <2> HIDE DEF r
  <2> QED BY <1>0, <2>1, <2>3, <2>4, <2>5, <2>6 DEF Carries, EngineInv
<1>6. CASE Infer(t) /\ e \notin loaded
  <2>1. UNCHANGED lock /\ \E p \in {"stop", "release"} : Go(t, [thr[t] EXCEPT !.pc = p])
    BY <1>6 DEF Infer, GivesUp
  <2> QED BY <1>1, <1>2, <2>1 DEF Working
<1>7. CASE Answer(t)
  <2>1. Unlock(t) /\ \E p \in {"stop", "release"} : Go(t, [thr[t] EXCEPT !.pc = p])
    BY <1>7 DEF Answer, GivesUp
  <2> QED BY <1>1, <1>2, <2>1 DEF Working
<1> QED BY <1>3, <1>4, <1>5, <1>6, <1>7

LEMMA NextEngine ==
    ASSUME Typed, Placed, EngineInv, [Next]_vars PROVE EngineInv'
<1> USE DEF leases, engines, profile
<1>1. ASSUME UNCHANGED <<engine, lock, thr>> PROVE EngineInv'
  BY <1>1 DEF EngineInv
<1>2. ASSUME NEW t \in Threads \union Tasks, UseStep(t) PROVE EngineInv'
  <2> t \in Actors
    BY <1>2 DEF Actors
  <2>1. CASE Block(t)
    BY <1>1, <2>1 DEF Block
  <2>2. CASE ~ Block(t)
    <3>1. Carries(t)
      <4>1. CASE \E n \in Names, k \in {"use", "route", "bare", "warm"} : Begin(t, n, k)
        <5>1. \E n \in Names, k \in UseKinds : Begin(t, n, k)
          BY <4>1 DEF UseKinds
        <5> QED BY <5>1, PlainCarries
      <4>2. CASE \/ AcquireRead(t) \/ ReleaseRead(t) \/ Load(t) \/ Stop(t) \/ EvictNext(t)
                 \/ DropModel(t)
        BY <4>2, PlainCarries
      <4>3. CASE BeginDrop(t)
        <5> DEFINE r == [Rest EXCEPT !.pc = "drop", !.n = "stt", !.eng = engine["stt"]]
        <5>1. Go(t, r) /\ UNCHANGED <<engine, lock>> /\ "stt" \in Names
          BY <4>3 DEF BeginDrop
        <5>2. r.eng = engine["stt"] /\ r.n = "stt" /\ ~ Locking(r)
          BY DEF Rest, Locking, Freeing
        <5>3. Owning(r)
          BY <5>1, <5>2 DEF EngineInv, Owning
        <5>4. thr'[t] = r /\ \A u \in Actors \ {t} : thr'[u] = thr[u]
          BY <5>1 DEF Go, Placed
        <5> HIDE DEF r
        <5> QED BY <5>1, <5>2, <5>3, <5>4 DEF Carries, EngineInv
      <4> QED BY <1>2, <2>2, <4>1, <4>2, <4>3, EngineCarries, GetLlmCarries,
                 EnsureCarries, EndCarries DEF UseStep
    <3> QED BY <3>1, CarriesInv
  <2> QED BY <2>1, <2>2
<1>3. ASSUME NEW t \in Actors, WriteStep(t) PROVE EngineInv'
  <2>1. Carries(t)
    BY <1>3, PlainCarries DEF WriteStep
  <2> QED BY <2>1, CarriesInv
<1>4. CASE SweepAcquire \/ \E n \in Names : SweepCheck(n)
  <2> DEFINE t == Sweeper
  <2>0. t \in Actors /\ thr[t] \in ActorState /\ thr[t].kind = "none"
    BY DEF Actors, Placed, Position
  <2>1. ASSUME NEW n \in Names, SweepCheck(n) PROVE Carries(t)
    <3>1. Keeping([Rest EXCEPT !.pc = "sweep", !.victim = n], thr[t])
      BY DEF Keeping, Locking, Freeing, Rest
    <3> QED BY <2>0, <2>1, <3>1, GoCarries DEF SweepCheck
  <2>2. CASE SweepAcquire
    <3> DEFINE r == [thr[t] EXCEPT !.pc = "free"]
    <3>1. Keeping(r, thr[t])
      BY <2>0 DEF Keeping, Locking, Freeing, UseKinds, ActorState
    <3>2. UNCHANGED <<engine, lock>> /\ (Go(t, Rest) \/ Go(t, r))
      BY <2>2 DEF SweepAcquire
    <3>5. \A n \in Names : engine'[n] \in {engine[n], NoEngine}
      BY <3>2
    <3>6. Keeping(Rest, thr[t])
      BY RestKept
    <3>7. PICK q : Go(t, q) /\ Keeping(q, thr[t])
      <4> HIDE DEF r
      <4> QED BY <3>1, <3>2, <3>6, Zenon
    <3>8. Carries(t)
      BY <2>0, <3>2, <3>5, <3>7, GoCarries
    <3> QED BY <2>0, <3>8, CarriesInv
  <2> QED BY <1>4, <2>0, <2>1, <2>2, CarriesInv
<1>5. CASE \/ SwitchProfile \/ VoiceIdles \/ UNCHANGED vars
           \/ \E n \in Names : Age(n) \/ SetPinned(n)
  BY <1>1, <1>5 DEF SwitchProfile, VoiceIdles, Age, SetPinned, vars
<1> QED BY <1>2, <1>3, <1>4, <1>5 DEF Next

-----------------------------------------------------------------------------
\* What one step may do to a model somebody uses under a lease.
Spares ==
    \A t \in Actors, n \in Names :
      (Using(t, n) /\ Using(t, n)' /\ thr[t].eng \in loaded \ loaded')
        => /\ At(t, "busy") => n = "llm"
           /\ thr' = thr => n = "tts"
           /\ thr' # thr => \E u \in Actors : Unleased(u)

\* The engine in a lease holder's hand is one of the runtime it has the lease of,
\* and the lock of a speech or voice engine is its own while it answers.
LEMMA InHand ==
    ASSUME Typed, Placed, EngineInv, NEW t \in Actors, NEW n \in Names, Using(t, n),
           thr[t].eng \in loaded
    PROVE  /\ thr[t].n = n /\ thr[t].eng \in Engines /\ thr[t].eng # NoEngine
           /\ thr[t].eng[1] = n
           /\ n # "llm" /\ At(t, "busy") => lock[thr[t].eng] = t
<1>1. thr[t].n = n /\ thr[t].eng \in Engines
  BY DEF Using, InUse, Typed
<1>2. thr[t].eng # NoEngine
  BY <1>1, RuntimeAssumption DEF Engines, NoEngine
<1> QED BY <1>1, <1>2 DEF EngineInv, Owning, Locking, At

\* The steps that unload nothing.
LEMMA NothingFreed ==
    ASSUME NEW t \in Actors,
           \/ \E n \in Names, k \in UseKinds : Begin(t, n, k)
           \/ Block(t) \/ AcquireRead(t) \/ FindEngine(t) \/ ReturnEngine(t) \/ Ensure(t)
           \/ EvictNext(t) \/ Refused(t) \/ LoadFails(t) \/ Load(t) \/ Report(t) \/ Infer(t)
           \/ Answer(t) \/ BeginDrop(t)
           \/ \E n \in Names, k \in {"unload", "select"} : BeginWrite(t, n, k) \/ BeginForced(t, n, k)
           \/ Drained(t) \/ DrainTimesOut(t) \/ Select(t) \/ NoteUnloaded(t) \/ ReleaseWrite(t)
           \/ Forget(t)
    PROVE  loaded \subseteq loaded'
<1> USE DEF engines
<1>1. CASE \/ \E n \in Names, k \in UseKinds : Begin(t, n, k)
           \/ Block(t) \/ AcquireRead(t) \/ FindEngine(t) \/ ReturnEngine(t) \/ Ensure(t)
           \/ EvictNext(t)
  BY <1>1 DEF Begin, Block, AcquireRead, FindEngine, ReturnEngine, Ensure, EvictNext
<1>2. CASE \/ Refused(t) \/ LoadFails(t) \/ Load(t) \/ Report(t) \/ Infer(t) \/ Answer(t)
           \/ BeginDrop(t)
  BY <1>2 DEF Refused, LoadFails, GiveUpLoad, Load, Report, Infer, Answer, BeginDrop
<1>3. CASE \/ \E n \in Names, k \in {"unload", "select"} : BeginWrite(t, n, k) \/ BeginForced(t, n, k)
           \/ Drained(t) \/ DrainTimesOut(t) \/ Select(t) \/ NoteUnloaded(t) \/ ReleaseWrite(t)
           \/ Forget(t)
  BY <1>3 DEF BeginWrite, BeginForced, Drained, DrainTimesOut, Select, NoteUnloaded,
     ReleaseWrite, Forget
<1> QED BY <1>1, <1>2, <1>3

\* Who lets go of an engine frees it only if nobody else has it.
LEMMA DropSpares ==
    ASSUME Typed, Placed, NEW u \in Actors, NEW t \in Actors \ {u}, NEW e \in loaded \ loaded',
           Drop(u)
    PROVE  thr[t].eng # e
BY DEF Drop

LEMMA NextSpares ==
    ASSUME Typed, Placed, LeaseInv, EngineInv, [Next]_vars PROVE Spares
<1> SUFFICES ASSUME NEW t \in Actors, NEW n \in Names, Using(t, n), Using(t, n)',
                    thr[t].eng \in loaded, thr[t].eng \notin loaded'
             PROVE  /\ At(t, "busy") => n = "llm"
                    /\ thr' = thr => n = "tts"
                    /\ thr' # thr => \E u \in Actors : Unleased(u)
  BY DEF Spares
<1> DEFINE e == thr[t].eng
<1>0. /\ thr[t].n = n /\ e \in Engines /\ e # NoEngine /\ e[1] = n
      /\ n # "llm" /\ At(t, "busy") => lock[e] = t
      /\ t # None
  BY InHand, RuntimeAssumption DEF Actors
<1>1. ASSUME NEW u \in Actors, ReleaseRead(u) \/ Stop(u) PROVE FALSE
  <2>1. u # t
    <3>1. u = t => thr'[t] = Rest
      BY <1>1 DEF ReleaseRead, Stop, Go, Placed
    <3> QED BY <3>1 DEF Using, InUse, Rest
  <2> QED BY <1>1, <2>1, DropSpares DEF ReleaseRead, Stop
<1>2. ASSUME NEW u \in Actors, CreateEngine(u) PROVE FALSE
  BY <1>2 DEF CreateEngine, Held
<1>3. ASSUME NEW u \in Actors, FreeModel(u) PROVE FALSE
  <2> DEFINE m == thr[u].victim
  <2>1. thr[u].pc = "free" /\ m \in Names /\ Rebuilding(u, m)
    BY <1>3 DEF FreeModel, At, Placed, Position, Freeing, Rebuilding, InRebuild
  <2>2. e = IF m = "llm" THEN <<"llm", 1>> ELSE engine[m]
    BY <1>3 DEF FreeModel
  <2>3. m = n
    BY <1>0, <2>1, <2>2 DEF EngineInv
  <2>4. writer[n] = u /\ t \in readers[n]
    BY <2>1, <2>3 DEF LeaseInv, LeasesAccounted
  <2>5. writer[n] # None
    BY <2>4, RuntimeAssumption DEF Actors
  <2> QED BY <2>4, <2>5 DEF LeaseInv, Exclusive
<1>4. ASSUME NEW u \in Actors, GetLlm(u)
      PROVE  (At(t, "busy") => n = "llm") /\ thr' # thr /\ Unleased(u)
  <2>1. e = <<"llm", 1>>
    BY <1>4 DEF GetLlm
  <2>2. n = "llm"
    BY <1>0, <2>1
  <2>3. thr[u].pc = "engine" /\ thr[u] \in ActorState /\ thr[u].kind \in UseKinds
    BY <1>4 DEF GetLlm, At, Placed, Position, Working
  <2>4. thr'[u].pc # "engine"
    <3> DEFINE use == [thr[u] EXCEPT !.eng = <<"llm", 1>>]
               ask == [use EXCEPT !.getting = TRUE]
               has == [use EXCEPT !.pc = HasEngine(thr[u].kind)]
    <3>1. ask \in ActorState /\ has.pc = HasEngine(thr[u].kind)
      BY <1>0, <2>1, <2>3 DEF ActorState
    <3>2. HasEngine(thr[u].kind) # "engine"
      BY <2>3 DEF HasEngine, UseKinds
    <3>3. (\E held : thr'[u] = Admission(ask, held)) \/ thr'[u] = has
      BY <1>4 DEF GetLlm, Go, Placed
    <3> HIDE DEF ask, has
    <3> QED BY <3>1, <3>2, <3>3, AdmissionKeeps
  <2> QED BY <2>2, <2>3, <2>4 DEF Unleased
<1>5. ASSUME NEW u \in Actors, DropModel(u)
      PROVE  (At(t, "busy") => n = "llm") /\ thr' # thr /\ Unleased(u)
  <2>1. thr[u].pc = "drop" /\ lock[e] = None /\ thr'[u] = Rest
    BY <1>5 DEF DropModel, At, Go, Placed
  <2>2. thr'[u].pc # "drop"
    BY <2>1 DEF Rest
  <2> QED BY <1>0, <2>1, <2>2 DEF Unleased
<1>6. CASE VoiceIdles
  <2>1. thr' = thr /\ e = engine["tts"] /\ "tts" \in Names /\ lock[e] = None
    BY <1>6 DEF VoiceIdles
  <2>2. n = "tts"
    BY <1>0, <2>1 DEF EngineInv
  <2> QED BY <1>0, <2>1, <2>2
<1>7. CASE UNCHANGED vars \/ SwitchProfile \/ \E m \in Names : SweepCheck(m) \/ Age(m) \/ SetPinned(m)
  BY <1>7 DEF vars, SwitchProfile, SweepCheck, Age, SetPinned, engines
<1>8. CASE SweepAcquire
  BY <1>8 DEF SweepAcquire, engines
<1>9. ASSUME NEW u \in Threads \union Tasks, UseStep(u)
      PROVE  /\ At(t, "busy") => n = "llm"
             /\ thr' = thr => n = "tts"
             /\ thr' # thr => \E v \in Actors : Unleased(v)
  <2>1. u \in Actors
    BY <1>9 DEF Actors
  <2>2. CASE ReleaseRead(u) \/ Stop(u) \/ CreateEngine(u)
    BY <1>1, <1>2, <2>1, <2>2
  <2>3. CASE GetLlm(u) \/ DropModel(u)
    BY <1>4, <1>5, <2>1, <2>3
  <2>4. CASE \/ \E m \in Names, k \in {"use", "route", "bare", "warm"} : Begin(u, m, k)
             \/ Block(u) \/ AcquireRead(u) \/ FindEngine(u) \/ ReturnEngine(u) \/ Ensure(u)
             \/ EvictNext(u) \/ Refused(u) \/ LoadFails(u) \/ Load(u) \/ Report(u) \/ Infer(u)
             \/ Answer(u) \/ BeginDrop(u)
    BY <2>1, <2>4, NothingFreed DEF UseKinds
  <2> QED BY <1>9, <2>2, <2>3, <2>4 DEF UseStep
<1>10. ASSUME NEW u \in Actors, WriteStep(u) PROVE FALSE
  BY <1>3, <1>10, NothingFreed DEF WriteStep
<1> QED BY <1>6, <1>7, <1>8, <1>9, <1>10 DEF Next

\* LeasedModelSpared holds of every behaviour: no unload, eviction or sweep frees
\* a model that some lease holder has in hand, for any number of users and any
\* number of engine objects; only the paths without a lease do, and they spare a
\* speech or voice engine that answers.
THEOREM LeasedModelSpared_Safety == Spec => LeasedModelSpared
<1>1. /\ Typed /\ Placed /\ LeaseInv /\ EngineInv /\ [Next]_vars
         => (Typed /\ Placed /\ LeaseInv /\ EngineInv)'
  BY NextType, NextLease, NextEngine DEF LeaseStep
<1>2. Spec => [](Typed /\ Placed /\ LeaseInv /\ EngineInv)
  BY <1>1, InitType, InitLease, InitEngine, PTL DEF Spec
<1>3. Typed /\ Placed /\ LeaseInv /\ EngineInv /\ [Next]_vars => [Spares]_vars
  BY NextSpares
<1>4. Spec => [][Spares]_vars
  BY <1>2, <1>3, PTL DEF Spec
<1> QED BY <1>4 DEF LeasedModelSpared, Spares

-----------------------------------------------------------------------------
(* What is taken belongs to somebody who will return it.  LeasesAccounted     *)
(* says so of the leases; these are the other things a use or a route takes:  *)
(* an engine's lock, the event loop, and the cancellation that asks readers   *)
(* to bail out.                                                               *)

\* Only the language model is loaded while its engine is being fetched.
GetsLlm == \A t \in Actors : thr[t].getting => thr[t].n = "llm"

\* A step that fetches nothing it did not fetch before.
Fetches(t) == \E r : /\ Go(t, r)
                     /\ r.getting => r.n = "llm" \/ (thr[t].getting /\ r.n = thr[t].n)

LEMMA FetchesLlm ==
    ASSUME Placed, GetsLlm, NEW t \in Actors, Fetches(t)
    PROVE  GetsLlm'
BY DEF Placed, GetsLlm, Fetches, Go

LEMMA AdmissionFetches ==
    ASSUME NEW q \in ActorState, NEW held
    PROVE  Admission(q, held).getting = q.getting /\ Admission(q, held).n = q.n
BY DEF Admission, ActorState

LEMMA UseFetches ==
    ASSUME Placed, NEW t \in Threads \union Tasks, UseStep(t), ~ Block(t)
    PROVE  Fetches(t)
<1> USE DEF At
<1>0. t \in Actors /\ thr[t] \in ActorState /\ Position(t, thr[t])
  BY DEF Placed, Actors
<1>1. ~ Rest.getting
  BY DEF Rest
<1>2. CASE \E n \in Names, k \in UseKinds : Begin(t, n, k)
  <2>1. PICK n \in Names, k \in UseKinds : Begin(t, n, k)
    BY <1>2
  <2> DEFINE r == [Rest EXCEPT !.pc = IF k = "route" THEN "lease" ELSE "engine", !.kind = k, !.n = n]
  <2>2. Go(t, r) /\ ~ r.getting
    BY <2>1 DEF Begin, Rest
  <2> HIDE DEF r
  <2> QED BY <2>2 DEF Fetches
<1>3. CASE ReleaseRead(t) \/ Stop(t) \/ DropModel(t)
  BY <1>1, <1>3 DEF ReleaseRead, Stop, DropModel, Fetches
<1>4. ASSUME NEW p PROVE /\ Go(t, [thr[t] EXCEPT !.pc = p]) => Fetches(t)
                         /\ \A e : Go(t, [thr[t] EXCEPT !.eng = e, !.pc = p]) => Fetches(t)
                         /\ Go(t, [thr[t] EXCEPT !.getting = FALSE, !.cands = {}, !.pc = p]) => Fetches(t)
                         /\ Go(t, [thr[t] EXCEPT !.pc = p, !.getting = FALSE, !.cands = {}]) => Fetches(t)
  <2>1. ASSUME NEW r, r.getting => thr[t].getting /\ r.n = thr[t].n, Go(t, r) PROVE Fetches(t)
    BY <2>1 DEF Fetches
  <2>2. LET r == [thr[t] EXCEPT !.pc = p] IN r.getting = thr[t].getting /\ r.n = thr[t].n
    BY <1>0 DEF ActorState
  <2>3. \A e : LET r == [thr[t] EXCEPT !.eng = e, !.pc = p] IN r.getting = thr[t].getting /\ r.n = thr[t].n
    BY <1>0 DEF ActorState
  <2>4. ~ [thr[t] EXCEPT !.getting = FALSE, !.cands = {}, !.pc = p].getting
    BY <1>0 DEF ActorState
  <2>5. ~ [thr[t] EXCEPT !.pc = p, !.getting = FALSE, !.cands = {}].getting
    BY <1>0 DEF ActorState
  <2> QED BY <2>1, <2>2, <2>3, <2>4, <2>5
<1>5. CASE AcquireRead(t) \/ Load(t) \/ Infer(t) \/ Answer(t) \/ CreateEngine(t)
  BY <1>4, <1>5 DEF AcquireRead, Load, Infer, Answer, CreateEngine
<1>6. CASE FindEngine(t)
  BY <1>4, <1>6 DEF FindEngine
<1>7. CASE ReturnEngine(t)
  <2>1. Go(t, Rest) => Fetches(t)
    BY <1>1 DEF Fetches
  <2> QED BY <1>4, <1>7, <2>1 DEF ReturnEngine
<1>8. CASE GetLlm(t)
  <2> DEFINE use == [thr[t] EXCEPT !.eng = <<"llm", 1>>]
             ask == [use EXCEPT !.getting = TRUE]
             has == [use EXCEPT !.pc = HasEngine(thr[t].kind)]
  <2>1. thr[t].n = "llm" /\ "llm" \in Names
    BY <1>0, <1>8 DEF GetLlm, Position, Working
  <2>2. ask \in ActorState /\ ask.n = "llm" /\ has.n = "llm"
    BY <1>0, <2>1, LlmEngine DEF ActorState
  <2> HIDE DEF ask, has
  <2>3. \A held : Admission(ask, held).n = "llm"
    BY <2>2, AdmissionFetches
  <2>4. (\E held : Go(t, Admission(ask, held))) \/ Go(t, has)
    BY <1>8 DEF GetLlm, ask, has
  <2> QED BY <2>2, <2>3, <2>4 DEF Fetches
<1>9. CASE Ensure(t)
  <2>1. \A held : /\ Admission(thr[t], held).getting = thr[t].getting
                  /\ Admission(thr[t], held).n = thr[t].n
    BY <1>0, AdmissionFetches
  <2>2. Go(t, Admission(thr[t], loaded)) => Fetches(t)
    BY <2>1 DEF Fetches
  <2> QED BY <1>4, <1>9, <2>2 DEF Ensure
<1>10. CASE EvictNext(t)
  <2>1. PICK m \in thr[t].cands :
          \/ Go(t, [thr[t] EXCEPT !.cands = @ \ {m}])
          \/ Go(t, [thr[t] EXCEPT !.cands = @ \ {m}, !.pc = "free", !.victim = m])
    BY <1>10 DEF EvictNext
  <2>2. \A q : (\/ q = [thr[t] EXCEPT !.cands = @ \ {m}]
                \/ q = [thr[t] EXCEPT !.cands = @ \ {m}, !.pc = "free", !.victim = m])
               => q.getting = thr[t].getting /\ q.n = thr[t].n
    BY <1>0 DEF ActorState
  <2> QED BY <2>1, <2>2 DEF Fetches
<1>11. CASE Refused(t) \/ LoadFails(t) \/ Report(t)
  BY <1>4, <1>11 DEF Refused, LoadFails, GiveUpLoad, Report
<1>12. CASE BeginDrop(t)
  <2>1. \A e : ~ [Rest EXCEPT !.pc = "drop", !.n = "stt", !.eng = e].getting
    BY DEF Rest
  <2> QED BY <1>12, <2>1 DEF BeginDrop, Fetches
<1> QED BY <1>2, <1>3, <1>5, <1>6, <1>7, <1>8, <1>9, <1>10, <1>11, <1>12 DEF UseStep, UseKinds

LEMMA OtherFetches ==
    ASSUME Placed, NEW t \in Actors,
           WriteStep(t) \/ (t = Sweeper /\ (SweepAcquire \/ \E n \in Names : SweepCheck(n)))
    PROVE  Fetches(t)
<1> USE DEF At
<1>0. thr[t] \in ActorState
  BY DEF Placed
<1>1. \A r : Go(t, r) /\ (r.getting => thr[t].getting /\ r.n = thr[t].n) => Fetches(t)
  BY DEF Fetches
<1>2. Go(t, Rest) => Fetches(t)
  BY <1>1 DEF Rest
<1>3. ASSUME NEW p, NEW k, NEW n
      PROVE  /\ Go(t, [thr[t] EXCEPT !.pc = p]) => Fetches(t)
             /\ Go(t, [thr[t] EXCEPT !.victim = n, !.pc = p]) => Fetches(t)
             /\ Go(t, [Rest EXCEPT !.kind = k, !.victim = n, !.pc = p]) => Fetches(t)
             /\ Go(t, [Rest EXCEPT !.pc = p, !.victim = n]) => Fetches(t)
  <2>1. \A r : r = [thr[t] EXCEPT !.pc = p] \/ r = [thr[t] EXCEPT !.victim = n, !.pc = p]
               => r.getting = thr[t].getting /\ r.n = thr[t].n
    BY <1>0 DEF ActorState
  <2>2. \A r : r = [Rest EXCEPT !.kind = k, !.victim = n, !.pc = p]
                \/ r = [Rest EXCEPT !.pc = p, !.victim = n] => ~ r.getting
    BY DEF Rest
  <2> QED BY <1>1, <2>1, <2>2
<1>4. CASE \E n \in Names, k \in {"unload", "select"} : BeginWrite(t, n, k) \/ BeginForced(t, n, k)
  BY <1>3, <1>4 DEF BeginWrite, BeginForced
<1>5. CASE Drained(t) \/ DrainTimesOut(t) \/ Select(t)
  BY <1>2, <1>3, <1>5 DEF Drained, DrainTimesOut, Select
<1>6. CASE FreeModel(t) \/ NoteUnloaded(t) \/ ReleaseWrite(t) \/ Forget(t)
  BY <1>2, <1>3, <1>6 DEF FreeModel, NoteUnloaded, ReleaseWrite, Forget
<1>7. CASE t = Sweeper /\ (SweepAcquire \/ \E n \in Names : SweepCheck(n))
  BY <1>2, <1>3, <1>7 DEF SweepAcquire, SweepCheck
<1> QED BY <1>4, <1>5, <1>6, <1>7 DEF WriteStep

LEMMA NextFetches == Placed /\ GetsLlm /\ [Next]_vars => GetsLlm'
<1> SUFFICES ASSUME Placed, GetsLlm, [Next]_vars PROVE GetsLlm'
  OBVIOUS
<1>1. UNCHANGED thr => GetsLlm'
  BY DEF GetsLlm
<1>2. ASSUME NEW t \in Threads \union Tasks, UseStep(t) PROVE GetsLlm'
  <2>1. t \in Actors
    BY DEF Actors
  <2>2. CASE Block(t)
    BY <1>1, <2>2 DEF Block
  <2>3. CASE ~ Block(t)
    BY <1>2, <2>1, <2>3, UseFetches, FetchesLlm
  <2> QED BY <2>2, <2>3
<1>3. ASSUME NEW t \in Actors, WriteStep(t) PROVE GetsLlm'
  BY <1>3, OtherFetches, FetchesLlm
<1>4. CASE SweepAcquire \/ \E n \in Names : SweepCheck(n)
  <2>1. Sweeper \in Actors
    BY DEF Actors
  <2> QED BY <1>4, <2>1, OtherFetches, FetchesLlm
<1>5. CASE \/ SwitchProfile \/ VoiceIdles \/ UNCHANGED vars
           \/ \E n \in Names : Age(n) \/ SetPinned(n)
  BY <1>1, <1>5 DEF SwitchProfile, VoiceIdles, Age, SetPinned, vars
<1> QED BY <1>2, <1>3, <1>4, <1>5 DEF Next

LockHasHolder ==
    \A e \in Engines : lock[e] # None => Locking(thr[lock[e]]) /\ thr[lock[e]].eng = e

\* What a coroutine does between two awaits, or waits for inside a lock.
HoldsLoop(r) == \/ r.kind = "route" /\ (r.pc = "engine" \/ r.getting)
                \/ r.pc \in {"lease", "drain", "select", "drop"}
LoopHasTask == loop # None => HoldsLoop(thr[loop])

Drains(r, n) == r.pc = "drain" /\ r.victim = n
CancelHasDrain == \A n \in Names : cancel[n] => \E t \in Tasks : Drains(thr[t], n)

NothingLeftTaken == LockHasHolder /\ LoopHasTask /\ CancelHasDrain

\* A step of t that leaves none of them without its holder.
LockReturns(t) ==
    /\ \A e \in Engines : lock'[e] \in {lock[e], None, t}
    /\ \A e \in Engines : lock'[e] = t => Locking(thr'[t]) /\ thr'[t].eng = e
LoopReturns(t) ==
    /\ loop' \in {loop, None, t}
    /\ loop' = t => HoldsLoop(thr'[t])
CancelReturns(t) ==
    \A n \in Names : cancel'[n] => \/ t \in Tasks /\ Drains(thr'[t], n)
                                   \/ cancel[n] /\ ~ Drains(thr[t], n)
Returns(t) ==
    /\ \A u \in Actors \ {t} : thr'[u] = thr[u]
    /\ LockReturns(t)
    /\ LoopReturns(t)
    /\ CancelReturns(t)

LEMMA ReturnsTaken ==
    ASSUME Typed, NothingLeftTaken, NEW t \in Actors, Returns(t)
    PROVE  NothingLeftTaken'
<1>1. LockHasHolder'
  <2> SUFFICES ASSUME NEW e \in Engines, lock'[e] # None
               PROVE  Locking(thr'[lock'[e]]) /\ thr'[lock'[e]].eng = e
    BY DEF LockHasHolder
  <2>1. CASE lock'[e] = t
    BY <2>1 DEF Returns, LockReturns
  <2>2. CASE lock'[e] # t
    <3>1. lock'[e] = lock[e] /\ lock[e] \in Actors
      BY <2>2 DEF Returns, LockReturns, Typed
    <3> QED BY <2>2, <3>1 DEF Returns, NothingLeftTaken, LockHasHolder
  <2> QED BY <2>1, <2>2
<1>2. LoopHasTask'
  <2>1. Tasks \subseteq Actors
    BY DEF Actors
  <2>2. loop \in Tasks \union {None}
    BY DEF Typed
  <2> QED BY <2>1, <2>2 DEF Returns, LoopReturns, NothingLeftTaken, LoopHasTask
<1>3. CancelHasDrain'
  <2> SUFFICES ASSUME NEW n \in Names, cancel'[n]
               PROVE  \E u \in Tasks : Drains(thr'[u], n)
    BY DEF CancelHasDrain
  <2>1. CASE t \in Tasks /\ Drains(thr'[t], n)
    BY <2>1
  <2>2. CASE cancel[n] /\ ~ Drains(thr[t], n)
    <3>1. PICK u \in Tasks : Drains(thr[u], n)
      BY <2>2 DEF NothingLeftTaken, CancelHasDrain
    <3>2. u # t /\ u \in Actors
      BY <2>2, <3>1 DEF Actors
    <3> QED BY <3>1, <3>2 DEF Returns
  <2> QED BY <2>1, <2>2 DEF Returns, CancelReturns
<1> QED BY <1>1, <1>2, <1>3 DEF NothingLeftTaken

\* What a step says of t alone.
LEMMA GoReturns ==
    ASSUME Placed, NEW t \in Actors, NEW r, Go(t, r),
           LockReturns(t), LoopReturns(t), CancelReturns(t)
    PROVE  Returns(t)
BY DEF Placed, Go, Returns

\* The locks: most steps leave them alone, and one that has any keeps them all.
Onward(q, r) == Locking(q) => Locking(r) /\ r.eng = q.eng
LEMMA SameLocks ==
    ASSUME Placed, NothingLeftTaken, NEW t \in Actors, NEW r, Go(t, r), UNCHANGED lock,
           Onward(thr[t], r)
    PROVE  LockReturns(t)
<1>1. thr'[t] = r
  BY DEF Placed, Go
<1>2. t # None
  BY RuntimeAssumption DEF Actors
<1> QED BY <1>1, <1>2 DEF LockReturns, NothingLeftTaken, LockHasHolder, Onward

LEMMA ReturnsLocks ==
    ASSUME Typed, NEW t \in Actors, Unlock(t)
    PROVE  LockReturns(t)
<1>1. t # None
  BY RuntimeAssumption DEF Actors
<1> QED BY <1>1 DEF Typed, Unlock, LockReturns

LEMMA TakesLock ==
    ASSUME Typed, Placed, NothingLeftTaken, NEW t \in Actors, NEW r, Go(t, r),
           ~ Locking(thr[t]), Locking(r),
           NEW e \in Engines, r.eng = e, lock' = [lock EXCEPT ![e] = t]
    PROVE  LockReturns(t)
<1>1. thr'[t] = r
  BY DEF Placed, Go
<1>2. t # None
  BY RuntimeAssumption DEF Actors
<1>3. \A f \in Engines : lock[f] # t
  BY <1>2 DEF NothingLeftTaken, LockHasHolder
<1> QED BY <1>1, <1>3 DEF LockReturns, Typed

LEMMA SameCancel ==
    ASSUME NEW t \in Actors, UNCHANGED cancel, thr[t].pc # "drain"
    PROVE  CancelReturns(t)
BY DEF CancelReturns, Drains

\* The loop: given back, kept by whoever does not have it, or kept for a cause.
LEMMA LeavesLoop ==
    ASSUME NEW t \in Actors, loop' = None
    PROVE  LoopReturns(t)
<1>1. t # None
  BY RuntimeAssumption DEF Actors
<1> QED BY <1>1 DEF LoopReturns

LEMMA SameLoop ==
    ASSUME Placed, NothingLeftTaken, NEW t \in Actors, NEW r, Go(t, r), UNCHANGED loop,
           HoldsLoop(thr[t]) => HoldsLoop(r)
    PROVE  LoopReturns(t)
<1>1. thr'[t] = r
  BY DEF Placed, Go
<1>2. t # None
  BY RuntimeAssumption DEF Actors
<1> QED BY <1>1, <1>2 DEF LoopReturns, NothingLeftTaken, LoopHasTask

LEMMA TakesLoop ==
    ASSUME Placed, NEW t \in Actors, NEW r, Go(t, r), loop' \in {loop, None, t}, HoldsLoop(r)
    PROVE  LoopReturns(t)
BY DEF Placed, Go, LoopReturns

\* A coroutine that yields leaves the loop; a thread never has it.
LEMMA Yields ==
    ASSUME Typed, NEW t \in Actors, YieldLoop(t)
    PROVE  LoopReturns(t)
<1>1. t # None
  BY RuntimeAssumption DEF Actors
<1> QED BY <1>1 DEF YieldLoop, LoopReturns, Typed

\* What an actor does that holds no lock before it: it may do as it likes.
LEMMA FreshLocks ==
    ASSUME Placed, NothingLeftTaken, NEW t \in Actors, NEW r, Go(t, r), UNCHANGED lock,
           ~ Locking(thr[t])
    PROVE  LockReturns(t)
BY SameLocks DEF Onward

\* The steps of a use outside its load and its answer, and the deletion of a
\* speech model.
LEMMA UseReturns ==
    ASSUME Typed, Placed, NothingLeftTaken, NEW t \in Threads \union Tasks,
           \/ \E n \in Names, k \in UseKinds : Begin(t, n, k)
           \/ Block(t) \/ AcquireRead(t) \/ ReleaseRead(t)
           \/ FindEngine(t) \/ CreateEngine(t) \/ ReturnEngine(t)
           \/ Stop(t) \/ BeginDrop(t) \/ DropModel(t)
    PROVE  Returns(t)
<1> USE DEF At, leases, engines, profile
<1>0. t \in Actors /\ thr[t] \in ActorState /\ Position(t, thr[t])
  BY DEF Placed, Actors
<1>1. CASE \E n \in Names, k \in UseKinds : Begin(t, n, k)
  <2>1. PICK n \in Names, k \in UseKinds : Begin(t, n, k)
    BY <1>1
  <2> DEFINE r == [Rest EXCEPT !.pc = IF k = "route" THEN "lease" ELSE "engine", !.kind = k, !.n = n]
  <2>2. Go(t, r) /\ UNCHANGED <<lock, loop, cancel>> /\ thr[t].pc = "idle"
    BY <2>1 DEF Begin
  <2>3. ~ Locking(thr[t]) /\ ~ HoldsLoop(thr[t])
    BY <1>0, <2>2 DEF Locking, Freeing, HoldsLoop, Position
  <2> HIDE DEF r
  <2> QED BY <1>0, <2>2, <2>3, FreshLocks, SameLoop, SameCancel, GoReturns
<1>2. CASE Block(t)
  <2>1. /\ t \in Tasks /\ loop' = t /\ thr[t].pc = "lease"
        /\ UNCHANGED <<lock, cancel, thr>>
    BY <1>2 DEF Block
  <2>2. LockReturns(t)
    <3>1. t # None
      BY <1>0, RuntimeAssumption DEF Actors
    <3> QED BY <2>1, <3>1 DEF NothingLeftTaken, LockHasHolder, LockReturns
  <2>3. LoopReturns(t)
    BY <2>1 DEF LoopReturns, HoldsLoop
  <2>4. CancelReturns(t)
    BY <1>0, <2>1, SameCancel
  <2> QED BY <2>1, <2>2, <2>3, <2>4 DEF Returns
<1>3. CASE AcquireRead(t)
  <2>1. /\ thr[t].pc = "lease" /\ UNCHANGED <<lock, cancel>>
        /\ \/ Go(t, [thr[t] EXCEPT !.pc = "engine"]) /\ KeepLoop(t) /\ thr[t].kind = "route"
           \/ Go(t, [thr[t] EXCEPT !.pc = "ensure"]) /\ YieldLoop(t)
    BY <1>3 DEF AcquireRead
  <2>2. ~ Locking(thr[t])
    BY <2>1 DEF Locking, Freeing
  <2>3. LockReturns(t) /\ CancelReturns(t)
    BY <1>0, <2>1, <2>2, FreshLocks, SameCancel
  <2>4. HoldsLoop([thr[t] EXCEPT !.pc = "engine"]) \/ thr[t].kind # "route"
    BY <1>0 DEF HoldsLoop, ActorState
  <2>5. LoopReturns(t)
    BY <1>0, <2>1, <2>4, TakesLoop, Yields DEF KeepLoop
  <2> QED BY <1>0, <2>1, <2>3, <2>5, GoReturns
<1>4. CASE ReleaseRead(t)
  <2>1. thr[t].pc = "release" /\ UNCHANGED <<lock, cancel>> /\ Go(t, Rest) /\ YieldLoop(t)
    BY <1>4 DEF ReleaseRead
  <2>2. ~ Locking(thr[t])
    BY <2>1 DEF Locking, Freeing
  <2> QED BY <1>0, <2>1, <2>2, FreshLocks, SameCancel, Yields, GoReturns
<1>5. CASE FindEngine(t)
  <2>1. /\ thr[t].pc = "engine" /\ UNCHANGED <<lock, cancel>>
        /\ \E r : Go(t, r) /\ (YieldLoop(t) \/ (UNCHANGED loop /\ thr[t].kind # "route"))
    BY <1>5 DEF FindEngine
  <2>2. ~ Locking(thr[t])
    BY <2>1 DEF Locking, Freeing
  <2>3. ~ thr[t].getting
    BY <1>0, <2>1 DEF Position, Freeing
  <2>4. thr[t].kind # "route" => ~ HoldsLoop(thr[t])
    BY <2>1 DEF HoldsLoop
  <2> QED BY <1>0, <2>1, <2>2, <2>4, FreshLocks, SameCancel, SameLoop, Yields, GoReturns
<1>6. CASE CreateEngine(t) \/ ReturnEngine(t)
  <2>1. /\ thr[t].pc \in {"create", "return"} /\ UNCHANGED <<lock, cancel, loop>>
        /\ \E r : Go(t, r)
    BY <1>6 DEF CreateEngine, ReturnEngine
  <2>2. ~ Locking(thr[t]) /\ ~ HoldsLoop(thr[t])
    BY <1>0, <2>1 DEF Locking, HoldsLoop, Position, Freeing
  <2> QED BY <1>0, <2>1, <2>2, FreshLocks, SameCancel, SameLoop, GoReturns
<1>7. CASE Stop(t)
  <2>1. thr[t].pc = "stop" /\ UNCHANGED <<lock, cancel, loop>> /\ Go(t, Rest)
    BY <1>7 DEF Stop
  <2>2. ~ Locking(thr[t]) /\ ~ HoldsLoop(thr[t])
    BY <1>0, <2>1 DEF Locking, HoldsLoop, Position, Freeing
  <2> QED BY <1>0, <2>1, <2>2, FreshLocks, SameCancel, SameLoop, GoReturns
<1>8. CASE BeginDrop(t)
  <2> DEFINE r == [Rest EXCEPT !.pc = "drop", !.n = "stt", !.eng = engine["stt"]]
  <2>1. thr[t].pc = "idle" /\ UNCHANGED <<lock, cancel>> /\ Go(t, r) /\ KeepLoop(t)
    BY <1>8 DEF BeginDrop
  <2>2. ~ Locking(thr[t])
    BY <2>1 DEF Locking, Freeing
  <2>3. HoldsLoop(r)
    BY DEF HoldsLoop, Rest
  <2>4. loop' \in {loop, None, t}
    BY <2>1 DEF KeepLoop
  <2> HIDE DEF r
  <2> QED BY <1>0, <2>1, <2>2, <2>3, <2>4, FreshLocks, SameCancel, TakesLoop, GoReturns
<1>9. CASE DropModel(t)
  <2>1. thr[t].pc = "drop" /\ UNCHANGED <<lock, cancel>> /\ Go(t, Rest) /\ YieldLoop(t)
    BY <1>9 DEF DropModel
  <2>2. ~ Locking(thr[t])
    BY <2>1 DEF Locking, Freeing
  <2> QED BY <1>0, <2>1, <2>2, FreshLocks, SameCancel, Yields, GoReturns
<1> QED BY <1>1, <1>2, <1>3, <1>4, <1>5, <1>6, <1>7, <1>8, <1>9

\* A load gives up the engine's lock and the loop when it ends, an answer the
\* lock.
LEMMA EndReturns ==
    ASSUME Typed, Placed, GetsLlm, NothingLeftTaken, NEW t \in Threads \union Tasks,
           Refused(t) \/ LoadFails(t) \/ Load(t) \/ Report(t) \/ Infer(t) \/ Answer(t)
    PROVE  Returns(t)
<1> USE DEF At, leases, engines, profile
<1>0. t \in Actors /\ thr[t] \in ActorState /\ Position(t, thr[t])
  BY DEF Placed, Actors
<1>1. CASE Refused(t) \/ LoadFails(t)
  <2>1. /\ thr[t].pc \in {"evict", "load"} /\ Unlock(t) /\ UNCHANGED cancel
        /\ loop' = IF loop = t THEN None ELSE loop
        /\ \E r : Go(t, r)
    BY <1>1 DEF Refused, LoadFails, GiveUpLoad
  <2>2. LoopReturns(t)
    <3>1. t # None
      BY <1>0, RuntimeAssumption DEF Actors
    <3> QED BY <2>1, <3>1 DEF LoopReturns
  <2> QED BY <1>0, <2>1, <2>2, ReturnsLocks, SameCancel, GoReturns
<1>2. CASE Load(t)
  <2> DEFINE r == [thr[t] EXCEPT !.pc = "report"]
  <2>1. thr[t].pc = "load" /\ UNCHANGED <<lock, loop, cancel>> /\ Go(t, r)
    BY <1>2 DEF Load
  <2>2. r.pc = "report" /\ r.eng = thr[t].eng /\ r.kind = thr[t].kind /\ r.getting = thr[t].getting
    BY <1>0 DEF ActorState
  <2>3. Onward(thr[t], r) /\ (HoldsLoop(thr[t]) => HoldsLoop(r))
    BY <2>1, <2>2 DEF Onward, Locking, HoldsLoop
  <2> HIDE DEF r
  <2> QED BY <1>0, <2>1, <2>3, SameLocks, SameLoop, SameCancel, GoReturns
<1>3. CASE Report(t)
  <2> DEFINE r == [thr[t] EXCEPT !.pc = Loads(t), !.getting = FALSE, !.cands = {}]
  <2>1. /\ thr[t].pc = "report" /\ UNCHANGED cancel /\ Go(t, r)
        /\ IF Keeps(t) THEN UNCHANGED lock ELSE Unlock(t)
        /\ loop' = IF loop = t THEN None ELSE loop
    BY <1>3 DEF Report
  <2>2. LoopReturns(t)
    <3>1. t # None
      BY <1>0, RuntimeAssumption DEF Actors
    <3> QED BY <2>1, <3>1 DEF LoopReturns
  <2>3. LockReturns(t)
    <3>1. CASE Keeps(t) /\ ~ thr[t].getting
      <4>1. r.pc = "busy" /\ r.eng = thr[t].eng
        BY <1>0, <3>1 DEF ActorState, Loads
      <4>2. Onward(thr[t], r)
        BY <4>1 DEF Onward, Locking
      <4> HIDE DEF r
      <4> QED BY <1>0, <2>1, <3>1, <4>2, SameLocks
    <3>2. CASE Keeps(t) /\ thr[t].getting
      BY <1>0, <3>2 DEF GetsLlm, Keeps
    <3>3. CASE ~ Keeps(t)
      BY <1>0, <2>1, <3>3, ReturnsLocks
    <3> QED BY <3>1, <3>2, <3>3
  <2> HIDE DEF r
  <2> QED BY <1>0, <2>1, <2>2, <2>3, SameCancel, GoReturns
<1>4. CASE Infer(t)
  <2> DEFINE e == thr[t].eng
  <2>1. thr[t].pc = "infer" /\ UNCHANGED <<loop, cancel>> /\ e \in Engines /\ ~ thr[t].getting
    BY <1>0, <1>4 DEF Infer, Position, Freeing
  <2>2. ~ Locking(thr[t]) /\ ~ HoldsLoop(thr[t])
    BY <2>1 DEF Locking, HoldsLoop, Freeing
  <2>3. CASE e \in loaded /\ e[1] # "llm"
    <3> DEFINE r == [thr[t] EXCEPT !.pc = "busy"]
    <3>1. Go(t, r) /\ lock' = [lock EXCEPT ![e] = t]
      BY <1>4, <2>3 DEF Infer
    <3>2. Locking(r) /\ r.eng = e
      BY <1>0 DEF ActorState, Locking
    <3> HIDE DEF r
    <3> QED BY <1>0, <2>1, <2>2, <3>1, <3>2, TakesLock, SameLoop, SameCancel, GoReturns
  <2>4. CASE e \notin loaded \/ e[1] = "llm"
    <3>1. UNCHANGED lock /\ \E r : Go(t, r)
      BY <1>4, <2>4 DEF Infer
    <3> QED BY <1>0, <2>1, <2>2, <3>1, FreshLocks, SameLoop, SameCancel, GoReturns
  <2> QED BY <2>3, <2>4
<1>5. CASE Answer(t)
  <2>1. /\ thr[t].pc = "busy" /\ Unlock(t) /\ UNCHANGED <<loop, cancel>> /\ \E r : Go(t, r)
    BY <1>5 DEF Answer
  <2>2. ~ HoldsLoop(thr[t])
    BY <1>0, <2>1 DEF HoldsLoop, Position, Freeing
  <2> QED BY <1>0, <2>1, <2>2, ReturnsLocks, SameLoop, SameCancel, GoReturns
<1> QED BY <1>1, <1>2, <1>3, <1>4, <1>5

\* A load begins under the engine's lock, but for a reload of the llama-server,
\* which only holds the loop it is called on.
LEMMA LoadReturns ==
    ASSUME Typed, Placed, NothingLeftTaken, NEW t \in Threads \union Tasks,
           GetLlm(t) \/ Ensure(t)
    PROVE  Returns(t)
<1> USE DEF At, leases, engines, profile
<1>0. t \in Actors /\ thr[t] \in ActorState /\ Position(t, thr[t])
  BY DEF Placed, Actors
<1>1. CASE GetLlm(t)
  <2> DEFINE e == <<"llm", 1>>
             ask == [[thr[t] EXCEPT !.eng = e] EXCEPT !.getting = TRUE]
             has == [[thr[t] EXCEPT !.eng = e] EXCEPT !.pc = HasEngine(thr[t].kind)]
  <2>1. /\ thr[t].pc = "engine" /\ e \in Engines /\ UNCHANGED cancel
        /\ \/ /\ lock[e] = None /\ lock' = [lock EXCEPT ![e] = t] /\ UNCHANGED loop
              /\ \E held : Go(t, Admission(ask, held))
           \/ /\ UNCHANGED <<lock, loop>>
              /\ \E held : Go(t, Admission(ask, held))
           \/ /\ UNCHANGED lock /\ YieldLoop(t) /\ Go(t, has)
    BY <1>0, <1>1, LlmEngine DEF GetLlm, Position, Working
  <2>2. ~ Locking(thr[t])
    BY <2>1 DEF Locking, Freeing
  <2>3. ask \in ActorState /\ ask.eng = e /\ ask.getting /\ ask.kind = thr[t].kind
    BY <1>0, <2>1 DEF ActorState
  <2>4. HoldsLoop(thr[t]) => thr[t].kind = "route"
    BY <2>1 DEF HoldsLoop
  <2> HIDE DEF ask, has, e
  <2>5. ASSUME NEW held
        PROVE  LET r == Admission(ask, held)
               IN  Locking(r) /\ r.eng = e /\ (HoldsLoop(thr[t]) => HoldsLoop(r))
    <3>1. LET r == Admission(ask, held)
          IN  /\ r.pc \in {"evict", "load"} /\ r.eng = e
              /\ r.getting /\ r.kind = thr[t].kind
      BY <2>3 DEF Admission, ActorState
    <3> QED BY <2>4, <3>1 DEF Locking, HoldsLoop
  <2>6. CASE lock[e] = None /\ lock' = [lock EXCEPT ![e] = t] /\ UNCHANGED loop
             /\ \E held : Go(t, Admission(ask, held))
    BY <1>0, <2>1, <2>2, <2>5, <2>6, TakesLock, SameLoop, SameCancel, GoReturns
  <2>7. CASE UNCHANGED <<lock, loop>> /\ \E held : Go(t, Admission(ask, held))
    BY <1>0, <2>1, <2>2, <2>5, <2>7, FreshLocks, SameLoop, SameCancel, GoReturns
  <2>8. CASE UNCHANGED lock /\ YieldLoop(t) /\ Go(t, has)
    BY <1>0, <2>1, <2>2, <2>8, FreshLocks, Yields, SameCancel, GoReturns
  <2> QED BY <2>1, <2>6, <2>7, <2>8
<1>2. CASE Ensure(t)
  <2> DEFINE e == thr[t].eng
             r == [thr[t] EXCEPT !.pc = Loads(t)]
             q == Admission(thr[t], loaded)
  <2>1. /\ thr[t].pc = "ensure" /\ e \in Engines /\ ~ thr[t].getting
        /\ UNCHANGED <<cancel, loop>>
        /\ \/ /\ lock' = IF Keeps(t) THEN [lock EXCEPT ![e] = t] ELSE lock
              /\ Go(t, r)
           \/ lock' = [lock EXCEPT ![e] = t] /\ Go(t, q)
    BY <1>0, <1>2 DEF Ensure, Position, Freeing
  <2>2. ~ Locking(thr[t]) /\ ~ HoldsLoop(thr[t])
    BY <2>1 DEF Locking, HoldsLoop, Freeing
  <2>3. Keeps(t) => Locking(r) /\ r.eng = e
    BY <1>0, <2>1 DEF Locking, ActorState, Loads
  <2>4. Locking(q) /\ q.eng = e
    BY <1>0 DEF Admission, ActorState, Locking
  <2> HIDE DEF r, q
  <2>5. LockReturns(t)
    BY <1>0, <2>1, <2>2, <2>3, <2>4, TakesLock, FreshLocks
  <2>6. LoopReturns(t)
    BY <1>0, <2>1, <2>2, SameLoop
  <2> QED BY <1>0, <2>1, <2>5, <2>6, SameCancel, GoReturns
<1> QED BY <1>1, <1>2

\* What an eviction, an unload and the sweep do.
LEMMA WriteReturns ==
    ASSUME Typed, Placed, NothingLeftTaken, NEW t \in Actors,
           \/ EvictNext(t) \/ FreeModel(t) \/ NoteUnloaded(t) \/ ReleaseWrite(t) \/ Forget(t)
           \/ t = Sweeper /\ (SweepAcquire \/ \E n \in Names : SweepCheck(n))
    PROVE  Returns(t)
<1> USE DEF At, leases, engines, profile
<1>0. thr[t] \in ActorState /\ Position(t, thr[t])
  BY DEF Placed
<1>1. ASSUME NEW r, Go(t, r), UNCHANGED <<lock, loop, cancel>>,
             thr[t].pc # "drain", Onward(thr[t], r), HoldsLoop(thr[t]) => HoldsLoop(r)
      PROVE  Returns(t)
  BY <1>1, SameLocks, SameLoop, SameCancel, GoReturns
<1>2. CASE EvictNext(t)
  <2>1. PICK r : /\ Go(t, r)
                 /\ \E m : \/ r = [thr[t] EXCEPT !.cands = @ \ {m}]
                          \/ r = [thr[t] EXCEPT !.cands = @ \ {m}, !.pc = "free", !.victim = m]
    BY <1>2 DEF EvictNext
  <2>2. thr[t].pc = "evict" /\ UNCHANGED <<lock, loop, cancel>>
    BY <1>2 DEF EvictNext
  <2>3. /\ r.pc \in {"evict", "free"} /\ r.eng = thr[t].eng
        /\ r.kind = thr[t].kind /\ r.getting = thr[t].getting
    BY <1>0, <2>1, <2>2 DEF ActorState
  <2>4. thr[t].kind \in UseKinds
    BY <1>0, <2>2 DEF Position, Working
  <2>5. Onward(thr[t], r) /\ (HoldsLoop(thr[t]) => HoldsLoop(r))
    BY <2>2, <2>3, <2>4 DEF Onward, Locking, HoldsLoop, Freeing
  <2> QED BY <1>1, <2>1, <2>2, <2>5
<1>3. CASE FreeModel(t) \/ NoteUnloaded(t) \/ (ReleaseWrite(t) /\ thr[t].kind # "unload")
  <2>1. PICK p \in {"note", "resume", "forget"} : Go(t, [thr[t] EXCEPT !.pc = p])
    BY <1>3 DEF FreeModel, NoteUnloaded, ReleaseWrite
  <2> DEFINE r == [thr[t] EXCEPT !.pc = p]
  <2>2. thr[t].pc \in Freeing /\ UNCHANGED <<lock, loop, cancel>>
    BY <1>3 DEF FreeModel, NoteUnloaded, ReleaseWrite, Freeing
  <2>3. /\ r.pc \in Freeing /\ r.eng = thr[t].eng
        /\ r.kind = thr[t].kind /\ r.getting = thr[t].getting
    BY <1>0, <2>2 DEF ActorState, Freeing
  <2> HIDE DEF r
  <2>4. Onward(thr[t], r) /\ (HoldsLoop(thr[t]) => HoldsLoop(r))
    BY <2>2, <2>3 DEF Onward, Locking, HoldsLoop, Freeing
  <2>5. thr[t].pc # "drain"
    BY <2>2 DEF Freeing
  <2>6. Go(t, r)
    BY <2>1 DEF r
  <2> QED BY <1>1, <2>2, <2>4, <2>5, <2>6
<1>4. CASE ReleaseWrite(t) /\ thr[t].kind = "unload"
  <2>1. thr[t].pc = "resume" /\ UNCHANGED <<lock, loop, cancel>> /\ Go(t, Rest)
    BY <1>4 DEF ReleaseWrite
  <2>2. ~ Locking(thr[t]) /\ ~ HoldsLoop(thr[t])
    BY <1>4, <2>1 DEF Locking, HoldsLoop, UseKinds
  <2> QED BY <1>1, <2>1, <2>2 DEF Onward
<1>5. CASE Forget(t) /\ t # Sweeper
  <2>1. PICK p \in {"load", "evict"} : Go(t, [thr[t] EXCEPT !.victim = "none", !.pc = p])
    BY <1>5 DEF Forget
  <2> DEFINE r == [thr[t] EXCEPT !.victim = "none", !.pc = p]
  <2>2. thr[t].pc = "forget" /\ UNCHANGED <<lock, loop, cancel>>
    BY <1>5 DEF Forget
  <2>3. /\ r.pc \in {"load", "evict"} /\ r.eng = thr[t].eng
        /\ r.kind = thr[t].kind /\ r.getting = thr[t].getting
    BY <1>0 DEF ActorState
  <2> HIDE DEF r
  <2>4. Onward(thr[t], r) /\ (HoldsLoop(thr[t]) => HoldsLoop(r))
    BY <2>2, <2>3 DEF Onward, Locking, HoldsLoop
  <2>5. Go(t, r)
    BY <2>1 DEF r
  <2> QED BY <1>1, <2>2, <2>4, <2>5
<1>6. CASE (Forget(t) \/ SweepAcquire \/ \E n \in Names : SweepCheck(n)) /\ t = Sweeper
  <2>1. /\ thr[t].pc \in {"forget", "sweep", "idle"} /\ UNCHANGED <<lock, loop, cancel>>
        /\ \E r : Go(t, r)
    BY <1>6 DEF Forget, SweepAcquire, SweepCheck
  <2>2. thr[t].kind = "none"
    BY <1>0, <1>6 DEF Position
  <2>3. ~ Locking(thr[t]) /\ ~ HoldsLoop(thr[t])
    BY <2>1, <2>2 DEF Locking, HoldsLoop, UseKinds
  <2> QED BY <1>1, <2>1, <2>3 DEF Onward
<1> QED BY <1>2, <1>3, <1>4, <1>5, <1>6

\* The routes that wait for the write lease raise the cancellation and hold the
\* loop, and give both up whether they get the lease or not.
LEMMA DrainReturns ==
    ASSUME Typed, Placed, NothingLeftTaken, NEW t \in Actors,
           \/ \E n \in Names, k \in {"unload", "select"} : BeginWrite(t, n, k) \/ BeginForced(t, n, k)
           \/ Drained(t) \/ DrainTimesOut(t) \/ Select(t)
    PROVE  Returns(t)
<1> USE DEF At, leases, engines, profile
<1>0. thr[t] \in ActorState /\ Position(t, thr[t])
  BY DEF Placed
<1>1. CASE \E n \in Names, k \in {"unload", "select"} : BeginWrite(t, n, k)
  <2>1. PICK n \in Names, k \in {"unload", "select"} : BeginWrite(t, n, k)
    BY <1>1
  <2> DEFINE r == [Rest EXCEPT !.kind = k, !.victim = n,
                               !.pc = IF k = "select" THEN "select" ELSE "free"]
  <2>2. /\ thr[t].pc = "idle" /\ loop = None /\ Go(t, r) /\ UNCHANGED <<lock, cancel>>
        /\ loop' \in {loop, t} /\ (k # "select" => loop' = None)
    BY <2>1 DEF BeginWrite, KeepLoop
  <2>3. ~ Locking(thr[t])
    BY <2>2 DEF Locking, Freeing
  <2>4. k = "select" => HoldsLoop(r)
    BY DEF HoldsLoop, Rest
  <2> HIDE DEF r
  <2>5. LoopReturns(t)
    BY <2>2, <2>4, LeavesLoop, TakesLoop
  <2> QED BY <2>2, <2>3, <2>5, FreshLocks, SameCancel, GoReturns
<1>2. CASE \E n \in Names, k \in {"unload", "select"} : BeginForced(t, n, k)
  <2>1. PICK n \in Names, k \in {"unload", "select"} : BeginForced(t, n, k)
    BY <1>2
  <2> DEFINE r == [Rest EXCEPT !.kind = k, !.victim = n, !.pc = "drain"]
  <2>2. /\ t \in Tasks /\ thr[t].pc = "idle" /\ Go(t, r) /\ UNCHANGED lock
        /\ loop' = t /\ cancel' = [cancel EXCEPT ![n] = TRUE]
    BY <2>1 DEF BeginForced
  <2>3. ~ Locking(thr[t])
    BY <2>2 DEF Locking, Freeing
  <2>4. HoldsLoop(r) /\ Drains(r, n)
    BY DEF HoldsLoop, Drains, Rest
  <2> HIDE DEF r
  <2>5. thr'[t] = r
    BY <2>2 DEF Placed, Go
  <2>6. CancelReturns(t)
    BY <2>2, <2>4, <2>5 DEF CancelReturns, Drains, Typed
  <2> QED BY <2>2, <2>3, <2>4, <2>6, FreshLocks, TakesLoop, GoReturns
<1>3. CASE Drained(t) \/ DrainTimesOut(t)
  <2>1. /\ thr[t].pc = "drain" /\ UNCHANGED lock
        /\ cancel' = [cancel EXCEPT ![thr[t].victim] = FALSE]
        /\ \E r : /\ Go(t, r)
                 /\ (loop' = None \/ (loop' = t /\ HoldsLoop(r)))
    <3>1. CASE DrainTimesOut(t)
      BY <3>1 DEF DrainTimesOut
    <3>2. CASE Drained(t)
      <4> DEFINE r == [thr[t] EXCEPT !.pc = IF thr[t].kind = "select" THEN "select" ELSE "free"]
      <4>1. thr[t].kind = "select" => r.pc = "select"
        BY <1>0 DEF ActorState
      <4>2. thr[t].kind = "select" => HoldsLoop(r)
        BY <4>1 DEF HoldsLoop
      <4>3. Go(t, r) /\ loop' = IF thr[t].kind = "select" THEN t ELSE None
        BY <3>2 DEF Drained
      <4> HIDE DEF r
      <4> QED BY <3>2, <4>2, <4>3 DEF Drained
    <3> QED BY <1>3, <3>1, <3>2
  <2>2. ~ Locking(thr[t])
    BY <2>1 DEF Locking, Freeing
  <2>3. CancelReturns(t)
    BY <1>0, <2>1 DEF CancelReturns, Drains, Typed, Position
  <2> QED BY <2>1, <2>2, <2>3, FreshLocks, LeavesLoop, TakesLoop, GoReturns
<1>4. CASE Select(t)
  <2>1. thr[t].pc = "select" /\ UNCHANGED <<lock, cancel>> /\ Go(t, Rest) /\ loop' = None
    BY <1>4 DEF Select
  <2>2. ~ Locking(thr[t])
    BY <2>1 DEF Locking, Freeing
  <2> QED BY <2>1, <2>2, FreshLocks, LeavesLoop, SameCancel, GoReturns
<1> QED BY <1>1, <1>2, <1>3, <1>4

LEMMA NextReturns ==
    ASSUME Typed, Placed, GetsLlm, NothingLeftTaken, [Next]_vars
    PROVE  NothingLeftTaken'
<1> USE DEF leases, engines, profile
<1>1. ASSUME UNCHANGED <<lock, loop, cancel, thr>> PROVE NothingLeftTaken'
  BY <1>1 DEF NothingLeftTaken, LockHasHolder, LoopHasTask, CancelHasDrain
<1>2. ASSUME NEW t \in Threads \union Tasks, UseStep(t) PROVE NothingLeftTaken'
  <2>1. t \in Actors
    BY DEF Actors
  <2>2. Returns(t)
    BY <1>2, <2>1, UseReturns, EndReturns, LoadReturns, WriteReturns DEF UseStep, UseKinds
  <2> QED BY <2>1, <2>2, ReturnsTaken
<1>3. ASSUME NEW t \in Actors, WriteStep(t) PROVE NothingLeftTaken'
  BY <1>3, WriteReturns, DrainReturns, ReturnsTaken DEF WriteStep
<1>4. CASE SweepAcquire \/ \E n \in Names : SweepCheck(n)
  <2>1. Sweeper \in Actors
    BY DEF Actors
  <2> QED BY <1>4, <2>1, WriteReturns, ReturnsTaken
<1>5. CASE \/ SwitchProfile \/ VoiceIdles \/ UNCHANGED vars
           \/ \E n \in Names : Age(n) \/ SetPinned(n)
  BY <1>1, <1>5 DEF SwitchProfile, VoiceIdles, Age, SetPinned, vars
<1> QED BY <1>2, <1>3, <1>4, <1>5 DEF Next

\* Whatever path a use, a load, an eviction or a route takes (refused, failed,
\* timed out, cancelled), an engine's lock is held only by one that loads or
\* answers from that engine, a cancellation is up only while somebody drains
\* that runtime, and the loop is held only where a coroutine computes or waits
\* inside a lock (model_runtime_coordinator.py, transcriber.py, tts_engine.py).
THEOREM NothingLeftTaken_Safety == Spec => []NothingLeftTaken
<1>1. Init => GetsLlm
  BY DEF Init, GetsLlm, Rest
<1>2. Init => NothingLeftTaken
  BY DEF Init, NothingLeftTaken, LockHasHolder, LoopHasTask, CancelHasDrain
<1> QED BY <1>1, <1>2, NextFetches, NextReturns, TypedAlways, PTL DEF Spec

=============================================================================
