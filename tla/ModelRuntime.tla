---------------------------- MODULE ModelRuntime ----------------------------
(***************************************************************************)
(* The speech, language and voice models of the sidecar: the read/write     *)
(* lease of each runtime, the ledger of what is resident, admission with    *)
(* eviction, the idle sweep, and the engines as the routes, the pipeline    *)
(* and the warm-up use them (backend/runtime/model_runtime_coordinator.py,  *)
(* server.py, transcriber.py, llm_engine.py, tts_engine.py, routes).        *)
(*                                                                          *)
(* Plain threads (the pipeline, thread-pool jobs) block only themselves.    *)
(* The coroutines of Tasks share the event loop: `loop' is the one that     *)
(* holds it, between two awaits or while it waits inside a lock.            *)
(***************************************************************************)
EXTENDS FiniteSets, Naturals

CONSTANTS
    Names,      \* the runtimes of the coordinator, out of "stt", "llm", "tts"
    Threads,    \* threads that use or warm a model
    Tasks,      \* coroutines of the event loop
    Sweeper,    \* the idle-sweep thread
    None,
    Plans,      \* bound: sets of uses and pins, one of which a behaviour keeps to
    Copies,     \* bound: engine objects of one runtime alive at a time
    Ram         \* models that fit above the RAM floor, each counted as one

\* Which uses the code has of which runtime, in threads and on the loop.
ThreadUses == {<<"stt", "use">>, <<"stt", "bare">>, <<"stt", "warm">>,
               <<"llm", "use">>, <<"llm", "bare">>, <<"llm", "warm">>,
               <<"tts", "use">>, <<"tts", "warm">>}
LoopUses == {<<"stt", "route">>, <<"llm", "route">>, <<"tts", "use">>}

ASSUME RuntimeAssumption ==
    /\ Names \subseteq {"stt", "llm", "tts"}
    /\ Copies \in [Names -> Nat \ {0}]
    /\ "llm" \in Names => Copies["llm"] = 1
    /\ Ram \in Nat
    /\ Threads \intersect Tasks = {}
    /\ Sweeper \notin Threads \union Tasks
    /\ None \notin Threads \union Tasks \union {Sweeper}

Actors == Threads \union Tasks \union {Sweeper}

\* An engine object: of speech and voice there may be several, an old one in
\* use beside the one the global names; llm_engine.py is a process-wide
\* singleton that starts and stops one llama-server.
Engines == UNION {{n} \X (1 .. Copies[n]) : n \in Names}
NoEngine == <<"none", 0>>

VARIABLES
    readers,     \* per runtime: the holders of a read lease
    writer,      \* per runtime: the holder of the write lease, or None
    cancel,      \* per runtime: readers are asked to bail out
    ledger,      \* per runtime: no entry, recently used, or idle past its time
    pinned,      \* per runtime: kept loaded by the profile
    plan,        \* bound: the uses and pins of this behaviour
    engine,      \* per runtime: the module global that names the engine
    loaded,      \* the engines that hold a model in memory
    lock,        \* per engine: the holder of its model lock, or None
    constructed, \* LLMEngine._initialized
    outdated,    \* the running llama-server is not the profile's choice
    loop,        \* the coroutine that holds the event loop, or None
    thr          \* per actor: where it is

vars == <<readers, writer, cancel, ledger, pinned, plan, engine, loaded,
          lock, constructed, outdated, loop, thr>>
leases == <<readers, writer, cancel>>
profile == <<pinned, plan>>
engines == <<engine, loaded, lock, constructed, outdated>>

Rest == [pc |-> "idle", kind |-> "none", n |-> "none", eng |-> NoEngine,
         getting |-> FALSE, cands |-> {}, victim |-> "none"]

Go(t, r) == thr' = [thr EXCEPT ![t] = r]
At(t, pc) == thr[t].pc = pc

\* A coroutine runs only while no other one holds the loop.
Scheduled(t) == t \in Tasks => loop \in {None, t}
KeepLoop(t) == loop' = IF t \in Tasks THEN t ELSE loop
YieldLoop(t) == loop' = IF t \in Tasks THEN None ELSE loop

Named(e) == e \in {engine[n] : n \in Names} \/ e = <<"llm", 1>>
Held(e) == \E t \in Actors : thr[t].eng = e
Free(e) == e \in Engines /\ ~ Named(e) /\ ~ Held(e)

\* The last reference to an engine the global no longer names frees it.
Drop(t) ==
    LET e == thr[t].eng
    IN  loaded' = IF ~ Named(e) /\ ~ \E u \in Actors \ {t} : thr[u].eng = e
                  THEN loaded \ {e} ELSE loaded
Unlock(t) == lock' = [e \in Engines |-> IF lock[e] = t THEN None ELSE lock[e]]

Init ==
    /\ readers = [n \in Names |-> {}]
    /\ writer = [n \in Names |-> None]
    /\ cancel = [n \in Names |-> FALSE]
    /\ ledger = [n \in Names |-> "none"]
    /\ pinned = [n \in Names |-> FALSE]
    /\ plan \in Plans
    /\ engine = [n \in Names |-> NoEngine]
    /\ loaded = {}
    /\ lock = [e \in Engines |-> None]
    /\ constructed = FALSE
    /\ outdated = FALSE
    /\ loop = None
    /\ thr = [t \in Actors |-> Rest]

-----------------------------------------------------------------------------
(* A use of a model. "use" finds its engine and then takes the read lease   *)
(* (the pipeline, the rewrite, the speech routes); "route" takes the lease  *)
(* first (transcribe, retranscribe, llm/process); "bare" takes none (the    *)
(* persona, contact and rescue routes, the warm-up probe); "warm" only      *)
(* loads (keep-loaded).                                                     *)

Begin(t, n, kind) ==
    /\ At(t, "idle") /\ Scheduled(t)
    /\ <<n, kind>> \in plan \intersect (IF t \in Tasks THEN LoopUses ELSE ThreadUses)
    /\ Go(t, [Rest EXCEPT !.pc = IF kind = "route" THEN "lease" ELSE "engine",
                          !.kind = kind, !.n = n])
    /\ UNCHANGED <<leases, engines, ledger, profile, loop>>

\* _cond.wait() in a coroutine: the whole loop waits with it.
Block(t) ==
    /\ t \in Tasks /\ loop = None
    /\ At(t, "lease") /\ writer[thr[t].n] # None
    /\ loop' = t
    /\ UNCHANGED <<leases, engines, ledger, profile, thr>>

AcquireReadAnyway(t) ==
    /\ At(t, "lease") /\ Scheduled(t)
    /\ readers' = [readers EXCEPT ![thr[t].n] = @ \union {t}]
    /\ Go(t, [thr[t] EXCEPT !.pc = IF thr[t].kind = "route" THEN "engine" ELSE "ensure"])
    /\ YieldLoop(t)
    /\ UNCHANGED <<writer, cancel, engines, ledger, profile>>
AcquireRead(t) ==
    LET n == thr[t].n
    IN  /\ At(t, "lease") /\ Scheduled(t)
        /\ writer[n] = None
        /\ readers' = [readers EXCEPT ![n] = @ \union {t}]
        /\ ledger' = [ledger EXCEPT ![n] = IF @ = "none" THEN @ ELSE "used"]
        /\ IF thr[t].kind = "route"
           THEN Go(t, [thr[t] EXCEPT !.pc = "engine"]) /\ KeepLoop(t)
           ELSE Go(t, [thr[t] EXCEPT !.pc = "ensure"]) /\ YieldLoop(t)
        /\ UNCHANGED <<writer, cancel, engines, profile>>

ReleaseRead(t) ==
    LET n == thr[t].n
    IN  /\ At(t, "release") /\ Scheduled(t)
        /\ readers' = [readers EXCEPT ![n] = @ \ {t}]
        /\ Drop(t) /\ Go(t, Rest) /\ YieldLoop(t)
        /\ UNCHANGED <<writer, cancel, ledger, profile, engine, lock,
                       constructed, outdated>>

\* Where a use goes when it has its engine, when its model is loaded, and
\* when it gets none.
HasEngine(k) == CASE k = "use" -> "lease" [] k = "warm" -> "stop" [] OTHER -> "ensure"
HasModel(k) == IF k = "warm" THEN "stop" ELSE "infer"
GivesUpHolding(k) == IF k = "use" THEN "release" ELSE "stop"
GivesUp(k) == IF k \in {"use", "route"} THEN "release" ELSE "stop"

\* ensure_transcriber_initialized, ensure_tts_initialized: the global is
\* tested, assigned and read again, each without a lock. The transcription
\* routes only read it.
FindEngine(t) ==
    LET n == thr[t].n
    IN  /\ At(t, "engine") /\ n # "llm"
        /\ \/ /\ thr[t].kind = "route"
              /\ Go(t, [thr[t] EXCEPT !.eng = engine[n],
                        !.pc = IF engine[n] = NoEngine THEN "release" ELSE "ensure"])
              /\ YieldLoop(t)
           \/ /\ thr[t].kind # "route"
              /\ Go(t, [thr[t] EXCEPT !.pc = IF engine[n] = NoEngine
                                             THEN "create" ELSE "return"])
              /\ UNCHANGED loop
        /\ UNCHANGED <<leases, engines, ledger, profile>>

CreateEngine(t) ==
    LET n == thr[t].n
        New == {e \in Engines : e[1] = n /\ Free(e)}
    IN  /\ At(t, "create")
        /\ New # {}
        /\ engine' = [engine EXCEPT ![n] = CHOOSE e \in New : TRUE]
        /\ loaded' = IF Held(engine[n]) THEN loaded ELSE loaded \ {engine[n]}
        /\ Go(t, [thr[t] EXCEPT !.pc = "return"])
        /\ UNCHANGED <<leases, ledger, profile, lock, constructed, outdated, loop>>

\* An engine unloaded in between is None here, and the use raises.
ReturnEngineUnread(t) ==
    /\ At(t, "return")
    /\ Go(t, [thr[t] EXCEPT !.eng = engine[thr[t].n],
              !.pc = IF thr[t].kind = "use" THEN "lease" ELSE "ensure"])
    /\ UNCHANGED <<leases, engines, ledger, profile, loop>>
ReturnEngine(t) ==
    LET e == engine[thr[t].n]
    IN  /\ At(t, "return")
        /\ Go(t, IF e = NoEngine THEN Rest
                 ELSE [thr[t] EXCEPT !.eng = e,
                       !.pc = IF thr[t].kind = "use" THEN "lease" ELSE "ensure"])
        /\ UNCHANGED <<leases, engines, ledger, profile, loop>>

-----------------------------------------------------------------------------
(* Loading. A load runs under its engine's lock, a reload of the            *)
(* llama-server under none. It is admitted if one more model fits, a model  *)
(* the ledger has for the same runtime being credited; else the loader      *)
(* evicts the unpinned residents of a snapshot until it does.               *)

\* The loader r with the models of `held' in memory asks for admission.
Fits(r, held) == Cardinality(held) < Ram + (IF ledger[r.n] = "none" THEN 0 ELSE 1)
Admission(r, held) ==
    IF Fits(r, held) THEN [r EXCEPT !.pc = "load"]
    ELSE [r EXCEPT !.pc = "evict",
          !.cands = {m \in Names \ {r.n} : ledger[m] # "none" /\ ~ pinned[m]}]

\* get_selected_llm_engine: the first call constructs the singleton, which
\* starts the server; a server with another model is stopped and restarted.
GetLlm(t) ==
    LET e == <<"llm", 1>>
        use == [thr[t] EXCEPT !.eng = e]
    IN  /\ At(t, "engine") /\ thr[t].n = "llm"
        /\ \/ /\ ~ constructed /\ lock[e] = None
              /\ lock' = [lock EXCEPT ![e] = t]
              /\ Go(t, Admission([use EXCEPT !.getting = TRUE], loaded))
              /\ UNCHANGED <<loaded, loop>>
           \/ /\ constructed /\ e \in loaded /\ outdated
              /\ loaded' = loaded \ {e}
              /\ Go(t, Admission([use EXCEPT !.getting = TRUE], loaded'))
              /\ UNCHANGED <<lock, loop>>
           \/ /\ constructed /\ ~ (e \in loaded /\ outdated)
              /\ Go(t, [use EXCEPT !.pc = HasEngine(thr[t].kind)])
              /\ YieldLoop(t)
              /\ UNCHANGED <<loaded, lock>>
        /\ UNCHANGED <<leases, ledger, profile, engine, constructed, outdated>>

\* A voice request and the speech probe keep the engine's lock until the end.
Keeps(t) == <<thr[t].n, thr[t].kind>> \in {<<"tts", "use">>, <<"stt", "bare">>}
Loads(t) == IF thr[t].getting THEN HasEngine(thr[t].kind)
            ELSE IF Keeps(t) THEN "busy" ELSE HasModel(thr[t].kind)

Ensure(t) ==
    LET e == thr[t].eng
    IN  /\ At(t, "ensure")
        /\ \/ /\ e \in loaded /\ (e[1] = "llm" \/ lock[e] = None)
              /\ lock' = IF Keeps(t) THEN [lock EXCEPT ![e] = t] ELSE lock
              /\ Go(t, [thr[t] EXCEPT !.pc = Loads(t)])
           \/ /\ e \notin loaded /\ lock[e] = None
              /\ lock' = [lock EXCEPT ![e] = t]
              /\ Go(t, Admission(thr[t], loaded))
        /\ UNCHANGED <<leases, ledger, profile, engine, loaded, constructed,
                       outdated, loop>>

\* A load that is refused or fails. The llama-server's constructor does not
\* mind: the engine exists and its user finds it not ready.
GiveUpLoad(t) ==
    /\ Unlock(t)
    /\ constructed' = (constructed \/ thr[t].getting)
    /\ Go(t, [thr[t] EXCEPT !.getting = FALSE, !.cands = {},
              !.pc = IF thr[t].getting THEN HasEngine(thr[t].kind)
                     ELSE GivesUp(thr[t].kind)])
    /\ loop' = IF loop = t THEN None ELSE loop
    /\ UNCHANGED <<leases, ledger, profile, engine, loaded, outdated>>

Refused(t) == At(t, "evict") /\ thr[t].cands = {} /\ GiveUpLoad(t)
LoadFails(t) == At(t, "load") /\ GiveUpLoad(t)

Load(t) ==
    LET e == thr[t].eng
    IN  /\ At(t, "load")
        /\ loaded' = loaded \union {e}
        /\ outdated' = (outdated /\ e[1] # "llm")
        /\ Go(t, [thr[t] EXCEPT !.pc = "report"])
        /\ UNCHANGED <<leases, ledger, profile, engine, lock, constructed, loop>>

Report(t) ==
    /\ At(t, "report")
    /\ ledger' = [ledger EXCEPT ![thr[t].n] = "used"]
    /\ IF Keeps(t) THEN UNCHANGED lock ELSE Unlock(t)
    /\ constructed' = (constructed \/ thr[t].getting)
    /\ Go(t, [thr[t] EXCEPT !.pc = Loads(t), !.getting = FALSE, !.cands = {}])
    /\ loop' = IF loop = t THEN None ELSE loop
    /\ UNCHANGED <<leases, profile, engine, loaded, outdated>>

\* The model answers. A decode holds the model lock and finds None if the
\* model was unloaded since the load; a completion is a request to the server.
Infer(t) ==
    LET e == thr[t].eng
    IN  /\ At(t, "infer")
        /\ e[1] = "llm" \/ lock[e] = None
        /\ IF e \in loaded
           THEN /\ lock' = IF e[1] = "llm" THEN lock ELSE [lock EXCEPT ![e] = t]
                /\ Go(t, [thr[t] EXCEPT !.pc = "busy"])
           ELSE /\ Go(t, [thr[t] EXCEPT !.pc = GivesUp(thr[t].kind)])
                /\ UNCHANGED lock
        /\ UNCHANGED <<leases, ledger, profile, engine, loaded, constructed,
                       outdated, loop>>

Answer(t) ==
    /\ At(t, "busy")
    /\ Unlock(t)
    /\ Go(t, [thr[t] EXCEPT !.pc = GivesUp(thr[t].kind)])
    /\ UNCHANGED <<leases, ledger, profile, engine, loaded, constructed,
                   outdated, loop>>

Stop(t) ==
    /\ At(t, "stop")
    /\ Drop(t) /\ Go(t, Rest)
    /\ UNCHANGED <<leases, ledger, profile, engine, lock, constructed,
                   outdated, loop>>

-----------------------------------------------------------------------------
(* Writers: an eviction by a loader or by the sweep never waits; a route    *)
(* may wait ("force"), and then waits on the event loop. thr[t].n is the    *)
(* runtime to free, except for a loader, which keeps it in `victim'.        *)

TakeWrite(t, n) == writer' = [writer EXCEPT ![n] = t]
BusyWriting(n) == writer[n] # None
Busy(n) == readers[n] # {} \/ writer[n] # None

EvictNext(t) ==
    /\ At(t, "evict")
    /\ \E m \in thr[t].cands :
         \/ /\ Busy(m)
            /\ Go(t, [thr[t] EXCEPT !.cands = @ \ {m}])
            /\ UNCHANGED writer
         \/ /\ ~ Busy(m)
            /\ TakeWrite(t, m)
            /\ Go(t, [thr[t] EXCEPT !.cands = @ \ {m}, !.pc = "free", !.victim = m])
    /\ UNCHANGED <<readers, cancel, engines, ledger, profile, loop>>

SweepCheck(n) ==
    /\ At(Sweeper, "idle") /\ n \in Names \intersect {"stt", "llm"}
    /\ ledger[n] = "idle" /\ ~ pinned[n]
    /\ Go(Sweeper, [Rest EXCEPT !.pc = "sweep", !.victim = n])
    /\ UNCHANGED <<leases, engines, ledger, profile, loop>>

SweepAcquire ==
    LET n == thr[Sweeper].victim
    IN  /\ At(Sweeper, "sweep")
        /\ \/ /\ Busy(n) /\ Go(Sweeper, Rest)
              /\ UNCHANGED writer
           \/ /\ ~ Busy(n) /\ TakeWrite(Sweeper, n)
              /\ Go(Sweeper, [thr[Sweeper] EXCEPT !.pc = "free"])
        /\ UNCHANGED <<readers, cancel, engines, ledger, profile, loop>>

\* The routes that unload a runtime (awaiting a pool thread) or select or
\* delete a language model (on the loop). Refused at once when busy.
BeginWrite(t, n, kind) ==
    /\ t \in Tasks /\ At(t, "idle") /\ loop = None
    /\ kind = "select" => n = "llm"
    /\ ~ Busy(n)
    /\ TakeWrite(t, n)
    /\ Go(t, [Rest EXCEPT !.kind = kind, !.victim = n,
              !.pc = IF kind = "select" THEN "select" ELSE "free"])
    /\ IF kind = "select" THEN KeepLoop(t) ELSE UNCHANGED loop
    /\ UNCHANGED <<readers, cancel, engines, ledger, profile>>

BeginForced(t, n, kind) ==
    /\ t \in Tasks /\ At(t, "idle") /\ loop = None
    /\ kind = "select" => n = "llm"
    /\ Busy(n)
    /\ cancel' = [cancel EXCEPT ![n] = TRUE]
    /\ Go(t, [Rest EXCEPT !.kind = kind, !.victim = n, !.pc = "drain"])
    /\ loop' = t
    /\ UNCHANGED <<readers, writer, engines, ledger, profile>>

Drained(t) ==
    LET n == thr[t].victim
    IN  /\ At(t, "drain")
        /\ ~ Busy(n)
        /\ TakeWrite(t, n)
        /\ cancel' = [cancel EXCEPT ![n] = FALSE]
        /\ Go(t, [thr[t] EXCEPT !.pc = IF thr[t].kind = "select" THEN "select" ELSE "free"])
        /\ loop' = IF thr[t].kind = "select" THEN t ELSE None
        /\ UNCHANGED <<readers, engines, ledger, profile>>

DrainTimesOut(t) ==
    LET n == thr[t].victim
    IN  /\ At(t, "drain")
        /\ Busy(n)
        /\ cancel' = [cancel EXCEPT ![n] = FALSE]
        /\ Go(t, Rest)
        /\ loop' = None
        /\ UNCHANGED <<readers, writer, engines, ledger, profile>>

\* _unload_model_component_locked, first half: the engine lets its model go
\* (under its own lock) and the global forgets it.
FreeModel(t) ==
    LET n == thr[t].victim
        e == IF n = "llm" THEN <<"llm", 1>> ELSE engine[n]
    IN  /\ At(t, "free")
        /\ n # "llm" /\ e # NoEngine => lock[e] = None
        /\ loaded' = loaded \ {e}
        /\ engine' = [engine EXCEPT ![n] = NoEngine]
        /\ Go(t, [thr[t] EXCEPT !.pc = "note"])
        /\ UNCHANGED <<leases, ledger, profile, lock, constructed, outdated, loop>>

\* Second half, still under the lease: the ledger forgets the runtime.
NoteUnloaded(t) ==
    /\ At(t, "note")
    /\ ledger' = [ledger EXCEPT ![thr[t].victim] = "none"]
    /\ Go(t, [thr[t] EXCEPT !.pc = "resume"])
    /\ UNCHANGED <<leases, engines, profile, loop>>

\* release_write. An eviction notes the unload once more afterwards.
ReleaseWrite(t) ==
    LET n == thr[t].victim
    IN  /\ At(t, "resume") /\ (thr[t].kind = "unload" => Scheduled(t))
        /\ writer' = [writer EXCEPT ![n] = None]
        /\ Go(t, IF thr[t].kind = "unload" THEN Rest ELSE [thr[t] EXCEPT !.pc = "forget"])
        /\ UNCHANGED <<readers, cancel, engines, ledger, profile, loop>>

Forget(t) ==
    /\ At(t, "forget")
    /\ ledger' = [ledger EXCEPT ![thr[t].victim] = "none"]
    /\ Go(t, IF t = Sweeper THEN Rest
             ELSE [thr[t] EXCEPT !.victim = "none",
                   !.pc = IF Fits(thr[t], loaded) THEN "load" ELSE "evict"])
    /\ UNCHANGED <<leases, engines, profile, loop>>

\* select_llm_model writes the profile's choice and frees nothing; reading
\* or saving the profile may raise, and the lease ends all the same.
Select(t) ==
    LET n == thr[t].victim
    IN  /\ At(t, "select")
        /\ outdated' = outdated \/ outdated' = (<<"llm", 1>> \in loaded)
        /\ writer' = [writer EXCEPT ![n] = None]
        /\ Go(t, Rest) /\ loop' = None
        /\ UNCHANGED <<readers, cancel, engine, loaded, lock, constructed,
                       ledger, profile>>

-----------------------------------------------------------------------------
(* What frees or changes a model without a lease: deleting or selecting a   *)
(* speech model and activating a profile, which take the model lock only;   *)
(* the voice engine's idle timer; time; the keep-loaded switch.             *)

BeginDrop(t) ==
    /\ t # Sweeper /\ At(t, "idle") /\ Scheduled(t)
    /\ "stt" \in Names /\ engine["stt"] # NoEngine
    /\ Go(t, [Rest EXCEPT !.pc = "drop", !.n = "stt", !.eng = engine["stt"]])
    /\ KeepLoop(t)
    /\ UNCHANGED <<leases, engines, ledger, profile>>

DropModel(t) ==
    LET e == thr[t].eng
    IN  /\ At(t, "drop") /\ lock[e] = None
        /\ loaded' = loaded \ {e}
        /\ Go(t, Rest) /\ YieldLoop(t)
        /\ UNCHANGED <<leases, ledger, profile, engine, lock, constructed, outdated>>

SwitchProfile ==
    /\ <<"llm", 1>> \in loaded /\ outdated' = ~ outdated
    /\ UNCHANGED <<leases, ledger, profile, engine, loaded, lock, constructed, loop, thr>>

VoiceIdles ==
    /\ "tts" \in Names
    /\ engine["tts"] \in loaded /\ lock[engine["tts"]] = None
    /\ loaded' = loaded \ {engine["tts"]}
    /\ UNCHANGED <<leases, ledger, profile, engine, lock, constructed, outdated, loop, thr>>

Age(n) ==
    /\ ledger[n] = "used" /\ ledger' = [ledger EXCEPT ![n] = "idle"]
    /\ UNCHANGED <<leases, engines, profile, loop, thr>>

SetPinned(n) ==
    /\ <<n, "pin">> \in plan
    /\ pinned' = [pinned EXCEPT ![n] = ~ @]
    /\ UNCHANGED <<leases, engines, ledger, plan, loop, thr>>

-----------------------------------------------------------------------------

UseStep(t) ==
    \/ \E n \in Names, k \in {"use", "route", "bare", "warm"} :
         Begin(t, n, k)
    \/ Block(t) \/ AcquireRead(t) \/ ReleaseRead(t)
    \/ FindEngine(t) \/ CreateEngine(t) \/ ReturnEngine(t) \/ GetLlm(t)
    \/ Ensure(t) \/ EvictNext(t) \/ Refused(t) \/ LoadFails(t)
    \/ Load(t) \/ Report(t) \/ Infer(t) \/ Answer(t) \/ Stop(t)
    \/ BeginDrop(t) \/ DropModel(t)

WriteStep(t) ==
    \/ \E n \in Names, k \in {"unload", "select"} :
         BeginWrite(t, n, k) \/ BeginForced(t, n, k)
    \/ Drained(t) \/ DrainTimesOut(t) \/ Select(t)
    \/ FreeModel(t) \/ NoteUnloaded(t) \/ ReleaseWrite(t) \/ Forget(t)

Next ==
    \/ \E t \in Threads \union Tasks : UseStep(t)
    \/ \E t \in Actors : WriteStep(t)
    \/ SweepAcquire \/ SwitchProfile \/ VoiceIdles
    \/ \E n \in Names : SweepCheck(n) \/ Age(n) \/ SetPinned(n)

Spec == Init /\ [][Next]_vars

-----------------------------------------------------------------------------

\* Every variable has its type, and an actor that loads or infers has an engine
\* in hand, never the None of a global that an unload has cleared.
ActorState ==
    [pc : {"idle", "engine", "create", "return", "lease", "ensure", "evict",
           "load", "report", "infer", "busy", "release", "stop", "sweep",
           "drain", "free", "note", "resume", "forget", "select", "drop"},
     kind : {"none", "use", "route", "bare", "warm", "unload", "select"},
     n : Names \union {"none"}, eng : Engines \union {NoEngine},
     getting : BOOLEAN, cands : SUBSET Names, victim : Names \union {"none"}]
TypeOK ==
    /\ readers \in [Names -> SUBSET Actors]
    /\ writer \in [Names -> Actors \union {None}]
    /\ cancel \in [Names -> BOOLEAN]
    /\ ledger \in [Names -> {"none", "used", "idle"}]
    /\ pinned \in [Names -> BOOLEAN] /\ plan \in Plans
    /\ engine \in [Names -> Engines \union {NoEngine}]
    /\ loaded \subseteq Engines
    /\ lock \in [Engines -> Actors \union {None}]
    /\ constructed \in BOOLEAN /\ outdated \in BOOLEAN
    /\ loop \in Tasks \union {None}
    /\ thr \in [Actors -> ActorState]
    /\ \A t \in Actors : thr[t].pc \in {"ensure", "load", "report", "infer", "busy"}
                          => thr[t].eng \in Engines

\* Where an actor in state r stands with respect to the lease of runtime n.
InUse(r, n) ==
    /\ r.kind \in {"use", "route"} /\ r.n = n
    /\ \/ r.pc \in {"ensure", "infer", "busy", "release"}
       \/ r.kind = "route" /\ r.pc = "engine"
       \/ r.pc \in {"evict", "load", "report", "free", "note", "resume", "forget"}
          /\ (r.getting => r.kind = "route")
InRebuild(r, n) == r.victim = n /\ r.pc \in {"free", "note", "resume", "select"}
Using(t, n) == InUse(thr[t], n)
Rebuilding(t, n) == InRebuild(thr[t], n)

\* Inference and destruction exclude each other on every runtime, whoever
\* does them and by whichever path (coordinator, lines 8-16): what the actors
\* do, read off their positions in the code, implements ExclusiveUse.
using == [n \in Names |-> {t \in Actors : Using(t, n)}]
rebuilder == [n \in Names |-> IF \E t \in Actors : Rebuilding(t, n)
                              THEN CHOOSE t \in Actors : Rebuilding(t, n) ELSE None]
Lease == INSTANCE ExclusiveUse
           WITH Runtimes <- Names, Nobody <- None, users <- using, owner <- rebuilder
LeaseKept == Lease!Spec

\* A model some lease holder has in hand is freed only by the paths that take
\* no lease (a whisper delete or profile change, a server reload, the voice
\* engine's own timer), and, the server's reload apart, never while it
\* answers. No unload, eviction or sweep does it, not even to an engine the
\* global names no more.
Unleased(u) == thr'[u] # thr[u] /\ thr[u].pc \in {"drop", "engine"}
LeasedModelSpared ==
    [][\A t \in Actors, n \in Names :
         (Using(t, n) /\ Using(t, n)' /\ thr[t].eng \in loaded \ loaded')
           => /\ At(t, "busy") => n = "llm"
              /\ thr' = thr => n = "tts"
              /\ thr' # thr => \E u \in Actors : Unleased(u)]_vars

\* Every path through a use, an eviction, the sweep and the routes returns the
\* lease it took, exactly once and on the runtime it took it for.
LeasesAccounted ==
    \A n \in Names :
      /\ readers[n] = {t \in Actors : Using(t, n)}
      /\ \A t \in Actors : writer[n] = t <=> Rebuilding(t, n)

\* A coroutine that finds its runtime being reconfigured is answered: it
\* does not hold the loop for a lease whose owner needs the loop to return it.
LoopNotSelfBlocked ==
    \A t \in Tasks : ~ /\ loop = t /\ At(t, "lease")
                       /\ \E u \in Tasks \ {t} : writer[thr[t].n] = u

=============================================================================
