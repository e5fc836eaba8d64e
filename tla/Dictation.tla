----------------------------- MODULE Dictation -----------------------------
(***************************************************************************)
(* A recording's way from the microphone to a draft: the hotkey manager's  *)
(* start and stop, the bounded queue of held recordings with its drop      *)
(* generation, the dispatcher, the single-flight gate of                   *)
(* DictationCoordinator shared by the dispatcher, draft retries, selection *)
(* rewrites and a privacy wipe, the cancellation event and the job's own   *)
(* cancel flag, the recovery bin, saves and steps that fail, and a crash.  *)
(*                                                                         *)
(* A recording is its number; the pipeline's stages are counted, not       *)
(* named.  A selection rewrite is a pipeline without a recording.          *)
(***************************************************************************)
EXTENDS Naturals, FiniteSets, SequencesExt

CONSTANTS
  Producers,      \* threads that start and stop recordings (hotkey, watchdog)
  Dispatcher,     \* the recording dispatcher
  Callers,        \* pool threads: draft retries and selection rewrites
  Wipers,         \* threads running _perform_privacy_wipe
  Stoppers,       \* threads of an emergency stop
  None,           \* no holder, no recording
  Cap,            \* MAX_PENDING_RECORDINGS
  Stages,         \* number of pipeline stages
  MaxRecordings,  \* bound: recordings made
  MaxDrops,       \* bound: wipes that drop the queue
  MayCrash        \* whether the process may die

Pipelines == {Dispatcher} \union Callers
Threads   == Producers \union Pipelines \union Wipers \union Stoppers

ASSUME DictationAssumption ==
  /\ Cap \in Nat /\ Stages \in Nat \ {0} /\ MaxRecordings \in Nat /\ MaxDrops \in Nat
  /\ MayCrash \in BOOLEAN
  /\ None \notin Threads \union Nat
  /\ Dispatcher \notin Producers \union Callers \union Wipers
  /\ Stoppers \intersect (Producers \union Pipelines \union Wipers) = {}
  /\ Producers \intersect (Callers \union Wipers) = {}
  /\ Callers \intersect Wipers = {}

VARIABLES
  recording,   \* HotkeyManager.is_recording
  held,        \* _pending_recordings: recordings with the generation they were put under
  generation,  \* _pending_drop_generation
  gate,        \* holder of DictationCoordinator._gate
  cancelEv,    \* cancellation_event
  job,         \* _active_dictation_job_id: the thread whose job it is
  jobCancel,   \* the threads whose job has its cancel flag set
  processing,  \* is_processing_draft
  wiping,      \* privacy_wipe_in_progress
  thr,         \* per thread: program counter and locals
  saved,       \* recordings in the recovery bin
  drafted,     \* recordings with a draft
  born,        \* recordings made so far
  discarded,   \* history: recordings given up to a wipe
  dropped,     \* history: recordings that a failing step let go of with no copy
  lost,        \* history: recordings a crash took before they were saved, or bare
  stopped      \* history: pipelines stopped while they ran

flowVs == << recording, held, generation >>
gateVs == << gate, cancelEv, job, jobCancel, processing >>
outVs  == << saved, drafted >>
ghosts == << discarded, dropped, lost, stopped >>
vars   == << flowVs, gateVs, wiping, thr, outVs, born, ghosts >>

Recs == 1..MaxRecordings
Pcs  == {"idle", "starting", "depth", "put", "overflow", "rescue",
         "fresh", "enter", "await", "claim", "recheck", "register", "persist",
         "stage", "run", "report", "wind", "release", "busy", "rewrite",
         "flag", "stop", "drop", "cancel", "gate", "clear", "delete", "ungate", "unflag",
         "stopjob"}
Idle == [pc |-> "idle", rec |-> None, gen |-> 0, stage |-> 0, mode |-> "none", target |-> None]

\* A pipeline thread that holds the gate and has cleared the cancellation event.
Running  == {"recheck", "register", "persist", "stage", "run", "report", "rewrite", "wind"}
\* A run that has passed its save, or has settled without one.
Staged   == {"stage", "run", "report", "wind", "release"}
\* The window in which is_processing_draft is set.
Working  == {"persist", "stage", "run", "report", "rewrite", "wind"}
\* A wipe that has claimed the gate.
Deleting == {"delete", "ungate"}

Goto(t, pc) == thr' = [thr EXCEPT ![t].pc = pc]
\* A wipe that ran the completion callback itself goes on with its drop.
Done(t)     == thr' = [thr EXCEPT ![t] = IF t \in Wipers THEN [Idle EXCEPT !.pc = "drop"]
                                                         ELSE Idle]
Discard(t)  == discarded' = discarded \union ({thr[t].rec} \ {None})

\* A recording that is retried is in a draft; any other is in its thread's hands
\* only, until it is saved.
Sole(t)  == IF thr[t].mode = "retry" THEN {} ELSE {thr[t].rec}
LetGo(t) == dropped' = dropped \union Sole(t)
-----------------------------------------------------------------------------
Init ==
  /\ recording = FALSE /\ held = << >> /\ generation = 0
  /\ gate = None /\ cancelEv = FALSE /\ job = None /\ jobCancel = {} /\ processing = FALSE
  /\ wiping = FALSE
  /\ thr = [t \in Threads |-> Idle]
  /\ saved = {} /\ drafted = {} /\ born = 0
  /\ discarded = {} /\ dropped = {} /\ lost = {} /\ stopped = {}
-----------------------------------------------------------------------------
(* The microphone and the queue of held recordings. *)

\* is_busy_callback reads the wipe flag; is_recording is set afterwards.
StartCheck(p) ==
  /\ thr[p].pc = "idle" /\ ~wiping
  /\ Goto(p, "starting")
  /\ UNCHANGED << flowVs, gateVs, wiping, outVs, born, ghosts >>

\* The recorder may fail to start, or somebody else already has.
Start(p) ==
  /\ thr[p].pc = "starting"
  /\ \/ ~recording /\ born < MaxRecordings /\ recording' = TRUE /\ born' = born + 1
     \/ UNCHANGED << recording, born >>
  /\ Done(p)
  /\ UNCHANGED << held, generation, gateVs, wiping, outVs, ghosts >>

\* _stop_recording: is_recording falls before the recorder has been stopped and
\* the completion callback has run.
Stopping(t) ==
  /\ recording
  /\ recording' = FALSE
  /\ thr' = [thr EXCEPT ![t].pc = "depth", ![t].rec = born]

Stop(p) ==
  /\ thr[p].pc = "idle"
  /\ Stopping(p)
  /\ UNCHANGED << held, generation, gateVs, wiping, outVs, born, ghosts >>

\* _enqueue_recording: the depth is read, then the recording is put.
HasRoom == Len(held) < Cap
Depth(t) ==
  /\ thr[t].pc = "depth"
  /\ thr' = [thr EXCEPT ![t].pc = IF HasRoom THEN "put" ELSE "overflow"]
  /\ UNCHANGED << flowVs, gateVs, wiping, outVs, born, ghosts >>

\* The recorder raises as it stops, or the callback does: nobody has the
\* recording.  (A wipe that asked for the stop goes on.)
StopRaises(t) ==
  /\ thr[t].pc = "depth"
  /\ LetGo(t)
  /\ Done(t)
  /\ UNCHANGED << flowVs, gateVs, wiping, outVs, born, discarded, lost, stopped >>

Put(t) ==
  /\ thr[t].pc = "put"
  /\ held' = Append(held, [rec |-> thr[t].rec, gen |-> generation])
  /\ Done(t)
  /\ UNCHANGED << recording, generation, gateVs, wiping, outVs, born, ghosts >>

\* A full queue, or a busy pipeline: the recording goes to the recovery bin
\* unless a wipe is in progress.
Overflow(t) ==
  /\ thr[t].pc = "overflow"
  /\ IF wiping THEN Discard(t) /\ Done(t)
               ELSE Goto(t, "rescue") /\ UNCHANGED discarded
  /\ UNCHANGED << flowVs, gateVs, wiping, outVs, born, dropped, lost, stopped >>

\* A save that fails is logged, and the thread goes on as if it had not.
Rescue(t) ==
  /\ thr[t].pc = "rescue"
  /\ \/ saved' = saved \union {thr[t].rec} /\ UNCHANGED dropped
     \/ LetGo(t) /\ UNCHANGED saved
  /\ Done(t)
  /\ UNCHANGED << flowVs, gateVs, wiping, drafted, born, discarded, lost, stopped >>

EnqueueStep(t) == Depth(t) \/ StopRaises(t) \/ Put(t) \/ Overflow(t) \/ Rescue(t)
-----------------------------------------------------------------------------
(* The dispatcher and the other callers of the pipeline. *)

Take ==
  /\ thr[Dispatcher].pc = "idle" /\ held # << >>
  /\ held' = Tail(held)
  /\ thr' = [thr EXCEPT ![Dispatcher] =
       [Idle EXCEPT !.pc = "fresh", !.rec = Head(held).rec, !.gen = Head(held).gen,
                    !.mode = "held"]]
  /\ UNCHANGED << recording, generation, gateVs, wiping, outVs, born, ghosts >>

\* A recording invalidated by a wipe is dropped; otherwise the streaming
\* transcript is drained (or abandoned for a full pass).
FreshReturns ==
  /\ thr[Dispatcher].pc = "fresh"
  /\ thr[Dispatcher].gen = generation /\ ~wiping
  /\ Goto(Dispatcher, "enter")
  /\ UNCHANGED << flowVs, gateVs, wiping, outVs, born, ghosts >>
Fresh ==
  /\ thr[Dispatcher].pc = "fresh"
  /\ IF thr[Dispatcher].gen # generation \/ wiping
       THEN Discard(Dispatcher) /\ Done(Dispatcher)
       ELSE Goto(Dispatcher, "enter") /\ UNCHANGED discarded
  /\ UNCHANGED << flowVs, gateVs, wiping, outVs, born, dropped, lost, stopped >>

\* The drain raises: the dispatcher logs it and takes the next recording.
DrainRaises ==
  /\ thr[Dispatcher].pc = "fresh"
  /\ thr[Dispatcher].gen = generation /\ ~wiping
  /\ LetGo(Dispatcher)
  /\ Done(Dispatcher)
  /\ UNCHANGED << flowVs, gateVs, wiping, outVs, born, discarded, lost, stopped >>

\* POST /drafts/{id}/retry: the audio of a draft goes through again.
Retry(c) ==
  /\ thr[c].pc = "idle"
  /\ \E r \in drafted :
       thr' = [thr EXCEPT ![c] = [Idle EXCEPT !.pc = "enter", !.rec = r, !.mode = "retry"]]
  /\ UNCHANGED << flowVs, gateVs, wiping, outVs, born, ghosts >>

\* The selection rewrite refuses while recording or processing, too.
Rewrite(c) ==
  /\ thr[c].pc = "idle" /\ ~recording /\ ~processing
  /\ thr' = [thr EXCEPT ![c] = [Idle EXCEPT !.pc = "enter", !.mode = "rewrite"]]
  /\ UNCHANGED << flowVs, gateVs, wiping, outVs, born, ghosts >>

Enter(t) ==
  /\ thr[t].pc = "enter"
  /\ IF wiping THEN Discard(t) /\ Done(t)
               ELSE Goto(t, "await") /\ UNCHANGED discarded
  /\ UNCHANGED << flowVs, gateVs, wiping, outVs, born, dropped, lost, stopped >>

\* try_begin and begin: the gate is acquired, or the caller bows out: a direct
\* caller at once, the dispatcher after ten minutes behind another pipeline
\* (a wipe, which waits ten seconds at most for anything, is not that long).
GateUntested == TRUE
GateFree == gate = None
GivesUp(t) == ~GateFree /\ (t = Dispatcher => gate \notin Wipers)
AdmitCleared(t) ==
  /\ thr[t].pc = "await"
  /\ cancelEv' = FALSE
  /\ \/ GateFree /\ gate' = t /\ Goto(t, "claim")
     \/ GivesUp(t) /\ UNCHANGED gate /\ Goto(t, "busy")
  /\ UNCHANGED << flowVs, job, jobCancel, processing, wiping, outVs, born, ghosts >>
Admit(t) ==
  /\ thr[t].pc = "await"
  /\ \/ GateFree /\ gate' = t /\ Goto(t, "claim")
     \/ GivesUp(t) /\ UNCHANGED gate /\ Goto(t, "busy")
  /\ UNCHANGED << flowVs, cancelEv, job, jobCancel, processing, wiping, outVs, born, ghosts >>

Busy(t) ==
  /\ thr[t].pc = "busy"
  /\ IF wiping \/ thr[t].rec = None
       THEN Discard(t) /\ Done(t)
       ELSE Goto(t, "rescue") /\ UNCHANGED discarded
  /\ UNCHANGED << flowVs, gateVs, wiping, outVs, born, dropped, lost, stopped >>

\* _claim: only the winner clears the cancellation event.
ClaimGate(t) ==
  /\ thr[t].pc = "claim"
  /\ cancelEv' = FALSE
  /\ Goto(t, "recheck")
  /\ UNCHANGED << flowVs, gate, job, jobCancel, processing, wiping, outVs, born, ghosts >>

\* The wipe flag once more, after admission (and the microphone, for a rewrite).
Recheck(t) ==
  /\ thr[t].pc = "recheck"
  /\ IF wiping \/ (thr[t].mode = "rewrite" /\ recording)
       THEN Discard(t) /\ Goto(t, "release")
       ELSE Goto(t, "register") /\ UNCHANGED discarded
  /\ UNCHANGED << flowVs, gateVs, wiping, outVs, born, dropped, lost, stopped >>

\* is_processing_draft is set and, but for a rewrite, the job is registered.
Register(t) ==
  /\ thr[t].pc = "register"
  /\ processing' = TRUE
  /\ jobCancel' = jobCancel \ {t}
  /\ IF thr[t].mode = "rewrite" THEN Goto(t, "rewrite") /\ UNCHANGED job
                                ELSE Goto(t, "persist") /\ job' = t
  /\ UNCHANGED << flowVs, gate, cancelEv, wiping, outVs, born, ghosts >>

\* The job cannot be created, or not enter its first state: what was set is
\* taken back, and the recording is let go of unsaved.
RegisterRaises(t) ==
  /\ thr[t].pc \in {"register", "persist"} /\ thr[t].mode # "rewrite"
  /\ processing' = FALSE /\ job' = None
  /\ LetGo(t)
  /\ Goto(t, "release")
  /\ UNCHANGED << flowVs, gate, cancelEv, jobCancel, wiping, outVs, born,
                  discarded, lost, stopped >>

\* A run whose save failed is bare, but for a retry, which has its draft.
Unsaved(t) == IF thr[t].mode = "retry" THEN "retry" ELSE "bare"

\* The raw recording reaches the recovery bin before the first stage; a save
\* that fails is logged, and the run goes on.
PersistLater(t) ==
  /\ thr[t].pc = "persist"
  /\ thr' = [thr EXCEPT ![t].pc = "stage", ![t].stage = 1]
  /\ UNCHANGED << flowVs, gateVs, wiping, outVs, born, ghosts >>
Persist(t) ==
  /\ thr[t].pc = "persist"
  /\ \/ /\ saved' = saved \union {thr[t].rec}
        /\ thr' = [thr EXCEPT ![t].pc = "stage", ![t].stage = 1]
     \/ /\ thr' = [thr EXCEPT ![t].pc = "stage", ![t].stage = 1, ![t].mode = Unsaved(t)]
        /\ UNCHANGED saved
  /\ UNCHANGED << flowVs, gateVs, wiping, drafted, born, ghosts >>

\* JobManagerCancellationBridge.is_cancel_requested, before every stage.
CancelRequested(t) == cancelEv \/ t \in jobCancel

StageStart(t) ==
  /\ thr[t].pc = "stage" /\ ~CancelRequested(t)
  /\ Goto(t, "run")
  /\ UNCHANGED << flowVs, gateVs, wiping, outVs, born, ghosts >>

StageCancelled(t) ==
  /\ thr[t].pc = "stage" /\ CancelRequested(t)
  /\ Goto(t, "report")
  /\ UNCHANGED << flowVs, gateVs, wiping, outVs, born, ghosts >>

MoreStagesByOne(t) == thr[t].stage <= Stages
MoreStages(t) == thr[t].stage < Stages

\* A stage passes on to the next, ends the run with a draft (the last one, or an
\* early stop), or fails and leaves the draft to the error report.
StageEnd(t) ==
  /\ thr[t].pc = "run"
  /\ \/ /\ MoreStages(t)
        /\ thr' = [thr EXCEPT ![t].pc = "stage", ![t].stage = @ + 1]
        /\ UNCHANGED drafted
     \/ /\ Goto(t, "wind")
        /\ drafted' = drafted \union {thr[t].rec}
     \/ /\ Goto(t, "report")
        /\ UNCHANGED drafted
  /\ UNCHANGED << flowVs, gateVs, wiping, saved, born, ghosts >>

\* A cancelled or failed run leaves an error draft that keeps its recording.
Report(t) ==
  /\ thr[t].pc = "report"
  /\ drafted' = drafted \union {thr[t].rec}
  /\ Goto(t, "wind")
  /\ UNCHANGED << flowVs, gateVs, wiping, saved, born, ghosts >>

\* A change of the job's state, or the error draft itself, raises past the
\* pipeline: the run ends without a draft of its own.
RunRaises(t) ==
  /\ thr[t].pc \in {"stage", "report"}
  /\ dropped' = dropped \union (IF thr[t].mode = "bare" THEN {thr[t].rec} ELSE {})
  /\ Goto(t, "wind")
  /\ UNCHANGED << flowVs, gateVs, wiping, outVs, born, discarded, lost, stopped >>

\* A selection rewrite's own work; it leaves no recording.
RewriteDone(t) ==
  /\ thr[t].pc = "rewrite"
  /\ Goto(t, "wind")
  /\ UNCHANGED << flowVs, gateVs, wiping, outVs, born, ghosts >>

\* The finally clauses.
Wind(t) ==
  /\ thr[t].pc = "wind"
  /\ processing' = FALSE
  /\ job' = IF thr[t].mode = "rewrite" THEN job ELSE None
  /\ Goto(t, "release")
  /\ UNCHANGED << flowVs, gate, cancelEv, jobCancel, wiping, outVs, born, ghosts >>

Release(t) ==
  /\ thr[t].pc = "release"
  /\ gate' = None
  /\ Done(t)
  /\ stopped' = stopped \ {t}
  /\ UNCHANGED << flowVs, cancelEv, job, jobCancel, processing, wiping, outVs, born,
                  discarded, dropped, lost >>

DispatchStep == Take \/ Fresh \/ DrainRaises

PipelineStep(t) ==
  \/ Enter(t) \/ Admit(t) \/ Busy(t) \/ Rescue(t) \/ ClaimGate(t) \/ Recheck(t) \/ Register(t)
  \/ RegisterRaises(t) \/ Persist(t) \/ StageStart(t) \/ StageCancelled(t) \/ StageEnd(t)
  \/ Report(t) \/ RunRaises(t) \/ RewriteDone(t) \/ Wind(t) \/ Release(t)
-----------------------------------------------------------------------------
(* Stopping what runs. *)

\* The pipeline a stop raised now is meant for.
Stoppable == { t \in Pipelines : thr[t].pc \in Running }

\* emergency_stop_runtime: the event first, then the job it finds active.
StopEvent(s) ==
  /\ thr[s].pc = "idle"
  /\ \E t \in Pipelines : thr[t].pc # "idle"
  /\ cancelEv' = TRUE
  /\ stopped' = stopped \union Stoppable
  /\ thr' = [thr EXCEPT ![s].pc = "stopjob", ![s].target = job]
  /\ UNCHANGED << flowVs, gate, job, jobCancel, processing, wiping, outVs, born,
                  discarded, dropped, lost >>

StopJob(s) ==
  /\ thr[s].pc = "stopjob"
  /\ jobCancel' = IF thr[s].target # None /\ thr[s].target = job
                    THEN jobCancel \union {job} ELSE jobCancel
  /\ Done(s)
  /\ UNCHANGED << flowVs, gate, cancelEv, job, processing, wiping, outVs, born, ghosts >>
-----------------------------------------------------------------------------
(* The privacy wipe, from its flag (checked, then set) to the deletion of    *)
(* drafts and recordings.                                                    *)

WipeCheck(w) ==
  /\ thr[w].pc = "idle" /\ ~wiping /\ generation < MaxDrops
  /\ Goto(w, "flag")
  /\ UNCHANGED << flowVs, gateVs, wiping, outVs, born, ghosts >>

WipeFlag(w) ==
  /\ thr[w].pc = "flag"
  /\ wiping' = TRUE
  /\ Goto(w, "stop")
  /\ UNCHANGED << flowVs, gateVs, outVs, born, discarded, dropped, lost, stopped >>

\* _drain_recorder: it stops a running recording itself (and runs the callback),
\* and is satisfied when is_recording is clear.
WipeStop(w) ==
  /\ thr[w].pc = "stop"
  /\ \/ Stopping(w)
     \/ ~recording /\ Goto(w, "drop") /\ UNCHANGED recording
  /\ UNCHANGED << held, generation, gateVs, wiping, outVs, born, ghosts >>

\* _drop_pending_recordings: poison, then empty the queue item by item.
WipePoison(w) ==
  /\ thr[w].pc = "drop" /\ thr[w].stage = 0
  /\ generation' = generation + 1
  /\ thr' = [thr EXCEPT ![w].stage = 1]
  /\ UNCHANGED << recording, held, gateVs, wiping, outVs, born, ghosts >>

WipeDropOne(w) ==
  /\ thr[w].pc = "drop" /\ thr[w].stage = 1 /\ held # << >>
  /\ held' = Tail(held)
  /\ discarded' = discarded \union {Head(held).rec}
  /\ UNCHANGED << recording, generation, gateVs, wiping, thr, outVs, born,
                  dropped, lost, stopped >>

WipeDropped(w) ==
  /\ thr[w].pc = "drop" /\ thr[w].stage = 1 /\ held = << >>
  /\ Goto(w, "cancel")
  /\ UNCHANGED << flowVs, gateVs, wiping, outVs, born, ghosts >>

\* cancel_active
WipeCancel(w) ==
  /\ thr[w].pc = "cancel"
  /\ cancelEv' = TRUE
  /\ stopped' = stopped \union Stoppable
  /\ Goto(w, "gate")
  /\ UNCHANGED << flowVs, gate, job, jobCancel, processing, wiping, outVs, born,
                  discarded, dropped, lost >>

\* try_begin, polled; after ten seconds the wipe aborts.  What can hold the gate
\* that long is a disk, a model, or another wipe.
Slow == {"persist", "run", "report", "rewrite"} \union Deleting
WipeGateUnseen(w) ==
  /\ thr[w].pc = "gate"
  /\ gate' = w /\ Goto(w, "clear")
  /\ UNCHANGED << flowVs, cancelEv, job, jobCancel, processing, wiping, outVs, born, ghosts >>
WipeGate(w) ==
  /\ thr[w].pc = "gate" /\ GateFree
  /\ gate' = w /\ Goto(w, "clear")
  /\ UNCHANGED << flowVs, cancelEv, job, jobCancel, processing, wiping, outVs, born, ghosts >>

WipeAbort(w) ==
  /\ thr[w].pc = "gate" /\ ~GateFree /\ thr[gate].pc \in Slow
  /\ Goto(w, "unflag")
  /\ UNCHANGED << flowVs, gateVs, wiping, outVs, born, ghosts >>

WipeClear(w) ==
  /\ thr[w].pc = "clear"
  /\ cancelEv' = FALSE
  /\ Goto(w, "delete")
  /\ UNCHANGED << flowVs, gate, job, jobCancel, processing, wiping, outVs, born, ghosts >>

\* The recordings and drafts are deleted, or sends or speech would not quiesce.
WipeDelete(w) ==
  /\ thr[w].pc = "delete"
  /\ \/ /\ saved' = {} /\ drafted' = {}
        /\ discarded' = discarded \union saved \union drafted
     \/ UNCHANGED << saved, drafted, discarded >>
  /\ Goto(w, "ungate")
  /\ UNCHANGED << flowVs, gateVs, wiping, born, dropped, lost, stopped >>

WipeUngate(w) ==
  /\ thr[w].pc = "ungate"
  /\ gate' = None
  /\ Goto(w, "unflag")
  /\ UNCHANGED << flowVs, cancelEv, job, jobCancel, processing, wiping, outVs, born, ghosts >>

WipeUnflag(w) ==
  /\ thr[w].pc = "unflag"
  /\ wiping' = FALSE
  /\ thr' = [thr EXCEPT ![w] = Idle]
  /\ UNCHANGED << flowVs, gateVs, outVs, born, ghosts >>

WipeStep(w) ==
  \/ WipeFlag(w) \/ WipeStop(w) \/ WipePoison(w) \/ WipeDropOne(w) \/ WipeDropped(w)
  \/ WipeCancel(w) \/ WipeGate(w) \/ WipeAbort(w) \/ WipeClear(w) \/ WipeDelete(w) \/ WipeUngate(w)
  \/ WipeUnflag(w)
-----------------------------------------------------------------------------
\* Recordings that exist only in memory.
HeldBy(T) ==
  (IF recording THEN {born} ELSE {}) \union { held[i].rec : i \in 1..Len(held) }
    \union { thr[t].rec : t \in { u \in T : thr[u].rec # None } }
InFlight == HeldBy(Threads)

\* Those whose run has not come to its first stage, or came to it bare.
AtRisk == HeldBy({ t \in Threads : thr[t].pc \notin Staged \/ thr[t].mode = "bare" })

\* A crash: the drafts and the recovery bin survive, everything else is gone.
CrashAndRestart ==
  /\ MayCrash
  /\ recording' = FALSE /\ held' = << >> /\ generation' = 0
  /\ gate' = None /\ cancelEv' = FALSE /\ job' = None /\ jobCancel' = {} /\ processing' = FALSE
  /\ wiping' = FALSE
  /\ thr' = [t \in Threads |-> Idle]
  /\ lost' = lost \union (AtRisk \ (saved \union drafted))
  /\ stopped' = {}
  /\ UNCHANGED << outVs, born, discarded, dropped >>

Next ==
  \/ \E p \in Producers : StartCheck(p) \/ Start(p) \/ Stop(p)
  \/ \E t \in Producers \union Wipers : EnqueueStep(t)
  \/ DispatchStep
  \/ \E c \in Callers : Retry(c) \/ Rewrite(c)
  \/ \E t \in Pipelines : PipelineStep(t)
  \/ \E s \in Stoppers : StopEvent(s) \/ StopJob(s)
  \/ \E w \in Wipers : WipeCheck(w) \/ WipeStep(w)
  \/ CrashAndRestart

Spec == Init /\ [][Next]_vars

\* Every thread keeps running and every stage returns; recordings, retries,
\* stops and wipes are not forced.
Fairness ==
  /\ WF_vars(DispatchStep)
  /\ \A t \in Pipelines : WF_vars(PipelineStep(t))
  /\ \A t \in Producers \union Wipers : WF_vars(EnqueueStep(t))
  /\ \A w \in Wipers : WF_vars(WipeStep(w))

FairSpec == Spec /\ Fairness
-----------------------------------------------------------------------------
(* Properties. *)

TypeOK ==
  /\ recording \in BOOLEAN /\ generation \in Nat
  /\ held \in Seq([rec : Recs, gen : 0..generation])
  /\ gate \in Pipelines \union Wipers \union {None}
  /\ cancelEv \in BOOLEAN /\ processing \in BOOLEAN /\ wiping \in BOOLEAN
  /\ job \in Pipelines \union {None} /\ jobCancel \subseteq Pipelines
  /\ thr \in [Threads -> [pc : Pcs, rec : Recs \union {None}, gen : 0..generation,
                          stage : 0..Stages, mode : {"none", "held", "bare", "retry", "rewrite"},
                          target : Pipelines \union {None}]]
  /\ born \in 0..MaxRecordings
  /\ saved \subseteq Recs /\ drafted \subseteq Recs
  /\ discarded \subseteq Recs /\ dropped \subseteq Recs /\ lost \subseteq Recs
  /\ stopped \subseteq Pipelines

\* At most one pipeline runs, and none while a wipe that has the gate deletes:
\* retries, rewrites, the dispatcher and the wipe share transcriber, model and
\* drafts only through the gate (dictation_coordinator.py:1-14).
SingleFlight ==
  \A t, u \in Threads :
    /\ t # u /\ thr[t].pc \in Running => thr[u].pc \notin Running \union Deleting
    /\ t # u /\ thr[t].pc \in Deleting => thr[u].pc \notin Deleting

\* is_processing_draft and the active job say of the pipeline what it is doing:
\* neither is left set by a run that ended nor reset by one that was rejected.
ProcessingTracksRun ==
  /\ processing <=> \E t \in Pipelines : thr[t].pc \in Working
  /\ \A t \in Pipelines : job = t => thr[t].pc \in Working

\* No recording disappears unseen: it is on its way, in the recovery bin, in a
\* draft, or given up to a wipe; or a failure before its save, or of its only
\* save, let go of it; or it fell to a crash before its first stage began or with
\* its save failed.  So a save that worked survives every crash, error and
\* cancellation of the run (dictation_pipeline.py, "so it survives a crash, an
\* error, or a cancellation partway through"), and one that failed costs the
\* recording only if the run then dies or raises as well.
RecordingsAccounted ==
  \A r \in 1..born :
    r \in InFlight \union saved \union drafted \union discarded \union dropped \union lost

\* A stop raised while a pipeline runs is honoured at its next stage: no
\* competitor for the gate takes the cancellation back.
StopHonoured ==
  [][\A t \in Pipelines : StageStart(t) => t \notin stopped]_vars

IsHeld(r) == \E i \in 1..Len(held) : held[i].rec = r

\* The one dispatcher thread serves everybody: a held recording is not held for
\* ever, whatever wipes come in between, and the gate is always given back.
DispatcherServes ==
  /\ \A r \in Recs : IsHeld(r) ~> ~IsHeld(r)
  /\ gate # None ~> gate = None

\* Drafts come from pipelines that hold the gate and go, all at once, by a wipe
\* that holds it: read off the threads' positions, the pipelines and the wipe
\* implement Erasure.  The recovery bin is not part of it: a rescue decided
\* before the wipe's flag may still land in it.
atWork   == { t \in Pipelines : thr[t].pc \in {"claim", "release"} \union Running }
deleting == IF \E w \in Wipers : thr[w].pc \in {"clear"} \union Deleting
              THEN CHOOSE w \in Wipers : thr[w].pc \in {"clear"} \union Deleting ELSE None
Erasing  == INSTANCE Erasure
              WITH Actors <- Pipelines \union Wipers, Items <- Recs, Nobody <- None,
                   working <- atWork, eraser <- deleting, kept <- drafted
WipeErases == Erasing!Spec
=============================================================================
