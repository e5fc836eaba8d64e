-------------------------- MODULE DictationProofs --------------------------
(***************************************************************************)
(* Proofs about Dictation for any number of threads, any queue capacity    *)
(* and any number of stages.                                               *)
(*                                                                         *)
(* finish() releases the gate without looking at who holds it, so that no  *)
(* two pipelines run is not guaranteed by the gate alone: it needs the     *)
(* invariant that every thread between its acquisition and its release     *)
(* holds the gate.  is_processing_draft is then exact because the thread   *)
(* that sets it and the one that clears it are the same.                   *)
(*                                                                         *)
(* A recording passes from hand to hand, and its save may fail: AccountInv *)
(* says that each is in some hand, kept, or on record as let go of, and    *)
(* that a run past its save that is not bare has its recording kept.  A    *)
(* stop is honoured because the event that carries it is cleared only by   *)
(* the thread that has just taken the gate, and no run that was stopped is *)
(* without the gate (StopInv).                                             *)
(***************************************************************************)
EXTENDS Dictation, TLAPS

\* The part of the type invariant the argument needs.
Shape ==
  /\ DOMAIN thr = Threads
  /\ \A t \in Threads : {"pc", "mode"} \subseteq DOMAIN thr[t]
  /\ processing \in BOOLEAN

\* From the acquisition of the gate to its release, in a pipeline or a wipe.
PipelineHolds == {"claim", "release"} \union Running
WipeHolds     == {"clear"} \union Deleting

HoldersHold ==
  \A t \in Threads : thr[t].pc \in PipelineHolds \union WipeHolds => gate = t

\* Each kind of thread stays within its part of the program.
RolesKept ==
  /\ \A t \in Threads : thr[t].pc \in PipelineHolds => t \in Pipelines
  /\ \A t \in Threads : thr[t].pc \in WipeHolds => t \in Wipers

\* A selection rewrite registers no job.
JobHasRecording == \A t \in Pipelines : job = t => thr[t].mode # "rewrite"

FlightInv ==
  /\ Shape
  /\ HoldersHold
  /\ RolesKept
  /\ JobHasRecording
  /\ ProcessingTracksRun

LEMMA InitFlight == Init => FlightInv
<1> SUFFICES ASSUME Init PROVE FlightInv
  OBVIOUS
<1>1. /\ DOMAIN thr = Threads
      /\ \A t \in Threads : {"pc", "mode"} \subseteq DOMAIN thr[t] /\ thr[t].pc = "idle"
  BY DEF Init, Idle
<1>2. \A t \in Pipelines : t \in Threads /\ t # None
  BY DictationAssumption DEF Threads
<1>3. processing = FALSE /\ job = None
  BY DEF Init
<1> QED BY <1>1, <1>2, <1>3
     DEF FlightInv, Shape, HoldersHold, RolesKept, JobHasRecording, ProcessingTracksRun,
         PipelineHolds, WipeHolds, Running, Deleting, Working

USE DEF FlightInv, Shape, HoldersHold, RolesKept, ProcessingTracksRun,
        JobHasRecording, PipelineHolds, WipeHolds, Running, Deleting, Working

\* The steps around the queue keep outside the gate.
LEMMA QueueStepFlight ==
  ASSUME FlightInv,
         \/ \E p \in Producers : StartCheck(p) \/ Start(p) \/ Stop(p)
         \/ \E t \in Producers \union Wipers : EnqueueStep(t)
         \/ DispatchStep
         \/ \E c \in Callers : Retry(c) \/ Rewrite(c)
  PROVE  FlightInv'
<1> USE DEF gateVs, Goto, Done, Idle, Pipelines, Threads
<1>1. ASSUME NEW p \in Producers, StartCheck(p) PROVE FlightInv'
  BY <1>1 DEF StartCheck
<1>2. ASSUME NEW p \in Producers, Start(p) PROVE FlightInv'
  BY <1>2 DEF Start
<1>3. ASSUME NEW p \in Producers, Stop(p) PROVE FlightInv'
  BY <1>3 DEF Stop, Stopping
<1>4. ASSUME NEW t \in Producers \union Wipers, Depth(t) \/ StopRaises(t) PROVE FlightInv'
  BY <1>4 DEF Depth, StopRaises
<1>5. ASSUME NEW t \in Producers \union Wipers, Put(t) PROVE FlightInv'
  BY <1>5 DEF Put
<1>6. ASSUME NEW t \in Producers \union Wipers, Overflow(t) PROVE FlightInv'
  BY <1>6 DEF Overflow
<1>7. ASSUME NEW t \in Producers \union Wipers, Rescue(t) PROVE FlightInv'
  BY <1>7 DEF Rescue
<1>8. CASE Take
  BY <1>8 DEF Take
<1>9. CASE Fresh \/ DrainRaises
  BY <1>9 DEF Fresh, DrainRaises
<1>10. ASSUME NEW c \in Callers, Retry(c) PROVE FlightInv'
  <2>1. \E r : r.pc = "enter" /\ {"pc", "mode"} \subseteq DOMAIN r /\ r.mode = "retry"
                /\ thr' = [thr EXCEPT ![c] = r]
    BY <1>10 DEF Retry
  <2>2. thr[c].pc = "idle" /\ UNCHANGED gateVs
    BY <1>10 DEF Retry
  <2> QED BY <2>1, <2>2
<1>11. ASSUME NEW c \in Callers, Rewrite(c) PROVE FlightInv'
  BY <1>11 DEF Rewrite
<1> QED BY <1>1, <1>2, <1>3, <1>4, <1>5, <1>6, <1>7, <1>8, <1>9, <1>10, <1>11
        DEF EnqueueStep, DispatchStep

\* A pipeline enters the gate when nobody holds it, works alone, and gives up
\* what it set.
LEMMA PipelineStepFlight ==
  ASSUME FlightInv, NEW t \in Pipelines, PipelineStep(t)
  PROVE  FlightInv'
<1> USE DictationAssumption DEF gateVs, Goto, Done, Idle, Pipelines, Threads
<1>1. CASE Enter(t)
  BY <1>1 DEF Enter
<1>2. CASE Admit(t)
  BY <1>2 DEF Admit, GateFree
<1>3. CASE Busy(t)
  BY <1>3 DEF Busy
<1>4. CASE Rescue(t)
  BY <1>4 DEF Rescue
<1>5. CASE ClaimGate(t)
  BY <1>5 DEF ClaimGate
<1>6. CASE Recheck(t)
  BY <1>6 DEF Recheck
<1>7. CASE Register(t)
  BY <1>7 DEF Register
<1>8. CASE Persist(t)
  BY <1>8 DEF Persist, Unsaved
<1>9. CASE StageStart(t) \/ StageCancelled(t)
  BY <1>9 DEF StageStart, StageCancelled
<1>10. CASE StageEnd(t)
  BY <1>10 DEF StageEnd
<1>11. CASE Report(t) \/ RewriteDone(t)
  BY <1>11 DEF Report, RewriteDone
<1>12. CASE Wind(t)
  BY <1>12 DEF Wind
<1>13. CASE Release(t)
  BY <1>13 DEF Release
<1>14. CASE RegisterRaises(t)
  BY <1>14 DEF RegisterRaises
<1>15. CASE RunRaises(t)
  BY <1>15 DEF RunRaises
<1> QED BY <1>1, <1>2, <1>3, <1>4, <1>5, <1>6, <1>7, <1>8, <1>9, <1>10, <1>11, <1>12, <1>13,
           <1>14, <1>15
        DEF PipelineStep

\* A stop changes no program counter but its own.
LEMMA StopFlight ==
  ASSUME FlightInv, NEW s \in Stoppers, StopEvent(s) \/ StopJob(s)
  PROVE  FlightInv'
BY DictationAssumption DEF StopEvent, StopJob, Goto, Done, Idle, Pipelines, Threads

\* A wipe waits for the gate like everybody else.
LEMMA WipeFlight ==
  ASSUME FlightInv, NEW w \in Wipers, WipeCheck(w) \/ WipeStep(w)
  PROVE  FlightInv'
<1> USE DictationAssumption DEF gateVs, Goto, Idle, Pipelines, Threads
<1>1. CASE WipeCheck(w) \/ WipeFlag(w)
  BY <1>1 DEF WipeCheck, WipeFlag
<1>2. CASE WipeStop(w)
  BY <1>2 DEF WipeStop, Stopping
<1>3. CASE WipePoison(w) \/ WipeDropOne(w) \/ WipeDropped(w)
  BY <1>3 DEF WipePoison, WipeDropOne, WipeDropped
<1>4. CASE WipeCancel(w)
  BY <1>4 DEF WipeCancel
<1>5. CASE WipeGate(w)
  BY <1>5 DEF WipeGate, GateFree
<1>6. CASE WipeAbort(w)
  BY <1>6 DEF WipeAbort
<1>7. CASE WipeClear(w)
  BY <1>7 DEF WipeClear
<1>8. CASE WipeDelete(w)
  BY <1>8 DEF WipeDelete
<1>9. CASE WipeUngate(w)
  BY <1>9 DEF WipeUngate
<1>10. CASE WipeUnflag(w)
  BY <1>10 DEF WipeUnflag
<1> QED BY <1>1, <1>2, <1>3, <1>4, <1>5, <1>6, <1>7, <1>8, <1>9, <1>10 DEF WipeStep

LEMMA NextFlight == FlightInv /\ [Next]_vars => FlightInv'
<1> SUFFICES ASSUME FlightInv, [Next]_vars PROVE FlightInv'
  OBVIOUS
<1>1. CASE UNCHANGED vars
  BY <1>1 DEF vars, gateVs
<1>2. CASE CrashAndRestart
  BY <1>2, DictationAssumption DEF CrashAndRestart, Idle, Pipelines, Threads
<1> QED BY <1>1, <1>2, QueueStepFlight, PipelineStepFlight, StopFlight, WipeFlight DEF Next

LEMMA FlightImplies == FlightInv => SingleFlight
BY DEF SingleFlight

LEMMA FlightAlways == Spec => []FlightInv
BY InitFlight, NextFlight, PTL DEF Spec

\* No two pipelines run together, and none runs while a wipe that took the gate
\* deletes, whatever the number of callers, wipes, retries and crashes
\* (dictation_coordinator.py, process_recording_result, _perform_privacy_wipe).
THEOREM SingleFlight_Safety == Spec => []SingleFlight
BY FlightAlways, FlightImplies, PTL

\* is_processing_draft is set exactly while a pipeline works and the active job
\* is that pipeline's (server.py process_recording_result's finally clause).
THEOREM ProcessingTracksRun_Safety == Spec => []ProcessingTracksRun
<1>1. FlightInv => ProcessingTracksRun
  BY DEF FlightInv
<1> QED BY <1>1, FlightAlways, PTL
-----------------------------------------------------------------------------
(* The types, and where a thread has a recording in its hands.               *)
HIDE DEF FlightInv, Shape, HoldersHold, RolesKept, ProcessingTracksRun,
         JobHasRecording, PipelineHolds, WipeHolds, Running, Deleting, Working

Modes == {"none", "held", "bare", "retry", "rewrite"}
ThreadRecord ==
  [pc : Pcs, rec : Recs \union {None}, gen : 0..generation, stage : 0..Stages,
   mode : Modes, target : Pipelines \union {None}]
HeldRecord == [rec : Recs, gen : 0..generation]

Unrecorded == {"idle", "starting", "stopjob", "flag", "stop", "drop", "cancel", "gate", "clear",
               "delete", "ungate", "unflag", "rewrite"}
Carries    == {"depth", "put", "overflow", "rescue", "fresh", "persist", "stage", "run",
               "report"}
Admission  == {"fresh", "enter", "await", "claim", "recheck", "register"}

Fits(q) ==
  /\ q.pc \in Unrecorded => q.rec = None
  /\ q.pc \in Carries => q.rec # None
  /\ q.pc \in Admission => (q.rec = None <=> q.mode = "rewrite")

ThreadsFit ==
  /\ thr \in [Threads -> ThreadRecord]
  /\ \A t \in Threads : Fits(thr[t])
\* Everything but the threads.
RestFits ==
  /\ recording \in BOOLEAN /\ generation \in Nat /\ held \in Seq(HeldRecord)
  /\ gate \in Pipelines \union Wipers \union {None}
  /\ cancelEv \in BOOLEAN /\ processing \in BOOLEAN /\ wiping \in BOOLEAN
  /\ job \in Pipelines \union {None} /\ jobCancel \subseteq Pipelines
  /\ born \in 0..MaxRecordings /\ (recording => born # 0)
  /\ saved \subseteq Recs /\ drafted \subseteq Recs
  /\ discarded \subseteq Recs /\ dropped \subseteq Recs /\ lost \subseteq Recs
  /\ stopped \subseteq Pipelines

TypeInv == ThreadsFit /\ RestFits

LEMMA FirstOfSequence ==
  ASSUME NEW S, NEW s \in Seq(S), s # << >>
  PROVE  Head(s) \in S /\ Tail(s) \in Seq(S)
OBVIOUS

\* The arithmetic of the constants, kept away from the other facts about them.
LEMMA FirstNumbers ==
  /\ 0 \in 0..Stages /\ 1 \in 0..Stages /\ (generation \in Nat => 0 \in 0..generation)
  /\ None \notin Recs /\ None \notin Pipelines
<1>1. Stages \in Nat \ {0} /\ None \notin Nat
  BY DictationAssumption
<1>2. None \notin Pipelines
  BY DictationAssumption DEF Threads
<1> QED BY <1>1, <1>2 DEF Recs

LEMMA SequenceOver ==
  ASSUME NEW S, NEW T, S \subseteq T, NEW s \in Seq(S)
  PROVE  s \in Seq(T) /\ \A i \in 1..Len(s) : s[i] \in S
OBVIOUS

LEMMA IdleFits ==
  generation \in Nat => Idle \in ThreadRecord /\ Idle.rec = None
BY FirstNumbers DEF ThreadRecord, Idle, Modes, Pcs

LEMMA TypeInvImplies == TypeInv => TypeOK
BY DEF TypeInv, TypeOK, ThreadsFit, RestFits, ThreadRecord, HeldRecord, Modes

\* A thread that steps keeps the types if its new record has them.
LEMMA ThreadKeeps ==
  ASSUME ThreadsFit, NEW t \in Threads, NEW q \in ThreadRecord, Fits(q),
         generation' = generation, thr' = [thr EXCEPT ![t] = q]
  PROVE  ThreadsFit'
BY DEF ThreadsFit, ThreadRecord, Fits

LEMMA GotoKeeps ==
  ASSUME ThreadsFit, NEW t \in Threads, NEW pc \in Pcs, Goto(t, pc), generation' = generation,
         pc \in Unrecorded => thr[t].rec = None,
         pc \in Carries => thr[t].rec # None,
         pc \in Admission => (thr[t].rec = None <=> thr[t].mode = "rewrite")
  PROVE  ThreadsFit'
<1> DEFINE q == [thr[t] EXCEPT !.pc = pc]
<1>1. q \in ThreadRecord /\ Fits(q)
  BY DEF ThreadsFit, ThreadRecord, Fits
<1>2. thr' = [thr EXCEPT ![t] = q]
  BY DEF Goto
<1> HIDE DEF q
<1> QED BY <1>1, <1>2, ThreadKeeps

LEMMA DoneKeeps ==
  ASSUME ThreadsFit, NEW t \in Threads, Done(t), generation \in Nat, generation' = generation
  PROVE  ThreadsFit'
<1>1. Idle \in ThreadRecord /\ Fits(Idle)
  BY DictationAssumption
     DEF ThreadRecord, Idle, Pcs, Modes, Fits, Unrecorded, Carries, Admission
<1>2. [Idle EXCEPT !.pc = "drop"] \in ThreadRecord /\ Fits([Idle EXCEPT !.pc = "drop"])
  BY DictationAssumption
     DEF ThreadRecord, Idle, Pcs, Modes, Fits, Unrecorded, Carries, Admission
<1>3. CASE t \in Wipers
  BY <1>2, <1>3, ThreadKeeps DEF Done
<1>4. CASE t \notin Wipers
  BY <1>1, <1>4, ThreadKeeps DEF Done
<1> QED BY <1>3, <1>4

LEMMA InitFits == Init => TypeInv
<1> SUFFICES ASSUME Init PROVE TypeInv
  OBVIOUS
<1>1. Idle \in ThreadRecord /\ Fits(Idle)
  BY DictationAssumption
     DEF Init, ThreadRecord, Idle, Pcs, Modes, Fits, Unrecorded, Carries, Admission
<1>2. ThreadsFit
  BY <1>1 DEF Init, ThreadsFit
<1>3. held \in Seq(HeldRecord) /\ born \in 0..MaxRecordings
  BY DictationAssumption DEF Init
<1>4. RestFits
  BY <1>3 DEF Init, RestFits
<1> QED BY <1>2, <1>4 DEF TypeInv

\* The last recording made passes from the recorder to the thread that stops it.
LEMMA StoppingKeeps ==
  ASSUME ThreadsFit, RestFits, NEW t \in Threads, Stopping(t), generation' = generation
  PROVE  ThreadsFit'
<1> DEFINE q == [thr[t] EXCEPT !.pc = "depth", !.rec = born]
<1>1. born \in Recs /\ born # None
  BY DictationAssumption DEF RestFits, Stopping, Recs
<1>2. q \in ThreadRecord /\ q.pc = "depth" /\ q.rec = born
  BY <1>1 DEF ThreadsFit, ThreadRecord, Pcs
<1>3. thr' = [thr EXCEPT ![t] = q]
  BY DEF Stopping
<1> HIDE DEF q
<1>4. Fits(q)
  BY <1>1, <1>2 DEF Fits, Unrecorded, Admission
<1> QED BY <1>2, <1>3, <1>4, ThreadKeeps

LEMMA RescueFits ==
  ASSUME TypeInv, NEW t \in Threads, Rescue(t)
  PROVE  TypeInv'
<1> USE DEF gateVs, outVs, ghosts, flowVs, HeldRecord
<1>0. ThreadsFit /\ RestFits /\ Fits(thr[t]) /\ thr[t] \in ThreadRecord
  BY DEF TypeInv, ThreadsFit
<1>1. ThreadsFit'
  BY <1>0, DoneKeeps DEF Rescue, RestFits
<1>2. RestFits'
  <2>1. saved' \subseteq Recs /\ dropped' \subseteq Recs
    BY <1>0 DEF Rescue, RestFits, ThreadRecord, Fits, Carries, LetGo, Sole
  <2> QED BY <1>0, <2>1 DEF Rescue, RestFits
<1> QED BY <1>1, <1>2 DEF TypeInv

\* The microphone and the queue of held recordings.
LEMMA RecorderFits ==
  ASSUME TypeInv, NEW p \in Producers, StartCheck(p) \/ Start(p) \/ Stop(p)
  PROVE  TypeInv'
<1> USE DEF gateVs, outVs, ghosts, flowVs, HeldRecord
<1>0. ThreadsFit /\ RestFits /\ p \in Threads /\ Fits(thr[p])
  BY DEF TypeInv, ThreadsFit, Threads
<1>1. CASE StartCheck(p)
  <2>1. ThreadsFit'
    BY <1>0, <1>1, GotoKeeps DEF StartCheck, Pcs, Fits, Unrecorded, Carries, Admission
  <2>2. RestFits'
    BY <1>0, <1>1 DEF StartCheck, RestFits
  <2> QED BY <2>1, <2>2 DEF TypeInv
<1>2. CASE Start(p)
  <2>1. ThreadsFit'
    BY <1>0, <1>2, DoneKeeps DEF Start, RestFits
  <2>2. RestFits'
    <3>1. born' \in 0..MaxRecordings /\ recording' \in BOOLEAN /\ (recording' => born' # 0)
      <4>1. MaxRecordings \in Nat
        BY DictationAssumption
      <4>2. CASE ~recording /\ born < MaxRecordings /\ recording' = TRUE /\ born' = born + 1
        BY <1>0, <4>1, <4>2 DEF RestFits
      <4>3. CASE UNCHANGED << recording, born >>
        BY <1>0, <4>3 DEF RestFits
      <4> QED BY <1>2, <4>2, <4>3 DEF Start
    <3> QED BY <1>0, <1>2, <3>1 DEF Start, RestFits
  <2> QED BY <2>1, <2>2 DEF TypeInv
<1>3. CASE Stop(p)
  <2>1. ThreadsFit'
    BY <1>0, <1>3, StoppingKeeps DEF Stop
  <2>2. RestFits'
    BY <1>0, <1>3 DEF Stop, Stopping, RestFits
  <2> QED BY <2>1, <2>2 DEF TypeInv
<1> QED BY <1>1, <1>2, <1>3

LEMMA EnqueueFits ==
  ASSUME TypeInv, NEW t \in Threads, EnqueueStep(t)
  PROVE  TypeInv'
<1> USE DEF gateVs, outVs, ghosts, flowVs, HeldRecord
<1>0. ThreadsFit /\ RestFits /\ Fits(thr[t]) /\ thr[t] \in ThreadRecord
  BY DEF TypeInv, ThreadsFit
<1>1. CASE Depth(t)
  <2>1. thr[t].rec # None /\ Goto(t, IF HasRoom THEN "put" ELSE "overflow")
    BY <1>0, <1>1 DEF Depth, Goto, Fits, Carries
  <2>2. ThreadsFit'
    BY <1>0, <1>1, <2>1, GotoKeeps DEF Depth, Pcs, Unrecorded, Carries, Admission
  <2>3. RestFits'
    BY <1>0, <1>1 DEF Depth, RestFits
  <2> QED BY <2>2, <2>3 DEF TypeInv
<1>2. CASE Put(t)
  <2>1. ThreadsFit'
    BY <1>0, <1>2, DoneKeeps DEF Put, RestFits
  <2>2. [rec |-> thr[t].rec, gen |-> generation] \in HeldRecord
    BY <1>0, <1>2 DEF Put, Fits, Carries, ThreadRecord, HeldRecord, RestFits
  <2>3. held' \in Seq(HeldRecord) /\ HeldRecord' = HeldRecord
    BY <1>0, <1>2, <2>2 DEF Put, RestFits, HeldRecord
  <2>4. RestFits'
    BY <1>0, <1>2, <2>3 DEF Put, RestFits
  <2> QED BY <2>1, <2>4 DEF TypeInv
<1>3. CASE Overflow(t)
  <2>1. ThreadsFit'
    BY <1>0, <1>3, DoneKeeps, GotoKeeps
       DEF Overflow, Pcs, Fits, Unrecorded, Carries, Admission, RestFits
  <2>2. RestFits'
    BY <1>0, <1>3 DEF Overflow, Discard, RestFits, ThreadRecord
  <2> QED BY <2>1, <2>2 DEF TypeInv
<1>4. CASE Rescue(t)
  BY <1>0, <1>4, RescueFits
<1>5. CASE StopRaises(t)
  <2>1. ThreadsFit'
    BY <1>0, <1>5, DoneKeeps DEF StopRaises, RestFits
  <2>2. RestFits'
    BY <1>0, <1>5 DEF StopRaises, RestFits, ThreadRecord, Fits, Carries, LetGo, Sole
  <2> QED BY <2>1, <2>2 DEF TypeInv
<1> QED BY <1>1, <1>2, <1>3, <1>4, <1>5 DEF EnqueueStep

\* The dispatcher takes what is held, oldest first.
LEMMA DispatchFits ==
  ASSUME TypeInv, DispatchStep
  PROVE  TypeInv'
<1> USE DEF gateVs, outVs, ghosts, flowVs, HeldRecord
<1>0. ThreadsFit /\ RestFits /\ Dispatcher \in Threads /\ Fits(thr[Dispatcher]) /\ thr[Dispatcher] \in ThreadRecord
  BY DEF TypeInv, ThreadsFit, Threads, Pipelines
<1>1. CASE Take
  <2> DEFINE h == Head(held)
             q == [Idle EXCEPT !.pc = "fresh", !.rec = h.rec, !.gen = h.gen, !.mode = "held"]
  <2>1. h \in HeldRecord /\ Tail(held) \in Seq(HeldRecord)
    <3> HIDE DEF HeldRecord
    <3> QED BY <1>0, <1>1, FirstOfSequence DEF Take, RestFits
  <2>2. q \in ThreadRecord /\ Fits(q)
    <3>1. h.rec \in Recs /\ h.gen \in 0..generation /\ h.rec # None
      BY <2>1, FirstNumbers
    <3>2. Idle \in ThreadRecord
      BY <1>0, IdleFits DEF RestFits
    <3> HIDE DEF h
    <3> QED BY <3>1, <3>2
            DEF ThreadRecord, Modes, Pcs, Fits, Unrecorded, Carries, Admission
  <2>3. thr' = [thr EXCEPT ![Dispatcher] = q] /\ generation' = generation
    BY <1>1 DEF Take
  <2> HIDE DEF q
  <2>4. ThreadsFit'
    BY <1>0, <2>2, <2>3, ThreadKeeps
  <2>5. RestFits'
    BY <1>0, <1>1, <2>1 DEF Take, RestFits
  <2> QED BY <2>4, <2>5 DEF TypeInv
<1>2. CASE Fresh
  <2>1. ThreadsFit'
    BY <1>0, <1>2, GotoKeeps, DoneKeeps
       DEF Fresh, RestFits, Pcs, Fits, Unrecorded, Carries, Admission
  <2>2. RestFits'
    BY <1>0, <1>2 DEF Fresh, RestFits, Discard, ThreadRecord
  <2> QED BY <2>1, <2>2 DEF TypeInv
<1>3. CASE DrainRaises
  <2>1. ThreadsFit'
    BY <1>0, <1>3, DoneKeeps DEF DrainRaises, RestFits
  <2>2. RestFits'
    BY <1>0, <1>3 DEF DrainRaises, RestFits, ThreadRecord, Fits, Carries, LetGo, Sole
  <2> QED BY <2>1, <2>2 DEF TypeInv
<1> QED BY <1>1, <1>2, <1>3 DEF DispatchStep

\* Retries bring the recording of a draft, rewrites bring none.
LEMMA CallFits ==
  ASSUME TypeInv, NEW c \in Callers, Retry(c) \/ Rewrite(c)
  PROVE  TypeInv'
<1> USE DEF gateVs, outVs, ghosts, flowVs, HeldRecord
<1>0. ThreadsFit /\ RestFits /\ c \in Threads /\ Fits(thr[c]) /\ thr[c] \in ThreadRecord
  BY DEF TypeInv, ThreadsFit, Threads, Pipelines
<1>1. CASE Retry(c)
  <2>1. PICK r \in drafted :
          thr' = [thr EXCEPT ![c] = [Idle EXCEPT !.pc = "enter", !.rec = r, !.mode = "retry"]]
    BY <1>1 DEF Retry
  <2> DEFINE q == [pc |-> "enter", rec |-> r, gen |-> 0, stage |-> 0,
                   mode |-> "retry", target |-> None]
  <2>2. q \in ThreadRecord /\ Fits(q)
    <3>1. r \in Recs /\ generation \in Nat
      BY <1>0 DEF RestFits
    <3> QED BY <3>1, FirstNumbers
            DEF ThreadRecord, Modes, Pcs, Fits, Unrecorded, Carries, Admission
  <2>3. thr' = [thr EXCEPT ![c] = q] /\ generation' = generation
    BY <1>1, <2>1 DEF Retry, Idle
  <2> HIDE DEF q
  <2>4. ThreadsFit'
    BY <1>0, <2>2, <2>3, ThreadKeeps
  <2>5. RestFits'
    BY <1>0, <1>1 DEF Retry, RestFits
  <2> QED BY <2>4, <2>5 DEF TypeInv
<1>2. CASE Rewrite(c)
  <2> DEFINE q == [Idle EXCEPT !.pc = "enter", !.mode = "rewrite"]
  <2>1. q \in ThreadRecord /\ Fits(q)
    BY <1>0, IdleFits
       DEF RestFits, ThreadRecord, Modes, Pcs, Fits, Unrecorded, Carries, Admission
  <2>2. thr' = [thr EXCEPT ![c] = q]
    BY <1>2 DEF Rewrite
  <2>3. generation' = generation
    BY <1>2 DEF Rewrite
  <2> HIDE DEF q
  <2>4. ThreadsFit'
    BY <1>0, <2>1, <2>2, <2>3, ThreadKeeps
  <2>5. RestFits'
    BY <1>0, <1>2 DEF Rewrite, RestFits
  <2> QED BY <2>4, <2>5 DEF TypeInv
<1> QED BY <1>1, <1>2

\* A pipeline keeps its recording from its admission to its last stage.
LEMMA PipelineFits ==
  ASSUME TypeInv, NEW t \in Pipelines, PipelineStep(t)
  PROVE  TypeInv'
<1> USE DEF gateVs, outVs, ghosts, flowVs, HeldRecord
<1>0. ThreadsFit /\ RestFits /\ t \in Threads /\ Fits(thr[t]) /\ thr[t] \in ThreadRecord
  BY DEF TypeInv, ThreadsFit, Threads, Pipelines
<1>1. CASE Enter(t)
  <2>1. ThreadsFit'
    BY <1>0, <1>1, GotoKeeps, DoneKeeps
       DEF Enter, RestFits, Pcs, Fits, Unrecorded, Carries, Admission
  <2>2. RestFits'
    BY <1>0, <1>1 DEF Enter, RestFits, Discard, ThreadRecord
  <2> QED BY <2>1, <2>2 DEF TypeInv
<1>2. CASE Admit(t)
  <2>1. ThreadsFit'
    BY <1>0, <1>2, GotoKeeps
       DEF Admit, Pcs, Fits, Unrecorded, Carries, Admission
  <2>2. RestFits'
    BY <1>0, <1>2 DEF Admit, RestFits
  <2> QED BY <2>1, <2>2 DEF TypeInv
<1>3. CASE Busy(t)
  <2>1. ThreadsFit'
    BY <1>0, <1>3, GotoKeeps, DoneKeeps
       DEF Busy, RestFits, Pcs, Fits, Unrecorded, Carries, Admission
  <2>2. RestFits'
    BY <1>0, <1>3 DEF Busy, RestFits, Discard, ThreadRecord
  <2> QED BY <2>1, <2>2 DEF TypeInv
<1>4. CASE Rescue(t)
  BY <1>0, <1>4, RescueFits
<1>5. CASE ClaimGate(t)
  <2>1. ThreadsFit'
    BY <1>0, <1>5, GotoKeeps
       DEF ClaimGate, Pcs, Fits, Unrecorded, Carries, Admission
  <2>2. RestFits'
    BY <1>0, <1>5 DEF ClaimGate, RestFits
  <2> QED BY <2>1, <2>2 DEF TypeInv
<1>6. CASE Recheck(t)
  <2>1. ThreadsFit'
    BY <1>0, <1>6, GotoKeeps
       DEF Recheck, Pcs, Fits, Unrecorded, Carries, Admission
  <2>2. RestFits'
    BY <1>0, <1>6 DEF Recheck, RestFits, Discard, ThreadRecord
  <2> QED BY <2>1, <2>2 DEF TypeInv
<1>7. CASE Register(t)
  <2>1. ThreadsFit'
    BY <1>0, <1>7, GotoKeeps
       DEF Register, Pcs, Fits, Unrecorded, Carries, Admission
  <2>2. RestFits'
    BY <1>0, <1>7 DEF Register, RestFits
  <2> QED BY <2>1, <2>2 DEF TypeInv
<1>8. CASE Persist(t)
  <2> DEFINE q(m) == [thr[t] EXCEPT !.pc = "stage", !.stage = 1, !.mode = m]
  <2>1. ASSUME NEW m \in Modes PROVE q(m) \in ThreadRecord /\ Fits(q(m))
    BY <1>0, <1>8, <2>1, FirstNumbers
       DEF Persist, ThreadRecord, Pcs, Fits, Unrecorded, Carries, Admission
  <2>2. \E m \in Modes : thr' = [thr EXCEPT ![t] = q(m)]
    <3>1. thr' = [thr EXCEPT ![t] = q(thr[t].mode)] \/ thr' = [thr EXCEPT ![t] = q(Unsaved(t))]
      BY <1>0, <1>8 DEF Persist, ThreadsFit, ThreadRecord
    <3>2. thr[t].mode \in Modes /\ Unsaved(t) \in Modes
      BY <1>0 DEF ThreadRecord, Modes, Unsaved
    <3> QED BY <3>1, <3>2
  <2>3. generation' = generation
    BY <1>8 DEF Persist
  <2> HIDE DEF q
  <2>4. ThreadsFit'
    BY <1>0, <2>1, <2>2, <2>3, ThreadKeeps
  <2>5. RestFits'
    BY <1>0, <1>8 DEF Persist, RestFits, ThreadRecord, Fits, Carries
  <2> QED BY <2>4, <2>5 DEF TypeInv
<1>9. CASE StageStart(t) \/ StageCancelled(t)
  <2>1. ThreadsFit'
    BY <1>0, <1>9, GotoKeeps
       DEF StageStart, StageCancelled, Pcs, Fits, Unrecorded, Carries, Admission
  <2>2. RestFits'
    <3>1. thr[t].rec \in Recs
      BY <1>0, <1>9 DEF StageStart, StageCancelled, ThreadRecord, Fits, Carries
    <3>2. CASE StageStart(t)
      <4> HIDE DEF HeldRecord
      <4> QED BY <1>0, <3>1, <3>2 DEF StageStart, RestFits, HeldRecord
    <3>3. CASE StageCancelled(t)
      BY <1>0, <3>3 DEF StageCancelled, RestFits
    <3> QED BY <1>9, <3>2, <3>3
  <2> QED BY <2>1, <2>2 DEF TypeInv
<1>10. CASE StageEnd(t)
  <2>1. ThreadsFit'
    <3>1. CASE MoreStages(t) /\ thr' = [thr EXCEPT ![t].pc = "stage", ![t].stage = @ + 1]
      <4> DEFINE q == [thr[t] EXCEPT !.pc = "stage", !.stage = @ + 1]
      <4>1. q \in ThreadRecord /\ Fits(q)
        <5>1. Stages \in Nat
          BY DictationAssumption
        <5>2. thr[t].stage + 1 \in 0..Stages
          BY <1>0, <3>1, <5>1 DEF MoreStages, ThreadRecord
        <5> QED BY <1>0, <1>10, <5>2
                DEF StageEnd, ThreadRecord, Pcs, Fits, Unrecorded, Carries, Admission
      <4>2. thr' = [thr EXCEPT ![t] = q] /\ generation' = generation
        BY <1>10, <3>1 DEF StageEnd
      <4> HIDE DEF q
      <4> QED BY <1>0, <4>1, <4>2, ThreadKeeps
    <3>2. CASE Goto(t, "wind") \/ Goto(t, "report")
      BY <1>0, <1>10, <3>2, GotoKeeps
         DEF StageEnd, Pcs, Fits, Unrecorded, Carries, Admission
    <3> QED BY <1>10, <3>1, <3>2 DEF StageEnd
  <2>2. RestFits'
    BY <1>0, <1>10 DEF StageEnd, RestFits, ThreadRecord, Fits, Carries
  <2> QED BY <2>1, <2>2 DEF TypeInv
<1>11. CASE Report(t) \/ RewriteDone(t)
  <2>1. ThreadsFit'
    BY <1>0, <1>11, GotoKeeps
       DEF Report, RewriteDone, Pcs, Fits, Unrecorded, Carries, Admission
  <2>2. RestFits'
    <3>1. CASE Report(t)
      <4>1. thr[t].rec \in Recs
        BY <1>0, <3>1 DEF Report, ThreadRecord, Fits, Carries
      <4> QED BY <1>0, <3>1, <4>1 DEF Report, RestFits
    <3>2. CASE RewriteDone(t)
      BY <1>0, <3>2 DEF RewriteDone, RestFits
    <3> QED BY <1>11, <3>1, <3>2
  <2> QED BY <2>1, <2>2 DEF TypeInv
<1>12. CASE Wind(t)
  <2>1. ThreadsFit'
    BY <1>0, <1>12, GotoKeeps
       DEF Wind, Pcs, Fits, Unrecorded, Carries, Admission
  <2>2. RestFits'
    BY <1>0, <1>12 DEF Wind, RestFits
  <2> QED BY <2>1, <2>2 DEF TypeInv
<1>13. CASE Release(t)
  <2>1. ThreadsFit'
    BY <1>0, <1>13, GotoKeeps, DoneKeeps
       DEF Release, RestFits, Pcs, Fits, Unrecorded, Carries, Admission
  <2>2. RestFits'
    BY <1>0, <1>13 DEF Release, RestFits
  <2> QED BY <2>1, <2>2 DEF TypeInv
<1>14. CASE RegisterRaises(t)
  <2>1. ThreadsFit'
    BY <1>0, <1>14, GotoKeeps
       DEF RegisterRaises, Pcs, Fits, Unrecorded, Carries, Admission
  <2>2. thr[t].rec \in Recs
    BY <1>0, <1>14 DEF RegisterRaises, ThreadRecord, Fits, Carries, Admission
  <2>3. RestFits'
    BY <1>0, <1>14, <2>2 DEF RegisterRaises, RestFits, LetGo, Sole
  <2> QED BY <2>1, <2>3 DEF TypeInv
<1>15. CASE RunRaises(t)
  <2>1. ThreadsFit'
    BY <1>0, <1>15, GotoKeeps
       DEF RunRaises, Pcs, Fits, Unrecorded, Carries, Admission
  <2>2. thr[t].rec \in Recs
    BY <1>0, <1>15 DEF RunRaises, ThreadRecord, Fits, Carries
  <2>3. RestFits'
    BY <1>0, <1>15, <2>2 DEF RunRaises, RestFits
  <2> QED BY <2>1, <2>3 DEF TypeInv
<1> QED BY <1>1, <1>2, <1>3, <1>4, <1>5, <1>6, <1>7, <1>8, <1>9, <1>10, <1>11, <1>12, <1>13,
           <1>14, <1>15
        DEF PipelineStep

LEMMA StopFits ==
  ASSUME TypeInv, NEW s \in Stoppers, StopEvent(s) \/ StopJob(s)
  PROVE  TypeInv'
<1> USE DEF gateVs, outVs, ghosts, flowVs, HeldRecord
<1>0. ThreadsFit /\ RestFits /\ s \in Threads /\ Fits(thr[s]) /\ thr[s] \in ThreadRecord
  BY DEF TypeInv, ThreadsFit, Threads, Pipelines
<1>1. CASE StopEvent(s)
  <2> DEFINE q == [thr[s] EXCEPT !.pc = "stopjob", !.target = job]
  <2>1. q \in ThreadRecord /\ Fits(q)
    BY <1>0, <1>1, DictationAssumption
       DEF StopEvent, ThreadRecord, RestFits, Idle, Modes, Recs, Pcs, Fits, Unrecorded, Carries, Admission
  <2>2. thr' = [thr EXCEPT ![s] = q]
    BY <1>1 DEF StopEvent
  <2>3. generation' = generation
    BY <1>1 DEF StopEvent
  <2> HIDE DEF q
  <2>4. ThreadsFit'
    BY <1>0, <2>1, <2>2, <2>3, ThreadKeeps
  <2>5. RestFits'
    BY <1>0, <1>1 DEF StopEvent, RestFits, Stoppable
  <2> QED BY <2>4, <2>5 DEF TypeInv
<1>2. CASE StopJob(s)
  <2>1. ThreadsFit'
    BY <1>0, <1>2, GotoKeeps, DoneKeeps
       DEF StopJob, RestFits, Pcs, Fits, Unrecorded, Carries, Admission
  <2>2. RestFits'
    BY <1>0, <1>2 DEF StopJob, RestFits
  <2> QED BY <2>1, <2>2 DEF TypeInv
<1> QED BY <1>1, <1>2

\* A wipe has a recording only while it puts away the one it stopped.
LEMMA WipeFits ==
  ASSUME TypeInv, NEW w \in Wipers, WipeCheck(w) \/ WipeStep(w)
  PROVE  TypeInv'
<1> USE DEF gateVs, outVs, ghosts, flowVs, HeldRecord
<1>0. ThreadsFit /\ RestFits /\ w \in Threads /\ Fits(thr[w]) /\ thr[w] \in ThreadRecord
  BY DEF TypeInv, ThreadsFit, Threads, Pipelines
<1>1. CASE WipeCheck(w) \/ WipeFlag(w)
  <2>1. ThreadsFit'
    BY <1>0, <1>1, GotoKeeps
       DEF WipeCheck, WipeFlag, Pcs, Fits, Unrecorded, Carries, Admission
  <2>2. RestFits'
    <3>1. CASE WipeCheck(w)
      BY <1>0, <3>1 DEF WipeCheck, RestFits
    <3>2. CASE WipeFlag(w)
      BY <1>0, <3>2 DEF WipeFlag, RestFits
    <3> QED BY <1>1, <3>1, <3>2
  <2> QED BY <2>1, <2>2 DEF TypeInv
<1>2. CASE WipeStop(w)
  <2>1. ThreadsFit'
    BY <1>0, <1>2, StoppingKeeps, GotoKeeps
       DEF WipeStop, Pcs, Fits, Unrecorded, Carries, Admission
  <2>2. RestFits'
    <3>1. recording' \in BOOLEAN /\ (recording' => born # 0)
      <4>1. recording' = FALSE \/ recording' = recording
        BY <1>2 DEF WipeStop, Stopping
      <4>2. recording \in BOOLEAN /\ (recording => born # 0)
        BY <1>0 DEF RestFits
      <4>3. CASE recording' = FALSE
        BY <4>3, Zenon
      <4>4. CASE recording' = recording
        BY <4>2, <4>4, Zenon
      <4> QED BY <4>1, <4>3, <4>4
    <3>2. UNCHANGED << held, generation, gateVs, wiping, outVs, born, ghosts >>
      BY <1>2 DEF WipeStop
    <3> QED BY <1>0, <3>1, <3>2 DEF RestFits
  <2> QED BY <2>1, <2>2 DEF TypeInv
<1>3. CASE WipePoison(w)
  <2>1. generation \in Nat /\ generation' = generation + 1
    BY <1>0, <1>3 DEF WipePoison, RestFits
  <2>2. 0..generation \subseteq 0..generation'
    BY <2>1
  <2>3. held' \in Seq(HeldRecord')
    <3>1. HeldRecord \subseteq HeldRecord'
      BY <2>2
    <3>2. held \in Seq(HeldRecord) /\ held' = held
      BY <1>0, <1>3 DEF WipePoison, RestFits
    <3> HIDE DEF HeldRecord
    <3> QED BY <3>1, <3>2, SequenceOver
  <2>4. thr' \in [Threads -> ThreadRecord'] /\ \A u \in Threads : Fits(thr'[u])
    BY <1>0, <1>3, <2>2, DictationAssumption DEF WipePoison, ThreadsFit, ThreadRecord, Fits
  <2>5. RestFits'
    BY <1>0, <1>3, <2>1, <2>3 DEF WipePoison, RestFits
  <2> QED BY <2>4, <2>5 DEF TypeInv, ThreadsFit
<1>4. CASE WipeDropOne(w)
  <2>1. Head(held) \in HeldRecord /\ Tail(held) \in Seq(HeldRecord)
    <3> HIDE DEF HeldRecord
    <3> QED BY <1>0, <1>4, FirstOfSequence DEF WipeDropOne, RestFits
  <2>2. RestFits'
    BY <1>0, <1>4, <2>1 DEF WipeDropOne, RestFits
  <2>3. ThreadsFit'
    BY <1>0, <1>4 DEF WipeDropOne, ThreadsFit, ThreadRecord, Fits
  <2> QED BY <2>2, <2>3 DEF TypeInv
<1>5. CASE WipeDropped(w) \/ WipeAbort(w)
  <2>1. ThreadsFit'
    BY <1>0, <1>5, GotoKeeps
       DEF WipeDropped, WipeAbort, Pcs, Fits, Unrecorded, Carries, Admission
  <2>2. RestFits'
    <3>1. CASE WipeDropped(w)
      BY <1>0, <3>1 DEF WipeDropped, RestFits
    <3>2. CASE WipeAbort(w)
      BY <1>0, <3>2 DEF WipeAbort, RestFits
    <3> QED BY <1>5, <3>1, <3>2
  <2> QED BY <2>1, <2>2 DEF TypeInv
<1>6. CASE WipeCancel(w)
  <2>1. ThreadsFit'
    BY <1>0, <1>6, GotoKeeps
       DEF WipeCancel, Pcs, Fits, Unrecorded, Carries, Admission
  <2>2. RestFits'
    BY <1>0, <1>6 DEF WipeCancel, RestFits, Stoppable
  <2> QED BY <2>1, <2>2 DEF TypeInv
<1>7. CASE WipeGate(w) \/ WipeClear(w)
  <2>1. ThreadsFit'
    BY <1>0, <1>7, GotoKeeps
       DEF WipeGate, WipeClear, Pcs, Fits, Unrecorded, Carries, Admission
  <2>2. RestFits'
    <3>1. CASE WipeGate(w)
      BY <1>0, <3>1 DEF WipeGate, RestFits
    <3>2. CASE WipeClear(w)
      BY <1>0, <3>2 DEF WipeClear, RestFits
    <3> QED BY <1>7, <3>1, <3>2
  <2> QED BY <2>1, <2>2 DEF TypeInv
<1>8. CASE WipeDelete(w)
  <2>1. ThreadsFit'
    BY <1>0, <1>8, GotoKeeps
       DEF WipeDelete, Pcs, Fits, Unrecorded, Carries, Admission
  <2>2. RestFits'
    BY <1>0, <1>8 DEF WipeDelete, RestFits
  <2> QED BY <2>1, <2>2 DEF TypeInv
<1>9. CASE WipeUngate(w)
  <2>1. ThreadsFit'
    BY <1>0, <1>9, GotoKeeps
       DEF WipeUngate, Pcs, Fits, Unrecorded, Carries, Admission
  <2>2. RestFits'
    BY <1>0, <1>9 DEF WipeUngate, RestFits
  <2> QED BY <2>1, <2>2 DEF TypeInv
<1>10. CASE WipeUnflag(w)
  <2> DEFINE q == Idle
  <2>1. q \in ThreadRecord /\ Fits(q)
    BY <1>0, <1>10, DictationAssumption
       DEF WipeUnflag, ThreadRecord, RestFits, Idle, Modes, Recs, Pcs, Fits, Unrecorded, Carries, Admission
  <2>2. thr' = [thr EXCEPT ![w] = q]
    BY <1>10 DEF WipeUnflag
  <2>3. generation' = generation
    BY <1>10 DEF WipeUnflag
  <2> HIDE DEF q
  <2>4. ThreadsFit'
    BY <1>0, <2>1, <2>2, <2>3, ThreadKeeps
  <2>5. RestFits'
    BY <1>0, <1>10 DEF WipeUnflag, RestFits
  <2> QED BY <2>4, <2>5 DEF TypeInv
<1> QED BY <1>1, <1>2, <1>3, <1>4, <1>5, <1>6, <1>7, <1>8, <1>9, <1>10 DEF WipeStep

LEMMA CrashFits ==
  ASSUME TypeInv, CrashAndRestart
  PROVE  TypeInv'
<1> USE DEF gateVs, outVs, ghosts, flowVs, HeldRecord
<1>1. Idle \in ThreadRecord' /\ Fits(Idle)
  BY DictationAssumption
     DEF CrashAndRestart, ThreadRecord, Idle, Pcs, Modes, Fits, Unrecorded, Carries, Admission
<1>2. ThreadsFit'
  BY <1>1 DEF CrashAndRestart, ThreadsFit, Fits
<1>3. AtRisk \subseteq Recs
  <2>1. recording => born \in Recs
    <3>1. MaxRecordings \in Nat
      BY DictationAssumption
    <3> QED BY <3>1 DEF TypeInv, RestFits, Recs
  <2>2. \A i \in 1..Len(held) : held[i].rec \in Recs
    <3>1. held \in Seq(HeldRecord)
      BY DEF TypeInv, RestFits
    <3> HIDE DEF HeldRecord
    <3>2. \A i \in 1..Len(held) : held[i] \in HeldRecord
      BY <3>1, SequenceOver
    <3> QED BY <3>2 DEF HeldRecord
  <2>3. \A u \in Threads : thr[u].rec \in Recs \union {None}
    BY DEF TypeInv, ThreadsFit, ThreadRecord
  <2>4. \A u \in { t \in Threads : thr[t].pc \notin Staged \/ thr[t].mode = "bare" } :
          thr[u].rec \in Recs \union {None}
    BY <2>3
  <2> QED BY <2>1, <2>2, <2>4 DEF AtRisk, HeldBy
<1>4. RestFits'
  <2>1. born' = born /\ held' = << >> /\ generation' = 0 /\ lost' \subseteq Recs
    BY <1>3 DEF CrashAndRestart, RestFits, TypeInv
  <2>2. held' \in Seq(HeldRecord')
    BY <2>1
  <2>3. RestFits
    BY DEF TypeInv
  <2>4. recording' = FALSE /\ cancelEv' = FALSE /\ processing' = FALSE /\ wiping' = FALSE
    BY DEF CrashAndRestart
  <2>5. /\ gate' = None /\ job' = None /\ jobCancel' = {} /\ stopped' = {}
        /\ UNCHANGED << saved, drafted, born, discarded, dropped >>
    BY DEF CrashAndRestart
  <2> QED BY <2>1, <2>2, <2>3, <2>4, <2>5 DEF RestFits
<1> QED BY <1>2, <1>4 DEF TypeInv

LEMMA NextFits == TypeInv /\ [Next]_vars => TypeInv'
<1> SUFFICES ASSUME TypeInv, [Next]_vars PROVE TypeInv'
  OBVIOUS
<1>1. CASE UNCHANGED vars
  BY <1>1 DEF vars, flowVs, gateVs, outVs, ghosts, TypeInv, ThreadsFit, RestFits,
              ThreadRecord, HeldRecord, Fits
<1>2. Producers \subseteq Threads /\ Wipers \subseteq Threads
  BY DEF Threads
<1> QED BY <1>1, <1>2, RecorderFits, EnqueueFits, DispatchFits, CallFits, PipelineFits, StopFits,
           WipeFits, CrashFits DEF Next

LEMMA TypeAlways == Spec => []TypeInv
BY InitFits, NextFits, PTL DEF Spec

\* The types hold for any number of threads, with any limits and crashes at any
\* point; among them, that every recording held or under way is one that was made.
THEOREM TypeOK_Safety == Spec => []TypeOK
BY TypeAlways, TypeInvImplies, PTL
-----------------------------------------------------------------------------
(* Where every recording is.                                                 *)

Kept      == saved \union drafted \union discarded \union dropped
Finishing == {"wind", "release"}

\* A recording that is retried is kept, and one that has come to its stages is
\* kept or bare; a run that finishes has kept or dropped it.
Secured(q, kept) ==
  /\ q.mode = "retry" => q.rec \in kept
  /\ q.pc \in Staged => \/ q.rec \in kept \union {None}
                        \/ (q.mode = "bare" /\ q.pc \notin Finishing)

RecKept == \A t \in Threads : Secured(thr[t], Kept)

InHand(r) ==
  \/ recording /\ r = born
  \/ \E i \in 1..Len(held) : held[i].rec = r
  \/ \E t \in Threads : thr[t].rec = r

Accounted == \A r \in 1..born : InHand(r) \/ r \in Kept \/ r \in lost

AccountInv == TypeInv /\ RecKept /\ Accounted

\* A thread that steps keeps the account if it lets go only of what is kept.
LEMMA ThreadAccounts ==
  ASSUME AccountInv, NEW t \in Threads, NEW q, thr' = [thr EXCEPT ![t] = q],
         UNCHANGED << recording, held, born, lost >>, Kept \subseteq Kept',
         thr[t].rec \in {None, q.rec} \union Kept', Secured(q, Kept')
  PROVE  RecKept' /\ Accounted'
<1>1. None \notin 1..born
  BY DictationAssumption
<1>2. DOMAIN thr = Threads
  BY DEF AccountInv, TypeInv, ThreadsFit
<1>3. RecKept'
  BY <1>2 DEF AccountInv, RecKept, Secured
<1>4. ASSUME NEW r \in 1..born PROVE InHand(r)' \/ r \in Kept' \/ r \in lost
  <2>1. CASE \E u \in Threads : thr[u].rec = r
    BY <1>1, <1>2, <2>1 DEF InHand
  <2>2. CASE ~\E u \in Threads : thr[u].rec = r
    BY <2>2 DEF InHand, AccountInv, Accounted
  <2> QED BY <2>1, <2>2
<1> QED BY <1>3, <1>4 DEF Accounted

LEMMA GotoAccounts ==
  ASSUME AccountInv, NEW t \in Threads, NEW pc, Goto(t, pc),
         UNCHANGED << recording, held, born, lost >>, Kept \subseteq Kept',
         pc \in Staged => \/ thr[t].rec \in Kept' \union {None}
                         \/ (thr[t].mode = "bare" /\ pc \notin Finishing)
  PROVE  RecKept' /\ Accounted'
<1> DEFINE q == [thr[t] EXCEPT !.pc = pc]
<1>1. thr' = [thr EXCEPT ![t] = q]
  BY DEF Goto
<1>2. q.pc = pc /\ q.rec = thr[t].rec /\ q.mode = thr[t].mode
  BY DEF AccountInv, TypeInv, ThreadsFit, ThreadRecord
<1>3. Secured(q, Kept')
  BY <1>2 DEF Secured, AccountInv, RecKept
<1> HIDE DEF q
<1> QED BY <1>1, <1>2, <1>3, ThreadAccounts

LEMMA DoneAccounts ==
  ASSUME AccountInv, NEW t \in Threads, Done(t),
         UNCHANGED << recording, held, born, lost >>, Kept \subseteq Kept',
         thr[t].rec \in {None} \union Kept'
  PROVE  RecKept' /\ Accounted'
<1> DEFINE q == IF t \in Wipers THEN [Idle EXCEPT !.pc = "drop"] ELSE Idle
<1>1. thr' = [thr EXCEPT ![t] = q]
  BY DEF Done
<1>2. Secured(q, Kept')
  BY DEF Idle, Secured, Staged
<1> HIDE DEF q
<1> QED BY <1>1, <1>2, ThreadAccounts

LEMMA InitAccounts == Init => AccountInv
<1> SUFFICES ASSUME Init PROVE AccountInv
  OBVIOUS
<1>1. RecKept
  BY DEF Init, RecKept, Secured, Idle, Staged
<1>2. 1..born = {}
  BY DEF Init
<1> QED BY <1>1, <1>2, InitFits DEF AccountInv, Accounted

\* The recording passes to the thread that stops it.
LEMMA StoppingAccounts ==
  ASSUME AccountInv, NEW t \in Threads, thr[t].rec = None, Stopping(t),
         UNCHANGED << held, born, lost >>, Kept' = Kept
  PROVE  RecKept' /\ Accounted'
<1>1. /\ None \notin 1..born /\ DOMAIN thr = Threads
      /\ {"pc", "rec", "mode"} \subseteq DOMAIN thr[t]
  BY DictationAssumption DEF AccountInv, TypeInv, ThreadsFit, ThreadRecord
<1>2. /\ thr'[t].rec = born /\ thr'[t].pc = "depth" /\ thr'[t].mode = thr[t].mode
      /\ \A u \in Threads \ {t} : thr'[u] = thr[u]
  BY <1>1 DEF Stopping
<1>3. RecKept'
  <2>1. thr[t].mode # "retry"
    BY FirstNumbers DEF AccountInv, RecKept, Secured, TypeInv, RestFits, Kept
  <2> QED BY <1>1, <1>2, <2>1 DEF AccountInv, RecKept, Secured, Staged
<1>4. ASSUME NEW r \in 1..born PROVE InHand(r)' \/ r \in Kept' \/ r \in lost
  <2>1. CASE r = born
    BY <1>2, <2>1 DEF InHand
  <2>2. CASE \E u \in Threads : thr[u].rec = r
    BY <1>1, <1>2, <2>2 DEF InHand
  <2>3. CASE r # born /\ ~\E u \in Threads : thr[u].rec = r
    BY <2>3 DEF InHand, AccountInv, Accounted
  <2> QED BY <2>1, <2>2, <2>3
<1> QED BY <1>3, <1>4 DEF Accounted

LEMMA RecorderAccounts ==
  ASSUME AccountInv, NEW p \in Producers, StartCheck(p) \/ Start(p) \/ Stop(p)
  PROVE  RecKept' /\ Accounted'
<1> USE DEF gateVs, outVs, ghosts, flowVs
<1>0. p \in Threads /\ Fits(thr[p])
  BY DEF AccountInv, TypeInv, ThreadsFit, Threads
<1>1. CASE StartCheck(p)
  BY <1>0, <1>1, GotoAccounts DEF StartCheck, Kept, Staged
<1>2. CASE Start(p)
  <2>1. thr[p].rec = None
    BY <1>0, <1>2 DEF Start, Fits, Unrecorded
  <2>2. CASE UNCHANGED << recording, born >>
    BY <1>0, <1>2, <2>1, <2>2, DoneAccounts DEF Start, Kept
  <2>3. CASE ~recording /\ recording' = TRUE /\ born' = born + 1
    <3>1. born \in Nat /\ None \notin 1..born /\ DOMAIN thr = Threads
      BY DictationAssumption DEF AccountInv, TypeInv, RestFits, ThreadsFit
    <3>2. /\ thr'[p].rec = None /\ thr'[p].pc \in {"idle", "drop"} /\ thr'[p].mode = "none"
          /\ \A u \in Threads \ {p} : thr'[u] = thr[u]
      BY <1>0, <1>2, <3>1 DEF Start, Done, Idle
    <3>3. RecKept'
      BY <1>2, <3>1, <3>2 DEF Start, Kept, AccountInv, RecKept, Secured, Staged
    <3>4. ASSUME NEW r \in 1..born' PROVE InHand(r)' \/ r \in Kept' \/ r \in lost'
      <4>1. CASE r = born'
        BY <2>3, <4>1 DEF InHand
      <4>2. CASE r # born'
        <5>1. r \in 1..born
          BY <2>3, <3>1, <4>2
        <5>2. InHand(r) \/ r \in Kept \/ r \in lost
          BY <5>1 DEF AccountInv, Accounted
        <5>3. CASE \E u \in Threads : thr[u].rec = r
          BY <2>1, <3>1, <3>2, <5>1, <5>3 DEF InHand
        <5>4. CASE ~\E u \in Threads : thr[u].rec = r
          BY <1>2, <2>3, <5>2, <5>4 DEF Start, Kept, InHand
        <5> QED BY <5>3, <5>4
      <4> QED BY <4>1, <4>2
    <3> QED BY <3>3, <3>4 DEF Accounted
  <2> QED BY <1>2, <2>2, <2>3 DEF Start
<1>3. CASE Stop(p)
  BY <1>0, <1>3, StoppingAccounts DEF Stop, Kept, Fits, Unrecorded
<1> QED BY <1>1, <1>2, <1>3

LEMMA RescueAccounts ==
  ASSUME AccountInv, NEW t \in Threads, Rescue(t)
  PROVE  RecKept' /\ Accounted'
<1>1. thr[t].rec \in Kept' /\ Kept \subseteq Kept'
  BY DEF Rescue, LetGo, Sole, Kept, AccountInv, RecKept, Secured
<1> QED BY <1>1, DoneAccounts DEF Rescue, gateVs, outVs, ghosts, flowVs

LEMMA EnqueueAccounts ==
  ASSUME AccountInv, NEW t \in Threads, EnqueueStep(t)
  PROVE  RecKept' /\ Accounted'
<1> USE DEF gateVs, outVs, ghosts, flowVs
<1>1. CASE Depth(t)
  <2>1. Goto(t, IF HasRoom THEN "put" ELSE "overflow")
    BY <1>1 DEF Depth, Goto
  <2> QED BY <1>1, <2>1, GotoAccounts DEF Depth, Kept, Staged
<1>2. CASE Put(t)
  <2> DEFINE h == [rec |-> thr[t].rec, gen |-> generation]
  <2>1. held \in Seq(HeldRecord) /\ DOMAIN thr = Threads
    BY DEF AccountInv, TypeInv, RestFits, ThreadsFit
  <2>2. /\ Len(held') = Len(held) + 1 /\ held'[Len(held) + 1] = h
        /\ \A i \in 1..Len(held) : held'[i] = held[i]
    <3>1. thr[t].rec \in Recs /\ generation \in Nat
      BY <1>2 DEF AccountInv, TypeInv, ThreadsFit, RestFits, ThreadRecord, Put, Fits, Carries
    <3>2. h \in HeldRecord
      BY <3>1 DEF HeldRecord
    <3> HIDE DEF h
    <3>3. held' = Append(held, h)
      BY <1>2 DEF Put, h
    <3> QED BY <2>1, <3>2, <3>3
  <2>3. /\ thr'[t].rec = None /\ thr'[t].pc \in {"idle", "drop"} /\ thr'[t].mode = "none"
        /\ \A u \in Threads \ {t} : thr'[u] = thr[u]
    BY <1>2, <2>1 DEF Put, Done, Idle
  <2>4. RecKept'
    BY <1>2, <2>1, <2>3 DEF Put, Kept, AccountInv, RecKept, Secured, Staged
  <2>5. ASSUME NEW r \in 1..born PROVE InHand(r)' \/ r \in Kept' \/ r \in lost
    <3>1. InHand(r) \/ r \in Kept \/ r \in lost
      BY DEF AccountInv, Accounted
    <3>2. Len(held) \in Nat
      BY <2>1
    <3>3. CASE thr[t].rec = r
      BY <2>2, <3>2, <3>3 DEF InHand
    <3>4. CASE \E i \in 1..Len(held) : held[i].rec = r
      BY <2>2, <3>2, <3>4 DEF InHand
    <3>5. CASE thr[t].rec # r /\ ~\E i \in 1..Len(held) : held[i].rec = r
      BY <1>2, <2>1, <2>3, <3>1, <3>5 DEF Put, Kept, InHand
    <3> QED BY <3>3, <3>4, <3>5
  <2> QED BY <1>2, <2>4, <2>5 DEF Put, Accounted
<1>3. CASE Overflow(t)
  BY <1>3, DoneAccounts, GotoAccounts
     DEF Overflow, Discard, Kept, Staged
<1>4. CASE Rescue(t)
  BY <1>4, RescueAccounts
<1>5. CASE StopRaises(t)
  <2>1. thr[t].rec \in Kept'
    BY <1>5 DEF StopRaises, LetGo, Sole, Kept, AccountInv, RecKept, Secured
  <2> QED BY <1>5, <2>1, DoneAccounts DEF StopRaises, LetGo, Kept
<1> QED BY <1>1, <1>2, <1>3, <1>4, <1>5 DEF EnqueueStep

\* A thread that leaves its recording alone, and only goes on.
LEMMA RecordAccounts ==
  ASSUME AccountInv, NEW t \in Threads, NEW q, thr' = [thr EXCEPT ![t] = q],
         q.rec = thr[t].rec, Secured(q, Kept'),
         UNCHANGED << recording, held, born, lost >>, Kept \subseteq Kept'
  PROVE  RecKept' /\ Accounted'
BY ThreadAccounts

LEMMA DispatchAccounts ==
  ASSUME AccountInv, DispatchStep
  PROVE  RecKept' /\ Accounted'
<1> USE DEF gateVs, outVs, ghosts, flowVs
<1>0. Dispatcher \in Threads /\ thr[Dispatcher] \in ThreadRecord /\ DOMAIN thr = Threads
  BY DEF AccountInv, TypeInv, ThreadsFit, Threads, Pipelines
<1>1. CASE Take
  <2>1. /\ held \in Seq(HeldRecord) /\ held # << >> /\ held' = Tail(held)
        /\ thr[Dispatcher].rec = None
    BY <1>1 DEF Take, AccountInv, TypeInv, RestFits, ThreadsFit, Threads, Pipelines, Fits,
                Unrecorded
  <2>2. /\ Len(held) \in Nat \ {0} /\ Len(held') = Len(held) - 1 /\ Head(held) = held[1]
        /\ \A i \in 2..Len(held) : i - 1 \in 1..Len(held') /\ held'[i - 1] = held[i]
    <3> HIDE DEF HeldRecord
    <3> QED BY <2>1
  <2>3. /\ thr'[Dispatcher].rec = Head(held).rec /\ thr'[Dispatcher].pc = "fresh"
        /\ thr'[Dispatcher].mode = "held"
        /\ \A u \in Threads \ {Dispatcher} : thr'[u] = thr[u]
    BY <1>0, <1>1 DEF Take, Idle
  <2>4. RecKept'
    BY <1>1, <1>0, <2>3 DEF Take, Kept, AccountInv, RecKept, Secured, Staged
  <2>5. ASSUME NEW r \in 1..born PROVE InHand(r)' \/ r \in Kept' \/ r \in lost
    <3>1. InHand(r) \/ r \in Kept \/ r \in lost
      BY DEF AccountInv, Accounted
    <3>2. r # None
      BY DictationAssumption
    <3>3. CASE \E i \in 1..Len(held) : held[i].rec = r
      <4>1. PICK i \in 1..Len(held) : held[i].rec = r
        BY <3>3
      <4>2. CASE i = 1
        BY <1>0, <2>2, <2>3, <4>1, <4>2 DEF InHand
      <4>3. CASE i # 1
        <5>1. i \in 2..Len(held)
          BY <2>2, <4>3
        <5> QED BY <2>2, <4>1, <5>1 DEF InHand
      <4> QED BY <4>2, <4>3
    <3>4. CASE \E u \in Threads : thr[u].rec = r
      BY <1>0, <2>1, <2>3, <3>2, <3>4 DEF InHand
    <3>5. CASE ~(\E u \in Threads : thr[u].rec = r) /\ ~\E i \in 1..Len(held) : held[i].rec = r
      BY <1>1, <3>1, <3>5 DEF Take, Kept, InHand
    <3> QED BY <3>3, <3>4, <3>5
  <2> QED BY <1>1, <2>4, <2>5 DEF Take, Accounted
<1>2. CASE Fresh
  BY <1>0, <1>2, DoneAccounts, GotoAccounts
     DEF Fresh, Discard, Kept, Staged
<1>3. CASE DrainRaises
  <2>1. thr[Dispatcher].rec \in Kept'
    BY <1>0, <1>3 DEF DrainRaises, LetGo, Sole, Kept, AccountInv, RecKept, Secured
  <2> QED BY <1>0, <1>3, <2>1, DoneAccounts DEF DrainRaises, LetGo, Kept
<1> QED BY <1>1, <1>2, <1>3 DEF DispatchStep

LEMMA CallAccounts ==
  ASSUME AccountInv, NEW c \in Callers, Retry(c) \/ Rewrite(c)
  PROVE  RecKept' /\ Accounted'
<1> USE DEF gateVs, outVs, ghosts, flowVs
<1>0. c \in Threads /\ thr[c].rec = None
  BY DEF AccountInv, TypeInv, ThreadsFit, Threads, Pipelines, Retry, Rewrite, Fits, Unrecorded
<1>1. UNCHANGED << recording, held, born, lost >> /\ Kept' = Kept
  BY DEF Retry, Rewrite, Kept
<1>2. ASSUME NEW q, thr' = [thr EXCEPT ![c] = q], q.pc = "enter",
             q.mode = "retry" => q.rec \in Kept
      PROVE  RecKept' /\ Accounted'
  <2>1. Secured(q, Kept')
    BY <1>1, <1>2 DEF Secured, Staged
  <2> QED BY <1>0, <1>1, <1>2, <2>1, ThreadAccounts
<1>3. CASE Retry(c)
  <2>1. PICK r \in drafted :
          thr' = [thr EXCEPT ![c] = [Idle EXCEPT !.pc = "enter", !.rec = r, !.mode = "retry"]]
    BY <1>3 DEF Retry
  <2> DEFINE q == [Idle EXCEPT !.pc = "enter", !.rec = r, !.mode = "retry"]
  <2>2. q.pc = "enter" /\ q.rec \in Kept
    BY DEF Idle, Kept
  <2> QED BY <1>2, <2>1, <2>2
<1>4. CASE Rewrite(c)
  <2> DEFINE q == [Idle EXCEPT !.pc = "enter", !.mode = "rewrite"]
  <2>1. q.pc = "enter" /\ q.mode = "rewrite"
    BY DEF Idle
  <2> QED BY <1>2, <1>4, <2>1 DEF Rewrite
<1> QED BY <1>3, <1>4

\* A pipeline that has persisted its recording ends with it in a draft, or kept
\* as it was; until then it lets go of it to the recovery bin, to a wipe, or by
\* failing.
LEMMA PipelineAccounts ==
  ASSUME AccountInv, NEW t \in Pipelines, PipelineStep(t)
  PROVE  RecKept' /\ Accounted'
<1> USE DEF gateVs, outVs, ghosts, flowVs
<1>0. /\ t \in Threads /\ thr[t] \in ThreadRecord /\ Fits(thr[t]) /\ Secured(thr[t], Kept)
      /\ DOMAIN thr = Threads
  BY DEF AccountInv, TypeInv, ThreadsFit, Threads, RecKept
<1>1. CASE Enter(t)
  BY <1>0, <1>1, DoneAccounts, GotoAccounts
     DEF Enter, Discard, Kept, Staged
<1>2. CASE Admit(t)
  BY <1>0, <1>2, GotoAccounts DEF Admit, Kept, Staged
<1>3. CASE Busy(t)
  BY <1>0, <1>3, DoneAccounts, GotoAccounts
     DEF Busy, Discard, Kept, Staged
<1>4. CASE Rescue(t)
  BY <1>0, <1>4, RescueAccounts
<1>5. CASE ClaimGate(t)
  BY <1>0, <1>5, GotoAccounts DEF ClaimGate, Kept, Staged
<1>6. CASE Recheck(t)
  BY <1>0, <1>6, GotoAccounts DEF Recheck, Discard, Kept, Staged
<1>7. CASE Register(t)
  BY <1>0, <1>7, GotoAccounts DEF Register, Kept, Staged
<1>8. CASE Persist(t)
  <2> DEFINE q(m) == [thr[t] EXCEPT !.pc = "stage", !.stage = 1, !.mode = m]
  <2>1. \A m : q(m).rec = thr[t].rec /\ q(m).pc = "stage" /\ q(m).mode = m
    BY <1>0 DEF ThreadRecord
  <2>2. Kept \subseteq Kept' /\ UNCHANGED << recording, held, born, lost >>
    BY <1>8 DEF Persist, Kept
  <2>3. CASE saved' = saved \union {thr[t].rec} /\ thr' = [thr EXCEPT ![t].pc = "stage", ![t].stage = 1]
    <3>1. thr' = [thr EXCEPT ![t] = q(thr[t].mode)]
      BY <1>0, <2>3 DEF ThreadRecord
    <3>2. thr[t].rec \in Kept'
      BY <2>3 DEF Kept
    <3> HIDE DEF q
    <3>3. Secured(q(thr[t].mode), Kept')
      BY <2>1, <3>2 DEF Secured
    <3> QED BY <1>0, <2>1, <2>2, <3>1, <3>3, RecordAccounts
  <2>4. CASE thr' = [thr EXCEPT ![t].pc = "stage", ![t].stage = 1, ![t].mode = Unsaved(t)]
    <3>1. thr' = [thr EXCEPT ![t] = q(Unsaved(t))]
      BY <2>4
    <3>2. Unsaved(t) = "bare" \/ (Unsaved(t) = "retry" /\ thr[t].rec \in Kept')
      BY <1>0, <2>2 DEF Unsaved, Secured
    <3> HIDE DEF q
    <3>3. Secured(q(Unsaved(t)), Kept')
      BY <2>1, <3>2 DEF Secured, Finishing
    <3> QED BY <1>0, <2>1, <2>2, <3>1, <3>3, RecordAccounts
  <2> QED BY <1>8, <2>3, <2>4 DEF Persist
<1>9. CASE StageStart(t)
  BY <1>0, <1>9, GotoAccounts DEF StageStart, Kept, Secured, Staged, Finishing
<1>10. CASE StageCancelled(t)
  BY <1>0, <1>10, GotoAccounts DEF StageCancelled, Kept, Secured, Staged, Finishing
<1>11. CASE StageEnd(t)
  <2>1. UNCHANGED << recording, held, born, lost >> /\ Kept \subseteq Kept' /\ thr[t].pc = "run"
    BY <1>11 DEF StageEnd, Kept
  <2>2. thr[t].rec \in Kept' \union {None} \/ thr[t].mode = "bare"
    BY <1>0, <2>1 DEF Secured, Staged
  <2>3. CASE Goto(t, "report")
    BY <1>0, <2>1, <2>2, <2>3, GotoAccounts DEF Finishing
  <2>4. CASE Goto(t, "wind") /\ drafted' = drafted \union {thr[t].rec}
    <3>1. thr[t].rec \in Kept'
      BY <2>4 DEF Kept
    <3> QED BY <1>0, <2>1, <2>4, <3>1, GotoAccounts
  <2>5. CASE thr' = [thr EXCEPT ![t].pc = "stage", ![t].stage = @ + 1]
    <3> DEFINE q == [thr[t] EXCEPT !.pc = "stage", !.stage = @ + 1]
    <3>1. q.rec = thr[t].rec /\ q.pc = "stage" /\ q.mode = thr[t].mode
      BY <1>0 DEF ThreadRecord
    <3>2. thr' = [thr EXCEPT ![t] = q]
      BY <2>5
    <3> HIDE DEF q
    <3>3. Secured(q, Kept')
      BY <1>0, <2>1, <2>2, <3>1 DEF Secured, Finishing
    <3> QED BY <1>0, <2>1, <3>1, <3>2, <3>3, RecordAccounts
  <2> QED BY <1>11, <2>3, <2>4, <2>5 DEF StageEnd
<1>12. CASE Report(t)
  BY <1>0, <1>12, GotoAccounts DEF Report, Kept, Staged
<1>13. CASE RewriteDone(t)
  BY <1>0, <1>13, GotoAccounts
     DEF RewriteDone, Kept, Fits, Unrecorded
<1>14. CASE Wind(t)
  BY <1>0, <1>14, GotoAccounts DEF Wind, Kept, Secured, Staged, Finishing
<1>15. CASE Release(t)
  BY <1>0, <1>15, DoneAccounts DEF Release, Kept, Secured, Staged, Finishing
<1>16. CASE RegisterRaises(t)
  <2>1. thr[t].rec \in Kept' /\ Kept \subseteq Kept'
    BY <1>0, <1>16 DEF RegisterRaises, LetGo, Sole, Kept, Secured
  <2> QED BY <1>0, <1>16, <2>1, GotoAccounts DEF RegisterRaises
<1>17. CASE RunRaises(t)
  <2>1. thr[t].rec \in Kept' \union {None} /\ Kept \subseteq Kept'
    BY <1>0, <1>17 DEF RunRaises, Kept, Secured, Staged
  <2> QED BY <1>0, <1>17, <2>1, GotoAccounts DEF RunRaises
<1> QED BY <1>1, <1>2, <1>3, <1>4, <1>5, <1>6, <1>7, <1>8, <1>9, <1>10, <1>11, <1>12, <1>13,
           <1>14, <1>15, <1>16, <1>17
        DEF PipelineStep

LEMMA StopAccounts ==
  ASSUME AccountInv, NEW s \in Stoppers, StopEvent(s) \/ StopJob(s)
  PROVE  RecKept' /\ Accounted'
<1> USE DEF gateVs, outVs, ghosts, flowVs
<1>0. s \in Threads /\ thr[s] \in ThreadRecord /\ Fits(thr[s]) /\ Secured(thr[s], Kept)
  BY DEF AccountInv, TypeInv, ThreadsFit, Threads, RecKept
<1>1. CASE StopEvent(s)
  <2> DEFINE q == [thr[s] EXCEPT !.pc = "stopjob", !.target = job]
  <2>1. q.rec = thr[s].rec /\ q.pc = "stopjob" /\ q.mode = thr[s].mode
    BY <1>0 DEF ThreadRecord
  <2>2. thr' = [thr EXCEPT ![s] = q]
    BY <1>1 DEF StopEvent
  <2> HIDE DEF q
  <2>3. Secured(q, Kept')
    BY <1>0, <1>1, <2>1 DEF StopEvent, Kept, Secured, Staged
  <2> QED BY <1>0, <1>1, <2>1, <2>2, <2>3, RecordAccounts DEF StopEvent, Kept
<1>2. CASE StopJob(s)
  BY <1>0, <1>2, DoneAccounts DEF StopJob, Kept, Fits, Unrecorded
<1> QED BY <1>1, <1>2

\* A thread changes its program counter to one outside the stages, and a held
\* recording leaves the queue for the wipe's account.
LEMMA WipeAccounts ==
  ASSUME AccountInv, NEW w \in Wipers, WipeCheck(w) \/ WipeStep(w)
  PROVE  RecKept' /\ Accounted'
<1> USE DEF gateVs, outVs, ghosts, flowVs
<1>0. /\ w \in Threads /\ thr[w] \in ThreadRecord /\ Fits(thr[w]) /\ Secured(thr[w], Kept)
      /\ DOMAIN thr = Threads
  BY DEF AccountInv, TypeInv, ThreadsFit, Threads, RecKept
<1>1. CASE WipeCheck(w) \/ WipeFlag(w)
  BY <1>0, <1>1, GotoAccounts DEF WipeCheck, WipeFlag, Kept, Staged
<1>2. CASE WipeStop(w)
  <2>1. CASE Stopping(w)
    BY <1>0, <1>2, <2>1, StoppingAccounts DEF WipeStop, Kept, Fits, Unrecorded
  <2>2. CASE Goto(w, "drop") /\ UNCHANGED recording
    BY <1>0, <1>2, <2>2, GotoAccounts DEF WipeStop, Kept, Staged
  <2> QED BY <1>2, <2>1, <2>2 DEF WipeStop
<1>3. CASE WipePoison(w)
  <2> DEFINE q == [thr[w] EXCEPT !.stage = 1]
  <2>1. q.rec = thr[w].rec /\ q.pc = thr[w].pc /\ q.mode = thr[w].mode
    BY <1>0 DEF ThreadRecord
  <2>2. thr' = [thr EXCEPT ![w] = q]
    BY <1>3 DEF WipePoison
  <2> HIDE DEF q
  <2>3. Secured(q, Kept')
    BY <1>0, <1>3, <2>1 DEF WipePoison, Secured, Kept
  <2> QED BY <1>0, <1>3, <2>1, <2>2, <2>3, RecordAccounts DEF WipePoison, Kept
<1>4. CASE WipeDropOne(w)
  <2>1. held \in Seq(HeldRecord) /\ held # << >> /\ held' = Tail(held)
    BY <1>4 DEF WipeDropOne, AccountInv, TypeInv, RestFits
  <2>2. /\ Len(held) \in Nat \ {0} /\ Len(held') = Len(held) - 1 /\ Head(held) = held[1]
        /\ \A i \in 2..Len(held) : i - 1 \in 1..Len(held') /\ held'[i - 1] = held[i]
    <3> HIDE DEF HeldRecord
    <3> QED BY <2>1
  <2>3. Kept \subseteq Kept' /\ Head(held).rec \in Kept'
    BY <1>4 DEF WipeDropOne, Kept
  <2>4. RecKept'
    BY <1>4, <2>3 DEF WipeDropOne, AccountInv, RecKept, Secured
  <2>5. ASSUME NEW r \in 1..born PROVE InHand(r)' \/ r \in Kept' \/ r \in lost
    <3>1. InHand(r) \/ r \in Kept \/ r \in lost
      BY DEF AccountInv, Accounted
    <3>2. CASE \E i \in 1..Len(held) : held[i].rec = r
      <4>1. PICK i \in 1..Len(held) : held[i].rec = r
        BY <3>2
      <4>2. CASE i = 1
        BY <2>2, <2>3, <4>1, <4>2
      <4>3. CASE i # 1
        <5>1. i \in 2..Len(held)
          BY <2>2, <4>3
        <5> QED BY <2>2, <4>1, <5>1 DEF InHand
      <4> QED BY <4>2, <4>3
    <3>3. CASE ~\E i \in 1..Len(held) : held[i].rec = r
      BY <1>4, <2>3, <3>1, <3>3 DEF WipeDropOne, InHand
    <3> QED BY <3>2, <3>3
  <2> QED BY <1>4, <2>4, <2>5 DEF WipeDropOne, Accounted
<1>5. CASE WipeDropped(w) \/ WipeAbort(w)
  BY <1>0, <1>5, GotoAccounts DEF WipeDropped, WipeAbort, Kept, Staged
<1>6. CASE WipeCancel(w)
  BY <1>0, <1>6, GotoAccounts DEF WipeCancel, Kept, Staged
<1>7. CASE WipeGate(w) \/ WipeClear(w)
  BY <1>0, <1>7, GotoAccounts DEF WipeGate, WipeClear, Kept, Staged
<1>8. CASE WipeDelete(w)
  BY <1>0, <1>8, GotoAccounts DEF WipeDelete, Kept, Staged
<1>9. CASE WipeUngate(w)
  BY <1>0, <1>9, GotoAccounts DEF WipeUngate, Kept, Staged
<1>10. CASE WipeUnflag(w)
  <2>1. Secured(Idle, Kept')
    BY DEF Idle, Secured, Staged
  <2> QED BY <1>0, <1>10, <2>1, ThreadAccounts DEF WipeUnflag, Kept, Fits, Unrecorded
<1> QED BY <1>1, <1>2, <1>3, <1>4, <1>5, <1>6, <1>7, <1>8, <1>9, <1>10 DEF WipeStep

\* What exists in memory only is what some thread, the queue or the recorder has.
LEMMA InHandInFlight ==
  ASSUME NEW r, r # None
  PROVE  InHand(r) <=> r \in InFlight
BY DEF InHand, InFlight, HeldBy

\* A crash takes what is in memory only; what has come to its stages with its
\* save done is kept.
LEMMA CrashAccounts ==
  ASSUME AccountInv, CrashAndRestart
  PROVE  RecKept' /\ Accounted'
<1> USE DEF gateVs, outVs, ghosts, flowVs
<1>1. Kept' = Kept /\ born' = born
  BY DEF CrashAndRestart, Kept
<1>2. RecKept'
  BY DEF CrashAndRestart, Idle, RecKept, Secured, Staged
<1>3. ASSUME NEW r \in 1..born PROVE r \in Kept \/ r \in lost'
  <2>1. r # None
    BY DictationAssumption
  <2>2. lost' = lost \union (AtRisk \ (saved \union drafted))
    BY DEF CrashAndRestart
  <2>3. CASE InHand(r) /\ r \notin Kept
    <3>1. ASSUME NEW t \in Threads, thr[t].rec = r
          PROVE  thr[t].pc \notin Staged \/ thr[t].mode = "bare"
      BY <2>1, <2>3, <3>1 DEF AccountInv, RecKept, Secured
    <3>2. r \in AtRisk
      BY <2>1, <2>3, <3>1 DEF InHand, AtRisk, HeldBy
    <3> QED BY <2>2, <2>3, <3>2 DEF Kept
  <2> QED BY <2>2, <2>3 DEF AccountInv, Accounted
<1> QED BY <1>1, <1>2, <1>3 DEF Accounted

LEMMA NextAccounts == AccountInv /\ [Next]_vars => AccountInv'
<1> SUFFICES ASSUME AccountInv, [Next]_vars PROVE AccountInv'
  OBVIOUS
<1>1. TypeInv'
  BY NextFits DEF AccountInv
<1>2. Producers \subseteq Threads /\ Wipers \subseteq Threads
  BY DEF Threads
<1>3. RecKept' /\ Accounted'
  <2>1. CASE UNCHANGED vars
    BY <2>1 DEF vars, flowVs, gateVs, outVs, ghosts, AccountInv, RecKept, Accounted, InHand,
                Kept, Secured
  <2>2. CASE Next
    BY <1>2, <2>2, RecorderAccounts, EnqueueAccounts, DispatchAccounts, CallAccounts,
       PipelineAccounts, StopAccounts, WipeAccounts, CrashAccounts DEF Next
  <2> QED BY <2>1, <2>2
<1> QED BY <1>1, <1>3 DEF AccountInv

LEMMA AccountAlways == Spec => []AccountInv
BY InitAccounts, NextAccounts, PTL DEF Spec

\* No recording disappears unseen, whoever stops it, holds it, runs it or wipes
\* it, and whichever save or step fails: one that is nowhere was let go of by a
\* failure before its save or of its only save, or fell to a crash before its
\* first stage or with its save failed (server.py 2387-2392, 2494-2502, 3037-3049,
\* 3114-3139; hotkey_manager.py 245-263).
THEOREM RecordingsAccounted_Safety == Spec => []RecordingsAccounted
<1>1. AccountInv => RecordingsAccounted
  <2> SUFFICES ASSUME AccountInv, NEW r \in 1..born
               PROVE  r \in InFlight \union saved \union drafted \union discarded
                              \union dropped \union lost
    BY DEF RecordingsAccounted
  <2>1. r # None
    BY DictationAssumption
  <2> QED BY <2>1, InHandInFlight DEF AccountInv, Accounted, Kept
<1> QED BY <1>1, AccountAlways, PTL
-----------------------------------------------------------------------------
(* Nobody takes a cancellation back from the run it was meant for.           *)

HIDE DEF TypeInv, AccountInv

\* A stopped run holds the gate until it ends, and the event stays set as long.
StopInv ==
  /\ stopped \subseteq Pipelines
  /\ stopped # {} => cancelEv = TRUE
  /\ \A t \in stopped : thr[t].pc \in Running \union {"release"}

LEMMA ThreadStops ==
  ASSUME FlightInv, StopInv, NEW u \in Threads, NEW q, thr' = [thr EXCEPT ![u] = q],
         stopped' \subseteq stopped, u \in stopped' => q.pc \in Running \union {"release"},
         stopped' = {} \/ cancelEv' = cancelEv
  PROVE  StopInv'
BY DEF FlightInv, Shape, StopInv, Pipelines, Threads

\* A thread that does not run has not been stopped.
LEMMA NotStopped ==
  ASSUME StopInv, NEW u, thr[u].pc \notin Running \union {"release"}
  PROVE  u \notin stopped
BY DEF StopInv

\* A thread that has just taken the gate finds no stopped run.
LEMMA NobodyStopped ==
  ASSUME FlightInv, StopInv, NEW u \in Threads, thr[u].pc \in {"claim", "clear"}
  PROVE  stopped = {}
<1>1. gate = u
  BY DEF FlightInv, HoldersHold, PipelineHolds, WipeHolds
<1>2. ASSUME NEW s \in stopped PROVE FALSE
  <2>1. s \in Threads /\ thr[s].pc \in Running \union {"release"}
    BY DEF StopInv, Threads
  <2>2. gate = s
    BY <2>1 DEF FlightInv, HoldersHold, PipelineHolds
  <2> QED BY <1>1, <2>1, <2>2 DEF Running
<1> QED BY <1>2

LEMMA QueueStops ==
  ASSUME FlightInv, StopInv,
         \/ \E p \in Producers : StartCheck(p) \/ Start(p) \/ Stop(p)
         \/ \E t \in Producers \union Wipers : EnqueueStep(t)
         \/ DispatchStep
         \/ \E c \in Callers : Retry(c) \/ Rewrite(c)
  PROVE  StopInv'
<1> USE DEF gateVs, ghosts, Running
<1>1. ASSUME NEW p \in Producers, StartCheck(p) \/ Start(p) \/ Stop(p) PROVE StopInv'
  <2>1. p \in Threads /\ \E q : thr' = [thr EXCEPT ![p] = q]
    BY <1>1 DEF StartCheck, Start, Stop, Stopping, Goto, Done, Threads
  <2>2. UNCHANGED << stopped, cancelEv >> /\ thr[p].pc \in {"idle", "starting"}
    BY <1>1 DEF StartCheck, Start, Stop
  <2> QED BY <2>1, <2>2, ThreadStops, NotStopped
<1>2. ASSUME NEW t \in Producers \union Wipers, EnqueueStep(t) PROVE StopInv'
  <2>1. t \in Threads /\ \E q : thr' = [thr EXCEPT ![t] = q]
    BY <1>2 DEF EnqueueStep, Depth, StopRaises, Put, Overflow, Rescue, Goto, Done, Threads
  <2>2. UNCHANGED << stopped, cancelEv >> /\ thr[t].pc \in {"depth", "put", "overflow", "rescue"}
    BY <1>2 DEF EnqueueStep, Depth, StopRaises, Put, Overflow, Rescue
  <2> QED BY <2>1, <2>2, ThreadStops, NotStopped
<1>3. CASE DispatchStep
  <2>1. Dispatcher \in Threads /\ \E q : thr' = [thr EXCEPT ![Dispatcher] = q]
    BY <1>3 DEF DispatchStep, Take, Fresh, DrainRaises, Goto, Done, Threads, Pipelines
  <2>2. UNCHANGED << stopped, cancelEv >> /\ thr[Dispatcher].pc \in {"idle", "fresh"}
    BY <1>3 DEF DispatchStep, Take, Fresh, DrainRaises
  <2> QED BY <2>1, <2>2, ThreadStops, NotStopped
<1>4. ASSUME NEW c \in Callers, Retry(c) \/ Rewrite(c) PROVE StopInv'
  <2>1. c \in Threads /\ \E q : thr' = [thr EXCEPT ![c] = q]
    BY <1>4 DEF Retry, Rewrite, Threads, Pipelines
  <2>2. UNCHANGED << stopped, cancelEv >> /\ thr[c].pc = "idle"
    BY <1>4 DEF Retry, Rewrite
  <2> QED BY <2>1, <2>2, ThreadStops, NotStopped
<1> QED BY <1>1, <1>2, <1>3, <1>4

\* Who takes the gate after a stopped run is the first to clear the event.
LEMMA PipelineStops ==
  ASSUME FlightInv, StopInv, NEW t \in Pipelines, PipelineStep(t)
  PROVE  StopInv'
<1> USE DEF gateVs, ghosts, Running
<1>0. t \in Threads /\ DOMAIN thr = Threads /\ {"pc", "mode"} \subseteq DOMAIN thr[t]
  BY DEF FlightInv, Shape, Threads
<1>1. CASE Enter(t) \/ Admit(t) \/ Busy(t) \/ Rescue(t)
  <2>1. \E q : thr' = [thr EXCEPT ![t] = q]
    BY <1>1 DEF Enter, Admit, Busy, Rescue, Goto, Done
  <2>2. UNCHANGED << stopped, cancelEv >> /\ thr[t].pc \in {"enter", "await", "busy", "rescue"}
    BY <1>1 DEF Enter, Admit, Busy, Rescue
  <2> QED BY <1>0, <2>1, <2>2, ThreadStops, NotStopped
<1>2. CASE ClaimGate(t)
  <2>1. stopped = {} /\ stopped' = {}
    BY <1>0, <1>2, NobodyStopped DEF ClaimGate
  <2> QED BY <2>1 DEF StopInv
<1>3. CASE \/ Recheck(t) \/ Register(t) \/ Persist(t) \/ StageStart(t) \/ StageCancelled(t)
           \/ StageEnd(t) \/ Report(t) \/ RewriteDone(t) \/ Wind(t)
           \/ RegisterRaises(t) \/ RunRaises(t)
  <2>1. UNCHANGED << stopped, cancelEv >>
    BY <1>3 DEF Recheck, Register, Persist, StageStart, StageCancelled, StageEnd, Report,
                RewriteDone, Wind, RegisterRaises, RunRaises
  <2>2. CASE \E pc \in Running \union {"release"} : Goto(t, pc)
    <3>1. PICK pc \in Running \union {"release"} : Goto(t, pc)
      BY <2>2
    <3> DEFINE q == [thr[t] EXCEPT !.pc = pc]
    <3>2. thr' = [thr EXCEPT ![t] = q] /\ q.pc = pc
      BY <1>0, <3>1 DEF Goto
    <3> HIDE DEF q
    <3> QED BY <1>0, <2>1, <3>1, <3>2, ThreadStops
  <2>3. CASE Persist(t)
    <3> DEFINE q(m) == [thr[t] EXCEPT !.pc = "stage", !.stage = 1, !.mode = m]
    <3>1. \E m : thr' = [thr EXCEPT ![t] = q(m)]
      <4>1. thr' = [thr EXCEPT ![t] = q(thr[t].mode)] \/ thr' = [thr EXCEPT ![t] = q(Unsaved(t))]
        BY <1>0, <2>3 DEF Persist
      <4> QED BY <4>1
    <3>2. \A m : q(m).pc = "stage"
      BY <1>0
    <3> HIDE DEF q
    <3> QED BY <1>0, <2>1, <3>1, <3>2, ThreadStops
  <2>4. CASE thr' = [thr EXCEPT ![t].pc = "stage", ![t].stage = @ + 1]
    <3> DEFINE q == [thr[t] EXCEPT !.pc = "stage", !.stage = @ + 1]
    <3>1. thr' = [thr EXCEPT ![t] = q] /\ q.pc = "stage"
      BY <1>0, <2>4
    <3> HIDE DEF q
    <3> QED BY <1>0, <2>1, <3>1, ThreadStops
  <2> QED BY <1>3, <2>2, <2>3, <2>4
          DEF Recheck, Register, StageStart, StageCancelled, StageEnd, Report, RewriteDone, Wind,
              RegisterRaises, RunRaises
<1>4. CASE Release(t)
  <2>1. \E q : thr' = [thr EXCEPT ![t] = q]
    BY <1>4 DEF Release, Done
  <2>2. stopped' = stopped \ {t} /\ cancelEv' = cancelEv
    BY <1>4 DEF Release
  <2> QED BY <1>0, <2>1, <2>2, ThreadStops
<1> QED BY <1>1, <1>2, <1>3, <1>4 DEF PipelineStep

LEMMA StoppersStop ==
  ASSUME FlightInv, StopInv, NEW s \in Stoppers, StopEvent(s) \/ StopJob(s)
  PROVE  StopInv'
<1> USE DEF gateVs, ghosts
<1>0. s \in Threads /\ DOMAIN thr = Threads
  BY DEF FlightInv, Shape, Threads
<1>1. CASE StopEvent(s)
  <2>1. /\ cancelEv' = TRUE /\ stopped' = stopped \union Stoppable
        /\ \A u \in Threads \ {s} : thr'[u] = thr[u]
    BY <1>0, <1>1 DEF StopEvent
  <2>2. s \notin stopped /\ s \notin Stoppable
    BY <1>1, NotStopped DEF StopEvent, Stoppable, Running
  <2> QED BY <2>1, <2>2 DEF StopInv, Stoppable, Pipelines, Threads
<1>2. CASE StopJob(s)
  <2>1. \E q : thr' = [thr EXCEPT ![s] = q]
    BY <1>2 DEF StopJob, Done
  <2>2. UNCHANGED << stopped, cancelEv >> /\ thr[s].pc = "stopjob"
    BY <1>2 DEF StopJob
  <2> QED BY <1>0, <2>1, <2>2, ThreadStops, NotStopped DEF Running
<1> QED BY <1>1, <1>2

LEMMA WipeStops ==
  ASSUME FlightInv, StopInv, NEW w \in Wipers, WipeCheck(w) \/ WipeStep(w)
  PROVE  StopInv'
<1> USE DEF gateVs, ghosts
<1>0. w \in Threads /\ DOMAIN thr = Threads
  BY DEF FlightInv, Shape, Threads
<1>1. CASE WipeCancel(w)
  <2>1. /\ cancelEv' = TRUE /\ stopped' = stopped \union Stoppable
        /\ \A u \in Threads \ {w} : thr'[u] = thr[u]
    BY <1>0, <1>1 DEF WipeCancel, Goto
  <2>2. w \notin stopped /\ w \notin Stoppable
    BY <1>1, NotStopped DEF WipeCancel, Stoppable, Running
  <2> QED BY <2>1, <2>2 DEF StopInv, Stoppable, Pipelines, Threads
<1>2. CASE WipeClear(w)
  <2>1. stopped = {} /\ stopped' = {}
    BY <1>0, <1>2, NobodyStopped DEF WipeClear
  <2> QED BY <2>1 DEF StopInv
<1>3. CASE WipeDropOne(w)
  BY <1>3 DEF WipeDropOne, StopInv
<1>4. CASE WipePoison(w)
  <2>1. \E q : thr' = [thr EXCEPT ![w] = q]
    BY <1>4 DEF WipePoison
  <2>2. UNCHANGED << stopped, cancelEv >> /\ thr[w].pc = "drop"
    BY <1>4 DEF WipePoison
  <2> QED BY <1>0, <2>1, <2>2, ThreadStops, NotStopped DEF Running
<1>5. CASE \/ WipeCheck(w) \/ WipeFlag(w) \/ WipeStop(w) \/ WipeDropped(w) \/ WipeGate(w)
           \/ WipeAbort(w) \/ WipeDelete(w) \/ WipeUngate(w) \/ WipeUnflag(w)
  <2>1. \E q : thr' = [thr EXCEPT ![w] = q]
    BY <1>5 DEF WipeCheck, WipeFlag, WipeStop, Stopping, WipeDropped, WipeGate, WipeAbort,
                WipeDelete, WipeUngate, WipeUnflag, Goto
  <2>2. /\ UNCHANGED << stopped, cancelEv >>
        /\ thr[w].pc \in {"idle", "flag", "stop", "drop", "gate", "delete", "ungate", "unflag"}
    BY <1>5 DEF WipeCheck, WipeFlag, WipeStop, WipeDropped, WipeGate, WipeAbort, WipeDelete,
                WipeUngate, WipeUnflag
  <2> QED BY <1>0, <2>1, <2>2, ThreadStops, NotStopped DEF Running
<1> QED BY <1>1, <1>2, <1>3, <1>4, <1>5 DEF WipeStep

LEMMA NextStops == FlightInv /\ StopInv /\ [Next]_vars => StopInv'
<1> SUFFICES ASSUME FlightInv, StopInv, [Next]_vars PROVE StopInv'
  OBVIOUS
<1>1. CASE UNCHANGED vars
  BY <1>1 DEF vars, gateVs, ghosts, StopInv
<1>2. CASE CrashAndRestart
  BY <1>2 DEF CrashAndRestart, StopInv
<1> QED BY <1>1, <1>2, QueueStops, PipelineStops, StoppersStop, WipeStops DEF Next

LEMMA StopAlways == Spec => []StopInv
<1>1. Init => StopInv
  BY DEF Init, StopInv
<1> QED BY <1>1, NextStops, FlightAlways, PTL DEF Spec

\* A stop raised while a pipeline runs keeps it from its next stage, whoever
\* waits for the gate, gives up on it or takes it next.
THEOREM StopHonoured_Safety == Spec => StopHonoured
<1>1. StopInv => [\A t \in Pipelines : StageStart(t) => t \notin stopped]_vars
  BY DEF StopInv, StageStart, CancelRequested
<1> QED BY <1>1, StopAlways, PTL DEF StopHonoured
-----------------------------------------------------------------------------
(* The erasure.  A wipe that has the gate is the only one (HoldersHold), so   *)
(* `deleting' is that wipe; every step then leaves both sides of the gate and *)
(* the drafts alone, or is a step of Erasure.                                 *)

\* `deleting' without its CHOOSE.
DeletingIs ==
  /\ \A w \in Wipers : thr[w].pc \in WipeHolds => deleting = w
  /\ (\A w \in Wipers : thr[w].pc \notin WipeHolds) => deleting = None
AtWorkIs == atWork = { t \in Pipelines : thr[t].pc \in PipelineHolds }

\* Nobody changes sides.
Sides ==
  \A t \in Threads : /\ thr'[t].pc \in PipelineHolds <=> thr[t].pc \in PipelineHolds
                     /\ thr'[t].pc \in WipeHolds <=> thr[t].pc \in WipeHolds
Steps == [Erasing!Next]_<< atWork, deleting, drafted >>

LEMMA Positions == FlightInv => DeletingIs /\ AtWorkIs
<1> SUFFICES ASSUME FlightInv PROVE DeletingIs /\ AtWorkIs
  OBVIOUS
<1>1. AtWorkIs
  BY DEF AtWorkIs, atWork, PipelineHolds
<1>2. deleting = IF \E w \in Wipers : thr[w].pc \in WipeHolds
                   THEN CHOOSE w \in Wipers : thr[w].pc \in WipeHolds ELSE None
  BY DEF deleting, WipeHolds
<1>3. \A v, w \in Wipers : thr[v].pc \in WipeHolds /\ thr[w].pc \in WipeHolds => v = w
  BY DEF FlightInv, HoldersHold, Threads
<1>4. DeletingIs
  BY <1>2, <1>3 DEF DeletingIs
<1> QED BY <1>1, <1>4

LEMMA SidesKept ==
  ASSUME DeletingIs, DeletingIs', AtWorkIs, AtWorkIs', Sides
  PROVE  atWork' = atWork /\ deleting' = deleting
<1>1. atWork' = atWork
  BY DEF AtWorkIs, Sides, Threads
<1>2. \A w \in Wipers : thr'[w].pc \in WipeHolds <=> thr[w].pc \in WipeHolds
  BY DEF Sides, Threads
<1>3. CASE \E w \in Wipers : thr[w].pc \in WipeHolds
  BY <1>1, <1>2, <1>3 DEF DeletingIs
<1>4. CASE \A w \in Wipers : thr[w].pc \notin WipeHolds
  BY <1>1, <1>2, <1>4 DEF DeletingIs
<1> QED BY <1>1, <1>3, <1>4

\* The free gate has nobody on either side.
LEMMA FreeGate ==
  ASSUME FlightInv, GateFree
  PROVE  \A t \in Threads : thr[t].pc \notin PipelineHolds \union WipeHolds
<1>1. \A t \in Threads : t # None
  BY DictationAssumption
<1> QED BY <1>1 DEF FlightInv, HoldersHold, GateFree

\* What most steps are: one thread moves without changing sides.
LEMMA OneMoves ==
  ASSUME FlightInv, NEW t \in Threads, NEW q, thr' = [thr EXCEPT ![t] = q],
         q.pc \in PipelineHolds <=> thr[t].pc \in PipelineHolds,
         q.pc \in WipeHolds <=> thr[t].pc \in WipeHolds
  PROVE  Sides
BY DEF FlightInv, Shape, Sides

LEMMA OneGoes ==
  ASSUME FlightInv, NEW t \in Threads, NEW pc, Goto(t, pc),
         pc \in PipelineHolds <=> thr[t].pc \in PipelineHolds,
         pc \in WipeHolds <=> thr[t].pc \in WipeHolds
  PROVE  Sides
BY DEF FlightInv, Shape, Sides, Goto

LEMMA OneDone ==
  ASSUME FlightInv, NEW t \in Threads, Done(t), thr[t].pc \notin PipelineHolds \union WipeHolds
  PROVE  Sides
BY DEF FlightInv, Shape, Sides, Done, Idle, PipelineHolds, WipeHolds, Running, Deleting

\* The steps around the queue, and the calls.
LEMMA QueueSides ==
  ASSUME FlightInv,
         \/ \E p \in Producers : StartCheck(p) \/ Start(p) \/ Stop(p)
         \/ \E t \in Producers \union Wipers : EnqueueStep(t)
         \/ DispatchStep
         \/ \E c \in Callers : Retry(c) \/ Rewrite(c)
         \/ \E s \in Stoppers : StopEvent(s) \/ StopJob(s)
  PROVE  Sides /\ drafted' = drafted
<1> USE DEF outVs, Goto, Done, Idle, Pipelines, Threads, FlightInv, Shape, Sides,
            PipelineHolds, WipeHolds, Running, Deleting
<1>1. ASSUME NEW p \in Producers, StartCheck(p) \/ Start(p) \/ Stop(p)
      PROVE  Sides /\ drafted' = drafted
  BY <1>1 DEF StartCheck, Start, Stop, Stopping
<1>2. ASSUME NEW t \in Producers \union Wipers, EnqueueStep(t)
      PROVE  Sides /\ drafted' = drafted
  BY <1>2 DEF EnqueueStep, Depth, StopRaises, Put, Overflow, Rescue
<1>3. CASE Take
  BY <1>3 DEF Take
<1>7. CASE Fresh \/ DrainRaises
  BY <1>7 DEF Fresh, DrainRaises
<1>4. ASSUME NEW c \in Callers, Retry(c) PROVE Sides /\ drafted' = drafted
  <2>1. \E r : r.pc = "enter" /\ thr' = [thr EXCEPT ![c] = r]
    BY <1>4 DEF Retry
  <2>2. thr[c].pc = "idle" /\ drafted' = drafted
    BY <1>4 DEF Retry
  <2> QED BY <2>1, <2>2
<1>5. ASSUME NEW c \in Callers, Rewrite(c) PROVE Sides /\ drafted' = drafted
  BY <1>5 DEF Rewrite
<1>6. ASSUME NEW s \in Stoppers, StopEvent(s) \/ StopJob(s) PROVE Sides /\ drafted' = drafted
  BY <1>6 DEF StopEvent, StopJob
<1> QED BY <1>1, <1>2, <1>3, <1>4, <1>5, <1>6, <1>7 DEF DispatchStep

\* A pipeline begins when the gate was free, keeps a draft while it holds the
\* gate, and ends.
LEMMA PipelineSteps ==
  ASSUME FlightInv, TypeInv, DeletingIs, DeletingIs', AtWorkIs, AtWorkIs',
         NEW t \in Pipelines, PipelineStep(t)
  PROVE  Steps
<1> USE DEF outVs, Pipelines, Threads, PipelineHolds, WipeHolds, Running, Deleting
<1> t \in Threads /\ t \in Pipelines \union Wipers
  OBVIOUS
<1>q. Sides /\ drafted' = drafted => Steps
  BY SidesKept DEF Steps
<1>1. CASE Enter(t) \/ Busy(t)
  BY <1>1, <1>q, OneGoes, OneDone DEF Enter, Busy
<1>2. CASE Admit(t)
  <2>1. CASE Goto(t, "busy") /\ thr[t].pc = "await" /\ drafted' = drafted
    BY <2>1, <1>q, OneGoes
  <2>2. CASE GateFree /\ Goto(t, "claim") /\ thr[t].pc = "await" /\ drafted' = drafted
    <3>1. \A u \in Threads : thr[u].pc \notin PipelineHolds \union WipeHolds
      BY <2>2, FreeGate
    <3>2. /\ thr'[t].pc = "claim"
          /\ \A u \in Threads \ {t} : thr'[u] = thr[u]
      BY <2>2 DEF Goto, FlightInv, Shape
    <3>3. atWork' = atWork \union {t}
      BY <3>1, <3>2 DEF AtWorkIs
    <3>4. \A w \in Wipers : thr[w].pc \notin WipeHolds /\ thr'[w].pc \notin WipeHolds
      BY <3>1, <3>2
    <3>5. deleting = None /\ deleting' = None
      BY <3>4 DEF DeletingIs
    <3> QED BY <2>2, <3>3, <3>5 DEF Steps, Erasing!Next, Erasing!Begin
  <2> QED BY <1>2, <2>1, <2>2 DEF Admit
<1>3. CASE Rescue(t)
  BY <1>3, <1>q, OneDone DEF Rescue
<1>4. CASE ClaimGate(t) \/ Recheck(t) \/ Register(t) \/ RegisterRaises(t)
  BY <1>4, <1>q, OneGoes DEF ClaimGate, Recheck, Register, RegisterRaises
<1>5. CASE Persist(t)
  BY <1>5, <1>q DEF Persist, FlightInv, Shape, Sides
<1>6. CASE StageStart(t) \/ StageCancelled(t) \/ RunRaises(t) \/ RewriteDone(t) \/ Wind(t)
  BY <1>6, <1>q, OneGoes DEF StageStart, StageCancelled, RunRaises, RewriteDone, Wind
<1>7. CASE thr[t].pc \in {"run", "report"} /\ Goto(t, "wind")
           /\ drafted' = drafted \union {thr[t].rec}
  <2>1. Sides
    BY <1>7, OneGoes
  <2>2. t \in atWork
    BY <1>7 DEF AtWorkIs
  <2>3. thr[t].rec \in Recs
    BY <1>7 DEF TypeInv, ThreadsFit, ThreadRecord, Fits, Carries
  <2> QED BY <1>7, <2>1, <2>2, <2>3, SidesKept DEF Steps, Erasing!Next, Erasing!Create
<1>8. CASE StageEnd(t)
  <2>1. CASE thr[t].pc = "run" /\ thr' = [thr EXCEPT ![t].pc = "stage", ![t].stage = @ + 1]
             /\ drafted' = drafted
    BY <2>1, <1>q DEF FlightInv, Shape, Sides
  <2>2. CASE thr[t].pc = "run" /\ Goto(t, "report") /\ drafted' = drafted
    BY <2>2, <1>q, OneGoes
  <2> QED BY <1>7, <1>8, <2>1, <2>2 DEF StageEnd
<1>9. CASE Report(t)
  BY <1>7, <1>9 DEF Report
<1>10. CASE Release(t)
  <2>1. /\ thr'[t].pc \in {"idle", "drop"}
        /\ \A u \in Threads \ {t} : thr'[u] = thr[u]
        /\ drafted' = drafted /\ thr[t].pc = "release"
    BY <1>10 DEF Release, Done, Idle, FlightInv, Shape
  <2>2. atWork' = atWork \ {t}
    BY <2>1 DEF AtWorkIs
  <2>3. \A w \in Wipers : thr'[w].pc \in WipeHolds <=> thr[w].pc \in WipeHolds
    BY <2>1
  <2>4. deleting' = deleting
    BY <2>3 DEF DeletingIs
  <2> QED BY <2>1, <2>2, <2>4 DEF Steps, Erasing!Next, Erasing!End
<1> QED BY <1>1, <1>2, <1>3, <1>4, <1>5, <1>6, <1>8, <1>9, <1>10 DEF PipelineStep

\* A wipe gets the gate when nobody is at work, and is the eraser until it
\* gives the gate back.
LEMMA WipeSteps ==
  ASSUME FlightInv, DeletingIs, DeletingIs', AtWorkIs, AtWorkIs',
         NEW w \in Wipers, WipeCheck(w) \/ WipeStep(w)
  PROVE  Steps
<1> USE DEF outVs, Threads, PipelineHolds, WipeHolds, Running, Deleting
<1> w \in Threads /\ w \in Pipelines \union Wipers
  OBVIOUS
<1>q. Sides /\ drafted' = drafted => Steps
  BY SidesKept DEF Steps
<1>1. CASE WipeCheck(w) \/ WipeFlag(w) \/ WipeDropped(w) \/ WipeCancel(w) \/ WipeAbort(w)
  BY <1>1, <1>q, OneGoes DEF WipeCheck, WipeFlag, WipeDropped, WipeCancel, WipeAbort
<1>2. CASE WipeStop(w)
  BY <1>2, <1>q DEF WipeStop, Stopping, Goto, FlightInv, Shape, Sides
<1>3. CASE WipePoison(w)
  BY <1>3, <1>q DEF WipePoison, FlightInv, Shape, Sides
<1>4. CASE WipeDropOne(w)
  BY <1>4, <1>q DEF WipeDropOne, Sides
<1>5. CASE WipeGate(w)
  <2>1. \A u \in Threads : thr[u].pc \notin PipelineHolds \union WipeHolds
    BY <1>5, FreeGate DEF WipeGate
  <2>2. /\ thr'[w].pc = "clear"
        /\ \A u \in Threads \ {w} : thr'[u] = thr[u]
        /\ drafted' = drafted
    BY <1>5 DEF WipeGate, Goto, FlightInv, Shape
  <2>3. atWork = {} /\ atWork' = {}
    BY <2>1, <2>2 DEF AtWorkIs, Pipelines
  <2>4. deleting = None /\ deleting' = w
    BY <2>1, <2>2 DEF DeletingIs
  <2> QED BY <2>2, <2>3, <2>4 DEF Steps, Erasing!Next, Erasing!Quiesce
<1>6. CASE WipeClear(w)
  BY <1>6, <1>q, OneGoes DEF WipeClear
<1>7. CASE WipeDelete(w)
  <2>1. Sides /\ thr[w].pc = "delete"
    BY <1>7, OneGoes DEF WipeDelete
  <2>2. deleting = w /\ UNCHANGED << atWork, deleting >>
    BY <2>1, SidesKept DEF DeletingIs
  <2>3. drafted' = {} \/ drafted' = drafted
    BY <1>7 DEF WipeDelete
  <2> QED BY <2>2, <2>3 DEF Steps, Erasing!Next, Erasing!Erase
<1>8. CASE WipeUngate(w)
  <2>1. thr[w].pc = "ungate" /\ drafted' = drafted
    BY <1>8 DEF WipeUngate
  <2>2. /\ thr'[w].pc = "unflag"
        /\ \A u \in Threads \ {w} : thr'[u] = thr[u]
    BY <1>8 DEF WipeUngate, Goto, FlightInv, Shape
  <2>3. \A v \in Wipers \ {w} : thr[v].pc \notin WipeHolds
    BY <2>1 DEF FlightInv, HoldersHold
  <2>4. deleting = w /\ deleting' = None
    BY <2>1, <2>2, <2>3 DEF DeletingIs
  <2>5. \A u \in Threads : thr'[u].pc \in PipelineHolds <=> thr[u].pc \in PipelineHolds
    BY <2>1, <2>2
  <2>6. atWork' = atWork
    BY <2>5 DEF AtWorkIs
  <2> QED BY <2>1, <2>4, <2>6 DEF Steps, Erasing!Next, Erasing!Resume
<1>9. CASE WipeUnflag(w)
  BY <1>9, <1>q, OneMoves DEF WipeUnflag, Idle
<1> QED BY <1>1, <1>2, <1>3, <1>4, <1>5, <1>6, <1>7, <1>8, <1>9 DEF WipeStep

LEMMA NextErasing ==
  ASSUME FlightInv, TypeInv, DeletingIs, DeletingIs', AtWorkIs, AtWorkIs', [Next]_vars
  PROVE  Steps
<1>q. Sides /\ drafted' = drafted => Steps
  BY SidesKept DEF Steps
<1>1. CASE UNCHANGED vars
  BY <1>1, <1>q DEF vars, outVs, Sides
<1>2. CASE CrashAndRestart
  <2>1. \A t \in Threads : thr'[t].pc = "idle"
    BY <1>2 DEF CrashAndRestart, Idle
  <2>2. drafted' = drafted
    BY <1>2 DEF CrashAndRestart, outVs
  <2>3. atWork' = {} /\ deleting' = None
    BY <2>1 DEF AtWorkIs, DeletingIs, Threads, PipelineHolds, WipeHolds, Running, Deleting
  <2> QED BY <2>2, <2>3 DEF Steps, Erasing!Next, Erasing!Crash
<1> QED BY <1>1, <1>2, <1>q, QueueSides, PipelineSteps, WipeSteps DEF Next

\* Drafts are kept only by the pipeline that holds the gate, and a wipe deletes
\* them only while it holds the gate and nobody is at work, whatever the number
\* of callers, wipes, retries and crashes (dictation_coordinator.py,
\* process_recording_result, _perform_privacy_wipe).
THEOREM WipeErases_Refinement == Spec => WipeErases
<1>1. Init => Erasing!Init
  <2> SUFFICES ASSUME Init PROVE Erasing!Init
    OBVIOUS
  <2>1. FlightInv /\ drafted = {} /\ \A t \in Threads : thr[t].pc = "idle"
    BY InitFlight DEF Init, Idle
  <2>2. DeletingIs /\ AtWorkIs
    BY <2>1, Positions
  <2>3. atWork = {} /\ deleting = None
    BY <2>1, <2>2 DEF AtWorkIs, DeletingIs, Threads, PipelineHolds, WipeHolds, Running, Deleting
  <2> QED BY <2>1, <2>3 DEF Erasing!Init
<1>2. FlightInv /\ FlightInv' /\ TypeInv /\ [Next]_vars => Steps
  <2>1. FlightInv' => (DeletingIs /\ AtWorkIs)'
    BY Positions, PTL
  <2> QED BY <2>1, Positions, NextErasing
<1>3. FlightInv /\ [Next]_vars => FlightInv'
  BY NextFlight
<1> QED BY <1>1, <1>2, <1>3, FlightAlways, TypeAlways, PTL DEF Spec, WipeErases, Erasing!Spec, Steps

-----------------------------------------------------------------------------
(* What keeps others out.  SingleFlight says the gate is held by those who    *)
(* need it; this says the converse: a gate or a wipe flag that is set belongs *)
(* to a thread that still has to clear it.                                    *)

Holds  == PipelineHolds \union WipeHolds
\* Where a wipe has not set its flag, or has cleared it.
Unflagged == {"idle", "flag"}

GateHasHolder == gate # None => gate \in Threads /\ thr[gate].pc \in Holds
FlagHasWipe   == wiping => \E w \in Wipers : thr[w].pc \notin Unflagged

NothingLeftHeld == GateHasHolder /\ FlagHasWipe

\* A thread that gives up neither its gate nor its flag.
Passes(t) ==
  /\ UNCHANGED << gate, wiping >>
  /\ \A u \in Threads \ {t} : thr'[u] = thr[u]
  /\ thr[t].pc \in Holds => thr'[t].pc \in Holds
  /\ t \in Wipers /\ thr[t].pc \notin Unflagged => thr'[t].pc \notin Unflagged

LEMMA PassesHeld ==
  ASSUME NothingLeftHeld, NEW t \in Threads, Passes(t)
  PROVE  NothingLeftHeld'
<1>1. GateHasHolder'
  BY DEF NothingLeftHeld, GateHasHolder, Passes
<1>2. FlagHasWipe'
  BY DEF NothingLeftHeld, FlagHasWipe, Passes, Threads
<1> QED BY <1>1, <1>2 DEF NothingLeftHeld

LEMMA QueuePasses ==
  ASSUME FlightInv,
         \/ \E p \in Producers : StartCheck(p) \/ Start(p) \/ Stop(p)
         \/ \E t \in Producers \union Wipers : EnqueueStep(t)
         \/ DispatchStep
         \/ \E c \in Callers : Retry(c) \/ Rewrite(c)
         \/ \E s \in Stoppers : StopEvent(s) \/ StopJob(s)
  PROVE  \E t \in Threads : Passes(t)
<1> USE DictationAssumption
    DEF FlightInv, Shape, gateVs, Goto, Done, Idle, Pipelines, Threads, Passes, Holds, Unflagged,
        PipelineHolds, WipeHolds, Running, Deleting
<1>1. ASSUME NEW p \in Producers, StartCheck(p) \/ Start(p) \/ Stop(p)
      PROVE  Passes(p)
  BY <1>1 DEF StartCheck, Start, Stop, Stopping
<1>2. ASSUME NEW t \in Producers \union Wipers, EnqueueStep(t)
      PROVE  Passes(t)
  BY <1>2 DEF EnqueueStep, Depth, StopRaises, Put, Overflow, Rescue
<1>3. CASE Take
  <2>1. Passes(Dispatcher)
    BY <1>3 DEF Take
  <2> QED BY <2>1
<1>4. CASE Fresh \/ DrainRaises
  <2>1. Passes(Dispatcher)
    BY <1>4 DEF Fresh, DrainRaises
  <2> QED BY <2>1
<1>5. ASSUME NEW c \in Callers, Retry(c) PROVE Passes(c)
  <2>1. \E r : r.pc = "enter" /\ thr' = [thr EXCEPT ![c] = r]
    BY <1>5 DEF Retry
  <2>2. thr[c].pc = "idle" /\ UNCHANGED << gateVs, wiping >>
    BY <1>5 DEF Retry
  <2> QED BY <2>1, <2>2
<1>6. ASSUME NEW c \in Callers, Rewrite(c) PROVE Passes(c)
  BY <1>6 DEF Rewrite
<1>7. ASSUME NEW s \in Stoppers, StopEvent(s) \/ StopJob(s) PROVE Passes(s)
  BY <1>7 DEF StopEvent, StopJob
<1>8. /\ Dispatcher \in Threads
      /\ \A t \in Producers \union Wipers \union Callers \union Stoppers : t \in Threads
  BY DEF Threads, Pipelines
<1> HIDE DEF Passes, Threads, FlightInv
<1> QED BY <1>1, <1>2, <1>3, <1>4, <1>5, <1>6, <1>7, <1>8 DEF DispatchStep

\* A pipeline takes the gate for itself and returns it last.
LEMMA PipelineHeld ==
  ASSUME NothingLeftHeld, FlightInv, NEW t \in Pipelines, PipelineStep(t)
  PROVE  NothingLeftHeld'
<1> USE DEF FlightInv, Shape, gateVs, Goto, Done, Idle, Passes, Holds, Unflagged,
            PipelineHolds, WipeHolds, Running, Deleting
<1> t \in Threads /\ t \notin Wipers
  BY DictationAssumption DEF Threads, Pipelines
<1>1. Passes(t) => NothingLeftHeld'
  BY PassesHeld
<1>2. CASE Enter(t) \/ Busy(t) \/ Rescue(t)
  BY <1>1, <1>2 DEF Enter, Busy, Rescue
<1>3. CASE Admit(t)
  <2>1. CASE Goto(t, "busy") /\ thr[t].pc = "await" /\ UNCHANGED << gate, wiping >>
    BY <1>1, <2>1
  <2>2. CASE gate' = t /\ Goto(t, "claim") /\ UNCHANGED wiping /\ thr[t].pc = "await"
    <3>1. GateHasHolder'
      BY <2>2 DEF GateHasHolder
    <3>2. FlagHasWipe'
      BY <2>2 DEF NothingLeftHeld, FlagHasWipe, Threads
    <3> QED BY <3>1, <3>2 DEF NothingLeftHeld
  <2> QED BY <1>3, <2>1, <2>2 DEF Admit
<1>4. CASE ClaimGate(t) \/ Recheck(t) \/ Register(t) \/ RegisterRaises(t) \/ Persist(t)
  BY <1>1, <1>4 DEF ClaimGate, Recheck, Register, RegisterRaises, Persist
<1>5. CASE StageStart(t) \/ StageCancelled(t) \/ StageEnd(t) \/ RunRaises(t)
  BY <1>1, <1>5 DEF StageStart, StageCancelled, StageEnd, RunRaises
<1>6. CASE Report(t) \/ RewriteDone(t) \/ Wind(t)
  BY <1>1, <1>6 DEF Report, RewriteDone, Wind
<1>7. CASE Release(t)
  <2>1. GateHasHolder'
    BY <1>7 DEF Release, GateHasHolder
  <2>2. FlagHasWipe'
    BY <1>7 DEF Release, NothingLeftHeld, FlagHasWipe, Threads
  <2> QED BY <2>1, <2>2 DEF NothingLeftHeld
<1> QED BY <1>2, <1>3, <1>4, <1>5, <1>6, <1>7 DEF PipelineStep

\* So does a wipe, and it clears its flag when it has nothing left to give back.
LEMMA WipeHeld ==
  ASSUME NothingLeftHeld, FlightInv, NEW w \in Wipers, WipeCheck(w) \/ WipeStep(w)
  PROVE  NothingLeftHeld'
<1> USE DEF FlightInv, Shape, gateVs, Goto, Idle, Passes, Holds, Unflagged,
            PipelineHolds, WipeHolds, Running, Deleting
<1> w \in Threads
  BY DEF Threads
<1>1. Passes(w) => NothingLeftHeld'
  BY PassesHeld
<1>2. CASE WipeCheck(w) \/ WipeStop(w) \/ WipePoison(w)
  BY <1>1, <1>2 DEF WipeCheck, WipeStop, Stopping, WipePoison
<1>3. CASE WipeDropOne(w) \/ WipeDropped(w) \/ WipeCancel(w) \/ WipeAbort(w)
  BY <1>1, <1>3 DEF WipeDropOne, WipeDropped, WipeCancel, WipeAbort
<1>4. CASE WipeClear(w) \/ WipeDelete(w)
  BY <1>1, <1>4 DEF WipeClear, WipeDelete
<1>5. CASE WipeFlag(w)
  <2>1. thr'[w].pc = "stop" /\ \A u \in Threads \ {w} : thr'[u] = thr[u]
    BY <1>5 DEF WipeFlag
  <2>2. thr[w].pc = "flag" /\ gate' = gate
    BY <1>5 DEF WipeFlag
  <2>3. GateHasHolder'
    BY <2>1, <2>2 DEF NothingLeftHeld, GateHasHolder
  <2>4. FlagHasWipe'
    BY <2>1 DEF FlagHasWipe
  <2> QED BY <2>3, <2>4 DEF NothingLeftHeld
<1>6. CASE WipeGate(w)
  <2>1. thr'[w].pc = "clear" /\ gate' = w /\ wiping' = wiping
    BY <1>6 DEF WipeGate
  <2>2. GateHasHolder' /\ FlagHasWipe'
    BY <2>1 DEF GateHasHolder, FlagHasWipe
  <2> QED BY <2>2 DEF NothingLeftHeld
<1>7. CASE WipeUngate(w)
  <2>1. thr'[w].pc = "unflag" /\ gate' = None
    BY <1>7 DEF WipeUngate
  <2>2. GateHasHolder' /\ FlagHasWipe'
    BY <2>1 DEF GateHasHolder, FlagHasWipe
  <2> QED BY <2>2 DEF NothingLeftHeld
<1>8. CASE WipeUnflag(w)
  <2>1. thr[w].pc = "unflag" /\ gate' = gate /\ wiping' = FALSE
    BY <1>8 DEF WipeUnflag
  <2>2. \A u \in Threads \ {w} : thr'[u] = thr[u]
    BY <1>8 DEF WipeUnflag
  <2>3. GateHasHolder' /\ FlagHasWipe'
    BY <2>1, <2>2 DEF NothingLeftHeld, GateHasHolder, FlagHasWipe
  <2> QED BY <2>3 DEF NothingLeftHeld
<1> QED BY <1>2, <1>3, <1>4, <1>5, <1>6, <1>7, <1>8 DEF WipeStep

LEMMA NextHeld == NothingLeftHeld /\ FlightInv /\ [Next]_vars => NothingLeftHeld'
<1> SUFFICES ASSUME NothingLeftHeld, FlightInv, [Next]_vars PROVE NothingLeftHeld'
  OBVIOUS
<1>1. CASE UNCHANGED vars
  BY <1>1 DEF vars, gateVs, NothingLeftHeld, GateHasHolder, FlagHasWipe
<1>2. CASE CrashAndRestart
  BY <1>2 DEF CrashAndRestart, NothingLeftHeld, GateHasHolder, FlagHasWipe
<1> QED BY <1>1, <1>2, QueuePasses, PassesHeld, PipelineHeld, WipeHeld DEF Next

\* A gate that is held is held by a run or a wipe that has yet to release it,
\* and a wipe flag that is up belongs to a wipe that has yet to lower it: no
\* rejected caller, cancelled run, aborted wipe or crash leaves dictation shut
\* out for good (dictation_coordinator.py, server.py's finally clauses).
THEOREM NothingLeftHeld_Safety == Spec => []NothingLeftHeld
<1>1. Init => NothingLeftHeld
  BY DEF Init, NothingLeftHeld, GateHasHolder, FlagHasWipe
<1> QED BY <1>1, NextHeld, FlightAlways, PTL DEF Spec

=============================================================================
