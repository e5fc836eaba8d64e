---------------------------- MODULE AudioCapture ----------------------------
(***************************************************************************)
(* Recording and what it holds while it lasts: the hotkey manager's flag,   *)
(* the recorder, the shared microphone stream and its subscribers, the wake *)
(* listener, the output ducker, and the voice-privacy lease that mutes the  *)
(* capture streams of other applications and journals what it mutes         *)
(* (backend/input/hotkey_manager.py, backend/audio, backend/wake,           *)
(* backend/platform/audio_privacy, and the emergency stop, the privacy wipe *)
(* and the startup recovery of server.py).                                  *)
(*                                                                          *)
(* An actor runs a sequence of calls, one at a time; each call is the steps *)
(* between which another thread, another application, a crash or the audio  *)
(* callback can come.                                                       *)
(***************************************************************************)
EXTENDS FiniteSets, Naturals, Sequences

CONSTANTS
    Users,       \* threads of hotkeys, timers, routes and the thread pool
    Callback,    \* the audio callback's thread, where a wake phrase is heard
    Watcher,     \* the thread that follows `pactl subscribe'
    Startup,     \* the thread that starts the sidecar
    None,
    Streams,     \* capture streams of other applications
    Plans        \* bound: what may happen in a behaviour, and how often

Actors == Users \union {Callback, Watcher, Startup}

\* The calls, and the sequences of them that the code makes.
Start == <<"start">>
Stop == <<"stop">>
WakeOn == <<"wakeon">>
WakeOff == <<"wakeoff">>
EmergencyKeepingLease == <<"stop", "unduck", "stopall">>
Emergency == <<"stop", "unduck", "stopall", "release">>
Wipe == <<"wipe", "wakeoff", "stopall", "release", "stop", "wiped">>
Shutdown == <<"wakeoff", "release">>
Scripts == {Start, Stop, WakeOn, WakeOff, Emergency, Wipe, Shutdown}

\* A behaviour keeps to one plan: the scripts of each user thread, the privacy
\* modes of the profile, the faults of the environment (MaxFaults of them), and
\* how many other capture streams, starts of a recording or of the wake listener,
\* and crashes there are.
Plan == [does : [Users -> SUBSET Scripts],
         modes : SUBSET {"off", "isolate", "key"},
         faults : SUBSET {"list", "refuse", "timeout", "journal", "open"},
         others : Nat, starts : Nat, wakes : 0 .. 1, crashes : Nat]
MaxFaults == 1

\* The routes of the wake listener run on the event loop: one thread has them.
ASSUME CaptureAssumption ==
    /\ \A p \in Plans :
         /\ p \in Plan
         /\ \A t, u \in Users : WakeOn \in p.does[t] /\ WakeOff \in p.does[u] => t = u
    /\ Callback \notin {Watcher, Startup, None} /\ Watcher \notin {Startup, None}
    /\ Startup # None
    /\ {Callback, Watcher, Startup, None} \intersect Users = {}

VARIABLES
    is_recording, \* HotkeyManager.is_recording
    wiping,       \* privacy_wipe_in_progress
    recording,    \* AudioRecorder.recording
    rlock,        \* AudioRecorder.lock: its holder, or None
    open,         \* the shared input stream runs
    subs,         \* its subscribers, out of "recorder" and "wake"
    block,        \* AudioInputBroker._lock: its holder, or None
    listener,     \* routes/wake.py names a listener
    ducked,       \* the output volume is lowered
    ducks,        \* duck threads under way: of this generation, or stale
    held,         \* AudioPrivacyLease._held
    mode,         \* what the lease engaged
    down,         \* the push-to-mute key is held down
    mine,         \* the streams the lease muted
    journal,      \* the streams of the journal file; none without a file
    watching,     \* the watcher follows the audio server
    llock,        \* AudioPrivacyLease._lock: its holder, or None
    todo,         \* under it: the streams still to mute or unmute
    did,          \* under it: the streams muted, or those left muted
    apps,         \* per stream: absent, on, muted by "ours" or "users", gone; "lost"
                  \* is muted by this program where it keeps no account of it
    thr,          \* per actor: where it is, and the calls it has left
    plan,         \* bound: the plan of this behaviour
    bounds,       \* bound: what is left of it
    crossed,      \* history: a stop has overtaken its start
    calm          \* history: the actor whose emergency stop or wipe met no start

hotkeys == <<is_recording, wiping, crossed>>
recorder == <<recording, rlock>>
mic == <<open, subs, block, listener>>
volume == <<ducked, ducks>>
engaged == <<todo, did, llock, apps>>
history == <<calm, plan>>
lease == <<held, mode, down, mine, journal, watching>>
vars == <<hotkeys, recorder, mic, volume, engaged, lease, history, thr, bounds>>

Idle == [pc |-> "next", calls |-> <<>>, ret |-> "next"]
At(t, pc) == thr[t].pc = pc
Calls(t, op) == At(t, "next") /\ thr[t].calls # <<>> /\ Head(thr[t].calls) = op
Busy(t) == thr[t] # Idle
Go(t, pc) == thr' = [thr EXCEPT ![t].pc = pc]
GoFor(t, pc, ret) == thr' = [thr EXCEPT ![t].pc = pc, ![t].ret = ret]
Enter(t, pc, ret) ==
    thr' = [thr EXCEPT ![t] = [pc |-> pc, calls |-> Tail(@.calls), ret |-> ret]]

Fault(kind) ==
    /\ kind \in plan.faults /\ bounds.faults > 0
    /\ bounds' = [bounds EXCEPT !.faults = @ - 1]

\* What the step an actor is at waits for: of the recorder its lock; of the
\* shared stream its lock or, closing it, the end of its callback.
CallbackOver == ~ Busy(Callback)
RecorderFree(t) == thr[t].pc \in {"record", "halt"} => rlock = None
MicFree(t) ==
    /\ At(t, "subscribe") \/ Calls(t, "stopall") \/ (At(t, "close") /\ thr[t].ret \in subs)
         => block = None
    /\ thr[t].pc \in {"switch", "closing"} => CallbackOver

LeaseFreeJoining(t) ==
    /\ thr[t].pc \in {"acquire", "release", "event"} => llock = None
    /\ At(t, "unwatch") => ~ Busy(Watcher)

\* Of the lease its lock. The watcher may wait for that lock, so a release
\* waits for the watcher with a timeout only, which is not to wait for it.
LeaseFree(t) == thr[t].pc \in {"acquire", "release", "event"} => llock = None

\* A stream that some call left or leaves muted.
Muted(s) == apps[s] \in {"ours", "lost", "users"}

\* The code forgets what it muted of S.
Lose(S) == [s \in Streams |-> IF s \in S /\ apps[s] = "ours" THEN "lost" ELSE apps[s]]

Init ==
    /\ is_recording = FALSE /\ wiping = FALSE
    /\ recording = FALSE /\ rlock = None
    /\ open = FALSE /\ subs = {} /\ block = None /\ listener = FALSE
    /\ ducked = FALSE /\ ducks = {}
    /\ held = FALSE /\ mode = "off" /\ down = FALSE /\ mine = {} /\ journal = {}
    /\ watching = FALSE /\ llock = None /\ todo = {} /\ did = {}
    /\ plan \in Plans
    /\ \E S \in SUBSET Streams :
         /\ Cardinality(S) = plan.others
         /\ apps = [s \in Streams |-> IF s \in S THEN "absent" ELSE "gone"]
    /\ thr = [t \in Actors |-> Idle]
    /\ bounds = [starts |-> plan.starts, wakes |-> plan.wakes,
                 faults |-> MaxFaults, crashes |-> plan.crashes]
    /\ crossed = FALSE /\ calm = None

-----------------------------------------------------------------------------
(* The hotkey manager: a call begins; a start, a stop.                      *)

InStart(t) ==
    \/ thr[t].pc \in {"asked", "record", "acquire", "plan", "mute", "watch", "duck",
                      "subscribe", "switch", "reopen", "open", "name", "started"}
    \/ Calls(t, "start") \/ Calls(t, "wakeon")

\* What a user thread, or the callback on hearing the wake phrase, sets out to do.
Begin(t, script) ==
    /\ ~ Busy(t) /\ ~ Busy(Startup)
    /\ \/ t \in Users /\ script \in plan.does[t]
       \/ t = Callback /\ script = Start /\ open /\ "wake" \in subs
    /\ thr' = [thr EXCEPT ![t].calls = script]
    /\ script = Start => bounds.starts > 0
    /\ script = WakeOn => bounds.wakes > 0
    /\ IF script \in {Start, WakeOn}
       THEN /\ bounds' = IF script = Start THEN [bounds EXCEPT !.starts = @ - 1]
                                          ELSE [bounds EXCEPT !.wakes = @ - 1]
            /\ calm' = None
       ELSE /\ UNCHANGED bounds
            /\ calm' = IF script \in {Emergency, Wipe} /\ ~ \E u \in Users \union {Callback} : InStart(u)
                       THEN t ELSE calm
    /\ UNCHANGED <<hotkeys, recorder, mic, volume, engaged, lease, plan>>

\* The busy test of _start_recording, before the lock: a wipe refuses a start.
AskStart(t) ==
    /\ Calls(t, "start")
    /\ IF wiping THEN Enter(t, "next", "next") ELSE Enter(t, "asked", "next")
    /\ UNCHANGED <<hotkeys, recorder, mic, volume, engaged, lease, history, bounds>>

TakeStart(t) ==
    /\ At(t, "asked")
    /\ is_recording' = TRUE
    /\ Go(t, IF is_recording THEN "next" ELSE "record")
    /\ UNCHANGED <<wiping, crossed, recorder, mic, volume, engaged, lease, history, bounds>>

\* After the recorder: a start that opened no microphone is taken back, with
\* an emergency stop.
Started(t) ==
    /\ At(t, "started")
    /\ IF recording
       THEN Go(t, "next") /\ UNCHANGED <<is_recording, crossed>>
       ELSE /\ is_recording' = FALSE
            /\ crossed' = (crossed \/ \E u \in Actors \ {t} : At(u, "record"))
            /\ thr' = [thr EXCEPT ![t].pc = "next", ![t].calls = Emergency \o @]
    /\ UNCHANGED <<wiping, recorder, mic, volume, engaged, lease, history, bounds>>

TakeStop(t) ==
    /\ Calls(t, "stop")
    /\ is_recording' = FALSE
    /\ crossed' = (crossed \/ \E u \in Actors : At(u, "record"))
    /\ IF is_recording THEN Enter(t, "halt", "next") ELSE Enter(t, "next", "next")
    /\ UNCHANGED <<wiping, recorder, mic, volume, engaged, lease, history, bounds>>

-----------------------------------------------------------------------------
(* The recorder, under its lock from the first of these steps to the last.  *)

RecorderStart(t) ==
    /\ At(t, "record") /\ RecorderFree(t)
    /\ recording' = TRUE
    /\ IF recording THEN Go(t, "started") /\ UNCHANGED rlock
                    ELSE GoFor(t, "acquire", "recorder") /\ rlock' = t
    /\ UNCHANGED <<hotkeys, mic, volume, engaged, lease, history, bounds>>

\* The generation is read here, before the duck has its thread.
SpawnDuck(t) ==
    /\ At(t, "duck")
    /\ ducks' = ducks \/ ducks' = ducks \union {"fresh"}
    /\ Go(t, "subscribe")
    /\ UNCHANGED <<hotkeys, recorder, mic, ducked, engaged, lease, history, bounds>>

RecorderStopUnheard(t) ==
    /\ At(t, "halt") /\ RecorderFree(t)
    /\ rlock' = t /\ recording' = (recording /\ "recorder" \notin subs)
    /\ IF recording /\ "recorder" \in subs THEN GoFor(t, "close", "recorder") ELSE GoFor(t, "release", "stopped")
    /\ UNCHANGED <<hotkeys, mic, volume, engaged, lease, history, bounds>>

RecorderStop(t) ==
    /\ At(t, "halt") /\ RecorderFree(t)
    /\ rlock' = t /\ recording' = FALSE
    /\ IF recording THEN GoFor(t, "close", "recorder") ELSE GoFor(t, "release", "stopped")
    /\ UNCHANGED <<hotkeys, mic, volume, engaged, lease, history, bounds>>

\* Where a finished call of the lease returns to.
Return(t) ==
    CASE thr[t].ret = "stopped" -> GoFor(t, "next", "next") /\ rlock' = None
      [] thr[t].ret = "failed" -> GoFor(t, "started", "next") /\ rlock' = None
      [] OTHER -> GoFor(t, "next", "next") /\ UNCHANGED rlock

-----------------------------------------------------------------------------
(* The ducker.                                                              *)

StaleDucks == IF ducks = {} THEN {} ELSE {"stale"}

DuckCommitLate(g) ==
    /\ g \in ducks /\ ducks' = ducks \ {g}
    /\ ducked' = TRUE
    /\ UNCHANGED <<hotkeys, recorder, mic, engaged, lease, history, thr, bounds>>

DuckCommit(g) ==
    /\ g \in ducks /\ ducks' = ducks \ {g}
    /\ ducked' = (ducked \/ g = "fresh")
    /\ UNCHANGED <<hotkeys, recorder, mic, engaged, lease, history, thr, bounds>>

Unduck(t) ==
    /\ At(t, "unduck")
    /\ ducked' = FALSE /\ ducks' = StaleDucks
    /\ Go(t, "release")
    /\ UNCHANGED <<hotkeys, recorder, mic, engaged, lease, history, bounds>>

\* The emergency stop lets the key go itself, besides the lease.
UnduckNow(t) ==
    /\ Calls(t, "unduck")
    /\ ducked' = FALSE /\ ducks' = StaleDucks /\ down' = FALSE
    /\ Enter(t, "next", "next")
    /\ UNCHANGED <<hotkeys, recorder, mic, engaged, held, mode, mine, journal,
                   watching, history, bounds>>

-----------------------------------------------------------------------------
(* The shared stream. Stopping one waits until its callback has returned.   *)

AskWakeOn(t) ==
    /\ Calls(t, "wakeon")
    /\ IF listener /\ "wake" \in subs THEN Enter(t, "next", "next")
                                      ELSE Enter(t, "subscribe", "wake")
    /\ UNCHANGED <<hotkeys, recorder, mic, volume, engaged, lease, history, bounds>>

\* subscribe returns its handle: the recorder's lock is given back.
Subscribed(t) ==
    IF thr[t].ret = "recorder" THEN GoFor(t, "started", "next") /\ rlock' = None
                               ELSE GoFor(t, "name", "next") /\ UNCHANGED rlock

\* A subscriber registers; the stream is (re)opened when there is none or
\* another device is wanted.
Subscribe(t) ==
    /\ At(t, "subscribe") /\ MicFree(t)
    /\ subs' = subs \union {thr[t].ret}
    /\ \/ open /\ Subscribed(t) /\ UNCHANGED block
       \/ block' = t /\ Go(t, IF open THEN "switch" ELSE "open") /\ UNCHANGED rlock
    /\ UNCHANGED <<hotkeys, recording, open, listener, volume, engaged, lease, history,
                   bounds>>

SwitchClose(t) ==
    /\ At(t, "switch") /\ MicFree(t)
    /\ open' = FALSE /\ Go(t, "reopen")
    /\ UNCHANGED <<hotkeys, recorder, subs, block, listener, volume, engaged, lease,
                   history, bounds>>

Opened(t) ==
    /\ thr[t].pc \in {"open", "reopen"}
    /\ open' = TRUE /\ block' = None /\ Subscribed(t)
    /\ UNCHANGED <<hotkeys, recording, subs, listener, volume, engaged, lease, history,
                   bounds>>

\* The subscriber is rolled back; the stream there was is opened again if it
\* can be, and its other subscribers stay.
OpenFails(t) ==
    /\ thr[t].pc \in {"open", "reopen"} /\ Fault("open")
    /\ subs' = subs \ {thr[t].ret} /\ block' = None
    /\ open' = FALSE \/ open' = At(t, "reopen")
    /\ IF thr[t].ret = "recorder"
       THEN recording' = FALSE /\ GoFor(t, "unduck", "failed")
       ELSE GoFor(t, "next", "next") /\ UNCHANGED recording
    /\ UNCHANGED <<hotkeys, rlock, listener, volume, engaged, lease, history>>

NameListener(t) ==
    /\ At(t, "name") /\ listener' = TRUE /\ Go(t, "next")
    /\ UNCHANGED <<hotkeys, recorder, open, subs, block, volume, engaged, lease, history,
                   bounds>>

\* A subscription that stop_all has closed is closed already.
TakeWakeOff(t) ==
    /\ Calls(t, "wakeoff")
    /\ listener' = FALSE
    /\ IF listener THEN Enter(t, "close", "wake") ELSE Enter(t, "next", "next")
    /\ UNCHANGED <<hotkeys, recorder, open, subs, block, volume, engaged, lease, history,
                   bounds>>

Closed(t) ==
    IF thr[t].ret = "recorder" THEN GoFor(t, "unduck", "stopped")
                               ELSE GoFor(t, "next", "next")

\* The last subscriber that leaves closes the stream.
CloseSub(t) ==
    /\ At(t, "close")
    /\ \/ thr[t].ret \notin subs /\ Closed(t) /\ UNCHANGED <<subs, block>>
       \/ /\ thr[t].ret \in subs /\ MicFree(t)
          /\ subs' = subs \ {thr[t].ret}
          /\ IF subs' = {} /\ open THEN Go(t, "closing") /\ block' = t
                                   ELSE Closed(t) /\ UNCHANGED block
    /\ UNCHANGED <<hotkeys, recorder, open, listener, volume, engaged, lease, history,
                   bounds>>

StopAll(t) ==
    /\ Calls(t, "stopall") /\ MicFree(t)
    /\ subs' = {}
    /\ IF open THEN Enter(t, "closing", "all") /\ block' = t
               ELSE Enter(t, "next", "next") /\ UNCHANGED block
    /\ UNCHANGED <<hotkeys, recorder, open, listener, volume, engaged, lease, history,
                   bounds>>

CloseStream(t) ==
    /\ At(t, "closing") /\ MicFree(t)
    /\ open' = FALSE /\ block' = None /\ Closed(t)
    /\ UNCHANGED <<hotkeys, recorder, subs, listener, volume, engaged, lease, history,
                   bounds>>

-----------------------------------------------------------------------------
(* The privacy lease. Everything from Acquire to Watch, and from Release to *)
(* Unwatch, is under its lock.                                              *)

\* list_streams: a listing that fails lists nothing.
List(wanted) ==
    \/ todo' = wanted /\ UNCHANGED bounds
    \/ Fault("list") /\ todo' = {}

Engage(t) ==
    /\ List({s \in Streams : apps[s] = "on"})
    /\ llock' = t /\ did' = {}
    /\ Go(t, IF todo' = {} THEN "watch" ELSE "plan")

\* What the journal still has of an earlier lease is overwritten or cleared
\* by this one.
Acquire(t) ==
    /\ At(t, "acquire") /\ LeaseFree(t)
    /\ \/ /\ held \/ "off" \in plan.modes
          /\ mode' = IF held THEN mode ELSE "off"
          /\ Go(t, "duck") /\ UNCHANGED <<held, down, engaged, bounds>>
       \/ /\ ~ held /\ "key" \in plan.modes
          /\ held' = TRUE /\ mode' = "key" /\ down' = TRUE /\ apps' = Lose(journal)
          /\ Go(t, "duck") /\ UNCHANGED <<todo, did, llock, bounds>>
       \/ /\ ~ held /\ "isolate" \in plan.modes
          /\ held' = TRUE /\ mode' = "isolate" /\ apps' = Lose(journal)
          /\ Engage(t) /\ UNCHANGED down
    /\ UNCHANGED <<hotkeys, recorder, mic, volume, mine, journal, watching, history>>

WriteJournalAnew(t) ==
    /\ At(t, "plan")
    /\ \/ journal' = todo /\ Go(t, "mute") /\ UNCHANGED <<todo, bounds>>
       \/ Fault("journal") /\ todo' = {} /\ Go(t, "watch") /\ UNCHANGED journal
    /\ UNCHANGED <<hotkeys, recorder, mic, volume, did, llock, apps, held, mode, down,
                   mine, watching, history>>

\* Nothing is muted before the journal has it.
WriteJournal(t) ==
    /\ At(t, "plan")
    /\ \/ journal' = mine \union todo /\ Go(t, "mute") /\ UNCHANGED <<todo, bounds>>
       \/ Fault("journal") /\ todo' = {} /\ Go(t, "watch") /\ UNCHANGED journal
    /\ UNCHANGED <<hotkeys, recorder, mic, volume, did, llock, apps, held, mode, down,
                   mine, watching, history>>

MuteFailed(s) ==
    \/ apps[s] = "gone" /\ UNCHANGED <<apps, bounds>>
    \/ Fault("refuse") /\ UNCHANGED apps
    \/ Fault("timeout") /\ apps[s] = "on" /\ apps' = [apps EXCEPT ![s] = "lost"]

Mute(t, s) ==
    /\ At(t, "mute") /\ s \in todo
    /\ todo' = todo \ {s}
    /\ \/ /\ apps[s] # "gone" /\ did' = did \union {s}
          /\ apps' = [apps EXCEPT ![s] = IF @ = "on" THEN "ours" ELSE @]
          /\ UNCHANGED bounds
       \/ MuteFailed(s) /\ UNCHANGED did
    /\ Go(t, IF todo' = {} THEN "watch" ELSE "mute")
    /\ UNCHANGED <<hotkeys, recorder, mic, volume, lease, llock, history>>

Watch(t) ==
    /\ At(t, "watch")
    /\ mine' = mine \union did /\ did' = {} /\ llock' = None
    /\ IF t = Watcher THEN Go(t, "next") /\ UNCHANGED watching
                      ELSE Go(t, "duck") /\ watching' \in BOOLEAN
    /\ UNCHANGED <<hotkeys, recorder, mic, volume, todo, apps, held, mode, down,
                   journal, history, bounds>>

\* A new or changed stream, of the watched server or of one watched before.
StreamEvent ==
    /\ watching /\ ~ Busy(Watcher) /\ Go(Watcher, "event")
    /\ UNCHANGED <<hotkeys, recorder, mic, volume, engaged, lease, history, bounds>>

OnNewStreamUnlocked(t) ==
    /\ At(t, "event")
    /\ IF held /\ mode = "isolate"
       THEN Engage(t) /\ UNCHANGED apps
       ELSE Go(t, "next") /\ UNCHANGED <<engaged, bounds>>
    /\ UNCHANGED <<hotkeys, recorder, mic, volume, lease, history>>

OnNewStream(t) ==
    /\ At(t, "event") /\ LeaseFree(t)
    /\ IF held /\ mode = "isolate"
       THEN Engage(t) /\ UNCHANGED apps
       ELSE Go(t, "next") /\ UNCHANGED <<engaged, bounds>>
    /\ UNCHANGED <<hotkeys, recorder, mic, volume, lease, history>>

CallRelease(t) ==
    /\ Calls(t, "release")
    /\ Enter(t, "release", "next")
    /\ UNCHANGED <<hotkeys, recorder, mic, volume, engaged, lease, history, bounds>>

\* release: restore() lists the streams again and leaves alone what is gone
\* or not muted any more.
Release(t) ==
    /\ At(t, "release") /\ LeaseFree(t)
    /\ held' = FALSE
    /\ \/ ~ held /\ Return(t) /\ UNCHANGED <<down, engaged, bounds>>
       \/ /\ held /\ down' = FALSE /\ llock' = t /\ did' = {}
          /\ IF mine = {}
             THEN Go(t, "unwatch") /\ UNCHANGED <<todo, apps, bounds>>
             ELSE /\ List({s \in mine : Muted(s)})
                  /\ apps' = IF bounds' = bounds THEN apps ELSE Lose(mine)
                  /\ Go(t, "restore")
          /\ UNCHANGED rlock
    /\ UNCHANGED <<hotkeys, recording, mic, volume, mode, mine, journal, watching, history>>

Unmute(t, s) ==
    /\ At(t, "restore") /\ s \in todo
    /\ todo' = todo \ {s}
    /\ \/ /\ apps[s] # "gone" /\ apps' = [apps EXCEPT ![s] = "on"]
          /\ UNCHANGED <<did, bounds>>
       \/ /\ apps[s] = "gone" /\ did' = did \union {s} /\ UNCHANGED <<apps, bounds>>
       \/ /\ Fault("refuse") /\ did' = did \union {s} /\ UNCHANGED apps
    /\ UNCHANGED <<hotkeys, recorder, mic, volume, lease, llock, history, thr>>

\* The journal keeps what could not be restored, if it can be written.
Restored(t) ==
    /\ At(t, "restore") /\ todo = {} /\ t # Startup
    /\ \/ journal' = did /\ UNCHANGED bounds
       \/ Fault("journal") /\ UNCHANGED journal
    /\ mine' = {} /\ Go(t, "unwatch")
    /\ UNCHANGED <<hotkeys, recorder, mic, volume, engaged, held, mode, down, watching,
                   history>>

\* A complete restore clears the journal.
Unwatch(t) ==
    /\ At(t, "unwatch") /\ LeaseFree(t)
    /\ watching' = FALSE /\ mode' = "off" /\ did' = {} /\ llock' = None
    /\ journal' = IF did = {} THEN {} ELSE journal
    /\ Return(t)
    /\ UNCHANGED <<hotkeys, recording, mic, volume, todo, apps, held, down, mine,
                   history, bounds>>

-----------------------------------------------------------------------------
(* The emergency stop and the wipe; a crash and the recovery; the others.   *)

WipeFlag(t, op) ==
    /\ Calls(t, op)
    /\ wiping' = (op = "wipe")
    /\ Enter(t, "next", "next")
    /\ UNCHANGED <<is_recording, crossed, recorder, mic, volume, engaged, lease, history,
                   bounds>>

Crash ==
    /\ bounds.crashes > 0
    /\ bounds' = [bounds EXCEPT !.crashes = @ - 1]
    /\ is_recording' = FALSE /\ wiping' = FALSE /\ recording' = FALSE /\ rlock' = None
    /\ open' = FALSE /\ subs' = {} /\ block' = None /\ listener' = FALSE
    /\ ducks' = {} /\ ducked' = FALSE
    /\ held' = FALSE /\ mode' = "off" /\ down' = FALSE /\ mine' = {} /\ watching' = FALSE
    /\ llock' = None /\ todo' = {} /\ did' = {}
    /\ thr' = [t \in Actors |-> IF t = Startup THEN [Idle EXCEPT !.pc = "recover"] ELSE Idle]
    /\ crossed' = FALSE /\ calm' = None
    /\ UNCHANGED <<journal, apps, plan>>

\* recover_pending: one attempt, and the journal is cleared however it went.
Recover ==
    /\ At(Startup, "recover")
    /\ List({s \in journal : Muted(s)})
    /\ apps' = IF bounds' = bounds THEN apps ELSE Lose(journal)
    /\ Go(Startup, "restore")
    /\ UNCHANGED <<hotkeys, recorder, mic, volume, did, llock, lease, history>>

Recovered ==
    /\ At(Startup, "restore") /\ todo = {}
    /\ journal' = {} /\ did' = {} /\ apps' = Lose(did)
    /\ Go(Startup, "next")
    /\ UNCHANGED <<hotkeys, recorder, mic, volume, todo, llock, held, mode, down,
                   mine, watching, history, bounds>>

\* What the other applications and their users do to their capture streams.
AppStep(s) ==
    /\ \/ apps[s] = "absent" /\ apps' \in {[apps EXCEPT ![s] = m] : m \in {"on", "users"}}
       \/ apps[s] \notin {"absent", "gone"} /\ apps' = [apps EXCEPT ![s] = "gone"]
       \/ apps[s] = "on" /\ apps' = [apps EXCEPT ![s] = "users"]
       \/ Muted(s) /\ apps' = [apps EXCEPT ![s] = "on"]
    /\ UNCHANGED <<hotkeys, recorder, mic, volume, todo, did, llock, lease, history, thr,
                   bounds>>

Step(t) ==
    \/ AskStart(t) \/ TakeStart(t) \/ Started(t) \/ TakeStop(t)
    \/ RecorderStart(t) \/ SpawnDuck(t) \/ RecorderStop(t) \/ Unduck(t) \/ UnduckNow(t)
    \/ AskWakeOn(t) \/ Subscribe(t) \/ SwitchClose(t) \/ Opened(t) \/ OpenFails(t)
    \/ NameListener(t) \/ TakeWakeOff(t) \/ CloseSub(t) \/ StopAll(t) \/ CloseStream(t)
    \/ Acquire(t) \/ WriteJournal(t) \/ (\E s \in Streams : Mute(t, s)) \/ Watch(t) \/ OnNewStream(t)
    \/ CallRelease(t) \/ Release(t) \/ (\E s \in Streams : Unmute(t, s))
    \/ Restored(t) \/ Unwatch(t) \/ WipeFlag(t, "wipe") \/ WipeFlag(t, "wiped")

Next ==
    \/ \E t \in Users \union {Callback}, script \in Scripts : Begin(t, script)
    \/ \E t \in Actors : Step(t)
    \/ StreamEvent \/ Recover \/ Recovered \/ Crash
    \/ \E g \in {"fresh", "stale"} : DuckCommit(g)
    \/ \E s \in Streams : AppStep(s)

Spec == Init /\ [][Next]_vars

-----------------------------------------------------------------------------

Pcs == {"next", "asked", "record", "acquire", "plan", "mute", "watch", "duck",
        "subscribe", "switch", "reopen", "open", "name", "started", "halt", "close",
        "closing", "unduck", "release", "restore", "unwatch", "event", "recover"}
Ops == {"start", "stop", "wakeon", "wakeoff", "unduck", "stopall", "release", "wipe",
        "wiped"}
ActorState == [pc : Pcs, calls : Seq(Ops),
               ret : {"next", "recorder", "wake", "all", "stopped", "failed"}]

\* Every variable has its type, and each lock has the holder its steps need.
TypeOK ==
    /\ {is_recording, wiping, recording, open, listener, ducked, held, down,
        watching, crossed} \subseteq BOOLEAN
    /\ plan \in Plans
    /\ {rlock, llock, block, calm} \subseteq Actors \union {None}
    /\ subs \subseteq {"recorder", "wake"} /\ ducks \subseteq {"fresh", "stale"}
    /\ mode \in {"off", "isolate", "key"}
    /\ mine \subseteq Streams /\ journal \subseteq Streams
    /\ todo \subseteq Streams /\ did \subseteq Streams
    /\ apps \in [Streams -> {"absent", "on", "ours", "lost", "users", "gone"}]
    /\ thr \in [Actors -> ActorState]
    /\ bounds \in [starts : Nat, wakes : Nat, faults : Nat, crashes : Nat]
    /\ \A t \in Actors :
         /\ llock = t <=> \/ thr[t].pc \in {"plan", "mute", "watch", "unwatch"}
                          \/ (At(t, "restore") /\ t # Startup)
         /\ block = t <=> thr[t].pc \in {"switch", "reopen", "open", "closing"}

\* Whatever step a crash, a failure or another application comes at, a stream
\* that this program muted is in the journal that undoes it. What the code
\* gives up beyond that is "lost": a mute that worked and was reported as
\* failed, streams a failed listing took for gone, the rest of an incomplete
\* restore at the next recording, and what a recovery fails to restore.
MutesAccounted == \A s \in Streams : apps[s] = "ours" => s \in journal

\* What a recording takes, it holds no longer than it lasts: when the recorder
\* does not record and nobody is in its start or stop, no voice-privacy lease
\* is held, no key is down, the output is not ducked, the recorder does not
\* listen. Duck threads, the watcher and the stops of others come late.
NothingLeftBehind ==
    held \/ down \/ ducked \/ "recorder" \in subs => recording \/ rlock # None

\* A recorder that records can be stopped: every stop looks at is_recording
\* first. It is otherwise only while its stop is on the way, or if a stop came
\* between the flag and the recorder's start (hotkey_manager.py, lines 180-191).
RecordingStoppable ==
    recording /\ ~ is_recording => crossed \/ \E t \in Actors : At(t, "halt")

\* An emergency stop or a wipe that met no start leaves no live capture, no
\* lease held and no key down, whatever stop or failure runs beside it.
PanicQuiets ==
    calm # None /\ ~ Busy(calm) => ~ open /\ ~ held /\ ~ down

\* An actor that can go on: it has work to do, and nothing to wait for.
CanStep(t) ==
    /\ Busy(t) /\ RecorderFree(t) /\ MicFree(t) /\ LeaseFree(t)
    /\ At(t, "next") => thr[t].calls # <<>>
    /\ At(t, "mute") => todo # {}

\* No threads wait for one another's locks, the watcher's wait for the lease
\* included: while some are under way, one can go on. Only a start in the
\* audio callback can hang them: it takes locks whose holder waits for the
\* callback to return.
NothingHangs ==
    (\E t \in Users \union {Watcher} : Busy(t))
      => Busy(Callback) \/ \E t \in Actors : CanStep(t)

=============================================================================
