# A TLA+ development of BetterFingers

BetterFingers is a local dictation program: a microphone recording becomes a
draft, the user reviews the draft, and its text is placed into another
application. A Python sidecar (`src/server.py` and `src/backend/`) holds all the
state; an Electron shell (`src/app/`) starts it, watches it and talks to it over
local HTTP. The modules here model the program's own concurrency: the paths of a
recording and of a draft, the store that makes drafts durable, the privacy wipe
that runs against all three, the models in memory and who may free them, what a
recording takes of the machine (microphone, volume, other applications' capture
streams) and gives back, game controllers and Stream Deck keys, the approval of
the workflows that are to start other applications, and the shell's supervision
of the sidecar.

Contents: [the system](#the-system), [the modules](#the-modules),
[the runs](#the-runs), [fairness](#fairness), [the proofs](#the-proofs),
[disagreements](#where-code-and-documents-disagree),
[what is not modelled](#what-is-not-modelled), [the plan](#the-plan).

## The system

### Who runs

| actor | code | in the modules |
|---|---|---|
| the event loop | FastAPI's `async def` routes; a route runs to its next await without another route in between | `Loop` (DraftSend), `Tasks` and `loop` (ModelRuntime) |
| thread-pool threads | `def` routes (the Library), the primary action, retries, selection rewrites, jobs that use a model | `Workers`, `Pool`, `Callers`, `Threads`, `Users` |
| hotkey and watchdog threads | `hotkey_manager.py` | `Producers` (Dictation), `Users` (AudioCapture) |
| the recording dispatcher | `_recording_dispatcher_loop`, one thread | `Dispatcher` |
| the idle sweep | `model_runtime_coordinator.py`, one thread | `Sweeper` |
| the audio callback | PortAudio's thread, where a wake phrase is heard | `Callback` |
| the stream watcher | a thread that follows `pactl subscribe` | `Watcher` |
| the controller poll thread | `_controller_poll_loop` in `server.py` | what empties `out` and sets `swallow` (ControllerInput) |
| the Stream Deck plugin | one HTTP post per key event, not awaited in turn | `DeckKey`, `Arrive` |
| a privacy wipe | `_perform_privacy_wipe`, from a route | `Wipers`, the script `Wipe` |
| an emergency stop | `emergency_stop_runtime` | `Stoppers`, the route `"stop"`, the script `Emergency`, the action `"stop"` |
| Electron's main process | one JavaScript thread of coroutines; what a settled promise wakes runs before the next event | `Starts`, `Callers`, `Tick` (Sidecar); `Calls` (Workflows) |
| backend processes | the sidecar, as the shell sees it | `proc` (Sidecar) |
| the operating system | a process may die at any step; the shell starts it again | `CrashAndRestart`, `Crash`, `Exits` |

### The parts, their state and what makes them hard

| part | state | operations | interacts with | hard because | correct when |
|---|---|---|---|---|---|
| Draft send (`server.py` 1332-1696, 2058-2135, `api/routes/drafts.py`) | `draft_queue`, a draft's status and `send_operation_id`, `pending_manual_send_ids` | send, primary action, accept, decline, edit, rewrite, delete, recovery | output coordinator (calls), draft store (save), Electron (approval tickets) | an injection cannot be undone or repeated; three kinds of thread touch a draft whose lock is released before the injection | what is placed was approved; no draft is placed twice unknowingly; no draft is stuck in "sending" |
| Output coordinator (`runtime/output_coordinator.py`) | `_active`, `_cancel`, `_lease_held` | begin_send, end_send, drain, release | send path, wipe | cancellation is raised outside the lock, the drain may time out | nothing is injected or persisted while a wipe deletes |
| Draft store (`stores/drafts.py`, `stores/history_store.py`) | the queue, two revision counters, the debt to the archive, a JSON snapshot, an SQLite table, an id counter with a second copy in `server.py` | create, update, delete, save, clear, load | every route, Library, wipe | writers coalesce; two files are updated one after the other; either write may fail; a crash may fall between them | an acknowledged change survives; what was deleted stays deleted; ids are unique; files do not go back |
| Library (`services/library.py`) | none of its own | delete, clear, duplicate, restore, reopen, pin | draft store and archive, in turn | one user action is two writes | as the draft store |
| Dictation (`input/hotkey_manager.py`, `server.py` 1821-2047, 2413-3128, `runtime/dictation_coordinator.py`, `services/dictation_pipeline.py`) | `is_recording`, the queue of held recordings and its generation, the gate, the cancellation event, the active job, the recovery bin | start, stop, enqueue, dispatch, run the stages, retry, rewrite, cancel | transcriber and model (external), draft store, wipe | the gate is released by whoever calls finish; a wait of ten minutes separates a check from its use; saves fail without a word | one pipeline at a time; no recording missing but by a failure of its own; a stop is honoured |
| Privacy wipe (`server.py` 3856-4223, `privacy/`) | `privacy_wipe_in_progress` | stop recorder, drop queue, cancel, take gate, drain sends, quiesce speech, clear, delete, verify, release | all of the above | nine steps, four of which may fail | nothing regrows behind it; an abort leaves the system usable |
| Model runtime (`runtime/model_runtime_coordinator.py`, the engines in `stt/`, `llm/`, `tts/`, `api/routes/models.py`) | reader counts, a writer, a bail-out request, a ledger of what is resident, pins; per runtime a global that names the engine, the engine's lock | read and write lease, admission with eviction, sweep, unload, select, delete, warm up | pipeline, speech, routes, profile | a lease is waited for on the event loop; half of the users take no lease; the ledger is written after the lease is given back | no lease path frees a model in use; every lease is returned |
| Recorder, broker, ducker, audio privacy (`audio/`, `platform/audio_privacy/`, `wake/`) | two recording flags, one microphone stream with its subscribers, a lowered volume, the lease with its journal, other applications' streams | start, stop, wake listener on and off, emergency stop, wipe, shutdown, stream events, recovery | hotkeys, PulseAudio and PortAudio (external), each other's locks | the effects outlive the process; the tools fail or time out; four locks and two callbacks | what was muted is unmuted; an ended recording holds nothing; a panic leaves no live microphone; nobody waits for ever |
| Input dispatch and controllers (`services/controller_engine.py`, `services/input_dispatch.py`, `integrations/streamdeck/`) | per device name what is pressed, latched, held and deferred; a capture; a register of holds | button down and up, tick, plug in and out, profile switch, capture, key posts, shutdown | recorder (begin, end), emergency stop, setup wizard | a release has to match a press under bindings that changed, in an engine and a register that are two, on a device that may go | a recording that a hold began ends with the hold or its device |
| Electron supervision (`app/src/main/sidecar.js`, `main.js`, `updateController.js`) | `childProcess`, `startPromise`, `lifecycleGeneration`, health monitor, restart count, boot outcome, shutdown mode | start, stop, health tick, automatic restart, retry, quit, install an update and recover from one that failed | the backend process, the port | a stop takes seconds in which anything may start again | no process is lost sight of; none outlives the app; nothing stays "starting" for ever |
| Job manager (`runtime/job_manager.py`) | jobs, the active one, a bounded history | create, transition, cancel, prune | pipeline, emergency stop, wake training | cancel races completion | terminal states are final |
| Workflows and approvals (`services/workflow_store.py`, `approvals.py`, `action_validator.py`, `app/src/main/approvalBroker.js`, `applicationRegistry.js`, `ipc.js`) | saved workflows with the lines approved, confirmed applications and their history, the one open dialog | save, approve, switch, delete, ask for a run; add, replace, remove an application; wipe | two processes with a store each, the user in a dialog | what was read may change before the click, and before the ticket arrives | nothing is approved that was not read; an application's id changes only as a dialog showed it |

`PROJECT.json` lists every part, modelled or not, with its reason, and the
hazards of this code at the line where each bites.

## The modules

| module | models | imports |
|---|---|---|
| `Erasure` | what a privacy wipe promises, abstractly | - |
| `DraftSend` | send path, routes, output coordinator, the wipe's side of it, recovery | `Erasure` (INSTANCE) |
| `MCDraftSend` | the symmetry of texts | `DraftSend` |
| `DraftSendProofs` | all six safety properties, the refinement, what a wipe raises | `DraftSend`, `TLAPS` |
| `DraftStore` | queue, coalescing writer, archive, id counters, deletes and clears, load | - |
| `MCDraftStore` | the symmetry of pool threads | `DraftStore` |
| `DraftStoreProofs` | all five safety properties | `DraftStore`, `TLAPS` |
| `Dictation` | recorder, held queue, gate, pipeline, stop, the wipe's side of it | `Erasure` (INSTANCE) |
| `DictationProofs` | all five safety properties, the refinement, what is held | `Dictation`, `TLAPS` |
| `ExclusiveUse` | what the runtime leases promise, abstractly | - |
| `ModelRuntime` | leases, ledger, admission, sweep, engines and their users | `ExclusiveUse` (INSTANCE) |
| `MCModelRuntime` | two plans of use | `ModelRuntime` |
| `ModelRuntimeProofs` | two invariants, an action property, the refinement, what is taken | `ModelRuntime`, `TLAPS` |
| `AudioCapture` | recording, microphone, volume, voice-privacy lease and journal | - |
| `MCAudioCapture` | four plans, the symmetry of streams | `AudioCapture` |
| `AudioCaptureProofs` | its six safety properties | `AudioCapture`, `TLAPS` |
| `ControllerInput` | controller engine, dispatcher's register, capture, Stream Deck key | - |
| `MCControllerInput` | tables of bindings, six plans | `ControllerInput` |
| `ControllerInputProofs` | all four safety properties | `ControllerInput`, `TLAPS` |
| `Workflows` | workflow store, approvals with their dialogs, a run up to its refusal, application registry | - |
| `MCWorkflows` | two plans of steps, two entries, the symmetry of calls | `Workflows` |
| `WorkflowsProofs` | all three safety properties, their inductive invariant | `Workflows`, `TLAPS` |
| `Sidecar` | start, stop, monitor, restarts, boot, retry, quit, update | - |
| `SidecarProofs` | all three safety properties, what is undecided | `Sidecar`, `TLAPS` |

Every thread is a record with a program counter (`pc`) and its locals. A step is
one stretch of code that no other thread can split: what happens under a lock,
or between two reads of a shared flag; in `Sidecar`, between two awaits. Where
the code checks a flag and acts on it later there are two steps. Variables that
start with "history:" in their comment are ghosts: no guard reads them, only
properties do. A *plan* is a variable chosen in `Init` and never changed: it
says which operations a behaviour may use, so that one run holds several
scenarios without paying for their product.

### DraftSend

`mem` is `draft_queue` and `disk` what the next start would load. A send walks
through `register` (the wipe flag has been read), `claim` (registered with the
coordinator), `mark` (status "sending" reserved under `draft_lock`), `place`,
`settle`, `persist`, `end`. `Claim` holds the whole compare-and-set: status, the
ticket (a ticket names the text it was signed for, `seen`), the text the overlay
displayed. `Place` has the three outcomes of `perform_output_action` and, for
the two bad ones, whether the text went out first. The primary action, on a
thread of its own, peeks the pending list and takes the draft off it only once
it was dealt with (`Unlist`).

A route mutates under `draft_lock` and saves after releasing it, so each is two
steps on `Loop`; a rewrite is three, its model call running between the first
two. `reopened` records the drafts a route took out of "sending" while a send
was placing them; the code allows this and the properties about two placements
say so.

`SaveOne` writes the row as memory has it *at the write*. This is what the store
does as long as its writer is serialised: the snapshot is taken under
`_write_lock`, and a wipe's own save in `WipeClear` has to take that lock after
any save still under way. `DraftStore` models the writer itself.

### DraftStore

A draft is its id, the moment of its creation (`at`, which tells two drafts with
one id apart) and a version. `Request` claims a revision and notes what the
mirror owes, `Coalesce` returns when a flush has covered it, `Claim` takes the
writer lock and the debt, `Snapshot`, `Replace`, `Mirror` are the flush, and
`ReplaceFails` re-arms the debt. `CreateBegin` and `CreateSync` are
`server.create_draft`'s copies of the counter to and from the store,
`LibraryRead` and
`LibraryCreate` the path that skips them, a copy of a draft whose content was
read earlier. Deletes, the Library clear and the
wipe are the two halves each of them is in the code.

### Dictation

A recording is its number. `Depth` and `Put` are two steps because the queue's
size is read without a lock. `Take`, `Fresh`, `Enter`, `Admit`, `ClaimGate`,
`Recheck`, `Register`, `Persist` are the dispatcher's way to the first stage;
each of the three readings of the wipe flag is one of them. The stages are
counted, not named: each may be cancelled before it starts, may end the run
with a draft, may fail, or pass on. Cancellation has the two sources the code
has, the event and the job's own flag. `thr[t].target` is the job an emergency
stop read before it cancelled it.

Failures are the code's. A save to the recovery bin may fail, be logged, and let
the thread go on: `Persist` at the head of a run (the run is then "bare"), and
`Rescue` for a full queue or a busy gate. `StopRaises` is a recorder, or its
callback, that raises while `is_recording` is down already; `DrainRaises` a
streaming drain whose exception the dispatcher logs before it takes the next
recording; `RegisterRaises` a job that cannot be created or not enter its first
state; `RunRaises` a change of the job's state or the error draft itself, raising
past the pipeline into the `finally`. A step that lets go of a recording kept
nowhere else puts it into `dropped`: the three that come before any save, a rescue
that fails, and `RunRaises` of a bare run. A retry has its draft and drops
nothing. A crash puts into `lost` what was in memory only (`AtRisk`), bare runs
included. `RecordingsAccounted` excuses these two and nothing else: a run whose
save worked has its recording through every stop, failure and crash.

### Erasure

The wipe's docstring, "Quiesce fully, then delete", as a specification of three
variables: who is at work, who erases, what is kept. Things are added only by
somebody at work, nobody begins work beside an eraser, an eraser begins when
nobody works, and everything goes at once or one thing at a time (the user's own
delete). `DraftSend` and `Dictation` each instantiate it (`WipeErases`) for their
half of the wipe, read off positions and data and not off the gate or the lease:

| `Erasure` | in `DraftSend` | in `Dictation` |
|---|---|---|
| `working` | sends between begin_send and end_send | pipelines from the gate's acquisition to its release |
| `eraser` | the wipe from its drain to its release of the lease | the wipe from its gate to giving it back |
| `kept` | the drafts on disk | the recordings that have a draft |
| `Create` | never: no step of a send makes a row | a last stage, an error report |
| `Remove` | the archive's half of a Library delete | never |
| stutters | all routes, though they save during a deletion | recorder, queue, rescues |

That the routes' saves stutter is the point of the first: they do not register
with the coordinator, so a save may run under the deletion, and what keeps it from
bringing a draft back is that it writes a row only for a draft that memory has and
the disk has already. The recovery bin is not among what `Dictation` keeps: a
rescue decided before the wipe's flag may land in it (see the disagreements).

### ModelRuntime and ExclusiveUse

`readers`, `writer` and `cancel` are the three fields of a `_Runtime`, `ledger`
and `pinned` the coordinator's own. An engine is an object, not a name: `engine`
is the module global that names the current one, and an actor keeps the object
it obtained (`thr[t].eng`), which an unload may have orphaned; `loaded` are the
objects whose model is in memory and `lock` who holds each one's lock.

A use has one of four orders, which are the code's: "use" obtains the engine
and then the lease, "route" the lease and then the engine, "bare" takes no
lease, "warm" only loads. A refused admission, a failed load, an inference that
raises and a bail-out each leave by the path the code has. Coroutines share one
event loop: a coroutine that waits for a lease or a lock keeps the loop
(`Block`), which is the code's `_cond.wait()` in an `async def`; `/models/unload`
yields it while its write lease is held.

`ExclusiveUse` is what the comment at the head of the coordinator promises: a
runtime is used by many or rebuilt by one. `LeaseKept` instantiates it with the
users and owners *read off the positions of the actors* (who is between a read
lease and its return, who between a write lease and its return), not off the
fields `readers` and `writer`, so it fails if the bookkeeping does not do its
work.

### AudioCapture

An actor runs a script: the calls one thread makes in the code's order (an
emergency stop is "stop, unduck, stop all, release"). Each call is the steps
between which something else can come: a start is flag, recorder's lock,
privacy lease (plan, journal, mute by mute, watch), duck, subscribe, recording;
a release is unmute by unmute, the journal, the watcher. `apps` says of each
stream of another application whether it is muted and by whom: "ours" is a mute
the code still accounts for, "lost" one that it has given up. The faults are
those the code handles: a failed listing, a refused mute, a mute that timed out
after it worked, a journal that cannot be written, a microphone that does not
open; and a crash, after which `Recover` replays the journal.

### ControllerInput

`dev` is what `ControllerEngine` keeps per device *name* (controllers of one make
have one), `out` the calls the poll thread has still to make for the event in
hand: a press or a release each goes to the dispatcher in a step of its own, and
other threads come between them. `Perform` is `InputActionDispatcher.dispatch`
with its register of holds; it may find the recorder unwilling. `Completes`,
`CanLand`, `Cancelled` and `Waiting` are the matching of single buttons, chords
and sequences and the deferral of the shorter ones. A recording belongs to the
device whose hold began it, to `Other`, or to `Lost` when the code has
forgotten the hold. `landed`, `loose` and `tokens` are
history: only properties read them. Clocks are not modelled: a debounce window,
a deferral and a sequence's window may end between any two events.

### Sidecar

An invocation of `start()` has a name, and the process it spawns has the same
one. Its coroutine waits at the port check, the probe, the health wait and the
version handshake; a stop's caller waits through SIGTERM ("term", the grace
period), and after SIGKILL ("kill"). A promise that has settled runs its reader
before any event (`Microtask`), so the order of callbacks within one turn of
the loop is the code's. Windows has no grace period and installs updates;
`posix` is chosen in `Init`. The health monitor's counters, thresholds and its
two patience levels (jobs active or not) are the code's with smaller numbers.

### Workflows

A *call* is an invocation of an IPC handler of the main process, with what it
keeps across its waits: the registry it sent to the backend, the lines it showed.
The backend (`Dashboard`, the wipe) may come between any two steps. `Reviewed` is
the answer of `POST /workflows/preview` with the handler's tests of it,
`ApprovalArrives` the ticket at `POST /workflows/approve`. A *line* is a step with
what the preview tells of its application: `launch_app` shows the name and what is
started, `focus_app` and `wait_for_process` the name only, so two entries of one
name are told apart by a launch and by nothing else. Digests are the things they
digest; a ticket is the call that carries it to the store. The other dialogs of
the broker are left out: they can only make `CanAsk` false, which refuses. `read`
is history: what was shown and approved.

A run ends in `Reviewed`. `confirmWorkflowRun` asks for an array `steps` in the
preview's answer, and the route returns none: `PreviewAnswer` has the keys it does
return, and `Confirmable` makes the test, which never holds. So every call that
asks for a run is refused before its dialog, no run authorization is issued, and
neither `runAuthorization.js`, `workflowExecutor.js` nor `applicationLauncher.js`
is modelled: whatever was said of them would be about states the program cannot be
in (see the disagreements). Once the answer carries the steps, `PreviewAnswer` is
the definition that changes, and the dialog, the gate and the executor are to be
added behind it.

## The runs

Each run finishes in under four minutes with two workers.

| run | instance | asks |
|---|---|---|
| `DraftSendLifecycle` | one draft, two texts, the loop and two workers, every route, crash at any point, saves succeed | approval binding (`PlacedWasApproved`), the compare-and-set and no draft stuck (`OneSender`), no silent repetition across a crash (`NoSilentDoublePlacement`) |
| `DraftSendWipe` | one draft, the loop and a worker, accepts, a wipe that may repeat, saves and deletions that may fail, crash | `WipeExcludesSends`, `NothingRegrows`, and under fairness `DrainsAndSendsEnd` |
| `DraftStoreSave` | creator and two pool threads that update and delete, two drafts, two versions, snapshot writes that may raise, crash | `UniqueIds`, `SavedSurvives` (what was acknowledged is archived, what is not archived is still owed) |
| `DraftStoreClear` | the same threads with deletes, both clears, a wipe and copies, an archive that may refuse rows, a queue of two | `GoneStaysGone`, `NoRegress` |
| `DraftStoreIds` | creator and one Library thread, three drafts | refutes `UniqueIds` |
| `DictationFlow` | a producer, the dispatcher, a caller, a stopper, a wiper, two recordings, a queue of one, one stage, crash | `SingleFlight`, `ProcessingTracksRun`, `RecordingsAccounted`, `StopHonoured`, with any save, registration, drain, stop or job transition failing at any time |
| `DictationLive` | a producer, the dispatcher, a wiper that drops twice, three recordings, two stages, fair | `DispatcherServes` |
| `RuntimeUse` | three runtimes, memory for one model; a thread, a coroutine and the sweep, one plan that dictates and one that speaks; unloads plain and forced, selections, deletions, profile switches, pins | `LeasesAccounted`, `LeasedModelSpared` (who may take a model from its user), `LeaseKept` (refines `ExclusiveUse`) |
| `AudioHeld` | two threads, the audio callback, the watcher, two other streams; four plans (every fault and a crash around a muting recording, two recordings in a row, an emergency stop or shutdown beside one, the wake listener with an emergency stop and a wipe) | `MutesAccounted`, `NothingLeftBehind`, `RecordingStoppable`, `PanicQuiets`, `NothingHangs` |
| `SidecarSupervised` | POSIX and Windows, the port free, with a backend or with something else, three faults, retries or updates | `NoStray` (no process lost sight of), `NoOrphan` (none outlives the app), `Settles` (liveness) |
| `ControllerHolds` | six plans: profile switches with three tables, a bouncing switch, nested chords, two controllers of one name, the wizard's capture, a Stream Deck beside a sequence; keyboard and shutdown | `HoldTracked`, `HeldIsDown`, `DeferralCancelled` |
| `WorkflowsAsRead` | one workflow with two plans, one application with two entries of one name, two calls; edits, switches, deletions and wipes at any time | `ApprovedAsRead` (approved is what was read), `ChangesAreShown` (an application id changes only by a click on a dialog that showed the change) |

The runs of `DraftSend` (lifecycle), `DraftStore` (save), `Dictation` (flow) and
of the five other components also check the module's `TypeOK`. Each names, beside
the types, a fact the types of the code do not give: a register without
duplicates, a lock with the holder its place asks for, a count within its limit.

### The bounds, and why they are enough

- **One draft** in DraftSend. Drafts meet only in `pending_manual_send_ids`, and
  the list is only searched for one draft at a time; sends of different drafts
  meet only in the coordinator, which counts threads. The theorems about the
  coordinator and the wipe hold for any number of drafts.
- **Two texts**: a draft's text and a different one; no code compares three.
- **Three sending threads** (the loop and two workers): two to race, one to
  route or delete meanwhile. The wipe run has two, since the drain only counts.
- **Two drafts, two versions, three threads** in DraftStore: a flush under way,
  a saver waiting behind it and a change in between is the longest pattern the
  coalescing rule distinguishes. `Limit` 3 with two drafts keeps the trim out of
  `DraftStoreSave` (see the disagreements); `DraftStoreClear` has it at the
  number of drafts.
- **A queue of one** reaches "full" with the second recording; the dispatcher
  holds one more; the third finds both occupied.
- **Plans** (`Plans`) in ModelRuntime: the coordinator treats the runtimes alike
  and they meet in admission only, so each plan has one runtime that is used
  with a lease on the thread or the loop, one without, and memory for one of
  them (`Ram` 1), which makes every load evict. `Copies` bounds the engine
  objects of a runtime that are alive at a time; in neither plan do two actors
  create engines of one runtime, so one is enough there.
- **`MaxFaults` 1** in AudioCapture: each of the five faults is met at each place
  it can come, one in a behaviour. `wakes` is at most one: a
  second would be a second recording, which the plan `Twice` has without it.
- **One thread with the wake listener's routes** in AudioCapture: they run on the
  event loop, one at a time (`CaptureAssumption`).
- **`MaxEvents` 3 and one more start** in Sidecar: a fault, what it starts, and
  one event in the middle of the recovery. With four events and five starts the
  same properties were checked once, on six times the states, and held. The thresholds 2, 3 and 4 keep the order
  of the code's (unhealthy, restart, restart while busy), `MaxRestarts` 2 its
  limit reached with a fault to spare.
- **Waiting** in Sidecar: a start's health wait (30 or 90 seconds) ends before a
  monitor that polls every five seconds could count twenty-four failures; the
  guard `Waiting` says so, since the model has no clock.
- **One name, two controllers, three tokens, one post of a kind in flight** in
  ControllerInput: state is per name, and nothing crosses names but the
  recording and the register; the longest binding has three tokens.
- **One workflow, one application, two calls** in Workflows: an approval and
  another, or a change, beside it; workflows meet in the dialog and in the
  applications they name. A plan has each kind of step that a line tells
  differently. With three calls the same properties were checked once, on 808,210
  states, and held.
- **Failures** in Dictation have no bound: every save and every step that may raise
  may do so each time. Two recordings (three in the live run) let one be rescued,
  or go missing, while another runs.
- **`MaxDrops`, `MaxRecordings`, `MaxDrafts`, `MaxVersion`, `bounds`** bound
  counters that grow without limit in the code; they stand in guards of the
  actions that start something new, never of those that finish it.
- `CHECK_DEADLOCK FALSE` in the DraftStore, Dictation, RuntimeUse, AudioHeld and
  Sidecar runs: once the bounds are used up and every thread is idle (or the app
  has exited) the model may stop, as the real system waits for its user. In
  AudioHeld `NothingHangs` says that it stops for no other reason. The DraftSend
  and ControllerHolds runs have no such end and check deadlock.
- Symmetry is over texts, pool threads, calls and streams, which only appear in
  symmetric positions, and only in runs without liveness properties.

## Fairness

`FairSpec` of DraftSend and Dictation asks for weak fairness of each thread's own
steps once it is under way: sends, saves and rewrites, the dispatcher, pipeline
stages, enqueues, the wipe. The operating system schedules every thread, an
injection and a stage either return or raise, and every wait in the code has a
deadline or is on a lock whose holder is itself fair. Weak fairness suffices for
the waits on the gate and on the drain: each also has a timeout branch, so the
step is enabled whichever way the wait goes. Nothing the environment does is
fair: no request, recording, stop, wipe or crash has to happen. In
`DictationLive` no crash happens, as a crash would empty the queue for the wrong
reason.

`Sidecar` is fair to what Node and the operating system give: timers fire,
network calls answer or run into their timeout, a settled promise wakes its
coroutine, SIGKILL ends a process. A backend that boots comes up unless it exits
first, which the events bound. A hung process need not recover and need not stay
hung; no click and no fault has to come.

`ModelRuntime`, `AudioCapture`, `ControllerInput` and `Workflows` state no fairness: their
properties are safety. `NothingHangs` asks that a step can be taken, not that one is.

## The proofs

TLAPS checks the proof modules to the last leaf, from the assumptions named in
the modules (`DraftSendAssumption`, `DraftStoreAssumption`, `DictationAssumption`,
`RuntimeAssumption`, `CaptureAssumption`, `SidecarAssumption`, `WorkflowsAssumption`): the kinds of
thread are disjoint where the code's are, `None` is none of them, limits are
naturals, plans keep to what the code has.

- `WipeExclusion_Safety` (`Spec => []WipeExcludesSends`). The property alone is
  not inductive. `ExclusionInv` adds: `active` is exactly the set of threads
  between begin_send and end_send (`ActiveIsRegistered`); a wipe past its gate
  step is the gate's holder, so there is one (`GateIsHeld`); that wipe's lease is
  still raised (`LeaseIsHeld`), which would fail if another wipe could release
  it; and no send is active under a raised lease (`LeaseIsIdle`), which
  begin_send preserves because it tests the lease. The flag
  `privacy_wipe_in_progress` plays no part: two wipes may both pass its test.
- `NothingRegrows_Safety` (`Spec => []NothingRegrows`). `ErasureInv` says of the
  wipe's steps in order that memory is empty from `clear` on and disk from a
  verified `delete` on, and that an empty memory stays empty: every operation
  that writes a row changes one that is present (`Rows`, `RowsKept`), and no
  draft enters the queue. The last is a premise of the module, which has no
  creation: a dictation creates under the gate that the wipe holds, and the one
  path that does not, a Library copy, is a disagreement recorded below.
- The other four of `DraftSendProofs`. `TypeOK_Safety` from `TypeInv`, one part
  per group of variables. The heart of the rest is `ReservationInv`: while a
  send is placing a draft that no route took out of "sending", the draft says
  "sending" and names that thread as its owner, and a draft that says "sending"
  has such a thread. `OneSender_Safety` follows from it at once;
  `PlacedWasApproved_Safety` from `ApprovedText` (between the check and the
  injection a send carries the text its ticket names, whatever became of the
  draft); `NoSilentDoublePlacement_Safety` from `LandedInv`: a text that may have
  left the program belongs to a draft that neither memory nor disk calls fresh,
  and a send may place only once the disk says so too. It has the hypothesis
  `~SaveMayFail`: when the save that marks a draft "sending" may fail silently
  the property is false, and the run has saves succeed. Everything beside the
  sends (routes, wipes, the loop) is one predicate, `Aside`, proved once to
  keep each of the invariants.
- `WipeErases_Refinement` of `DraftSendProofs` (`Spec => Erasure!Spec`). It needs
  `ExclusionInv` for the guards (a raised lease stops `Begin`, no active send lets
  the lease be taken, `GateIsHeld` makes the eraser one), `ErasureInv` for memory
  being empty at the deletion, and `KeptInv`: every draft in memory is on disk,
  and the draft of an archive delete under way has left memory. With it each
  step's effect on memory, disk and threads is either `Calm` (memory gains no
  draft, no row comes or goes, nobody starts to delete) and so a stutter, or is
  one of the six boundaries.
- `SingleFlight_Safety` (`Spec => []SingleFlight`). `finish` releases the gate
  without asking who holds it. `FlightInv` therefore says that every thread
  between its acquisition and its release is the holder (`HoldersHold`), and
  that pipelines and wipes keep to their own parts of the program
  (`RolesKept`).
- `ProcessingTracksRun_Safety` (`Spec => []ProcessingTracksRun`), from the same
  invariant and `JobHasRecording` (a selection rewrite registers no job).
- The other three of `DictationProofs`. `TypeOK_Safety` from `TypeInv`.
  `RecordingsAccounted_Safety` from `AccountInv`: a recording is in somebody's
  hand, kept, on record as let go of by a failing step, or was lost to a crash
  (`Accounted`); a recording that is retried is kept, a run past its save has its
  recording kept or is bare, and a run that finishes has kept or dropped it
  (`RecKept`, which is what makes a crash after a save that worked harmless). `StopHonoured_Safety` (`[][...]_vars`) from `StopInv`: a run that
  was stopped holds the gate until it ends, and the event stays set as long,
  since only a thread that has just taken the gate clears it.
- `WipeErases_Refinement` of `DictationProofs` (`Spec => Erasure!Spec`). From
  `FlightInv`: the free gate has nobody at work and no eraser (`HoldersHold`), so
  both `Begin` and `Quiesce` find what they ask for, and the eraser is one; from
  `TypeInv`: whoever finishes a stage has a recording in hand. Every other step
  moves a thread without crossing the gate (`Sides`).
- `DraftStoreProofs`, for any number of drafts, versions and pool threads. Its
  first part proves what each operation on a sequence (append and trim, update
  in place, removal, the file without a draft, the rows of a snapshot, the load
  of the newest rows) does to the set of rows, and that each keeps the rows in
  the order of creation; `TypeOK_Safety` rests on that order. `StepEffect` then
  sums up every action by what it does to the four places a draft can be in:
  queue, archive, file, and the snapshot in the writer's hands (`Held`). From it:
  `NoRegress_Safety` (an action property) from `OneId`, `OneRow`, and that
  neither file nor archive is ever ahead of the snapshot about to be written,
  nor that snapshot of the queue (`AheadOfArchive`, `FileBehind`);
  `GoneStaysGone_Safety` from `GoneInv`, whose `Fading` says where the victims of
  a removal under way may still be, and that its own save will not be covered
  by a snapshot that has them; `UniqueIds_Safety` from `IdsGrow`: ids grow with
  the moment of creation, in memory and in the files, and the counter the next
  dictation uses is above them all; `SavedSurvives_Safety` from all of these and
  four more. `DebtInv`: a queue row the archive has not got is owed to it, about
  to be asked for, or in the hands of the writer, whose snapshot has it or is
  still to be taken. `SaverInv` says the same of the version each save under way
  is of (`Archived`, `Carried` by the writer, or `Waiting`), and also that the
  revision of what the writer carries is not stamped as written before its
  snapshot is on the disk, which is why a covered save may return.
  `RemovalInv`: while a delete or a wipe is under way, the rows it will take from
  the archive are of drafts it set out to remove, whatever is saved meanwhile.
  Steps that are no part of a save are taken together (`Aside`), those of a save
  one by one. The hypotheses: `~MayCrash` for `NoRegress` (a restart reads the
  archive, which a failed mirror leaves older than the file), `"library" \notin Ops`
  for `UniqueIds` (a Library copy breaks it, see `DraftStoreIds`), and for
  `SavedSurvives` no Library copy or clear, `~MirrorMayFail`, and
  `MaxDrafts <= Limit`, a queue that is never trimmed (each fails otherwise, see
  the disagreements); it is proved of deletes, `DELETE /drafts` and wipes together, with
  snapshot writes that raise and with crashes.
- `ModelRuntimeProofs`: `TypeOK_Safety`; `LeasesAccounted_Safety` (every path
  returns the lease it took) from `TypeOK`, `Placed` (what an actor's position
  says of its kind, its engine and the loop) and the lease invariant, which adds
  that a writer has no readers beside it (`Exclusive`); and `LeaseKept_Refinement`
  (`Spec => ExclusiveUse!Spec`). For the last, each action is shown to leave the
  positions that count as using or rebuilding as they are (a stutter) or to move
  one actor across one boundary, and `LeasesAccounted` turns the code's test of
  the fields into the abstract guard. `LeasedModelSpared_Safety` (an action
  property) needs `EngineInv` beside these: an engine in hand or named by a
  global is of the runtime it is used for, and whoever loads a speech or voice
  engine, keeps it or answers from it holds that engine's lock.
- `AudioCaptureProofs`: `TypeOK_Safety`, whose inductive part places a lock's
  holder at the steps under it and nobody else; `MutesAccounted_Safety` from
  `MuteInv`, which says for each place of the lease's holder which muted streams
  are in `mine`, still in `todo`, already in `did`, or in the journal; and
  `NothingLeftBehind_Safety` from `HeldInv`, which says for each place of the
  recorder's holder what is taken already and what is given back;
  `RecordingStoppable_Safety` from `StoppableInv`: whoever is about to start the
  recorder has the flag set, or a stop came between; `PanicQuiets_Safety` from
  `QuietInv`: a start is a sequence of calls of its own (`StartsAlone`), so an
  actor that the emergency stop meets at nothing of a start begins none either,
  and what is still open or held has its stop ahead of it in the calls of the
  actor that calms (`Calming`). `NothingHangs_Safety` is the order of the locks:
  the recorder's is taken before the stream's and the lease's, and the holder of
  one of these two takes no other. From a thread that waits the proof goes to the
  holder, which `Placed` puts at a step that waits for nothing
  (`HolderSteps`), and `WorkInv` adds that a holder about to mute has a stream
  left to mute.
- `SidecarProofs`: `TypeOK_Safety` (the restart count's limit included),
  `NoStray_Safety` and `NoOrphan_Safety`. A spawn overwrites `childProcess`, so
  the heart of `NoStray` is that no other process is held then: a start at the port check or the probe
  whose generation is current is the only one, and has no child (`Placed`);
  each process has at most one stop that is giving it its grace period
  (`OneStopEach`). `NoOrphan` rests on `ExitInv`: from the moment the stop of a
  quit or an update begins, nothing starts the sidecar. A restart asks for its
  generation again, and a retry follows a failed boot, which left nothing to
  stop, so the retry's own stop returns before anything else can happen
  (`RetryAlone`).
- `WorkflowsProofs`: all three properties of the run, for any workflows, plans,
  applications and number of calls. `ApprovedAsRead_Safety` needs a fact beside
  it: the approval was read while its ticket is still under way (`CallRead`).
  `Save` keeps an approval only with the steps it was given for, and the ticket is
  granted only to the steps it names, so what the store calls approved was read
  (`StoreRead`). `ChangesAreShown_Safety` rests on one part of `Placed`: an entry
  that a call expects to replace is the one its dialog showed.
- `ControllerInputProofs`: all four properties, for any controllers, names,
  tokens, bindings and tables. Every action is summed up by what it does to the
  device of one name (`FireEffect`, `TokenUpEffect`, ...). `TypeOK_Safety` says
  that an action has at most one hold and one deferral on a device.
  `HoldTracked_Safety` is from `Plugged`: of a name that the engine does not know
  it has nothing pressed, held or deferred, and a name it knows has a controller
  plugged in. `HeldIsDown_Safety` is from `DownInv`: what the engine has as
  pressed is down on a controller of that name, and so is what a hold needs, from
  the moment the press is queued; it has the hypothesis `HoldsAlike` (a single
  binding has one event, two sequences that hold by one action are equally long).
  `DeferralCancelled_Safety` is from `LandedInv`, and has the hypothesis
  `ChordsNest` (a binding longer than a chord that shares a button with it
  contains it). Nothing in the code enforces either hypothesis on an edited file,
  and without them TLC refutes the properties (see the disagreements); the run's
  tables satisfy both.

Liveness needs fairness, but half of what makes it true is safety: whatever makes
others wait belongs to somebody who has yet to give it back. That half is proved for
each module with a liveness property, and for the runtime's locks. No run lists these
four; each was checked on the module's instance before it was proved.

- `NothingLeftRaised_Safety` of `DraftSendProofs`. The cancellation, the lease, the
  gate and the flag each belong to a wipe at a place from which it still lowers them.
  Two wipes may both pass the test of the flag, so the flag and the cancellation
  belong to some wipe and not to the gate's holder; the invariant says which places
  qualify (`CancelHasDrain`, `LeaseHasWipe`, `GateHasWipe`, `FlagHasWipe`).
- `NothingLeftHeld_Safety` of `DictationProofs`: the converse of `SingleFlight`. A
  gate that is taken has a holder between its acquisition and its release, pipeline
  or wipe. Everything that gives neither gate nor flag up is one predicate, `Passes`.
- `NothingLeftTaken_Safety` of `ModelRuntimeProofs`: an engine's lock, the event loop
  and a runtime's cancellation (`LockHasHolder`, `LoopHasTask`, `CancelHasDrain`).
  It needs `GetsLlm` beside `Placed`: only the language model is loaded while its
  engine is still being fetched.
- `NothingLeftUndecided_Safety` of `SidecarProofs`. A restart's flag and its status
  stand while that restart is in its stop (`FlagHasRestart`, `StatusHasRestart`); a
  pending boot has a start that was called (`BootHasStart`, from `ExitInv`). The
  unhealthy status is the hard part: a start over a live process takes the monitor's
  generation away and leaves the status as it was. `UnhealthyIsWatched` therefore
  says that no restart runs beside a monitored unhealthy status, and
  `ReadIsOfTimer` that a health read begun before a restart is stale when it
  answers. The test of `restarting` at the head of `restartBackend` (`sidecar.js`
  909) is thus redundant: the generation test beside it already refuses whatever it
  would.

The theorems about the gate and the lease carry `Shape` in place of the type
invariant, the little of it they use: the domains of `thr` and of its records.

Some operators were rewritten so that they could be reasoned about, with the
same meaning: `Unlisted` (a loop of removals), `LastRows` and `Ascending` in
`DraftStore`, and `InForce` and `InOrder` in `ControllerInput`: sets and an
enumeration where there were filters and sorts of sequences, about which the
provers know nothing. `MaxVersion` must be positive,
since a new draft has version 1.

What a step waits for is an operator of its own in `AudioCapture`
(`RecorderFree`, `MicFree`, `LeaseFree`), which the actions have as a guard and
`NothingHangs` reads, through `CanStep`, in the place of an `ENABLED`. On the
instance of `AudioHeld` TLC finds the two the same: in every state `CanStep(t)`
is `ENABLED (Step(t) \/ (t = Startup /\ (Recover \/ Recovered)))`.

No run lists `WipeErases`; it was checked on the instances of `DraftSendWipe` (with
every route) and `DictationFlow` before it was proved.

Every invariant and action property of a passing run that is not a liveness
property is now a theorem. Model-checked only: the liveness properties
(`DrainsAndSendsEnd`, `DispatcherServes`, `Settles`) themselves: that whoever has
yet to give something back does so. Liveness under fairness,
`ENABLED` and induction over data are out of the prover's reach.

## Where code and documents disagree

One disagreement is kept as a run (`PROJECT.json`, findings). `DraftStoreIds`: a
Library copy advances the store's id counter and not the copy in `server.py`,
which overwrites it at the next dictation.

Others met while modelling, which no run asserts. Where a property excuses one of
them, the property's comment names the path it excuses, and nothing else.

Drafts, store and pipeline:

- A Library copy that read its source (or is transcribing a recording again,
  `library.py` 284) when a wipe begins creates its draft after the wipe has
  emptied the queue; the comment on the wipe flag (`server.py` 358-361) says that
  every such path refuses.
- A marker save that fails is logged and swallowed, and the injection proceeds,
  though the comment (`server.py` 1639-1643) says that it must not: after a crash
  the draft is then offered as if it had never been sent.
- The wipe releases the gate (4222) before its flag (4223), and the generation
  of a dequeued recording is not looked at again after the wait for the gate
  (3099): a recording that the drop invalidated is processed after the deletion,
  against the comment at `server.py` 367.
- Declining a draft in "sending" and accepting it again opens it for a second
  placement at the same time (`reopened` excludes it from the properties).
- Editing a draft in "sending" changes its text and leaves its status, so the
  record can end as sent with a text that was not placed.
- A send that finishes while a wipe drains skips its save; if the wipe aborts
  and the process dies, a confirmed send comes back as `send_interrupted`.
- The Library's check that a draft is not in flight is made before, not with,
  its removal from the queue; the send then settles without a draft.
- Two wipes may pass the flag's test; the first to end clears it under the
  other, which is still protected by the gate.
- `upsert_many` swallows SQLite errors, so a flush whose mirror failed re-arms
  nothing: the second half of `SavedSurvives` holds only without `MirrorMayFail`.
- An edit of the oldest draft that races a trim is in no later flush:
  `SavedSurvives` needs a limit above the number of drafts.
- The Library's clear empties the queue and then every row of the archive
  (`library.py` 339-343): a draft created in between is in the queue, nothing is
  owed for it, and until its next edit a restart would not find it. Of two
  drafts with one id, which a Library copy can lead to, the archive keeps one
  row. So `SavedSurvives` is proved without either.
- `DELETE /drafts` empties the queue and leaves the archive's rows, which the
  next start loads again (`clear` removes nothing for good in the model).
- The raw recording is saved up front "so it survives a crash, an error, or a
  cancellation partway through" (`dictation_pipeline.py` 163-165). That save may
  fail, or find that the id is taken, without anyone being told (`server.py`
  2387-2392, `recordings.py` 88-136 returns None), and the run goes on; if then
  the error draft or a job transition raises too, or the process dies, the
  recording is gone. A job that cannot be registered (2494-2502) drops it with no
  save at all, and so do an exception of the streaming drain (3137-3139) and of
  the recorder's stop (`hotkey_manager.py` 244-250), before the save is reached.
  `RecordingsAccounted` has these in `dropped` and `lost`.
- A rescue whose save failed or returned None still tells the user "recording
  saved to recovery" (`server.py` 2465) or "this one was saved to recovery" (3055).
- Raw recordings "are kept for recovery until you delete or wipe them"
  (`docs/release/notes/1.1.0-alpha.4.md` 185); every save prunes the bin to the
  fifty newest (`recordings.py` 221).
- A recording rejected by a full queue or a busy gate may be rescued to the
  recovery bin after a wipe has set its flag.
- `is_recording` falls before the callback has put the recording, so a wipe may
  find the recorder drained with a recording still to come.
- A wipe that aborts at the gate answers that nothing was deleted although it
  has dropped the held recordings.
- `POST /jobs/{id}/cancel` tests the active id and then sets the shared event,
  which may by then cancel the next dictation.

Models (`ModelRuntime`):

- A coroutine that waits for a read lease keeps the event loop, and
  `/models/unload` needs the loop to return its write lease: the server hangs for
  good. The comments (`server.py` 1740-1742, `routes/tts.py` 101-103) expect a
  `RuntimeBusyError`. `LoopNotSelfBlocked` states what they promise; TLC refutes
  it in five states. For the same reason a forced unload with an asynchronous
  reader always runs into its timeout.
- `set_runtime_lease_factory` is called by no production code, so the speech
  worker plays without a lease (`tts_engine.py` 166-173).
- `get_selected_llm_engine` stops the running llama-server when the profile's
  model changed, and deleting or selecting a Whisper model and a profile switch
  unload the transcriber, each with no lease: `LeasedModelSpared` allows exactly
  these.
- `_evict_component` notes the unload after it gave the write lease back, so it
  can erase the ledger entry of a reload in between; admission then counts a
  resident model as free memory.
- An engine obtained before its lease can be orphaned by an unload; its user then
  loads a second copy.
- A component pinned or used after the eviction's test of it is evicted all the
  same (`set_pinned`'s docstring, 250-251).
- `warm_start` after an unload of the language model starts no server (its
  docstring, 834-840); the speech worker's start returns early while a worker
  that is stopping is alive, and the queued utterance is not played
  (`tts_engine.py` 668-674).

Audio (`AudioCapture`):

- A stop between `is_recording` and the recorder's start (`hotkey_manager.py` 180)
  finds nothing to stop; the recorder then records with the flag down, and
  `_drain_recorder` (`server.py` 3856) trusts the flag. `crossed` marks it.
- A wake phrase starts the recording in the audio callback and needs the locks
  whose holder waits for the callback to return: the threads hang.
  `NothingHangs` excuses only starts made in the callback.
- A failed `pactl` listing is an empty one: the release takes every muted stream
  for gone and clears the journal. A mute that timed out after it worked is not
  restored. The rest of an incomplete restore, which a comment (`lease.py` 341)
  keeps for the next startup, is overwritten by the next recording. These are the
  "lost" streams of `MutesAccounted`.
- A stop right after the recorder started makes the start run an emergency stop,
  which cancels the dictation just recorded.
- A subscription that fails to reopen the microphone on another device leaves the
  other subscribers without a stream; enabling the wake listener beside a wipe
  can leave the microphone open; a user's own mute during a recording is undone.
- A crash leaves the volume lowered and the push-to-mute key down: neither has a
  journal.

Controllers (`ControllerInput`):

- With a single binding on a button and a chord of it with another, pressing the
  chord with that button last fires both, against the docstring
  (`controller_engine.py` 24-26, "pressing both must not do both"). So does a
  sequence whose last button is bound by itself.
- A tap shorter than the chord window on a button that is part of a chord and
  holds dictation fires the begin after the release, and the recording runs on
  (`docs/FEATURE_DESIGN.md` 471: "without stuck recording"). A press that is still
  deferred also fires after an emergency stop, and after a capture.
- The wizard ends its capture only when it gives up: once it has read a binding
  (`gameSetupWizard.js` 364) every button is swallowed from then on, the
  emergency stop's among them.
- Only the longest of the bindings that fire at one press cancel
  (`controller_engine.py` 537-542), though the comment (535) has "a longer
  binding" cancel any shorter one: with chords that overlap and do not nest, a
  shorter action inside a chord that fired fires as well.
- Progress in a sequence is kept by action and outlives a profile switch
  (`controller_engine.py` 446), so a shorter sequence of the next profile may fire
  at a first button, its last never pressed. A single binding in an edited file
  may have several events; it fires at the first and is held at the last.
- A cancel of the capture between the poll thread's test and its use raises in
  that thread and ends it.
- A second controller of the same name resets what the first holds with no
  release (`Lost`), and unplugging either releases the holds of both.
- A bounce down, up, down within the window ends a hold while its button is down.
- The docstring says a chord re-arms when all its buttons are released; the code
  re-arms at any one. A chord let go under a capture stays latched, and its next
  press is lost.
- A Stream Deck that is switched off while its key is down has its release and
  its disconnect's release refused; its posts may overtake each other, so a begin
  that comes after its end runs on; and a key pressed while the keyboard records
  is registered as a hold, so unplugging the deck ends the keyboard's dictation
  (`release_device`'s docstring says it cannot).
- The shutdown does not join the poll thread: a press it is handling can begin a
  recording after everything was released.

Clipboard (read for what a placement does; no module keeps it):

- A second placement within the 300 ms after which the first one's guard puts the
  user's clipboard back takes the first draft for the user's clipboard
  (`injector.py` 473) and puts that back, though "injecting a draft doesn't
  destroy whatever they had copied" (`injector.py` 464-465).
- Where no tool can send Ctrl+V the log asks the user to press it (`injector.py`
  363-364), and the guard is started all the same (484-485) and takes the text
  away.
- That guard reads, compares and writes (`clipboard_capture.py` 324-326) without
  holding the clipboard, so a copy in between is overwritten ("so it never
  clobbers a fresh copy", 314-315).
- "Never race an in-flight paste" (`server.py` 2114) is honoured by the primary
  key only. Read-aloud and rewrite look neither for a placement nor for each
  other, and what one restores the other may take for the selection, though for
  the rewrite "stale clipboard content must fail closed" (`server.py` 1886-1887).
- An image is read as the empty text: a paste on any platform, and a capture on
  Linux, leaves the clipboard without it.

Workflows (`Workflows`):

- No workflow can be run. "Every RUN is a separate act and is confirmed here"
  (`approvalBroker.js` 581-582), but `confirmWorkflowRun` refuses with
  `preview_unverified` unless the preview's answer has an array `steps` (614), and
  `POST /workflows/preview` returns none (`actions.py` 240-251); `ipc.js` 140 and
  `sendTrusted` of `backendProxy.js` pass the answer on as it is. The tests do not
  see it: their mocks of the route supply `steps` (`ipcWorkflowRun.test.mjs` 35,
  `workflowRunAuthorization.test.mjs` 78, `approvalBroker.test.mjs` 468), and
  `approvalBroker.test.mjs` 516 asserts the refusal without them.
- `POST /workflows/run/record`, which no run reaches for that reason, summarises the results against the steps that the
  workflow has *by then* (`actions.py` 354-357). If the workflow was made shorter
  while its run waited, a run that stopped or failed after the steps it still has
  is recorded as a success; `summarize_run`'s docstring and
  `docs/release/WAVE10_QA.md` 168 say that a partial run never is.
- `applications:confirm` reads the entry and the identity history before it waits
  for the list of workflows (`ipc.js` 447-455). An id that other calls add and
  remove during the wait is written with no dialog, although the history
  remembers it by then (`ipc.js` 428-431: such an id "is treated as a
  replacement"). `ChangesAreShown` is therefore about entries that exist.

Supervision (`Sidecar`):

- `stop()` finds no process while an automatic restart or a failed start is giving
  the old one its grace period, and returns at once; the app exits, SIGKILL is
  never sent, and a hung backend keeps the port. `NoOrphan` excuses exactly that.
- A process that exits during the version handshake is still announced "ready",
  with no monitor; after the version's answer a start does not ask whether it is
  still current ("A public stop invalidates every callback from the current
  lifecycle", `sidecar.js` 453) and publishes its status.
- A restart whose start fails calls the public stop: there is no second attempt,
  and the status is "stopped", not "crashed".
- With jobs active a hang is noticed after ten minutes, and the restart counter
  starts again after five: hangs of that kind are restarted without limit.
- A retry does not ask whether the app is quitting. A start that ends at the port
  check lies outside the inner `try`. The test after the spawn (638-650) cannot
  fail.

## What is not modelled

What a stage, the transcriber, the language model or the injector computes; the
layout of records; timing other than "may time out"; the search, tags and
migrations of the archive; the renderer; of the Electron shell its windows,
hotkeys and the proxy to the backend. Memory is a count of models, not megabytes.
Of recordings and drafts the retention: the bin keeps the fifty newest recordings
(`prune_recordings`, at every save) and the queue the hundred newest drafts
(`MAX_DRAFT_HISTORY`; `DraftStore` has the trim, `Dictation` does not), and the
user may delete either; in `Dictation` what is saved or drafted goes only by a
wipe. The Windows adapter of the voice privacy, the allowlist and the serial numbers
that tell a reused stream from its predecessor; of the workflows the executor,
the launcher and the run authorizations (no run reaches them), the run history,
the limits, failing writes, discovery, and what a link's scheme or a folder needs
of the registry to be valid; of the broker the dialogs for personas, voices and
wipes; the stores behind controller
bindings, actions with a parameter, voice commands (`command.begin` has no handler
in `server.py`), suspension (no caller), the hysteresis of an axis. An approval
ticket is what it was signed for; its signature, expiry and nonce are not
modelled. A wipe's deletion is one step that verifies or does not; the
per-category registry is not taken apart.

Each module has the wipe and the recorder as far as its own state goes; they are
not composed into one. Where one part stands for another, it is by what the other
promises: to `ControllerInput` the recorder is started and stopped or does not
start, to `Dictation` a stage ends, fails or is cancelled.

## The plan

Done: the send path, the store, the pipeline, the model runtime with its
refinement, the wipe as `Erasure`, audio capture and privacy, supervision, controllers, workflows. Left, in order:

1. The composition of `DraftSend` and `Dictation` around the one gate and the one
   wipe, with one `Erasure` for both: each has its own refinement so far.
2. `DraftStore`'s abstract specification, a map from id to version that a crash
   does not change, implemented under the conditions the runs name.
3. `JobManager` (terminal states final, prune never drops a live job) and the
   pipeline's use of it; the broker's other dialogs; the speech worker's queue.
4. The clipboard as borrowed by pastes and captures: what the user had copied
   comes back, an application pastes the draft, a capture gives its selection.
