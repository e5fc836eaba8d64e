------------------------------ MODULE Sidecar ------------------------------
(***************************************************************************)
(* The Electron main process's supervision of the Python backend: starting *)
(* it (port check, spawn, health wait, version handshake), the health      *)
(* monitor and its automatic restarts, stopping it (SIGTERM, a grace       *)
(* period, SIGKILL), and the callers: the boot and its retry, quitting,    *)
(* and an update that stops the backend and may have to start it again.    *)
(*                                                                         *)
(* Main is one thread of JavaScript.  A coroutine runs from one await to   *)
(* the next; whatever a settled promise wakes (Waking) runs before the     *)
(* next event: a timer, a click, an answer, the exit of a process.  An     *)
(* invocation of start() has a name; it spawns at most one process, which  *)
(* goes by the same name.                                                  *)
(***************************************************************************)
EXTENDS Naturals

CONSTANTS
  Starts,            \* bound: the invocations of start(), one more than events
  MaxEvents,         \* bound: faults, retries and updates
  MaxRestarts,       \* MAX_AUTO_RESTARTS
  UnhealthyAfter,    \* HEALTH_FAILURES_BEFORE_UNHEALTHY
  RestartAfter,      \* HEALTH_FAILURES_BEFORE_RESTART_ALIVE
  RestartAfterBusy,  \* HEALTH_FAILURES_BEFORE_RESTART_BUSY
  None               \* no process, no start, no monitor

Callers    == {"restart", "retry", "quit", "update"}
Tick       == "tick"
Coroutines == Starts \union Callers \union {Tick}

ASSUME SidecarAssumption ==
  /\ MaxEvents \in Nat /\ MaxRestarts \in Nat
  /\ UnhealthyAfter \in Nat /\ RestartAfter \in Nat \ {0} /\ RestartAfterBusy \in Nat \ {0}
  /\ None \notin Starts \union Nat
  /\ Starts \intersect (Callers \union {Tick}) = {}

VARIABLES
  child,       \* childProcess
  current,     \* startPromise: the start it belongs to
  gen,         \* lifecycleGeneration
  stopped,     \* lifecycleStopped
  timer,       \* healthTimer: the generation its callback captured
  failures,    \* consecutiveHealthFailures
  busy,        \* whether lastHealthyPayload shows active jobs
  restarts,    \* autoRestartCount
  restarting,  \* restarting
  state,       \* status.state
  co,          \* the coroutines: where each is, its generation, the process it kills
  outcome,     \* bootSidecarOutcome
  watch,       \* the start whose outcome the current boot generation awaits
  mode,        \* shutdownMode, or that the app has exited
  proc,        \* the backend processes
  port,        \* what else listens on the port
  posix,       \* whether a stop gives the process a grace period; if not
               \* (Windows) it kills at once, and updates install
  events       \* faults, retries and updates so far

life    == << child, current, gen, stopped >>
monitor == << timer, failures, busy, restarts, restarting >>
app     == << outcome, watch, mode >>
outside == << port, posix >>
world   == << proc, outside >>
vars    == << life, monitor, state, co, app, world, events >>

\* Where a start, or a stop somebody called, may be.
Waking  == {"rejected", "reaped", "stopped"}
Settled == {"null", "ready", "external", "failed"}
Pcs     == {"unborn", "idle", "port", "probe", "wait", "version", "body", "read",
            "term", "kill", "install", "recover"} \union Waking \union Settled

States   == {"stopped", "starting", "ready", "external", "error", "version_mismatch",
             "unhealthy", "restarting", "crashed"}
Running  == {"boot", "up", "hung"}
Up       == port = "backend" \/ \E p \in Starts : proc[p] = "up"
PortOpen == port # "free" \/ \E p \in Starts : proc[p] \in {"up", "hung", "killed"}

\* The app runs, and a promise some coroutine awaits has settled; or none has.
Microtask ==
  \/ \E c \in Coroutines : co[c].pc \in Waking
  \/ watch # None /\ co[watch].pc \in Settled
  \/ co["update"].pc = "recover" /\ co[co["update"].on].pc \in Settled
Alive == mode # "exited"
Event == Alive /\ ~Microtask
Fault == events < MaxEvents /\ events' = events + 1

At(c, pc)   == co[c].pc = pc
Goto(c, pc) == co' = [co EXCEPT ![c].pc = pc]
Current(s)  == ~stopped /\ gen = co[s].gen
-----------------------------------------------------------------------------
Init ==
  /\ child = None /\ current = None /\ gen = 0 /\ stopped = TRUE
  /\ timer = None /\ failures = 0 /\ busy = FALSE /\ restarts = 0 /\ restarting = FALSE
  /\ state = "stopped"
  /\ co = [c \in Coroutines |-> [pc |-> IF c \in Starts THEN "unborn" ELSE "idle",
                                 gen |-> 0, on |-> None]]
  /\ outcome = "none" /\ watch = None /\ mode = "none"
  /\ proc = [p \in Starts |-> "none"]
  /\ port \in {"free", "backend", "other"} /\ posix \in BOOLEAN
  /\ events = 0
-----------------------------------------------------------------------------
(* stop() and start() up to their first await.  `cos' are the coroutines     *)
(* with what their caller has changed.                                       *)

\* stop(), called by c.  A process that is still there is sent SIGTERM, or
\* killed.  `shown' is the status so far; some outlive a stop without a process.
Preserved == {"external", "error", "version_mismatch", "crashed"}
Stop(c, internal, shown, cos) ==
  /\ stopped' = (stopped \/ ~internal)
  /\ gen' = gen + 1
  /\ timer' = None /\ failures' = 0
  /\ current' = None /\ child' = None
  /\ \/ /\ child = None
        /\ state' = IF shown \in Preserved THEN shown ELSE "stopped"
        /\ co' = [cos EXCEPT ![c].pc = "stopped", ![c].gen = gen + 1]
        /\ UNCHANGED proc
     \/ /\ child # None /\ proc[child] = "dead"
        /\ state' = shown
        /\ co' = [cos EXCEPT ![c].pc = "reaped", ![c].on = child]
        /\ UNCHANGED proc
     \/ /\ child # None /\ proc[child] # "dead"
        /\ state' = shown
        /\ co' = [cos EXCEPT ![c].pc = IF posix THEN "term" ELSE "kill", ![c].on = child]
        /\ proc' = IF posix THEN proc ELSE [proc EXCEPT ![child] = "killed"]

\* start() is the start in progress, or a new one: it checks the port first, or,
\* with the process still there, waits for its health.
Fresh  == CHOOSE s \in Starts : co[s].pc = "unborn"
Called == IF current # None THEN current ELSE Fresh
Start(cos) ==
  \/ current # None /\ co' = cos /\ UNCHANGED << life, state >>
  \/ /\ current = None /\ \E s \in Starts : co[s].pc = "unborn"
     /\ stopped' = FALSE /\ gen' = gen + 1 /\ current' = Fresh
     /\ co' = [cos EXCEPT ![Fresh].pc = IF child = None THEN "port" ELSE "wait",
                          ![Fresh].gen = gen + 1]
     /\ state' = IF child = None THEN "starting" ELSE state
     /\ UNCHANGED child

\* The grace period and, for a process that does not even exit then, the settle
\* window of a kill.
GraceOver(c) ==
  /\ Event /\ At(c, "term")
  /\ proc' = [proc EXCEPT ![co[c].on] = "killed"]
  /\ Goto(c, "kill")
  /\ UNCHANGED << life, monitor, state, app, outside, events >>
SettleOver(c) ==
  /\ Event /\ At(c, "kill")
  /\ Goto(c, "reaped")
  /\ UNCHANGED << life, monitor, state, app, world, events >>

\* stop() returns, with the generation it finds then.
Reaped(c) ==
  /\ Alive /\ At(c, "reaped")
  /\ state' = "stopped"
  /\ co' = [co EXCEPT ![c].pc = "stopped", ![c].gen = gen, ![c].on = None]
  /\ UNCHANGED << life, monitor, app, world, events >>
-----------------------------------------------------------------------------
(* The rest of start().                                                      *)

\* It ends here: as it would have ended, or with null when it is not current.
End(s, pc) == Goto(s, pc) /\ UNCHANGED << life, state, timer, failures, proc >>

Spawn(s) ==
  /\ child' = s /\ proc' = [proc EXCEPT ![s] = "boot"]
  /\ state' = "starting" /\ Goto(s, "wait")
  /\ UNCHANGED << current, gen, stopped, timer, failures, events >>

\* Mutant: the lifecycle is not asked again after the port check.
PortTrusted(s) ==
  /\ Event /\ At(s, "port")
  /\ \/ PortOpen /\ End(s, "probe") /\ UNCHANGED events
     \/ ~PortOpen /\ Spawn(s)
     \/ ~PortOpen /\ End(s, "failed") /\ Fault
  /\ UNCHANGED << busy, restarts, restarting, app, outside >>

\* An executable that cannot be started is a fault.  Nothing that ends before
\* the wait for health clears startPromise.
PortChecked(s) ==
  /\ Event /\ At(s, "port")
  /\ \/ ~Current(s) /\ End(s, "null") /\ UNCHANGED events
     \/ Current(s) /\ PortOpen /\ End(s, "probe") /\ UNCHANGED events
     \/ Current(s) /\ ~PortOpen /\ Spawn(s)
     \/ Current(s) /\ ~PortOpen /\ End(s, "failed") /\ Fault
  /\ UNCHANGED << busy, restarts, restarting, app, outside >>

\* A backend that answers already is used, and not owned.
Probed(s) ==
  /\ Event /\ At(s, "probe")
  /\ IF Current(s)
       THEN state' = IF Up THEN "external" ELSE "error"
       ELSE UNCHANGED state
  /\ Goto(s, IF ~Current(s) THEN "null" ELSE IF Up THEN "external" ELSE "failed")
  /\ UNCHANGED << life, monitor, app, world, events >>

HealthSeen(s) ==
  /\ Event /\ At(s, "wait") /\ Up
  /\ Goto(s, IF Current(s) THEN "version" ELSE "null")
  /\ UNCHANGED << life, monitor, state, app, world, events >>

\* The wait times out, or its process has exited.  Only a current start cleans
\* up after itself.
WaitFails(s) ==
  /\ (Event /\ At(s, "wait")) \/ (Alive /\ At(s, "rejected"))
  /\ IF Current(s) THEN Stop(s, FALSE, state, co) ELSE End(s, "failed")
  /\ UNCHANGED << busy, restarts, restarting, app, outside, events >>
FailedStartStopped(s) ==
  /\ Alive /\ At(s, "stopped")
  /\ Goto(s, "failed")
  /\ UNCHANGED << life, monitor, state, app, world, events >>

\* The version handshake.  Its answer may still be on its way when the process
\* that gave it exits; whether the start is still current is not asked again.
VersionAnswered(s) ==
  /\ Event /\ At(s, "version") /\ Up
  /\ Goto(s, "body")
  /\ UNCHANGED << life, monitor, state, app, world, events >>
Handshake(s) ==
  /\ Event
  /\ \E match \in BOOLEAN :
       /\ At(s, "body") \/ (~match /\ At(s, "version"))
       /\ state' = IF match THEN "ready" ELSE "version_mismatch"
       /\ IF match /\ child # None THEN timer' = gen /\ failures' = 0
                                   ELSE UNCHANGED << timer, failures >>
  /\ current' = IF current = s THEN None ELSE current
  /\ Goto(s, "ready")
  /\ UNCHANGED << child, gen, stopped, busy, restarts, restarting, app, world, events >>

StartStep(s) ==
  \/ PortChecked(s) \/ Probed(s) \/ HealthSeen(s) \/ WaitFails(s)
  \/ FailedStartStopped(s) \/ VersionAnswered(s) \/ Handshake(s)
-----------------------------------------------------------------------------
(* The health monitor and the restarts.                                      *)

Watches(g) == ~stopped /\ gen = g
Dead       == child # None => proc[child] = "dead"

TickBegins ==
  /\ Event /\ timer # None /\ At(Tick, "idle")
  /\ ~restarting /\ child # None /\ Watches(timer)
  /\ co' = [co EXCEPT ![Tick].pc = "read", ![Tick].gen = timer]
  /\ UNCHANGED << life, monitor, state, app, world, events >>

\* Mutant: one restart too many before giving up.
RestartOnceMore(cos) ==
  /\ ~restarting
  /\ \E count \in {restarts, 0} :
       /\ count <= MaxRestarts
       /\ restarts' = count + 1 /\ restarting' = TRUE
       /\ Stop("restart", TRUE, "restarting", cos)

\* restartBackend().  The count starts again five minutes after the last restart.
Restart(cos) ==
  \/ /\ restarting
     /\ failures' = failures + 1 /\ state' = "unhealthy" /\ co' = cos
     /\ UNCHANGED << life, proc, timer, restarts, restarting >>
  \/ /\ ~restarting
     /\ \E count \in {restarts, 0} :
          \/ /\ count < MaxRestarts
             /\ restarts' = count + 1 /\ restarting' = TRUE
             /\ Stop("restart", TRUE, "restarting", cos)
          \/ /\ count >= MaxRestarts
             /\ restarts' = count /\ timer' = None /\ failures' = 0
             /\ state' = "crashed" /\ co' = cos
             /\ UNCHANGED << life, proc, restarting >>

\* The answer to a health read, or that there is none.  A start's wait (30 or 90
\* seconds) is over before that many misses of a live process (2 or 10 minutes).
Waiting == \E s \in Starts : At(s, "wait") /\ Current(s)
TickStale ==
  /\ ~Watches(co[Tick].gen)
  /\ Goto(Tick, "idle")
  /\ UNCHANGED << life, monitor, state, proc >>
TickHealthy ==
  /\ Watches(co[Tick].gen) /\ Up
  /\ failures' = 0 /\ busy' \in BOOLEAN
  /\ state' = IF state = "unhealthy" THEN "ready" ELSE state
  /\ Goto(Tick, "idle")
  /\ UNCHANGED << life, timer, restarts, restarting, proc >>
TickMissed ==
  /\ Watches(co[Tick].gen) /\ ~Up
  /\ LET threshold == IF busy THEN RestartAfterBusy ELSE RestartAfter
         cos       == [co EXCEPT ![Tick].pc = "idle"]
     IN  \/ /\ Dead \/ (failures + 1 >= threshold /\ ~Waiting)
            /\ Restart(cos)
         \/ /\ ~Dead /\ failures + 1 < threshold
            /\ failures' = failures + 1
            /\ state' = IF failures + 1 = UnhealthyAfter THEN "unhealthy" ELSE state
            /\ co' = cos
            /\ UNCHANGED << life, timer, restarts, restarting, proc >>
  /\ UNCHANGED busy
TickReads ==
  /\ Event /\ At(Tick, "read")
  /\ TickStale \/ TickHealthy \/ TickMissed
  /\ UNCHANGED << app, outside, events >>

\* Mutant: the restart leaves `restarting' set.
RestartKeepsFlag ==
  /\ Alive /\ At("restart", "stopped")
  /\ LET cos == [co EXCEPT !["restart"].pc = "idle"]
     IN  IF Watches(co["restart"].gen) THEN Start(cos)
                                       ELSE co' = cos /\ UNCHANGED << life, state >>
  /\ UNCHANGED << monitor, app, world, events >>
RestartResumes ==
  /\ Alive /\ At("restart", "stopped")
  /\ restarting' = FALSE
  /\ LET cos == [co EXCEPT !["restart"].pc = "idle"]
     IN  IF Watches(co["restart"].gen) THEN Start(cos)
                                       ELSE co' = cos /\ UNCHANGED << life, state >>
  /\ UNCHANGED << timer, failures, busy, restarts, app, world, events >>
-----------------------------------------------------------------------------
(* The app: boot, the splash's Retry, quitting, installing an update.        *)

StartBackendBoot(cos) ==
  /\ Start(cos)
  /\ outcome' = "pending" /\ watch' = Called
  /\ UNCHANGED << monitor, mode, world, events >>
Boot ==
  /\ Event /\ outcome = "none" /\ mode = "none"
  /\ StartBackendBoot(co)
BootSettled ==
  /\ Alive /\ watch # None /\ co[watch].pc \in Settled
  /\ outcome' = IF At(watch, "failed") THEN "failed" ELSE "ready"
  /\ watch' = None
  /\ UNCHANGED << life, monitor, state, co, mode, world, events >>

Retry ==
  /\ Event /\ outcome = "failed" /\ At("retry", "idle") /\ Fault
  /\ watch' = None
  /\ Stop("retry", FALSE, state, co)
  /\ UNCHANGED << busy, restarts, restarting, outcome, mode, outside >>
RetryResumes ==
  /\ Alive /\ At("retry", "stopped")
  /\ StartBackendBoot([co EXCEPT !["retry"].pc = "idle"])

Quit ==
  /\ Event /\ mode = "none"
  /\ mode' = "ordinary" /\ watch' = None
  /\ Stop("quit", FALSE, state, co)
  /\ UNCHANGED << busy, restarts, restarting, outcome, outside, events >>
\* Mutant: the app exits without waiting for its stop.
QuitAtOnce ==
  /\ Alive /\ co["quit"].pc \in {"term", "kill", "stopped"}
  /\ mode' = "exited" /\ Goto("quit", "idle")
  /\ UNCHANGED << life, monitor, state, outcome, watch, world, events >>
QuitResumes ==
  /\ Alive /\ At("quit", "stopped")
  /\ mode' = "exited" /\ Goto("quit", "idle")
  /\ UNCHANGED << life, monitor, state, outcome, watch, world, events >>

\* The dashboard offers an update once the boot is over, on Windows only.
Update ==
  /\ Event /\ ~posix /\ mode = "none" /\ outcome = "ready" /\ Fault
  /\ mode' = "update" /\ watch' = None
  /\ Stop("update", FALSE, state, co)
  /\ UNCHANGED << busy, restarts, restarting, outcome, outside >>
Installs ==
  /\ Alive /\ At("update", "stopped")
  /\ mode' = "exited" /\ Goto("update", "idle")
  /\ UNCHANGED << life, monitor, state, outcome, watch, world, events >>
InstallFails ==
  /\ Alive /\ At("update", "stopped")
  /\ Start([co EXCEPT !["update"].pc = "recover", !["update"].on = Called])
  /\ UNCHANGED << monitor, app, world, events >>
Recovered ==
  /\ Alive /\ At("update", "recover") /\ co[co["update"].on].pc \in Settled
  /\ mode' = "none"
  /\ co' = [co EXCEPT !["update"].pc = "idle", !["update"].on = None]
  /\ UNCHANGED << life, monitor, state, outcome, watch, world, events >>
-----------------------------------------------------------------------------
(* The processes.                                                            *)

Boots(p) ==
  /\ proc[p] = "boot" /\ Event
  /\ proc' = [proc EXCEPT ![p] = "up"]
  /\ UNCHANGED << life, monitor, state, co, app, outside, events >>
Hangs(p) ==
  /\ proc[p] = "up" /\ Event /\ Fault
  /\ proc' = [proc EXCEPT ![p] = "hung"]
  /\ UNCHANGED << life, monitor, state, co, app, outside >>
Unhangs(p) ==
  /\ proc[p] = "hung" /\ Event
  /\ proc' = [proc EXCEPT ![p] = "up"]
  /\ UNCHANGED << life, monitor, state, co, app, outside, events >>

\* An exit, by itself (a fault), on SIGTERM or killed, settles the kills that
\* wait for it, and tells the start it belongs to, until that start has ended.
Ending(p)  == {c \in Coroutines : co[c].on = p /\ co[c].pc \in {"term", "kill"}}
Exits(p) ==
  /\ Event /\ proc[p] \in Running \union {"killed"}
  /\ IF proc[p] = "killed" \/ Ending(p) # {} THEN UNCHANGED events ELSE Fault
  /\ proc' = [proc EXCEPT ![p] = "dead"]
  /\ co' = [c \in Coroutines |->
              CASE c \in Ending(p)            -> [co[c] EXCEPT !.pc = "reaped"]
                [] c = p /\ At(c, "wait")     -> [co[c] EXCEPT !.pc = "rejected"]
                [] OTHER                      -> co[c]]
  /\ IF co[p].pc \in {"wait", "version", "body"}
       THEN /\ child' = IF child = p THEN None ELSE child
            /\ state' = IF Current(p) THEN "error" ELSE state
       ELSE UNCHANGED << child, state >>
  /\ UNCHANGED << current, gen, stopped, monitor, app, outside >>
ExternalLeaves ==
  /\ port # "free" /\ Event
  /\ port' = "free"
  /\ UNCHANGED << life, monitor, state, co, app, proc, posix, events >>
-----------------------------------------------------------------------------
MainStep ==
  \/ \E s \in Starts : StartStep(s)
  \/ \E c \in Coroutines : GraceOver(c) \/ SettleOver(c) \/ Reaped(c)
  \/ TickBegins \/ TickReads \/ RestartResumes
  \/ Boot \/ BootSettled \/ RetryResumes
  \/ QuitResumes \/ Installs \/ InstallFails \/ Recovered
Next ==
  \/ MainStep
  \/ Retry \/ Quit \/ Update
  \/ \E p \in Starts : Boots(p) \/ Hangs(p) \/ Unhangs(p) \/ Exits(p)
  \/ ExternalLeaves

\* Timers fire, network calls answer or time out, promises wake their coroutines.
\* A backend comes up unless it fails; SIGKILL ends a process.
Fairness ==
  /\ \A s \in Starts :
       /\ WF_vars(StartStep(s)) /\ WF_vars(Boots(s))
       /\ WF_vars(proc[s] = "killed" /\ Exits(s))
  /\ \A c \in Coroutines : WF_vars(GraceOver(c) \/ SettleOver(c) \/ Reaped(c))
  /\ WF_vars(TickBegins) /\ WF_vars(TickReads) /\ WF_vars(RestartResumes)
  /\ WF_vars(Boot) /\ WF_vars(BootSettled) /\ WF_vars(RetryResumes)
  /\ WF_vars(QuitResumes \/ Installs \/ InstallFails \/ Recovered)
Spec == Init /\ [][Next]_vars /\ Fairness
-----------------------------------------------------------------------------
\* Types of the supervisor's state.
TypeOK ==
  /\ child \in Starts \union {None} /\ current \in Starts \union {None}
  /\ gen \in Nat /\ stopped \in BOOLEAN
  /\ timer \in Nat \union {None} /\ failures \in Nat /\ busy \in BOOLEAN
  /\ restarts \in 0..MaxRestarts /\ restarting \in BOOLEAN
  /\ state \in States
  /\ co \in [Coroutines -> [pc : Pcs, gen : Nat, on : Starts \union {None}]]
  /\ outcome \in {"none", "pending", "ready", "failed"}
  /\ watch \in Starts \union {None}
  /\ mode \in {"none", "ordinary", "update", "exited"}
  /\ proc \in [Starts -> Running \union {"none", "killed", "dead"}]
  /\ port \in {"free", "backend", "other"} /\ posix \in BOOLEAN
  /\ events \in 0..MaxEvents

\* A backend process that runs is the one the sidecar holds, or a stop is still
\* giving it its grace period: no start ever loses sight of a process.
Stopping(p) == \E c \in Coroutines : co[c].pc = "term" /\ co[c].on = p
NoStray == \A p \in Starts : proc[p] \in Running => child = p \/ Stopping(p)

\* The app exits, for a quit or an update, with no backend left running: the stop
\* it waited for is over, and no start, retry or restart has put one back behind
\* it.  The one exception is a process whose kill somebody else had begun (a
\* restart, a failed start): stop() does not find it and does not wait for it.
NoOrphan ==
  mode = "exited" =>
    \A p \in Starts : proc[p] \in Running =>
      \E c \in Coroutines \ {"quit", "update"} : At(c, "term") /\ co[c].on = p

\* Nothing the supervision begins stays undecided: a boot that was begun ends
\* ready or failed unless the app is told to stop; a backend under the monitor does
\* not stay dead or hung; a status of recovery does not last.
Unwell == timer # None /\ child # None /\ proc[child] \in {"dead", "hung"}
Recovering == state \in {"unhealthy", "restarting"}
Settles ==
  /\ outcome = "pending" ~> (outcome # "pending" \/ mode # "none")
  /\ Unwell ~> ~Unwell
  /\ Recovering ~> ~Recovering
=============================================================================
