--------------------------- MODULE SidecarProofs ---------------------------
(***************************************************************************)
(* Theorems about Sidecar, for any starts, thresholds and number of        *)
(* events: its types, that no backend process is lost sight of, and that   *)
(* none is left running when the app exits.                                *)
(*                                                                         *)
(* NoStray is not inductive: a spawn overwrites childProcess.  It does not *)
(* hide a process because a start that is current and still at its port    *)
(* check is the only one with its generation, and has no process beside it *)
(* (Placed); and because a stop never begins in a coroutine that is still  *)
(* in the middle of another (OneStopEach).                                 *)
(***************************************************************************)
EXTENDS Sidecar, TLAPS

CoRecord == [pc : Pcs, gen : Nat, on : Starts \union {None}]
Checking == {"port", "probe"}

Placed ==
  /\ \A s \in Starts : co[s].pc \in Checking =>
       co[s].gen <= gen /\ (co[s].gen = gen => child = None)
  /\ \A s, t \in Starts :
       co[s].pc \in Checking /\ co[t].pc \in Checking /\ co[s].gen = co[t].gen => s = t
OneStopEach ==
  /\ co["restart"].pc # "idle" => restarting
  /\ co["quit"].pc # "idle" => mode = "ordinary"
  /\ co["update"].pc # "idle" => mode = "update"
Inv == TypeOK /\ Placed /\ OneStopEach /\ NoStray

\* What a step of the processes and coroutines has to show, OneStopEach apart.
Kept ==
  /\ child \in Starts \union {None} /\ current \in Starts \union {None}
  /\ gen \in Nat /\ stopped \in BOOLEAN /\ state \in States
  /\ co \in [Coroutines -> CoRecord]
  /\ proc \in [Starts -> Running \union {"none", "killed", "dead"}]
  /\ Placed /\ NoStray

\* The types of everything else.
RestTypes ==
  /\ timer \in Nat \union {None} /\ failures \in Nat /\ busy \in BOOLEAN
  /\ restarts \in 0..MaxRestarts /\ restarting \in BOOLEAN
  /\ outcome \in {"none", "pending", "ready", "failed"}
  /\ watch \in Starts \union {None}
  /\ mode \in {"none", "ordinary", "update", "exited"}
  /\ port \in {"free", "backend", "other"} /\ posix \in BOOLEAN
  /\ events \in 0..MaxEvents

-----------------------------------------------------------------------------
\* The names are apart: starts, callers and the tick.
LEMMA Names ==
  /\ "restart" \in Coroutines /\ "retry" \in Coroutines /\ "quit" \in Coroutines
  /\ "update" \in Coroutines /\ Tick \in Coroutines /\ Starts \subseteq Coroutines
  /\ "restart" \notin Starts /\ "retry" \notin Starts /\ "quit" \notin Starts
  /\ "update" \notin Starts /\ Tick \notin Starts /\ None \notin Starts
BY SidecarAssumption DEF Coroutines, Callers, Tick

\* A coroutine that is not in a grace period moves on, to no port check.
LEMMA GotoKeeps ==
  ASSUME Inv, NEW c \in Coroutines, NEW pc \in Pcs,
         co[c].pc # "term", pc \notin {"port", "unborn"},
         pc = "probe" => co[c].pc \in Checking,
         Goto(c, pc), UNCHANGED << child, gen, proc >>,
         current' \in Starts \union {None}, stopped' \in BOOLEAN, state' \in States
  PROVE  Kept' /\ \A d \in Coroutines \ {c} : co'[d] = co[d]
<1>1. /\ co \in [Coroutines -> CoRecord]
      /\ co' = [co EXCEPT ![c].pc = pc]
  BY DEF Inv, TypeOK, Goto, CoRecord
<1>2. /\ co' \in [Coroutines -> CoRecord]
      /\ \A d \in Coroutines \ {c} : co'[d] = co[d]
      /\ co'[c].pc = pc /\ co'[c].gen = co[c].gen
  BY <1>1 DEF CoRecord
<1>3. Placed'
  BY <1>2, Names DEF Inv, Placed, Checking
<1>4. NoStray'
  BY <1>2, Names DEF Inv, NoStray, Stopping
<1> QED
  BY <1>2, <1>3, <1>4 DEF Kept, Inv, TypeOK, CoRecord

\* stop() up to its await, called by a coroutine that is not in one already.
LEMMA StopKeeps ==
  ASSUME Inv, NEW c \in Coroutines, NEW shown \in States, NEW internal \in BOOLEAN,
         NEW cos \in [Coroutines -> CoRecord],
         co[c].pc # "term",
         \A d \in Coroutines : cos[d] = co[d] \/ (d = Tick /\ cos[d].pc = "idle" /\ co[d].pc # "term"),
         Stop(c, internal, shown, cos)
  PROVE  /\ Kept' /\ timer' = None /\ failures' = 0
         /\ \A d \in Coroutines \ {c} : co'[d] = cos[d]
<1>0. /\ co \in [Coroutines -> CoRecord] /\ gen \in Nat /\ stopped \in BOOLEAN
      /\ child \in Starts \union {None}
      /\ proc \in [Starts -> Running \union {"none", "killed", "dead"}]
      /\ Placed /\ NoStray /\ posix \in BOOLEAN
  BY DEF Inv, TypeOK, CoRecord
<1>1. /\ child' = None /\ current' = None /\ gen' = gen + 1
      /\ stopped' \in BOOLEAN /\ timer' = None /\ failures' = 0
  BY DEF Stop
<1>2. PICK pc \in {"stopped", "reaped", "term", "kill"}, g \in Nat, on \in Starts \union {None} :
        /\ co' = [cos EXCEPT ![c] = [pc |-> pc, gen |-> g, on |-> on]]
        /\ \/ child = None /\ proc' = proc
           \/ child # None /\ proc[child] = "dead" /\ proc' = proc
           \/ child # None /\ proc' = proc /\ pc = "term" /\ on = child
           \/ child # None /\ proc' = [proc EXCEPT ![child] = "killed"]
  <2>1. /\ cos[c] = [pc |-> cos[c].pc, gen |-> cos[c].gen, on |-> cos[c].on]
        /\ cos[c].gen \in Nat /\ cos[c].on \in Starts \union {None}
    BY DEF CoRecord
  <2>2. CASE child = None
    <3>1. co' = [cos EXCEPT ![c] = [pc |-> "stopped", gen |-> gen + 1, on |-> cos[c].on]]
      BY <1>0, <2>1, <2>2 DEF Stop, CoRecord
    <3>2. proc' = proc
      BY <2>2 DEF Stop
    <3>3. gen + 1 \in Nat
      BY <1>0
    <3> QED BY <2>1, <2>2, <3>1, <3>2, <3>3
  <2>3. CASE child # None /\ proc[child] = "dead"
    <3>1. co' = [cos EXCEPT ![c] = [pc |-> "reaped", gen |-> cos[c].gen, on |-> child]]
      BY <1>0, <2>1, <2>3 DEF Stop, CoRecord
    <3> QED BY <1>0, <2>1, <2>3, <3>1 DEF Stop
  <2>4. CASE child # None /\ proc[child] # "dead" /\ posix
    <3>1. co' = [cos EXCEPT ![c] = [pc |-> "term", gen |-> cos[c].gen, on |-> child]]
      BY <1>0, <2>1, <2>4 DEF Stop, CoRecord
    <3> QED BY <1>0, <2>1, <2>4, <3>1 DEF Stop
  <2>5. CASE child # None /\ proc[child] # "dead" /\ ~posix
    <3>1. co' = [cos EXCEPT ![c] = [pc |-> "kill", gen |-> cos[c].gen, on |-> child]]
      BY <1>0, <2>1, <2>5 DEF Stop, CoRecord
    <3> QED BY <1>0, <2>1, <2>5, <3>1 DEF Stop
  <2> QED BY <2>2, <2>3, <2>4, <2>5
<1>3. /\ co' \in [Coroutines -> CoRecord]
      /\ \A d \in Coroutines \ {c} : co'[d] = cos[d]
      /\ co'[c].pc = pc /\ co'[c].on = on
  BY <1>2 DEF CoRecord, Pcs, Waking, Settled
<1>4. \A s \in Starts \ {c} : co'[s] = co[s]
  BY <1>3, Names
<1>5. Placed'
  BY <1>0, <1>1, <1>2, <1>3, <1>4, Names DEF Placed, Checking, CoRecord
<1>6. proc' \in [Starts -> Running \union {"none", "killed", "dead"}]
  BY <1>0, <1>2
<1>7. NoStray'
  <2> SUFFICES ASSUME NEW p \in Starts, proc'[p] \in Running
               PROVE  child' = p \/ Stopping(p)'
    BY DEF NoStray
  <2>1. proc[p] \in Running /\ (child = p => pc = "term" /\ on = p)
    BY <1>0, <1>2, Names DEF Running
  <2>2. CASE child = p
    BY <1>3, <2>1, <2>2 DEF Stopping
  <2>3. CASE child # p
    <3>1. PICK d \in Coroutines : co[d].pc = "term" /\ co[d].on = p
      BY <1>0, <2>1, <2>3 DEF NoStray, Stopping
    <3>2. co'[d] = co[d]
      BY <1>3, <3>1
    <3> QED BY <3>1, <3>2 DEF Stopping
  <2> QED BY <2>2, <2>3
<1>8. state' \in States
  BY DEF Stop, States
<1> QED
  BY <1>0, <1>1, <1>3, <1>5, <1>6, <1>7, <1>8 DEF Kept

\* A record of a coroutine with a new place and a new generation.
Renewed(h, f, x, p, g) == h = [f EXCEPT ![x].pc = p, ![x].gen = g]
LEMMA TwoFields ==
  ASSUME NEW f \in [Coroutines -> CoRecord], NEW x \in Coroutines, NEW p \in Pcs, NEW g \in Nat,
         NEW h, Renewed(h, f, x, p, g)
  PROVE  /\ h \in [Coroutines -> CoRecord]
         /\ \A d \in Coroutines \ {x} : h[d] = f[d]
         /\ h[x].pc = p /\ h[x].gen = g
BY DEF CoRecord, Renewed

\* The same for the return of a stop, and for a caller that stops or joins a start.
Ended(h, f, x, g) ==
  h = [f EXCEPT ![x].pc = "stopped", ![x].gen = g, ![x].on = None]
LEMMA EndedFields ==
  ASSUME NEW f \in [Coroutines -> CoRecord], NEW x \in Coroutines, NEW g \in Nat,
         NEW h, Ended(h, f, x, g)
  PROVE  /\ h \in [Coroutines -> CoRecord]
         /\ \A d \in Coroutines \ {x} : h[d] = f[d]
         /\ h[x].pc = "stopped"
BY DEF CoRecord, Ended, Pcs, Waking

Joined(h, f, x, p, o) == h = [f EXCEPT ![x].pc = p, ![x].on = o]
LEMMA JoinedFields ==
  ASSUME NEW f \in [Coroutines -> CoRecord], NEW x \in Coroutines, NEW p \in Pcs,
         NEW o \in Starts \union {None}, NEW h, Joined(h, f, x, p, o)
  PROVE  /\ h \in [Coroutines -> CoRecord]
         /\ \A d \in Coroutines \ {x} : h[d] = f[d]
         /\ h[x].pc = p
BY DEF CoRecord, Joined

Left(h, f, x) == h = [f EXCEPT ![x].pc = "idle"]
LEMMA LeftFields ==
  ASSUME NEW f \in [Coroutines -> CoRecord], NEW x \in Coroutines, NEW h, Left(h, f, x)
  PROVE  /\ h \in [Coroutines -> CoRecord]
         /\ \A d \in Coroutines \ {x} : h[d] = f[d]
         /\ h[x].pc = "idle"
BY DEF CoRecord, Left, Pcs

\* start(): the new start has a generation of its own, above all others.
LEMMA StartKeeps ==
  ASSUME Inv, NEW cos \in [Coroutines -> CoRecord],
         \A d \in Coroutines :
           cos[d] = co[d] \/ (d \notin Starts /\ co[d].pc # "term" /\ cos[d].pc # "term"),
         Start(cos), proc' = proc
  PROVE  /\ Kept' /\ Called \in Starts
         /\ \A d \in Coroutines \ Starts : co'[d] = cos[d]
<1>0. /\ co \in [Coroutines -> CoRecord] /\ gen \in Nat /\ stopped \in BOOLEAN
      /\ child \in Starts \union {None} /\ current \in Starts \union {None}
      /\ proc \in [Starts -> Running \union {"none", "killed", "dead"}]
      /\ Placed /\ NoStray /\ state \in States
  BY DEF Inv, TypeOK, CoRecord
<1>1. CASE current # None /\ co' = cos /\ UNCHANGED << life, state >>
  <2>1. UNCHANGED << child, current, gen, stopped, state >>
    BY <1>1 DEF life
  <2>2. \A s \in Starts : co'[s] = co[s]
    BY <1>1, Names
  <2>3. Placed'
    BY <1>0, <2>1, <2>2 DEF Placed
  <2>4. NoStray'
    BY <1>0, <1>1, <2>1 DEF NoStray, Stopping
  <2> QED
    BY <1>0, <1>1, <2>1, <2>3, <2>4 DEF Kept, Called
<1>2. CASE /\ current = None /\ \E s \in Starts : co[s].pc = "unborn"
           /\ stopped' = FALSE /\ gen' = gen + 1 /\ current' = Fresh
           /\ co' = [cos EXCEPT ![Fresh].pc = IF child = None THEN "port" ELSE "wait",
                                ![Fresh].gen = gen + 1]
           /\ state' = IF child = None THEN "starting" ELSE state
           /\ UNCHANGED child
  <2>1. Fresh \in Starts /\ co[Fresh].pc = "unborn"
    BY <1>2 DEF Fresh
  <2> DEFINE new == Fresh
  <2> HIDE DEF new
  <2>2. new \in Starts /\ new \in Coroutines /\ co[new].pc = "unborn"
    BY <2>1, Names DEF new
  <2> DEFINE place == IF child = None THEN "port" ELSE "wait"
  <2>3. Renewed(co', cos, new, place, gen + 1)
    BY <1>2 DEF new, Renewed
  <2> HIDE DEF place
  <2>a. place \in {"port", "wait"} /\ (place = "port" <=> child = None)
    BY DEF place
  <2>4. /\ co' \in [Coroutines -> CoRecord]
        /\ \A d \in Coroutines \ {new} : co'[d] = cos[d]
        /\ co'[new].pc = place /\ co'[new].gen = gen + 1
    <3>1. gen + 1 \in Nat /\ place \in Pcs
      BY <1>0, <2>a DEF Pcs
    <3> QED
      BY <2>2, <2>3, <3>1, TwoFields
  <2>5. \A s \in Starts \ {new} : co'[s] = co[s]
    BY <2>4, Names
  <2>6. \A s \in Starts \ {new} : co[s].pc \in Checking => co[s].gen <= gen /\ co[s].gen \in Nat
    BY <1>0, Names DEF Placed, CoRecord
  <2>7. gen' = gen + 1 /\ child' = child
    BY <1>2
  <2>8. Placed'
    BY <1>0, <2>2, <2>4, <2>5, <2>6, <2>7, <2>a DEF Placed, Checking
  <2>9. NoStray'
    <3> SUFFICES ASSUME NEW p \in Starts, proc'[p] \in Running, child # p
                 PROVE  Stopping(p)'
      BY <2>7 DEF NoStray
    <3>1. PICK d \in Coroutines : co[d].pc = "term" /\ co[d].on = p
      BY <1>0 DEF NoStray, Stopping
    <3>2. co'[d] = co[d]
      BY <2>2, <2>4, <3>1
    <3> QED BY <3>1, <3>2 DEF Stopping
  <2> QED
    <3>1. current' \in Starts /\ Called \in Starts
      BY <1>2, <2>1 DEF Called
    <3>2. stopped' = FALSE /\ (state' = state \/ state' = "starting")
      BY <1>2
    <3>a. state' \in States /\ gen' \in Nat
      BY <1>0, <2>7, <3>2 DEF States
    <3>b. stopped' \in BOOLEAN
      BY <3>2
    <3>3. \A d \in Coroutines \ Starts : co'[d] = cos[d]
      BY <2>2, <2>4
    <3> QED
      BY <1>0, <2>4, <2>7, <2>8, <2>9, <3>1, <3>a, <3>b, <3>3 DEF Kept
<1> QED
  BY <1>1, <1>2 DEF Start

-----------------------------------------------------------------------------
(* The invariant, one lemma for the steps of a kind.                         *)

LEMMA InvParts == Inv => Kept /\ RestTypes /\ OneStopEach
BY DEF Inv, TypeOK, Kept, RestTypes, CoRecord

LEMMA PartsInv == Kept' /\ RestTypes' /\ OneStopEach' => Inv'
BY DEF Inv, TypeOK, Kept, RestTypes, CoRecord

LEMMA InitInv == Init => Inv
<1> SUFFICES ASSUME Init PROVE Inv
  OBVIOUS
<1>1. /\ co \in [Coroutines -> CoRecord]
      /\ \A c \in Coroutines : co[c].pc \in {"unborn", "idle"}
      /\ \A c \in {"restart", "quit", "update"} : co[c].pc = "idle"
  BY Names DEF Init, CoRecord, Pcs
<1>2. /\ child = None /\ current = None /\ gen = 0 /\ state = "stopped" /\ stopped = TRUE
      /\ proc = [p \in Starts |-> "none"]
  BY DEF Init
<1>3. RestTypes
  <2>1. busy \in BOOLEAN /\ restarting \in BOOLEAN /\ posix \in BOOLEAN
    BY DEF Init
  <2>2. /\ timer = None /\ failures = 0 /\ restarts = 0 /\ outcome = "none" /\ watch = None
        /\ mode = "none" /\ port \in {"free", "backend", "other"} /\ events = 0
    BY DEF Init
  <2>3. 0 \in 0..MaxRestarts /\ 0 \in 0..MaxEvents
    BY SidecarAssumption
  <2> QED
    BY <2>1, <2>2, <2>3 DEF RestTypes
<1>4. Placed
  BY <1>1, Names DEF Placed, Checking
<1>5. OneStopEach
  BY <1>1 DEF OneStopEach
<1>6. NoStray
  BY <1>2 DEF NoStray, Running
<1>7. stopped \in BOOLEAN
  BY <1>2
<1> QED
  BY <1>1, <1>2, <1>3, <1>4, <1>5, <1>6, <1>7 DEF Inv, TypeOK, RestTypes, CoRecord, States

\* A fault is counted, or nothing is.
LEMMA Counted == ASSUME RestTypes, Fault \/ UNCHANGED events PROVE events' \in 0..MaxEvents
BY SidecarAssumption DEF RestTypes, Fault

\* The steps of start() that only move it.
LEMMA StartMoves ==
  ASSUME Inv, NEW s \in Starts,
         HealthSeen(s) \/ FailedStartStopped(s) \/ VersionAnswered(s) \/ Handshake(s) \/ Probed(s)
  PROVE  Inv'
<1>0. Kept /\ RestTypes /\ OneStopEach /\ s \in Coroutines
  BY InvParts, Names
<1>1. PICK pc \in {"version", "null", "failed", "body", "ready", "external"} :
        co[s].pc \in {"wait", "stopped", "version", "body", "probe"} /\ Goto(s, pc)
  BY DEF HealthSeen, FailedStartStopped, VersionAnswered, Handshake, Probed, At
<1>2. /\ UNCHANGED << child, gen, stopped, proc >>
      /\ current' \in {current, None}
      /\ state' \in {state, "ready", "version_mismatch", "external", "error"}
  BY DEF HealthSeen, FailedStartStopped, VersionAnswered, Handshake, Probed, life, world
<1>3. current' \in Starts \union {None} /\ state' \in States /\ stopped' \in BOOLEAN
  BY <1>0, <1>2 DEF Kept, States
<1>4. Kept' /\ \A d \in Coroutines \ {s} : co'[d] = co[d]
  BY <1>0, <1>1, <1>2, <1>3, GotoKeeps DEF Pcs, Waking, Settled, Checking
<1>5. RestTypes'
  <2>1. /\ UNCHANGED << busy, restarts, restarting, outcome, watch, mode, port, posix, events >>
        /\ timer' \in {timer, gen} /\ failures' \in {failures, 0}
    BY DEF HealthSeen, FailedStartStopped, VersionAnswered, Handshake, Probed, monitor, app,
           world, outside
  <2> QED
    BY <1>0, <2>1 DEF RestTypes, Kept
<1>6. OneStopEach'
  <2>1. UNCHANGED << restarting, mode >>
    BY DEF HealthSeen, FailedStartStopped, VersionAnswered, Handshake, Probed, monitor, app
  <2> QED
    BY <1>0, <1>4, <2>1, Names DEF OneStopEach
<1> QED
  BY <1>4, <1>5, <1>6, PartsInv

\* The port check: only a current start spawns, and it finds no process to hide.
LEMMA PortInv ==
  ASSUME Inv, NEW s \in Starts, PortChecked(s) PROVE Inv'
<1>0. Kept /\ RestTypes /\ OneStopEach /\ s \in Coroutines /\ co[s].pc = "port"
  BY InvParts, Names DEF PortChecked, At
<1>1. UNCHANGED << busy, restarts, restarting, outcome, watch, mode, port, posix >>
  BY DEF PortChecked, app, outside
<1>2. CASE \E pc \in {"null", "probe", "failed"} :
             End(s, pc) /\ (Fault \/ UNCHANGED events)
  <2>1. PICK pc \in {"null", "probe", "failed"} : End(s, pc) /\ (Fault \/ UNCHANGED events)
    BY <1>2
  <2>2. Goto(s, pc) /\ UNCHANGED << child, current, gen, stopped, state, timer, failures, proc >>
    BY <2>1 DEF End, life
  <2>3. Kept' /\ \A d \in Coroutines \ {s} : co'[d] = co[d]
    BY <1>0, <2>2, GotoKeeps DEF Pcs, Settled, Checking, Kept
  <2>4. RestTypes'
    BY <1>0, <1>1, <2>1, <2>2, Counted DEF RestTypes
  <2>5. OneStopEach'
    BY <1>0, <1>1, <2>3, Names DEF OneStopEach
  <2> QED
    BY <2>3, <2>4, <2>5, PartsInv
<1>3. CASE Current(s) /\ Spawn(s)
  <2>1. /\ child' = s /\ proc' = [proc EXCEPT ![s] = "boot"] /\ state' = "starting"
        /\ co' = [co EXCEPT ![s].pc = "wait"]
        /\ UNCHANGED << current, gen, stopped, timer, failures, events >>
    BY <1>3 DEF Spawn, Goto
  <2>2. /\ co' \in [Coroutines -> CoRecord]
        /\ \A d \in Coroutines \ {s} : co'[d] = co[d]
        /\ co'[s].pc = "wait"
    BY <1>0, <2>1 DEF Kept, CoRecord, Pcs
  <2>3. child = None /\ gen = co[s].gen
    BY <1>0, <1>3 DEF Kept, Placed, Current, Checking
  <2>4. Placed'
    BY <1>0, <2>1, <2>2, <2>3, Names DEF Kept, Placed, Checking
  <2>5. NoStray'
    <3> SUFFICES ASSUME NEW p \in Starts, p # s, proc'[p] \in Running PROVE Stopping(p)'
      BY <2>1 DEF NoStray
    <3>1. PICK d \in Coroutines : co[d].pc = "term" /\ co[d].on = p
      BY <1>0, <2>1, <2>3, Names DEF Kept, NoStray, Stopping
    <3> QED
      BY <1>0, <2>2, <3>1 DEF Stopping
  <2>6. proc' \in [Starts -> Running \union {"none", "killed", "dead"}]
    BY <1>0, <2>1 DEF Kept, Running
  <2>7. Kept'
    BY <1>0, <2>1, <2>2, <2>4, <2>5, <2>6 DEF Kept, States
  <2>8. RestTypes'
    BY <1>0, <1>1, <2>1 DEF RestTypes
  <2>9. OneStopEach'
    BY <1>0, <1>1, <2>2, Names DEF OneStopEach
  <2> QED
    BY <2>7, <2>8, <2>9, PartsInv
<1> QED
  BY <1>2, <1>3 DEF PortChecked

\* A start whose wait failed: it stops what it started, or leaves it.
LEMMA WaitInv ==
  ASSUME Inv, NEW s \in Starts, WaitFails(s) PROVE Inv'
<1>0. /\ Kept /\ RestTypes /\ OneStopEach /\ s \in Coroutines
      /\ co[s].pc \in {"wait", "rejected"}
  BY InvParts, Names DEF WaitFails, At
<1>1. UNCHANGED << busy, restarts, restarting, outcome, watch, mode, port, posix, events >>
  BY DEF WaitFails, app, outside
<1>2. /\ Kept' /\ \A d \in Coroutines \ {s} : co'[d] = co[d]
      /\ timer' \in {timer, None} /\ failures' \in {failures, 0}
  <2>1. CASE Stop(s, FALSE, state, co)
    <3>1. co \in [Coroutines -> CoRecord] /\ state \in States /\ FALSE \in BOOLEAN
      BY <1>0 DEF Kept
    <3> QED
      BY <1>0, <2>1, <3>1, StopKeeps
  <2>2. CASE End(s, "failed")
    <3>1. Goto(s, "failed") /\ UNCHANGED << child, current, gen, stopped, state, timer, failures, proc >>
      BY <2>2 DEF End, life
    <3> QED
      BY <1>0, <3>1, GotoKeeps DEF Pcs, Settled, Checking, Kept
  <2> QED
    BY <2>1, <2>2 DEF WaitFails
<1>3. RestTypes'
  BY <1>0, <1>1, <1>2 DEF RestTypes
<1>4. OneStopEach'
  BY <1>0, <1>1, <1>2, Names DEF OneStopEach
<1> QED
  BY <1>2, <1>3, <1>4, PartsInv

\* A coroutine gets a place that is no port check, and keeps or changes the rest.
LEMMA MoveKeeps ==
  ASSUME Inv, NEW c \in Coroutines, co[c].pc # "term",
         co' \in [Coroutines -> CoRecord], \A d \in Coroutines \ {c} : co'[d] = co[d],
         co'[c].pc \notin Checking,
         UNCHANGED << child, current, gen, stopped, proc >>, state' \in States
  PROVE  Kept'
<1>0. Kept
  BY InvParts
<1>1. Placed'
  BY <1>0, Names DEF Kept, Placed, Checking
<1>2. NoStray'
  BY <1>0 DEF Kept, NoStray, Stopping
<1> QED
  BY <1>0, <1>1, <1>2 DEF Kept

\* The kill: its grace period, its settle window, stop()'s return.
LEMMA KillInv ==
  ASSUME Inv, NEW c \in Coroutines, GraceOver(c) \/ SettleOver(c) \/ Reaped(c) PROVE Inv'
<1>0. Kept /\ RestTypes /\ OneStopEach
  BY InvParts
<1>1. /\ UNCHANGED << child, current, gen, stopped, timer, failures, busy, restarts, restarting >>
      /\ UNCHANGED << outcome, watch, mode, port, posix, events >>
  BY DEF GraceOver, SettleOver, Reaped, life, monitor, app, world, outside
<1>2. CASE GraceOver(c)
  <2>1. /\ co[c].pc = "term" /\ proc' = [proc EXCEPT ![co[c].on] = "killed"]
        /\ co' = [co EXCEPT ![c].pc = "kill"] /\ state' = state
    BY <1>2 DEF GraceOver, At, Goto
  <2>2. /\ co' \in [Coroutines -> CoRecord]
        /\ \A d \in Coroutines \ {c} : co'[d] = co[d]
        /\ co'[c].pc = "kill"
    BY <1>0, <2>1 DEF Kept, CoRecord, Pcs
  <2>3. Placed'
    BY <1>0, <1>1, <2>1, <2>2, Names DEF Kept, Placed, Checking
  <2>4. proc' \in [Starts -> Running \union {"none", "killed", "dead"}]
    BY <1>0, <2>1 DEF Kept
  <2>5. NoStray'
    BY <1>0, <1>1, <2>1, <2>2 DEF Kept, NoStray, Stopping, Running
  <2>6. Kept'
    BY <1>0, <1>1, <2>1, <2>2, <2>3, <2>4, <2>5 DEF Kept
  <2>7. OneStopEach'
    BY <1>0, <1>1, <2>1, <2>2, Names DEF OneStopEach
  <2> QED
    BY <1>0, <1>1, <2>6, <2>7, PartsInv DEF RestTypes
<1>3. CASE SettleOver(c)
  <2>1. /\ co[c].pc = "kill" /\ Goto(c, "reaped") /\ UNCHANGED << state, proc >>
    BY <1>3 DEF SettleOver, At, world
  <2>2. Kept' /\ \A d \in Coroutines \ {c} : co'[d] = co[d]
    BY <1>0, <1>1, <2>1, GotoKeeps DEF Pcs, Waking, Kept
  <2>3. OneStopEach'
    BY <1>0, <1>1, <2>1, <2>2, Names DEF OneStopEach
  <2> QED
    BY <1>0, <1>1, <2>2, <2>3, PartsInv DEF RestTypes
<1>4. CASE Reaped(c)
  <2>1. /\ co[c].pc = "reaped" /\ state' = "stopped" /\ proc' = proc
        /\ Ended(co', co, c, gen)
    BY <1>4 DEF Reaped, At, world, Ended
  <2>2. /\ co' \in [Coroutines -> CoRecord]
        /\ \A d \in Coroutines \ {c} : co'[d] = co[d]
        /\ co'[c].pc = "stopped"
    BY <1>0, <2>1, EndedFields DEF Kept
  <2>3. Kept'
    BY <1>0, <1>1, <2>1, <2>2, MoveKeeps DEF Checking, States
  <2>4. OneStopEach'
    BY <1>0, <1>1, <2>1, <2>2, Names DEF OneStopEach
  <2> QED
    BY <1>0, <1>1, <2>3, <2>4, PartsInv DEF RestTypes
<1> QED
  BY <1>2, <1>3, <1>4

\* The monitor.
LEMMA TickBeginsInv == ASSUME Inv, TickBegins PROVE Inv'
<1>0. Kept /\ RestTypes /\ OneStopEach
  BY InvParts
<1>1. /\ UNCHANGED << child, current, gen, stopped, state, proc >>
      /\ UNCHANGED << timer, failures, busy, restarts, restarting >>
      /\ UNCHANGED << outcome, watch, mode, port, posix, events >>
  BY DEF TickBegins, life, monitor, app, world, outside
<1>2. co[Tick].pc = "idle" /\ timer \in Nat /\ Renewed(co', co, Tick, "read", timer)
  BY <1>0 DEF TickBegins, At, RestTypes, Renewed
<1>3. /\ co' \in [Coroutines -> CoRecord]
      /\ \A d \in Coroutines \ {Tick} : co'[d] = co[d]
      /\ co'[Tick].pc = "read"
  <2>1. "read" \in Pcs /\ co \in [Coroutines -> CoRecord]
    BY <1>0 DEF Kept, Pcs
  <2> QED
    BY <1>2, <2>1, TwoFields, Names
<1>4. Kept'
  BY <1>0, <1>1, <1>2, <1>3, MoveKeeps, Names DEF Checking, Kept
<1>5. OneStopEach'
  BY <1>0, <1>1, <1>3, Names DEF OneStopEach, Tick
<1> QED
  BY <1>0, <1>1, <1>4, <1>5, PartsInv DEF RestTypes

\* The tick ends, and nothing else of the life cycle changes.
LEMMA TickEnds ==
  ASSUME Inv, co[Tick].pc = "read", Left(co', co, Tick), UNCHANGED << life, proc >>,
         state' \in States
  PROVE  Kept' /\ \A d \in Coroutines \ {Tick} : co'[d] = co[d]
<1>1. Kept /\ UNCHANGED << child, current, gen, stopped, proc >>
  BY InvParts DEF life
<1>2. /\ co' \in [Coroutines -> CoRecord]
      /\ \A d \in Coroutines \ {Tick} : co'[d] = co[d]
      /\ co'[Tick].pc = "idle"
  BY <1>1, LeftFields, Names DEF Kept
<1> QED
  BY <1>1, <1>2, MoveKeeps, Names DEF Checking

LEMMA RestartInv ==
  ASSUME Inv, co[Tick].pc = "read",
         NEW cos, Left(cos, co, Tick), Restart(cos), busy' = busy,
         UNCHANGED << app, outside, events >>
  PROVE  Inv'
<1>0. Kept /\ RestTypes /\ OneStopEach
  BY InvParts
<1>1. UNCHANGED << outcome, watch, mode, port, posix, events >>
  BY DEF app, outside
<1>2. /\ cos \in [Coroutines -> CoRecord]
      /\ \A d \in Coroutines \ {Tick} : cos[d] = co[d]
      /\ cos[Tick].pc = "idle"
  BY <1>0, LeftFields, Names DEF Kept
<1>3. ASSUME co' = cos, UNCHANGED << life, proc >>, state' \in States, restarting' = restarting,
             timer' \in {timer, None}, failures' \in {failures + 1, 0}, restarts' \in 0..MaxRestarts
      PROVE  Inv'
  <2>1. Kept' /\ \A d \in Coroutines \ {Tick} : co'[d] = co[d]
    BY <1>3, TickEnds
  <2>2. RestTypes'
    BY <1>0, <1>1, <1>3 DEF RestTypes
  <2>3. OneStopEach'
    BY <1>0, <1>1, <1>3, <2>1, Names DEF OneStopEach, Tick
  <2> QED
    BY <2>1, <2>2, <2>3, PartsInv
<1>4. CASE restarting /\ failures' = failures + 1 /\ state' = "unhealthy" /\ co' = cos
           /\ UNCHANGED << life, proc, timer, restarts, restarting >>
  BY <1>0, <1>3, <1>4 DEF States, RestTypes
<1>5. ASSUME ~restarting, NEW count \in {restarts, 0},
             count < MaxRestarts, restarts' = count + 1, restarting' = TRUE,
             Stop("restart", TRUE, "restarting", cos)
      PROVE  Inv'
  <2>1. co["restart"].pc = "idle"
    BY <1>0, <1>5 DEF OneStopEach
  <2>2. "restarting" \in States /\ TRUE \in BOOLEAN
    BY DEF States
  <2>3. /\ Kept' /\ timer' = None /\ failures' = 0
        /\ \A d \in Coroutines \ {"restart"} : co'[d] = cos[d]
    <3>1. \A d \in Coroutines :
            cos[d] = co[d] \/ (d = Tick /\ cos[d].pc = "idle" /\ co[d].pc # "term")
      BY <1>2
    <3>2. "restart" \in Coroutines /\ co["restart"].pc # "term"
      BY <2>1, Names
    <3> QED
      BY <1>2, <1>5, <2>2, <3>1, <3>2, StopKeeps
  <2>4. restarting' \in BOOLEAN
    BY <1>5
  <2>5. RestTypes'
    BY <1>0, <1>1, <1>5, <2>3, <2>4, SidecarAssumption DEF RestTypes
  <2>6. OneStopEach'
    BY <1>0, <1>1, <1>2, <1>5, <2>3, Names DEF OneStopEach, Tick
  <2> QED
    BY <2>3, <2>5, <2>6, PartsInv
<1>6. ASSUME NEW count \in {restarts, 0}, restarts' = count, timer' = None, failures' = 0,
             state' = "crashed", co' = cos, UNCHANGED << life, proc, restarting >>
      PROVE  Inv'
  BY <1>0, <1>3, <1>6, SidecarAssumption DEF States, RestTypes
<1> QED
  BY <1>4, <1>5, <1>6 DEF Restart

LEMMA TickReadsInv == ASSUME Inv, TickReads PROVE Inv'
<1>0. Kept /\ RestTypes /\ OneStopEach /\ co[Tick].pc = "read"
  BY InvParts DEF TickReads, At
<1>1. UNCHANGED << app, outside, events >> /\ (TickStale \/ TickHealthy \/ TickMissed)
  BY DEF TickReads
<1>2. ASSUME Left(co', co, Tick), UNCHANGED << life, proc, timer, restarts, restarting >>,
             state' \in States, failures' \in Nat, busy' \in BOOLEAN
      PROVE  Inv'
  <2>1. Kept' /\ \A d \in Coroutines \ {Tick} : co'[d] = co[d]
    BY <1>0, <1>2, TickEnds
  <2>2. RestTypes'
    BY <1>0, <1>1, <1>2 DEF RestTypes, app, outside
  <2>3. OneStopEach'
    BY <1>0, <1>1, <1>2, <2>1, Names DEF OneStopEach, Tick, app
  <2> QED
    BY <2>1, <2>2, <2>3, PartsInv
<1>3. CASE TickStale
  <2>1. Left(co', co, Tick) /\ UNCHANGED << life, proc, timer, restarts, restarting, state, failures, busy >>
    BY <1>3 DEF TickStale, Goto, Left, monitor
  <2>2. state' \in States /\ failures' \in Nat
    BY <1>0, <2>1 DEF Kept, RestTypes
  <2>3. busy' \in BOOLEAN
    BY <1>0, <2>1 DEF RestTypes
  <2> QED
    BY <1>2, <2>1, <2>2, <2>3
<1>4. CASE TickHealthy
  <2>1. /\ Left(co', co, Tick) /\ UNCHANGED << life, proc, timer, restarts, restarting >>
        /\ failures' = 0 /\ state' \in {state, "ready"}
    BY <1>4 DEF TickHealthy, Goto, Left
  <2>2. state' \in States /\ failures' \in Nat
    BY <1>0, <2>1 DEF Kept, States
  <2>3. busy' \in BOOLEAN
    BY <1>4 DEF TickHealthy
  <2> QED
    BY <1>2, <2>1, <2>2, <2>3
<1>5. CASE TickMissed
  <2> DEFINE cos == [co EXCEPT ![Tick].pc = "idle"]
  <2>1. Left(cos, co, Tick) /\ busy' = busy
    BY <1>5 DEF TickMissed, Left
  <2>2. CASE Restart(cos)
    <3> HIDE DEF cos
    <3> QED
      BY <1>0, <1>1, <2>1, <2>2, RestartInv
  <2>3. CASE /\ failures' = failures + 1 /\ co' = cos
             /\ state' = IF failures + 1 = UnhealthyAfter THEN "unhealthy" ELSE state
             /\ UNCHANGED << life, timer, restarts, restarting, proc >>
    <3>1. state' \in {state, "unhealthy"}
      BY <2>3
    <3>2. state' \in States /\ failures' \in Nat
      BY <1>0, <2>3, <3>1 DEF Kept, RestTypes, States
    <3>3. busy' \in BOOLEAN
      BY <1>0, <2>1 DEF RestTypes
    <3>4. Left(co', co, Tick)
      BY <2>3 DEF Left
    <3> QED
      BY <1>2, <2>3, <3>2, <3>3, <3>4
  <2> QED
    BY <1>5, <2>2, <2>3 DEF TickMissed
<1> QED
  BY <1>1, <1>3, <1>4, <1>5

\* The restart comes back from its stop.
LEMMA ResumeInv == ASSUME Inv, RestartResumes PROVE Inv'
<1>0. Kept /\ RestTypes /\ OneStopEach /\ co["restart"].pc = "stopped"
  BY InvParts DEF RestartResumes, At
<1> DEFINE cos == [co EXCEPT !["restart"].pc = "idle"]
<1>1. /\ Left(cos, co, "restart") /\ restarting' = FALSE
      /\ UNCHANGED << timer, failures, busy, restarts, app, world, events >>
      /\ Start(cos) \/ (co' = cos /\ UNCHANGED << life, state >>)
  BY DEF RestartResumes, Left
<1> HIDE DEF cos
<1>2. /\ cos \in [Coroutines -> CoRecord]
      /\ \A d \in Coroutines \ {"restart"} : cos[d] = co[d]
      /\ cos["restart"].pc = "idle"
  BY <1>0, <1>1, LeftFields, Names DEF Kept
<1>3. proc' = proc /\ UNCHANGED << outcome, watch, mode, port, posix >>
  BY <1>1 DEF app, world, outside
<1>4. Kept' /\ \A d \in Coroutines \ Starts : co'[d] = cos[d]
  <2>1. CASE Start(cos)
    <3>1. \A d \in Coroutines :
            cos[d] = co[d] \/ (d \notin Starts /\ co[d].pc # "term" /\ cos[d].pc # "term")
      BY <1>0, <1>2, Names
    <3> QED
      BY <1>2, <1>3, <2>1, <3>1, StartKeeps
  <2>2. CASE co' = cos /\ UNCHANGED << life, state >>
    <3>1. UNCHANGED << child, current, gen, stopped, proc >> /\ state' \in States
      BY <1>0, <1>3, <2>2 DEF life, Kept
    <3> QED
      BY <1>0, <1>2, <2>2, <3>1, MoveKeeps, Names DEF Checking
  <2> QED
    BY <1>1, <2>1, <2>2
<1>5. restarting' \in BOOLEAN
  BY <1>1
<1>6. RestTypes'
  BY <1>0, <1>1, <1>3, <1>5 DEF RestTypes
<1>7. OneStopEach'
  BY <1>0, <1>2, <1>3, <1>4, Names DEF OneStopEach
<1> QED
  BY <1>4, <1>6, <1>7, PartsInv

-----------------------------------------------------------------------------
\* A boot begins, from nothing or from a retry that has stopped what there was.
LEMMA BootInv ==
  ASSUME Inv, NEW cos, StartBackendBoot(cos),
         cos = co \/ (co["retry"].pc = "stopped" /\ Left(cos, co, "retry"))
  PROVE  Inv'
<1>0. Kept /\ RestTypes /\ OneStopEach
  BY InvParts
<1>1. /\ Start(cos) /\ outcome' = "pending" /\ watch' = Called /\ proc' = proc
      /\ UNCHANGED << timer, failures, busy, restarts, restarting, mode, port, posix, events >>
  BY DEF StartBackendBoot, monitor, world, outside
<1>2. /\ cos \in [Coroutines -> CoRecord]
      /\ \A d \in Coroutines \ {"retry"} : cos[d] = co[d]
      /\ cos = co \/ (co["retry"].pc = "stopped" /\ cos["retry"].pc = "idle")
  BY <1>0, LeftFields, Names DEF Kept
<1>3. \A d \in Coroutines :
        cos[d] = co[d] \/ (d \notin Starts /\ co[d].pc # "term" /\ cos[d].pc # "term")
  BY <1>2, Names
<1>4. Kept' /\ Called \in Starts /\ \A d \in Coroutines \ Starts : co'[d] = cos[d]
  BY <1>1, <1>2, <1>3, StartKeeps
<1>5. RestTypes'
  BY <1>0, <1>1, <1>4 DEF RestTypes
<1>6. OneStopEach'
  BY <1>0, <1>1, <1>2, <1>4, Names DEF OneStopEach
<1> QED
  BY <1>4, <1>5, <1>6, PartsInv

\* Retry, quit and update stop the sidecar, each in a coroutine that was idle.
LEMMA StoppersInv ==
  ASSUME Inv, Retry \/ Quit \/ Update PROVE Inv'
<1>0. Kept /\ RestTypes /\ OneStopEach
  BY InvParts
<1>1. ASSUME NEW c \in {"retry", "quit", "update"}, co[c].pc = "idle", Stop(c, FALSE, state, co)
      PROVE  /\ Kept' /\ timer' = None /\ failures' = 0
             /\ \A d \in Coroutines \ {c} : co'[d] = co[d]
  <2>1. co \in [Coroutines -> CoRecord] /\ state \in States /\ FALSE \in BOOLEAN
    BY <1>0 DEF Kept
  <2>2. c \in Coroutines
    BY Names
  <2> QED
    BY <1>1, <2>1, <2>2, StopKeeps
<1>2. /\ UNCHANGED << busy, restarts, restarting, outcome, port, posix >>
      /\ watch' = None /\ (Fault \/ UNCHANGED events)
  BY DEF Retry, Quit, Update, outside
<1>3. events' \in 0..MaxEvents
  BY <1>0, <1>2, Counted
<1>4. CASE Retry
  <2>1. co["retry"].pc = "idle" /\ Stop("retry", FALSE, state, co) /\ mode' = mode
    BY <1>4 DEF Retry, At
  <2>2. /\ Kept' /\ timer' = None /\ failures' = 0
        /\ \A d \in Coroutines \ {"retry"} : co'[d] = co[d]
    BY <1>1, <2>1
  <2>3. RestTypes'
    BY <1>0, <1>2, <1>3, <2>1, <2>2 DEF RestTypes
  <2>4. OneStopEach'
    BY <1>0, <1>2, <2>1, <2>2, Names DEF OneStopEach
  <2> QED
    BY <2>2, <2>3, <2>4, PartsInv
<1>5. CASE Quit
  <2>1. mode = "none" /\ Stop("quit", FALSE, state, co) /\ mode' = "ordinary"
    BY <1>5 DEF Quit
  <2>2. co["quit"].pc = "idle" /\ co["update"].pc = "idle"
    BY <1>0, <2>1 DEF OneStopEach
  <2>3. /\ Kept' /\ timer' = None /\ failures' = 0
        /\ \A d \in Coroutines \ {"quit"} : co'[d] = co[d]
    BY <1>1, <2>1, <2>2
  <2>4. RestTypes'
    BY <1>0, <1>2, <1>3, <2>1, <2>3 DEF RestTypes
  <2>5. OneStopEach'
    BY <1>0, <1>2, <2>1, <2>2, <2>3, Names DEF OneStopEach
  <2> QED
    BY <2>3, <2>4, <2>5, PartsInv
<1>6. CASE Update
  <2>1. mode = "none" /\ Stop("update", FALSE, state, co) /\ mode' = "update"
    BY <1>6 DEF Update
  <2>2. co["quit"].pc = "idle" /\ co["update"].pc = "idle"
    BY <1>0, <2>1 DEF OneStopEach
  <2>3. /\ Kept' /\ timer' = None /\ failures' = 0
        /\ \A d \in Coroutines \ {"update"} : co'[d] = co[d]
    BY <1>1, <2>1, <2>2
  <2>4. RestTypes'
    BY <1>0, <1>2, <1>3, <2>1, <2>3 DEF RestTypes
  <2>5. OneStopEach'
    BY <1>0, <1>2, <2>1, <2>2, <2>3, Names DEF OneStopEach
  <2> QED
    BY <2>3, <2>4, <2>5, PartsInv
<1> QED
  BY <1>4, <1>5, <1>6

\* The app's other steps.
LEMMA AppInv ==
  ASSUME Inv, BootSettled \/ QuitResumes \/ Installs \/ InstallFails \/ Recovered PROVE Inv'
<1>0. Kept /\ RestTypes /\ OneStopEach /\ state \in States
  BY InvParts DEF Kept
<1>1. /\ UNCHANGED << timer, failures, busy, restarts, restarting, proc, port, posix, events >>
      /\ outcome' \in {outcome, "failed", "ready"} /\ watch' \in {watch, None}
  BY DEF BootSettled, QuitResumes, Installs, InstallFails, Recovered, monitor, world, outside, app
<1>2. ASSUME mode' \in {"none", "ordinary", "update", "exited"} PROVE RestTypes'
  BY <1>0, <1>1, <1>2 DEF RestTypes
<1>3. CASE BootSettled
  <2>1. UNCHANGED << child, current, gen, stopped, co, mode, state >>
    BY <1>3 DEF BootSettled, life
  <2>2. Kept'
    BY <1>0, <1>1, <2>1 DEF Kept, Placed, NoStray, Stopping
  <2>3. OneStopEach'
    BY <1>0, <1>1, <2>1 DEF OneStopEach
  <2> QED
    BY <1>0, <1>2, <2>1, <2>2, <2>3, PartsInv DEF RestTypes
<1>4. ASSUME NEW c \in {"quit", "update"}, co[c].pc = "stopped", Goto(c, "idle"),
             UNCHANGED << life, state >>, mode' = "exited"
      PROVE  Inv'
  <2>1. Left(co', co, c) /\ UNCHANGED << child, current, gen, stopped, state, proc >>
    BY <1>1, <1>4 DEF Goto, Left, life
  <2>2. c \in Coroutines
    BY Names
  <2>3. /\ co' \in [Coroutines -> CoRecord]
        /\ \A d \in Coroutines \ {c} : co'[d] = co[d]
        /\ co'[c].pc = "idle"
    BY <1>0, <2>1, <2>2, LeftFields DEF Kept
  <2>4. Kept'
    BY <1>0, <1>4, <2>1, <2>2, <2>3, MoveKeeps DEF Checking
  <2>5. mode = (IF c = "quit" THEN "ordinary" ELSE "update")
    BY <1>0, <1>4 DEF OneStopEach
  <2>6. OneStopEach'
    BY <1>0, <1>1, <2>3, <2>5, Names DEF OneStopEach
  <2> QED
    BY <1>2, <1>4, <2>4, <2>6, PartsInv
<1>5. CASE QuitResumes
  BY <1>4, <1>5 DEF QuitResumes, At
<1>6. CASE Installs
  BY <1>4, <1>6 DEF Installs, At
<1>7. CASE InstallFails
  <2> DEFINE cos == [co EXCEPT !["update"].pc = "recover", !["update"].on = Called]
  <2>1. /\ co["update"].pc = "stopped" /\ Start(cos) /\ mode' = mode
        /\ Joined(cos, co, "update", "recover", Called)
    BY <1>7 DEF InstallFails, At, app, Joined
  <2> HIDE DEF cos
  <2>2. Called \in Starts
    BY <1>0, <2>1 DEF Start, Called, Fresh, Kept
  <2>3. "recover" \in Pcs /\ co \in [Coroutines -> CoRecord]
    BY <1>0 DEF Kept, Pcs
  <2>4. /\ cos \in [Coroutines -> CoRecord]
        /\ \A d \in Coroutines \ {"update"} : cos[d] = co[d]
        /\ cos["update"].pc = "recover"
    BY <2>1, <2>2, <2>3, JoinedFields, Names
  <2>5. \A d \in Coroutines :
          cos[d] = co[d] \/ (d \notin Starts /\ co[d].pc # "term" /\ cos[d].pc # "term")
    BY <2>1, <2>4, Names
  <2>6. Kept' /\ \A d \in Coroutines \ Starts : co'[d] = cos[d]
    BY <1>1, <2>1, <2>4, <2>5, StartKeeps
  <2>7. OneStopEach'
    BY <1>0, <1>1, <2>1, <2>4, <2>6, Names DEF OneStopEach
  <2> QED
    BY <1>0, <1>2, <2>1, <2>6, <2>7, PartsInv DEF RestTypes
<1>8. CASE Recovered
  <2>1. /\ co["update"].pc = "recover" /\ mode' = "none"
        /\ UNCHANGED << child, current, gen, stopped, state >>
        /\ Joined(co', co, "update", "idle", None)
    BY <1>8 DEF Recovered, At, Joined, life
  <2>2. "idle" \in Pcs /\ co \in [Coroutines -> CoRecord]
    BY <1>0 DEF Kept, Pcs
  <2>3. /\ co' \in [Coroutines -> CoRecord]
        /\ \A d \in Coroutines \ {"update"} : co'[d] = co[d]
        /\ co'["update"].pc = "idle"
    BY <2>1, <2>2, JoinedFields, Names
  <2>4. Kept'
    BY <1>0, <1>1, <2>1, <2>3, MoveKeeps, Names DEF Checking
  <2>5. OneStopEach'
    BY <1>0, <1>1, <2>1, <2>3, Names DEF OneStopEach
  <2> QED
    BY <1>2, <2>1, <2>4, <2>5, PartsInv
<1> QED
  BY <1>3, <1>5, <1>6, <1>7, <1>8

\* The processes.
LEMMA ProcessInv ==
  ASSUME Inv, NEW p \in Starts, Boots(p) \/ Hangs(p) \/ Unhangs(p) PROVE Inv'
<1>0. Kept /\ RestTypes /\ OneStopEach
  BY InvParts
<1>1. /\ UNCHANGED << child, current, gen, stopped, state, co >>
      /\ UNCHANGED << timer, failures, busy, restarts, restarting >>
      /\ UNCHANGED << outcome, watch, mode, port, posix >>
      /\ Fault \/ UNCHANGED events
  BY DEF Boots, Hangs, Unhangs, life, monitor, app, outside
<1>2. PICK up \in {"up", "hung"} : proc[p] \in Running /\ proc' = [proc EXCEPT ![p] = up]
  BY DEF Boots, Hangs, Unhangs, Running
<1>3. proc' \in [Starts -> Running \union {"none", "killed", "dead"}]
  BY <1>0, <1>2 DEF Kept, Running
<1>4. NoStray'
  BY <1>0, <1>1, <1>2 DEF Kept, NoStray, Stopping
<1>5. Placed'
  BY <1>0, <1>1 DEF Kept, Placed
<1>6. Kept'
  BY <1>0, <1>1, <1>3, <1>4, <1>5 DEF Kept
<1>7. events' \in 0..MaxEvents
  BY <1>0, <1>1, Counted
<1>8. RestTypes' /\ OneStopEach'
  BY <1>0, <1>1, <1>7 DEF RestTypes, OneStopEach
<1> QED
  BY <1>6, <1>8, PartsInv

LEMMA ExitsInv == ASSUME Inv, NEW p \in Starts, Exits(p) PROVE Inv'
<1>0. Kept /\ RestTypes /\ OneStopEach
  BY InvParts
<1>1. /\ proc' = [proc EXCEPT ![p] = "dead"]
      /\ child' \in {child, None} /\ (child # p => child' = child) /\ state' \in {state, "error"}
      /\ UNCHANGED << current, gen, stopped >>
      /\ UNCHANGED << timer, failures, busy, restarts, restarting >>
      /\ UNCHANGED << outcome, watch, mode, port, posix >>
      /\ Fault \/ UNCHANGED events
  BY DEF Exits, monitor, app, outside
<1>2. co' = [c \in Coroutines |->
               CASE c \in Ending(p)        -> [co[c] EXCEPT !.pc = "reaped"]
                 [] c = p /\ At(c, "wait") -> [co[c] EXCEPT !.pc = "rejected"]
                 [] OTHER                  -> co[c]]
  BY DEF Exits
<1>3. \A c \in Coroutines :
        \/ co'[c] = co[c] /\ c \notin Ending(p)
        \/ co'[c] = [co[c] EXCEPT !.pc = "reaped"] /\ c \in Ending(p)
        \/ co'[c] = [co[c] EXCEPT !.pc = "rejected"] /\ c = p /\ co[c].pc = "wait"
  BY <1>2, Names DEF At
<1>4. \A c \in Coroutines :
        \/ co'[c] = co[c] /\ ~(co[c].on = p /\ co[c].pc = "term")
        \/ /\ co'[c] \in CoRecord /\ co'[c].pc \in {"reaped", "rejected"}
           /\ co[c].pc \in {"term", "kill", "wait"}
           /\ co[c].pc = "term" => co[c].on = p
           /\ co[c].pc = "wait" => c = p
  <2> TAKE c \in Coroutines
  <2>1. co[c] \in CoRecord
    BY <1>0 DEF Kept
  <2>2. c \in Ending(p) <=> co[c].on = p /\ co[c].pc \in {"term", "kill"}
    BY DEF Ending
  <2> QED
    BY <1>3, <2>1, <2>2 DEF CoRecord, Pcs, Waking
<1>5. co' \in [Coroutines -> CoRecord]
  BY <1>0, <1>2, <1>4 DEF Kept
<1>6. Placed'
  BY <1>0, <1>1, <1>4, Names DEF Kept, Placed, Checking
<1>7. NoStray'
  <2> SUFFICES ASSUME NEW q \in Starts, proc'[q] \in Running
               PROVE  child' = q \/ Stopping(q)'
    BY DEF NoStray
  <2>1. q # p /\ proc[q] \in Running
    BY <1>0, <1>1 DEF Kept, Running
  <2>2. child = q \/ \E c \in Coroutines : co[c].pc = "term" /\ co[c].on = q
    BY <1>0, <2>1 DEF Kept, NoStray, Stopping
  <2>3. child = q => child' = q
    BY <1>1, <2>1
  <2>4. \A c \in Coroutines : co[c].pc = "term" /\ co[c].on = q => co'[c] = co[c]
    BY <1>4, <2>1
  <2> QED
    BY <2>2, <2>3, <2>4 DEF Stopping
<1>8. proc' \in [Starts -> Running \union {"none", "killed", "dead"}]
  BY <1>0, <1>1 DEF Kept
<1>9. Kept'
  BY <1>0, <1>1, <1>5, <1>6, <1>7, <1>8 DEF Kept, States
<1>10. events' \in 0..MaxEvents
  BY <1>0, <1>1, Counted
<1>11. RestTypes'
  BY <1>0, <1>1, <1>10 DEF RestTypes
<1>12. OneStopEach'
  BY <1>0, <1>1, <1>4, Names DEF OneStopEach
<1> QED
  BY <1>9, <1>11, <1>12, PartsInv

LEMMA LeavesInv == ASSUME Inv, ExternalLeaves \/ UNCHANGED vars PROVE Inv'
<1>1. /\ UNCHANGED << child, current, gen, stopped, state, co, proc >>
      /\ UNCHANGED << timer, failures, busy, restarts, restarting >>
      /\ UNCHANGED << outcome, watch, mode, posix, events >>
      /\ port' \in {port, "free"}
  BY DEF ExternalLeaves, vars, life, monitor, app, world, outside
<1>2. Kept /\ RestTypes /\ OneStopEach
  BY InvParts
<1>3. Kept'
  BY <1>1, <1>2 DEF Kept, Placed, NoStray, Stopping
<1>4. RestTypes' /\ OneStopEach'
  BY <1>1, <1>2 DEF RestTypes, OneStopEach
<1> QED
  BY <1>3, <1>4, PartsInv

LEMMA NextInv == Inv /\ [Next]_vars => Inv'
<1> SUFFICES ASSUME Inv, [Next]_vars PROVE Inv'
  OBVIOUS
<1>1. CASE MainStep
  <2>1. ASSUME NEW s \in Starts, StartStep(s) PROVE Inv'
    BY <2>1, StartMoves, PortInv, WaitInv DEF StartStep
  <2>2. ASSUME Boot PROVE Inv'
    BY <2>2, BootInv DEF Boot
  <2>3. ASSUME RetryResumes PROVE Inv'
    <3>1. PICK cos : StartBackendBoot(cos) /\ Left(cos, co, "retry") /\ co["retry"].pc = "stopped"
      BY <2>3 DEF RetryResumes, At, Left
    <3> QED
      BY <3>1, BootInv
  <2> QED
    BY <1>1, <2>1, <2>2, <2>3, KillInv, TickBeginsInv, TickReadsInv, ResumeInv, AppInv DEF MainStep
<1>2. CASE Retry \/ Quit \/ Update
  BY <1>2, StoppersInv
<1>3. ASSUME NEW p \in Starts, Boots(p) \/ Hangs(p) \/ Unhangs(p) \/ Exits(p) PROVE Inv'
  BY <1>3, ProcessInv, ExitsInv
<1>4. CASE ExternalLeaves \/ UNCHANGED vars
  BY <1>4, LeavesInv
<1> QED
  BY <1>1, <1>2, <1>3, <1>4 DEF Next
-----------------------------------------------------------------------------
LEMMA InvAlways == Spec => []Inv
BY InitInv, NextInv, PTL DEF Spec

\* The supervisor's state keeps its types, for any starts, thresholds and events.
THEOREM TypeOK_Safety == Spec => []TypeOK
<1>1. Inv => TypeOK
  BY DEF Inv
<1> QED
  BY <1>1, InvAlways, PTL

\* A backend process that runs is the one the sidecar holds, or a stop is giving
\* it its grace period, for any number of starts, faults, retries and updates.
THEOREM NoStray_Safety == Spec => []NoStray
<1>1. Inv => NoStray
  BY DEF Inv
<1> QED
  BY <1>1, InvAlways, PTL
-----------------------------------------------------------------------------
(* No backend is left running when the app exits.  Once a stop for a quit or *)
(* an update has begun, nothing starts the sidecar again: a restart asks the *)
(* generation, and a retry is never about, because it needs a boot that      *)
(* failed (NotBegun), which left nothing to stop, so that its own stop       *)
(* returns before any click or timer.                                        *)

InStop    == {"term", "kill", "reaped", "stopped"}
Resting   == Settled \union {"unborn"}
Undecided == {"port", "probe", "wait", "rejected", "version", "body"}
Calm      == co["restart"].pc = "idle" /\ co[Tick].pc = "idle" /\ co["update"].pc = "idle"
Closing   == mode \in {"ordinary", "exited"} \/ co["update"].pc \in InStop

\* Before the first start, and after one that failed, there is nothing.
NotBegun ==
  outcome \in {"none", "failed"} =>
    /\ child = None /\ timer = None /\ Calm
    /\ co["quit"].pc \in {"idle", "stopped"} /\ co["retry"].pc \in {"idle", "stopped"}
    /\ \A s \in Starts : co[s].pc \in Resting
    /\ outcome = "none" => current = None

\* The start a boot awaits is the only one, and current until it is decided.
FirstStart ==
  watch # None =>
    /\ outcome = "pending" /\ mode = "none" /\ Calm /\ co["quit"].pc = "idle"
    /\ \A s \in Starts \ {watch} : co[s].pc \in Resting
    /\ co[watch].pc \in Undecided \union InStop \union Settled
    /\ co[watch].pc \in Undecided => Current(watch) /\ timer = None
    /\ co[watch].pc \in InStop \union {"failed"} => child = None /\ timer = None

RetryAlone == co["retry"].pc # "idle" => mode = "none" /\ outcome = "failed" /\ current = None
ModesAgree ==
  /\ mode = "ordinary" => co["quit"].pc \in InStop
  /\ mode = "update" => outcome = "ready"
  /\ mode = "exited" => co["quit"].pc = "idle" /\ co["update"].pc = "idle"
Closed == Closing => stopped /\ child = None
ExitInv == NotBegun /\ FirstStart /\ RetryAlone /\ ModesAgree /\ Closed

LEMMA InitExit == Init => ExitInv
<1> SUFFICES ASSUME Init PROVE ExitInv
  OBVIOUS
<1>1. /\ \A s \in Starts : co[s].pc = "unborn"
      /\ \A c \in Callers \union {Tick} : co[c].pc = "idle"
  BY Names, SidecarAssumption DEF Init, Coroutines
<1>2. child = None /\ current = None /\ timer = None /\ mode = "none" /\ outcome = "none" /\ watch = None
  BY DEF Init
<1> QED
  BY <1>1, <1>2 DEF ExitInv, NotBegun, FirstStart, RetryAlone, ModesAgree, Closed, Closing, Calm,
     Resting, InStop, Callers

\* A step of a start, seen from the rest of the program.
StartFrame(s) ==
  /\ UNCHANGED << outcome, watch, mode >>
  /\ \A d \in Coroutines \ {s} : co'[d] = co[d]
  /\ stopped => stopped' /\ (child = None => child' = None)
\* The same for a start that is current and awaited.
StartOwn(s) ==
  /\ co[s].pc \in Undecided \union {"stopped"}
  /\ co'[s].pc \in Undecided \union InStop \union Settled
  /\ co'[s].pc \in Undecided => /\ UNCHANGED << gen, stopped, timer >> /\ co'[s].gen = co[s].gen
                                /\ co[s].pc \in Undecided
  /\ co'[s].pc \in InStop => child' = None /\ timer' = None
  /\ co'[s].pc = "failed" => /\ UNCHANGED << child, timer >>
                             /\ co[s].pc \in {"port", "probe", "stopped"} \/ ~Current(s)

LEMMA StartMovesOwn ==
  ASSUME Inv, NEW s \in Starts,
         HealthSeen(s) \/ FailedStartStopped(s) \/ VersionAnswered(s) \/ Handshake(s) \/ Probed(s)
  PROVE  StartFrame(s) /\ StartOwn(s)
<1>0. Kept /\ s \in Coroutines /\ co \in [Coroutines -> CoRecord]
  BY InvParts, Names DEF Kept
<1>1. PICK pc \in {"version", "null", "failed", "body", "ready", "external"} :
        /\ co[s].pc \in {"wait", "stopped", "version", "body", "probe"} /\ Goto(s, pc)
        /\ pc \in {"version", "body"} => co[s].pc \in {"wait", "version"} /\ timer' = timer
        /\ pc = "failed" => co[s].pc \in {"probe", "stopped"} /\ timer' = timer
  BY DEF HealthSeen, FailedStartStopped, VersionAnswered, Handshake, Probed, At, monitor
<1>2. /\ UNCHANGED << child, gen, stopped, outcome, watch, mode >>
  BY DEF HealthSeen, FailedStartStopped, VersionAnswered, Handshake, Probed, life, app
<1>3. /\ \A d \in Coroutines \ {s} : co'[d] = co[d]
      /\ co'[s].pc = pc /\ co'[s].gen = co[s].gen
  BY <1>0, <1>1 DEF Goto, CoRecord
<1> QED
  BY <1>1, <1>2, <1>3 DEF StartFrame, StartOwn, Undecided, InStop, Settled

LEMMA PortOwn ==
  ASSUME Inv, NEW s \in Starts, PortChecked(s) PROVE StartFrame(s) /\ StartOwn(s)
<1>0. Kept /\ s \in Coroutines /\ co \in [Coroutines -> CoRecord] /\ co[s].pc = "port"
  BY InvParts, Names DEF Kept, PortChecked, At
<1>1. UNCHANGED << outcome, watch, mode >>
  BY DEF PortChecked, app
<1>2. CASE \E pc \in {"null", "probe", "failed"} : End(s, pc)
  <2>1. PICK pc \in {"null", "probe", "failed"} : End(s, pc)
    BY <1>2
  <2>2. Goto(s, pc) /\ UNCHANGED << child, gen, stopped, timer >>
    BY <2>1 DEF End, life
  <2>3. /\ \A d \in Coroutines \ {s} : co'[d] = co[d]
        /\ co'[s].pc = pc /\ co'[s].gen = co[s].gen
    BY <1>0, <2>2 DEF Goto, CoRecord
  <2> QED
    BY <1>0, <1>1, <2>2, <2>3 DEF StartFrame, StartOwn, Undecided, InStop, Settled
<1>3. CASE Current(s) /\ Spawn(s)
  <2>1. Goto(s, "wait") /\ UNCHANGED << gen, stopped, timer >> /\ ~stopped
    BY <1>3 DEF Spawn, Current
  <2>2. /\ \A d \in Coroutines \ {s} : co'[d] = co[d]
        /\ co'[s].pc = "wait" /\ co'[s].gen = co[s].gen
    BY <1>0, <2>1 DEF Goto, CoRecord
  <2> QED
    BY <1>0, <1>1, <2>1, <2>2 DEF StartFrame, StartOwn, Undecided, InStop, Settled
<1> QED
  BY <1>2, <1>3 DEF PortChecked

\* What a stop leaves behind, whoever calls it.
LEMMA StopLeaves ==
  ASSUME Inv, NEW c \in Coroutines, NEW shown \in States, NEW internal \in BOOLEAN,
         NEW cos \in [Coroutines -> CoRecord], Stop(c, internal, shown, cos)
  PROVE  /\ child' = None /\ current' = None /\ timer' = None
         /\ stopped => stopped'
         /\ ~internal => stopped'
         /\ co'[c].pc \in InStop
         /\ child = None => co'[c].pc = "stopped"
         /\ \A d \in Coroutines \ {c} : co'[d] = cos[d]
<1>1. child' = None /\ current' = None /\ timer' = None /\ stopped' = (stopped \/ ~internal)
  BY DEF Stop
<1>2. CASE child = None
  <2>1. co' = [cos EXCEPT ![c].pc = "stopped", ![c].gen = gen + 1]
    BY <1>2 DEF Stop
  <2> QED
    BY <1>1, <1>2, <2>1 DEF InStop, CoRecord
<1>3. CASE child # None
  <2>1. PICK pc \in {"reaped", "term", "kill"} : co' = [cos EXCEPT ![c].pc = pc, ![c].on = child]
    BY <1>3 DEF Stop
  <2> QED
    BY <1>1, <1>3, <2>1 DEF InStop, CoRecord
<1> QED
  BY <1>2, <1>3

LEMMA WaitOwn ==
  ASSUME Inv, NEW s \in Starts, WaitFails(s) PROVE StartFrame(s) /\ StartOwn(s)
<1>0. /\ Kept /\ s \in Coroutines /\ co \in [Coroutines -> CoRecord] /\ state \in States
      /\ co[s].pc \in {"wait", "rejected"} /\ FALSE \in BOOLEAN
  BY InvParts, Names DEF Kept, WaitFails, At
<1>1. UNCHANGED << outcome, watch, mode >>
  BY DEF WaitFails, app
<1>2. CASE Current(s) /\ Stop(s, FALSE, state, co)
  <2>1. /\ child' = None /\ timer' = None /\ stopped' /\ co'[s].pc \in InStop
        /\ \A d \in Coroutines \ {s} : co'[d] = co[d]
    BY <1>0, <1>2, StopLeaves
  <2> QED
    BY <1>0, <1>1, <2>1 DEF StartFrame, StartOwn, Undecided, InStop, Settled
<1>3. CASE ~Current(s) /\ End(s, "failed")
  <2>1. Goto(s, "failed") /\ UNCHANGED << child, gen, stopped, timer >>
    BY <1>3 DEF End, life
  <2>2. /\ \A d \in Coroutines \ {s} : co'[d] = co[d]
        /\ co'[s].pc = "failed"
    BY <1>0, <2>1 DEF Goto, CoRecord
  <2> QED
    BY <1>0, <1>1, <1>3, <2>1, <2>2 DEF StartFrame, StartOwn, Undecided, InStop, Settled
<1> QED
  BY <1>2, <1>3 DEF WaitFails

LEMMA StartExit ==
  ASSUME Inv, ExitInv, NEW s \in Starts, StartStep(s) PROVE ExitInv'
<1>1. StartFrame(s) /\ StartOwn(s)
  BY StartMovesOwn, PortOwn, WaitOwn DEF StartStep
<1>2. /\ \A c \in {"restart", "retry", "quit", "update", Tick} : co'[c] = co[c]
      /\ \A t \in Starts \ {s} : co'[t] = co[t]
      /\ UNCHANGED << outcome, watch, mode >>
  BY <1>1, Names DEF StartFrame
<1>3. outcome \notin {"none", "failed"}
  BY <1>1 DEF StartOwn, ExitInv, NotBegun, Undecided, Resting, Settled
<1>4. watch # None => watch = s
  BY <1>1 DEF StartOwn, ExitInv, FirstStart, Undecided, Resting, Settled
<1>5. ASSUME watch = s PROVE FirstStart'
  <2>0. watch # None /\ Kept
    BY <1>5, Names, InvParts
  <2>1. co[s].pc \in Undecided => Current(s) /\ timer = None
    BY <1>5, <2>0 DEF ExitInv, FirstStart
  <2>2. co'[s].pc \in Undecided => Current(s)' /\ timer' = None
    BY <1>1, <2>1 DEF StartOwn, Current
  <2>3. co'[s].pc = "failed" => child' = None /\ timer' = None
    <3>1. CASE co[s].pc = "stopped"
      BY <1>1, <1>5, <2>0, <3>1 DEF StartOwn, ExitInv, FirstStart, InStop
    <3>2. CASE co[s].pc \in Checking
      BY <1>1, <2>0, <2>1, <3>2 DEF StartOwn, Kept, Placed, Checking, Undecided, Current
    <3> QED
      BY <1>1, <2>1, <3>1, <3>2 DEF StartOwn, Undecided, Checking
  <2>4. co'[s].pc \in InStop => child' = None /\ timer' = None
    BY <1>1 DEF StartOwn
  <2>5. co'[s].pc \in Undecided \union InStop \union Settled
    BY <1>1 DEF StartOwn
  <2>6. /\ outcome = "pending" /\ mode = "none" /\ Calm /\ co["quit"].pc = "idle"
        /\ \A t \in Starts \ {watch} : co[t].pc \in Resting
    BY <2>0 DEF ExitInv, FirstStart
  <2>7. Calm'
    BY <1>2, <2>6 DEF Calm
  <2>8. \A t \in Starts \ {watch'} : co'[t].pc \in Resting
    BY <1>2, <1>5, <2>6
  <2>9. outcome' = "pending" /\ mode' = "none" /\ co'["quit"].pc = "idle" /\ watch' = s
    BY <1>2, <1>5, <2>6
  <2> QED
    BY <2>2, <2>3, <2>4, <2>5, <2>7, <2>8, <2>9 DEF FirstStart
<1>6. FirstStart'
  <2>1. CASE watch = None
    BY <1>2, <2>1 DEF FirstStart
  <2> QED
    BY <1>4, <1>5, <2>1
<1>7. NotBegun' /\ RetryAlone' /\ ModesAgree'
  BY <1>2, <1>3 DEF ExitInv, NotBegun, RetryAlone, ModesAgree
<1>8. Closed'
  BY <1>1, <1>2 DEF ExitInv, Closed, Closing, StartFrame
<1> QED
  BY <1>6, <1>7, <1>8 DEF ExitInv
\* A step that changes nothing ExitInv speaks of.
LEMMA StillExit ==
  ASSUME ExitInv, UNCHANGED << child, current, gen, stopped, timer, co, outcome, watch, mode >>
  PROVE  ExitInv'
BY DEF ExitInv, NotBegun, FirstStart, RetryAlone, ModesAgree, Closed, Closing, Calm, Current

\* A coroutine moves on within a stop, or is told that its process has exited.
Nudged(c) ==
  \/ co'[c] = co[c]
  \/ co[c].pc \in {"term", "kill", "reaped"} /\ co'[c].pc \in InStop
  \/ /\ c \in Starts /\ co[c].pc = "wait" /\ co'[c].pc = "rejected"
     /\ co'[c].gen = co[c].gen

LEMMA NudgedExit ==
  ASSUME Inv, ExitInv, \A c \in Coroutines : Nudged(c),
         UNCHANGED << current, gen, stopped, timer, outcome, watch, mode >>,
         child = None => child' = None
  PROVE  ExitInv'
<1>1. \A c \in {"restart", "retry", "quit", "update", Tick} :
        \/ co'[c] = co[c]
        \/ co[c].pc \in {"term", "kill", "reaped"} /\ co'[c].pc \in InStop
  BY Names DEF Nudged
<1>2. \A s \in Starts :
        /\ co[s].pc \in Resting => co'[s] = co[s]
        /\ co[s].pc \in Undecided => co'[s].pc \in Undecided /\ co'[s].gen = co[s].gen
        /\ co[s].pc \in InStop => co'[s].pc \in InStop
        /\ co[s].pc \in Settled => co'[s] = co[s]
  BY Names DEF Nudged, Resting, Settled, Undecided, InStop
<1>3. Calm => Calm'
  BY <1>1 DEF Calm
<1>4. NotBegun'
  BY <1>1, <1>2, <1>3 DEF ExitInv, NotBegun
<1>5. FirstStart'
  <2> SUFFICES ASSUME watch # None PROVE FirstStart'
    BY DEF FirstStart
  <2>1. /\ outcome = "pending" /\ mode = "none" /\ Calm /\ co["quit"].pc = "idle"
        /\ \A s \in Starts \ {watch} : co[s].pc \in Resting
        /\ co[watch].pc \in Undecided \union InStop \union Settled
        /\ co[watch].pc \in Undecided => Current(watch) /\ timer = None
        /\ co[watch].pc \in InStop \union {"failed"} => child = None /\ timer = None
        /\ watch \in Starts
    BY DEF ExitInv, FirstStart, Inv, TypeOK
  <2>2. co'["quit"].pc = "idle" /\ Calm'
    BY <1>1, <1>3, <2>1
  <2>3. \A s \in Starts \ {watch} : co'[s].pc \in Resting
    BY <1>2, <2>1
  <2>4. CASE co[watch].pc \in Undecided
    <3>1. co'[watch].pc \in Undecided /\ co'[watch].gen = co[watch].gen
      BY <1>2, <2>1, <2>4
    <3>2. co'[watch].pc \notin InStop \union {"failed"}
      BY <3>1 DEF Undecided, InStop
    <3> QED
      BY <2>1, <2>2, <2>3, <2>4, <3>1, <3>2 DEF FirstStart, Current
  <2>5. CASE co[watch].pc \in InStop
    <3>1. co'[watch].pc \in InStop /\ co'[watch].pc \notin Undecided
      BY <1>2, <2>1, <2>5 DEF InStop, Undecided
    <3> QED
      BY <2>1, <2>2, <2>3, <2>5, <3>1 DEF FirstStart
  <2>6. CASE co[watch].pc \in Settled
    <3>1. co'[watch] = co[watch] /\ co[watch].pc \notin Undecided
      BY <1>2, <2>1, <2>6 DEF Settled, Undecided
    <3> QED
      BY <2>1, <2>2, <2>3, <2>6, <3>1 DEF FirstStart
  <2> QED
    BY <2>1, <2>4, <2>5, <2>6
<1>6. RetryAlone'
  BY <1>1 DEF ExitInv, RetryAlone, NotBegun
<1>7. ModesAgree'
  BY <1>1 DEF ExitInv, ModesAgree, InStop
<1>8. Closed'
  BY <1>1 DEF ExitInv, Closed, Closing, InStop
<1> QED
  BY <1>4, <1>5, <1>6, <1>7, <1>8 DEF ExitInv

LEMMA KillExit ==
  ASSUME Inv, ExitInv, NEW c \in Coroutines, GraceOver(c) \/ SettleOver(c) \/ Reaped(c)
  PROVE  ExitInv'
<1>1. UNCHANGED << child, current, gen, stopped, timer, outcome, watch, mode >>
  BY DEF GraceOver, SettleOver, Reaped, life, monitor, app
<1>2. co \in [Coroutines -> CoRecord]
  BY DEF Inv, TypeOK, CoRecord
<1>3. /\ co[c].pc \in {"term", "kill", "reaped"} /\ co'[c].pc \in InStop
      /\ \A d \in Coroutines \ {c} : co'[d] = co[d]
  BY <1>2 DEF GraceOver, SettleOver, Reaped, At, Goto, InStop, CoRecord
<1>4. \A d \in Coroutines : Nudged(d)
  BY <1>3 DEF Nudged
<1> QED
  BY <1>1, <1>4, NudgedExit

LEMMA ExitsExit ==
  ASSUME Inv, ExitInv, NEW p \in Starts, Exits(p) PROVE ExitInv'
<1>1. /\ UNCHANGED << current, gen, stopped, timer, outcome, watch, mode >>
      /\ child' \in {child, None}
  BY DEF Exits, monitor, app
<1>2. co \in [Coroutines -> CoRecord]
  BY DEF Inv, TypeOK, CoRecord
<1>3. \A c \in Coroutines :
        \/ co'[c] = co[c]
        \/ co'[c] = [co[c] EXCEPT !.pc = "reaped"] /\ c \in Ending(p)
        \/ co'[c] = [co[c] EXCEPT !.pc = "rejected"] /\ c = p /\ co[c].pc = "wait"
  BY Names DEF At, Exits
<1>4. \A c \in Coroutines : Nudged(c)
  <2> TAKE c \in Coroutines
  <2>1. co[c] \in CoRecord /\ (c \in Ending(p) => co[c].pc \in {"term", "kill"})
    BY <1>2 DEF Ending
  <2>2. CASE co'[c] = co[c]
    BY <2>2 DEF Nudged
  <2>3. CASE co'[c] = [co[c] EXCEPT !.pc = "reaped"] /\ c \in Ending(p)
    BY <2>1, <2>3 DEF Nudged, InStop, CoRecord
  <2>4. CASE co'[c] = [co[c] EXCEPT !.pc = "rejected"] /\ c = p /\ co[c].pc = "wait"
    BY <2>1, <2>4 DEF Nudged, CoRecord
  <2> QED
    BY <1>3, <2>2, <2>3, <2>4
<1> QED
  BY <1>1, <1>4, NudgedExit

\* The monitor ticks, and the restarts run, only after the boot, and only while
\* nothing is being closed.
LEMMA MonitorLater ==
  ASSUME ExitInv,
         \/ TickBegins \/ co[Tick].pc # "idle" \/ co["restart"].pc # "idle"
         \/ co["update"].pc # "idle",
         Inv
  PROVE  watch = None /\ outcome \notin {"none", "failed"} /\ co["retry"].pc = "idle"
<1>1. CASE TickBegins
  <2>1. timer # None /\ \A c \in Coroutines : co[c].pc \notin Waking
    BY <1>1 DEF TickBegins, Event, Microtask
  <2>2. outcome \notin {"none", "failed"}
    BY <2>1 DEF ExitInv, NotBegun
  <2>3. ASSUME watch # None PROVE FALSE
    <3>1. watch \in Starts /\ watch \in Coroutines
      BY <2>3, Names DEF Inv, TypeOK
    <3>2. co[watch].pc \notin Settled
      BY <1>1, <2>3 DEF TickBegins, Event, Microtask
    <3> QED
      BY <2>1, <2>3, <3>1, <3>2 DEF ExitInv, FirstStart
  <2> QED
    BY <2>2, <2>3 DEF ExitInv, RetryAlone
<1>2. CASE ~Calm
  <2>1. outcome \notin {"none", "failed"} /\ watch = None
    BY <1>2 DEF ExitInv, NotBegun, FirstStart
  <2> QED
    BY <2>1 DEF ExitInv, RetryAlone
<1> QED
  BY <1>1, <1>2 DEF Calm

\* A step after the boot that leaves retry, quit, update and the modes alone.
LEMMA LaterExit ==
  ASSUME ExitInv, watch = None, outcome \notin {"none", "failed"}, co["retry"].pc = "idle",
         UNCHANGED << outcome, watch, mode >>,
         \A c \in {"retry", "quit", "update"} : co'[c] = co[c],
         stopped /\ child = None => stopped' /\ child' = None
  PROVE  ExitInv'
BY DEF ExitInv, NotBegun, FirstStart, RetryAlone, ModesAgree, Closed, Closing

LEMMA TickBeginsExit == ASSUME Inv, ExitInv, TickBegins PROVE ExitInv'
<1>1. /\ UNCHANGED << child, stopped, outcome, watch, mode >>
      /\ co' = [co EXCEPT ![Tick].pc = "read", ![Tick].gen = timer]
  BY DEF TickBegins, life, app
<1>2. \A c \in {"retry", "quit", "update"} : co'[c] = co[c]
  <2>1. co \in [Coroutines -> CoRecord]
    BY DEF Inv, TypeOK, CoRecord
  <2> QED
    BY <1>1, <2>1, Names DEF Tick
<1> QED
  BY <1>1, <1>2, MonitorLater, LaterExit

LEMMA TickReadsExit == ASSUME Inv, ExitInv, TickReads PROVE ExitInv'
<1>1. /\ co[Tick].pc = "read" /\ UNCHANGED << outcome, watch, mode >>
      /\ co \in [Coroutines -> CoRecord]
  BY DEF TickReads, At, app, Inv, TypeOK, CoRecord
<1> DEFINE cos == [co EXCEPT ![Tick].pc = "idle"]
<1>2. /\ cos \in [Coroutines -> CoRecord]
      /\ \A c \in {"retry", "quit", "update"} : cos[c] = co[c]
  <2>1. Left(cos, co, Tick)
    BY DEF Left
  <2> HIDE DEF cos
  <2> QED
    BY <1>1, <2>1, LeftFields, Names DEF Tick
<1>3. \/ co' = cos /\ UNCHANGED << child, stopped >>
      \/ Stop("restart", TRUE, "restarting", cos)
  BY DEF TickReads, TickStale, TickHealthy, TickMissed, Restart, Goto, life
<1> HIDE DEF cos
<1>4. /\ \A c \in {"retry", "quit", "update"} : co'[c] = co[c]
      /\ stopped /\ child = None => stopped' /\ child' = None
  <2>1. CASE Stop("restart", TRUE, "restarting", cos)
    <3>1. "restarting" \in States /\ TRUE \in BOOLEAN
      BY DEF States
    <3>2. /\ child' = None /\ (stopped => stopped')
          /\ \A d \in Coroutines \ {"restart"} : co'[d] = cos[d]
      BY <1>2, <2>1, <3>1, StopLeaves, Names
    <3> QED
      BY <1>2, <3>2, Names
  <2>2. CASE co' = cos /\ UNCHANGED << child, stopped >>
    <3>1. \A c \in {"retry", "quit", "update"} : co'[c] = co[c]
      BY <1>2, <2>2
    <3>2. child' = child /\ stopped' = stopped
      BY <2>2
    <3> QED
      BY <3>1, <3>2
  <2> QED
    BY <1>3, <2>1, <2>2
<1> QED
  BY <1>1, <1>4, MonitorLater, LaterExit

LEMMA ResumeExit == ASSUME Inv, ExitInv, RestartResumes PROVE ExitInv'
<1>1. /\ co["restart"].pc = "stopped" /\ UNCHANGED << outcome, watch, mode >>
      /\ co \in [Coroutines -> CoRecord]
  BY DEF RestartResumes, At, app, Inv, TypeOK, CoRecord
<1> DEFINE cos == [co EXCEPT !["restart"].pc = "idle"]
<1>2. /\ cos \in [Coroutines -> CoRecord]
      /\ \A c \in {"retry", "quit", "update"} : cos[c] = co[c]
  <2>1. Left(cos, co, "restart")
    BY DEF Left
  <2> HIDE DEF cos
  <2> QED
    BY <1>1, <2>1, LeftFields, Names
<1>3. \/ co' = cos /\ UNCHANGED << child, stopped >>
      \/ ~stopped /\ Start(cos)
  BY DEF RestartResumes, Watches, life
<1> HIDE DEF cos
<1>4. ASSUME Start(cos), NEW c \in Callers PROVE co'[c] = cos[c]
  <2>1. CASE co' = cos
    BY <2>1
  <2>2. CASE co' # cos
    <3>1. \E s \in Starts : co[s].pc = "unborn"
      BY <1>4, <2>2 DEF Start
    <3>2. Fresh \in Starts
      BY <3>1 DEF Fresh
    <3>3. Fresh # c
      BY <3>2, SidecarAssumption
    <3>4. co' = [cos EXCEPT ![Fresh].pc = IF child = None THEN "port" ELSE "wait",
                            ![Fresh].gen = gen + 1]
      BY <1>4, <2>2 DEF Start
    <3> QED
      BY <1>2, <3>3, <3>4, Names DEF Coroutines
  <2> QED
    BY <2>1, <2>2
<1>5. \A c \in {"retry", "quit", "update"} : co'[c] = co[c]
  BY <1>2, <1>3, <1>4 DEF Callers
<1> QED
  BY <1>1, <1>3, <1>5, MonitorLater, LaterExit
-----------------------------------------------------------------------------
\* What start() leaves when it is not the start in progress that is joined.
LEMMA FreshLeaves ==
  ASSUME Inv, current = None, NEW cos \in [Coroutines -> CoRecord],
         \A s \in Starts : cos[s] = co[s], Start(cos)
  PROVE  /\ Called \in Starts /\ ~stopped' /\ child' = child
         /\ \A d \in Coroutines \ {Called} : co'[d] = cos[d]
         /\ co'[Called].pc \in {"port", "wait"} /\ co'[Called].gen = gen'
<1>1. \E s \in Starts : co[s].pc = "unborn"
  BY DEF Start
<1>2. Fresh \in Starts /\ Called = Fresh
  BY <1>1 DEF Fresh, Called
<1>3. /\ ~stopped' /\ child' = child /\ gen' = gen + 1
      /\ co' = [cos EXCEPT ![Fresh].pc = IF child = None THEN "port" ELSE "wait",
                           ![Fresh].gen = gen + 1]
  BY DEF Start
<1> DEFINE new == Fresh
           place == IF child = None THEN "port" ELSE "wait"
<1>4. Renewed(co', cos, new, place, gen + 1)
  BY <1>3 DEF Renewed
<1>5. place \in Pcs /\ place \in {"port", "wait"} /\ gen + 1 \in Nat
  BY DEF Pcs, Inv, TypeOK
<1>6. new \in Coroutines /\ new = Called
  BY <1>2, Names
<1> HIDE DEF new, place
<1>7. /\ \A d \in Coroutines \ {new} : co'[d] = cos[d]
      /\ co'[new].pc = place /\ co'[new].gen = gen + 1
  BY <1>4, <1>5, <1>6, TwoFields
<1> QED
  BY <1>2, <1>3, <1>5, <1>6, <1>7

LEMMA BootExit ==
  ASSUME Inv, ExitInv, NEW cos \in [Coroutines -> CoRecord], StartBackendBoot(cos),
         outcome \in {"none", "failed"}, mode = "none", current = None,
         co["quit"].pc = "idle", cos["retry"].pc = "idle",
         \A d \in Coroutines \ {"retry"} : cos[d] = co[d]
  PROVE  ExitInv'
<1>1. /\ Start(cos) /\ outcome' = "pending" /\ watch' = Called
      /\ UNCHANGED << timer, mode >>
  BY DEF StartBackendBoot, monitor
<1>2. \A s \in Starts : cos[s] = co[s]
  BY Names
<1>3. /\ Called \in Starts /\ ~stopped' /\ child' = child
      /\ \A d \in Coroutines \ {Called} : co'[d] = cos[d]
      /\ co'[Called].pc \in {"port", "wait"} /\ co'[Called].gen = gen'
  BY <1>1, <1>2, FreshLeaves
<1>4. \A s \in Starts \ {watch'} : co'[s].pc \in Resting
  BY <1>1, <1>2, <1>3, Names DEF ExitInv, NotBegun
<1>5. /\ \A c \in {"restart", "quit", "update", Tick} : co'[c] = co[c]
      /\ co'["retry"].pc = "idle"
  BY <1>3, Names DEF Tick
<1>6. Calm' /\ timer' = None
  BY <1>1, <1>5 DEF ExitInv, NotBegun, Calm
<1>7. FirstStart'
  <2>1. co'[watch'].pc \in {"port", "wait"} /\ Current(watch)' /\ watch' \in Starts
    BY <1>1, <1>3 DEF Current
  <2> QED
    BY <1>1, <1>4, <1>5, <1>6, <2>1 DEF FirstStart, Undecided, InStop
<1>8. NotBegun' /\ RetryAlone' /\ ModesAgree'
  BY <1>1, <1>5 DEF NotBegun, RetryAlone, ModesAgree
<1>9. Closed'
  BY <1>1, <1>6 DEF Closed, Closing, Calm, InStop
<1> QED
  BY <1>7, <1>8, <1>9 DEF ExitInv

LEMMA BootsExit == ASSUME Inv, ExitInv, Boot \/ RetryResumes PROVE ExitInv'
<1>0. co \in [Coroutines -> CoRecord]
  BY DEF Inv, TypeOK, CoRecord
<1>1. CASE Boot
  <2>1. /\ StartBackendBoot(co) /\ outcome = "none" /\ mode = "none"
        /\ \A c \in Coroutines : co[c].pc \notin Waking
    BY <1>1 DEF Boot, Event, Microtask
  <2>2. current = None /\ co["quit"].pc = "idle" /\ co["retry"].pc = "idle"
    BY <2>1, Names DEF ExitInv, NotBegun, RetryAlone, Waking
  <2> QED
    BY <1>0, <2>1, <2>2, BootExit
<1>2. CASE RetryResumes
  <2> DEFINE cos == [co EXCEPT !["retry"].pc = "idle"]
  <2>1. StartBackendBoot(cos) /\ co["retry"].pc = "stopped" /\ Left(cos, co, "retry")
    BY <1>2 DEF RetryResumes, At, Left
  <2> HIDE DEF cos
  <2>2. /\ cos \in [Coroutines -> CoRecord] /\ cos["retry"].pc = "idle"
        /\ \A d \in Coroutines \ {"retry"} : cos[d] = co[d]
    BY <1>0, <2>1, LeftFields, Names
  <2>3. mode = "none" /\ outcome = "failed" /\ current = None
    BY <2>1 DEF ExitInv, RetryAlone
  <2>4. co["quit"].pc = "idle"
    BY <2>3 DEF Inv, OneStopEach
  <2> QED
    BY <2>1, <2>2, <2>3, <2>4, BootExit
<1> QED
  BY <1>1, <1>2

LEMMA SettledExit == ASSUME Inv, ExitInv, BootSettled PROVE ExitInv'
<1>1. /\ watch # None /\ co[watch].pc \in Settled /\ watch' = None /\ watch \in Starts
      /\ outcome' = IF co[watch].pc = "failed" THEN "failed" ELSE "ready"
      /\ UNCHANGED << child, current, gen, stopped, timer, co, mode >>
  BY DEF BootSettled, life, monitor, At, Inv, TypeOK
<1>2. /\ mode = "none" /\ Calm /\ co["quit"].pc = "idle" /\ outcome = "pending"
      /\ \A s \in Starts \ {watch} : co[s].pc \in Resting
      /\ co[watch].pc = "failed" => child = None /\ timer = None
  BY <1>1 DEF ExitInv, FirstStart
<1>3. co["retry"].pc = "idle"
  BY <1>2 DEF ExitInv, RetryAlone
<1>4. Calm' /\ \A s \in Starts : co'[s].pc \in Resting
  BY <1>1, <1>2 DEF Calm, Resting
<1>5. NotBegun'
  <2> SUFFICES ASSUME outcome' = "failed" PROVE NotBegun'
    BY <1>1 DEF NotBegun
  <2>1. child' = None /\ timer' = None /\ outcome' # "none"
    BY <1>1, <1>2
  <2>2. co'["quit"].pc = "idle" /\ co'["retry"].pc = "idle"
    BY <1>1, <1>2, <1>3
  <2> QED
    BY <1>4, <2>1, <2>2 DEF NotBegun
<1>6. FirstStart' /\ RetryAlone' /\ ModesAgree'
  BY <1>1, <1>2, <1>3 DEF FirstStart, RetryAlone, ModesAgree
<1>7. Closed'
  BY <1>1, <1>2 DEF Closed, Closing, Calm, InStop
<1> QED
  BY <1>5, <1>6, <1>7 DEF ExitInv

\* A retry finds nothing to stop; a quit and an update take over.
LEMMA StoppersExit == ASSUME Inv, ExitInv, Retry \/ Quit \/ Update PROVE ExitInv'
<1>0. /\ co \in [Coroutines -> CoRecord] /\ state \in States /\ FALSE \in BOOLEAN
      /\ \A c \in {"retry", "quit", "update"} : c \in Coroutines
  BY Names DEF Inv, TypeOK, CoRecord
<1>1. ASSUME NEW c \in {"retry", "quit", "update"}, Stop(c, FALSE, state, co)
      PROVE  /\ child' = None /\ current' = None /\ timer' = None /\ stopped'
             /\ co'[c].pc \in InStop
             /\ child = None => co'[c].pc = "stopped"
             /\ \A d \in Coroutines \ {c} : co'[d] = co[d]
  <2>1. c \in Coroutines
    BY <1>0
  <2> QED
    BY <1>0, <1>1, <2>1, StopLeaves
<1>2. /\ UNCHANGED outcome /\ watch' = None /\ mode # "exited"
      /\ \A c \in Coroutines : co[c].pc \notin Waking
  BY DEF Retry, Quit, Update, Event, Microtask, Alive
<1>3. FirstStart'
  BY <1>2 DEF FirstStart
<1>4. co["retry"].pc = "idle"
  <2> SUFFICES ASSUME co["retry"].pc # "idle" PROVE FALSE
    OBVIOUS
  <2>1. co["retry"].pc \in {"idle", "stopped"}
    BY DEF ExitInv, RetryAlone, NotBegun
  <2> QED
    BY <1>0, <1>2, <2>1 DEF Waking
<1>5. CASE Retry
  <2>1. /\ outcome = "failed" /\ Stop("retry", FALSE, state, co) /\ mode' = mode
    BY <1>5 DEF Retry
  <2>2. /\ child = None /\ Calm /\ co["quit"].pc \in {"idle", "stopped"}
        /\ \A s \in Starts : co[s].pc \in Resting
    BY <2>1 DEF ExitInv, NotBegun
  <2>3. /\ child' = None /\ current' = None /\ timer' = None /\ stopped'
        /\ co'["retry"].pc = "stopped"
        /\ \A d \in Coroutines \ {"retry"} : co'[d] = co[d]
    BY <1>1, <2>1, <2>2
  <2>4. co["quit"].pc = "idle"
    BY <1>0, <1>2, <2>2 DEF Waking
  <2>5. mode = "none"
    BY <1>2, <2>1, <2>4 DEF ExitInv, ModesAgree, InStop, Inv, TypeOK
  <2>6. /\ \A c \in {"restart", "quit", "update", Tick} : co'[c] = co[c]
        /\ \A s \in Starts : co'[s] = co[s]
    BY <2>3, Names DEF Tick
  <2>7. Calm'
    BY <2>2, <2>6 DEF Calm
  <2>8. NotBegun'
    BY <1>2, <2>1, <2>2, <2>3, <2>6, <2>7 DEF NotBegun
  <2>9. RetryAlone' /\ ModesAgree' /\ Closed'
    BY <1>2, <2>1, <2>3, <2>5 DEF RetryAlone, ModesAgree, Closed
  <2> QED
    BY <1>3, <2>8, <2>9 DEF ExitInv
<1>6. CASE Quit
  <2>1. Stop("quit", FALSE, state, co) /\ mode = "none" /\ mode' = "ordinary"
    BY <1>6 DEF Quit
  <2>2. /\ child' = None /\ current' = None /\ timer' = None /\ stopped'
        /\ co'["quit"].pc \in InStop
        /\ child = None => co'["quit"].pc = "stopped"
        /\ \A d \in Coroutines \ {"quit"} : co'[d] = co[d]
    BY <1>1, <2>1
  <2>3. /\ \A c \in {"restart", "retry", "update", Tick} : co'[c] = co[c]
        /\ \A s \in Starts : co'[s] = co[s]
    BY <2>2, Names DEF Tick
  <2>4. NotBegun'
    BY <1>2, <2>2, <2>3 DEF ExitInv, NotBegun, Calm
  <2>5. RetryAlone' /\ ModesAgree'
    BY <1>4, <2>1, <2>2, <2>3 DEF RetryAlone, ModesAgree
  <2>6. Closed'
    BY <2>2 DEF Closed
  <2> QED
    BY <1>3, <2>4, <2>5, <2>6 DEF ExitInv
<1>7. CASE Update
  <2>1. /\ Stop("update", FALSE, state, co) /\ mode = "none" /\ mode' = "update"
        /\ outcome = "ready"
    BY <1>7 DEF Update
  <2>2. /\ child' = None /\ stopped'
        /\ \A d \in Coroutines \ {"update"} : co'[d] = co[d]
    BY <1>1, <2>1
  <2>3. co'["retry"] = co["retry"]
    BY <2>2, Names
  <2>4. NotBegun' /\ RetryAlone' /\ ModesAgree' /\ Closed'
    BY <1>2, <1>4, <2>1, <2>2, <2>3 DEF NotBegun, RetryAlone, ModesAgree, Closed
  <2> QED
    BY <1>3, <2>4 DEF ExitInv
<1> QED
  BY <1>5, <1>6, <1>7

\* The stop of a quit or an update returns: the app exits, or starts the sidecar
\* again because nothing was installed.
LEMMA ClosingExit ==
  ASSUME Inv, ExitInv, QuitResumes \/ Installs \/ InstallFails \/ Recovered PROVE ExitInv'
<1>0. /\ co \in [Coroutines -> CoRecord] /\ UNCHANGED << outcome, watch >>
      /\ mode \in {"none", "ordinary", "update", "exited"}
  BY DEF Inv, TypeOK, CoRecord, QuitResumes, Installs, InstallFails, Recovered, app
<1>1. CASE QuitResumes \/ Installs
  <2>1. PICK c \in {"quit", "update"} :
          /\ co[c].pc = "stopped" /\ co' = [co EXCEPT ![c].pc = "idle"] /\ mode' = "exited"
          /\ UNCHANGED << child, current, gen, stopped, timer >>
    BY <1>1 DEF QuitResumes, Installs, At, Goto, life, monitor
  <2>2. /\ \A d \in Coroutines \ {c} : co'[d] = co[d]
        /\ co'[c].pc = "idle"
    BY <1>0, <2>1, Names DEF CoRecord
  <2>3. mode = IF c = "quit" THEN "ordinary" ELSE "update"
    BY <2>1 DEF Inv, OneStopEach
  <2>4. co'["quit"].pc = "idle" /\ co'["update"].pc = "idle"
    BY <2>2, <2>3, Names DEF Inv, OneStopEach
  <2>5. co'["retry"] = co["retry"] /\ co["retry"].pc = "idle"
    BY <2>2, <2>3, Names DEF ExitInv, RetryAlone
  <2>6. /\ \A d \in {"restart", Tick} : co'[d] = co[d]
        /\ \A s \in Starts : co'[s] = co[s]
    BY <2>2, Names DEF Tick
  <2>7. NotBegun'
    BY <1>0, <2>1, <2>4, <2>5, <2>6 DEF ExitInv, NotBegun, Calm
  <2>8. FirstStart'
    BY <1>0, <2>3 DEF ExitInv, FirstStart
  <2>9. RetryAlone' /\ ModesAgree'
    BY <2>1, <2>4, <2>5 DEF RetryAlone, ModesAgree
  <2>10. Closed'
    BY <2>1, <2>3 DEF ExitInv, Closed, Closing, InStop
  <2> QED
    BY <2>7, <2>8, <2>9, <2>10 DEF ExitInv
<1>2. CASE InstallFails
  <2> DEFINE cos == [co EXCEPT !["update"].pc = "recover", !["update"].on = Called]
  <2>1. co["update"].pc = "stopped" /\ Start(cos) /\ mode' = mode
    BY <1>2 DEF InstallFails, At, app
  <2>2. cos["update"].pc = "recover" /\ \A c \in Callers \ {"update"} : cos[c] = co[c]
    BY <1>0, Names DEF CoRecord, Callers
  <2> HIDE DEF cos
  <2>3. ASSUME NEW c \in Callers PROVE co'[c] = cos[c]
    <3>1. CASE co' = cos
      BY <3>1
    <3>2. CASE co' # cos
      <4>1. \E s \in Starts : co[s].pc = "unborn"
        BY <2>1, <3>2 DEF Start
      <4>2. Fresh \in Starts
        BY <4>1 DEF Fresh
      <4>3. Fresh # c
        BY <4>2, SidecarAssumption
      <4>4. /\ DOMAIN cos = DOMAIN co
            /\ co' = [cos EXCEPT ![Fresh].pc = IF child = None THEN "port" ELSE "wait",
                                 ![Fresh].gen = gen + 1]
        BY <2>1, <3>2 DEF Start, cos
      <4> QED
        BY <1>0, <4>3, <4>4 DEF Coroutines
    <3> QED
      BY <3>1, <3>2
  <2>4. co'["update"].pc = "recover" /\ \A c \in {"retry", "quit"} : co'[c] = co[c]
    BY <2>2, <2>3 DEF Callers
  <2>5. mode = "update" /\ outcome = "ready"
    BY <2>1 DEF Inv, OneStopEach, ExitInv, ModesAgree
  <2>6. watch = None /\ co["retry"].pc = "idle"
    BY <2>5 DEF ExitInv, FirstStart, RetryAlone
  <2> QED
    BY <1>0, <2>1, <2>4, <2>5, <2>6
       DEF ExitInv, NotBegun, FirstStart, RetryAlone, ModesAgree, Closed, Closing, InStop
<1>3. CASE Recovered
  <2>1. /\ co["update"].pc = "recover" /\ mode' = "none"
        /\ Joined(co', co, "update", "idle", None)
    BY <1>3 DEF Recovered, At, Joined
  <2>2. /\ \A d \in Coroutines \ {"update"} : co'[d] = co[d]
        /\ co'["update"].pc = "idle"
    <3>1. "idle" \in Pcs
      BY DEF Pcs
    <3> QED
      BY <1>0, <2>1, <3>1, JoinedFields, Names
  <2>3. mode = "update" /\ outcome = "ready"
    BY <2>1 DEF Inv, OneStopEach, ExitInv, ModesAgree
  <2>4. watch = None /\ co'["retry"] = co["retry"] /\ co["retry"].pc = "idle"
    BY <2>2, <2>3, Names DEF ExitInv, FirstStart, RetryAlone
  <2> QED
    BY <1>0, <2>1, <2>2, <2>3, <2>4
       DEF ExitInv, NotBegun, FirstStart, RetryAlone, ModesAgree, Closed, Closing, InStop
<1> QED
  BY <1>1, <1>2, <1>3

LEMMA NextExit == Inv /\ ExitInv /\ [Next]_vars => ExitInv'
<1> SUFFICES ASSUME Inv, ExitInv, [Next]_vars PROVE ExitInv'
  OBVIOUS
<1>1. CASE MainStep
  BY <1>1, StartExit, KillExit, TickBeginsExit, TickReadsExit, ResumeExit, BootsExit,
     SettledExit, ClosingExit DEF MainStep
<1>2. CASE Retry \/ Quit \/ Update
  BY <1>2, StoppersExit
<1>3. ASSUME NEW p \in Starts, Boots(p) \/ Hangs(p) \/ Unhangs(p) \/ Exits(p) PROVE ExitInv'
  <2>1. CASE Boots(p) \/ Hangs(p) \/ Unhangs(p)
    <3>1. UNCHANGED << child, current, gen, stopped, timer, co, outcome, watch, mode >>
      BY <2>1 DEF Boots, Hangs, Unhangs, life, monitor, app
    <3> QED
      BY <3>1, StillExit
  <2> QED
    BY <1>3, <2>1, ExitsExit
<1>4. CASE ExternalLeaves \/ UNCHANGED vars
  <2>1. UNCHANGED << child, current, gen, stopped, timer, co, outcome, watch, mode >>
    BY <1>4 DEF ExternalLeaves, vars, life, monitor, app
  <2> QED
    BY <2>1, StillExit
<1> QED
  BY <1>1, <1>2, <1>3, <1>4 DEF Next

\* The app exits with no backend running but one whose grace period somebody else
\* had begun: once a quit or an update has its stop under way, no start, restart
\* or retry puts a process back, for any number of starts, faults and retries.
THEOREM NoOrphan_Safety == Spec => []NoOrphan
<1>1. Inv /\ ExitInv => NoOrphan
  <2> SUFFICES ASSUME Inv, ExitInv, mode = "exited", NEW p \in Starts, proc[p] \in Running
               PROVE  \E c \in Coroutines \ {"quit", "update"} : At(c, "term") /\ co[c].on = p
    BY DEF NoOrphan
  <2>1. /\ child = None /\ p # None
        /\ co["quit"].pc = "idle" /\ co["update"].pc = "idle"
    BY Names DEF ExitInv, Closed, Closing, ModesAgree
  <2>2. PICK c \in Coroutines : co[c].pc = "term" /\ co[c].on = p
    BY <2>1 DEF Inv, NoStray, Stopping
  <2> QED
    BY <2>1, <2>2 DEF At
<1>2. Spec => [](Inv /\ ExitInv)
  BY InitInv, InitExit, NextInv, NextExit, PTL DEF Spec
<1> QED
  BY <1>1, <1>2, PTL

-----------------------------------------------------------------------------
(* What the supervision has begun belongs to somebody who will decide it: the *)
(* flag and the status of a restart to a restart in its stop, a boot that is  *)
(* pending to a start that was called, an unhealthy status to the monitor     *)
(* that has shown it, or to a stop that is about to replace it.               *)

FlagHasRestart   == restarting => co["restart"].pc \in InStop
StatusHasRestart == state = "restarting" => co["restart"].pc \in InStop \ {"stopped"}
BootHasStart     == outcome = "pending" /\ mode = "none" =>
                      watch # None /\ co[watch].pc \in Undecided \union InStop \union Settled
InGrace   == {"term", "kill", "reaped"}
Somebody  == \E c \in Coroutines : co[c].pc \in InGrace
Monitored == timer # None /\ Watches(timer) /\ ~restarting
UnhealthyIsWatched == state = "unhealthy" => Monitored \/ Somebody
NothingLeftUndecided ==
  /\ FlagHasRestart
  /\ StatusHasRestart
  /\ BootHasStart
  /\ UnhealthyIsWatched

\* A step that begins no restart, and takes none out of its stop with its status up.
Passes ==
  /\ restarting' = restarting
  /\ state' = "restarting" => state = "restarting"
  /\ \/ co'["restart"].pc = co["restart"].pc
     \/ co["restart"].pc # "idle" /\ co'["restart"].pc \in InStop \ {"stopped"}
     \/ co["restart"].pc # "idle" /\ co'["restart"].pc = "stopped" /\ state' # "restarting"

LEMMA PassesOn ==
  ASSUME FlagHasRestart, StatusHasRestart, Passes PROVE FlagHasRestart' /\ StatusHasRestart'
BY DEF FlagHasRestart, StatusHasRestart, Passes, InStop

\* A stop that is not a restart's, and a start, for anybody but restart itself.
LEMMA StopPasses ==
  ASSUME Inv, NEW c \in Coroutines \ {"restart"}, Stop(c, FALSE, state, co),
         restarting' = restarting
  PROVE  Passes
<1>1. /\ FALSE \in BOOLEAN /\ state \in States /\ co \in [Coroutines -> CoRecord]
      /\ c \in Coroutines /\ "restart" \in Coroutines \ {c}
  BY Names DEF Inv, TypeOK, CoRecord
<1>2. co'["restart"] = co["restart"]
  <2>1. \A d \in Coroutines \ {c} : co'[d] = co[d]
    BY <1>1, StopLeaves
  <2> QED BY <1>1, <2>1
<1>3. state' \in {state, "stopped"}
  BY DEF Stop
<1> QED BY <1>2, <1>3 DEF Passes

LEMMA StartPasses ==
  ASSUME Inv, NEW cos \in [Coroutines -> CoRecord], cos["restart"] = co["restart"],
         \A d \in Coroutines :
           cos[d] = co[d] \/ (d \notin Starts /\ co[d].pc # "term" /\ cos[d].pc # "term"),
         Start(cos), restarting' = restarting, proc' = proc
  PROVE  Passes
<1>1. co'["restart"] = cos["restart"]
  BY StartKeeps, Names
<1>2. state' \in {state, "starting"}
  BY DEF Start
<1> QED BY <1>1, <1>2 DEF Passes

LEMMA StartStepPasses == ASSUME Inv, NEW s \in Starts, StartStep(s) PROVE Passes
<1>1. StartFrame(s)
  BY StartMovesOwn, PortOwn, WaitOwn DEF StartStep
<1>2. co'["restart"] = co["restart"]
  BY <1>1, Names DEF StartFrame
<1>3. restarting' = restarting
  BY DEF StartStep, PortChecked, Probed, HealthSeen, WaitFails, FailedStartStopped,
         VersionAnswered, Handshake, monitor
<1>4. state' = "restarting" => state = "restarting"
  BY DEF StartStep, PortChecked, Probed, HealthSeen, WaitFails, FailedStartStopped,
         VersionAnswered, Handshake, End, Spawn, Stop
<1> QED BY <1>2, <1>3, <1>4 DEF Passes

LEMMA KillPasses ==
  ASSUME Inv, NEW c \in Coroutines, GraceOver(c) \/ SettleOver(c) \/ Reaped(c) PROVE Passes
<1>1. /\ co \in [Coroutines -> CoRecord] /\ restarting' = restarting /\ "restart" \in Coroutines
  BY Names DEF Inv, TypeOK, CoRecord, GraceOver, SettleOver, Reaped, monitor
<1>2. CASE GraceOver(c) \/ SettleOver(c)
  <2>1. /\ state' = state /\ co[c].pc # "idle"
        /\ co'[c].pc \in {"kill", "reaped"} /\ \A d \in Coroutines \ {c} : co'[d] = co[d]
    BY <1>1, <1>2 DEF GraceOver, SettleOver, At, Goto, CoRecord
  <2> QED BY <1>1, <2>1 DEF Passes, InStop
<1>3. CASE Reaped(c)
  <2>1. state' = "stopped" /\ co[c].pc # "idle" /\ Ended(co', co, c, gen) /\ gen \in Nat
    BY <1>3 DEF Reaped, At, Ended, Inv, TypeOK
  <2>2. co'[c].pc = "stopped" /\ \A d \in Coroutines \ {c} : co'[d] = co[d]
    BY <1>1, <2>1, EndedFields
  <2> QED BY <1>1, <2>1, <2>2 DEF Passes, InStop
<1> QED BY <1>2, <1>3

LEMMA ExitsPasses == ASSUME Inv, NEW p \in Starts, Exits(p) PROVE Passes
<1>1. /\ restarting' = restarting /\ state' \in {state, "error"}
      /\ co["restart"] \in CoRecord /\ "restart" # p
  BY Names DEF Exits, monitor, Inv, TypeOK, CoRecord
<1>2. \/ co'["restart"] = co["restart"]
      \/ "restart" \in Ending(p) /\ co'["restart"] = [co["restart"] EXCEPT !.pc = "reaped"]
  BY <1>1, Names DEF Exits
<1> QED BY <1>1, <1>2 DEF Passes, Ending, InStop, CoRecord

-----------------------------------------------------------------------------
\* The restart's own steps: it begins with its flag, its status and its stop, and
\* takes the flag down as it goes on.
LEMMA TickDecides ==
  ASSUME Inv, FlagHasRestart, StatusHasRestart, TickBegins \/ TickReads
  PROVE  FlagHasRestart' /\ StatusHasRestart'
<1>1. co \in [Coroutines -> CoRecord] /\ Tick \in Coroutines /\ Tick # "restart"
  BY Names DEF Inv, TypeOK, CoRecord, Tick
<1> DEFINE cos == [co EXCEPT ![Tick].pc = "idle"]
<1>2. cos \in [Coroutines -> CoRecord] /\ cos["restart"] = co["restart"]
  <2>1. Left(cos, co, Tick)
    BY DEF Left
  <2> HIDE DEF cos
  <2> QED BY <1>1, <2>1, LeftFields, Names
<1>3. CASE TickBegins
  <2>1. /\ UNCHANGED << restarting, state >>
        /\ co' = [co EXCEPT ![Tick].pc = "read", ![Tick].gen = timer]
    BY <1>3 DEF TickBegins, monitor
  <2>2. co'["restart"] = co["restart"]
    BY <1>1, <2>1, Names
  <2> QED BY <2>1, <2>2, PassesOn DEF Passes
<1>4. CASE TickReads
  <2>1. \/ co' = cos /\ restarting' = restarting /\ (state' = "restarting" => state = "restarting")
        \/ /\ ~restarting /\ restarting' /\ Stop("restart", TRUE, "restarting", cos)
    BY <1>4 DEF TickReads, TickStale, TickHealthy, TickMissed, Restart, Goto, monitor
  <2> HIDE DEF cos
  <2>2. CASE co' = cos /\ restarting' = restarting /\ (state' = "restarting" => state = "restarting")
    BY <1>2, <2>2, PassesOn DEF Passes
  <2>3. CASE ~restarting /\ restarting' /\ Stop("restart", TRUE, "restarting", cos)
    <3>1. TRUE \in BOOLEAN /\ "restarting" \in States
      BY DEF States
    <3>2. co'["restart"].pc \in InStop
      BY <1>2, <2>3, <3>1, StopLeaves, Names
    <3>3. CASE child = None
      BY <2>3, <3>2, <3>3 DEF Stop, Preserved, FlagHasRestart, StatusHasRestart
    <3>4. CASE child # None
      <4>1. PICK pc \in {"reaped", "term", "kill"} : co' = [cos EXCEPT !["restart"].pc = pc, !["restart"].on = child]
        BY <2>3, <3>4 DEF Stop
      <4>2. co'["restart"].pc = pc
        BY <1>2, <4>1, Names DEF CoRecord
      <4> QED BY <3>2, <4>2 DEF FlagHasRestart, StatusHasRestart, InStop
    <3> QED BY <3>3, <3>4
  <2> QED BY <2>1, <2>2, <2>3
<1> QED BY <1>3, <1>4

LEMMA ResumeDecides ==
  ASSUME Inv, FlagHasRestart, StatusHasRestart, RestartResumes
  PROVE  FlagHasRestart' /\ StatusHasRestart'
<1>1. /\ co["restart"].pc = "stopped" /\ ~restarting' /\ state' \in {state, "starting"}
  BY DEF RestartResumes, At, Start
<1> QED BY <1>1 DEF FlagHasRestart, StatusHasRestart, InStop

\* The steps of the app neither begin a restart nor end one.
LEMMA AppPasses ==
  ASSUME Inv, \/ Boot \/ BootSettled \/ RetryResumes \/ QuitResumes \/ Installs \/ InstallFails
              \/ Recovered \/ Retry \/ Quit \/ Update
  PROVE  Passes
<1>1. /\ co \in [Coroutines -> CoRecord]
      /\ \A c \in {"retry", "quit", "update"} : c \in Coroutines \ {"restart"}
      /\ "restart" \in Coroutines
  BY Names DEF Inv, TypeOK, CoRecord
<1>2. ASSUME NEW c \in {"retry", "quit", "update"}, Stop(c, FALSE, state, co),
             restarting' = restarting
      PROVE  Passes
  BY <1>1, <1>2, StopPasses
<1>3. CASE Retry \/ Quit \/ Update
  BY <1>2, <1>3 DEF Retry, Quit, Update
<1>4. CASE BootSettled
  BY <1>4 DEF BootSettled, monitor, Passes
<1>5. CASE QuitResumes \/ Installs
  <2>1. PICK c \in {"quit", "update"} : co' = [co EXCEPT ![c].pc = "idle"] /\ UNCHANGED << restarting, state >>
    BY <1>5 DEF QuitResumes, Installs, Goto, monitor
  <2>2. co'["restart"] = co["restart"]
    BY <1>1, <2>1
  <2> QED BY <2>1, <2>2 DEF Passes
<1>6. CASE Recovered
  <2>1. Joined(co', co, "update", "idle", None) /\ UNCHANGED << restarting, state >>
    BY <1>6 DEF Recovered, Joined, monitor
  <2>2. "idle" \in Pcs
    BY DEF Pcs
  <2>3. co'["restart"] = co["restart"]
    BY <1>1, <2>1, <2>2, JoinedFields
  <2> QED BY <2>1, <2>3 DEF Passes
<1>7. CASE Boot
  BY <1>1, <1>7, StartPasses DEF Boot, StartBackendBoot, monitor, world
<1>8. CASE RetryResumes
  <2> DEFINE cos == [co EXCEPT !["retry"].pc = "idle"]
  <2>1. /\ Start(cos) /\ co["retry"].pc = "stopped" /\ Left(cos, co, "retry")
        /\ UNCHANGED << restarting, proc >>
    BY <1>8 DEF RetryResumes, StartBackendBoot, At, Left, monitor, world
  <2> HIDE DEF cos
  <2>2. /\ cos \in [Coroutines -> CoRecord] /\ cos["retry"].pc = "idle"
        /\ \A d \in Coroutines \ {"retry"} : cos[d] = co[d]
    BY <1>1, <2>1, LeftFields
  <2> QED BY <1>1, <2>1, <2>2, StartPasses, Names
<1>9. CASE InstallFails
  <2> DEFINE cos == [co EXCEPT !["update"].pc = "recover", !["update"].on = Called]
  <2>1. /\ Start(cos) /\ co["update"].pc = "stopped" /\ Joined(cos, co, "update", "recover", Called)
        /\ UNCHANGED << restarting, proc >>
    BY <1>9 DEF InstallFails, At, Joined, monitor, world
  <2>2. "recover" \in Pcs /\ Called \in Starts \union {None}
    <3>1. CASE current # None
      BY <3>1 DEF Called, Pcs, Inv, TypeOK
    <3>2. CASE current = None
      <4>1. \E s \in Starts : co[s].pc = "unborn"
        BY <2>1, <3>2 DEF Start
      <4> QED BY <3>2, <4>1 DEF Called, Fresh, Pcs
    <3> QED BY <3>1, <3>2
  <2> HIDE DEF cos
  <2>3. /\ cos \in [Coroutines -> CoRecord] /\ cos["update"].pc = "recover"
        /\ \A d \in Coroutines \ {"update"} : cos[d] = co[d]
    BY <1>1, <2>1, <2>2, JoinedFields
  <2> QED BY <1>1, <2>1, <2>3, StartPasses, Names
<1> QED BY <1>3, <1>4, <1>5, <1>6, <1>7, <1>8, <1>9

-----------------------------------------------------------------------------
\* A boot is pending from the call of its start until that start has settled.
Watched == outcome = "pending" /\ mode = "none" => watch # None
LEMMA NextWatched == Inv /\ ExitInv /\ Watched /\ [Next]_vars => Watched'
<1> SUFFICES ASSUME Inv, ExitInv, Watched, [Next]_vars PROVE Watched'
  OBVIOUS
<1>1. UNCHANGED << outcome, watch, mode >> => Watched'
  BY DEF Watched
<1>2. CASE \/ \E s \in Starts : StartStep(s)
           \/ \E c \in Coroutines : GraceOver(c) \/ SettleOver(c) \/ Reaped(c)
           \/ TickBegins \/ TickReads \/ RestartResumes \/ InstallFails \/ UNCHANGED vars
           \/ \E p \in Starts : Boots(p) \/ Hangs(p) \/ Unhangs(p) \/ Exits(p)
           \/ ExternalLeaves
  BY <1>1, <1>2 DEF StartStep, PortChecked, Probed, HealthSeen, WaitFails, FailedStartStopped,
     VersionAnswered, Handshake, GraceOver, SettleOver, Reaped, TickBegins, TickReads,
     RestartResumes, InstallFails, vars, Boots, Hangs, Unhangs, Exits, ExternalLeaves, app
<1>3. CASE Boot \/ RetryResumes
  <2>1. watch' = Called /\ \E cos : Start(cos)
    BY <1>3 DEF Boot, RetryResumes, StartBackendBoot
  <2>2. Called \in Starts
    BY <2>1 DEF Start, Called, Fresh, Inv, TypeOK
  <2> QED BY <2>1, <2>2, Names DEF Watched
<1>4. CASE BootSettled \/ Retry \/ Quit \/ Update \/ QuitResumes \/ Installs
  BY <1>4 DEF BootSettled, Retry, Quit, Update, QuitResumes, Installs, Watched
<1>5. CASE Recovered
  <2>1. co["update"].pc # "idle" /\ outcome' = outcome
    BY <1>5 DEF Recovered, At
  <2> QED BY <2>1 DEF Inv, OneStopEach, ExitInv, ModesAgree, Watched
<1> QED BY <1>2, <1>3, <1>4, <1>5 DEF Next, MainStep

LEMMA NextRestarts ==
  Inv /\ FlagHasRestart /\ StatusHasRestart /\ [Next]_vars => FlagHasRestart' /\ StatusHasRestart'
<1> SUFFICES ASSUME Inv, FlagHasRestart, StatusHasRestart, [Next]_vars
             PROVE  FlagHasRestart' /\ StatusHasRestart'
  OBVIOUS
<1>1. CASE MainStep
  BY <1>1, PassesOn, StartStepPasses, KillPasses, TickDecides, ResumeDecides, AppPasses DEF MainStep
<1>2. CASE Retry \/ Quit \/ Update
  BY <1>2, PassesOn, AppPasses
<1>3. ASSUME NEW p \in Starts, Boots(p) \/ Hangs(p) \/ Unhangs(p) \/ Exits(p)
      PROVE  FlagHasRestart' /\ StatusHasRestart'
  <2>1. CASE Boots(p) \/ Hangs(p) \/ Unhangs(p)
    BY <2>1, PassesOn DEF Boots, Hangs, Unhangs, monitor, Passes
  <2> QED BY <1>3, <2>1, PassesOn, ExitsPasses
<1>4. CASE ExternalLeaves \/ UNCHANGED vars
  BY <1>4, PassesOn DEF ExternalLeaves, vars, monitor, Passes
<1> QED BY <1>1, <1>2, <1>3, <1>4 DEF Next

(* The unhealthy status and the monitor's read.                               *)

\* A read is of the monitor that the timer is of, or its answer will be dropped;
\* it will be if a restart began meanwhile.
ReadIsOfTimer ==
  /\ co[Tick].pc \in {"idle", "read"}
  /\ co[Tick].pc = "read" =>
       /\ co[Tick].gen <= gen
       /\ restarting => co[Tick].gen < gen
       /\ Watches(co[Tick].gen) => timer = co[Tick].gen
MonitorInv == ReadIsOfTimer /\ UnhealthyIsWatched

\* A step that leaves the read alone and the status with its monitor or its stop.
Ages ==
  \/ gen' = gen + 1
  \/ /\ gen' = gen /\ (restarting' => restarting) /\ (stopped => stopped')
     /\ timer' \in {timer, gen}
Follows ==
  /\ co'[Tick] = co[Tick] /\ Ages
  /\ state' = "unhealthy" =>
       \/ Somebody'
       \/ /\ state = "unhealthy" /\ (Somebody => Somebody')
          /\ UNCHANGED << timer, gen, stopped, restarting >>
LEMMA FollowsOn == ASSUME Inv, MonitorInv, Follows PROVE MonitorInv'
<1>0. gen \in Nat /\ co[Tick].gen \in Nat
  BY Names DEF Inv, TypeOK, CoRecord
<1>1. ReadIsOfTimer'
  BY <1>0 DEF MonitorInv, ReadIsOfTimer, Follows, Ages, Watches
<1>2. UnhealthyIsWatched'
  BY DEF MonitorInv, UnhealthyIsWatched, Follows, Monitored, Watches
<1> QED BY <1>1, <1>2 DEF MonitorInv

LEMMA StopFollows ==
  ASSUME Inv, NEW c \in Coroutines \ {Tick}, NEW shown \in States, NEW internal \in BOOLEAN,
         NEW cos \in [Coroutines -> CoRecord], Stop(c, internal, shown, cos)
  PROVE  gen' = gen + 1 /\ co'[Tick] = cos[Tick] /\ (state' = "unhealthy" => Somebody')
<1>1. gen' = gen + 1
  BY DEF Stop
<1>2. co'[Tick] = cos[Tick]
  <2>1. \A d \in Coroutines \ {c} : co'[d] = cos[d]
    BY StopLeaves
  <2> QED BY <2>1, Names
<1>3. CASE child = None
  BY <1>1, <1>2, <1>3 DEF Stop, Preserved
<1>4. CASE child # None
  <2>1. PICK pc \in InGrace : co' = [cos EXCEPT ![c].pc = pc, ![c].on = child]
    BY <1>4 DEF Stop, InGrace
  <2>2. co'[c].pc = pc
    BY <2>1 DEF CoRecord
  <2> QED BY <1>1, <1>2, <2>2 DEF Somebody
<1> QED BY <1>3, <1>4

\* A start that is joined, or a new one while the status is without its monitor.
LEMMA StartFollows ==
  ASSUME Inv, NEW cos \in [Coroutines -> CoRecord], cos[Tick] = co[Tick],
         \A d \in Coroutines : co[d].pc \in InGrace \union {"unborn"} => cos[d] = co[d],
         Start(cos), UNCHANGED timer, restarting' => restarting,
         state = "unhealthy" => Somebody
  PROVE  Follows
<1>1. CASE co' = cos /\ UNCHANGED << life, state >>
  <2>1. Somebody => Somebody'
    BY <1>1 DEF Somebody
  <2> QED BY <1>1, <2>1 DEF Follows, Ages, life
<1>2. CASE ~(co' = cos /\ UNCHANGED << life, state >>)
  <2>1. /\ current = None /\ \E s \in Starts : co[s].pc = "unborn"
        /\ gen' = gen + 1 /\ state' \in {state, "starting"}
    BY <1>2 DEF Start
  <2>2. Fresh \in Starts /\ co[Fresh].pc = "unborn" /\ Called = Fresh
    BY <2>1 DEF Fresh, Called
  <2>3. co' = [cos EXCEPT ![Fresh].pc = IF child = None THEN "port" ELSE "wait",
                          ![Fresh].gen = gen + 1]
    BY <1>2 DEF Start
  <2> DEFINE new == Fresh
             place == IF child = None THEN "port" ELSE "wait"
  <2>4. Renewed(co', cos, new, place, gen + 1)
    BY <2>3 DEF Renewed
  <2>5. /\ new \in Coroutines /\ co[new].pc = "unborn" /\ new # Tick
        /\ place \in Pcs /\ gen + 1 \in Nat
    BY <2>2, Names DEF Pcs, Inv, TypeOK
  <2> HIDE DEF new, place
  <2>6. \A d \in Coroutines \ {new} : co'[d] = cos[d]
    BY <2>4, <2>5, TwoFields
  <2>7. co'[Tick] = co[Tick]
    BY <2>5, <2>6, Names
  <2>8. Somebody => Somebody'
    <3> SUFFICES ASSUME NEW d \in Coroutines, co[d].pc \in InGrace PROVE Somebody'
      BY DEF Somebody
    <3>1. co'[d] = co[d]
      BY <2>5, <2>6 DEF InGrace
    <3> QED BY <3>1 DEF Somebody
  <2> QED BY <2>1, <2>7, <2>8 DEF Follows, Ages
<1> QED BY <1>1, <1>2

\* A step that leaves the lifecycle and the monitor alone and the stops in place.
LEMMA MoveFollows ==
  ASSUME Inv, NEW c \in Coroutines \ {Tick}, \A d \in Coroutines \ {c} : co'[d] = co[d],
         co[c].pc \notin InGrace \/ co'[c].pc \in InGrace,
         UNCHANGED << gen, stopped, timer, restarting >>,
         state' = "unhealthy" => state = "unhealthy"
  PROVE  Follows
<1>1. co'[Tick] = co[Tick]
  BY Names
<1>2. Somebody => Somebody'
  BY DEF Somebody
<1> QED BY <1>1, <1>2 DEF Follows, Ages

LEMMA StartStepFollows == ASSUME Inv, NEW s \in Starts, StartStep(s) PROVE Follows
<1>0. /\ s \in Coroutines \ {Tick} /\ co \in [Coroutines -> CoRecord] /\ state \in States
      /\ FALSE \in BOOLEAN
  BY Names DEF Inv, TypeOK, CoRecord
<1>1. /\ restarting' = restarting
      /\ co[s].pc \in {"port", "probe", "wait", "rejected", "stopped", "version", "body"}
  BY DEF StartStep, PortChecked, Probed, HealthSeen, WaitFails, FailedStartStopped,
         VersionAnswered, Handshake, At, monitor
<1>2. \A d \in Coroutines \ {s} : co'[d] = co[d]
  BY StartMovesOwn, PortOwn, WaitOwn DEF StartStep, StartFrame
<1>3. CASE Current(s) /\ WaitFails(s)
  <2>1. Stop(s, FALSE, state, co)
    BY <1>3 DEF WaitFails
  <2>2. gen' = gen + 1 /\ co'[Tick] = co[Tick] /\ (state' = "unhealthy" => Somebody')
    BY <1>0, <2>1, StopFollows
  <2> QED BY <2>2 DEF Follows, Ages
<1>4. CASE Handshake(s)
  <2>1. /\ UNCHANGED << gen, stopped >> /\ state' \in {"ready", "version_mismatch"}
        /\ timer' \in {timer, gen}
    BY <1>4 DEF Handshake
  <2>2. co'[Tick] = co[Tick]
    BY <1>0, <1>2, Names
  <2> QED BY <1>1, <2>1, <2>2 DEF Follows, Ages
<1>5. CASE ~(Current(s) /\ WaitFails(s)) /\ ~Handshake(s)
  <2>1. /\ UNCHANGED << gen, stopped, timer >> /\ (state' = "unhealthy" => state = "unhealthy")
    BY <1>5 DEF StartStep, PortChecked, Probed, HealthSeen, WaitFails, FailedStartStopped,
         VersionAnswered, End, Spawn, life, monitor
  <2> QED BY <1>0, <1>1, <1>2, <2>1, MoveFollows DEF InGrace
<1> QED BY <1>3, <1>4, <1>5

LEMMA KillFollows ==
  ASSUME Inv, MonitorInv, NEW c \in Coroutines, GraceOver(c) \/ SettleOver(c) \/ Reaped(c)
  PROVE Follows
<1>1. /\ co \in [Coroutines -> CoRecord] /\ UNCHANGED << gen, stopped, timer, restarting >>
      /\ co[c].pc \in InGrace /\ gen \in Nat
  BY DEF Inv, TypeOK, CoRecord, GraceOver, SettleOver, Reaped, monitor, life, At, InGrace
<1>2. c # Tick
  BY <1>1 DEF MonitorInv, ReadIsOfTimer, InGrace
<1>3. CASE GraceOver(c) \/ SettleOver(c)
  <2>1. /\ state' = state /\ co'[c].pc \in {"kill", "reaped"}
        /\ \A d \in Coroutines \ {c} : co'[d] = co[d]
    BY <1>1, <1>3 DEF GraceOver, SettleOver, Goto, CoRecord
  <2> QED BY <1>1, <1>2, <2>1, MoveFollows DEF InGrace
<1>4. CASE Reaped(c)
  <2>1. state' = "stopped" /\ Ended(co', co, c, gen)
    BY <1>4 DEF Reaped, Ended
  <2>2. \A d \in Coroutines \ {c} : co'[d] = co[d]
    BY <1>1, <2>1, EndedFields
  <2>3. co'[Tick] = co[Tick]
    BY <1>2, <2>2, Names
  <2> QED BY <1>1, <2>1, <2>3 DEF Follows, Ages
<1> QED BY <1>3, <1>4

LEMMA ExitsFollows == ASSUME Inv, MonitorInv, NEW p \in Starts, Exits(p) PROVE Follows
<1>1. /\ UNCHANGED << gen, stopped, timer, restarting >> /\ state' \in {state, "error"}
      /\ co \in [Coroutines -> CoRecord]
  BY DEF Exits, monitor, Inv, TypeOK, CoRecord
<1>2. \A c \in Coroutines :
        \/ co'[c] = co[c]
        \/ co'[c] = [co[c] EXCEPT !.pc = "reaped"] /\ c \in Ending(p)
        \/ co'[c] = [co[c] EXCEPT !.pc = "rejected"] /\ c = p /\ co[c].pc = "wait"
  BY Names DEF At, Exits
<1>3. co'[Tick] = co[Tick]
  BY <1>2, Names DEF Ending, MonitorInv, ReadIsOfTimer
<1>4. Somebody => Somebody'
  <2> SUFFICES ASSUME NEW d \in Coroutines, co[d].pc \in InGrace PROVE Somebody'
    BY DEF Somebody
  <2>1. co[d] \in CoRecord /\ co[d].pc # "wait"
    BY <1>1 DEF InGrace
  <2>2. co'[d] = co[d] \/ co'[d] = [co[d] EXCEPT !.pc = "reaped"]
    BY <1>2, <2>1
  <2>3. co'[d].pc \in InGrace
    BY <2>1, <2>2 DEF InGrace, CoRecord
  <2> QED BY <2>3 DEF Somebody
<1> QED BY <1>1, <1>3, <1>4 DEF Follows, Ages

LEMMA TickBeginsWatched == ASSUME Inv, MonitorInv, TickBegins PROVE MonitorInv'
<1>1. /\ co \in [Coroutines -> CoRecord] /\ UNCHANGED << gen, stopped, timer, restarting, state >>
      /\ co' = [co EXCEPT ![Tick].pc = "read", ![Tick].gen = timer]
      /\ ~restarting /\ Watches(timer) /\ gen \in Nat /\ co[Tick].pc = "idle"
  BY DEF TickBegins, Inv, TypeOK, CoRecord, life, monitor, At
<1>2. /\ co'[Tick].pc = "read" /\ co'[Tick].gen = timer
      /\ \A d \in Coroutines \ {Tick} : co'[d] = co[d]
  BY <1>1, Names DEF CoRecord
<1>3. ReadIsOfTimer'
  BY <1>1, <1>2 DEF ReadIsOfTimer, Watches
<1>4. Somebody => Somebody'
  BY <1>1, <1>2 DEF Somebody, InGrace
<1> QED BY <1>1, <1>3, <1>4 DEF MonitorInv, UnhealthyIsWatched, Monitored, Watches

\* The answer to a read: the status becomes unhealthy only under the monitor of the
\* timer, with no restart under way.
LEMMA TickReadsWatched == ASSUME Inv, MonitorInv, TickReads PROVE MonitorInv'
<1>1. /\ co \in [Coroutines -> CoRecord] /\ co[Tick].pc = "read" /\ gen \in Nat
      /\ co[Tick].gen \in Nat /\ None \notin Nat
  BY Names, SidecarAssumption DEF TickReads, At, Inv, TypeOK, CoRecord
<1> DEFINE cos == [co EXCEPT ![Tick].pc = "idle"]
<1>2. /\ cos \in [Coroutines -> CoRecord] /\ cos[Tick].pc = "idle"
      /\ \A d \in Coroutines \ {Tick} : cos[d] = co[d]
  <2>1. Left(cos, co, Tick)
    BY DEF Left
  <2> HIDE DEF cos
  <2> QED BY <1>1, <2>1, LeftFields, Names
<1>3. Watches(co[Tick].gen) => Monitored
  BY <1>1 DEF MonitorInv, ReadIsOfTimer, Watches, Monitored
<1>4. \/ /\ co' = cos /\ UNCHANGED << gen, stopped, timer, restarting >>
         /\ state' = "unhealthy" => state = "unhealthy" \/ Monitored
      \/ co' = cos /\ state' = "crashed"
      \/ Stop("restart", TRUE, "restarting", cos)
  BY <1>3 DEF TickReads, TickStale, TickHealthy, TickMissed, Restart, Goto, life, monitor, Monitored
<1> HIDE DEF cos
<1>5. CASE co' = cos
  <2>1. Somebody => Somebody'
    BY <1>1, <1>2, <1>5 DEF Somebody, InGrace
  <2>2. ReadIsOfTimer'
    BY <1>2, <1>5 DEF ReadIsOfTimer
  <2>3. UnhealthyIsWatched'
    <3>1. CASE /\ UNCHANGED << gen, stopped, timer, restarting >>
               /\ state' = "unhealthy" => state = "unhealthy" \/ Monitored
      BY <2>1, <3>1 DEF MonitorInv, UnhealthyIsWatched, Monitored, Watches
    <3>2. CASE state' = "crashed"
      BY <3>2 DEF UnhealthyIsWatched
    <3>3. CASE Stop("restart", TRUE, "restarting", cos)
      BY <3>3, <1>2, <2>2, StopFollows, Names DEF UnhealthyIsWatched, Tick, States
    <3> QED BY <1>4, <3>1, <3>2, <3>3
  <2> QED BY <2>2, <2>3 DEF MonitorInv
<1>6. CASE Stop("restart", TRUE, "restarting", cos)
  <2>1. "restart" \in Coroutines \ {Tick} /\ TRUE \in BOOLEAN /\ "restarting" \in States
    BY Names DEF Tick, States
  <2>2. co'[Tick] = cos[Tick] /\ (state' = "unhealthy" => Somebody')
    BY <1>2, <1>6, <2>1, StopFollows
  <2> QED BY <1>2, <2>2 DEF MonitorInv, ReadIsOfTimer, UnhealthyIsWatched
<1> QED BY <1>4, <1>5, <1>6

LEMMA ResumeFollows == ASSUME Inv, MonitorInv, RestartResumes PROVE Follows
<1>1. /\ co \in [Coroutines -> CoRecord] /\ co["restart"].pc = "stopped" /\ UNCHANGED timer
      /\ ~restarting' /\ restarting
  BY DEF RestartResumes, At, Inv, TypeOK, CoRecord, OneStopEach
<1>2. state = "unhealthy" => Somebody
  BY <1>1 DEF MonitorInv, UnhealthyIsWatched, Monitored
<1> DEFINE cos == [co EXCEPT !["restart"].pc = "idle"]
<1>3. /\ cos \in [Coroutines -> CoRecord]
      /\ \A d \in Coroutines \ {"restart"} : cos[d] = co[d]
  <2>1. Left(cos, co, "restart")
    BY DEF Left
  <2> HIDE DEF cos
  <2> QED BY <1>1, <2>1, LeftFields, Names
<1>4. Start(cos) \/ (co' = cos /\ UNCHANGED << life, state >>)
  BY DEF RestartResumes
<1> HIDE DEF cos
<1>5. /\ cos[Tick] = co[Tick]
      /\ \A d \in Coroutines : co[d].pc \in InGrace \union {"unborn"} => cos[d] = co[d]
  BY <1>1, <1>3, Names DEF InGrace, Tick
<1>6. CASE Start(cos)
  BY <1>1, <1>2, <1>3, <1>5, <1>6, StartFollows
<1>7. CASE co' = cos /\ UNCHANGED << life, state >>
  <2>1. Somebody => Somebody'
    BY <1>5, <1>7 DEF Somebody
  <2> QED BY <1>1, <1>2, <1>5, <1>7, <2>1 DEF Follows, Ages, life
<1> QED BY <1>4, <1>6, <1>7

\* A boot and a retry find no timer, an update that installs nothing no monitor.
LEMMA AppFollows ==
  ASSUME Inv, ExitInv, MonitorInv,
         \/ Boot \/ BootSettled \/ RetryResumes \/ QuitResumes \/ Installs \/ InstallFails
         \/ Recovered \/ Retry \/ Quit \/ Update
  PROVE  Follows
<1>1. /\ co \in [Coroutines -> CoRecord] /\ state \in States /\ FALSE \in BOOLEAN
      /\ \A c \in {"retry", "quit", "update"} : c \in Coroutines \ {Tick}
  BY Names DEF Inv, TypeOK, CoRecord, Tick
<1>2. ASSUME NEW c \in {"retry", "quit", "update"}, Stop(c, FALSE, state, co)
      PROVE  Follows
  BY <1>1, <1>2, StopFollows DEF Follows, Ages
<1>3. CASE Retry \/ Quit \/ Update
  BY <1>2, <1>3 DEF Retry, Quit, Update
<1>4. CASE BootSettled
  BY <1>4 DEF BootSettled, life, monitor, Follows, Ages, Somebody
<1>5. CASE QuitResumes \/ Installs
  <2>1. PICK c \in {"quit", "update"} :
          /\ co' = [co EXCEPT ![c].pc = "idle"] /\ co[c].pc = "stopped"
          /\ UNCHANGED << gen, stopped, timer, restarting, state >>
    BY <1>5 DEF QuitResumes, Installs, Goto, At, life, monitor
  <2>2. \A d \in Coroutines \ {c} : co'[d] = co[d]
    BY <1>1, <2>1
  <2> QED BY <1>1, <2>1, <2>2, MoveFollows DEF InGrace
<1>6. CASE Recovered
  <2>1. /\ Joined(co', co, "update", "idle", None) /\ co["update"].pc = "recover"
        /\ UNCHANGED << gen, stopped, timer, restarting, state >> /\ "idle" \in Pcs
    BY <1>6 DEF Recovered, Joined, At, life, monitor, Pcs
  <2>2. \A d \in Coroutines \ {"update"} : co'[d] = co[d]
    <3>1. co \in [Coroutines -> CoRecord] /\ "idle" \in Pcs
      BY <1>1, <2>1
    <3>2. Joined(co', co, "update", "idle", None)
      BY <2>1
    <3> QED BY <3>1, <3>2, JoinedFields, Names
  <2> QED BY <1>1, <2>1, <2>2, MoveFollows DEF InGrace
<1>7. CASE Boot
  <2>1. state = "unhealthy" => Somebody
    BY <1>7 DEF Boot, ExitInv, NotBegun, MonitorInv, UnhealthyIsWatched, Monitored
  <2> QED BY <1>1, <1>7, <2>1, StartFollows DEF Boot, StartBackendBoot, monitor
<1>8. CASE RetryResumes
  <2> DEFINE cos == [co EXCEPT !["retry"].pc = "idle"]
  <2>1. /\ Start(cos) /\ co["retry"].pc = "stopped" /\ Left(cos, co, "retry")
        /\ UNCHANGED << timer, restarting >>
    BY <1>8 DEF RetryResumes, StartBackendBoot, At, Left, monitor
  <2> HIDE DEF cos
  <2>2. /\ cos \in [Coroutines -> CoRecord] /\ \A d \in Coroutines \ {"retry"} : cos[d] = co[d]
    BY <1>1, <2>1, LeftFields
  <2>3. state = "unhealthy" => Somebody
    BY <2>1 DEF ExitInv, RetryAlone, NotBegun, MonitorInv, UnhealthyIsWatched, Monitored
  <2>4. /\ cos[Tick] = co[Tick]
        /\ \A d \in Coroutines : co[d].pc \in InGrace \union {"unborn"} => cos[d] = co[d]
    BY <1>1, <2>1, <2>2, Names DEF InGrace
  <2> QED BY <2>1, <2>2, <2>3, <2>4, StartFollows
<1>9. CASE InstallFails
  <2> DEFINE cos == [co EXCEPT !["update"].pc = "recover", !["update"].on = Called]
  <2>1. /\ Start(cos) /\ co["update"].pc = "stopped" /\ Joined(cos, co, "update", "recover", Called)
        /\ UNCHANGED << timer, restarting >>
    BY <1>9 DEF InstallFails, At, Joined, monitor
  <2>2. "recover" \in Pcs /\ Called \in Starts \union {None}
    <3>1. CASE current # None
      BY <3>1 DEF Called, Pcs, Inv, TypeOK
    <3>2. CASE current = None
      <4>1. \E s \in Starts : co[s].pc = "unborn"
        BY <2>1, <3>2 DEF Start
      <4> QED BY <3>2, <4>1 DEF Called, Fresh, Pcs
    <3> QED BY <3>1, <3>2
  <2> HIDE DEF cos
  <2>3. /\ cos \in [Coroutines -> CoRecord] /\ \A d \in Coroutines \ {"update"} : cos[d] = co[d]
    BY <1>1, <2>1, <2>2, JoinedFields
  <2>4. state = "unhealthy" => Somebody
    BY <2>1 DEF ExitInv, Closed, Closing, InStop, MonitorInv, UnhealthyIsWatched, Monitored, Watches
  <2>5. /\ cos[Tick] = co[Tick]
        /\ \A d \in Coroutines : co[d].pc \in InGrace \union {"unborn"} => cos[d] = co[d]
    BY <1>1, <2>1, <2>3, Names DEF InGrace
  <2> QED BY <2>1, <2>3, <2>4, <2>5, StartFollows
<1> QED BY <1>3, <1>4, <1>5, <1>6, <1>7, <1>8, <1>9

LEMMA NextMonitor == Inv /\ ExitInv /\ MonitorInv /\ [Next]_vars => MonitorInv'
<1> SUFFICES ASSUME Inv, ExitInv, MonitorInv, [Next]_vars PROVE MonitorInv'
  OBVIOUS
<1>1. CASE MainStep
  BY <1>1, FollowsOn, StartStepFollows, KillFollows, TickBeginsWatched, TickReadsWatched,
     ResumeFollows, AppFollows DEF MainStep
<1>2. CASE Retry \/ Quit \/ Update
  BY <1>2, FollowsOn, AppFollows
<1>3. ASSUME NEW p \in Starts, Boots(p) \/ Hangs(p) \/ Unhangs(p) \/ Exits(p) PROVE MonitorInv'
  <2>1. CASE Boots(p) \/ Hangs(p) \/ Unhangs(p)
    BY <2>1, FollowsOn DEF Boots, Hangs, Unhangs, life, monitor, Follows, Ages, Somebody
  <2> QED BY <1>3, <2>1, FollowsOn, ExitsFollows
<1>4. CASE ExternalLeaves \/ UNCHANGED vars
  BY <1>4, FollowsOn DEF ExternalLeaves, vars, life, monitor, Follows, Ages, Somebody
<1> QED BY <1>1, <1>2, <1>3, <1>4 DEF Next

\* NothingLeftUndecided holds of every behaviour: a restart's flag and status stand
\* only while that restart is in its stop, which takes them down; a pending boot has
\* a start that was called; an unhealthy status has a monitor that still watches, or
\* a stop under way. For any number of starts, faults, restarts and retries.
THEOREM NothingLeftUndecided_Safety == Spec => []NothingLeftUndecided
<1>1. Init => FlagHasRestart /\ StatusHasRestart /\ Watched
  BY DEF Init, FlagHasRestart, StatusHasRestart, Watched
<1>2. Init => MonitorInv
  BY Names DEF Init, MonitorInv, ReadIsOfTimer, UnhealthyIsWatched
<1>3. Spec => [](Inv /\ ExitInv)
  BY InitInv, InitExit, NextInv, NextExit, PTL DEF Spec
<1>4. Spec => [](FlagHasRestart /\ StatusHasRestart /\ Watched)
  BY <1>1, <1>3, NextRestarts, NextWatched, PTL DEF Spec
<1>5. Spec => []MonitorInv
  BY <1>2, <1>3, NextMonitor, PTL DEF Spec
<1>6. ExitInv /\ Watched => BootHasStart
  BY DEF ExitInv, FirstStart, Watched, BootHasStart
<1>7. MonitorInv => UnhealthyIsWatched
  BY DEF MonitorInv
<1> QED
  BY <1>3, <1>4, <1>5, <1>6, <1>7, PTL DEF NothingLeftUndecided
=============================================================================
