----------------------------- MODULE Workflows -----------------------------
(***************************************************************************)
(* Launcher workflows: the store that keeps them with their approval, the   *)
(* registry of applications they may name, and the native dialogs in which  *)
(* the user says yes (backend/services/workflow_store.py, approvals.py,     *)
(* action_validator.py, api/routes/actions.py; app/src/main/                *)
(* approvalBroker.js, applicationRegistry.js, ipc.js).                      *)
(*                                                                          *)
(* A call is one invocation of an IPC handler of the Electron main process: *)
(* it keeps what it read across its waits, for the backend's answer or for  *)
(* the user; between two waits the main process runs it alone.  Digests are *)
(* taken as what they digest, a ticket as the call that carries it.         *)
(*                                                                          *)
(* A run ends where its preview is read: the backend's answer has no steps, *)
(* and the broker refuses one without (Reviewed).  So nothing here follows  *)
(* the dialog of a run.                                                     *)
(***************************************************************************)
EXTENDS Naturals, Sequences, FiniteSets

CONSTANTS
  Ids,      \* the ids of workflows
  Apps,     \* the ids of applications
  Entries,  \* what an application id can stand for: a name, and what it starts
  Plans,    \* the lists of steps that a workflow may have
  Calls,    \* bound: the handlers that run at a time
  None

NeedsApp == {"launch", "focus", "wait"}
Does     == NeedsApp \union {"other"}
Step     == [do : Does, app : Apps \union {None}]

ASSUME WorkflowsAssumption ==
  /\ \A e \in Entries : DOMAIN e = {"name", "target"}
  /\ \A p \in Plans : p \in Seq(Step) /\ p # <<>>
  /\ \A p \in Plans : \A i \in DOMAIN p : p[i].do \in NeedsApp => p[i].app \in Apps
  /\ None \notin Entries \union Calls \union Ids \union Apps

VARIABLES
  store,     \* launcher_workflows.json: the saved workflows
  registry,  \* application_registry.json: the confirmed applications
  past,      \* its identity history: what a removed id stood for
  call,      \* the handlers that run
  gap,       \* a dialog has closed less than MIN_DIALOG_GAP_MS ago
  read       \* auxiliary: what the user was shown and approved

files == << store, registry, past >>
vars  == << files, call, gap, read >>

Kinds == {"approve", "run", "change", "remove"}
Pcs   == {"idle", "asked", "dialog", "posting"}

\* What a handler keeps: the registry it sent, the plan and the lines it shows;
\* the entry it writes, the one shown before and the one expected.
Idle == [pc |-> "idle", kind |-> None, id |-> None, reg |-> None, plan |-> <<>>, lines |-> <<>>,
         app |-> None, entry |-> None, before |-> None, expect |-> None]

Init ==
  /\ store = [w \in Ids |-> None]
  /\ registry = [a \in Apps |-> None] /\ past = [a \in Apps |-> None]
  /\ call = [c \in Calls |-> Idle]
  /\ gap = FALSE /\ read = {}

At(c, pc, kinds) == call[c].pc = pc /\ call[c].kind \in kinds
Become(c, r) == call' = [call EXCEPT ![c] = r]
-----------------------------------------------------------------------------
(* The workflow store and its run gate.                                     *)

\* One line of a preview, by what it tells of the application it names.
Shown(s, e) ==
  (IF s.do \in NeedsApp THEN {e.name} ELSE {}) \union (IF s.do = "launch" THEN {e.target} ELSE {})
Line(s, reg) == [step |-> s, shown |-> Shown(s, IF s.do \in NeedsApp THEN reg[s.app] ELSE None)]
Preview(p, reg) == [i \in DOMAIN p |-> Line(p[i], reg)]

Valid(p, reg) == \A i \in DOMAIN p : p[i].do \in NeedsApp => reg[p[i].app] # None

CanRun(rec, lines) == rec.enabled /\ rec.approved # None /\ rec.approved = lines

\* An edit of the steps revokes the approval.
Kept(rec, p) == IF rec # None /\ rec.plan = p THEN rec.approved ELSE None

Save(w, p, on) ==
  /\ store' = [store EXCEPT ![w] = [plan |-> p, enabled |-> on, approved |-> Kept(store[w], p)]]
  /\ UNCHANGED << registry, past, call, gap, read >>

SetEnabled(w, on) ==
  /\ store[w] # None /\ store[w].enabled # on
  /\ store' = [store EXCEPT ![w].enabled = on]
  /\ UNCHANGED << registry, past, call, gap, read >>

Delete(w) ==
  /\ store[w] # None
  /\ store' = [store EXCEPT ![w] = None]
  /\ UNCHANGED << registry, past, call, gap, read >>

\* A privacy wipe deletes one file after the other.
WipeWorkflows ==
  /\ store' = [w \in Ids |-> None]
  /\ UNCHANGED << registry, past, call, gap, read >>
WipeRegistry ==
  /\ registry' = [a \in Apps |-> None] /\ past' = [a \in Apps |-> None]
  /\ UNCHANGED << store, call, gap, read >>
-----------------------------------------------------------------------------
(* The dialogs.  One is shown at a time, and none right after another: a    *)
(* handler that comes too early is refused.                                 *)

CanAsk == ~gap /\ \A c \in Calls : call[c].pc # "dialog"
Ask(c, r) == Become(c, IF CanAsk THEN [r EXCEPT !.pc = "dialog"] ELSE Idle)

\* Cancel, Escape, a closed window, or Close on a text too long to show.
Cancel(c) ==
  /\ At(c, "dialog", Kinds)
  /\ Become(c, Idle) /\ gap' = TRUE
  /\ UNCHANGED << files, read >>

GapOver == gap /\ gap' = FALSE /\ UNCHANGED << files, call, read >>

\* The backend cannot be reached, answers too late, or refuses the request (one
\* that it serves after its caller gave up counts as still under way).
Unanswered(c) ==
  /\ At(c, "asked", Kinds \ {"change"}) \/ At(c, "posting", {"approve"})
  /\ Become(c, Idle)
  /\ UNCHANGED << files, gap, read >>

\* approveWorkflow and confirmWorkflowRun send the registry as they know it.
AskReview(c, kind, w) ==
  /\ call[c] = Idle
  /\ Become(c, [Idle EXCEPT !.pc = "asked", !.kind = kind, !.id = w, !.reg = registry])
  /\ UNCHANGED << files, gap, read >>

\* What POST /workflows/preview answers with.
PreviewAnswer == {"ok", "workflow_id", "name", "preview_lines", "preview_sha256", "steps_sha256",
                  "refusals", "outward", "runnable"}

\* A run needs an approval that still holds, and the steps themselves.
Confirmable(rec, lines) == CanRun(rec, lines) /\ "steps" \in PreviewAnswer

Reviewed(c) ==
  /\ At(c, "asked", {"approve", "run"})
  /\ LET me    == call[c]
         rec   == store[me.id]
         lines == Preview(rec.plan, me.reg)
         ok    == /\ rec # None /\ Valid(rec.plan, me.reg)
                  /\ me.kind = "run" => Confirmable(rec, lines)
     IN  IF ok THEN Ask(c, [me EXCEPT !.plan = rec.plan, !.lines = lines, !.reg = None])
               ELSE Become(c, Idle)
  /\ UNCHANGED << files, gap, read >>

ClickApprove(c) ==
  /\ At(c, "dialog", {"approve"})
  /\ Become(c, [call[c] EXCEPT !.pc = "posting"])
  /\ read' = read \union {[id |-> call[c].id, plan |-> call[c].plan, lines |-> call[c].lines]}
  /\ gap' = TRUE
  /\ UNCHANGED files

\* Mutant: the ticket is not compared with the stored steps.
GrantsAny(rec, me) == rec # None

\* The ticket is for the steps that are stored, or it is refused.
Grants(rec, me) == rec # None /\ rec.plan = me.plan

ApprovalArrives(c) ==
  /\ At(c, "posting", {"approve"})
  /\ store' = IF Grants(store[call[c].id], call[c])
              THEN [store EXCEPT ![call[c].id].approved = call[c].lines] ELSE store
  /\ Become(c, Idle)
  /\ UNCHANGED << registry, past, gap, read >>
-----------------------------------------------------------------------------
(* The application registry.                                                *)

\* Mutant: the entry is written whatever is stored by then.
RegisterBlind(a, e, expect) ==
  /\ registry' = [registry EXCEPT ![a] = e] /\ past' = [past EXCEPT ![a] = None]

\* Mutant: what the id stood for is not forgotten.
RegisterUnforgotten(a, e, expect) ==
  IF registry[a] = expect THEN registry' = [registry EXCEPT ![a] = e] /\ UNCHANGED past
  ELSE UNCHANGED << registry, past >>

Register(a, e, expect) ==
  IF registry[a] = expect
  THEN registry' = [registry EXCEPT ![a] = e] /\ past' = [past EXCEPT ![a] = None]
  ELSE UNCHANGED << registry, past >>

Deregister(a, expect) ==
  IF registry[a] = expect
  THEN registry' = [registry EXCEPT ![a] = None] /\ past' = [past EXCEPT ![a] = expect]
  ELSE UNCHANGED << registry, past >>

\* A new id: the workflows are asked whether one of them names it.
AskAdd(c, a, e) ==
  /\ call[c] = Idle /\ registry[a] = None
  /\ Become(c, [Idle EXCEPT !.pc = "asked", !.kind = "change", !.app = a,
                            !.entry = e, !.before = past[a], !.expect = None])
  /\ UNCHANGED << files, gap, read >>

\* Another entry for a known id: shown at once.
AskReplace(c, a, e) ==
  /\ call[c] = Idle /\ registry[a] \notin {None, e} /\ CanAsk
  /\ Become(c, [Idle EXCEPT !.pc = "dialog", !.kind = "change", !.app = a,
                            !.entry = e, !.before = registry[a], !.expect = registry[a]])
  /\ UNCHANGED << files, gap, read >>

AskRemove(c, a) ==
  /\ call[c] = Idle /\ registry[a] # None
  /\ Become(c, [Idle EXCEPT !.pc = "asked", !.kind = "remove", !.app = a,
                            !.entry = None, !.before = registry[a], !.expect = registry[a]])
  /\ UNCHANGED << files, gap, read >>

\* The workflows are read, or they are not and any of them may name the id.
Names(a) ==
  \E w \in Ids : store[w] # None /\ \E i \in DOMAIN store[w].plan : store[w].plan[i].app = a

Named(c) ==
  /\ At(c, "asked", {"change", "remove"})
  /\ \E named \in {Names(call[c].app), TRUE} :
       IF call[c].kind = "change" /\ call[c].before = None /\ ~named
       THEN /\ Register(call[c].app, call[c].entry, None)
            /\ Become(c, Idle)
       ELSE Ask(c, call[c]) /\ UNCHANGED << registry, past >>
  /\ UNCHANGED << store, gap, read >>

ClickChange(c) ==
  /\ At(c, "dialog", {"change"})
  /\ Register(call[c].app, call[c].entry, call[c].expect)
  /\ Become(c, Idle) /\ gap' = TRUE
  /\ UNCHANGED << store, read >>

ClickRemove(c) ==
  /\ At(c, "dialog", {"remove"})
  /\ Deregister(call[c].app, call[c].expect)
  /\ Become(c, Idle) /\ gap' = TRUE
  /\ UNCHANGED << store, read >>
-----------------------------------------------------------------------------
Dashboard ==
  \/ \E w \in Ids : \/ \E p \in Plans, on \in BOOLEAN : Save(w, p, on)
                    \/ \E on \in BOOLEAN : SetEnabled(w, on)
                    \/ Delete(w)
  \/ WipeWorkflows \/ WipeRegistry

Review(c) ==
  \/ \E kind \in {"approve", "run"}, w \in Ids : AskReview(c, kind, w)
  \/ Reviewed(c) \/ ClickApprove(c) \/ ApprovalArrives(c)

Applications(c) ==
  \/ \E a \in Apps : \/ \E e \in Entries : AskAdd(c, a, e) \/ AskReplace(c, a, e)
                     \/ AskRemove(c, a)
  \/ Named(c) \/ ClickChange(c) \/ ClickRemove(c)

Next ==
  \/ Dashboard \/ GapOver
  \/ \E c \in Calls : Review(c) \/ Applications(c) \/ Cancel(c) \/ Unanswered(c)

Spec == Init /\ [][Next]_vars
-----------------------------------------------------------------------------
Maybe(S)  == S \union {None}
Registry  == [Apps -> Maybe(Entries)]
LineSet   == [step : Step, shown : SUBSET UNION {{e.name, e.target} : e \in Entries}]
Record    == [plan : Plans, enabled : BOOLEAN, approved : Maybe(Seq(LineSet))]
CallSet   == [pc : Pcs, kind : Maybe(Kinds), id : Maybe(Ids), reg : Maybe(Registry),
              plan : Plans \union {<<>>}, lines : Seq(LineSet), app : Maybe(Apps),
              entry : Maybe(Entries), before : Maybe(Entries), expect : Maybe(Entries)]

TypeOK ==
  /\ store \in [Ids -> Maybe(Record)]
  /\ registry \in Registry /\ past \in Registry
  /\ \A a \in Apps : registry[a] = None \/ past[a] = None
  /\ gap \in BOOLEAN
  /\ read \subseteq [id : Ids, plan : Plans, lines : Seq(LineSet)]
  /\ call \in [Calls -> CallSet]

\* A workflow is marked approved only with steps and lines that the user read
\* together and approved, though it may have been edited, deleted, made anew or
\* wiped, and its applications replaced, between the preview, the click and the
\* arrival of the ticket (approvalBroker.js approveWorkflow, workflow_store.py
\* approve).
ApprovedAsRead ==
  \A w \in Ids : store[w] # None /\ store[w].approved # None =>
    [id |-> w, plan |-> store[w].plan, lines |-> store[w].approved] \in read

\* What an application id stands for is changed or taken away only by a click
\* on a dialog that showed exactly what is replaced and by what, or by a wipe.
Answered(a) ==
  \E c \in Calls :
    /\ call[c].pc = "dialog" /\ call[c].app = a /\ call[c].before = registry[a]
    /\ registry'[a] = IF call[c].kind = "change" THEN call[c].entry ELSE None
    /\ call'[c].pc = "idle"
ChangesAreShown ==
  [][\A a \in Apps : registry[a] \notin {None, registry'[a]} =>
       Answered(a) \/ \A b \in Apps : registry'[b] = None /\ past'[b] = None]_vars
=============================================================================
