----------------------------- MODULE DraftSend -----------------------------
(***************************************************************************)
(* The send path of a draft: server.py send_draft_by_id and the primary    *)
(* action, the draft routes that touch a draft while it is being sent, the *)
(* output coordinator that a privacy wipe drains, the wipe's own steps     *)
(* around it, and a crash of the sidecar with the startup recovery.        *)
(*                                                                         *)
(* One event loop (Loop) runs every async route to completion, so routes   *)
(* interleave with one another only between requests; the primary action   *)
(* and the Library delete run on thread-pool threads (Workers) and the     *)
(* wipe on threads of its own (Wipers).  `mem' is draft_queue, `disk' is   *)
(* the record of each draft that load_history would read back.             *)
(***************************************************************************)
EXTENDS Naturals, FiniteSets, SequencesExt

CONSTANTS
  Drafts,       \* draft ids
  Texts,        \* contents a draft's final_text may have
  Loop,         \* the event-loop thread
  Workers,      \* thread-pool threads
  Wipers,       \* threads running _perform_privacy_wipe
  None,         \* no draft, no text, no holder
  Routes,       \* which of the draft-changing routes the environment calls
  SaveMayFail   \* whether a save may be swallowed by its except branch

RouteNames == {"accept", "decline", "edit", "rewrite", "delete", "stop"}
Threads    == {Loop} \union Workers

ASSUME DraftSendAssumption ==
  /\ Loop \notin Workers
  /\ None \notin Drafts \union Texts \union Threads \union Wipers
  /\ Routes \subseteq RouteNames
  /\ SaveMayFail \in BOOLEAN

VARIABLES
  mem,        \* draft_queue: a record per draft
  disk,       \* what a restart would load
  owner,      \* send_operation_id: the thread whose send reserved the draft
  queue,      \* pending_manual_send_ids
  thr,        \* per thread: program counter and locals
  active,     \* OutputCoordinator._active
  cancel,     \* OutputCoordinator._cancel
  lease,      \* OutputCoordinator._lease_held
  wiping,     \* privacy_wipe_in_progress
  gate,       \* holder of the dictation gate among the wipers
  wp,         \* per wiper: program counter
  landed,     \* history: texts placed since the user last acted on the draft
  reopened,   \* history: drafts a route took out of "sending" during a send
  erased      \* history: a wipe has verified its deletion

ghosts == << landed, reopened, erased >>
coord  == << active, cancel, lease >>
wipeVs == << wiping, gate, wp >>
vars   == << mem, disk, owner, queue, thr, coord, wipeVs, ghosts >>
-----------------------------------------------------------------------------
Statuses == {"absent", "pending", "accepted", "declined", "sending", "sent",
             "send_error", "send_interrupted"}
DraftRec == [status : Statuses, text : Texts \union {None}, pending : BOOLEAN]
Absent   == [status |-> "absent", text |-> None, pending |-> FALSE]

Vias    == {"copy", "approved", "displayed", "queued"}
Results == {"none", "ok", "fail", "interrupt", "refused", "unapproved", "raised"}
SendPcs == {"register", "claim", "mark", "place", "settle", "persist", "end"}
ThrPcs  == SendPcs \union {"idle", "save", "rewrite", "delete", "archive", "unlist"}
ThrRec  == [pc : ThrPcs, draft : Drafts \union {None}, via : Vias \union {None},
            seen : Texts \union {None}, text : Texts \union {None}, result : Results]
Idle    == [pc |-> "idle", draft |-> None, via |-> None, seen |-> None,
            text |-> None, result |-> "none"]

WipePcs   == {"idle", "set", "gate", "cancel", "drain", "tts", "clear", "delete",
              "release", "ungate", "unflag"}
Gated     == {"cancel", "drain", "tts", "clear", "delete", "release", "ungate"}
Leased    == {"tts", "clear", "delete", "release"}
\* Between begin_send and end_send.
Registered == {"claim", "mark", "place", "settle", "persist", "end"}
\* A reservation is held and its text is not yet accounted for.
Placing    == {"mark", "place", "settle"}

Present(d) == mem[d].status # "absent"
Goto(t, pc) == thr' = [thr EXCEPT ![t].pc = pc]
Finish(t)   == thr' = [thr EXCEPT ![t] = Idle]

\* save_draft_history(changed_draft_id = d): the row of d as memory has it at
\* the write; a failure is logged and swallowed.
SaveOne(d) ==
  \/ disk' = IF Present(d) THEN [disk EXCEPT ![d] = mem[d]] ELSE disk
  \/ SaveMayFail /\ disk' = disk

\* mark_draft_pending_send
EnlistTwice(q, d) == Append(q, d)
Enlist(q, d) == IF Contains(q, d) THEN q ELSE Append(q, d)
\* while d in the list: remove(d).  The list has no id twice, so one removal ends it.
Unlisted(q, d) == RemoveFirst(q, d)
-----------------------------------------------------------------------------
Init ==
  /\ \E x \in Texts :
       mem = [d \in Drafts |-> [status |-> "pending", text |-> x, pending |-> FALSE]]
  /\ disk = mem
  /\ owner = [d \in Drafts |-> None]
  /\ queue = << >>
  /\ thr = [t \in Threads |-> Idle]
  /\ active = {} /\ cancel = FALSE /\ lease = FALSE
  /\ wiping = FALSE /\ gate = None
  /\ wp = [w \in Wipers |-> "idle"]
  /\ landed = [d \in Drafts |-> {}]
  /\ reopened = {} /\ erased = FALSE
-----------------------------------------------------------------------------
(* Requests.  send_draft_by_id checks privacy_wipe_in_progress first; a     *)
(* thread at "register" has passed that check and not yet registered.       *)

Request(d, via) == [Idle EXCEPT !.pc = "register", !.draft = d, !.via = via]

\* POST /drafts/{id}/send, on the event loop.
HttpSend ==
  /\ thr[Loop].pc = "idle" /\ ~wiping
  /\ \E d \in Drafts, via \in {"copy", "approved"} :
       thr' = [thr EXCEPT ![Loop] = Request(d, via)]
  /\ UNCHANGED << mem, disk, owner, queue, coord, wipeVs, ghosts >>

\* _primary_action_lock is taken without blocking: a second press is refused.
PrimaryFree == \A t \in Workers : thr[t].via \notin {"displayed", "queued"}

\* The primary action for the draft the overlay shows.
PrimaryDisplayed(t) ==
  /\ thr[t].pc = "idle" /\ PrimaryFree /\ ~wiping
  /\ \E d \in Drafts : thr' = [thr EXCEPT ![t] = Request(d, "displayed")]
  /\ UNCHANGED << mem, disk, owner, queue, coord, wipeVs, ghosts >>

\* Without one: the first queued draft still flagged pending_send is peeked
\* (not popped), the stale entries before it are dropped.
PrimaryQueued(t) ==
  LET Live(d) == Present(d) /\ mem[d].pending
      first   == SelectInSeq(queue, Live)
  IN /\ thr[t].pc = "idle" /\ PrimaryFree /\ queue # << >>
     /\ \/ /\ first = 0
           /\ queue' = << >> /\ UNCHANGED thr
        \/ /\ first # 0
           /\ queue' = SubSeq(queue, first, Len(queue))
           /\ thr' = [thr EXCEPT ![t] =
                IF wiping THEN [Request(queue[first], "queued") EXCEPT !.pc = "unlist"]
                          ELSE Request(queue[first], "queued")]
     /\ UNCHANGED << mem, disk, owner, coord, wipeVs, ghosts >>

\* OutputCoordinator.begin_send
MayRegister == ~cancel /\ ~lease

Register(t) ==
  /\ thr[t].pc = "register"
  /\ \/ /\ MayRegister
        /\ active' = active \union {t}
        /\ Goto(t, "claim")
     \/ /\ ~MayRegister
        /\ IF thr[t].via = "queued" THEN Goto(t, "unlist") ELSE Finish(t)
        /\ UNCHANGED active
  /\ UNCHANGED << mem, disk, owner, queue, cancel, lease, wipeVs, ghosts >>

\* The tests under draft_lock: the status, then the ticket (bound to the draft's
\* current text), then the text the overlay displayed.
MayReserve(d, via, seen, resend) ==
  /\ mem[d].status \notin {"absent", "sending"}
  /\ mem[d].status = "sent" => resend
  /\ via # "copy" => seen = mem[d].text
  /\ via = "displayed" => mem[d].status \in {"pending", "accepted"}

\* The error the caller sees decides whether a queued draft stays queued: it
\* does when the approval was missing or wrong, and when the draft is gone.
Refusal(d, seen) ==
  CASE ~Present(d) -> "raised"
    [] Present(d) /\ mem[d].status \notin {"sending", "sent"} /\ seen # mem[d].text -> "unapproved"
    [] OTHER -> "refused"

Claim(t) ==
  LET d == thr[t].draft  via == thr[t].via IN
  /\ thr[t].pc = "claim"
  /\ \E seen \in Texts, resend \in BOOLEAN :
       /\ resend => via \in {"copy", "approved"}
       /\ \/ /\ MayReserve(d, via, seen, resend)
             /\ mem' = [mem EXCEPT ![d].status = "sending",
                                   ![d].pending = (via = "displayed") \/ @]
             /\ queue' = IF via = "displayed" THEN Enlist(queue, d) ELSE queue
             /\ owner' = [owner EXCEPT ![d] = t]
             /\ thr' = [thr EXCEPT ![t].pc = "mark", ![t].text = mem[d].text,
                                   ![t].seen = IF via = "copy" THEN None ELSE seen]
          \/ /\ ~MayReserve(d, via, seen, resend)
             /\ thr' = [thr EXCEPT ![t].pc = "end", ![t].result = Refusal(d, seen)]
             /\ UNCHANGED << mem, queue, owner >>
  /\ UNCHANGED << disk, coord, wipeVs, ghosts >>

\* The "sending" marker is persisted before the injection.
Mark(t) ==
  /\ thr[t].pc = "mark"
  /\ SaveOne(thr[t].draft)
  /\ Goto(t, "place")
  /\ UNCHANGED << mem, owner, queue, coord, wipeVs, ghosts >>

\* The text perform_output_action is given: the copy taken with the reservation.
PlacedTextNow(t) == mem[thr[t].draft].text
PlacedText(t) == thr[t].text

\* perform_output_action: placed, failed (before or after the text went out:
\* the injector or the clipboard fallback may raise late), or torn down by a
\* BaseException.  The clipboard fallback reports ok.
Place(t) ==
  LET d == thr[t].draft IN
  /\ thr[t].pc = "place"
  /\ \E r \in {"ok", "fail", "interrupt"}, out \in BOOLEAN :
       /\ r = "ok" => out
       /\ thr' = [thr EXCEPT ![t].pc = "settle", ![t].result = r, ![t].text = PlacedText(t)]
       /\ landed' = IF out THEN [landed EXCEPT ![d] = @ \union {PlacedText(t)}] ELSE landed
  /\ UNCHANGED << mem, disk, owner, queue, coord, wipeVs, reopened, erased >>

Settle(t) ==
  LET d == thr[t].draft IN
  /\ thr[t].pc = "settle"
  /\ CASE ~Present(d) -> UNCHANGED << mem, queue >>
       [] Present(d) /\ thr[t].result = "ok" ->
            /\ mem' = [mem EXCEPT ![d].status = "sent", ![d].pending = FALSE]
            /\ queue' = Unlisted(queue, d)
       [] Present(d) /\ thr[t].result = "fail" ->
            mem' = [mem EXCEPT ![d].status = "send_error"] /\ UNCHANGED queue
       [] OTHER ->   \* interrupted: only this send's own reservation is touched
            /\ mem' = IF mem[d].status = "sending" /\ owner[d] = t
                        THEN [mem EXCEPT ![d].status = "send_interrupted"] ELSE mem
            /\ UNCHANGED queue
  /\ thr' = [thr EXCEPT ![t].pc = "persist", ![t].text = None, ![t].seen = None]
  /\ UNCHANGED << disk, owner, coord, wipeVs, ghosts >>

\* A wipe that is draining or deleting must not see this draft written back.
Persist(t) ==
  /\ thr[t].pc = "persist"
  /\ \/ ~cancel /\ SaveOne(thr[t].draft)
     \/ cancel /\ UNCHANGED disk
  /\ Goto(t, "end")
  /\ UNCHANGED << mem, owner, queue, coord, wipeVs, ghosts >>

\* end_send in the finally clause; the outcome reaches the user.
EndSend(t) ==
  /\ thr[t].pc = "end"
  /\ active' = active \ {t}
  /\ IF thr[t].via = "queued" /\ thr[t].result \in {"ok", "fail", "refused"}
       THEN Goto(t, "unlist") ELSE Finish(t)
  /\ UNCHANGED << mem, disk, owner, queue, cancel, lease, wipeVs, ghosts >>

\* _handle_primary_action takes the draft off the list once it was dealt with.
Unlist(t) ==
  /\ thr[t].pc = "unlist"
  /\ queue' = Unlisted(queue, thr[t].draft)
  /\ Finish(t)
  /\ UNCHANGED << mem, disk, owner, coord, wipeVs, ghosts >>

SendStep(t) == Register(t) \/ Claim(t) \/ Mark(t) \/ Place(t) \/ Settle(t)
               \/ Persist(t) \/ EndSend(t) \/ Unlist(t)
-----------------------------------------------------------------------------
(* The routes that change a draft.  Each mutates under draft_lock on the     *)
(* event loop and persists after releasing it.                               *)

\* The drafts taken out of "sending" under a send, once d no longer says so.
TakenOut(d) ==
  IF \E t \in Threads : thr[t].draft = d /\ thr[t].pc \in Placing
    THEN reopened \union {d} ELSE reopened

\* What a route leaves in memory; the user has acted, so the slate is clean.
Change(d, rec) ==
  /\ mem' = [mem EXCEPT ![d] = rec]
  /\ landed' = [landed EXCEPT ![d] = {}]
  /\ reopened' = IF rec.status = "sending" THEN reopened ELSE TakenOut(d)
  /\ UNCHANGED erased

ThenSave(d) == thr' = [thr EXCEPT ![Loop] = [Idle EXCEPT !.pc = "save", !.draft = d]]

\* Accepting must not reopen a reserved or completed send.
MayAccept(d) == mem[d].status \notin {"absent", "sending", "sent"}
Accept(d) ==
  /\ "accept" \in Routes /\ thr[Loop].pc = "idle" /\ MayAccept(d)
  /\ Change(d, [mem[d] EXCEPT !.status = "accepted", !.pending = TRUE])
  /\ queue' = Enlist(queue, d)
  /\ ThenSave(d)
  /\ UNCHANGED << disk, owner, coord, wipeVs >>

Decline(d) ==
  /\ "decline" \in Routes /\ thr[Loop].pc = "idle" /\ Present(d)
  /\ Change(d, [mem[d] EXCEPT !.status = "declined", !.pending = FALSE])
  /\ queue' = Unlisted(queue, d)
  /\ ThenSave(d)
  /\ UNCHANGED << disk, owner, coord, wipeVs >>

\* Editing sends a reviewed or finished draft back to review; any other status
\* ("sending" among them) stays.
Edit(d, x) ==
  LET back == mem[d].status \in {"accepted", "declined", "sent", "send_error"} IN
  /\ "edit" \in Routes /\ thr[Loop].pc = "idle" /\ Present(d)
  /\ Change(d, IF back THEN [status |-> "pending", text |-> x, pending |-> FALSE]
                       ELSE [mem[d] EXCEPT !.text = x])
  /\ queue' = IF back THEN Unlisted(queue, d) ELSE queue
  /\ ThenSave(d)
  /\ UNCHANGED << disk, owner, coord, wipeVs >>

\* Rewriting reads the text under the lock, runs the model without it, and
\* writes the result whatever has become of the draft.
RewriteBegin(d) ==
  /\ "rewrite" \in Routes /\ thr[Loop].pc = "idle" /\ Present(d)
  /\ thr' = [thr EXCEPT ![Loop] = [Idle EXCEPT !.pc = "rewrite", !.draft = d]]
  /\ UNCHANGED << mem, disk, owner, queue, coord, wipeVs, ghosts >>

RewriteEnd(x) ==
  LET d == thr[Loop].draft IN
  /\ thr[Loop].pc = "rewrite"
  /\ \/ /\ Present(d)
        /\ Change(d, [mem[d] EXCEPT !.status = "pending", !.text = x])
        /\ ThenSave(d)
     \/ /\ Finish(Loop)   \* the model failed, or the draft is gone
        /\ UNCHANGED << mem, ghosts >>
  /\ UNCHANGED << disk, owner, queue, coord, wipeVs >>

RouteSave ==
  /\ thr[Loop].pc = "save"
  /\ SaveOne(thr[Loop].draft)
  /\ Finish(Loop)
  /\ UNCHANGED << mem, owner, queue, coord, wipeVs, ghosts >>

\* DELETE /library/drafts/{id} on a worker: delete_decision refuses a draft in
\* flight, then the draft leaves the queue, then the archive.
DeleteDecide(t, d) ==
  /\ "delete" \in Routes /\ thr[t].pc = "idle"
  /\ mem[d].status \notin {"absent", "sending"} /\ ~Contains(queue, d)
  /\ thr' = [thr EXCEPT ![t] = [Idle EXCEPT !.pc = "delete", !.draft = d]]
  /\ UNCHANGED << mem, disk, owner, queue, coord, wipeVs, ghosts >>

DeleteQueued(t) ==
  /\ thr[t].pc = "delete"
  /\ mem' = [mem EXCEPT ![thr[t].draft] = Absent]
  /\ thr' = [thr EXCEPT ![t].pc = "archive"]
  /\ reopened' = TakenOut(thr[t].draft)
  /\ UNCHANGED << disk, owner, queue, coord, wipeVs, landed, erased >>

DeleteArchived(t) ==
  /\ thr[t].pc = "archive"
  /\ \/ disk' = [disk EXCEPT ![thr[t].draft] = Absent]
     \/ SaveMayFail /\ disk' = disk
  /\ Finish(t)
  /\ UNCHANGED << mem, owner, queue, coord, wipeVs, ghosts >>

\* emergency_stop_runtime clears the list (and nothing else of the drafts).
EmergencyStop ==
  /\ "stop" \in Routes /\ thr[Loop].pc = "idle" /\ queue # << >>
  /\ queue' = << >>
  /\ UNCHANGED << mem, disk, owner, thr, coord, wipeVs, ghosts >>

RouteStep ==
  \/ \E d \in Drafts : Accept(d) \/ Decline(d) \/ RewriteBegin(d) \/ \E x \in Texts : Edit(d, x)
  \/ \E x \in Texts : RewriteEnd(x)
  \/ RouteSave
  \/ \E t \in Workers : DeleteQueued(t) \/ DeleteArchived(t) \/ \E d \in Drafts : DeleteDecide(t, d)
  \/ EmergencyStop
-----------------------------------------------------------------------------
(* The wipe.  Its flag is checked and then set; the dictation gate and the   *)
(* output lease are taken before anything is deleted.                        *)

WipeGoto(w, pc) == wp' = [wp EXCEPT ![w] = pc]
dataVs == << mem, disk, owner, queue, thr, ghosts >>

WipeCheck(w) ==
  /\ wp[w] = "idle" /\ ~wiping /\ WipeGoto(w, "set")
  /\ UNCHANGED << dataVs, coord, wiping, gate >>

WipeSet(w) ==
  /\ wp[w] = "set" /\ wiping' = TRUE /\ WipeGoto(w, "gate")
  /\ UNCHANGED << dataVs, coord, gate >>

\* try_begin, polled for ten seconds; otherwise the wipe aborts.
WipeGateAnyway(w) ==
  /\ wp[w] = "gate" /\ gate' = w /\ WipeGoto(w, "cancel")
  /\ UNCHANGED << dataVs, coord, wiping >>
WipeGate(w) ==
  /\ wp[w] = "gate"
  /\ \/ gate = None /\ gate' = w /\ WipeGoto(w, "cancel")
     \/ gate # None /\ UNCHANGED gate /\ WipeGoto(w, "unflag")
  /\ UNCHANGED << dataVs, coord, wiping >>

\* OutputCoordinator.drain raises the cancellation before it takes the lock.
WipeCancel(w) ==
  /\ wp[w] = "cancel" /\ cancel' = TRUE /\ WipeGoto(w, "drain")
  /\ UNCHANGED << dataVs, active, lease, wiping, gate >>

\* Zero active sends: the lease is taken.
DrainedAtAll == TRUE
Drained == active = {}
WipeLease(w) ==
  /\ wp[w] = "drain" /\ Drained
  /\ lease' = TRUE /\ WipeGoto(w, "tts")
  /\ UNCHANGED << dataVs, active, cancel, wiping, gate >>

\* The drain timed out: cancellation is rolled back and nothing is deleted.
CancelKept == TRUE
CancelRolledBack == FALSE
WipeDrainTimeout(w) ==
  /\ wp[w] = "drain" /\ active # {}
  /\ cancel' = CancelRolledBack /\ WipeGoto(w, "ungate")
  /\ UNCHANGED << dataVs, active, lease, wiping, gate >>

\* Speech quiesced, or the wipe aborts without deleting.
WipeTts(w) ==
  /\ wp[w] = "tts" /\ \E next \in {"clear", "release"} : WipeGoto(w, next)
  /\ UNCHANGED << dataVs, coord, wiping, gate >>

\* The in-memory queue; the full save that follows mirrors no row.
KeptQueue == mem
ClearedQueue == [d \in Drafts |-> Absent]
WipeClear(w) ==
  /\ wp[w] = "clear" /\ WipeGoto(w, "delete")
  /\ mem' = ClearedQueue /\ queue' = << >>
  /\ UNCHANGED << disk, owner, thr, ghosts, coord, wiping, gate >>

\* data_lifecycle.execute_mode: the stores are deleted and verified, or the
\* wipe reports what is left.
WipeDelete(w) ==
  /\ wp[w] = "delete" /\ WipeGoto(w, "release")
  /\ \/ disk' = [d \in Drafts |-> Absent] /\ erased' = TRUE
     \/ SaveMayFail /\ UNCHANGED << disk, erased >>
  /\ UNCHANGED << mem, owner, queue, thr, landed, reopened, coord, wiping, gate >>

WipeRelease(w) ==
  /\ wp[w] = "release" /\ lease' = FALSE /\ cancel' = FALSE /\ WipeGoto(w, "ungate")
  /\ UNCHANGED << dataVs, active, wiping, gate >>

WipeUngate(w) ==
  /\ wp[w] = "ungate" /\ gate' = None /\ WipeGoto(w, "unflag")
  /\ UNCHANGED << dataVs, coord, wiping >>

WipeUnflag(w) ==
  /\ wp[w] = "unflag" /\ wiping' = FALSE /\ WipeGoto(w, "idle")
  /\ UNCHANGED << dataVs, coord, gate >>

WipeStep(w) ==
  \/ WipeSet(w) \/ WipeGate(w) \/ WipeCancel(w) \/ WipeLease(w) \/ WipeDrainTimeout(w)
  \/ WipeTts(w) \/ WipeClear(w) \/ WipeDelete(w) \/ WipeRelease(w) \/ WipeUngate(w)
  \/ WipeUnflag(w)
-----------------------------------------------------------------------------
(* A crash of the sidecar at any point, and its next startup: load_history,   *)
(* then recover_interrupted_sends before anything else runs.  A loaded        *)
(* "sending" always carries the token of an earlier process.                  *)

RecoverBlind(d) == disk[d]
RecoverReverted(d) ==
  IF disk[d].status = "sending" THEN [disk[d] EXCEPT !.status = "accepted"] ELSE disk[d]
Recover(d) ==
  IF disk[d].status = "sending"
    THEN [disk[d] EXCEPT !.status = "send_interrupted", !.pending = FALSE]
    ELSE disk[d]

CrashAndRestart ==
  /\ mem' = [d \in Drafts |-> Recover(d)]
  /\ \/ disk' = mem'
     \/ SaveMayFail /\ disk' = disk
  /\ owner' = [d \in Drafts |-> None]
  /\ queue' = << >>
  /\ thr' = [t \in Threads |-> Idle]
  /\ active' = {} /\ cancel' = FALSE /\ lease' = FALSE
  /\ wiping' = FALSE /\ gate' = None
  /\ wp' = [w \in Wipers |-> "idle"]
  /\ UNCHANGED ghosts

Next ==
  \/ HttpSend
  \/ \E t \in Workers : PrimaryDisplayed(t) \/ PrimaryQueued(t)
  \/ \E t \in Threads : SendStep(t)
  \/ RouteStep
  \/ \E w \in Wipers : WipeCheck(w) \/ WipeStep(w)
  \/ CrashAndRestart

Spec == Init /\ [][Next]_vars

\* Threads keep running; an injection returns or raises.  The environment's
\* requests and the crash are not fair.
Fairness ==
  /\ \A t \in Threads : WF_vars(SendStep(t))
  /\ \A w \in Wipers : WF_vars(WipeStep(w))
  /\ WF_vars(RouteSave) /\ WF_vars(\E x \in Texts : RewriteEnd(x))

FairSpec == Spec /\ Fairness
-----------------------------------------------------------------------------
(* Properties. *)

TypeOK ==
  /\ mem \in [Drafts -> DraftRec] /\ disk \in [Drafts -> DraftRec]
  /\ owner \in [Drafts -> Threads \union {None}]
  /\ queue \in Seq(Drafts) /\ IsInjective(queue)
  /\ thr \in [Threads -> ThrRec]
  /\ active \subseteq Threads /\ cancel \in BOOLEAN /\ lease \in BOOLEAN
  /\ wiping \in BOOLEAN /\ gate \in Wipers \union {None}
  /\ wp \in [Wipers -> WipePcs]
  /\ landed \in [Drafts -> SUBSET Texts]
  /\ reopened \subseteq Drafts /\ erased \in BOOLEAN

\* While a wipe is past its drain it holds the lease and no send is between
\* begin_send and end_send: nothing injects or persists under the deletion
\* (server.py _perform_privacy_wipe step 3, output_coordinator.py drain).
WipeExcludesSends ==
  \A w \in Wipers : wp[w] \in Leased =>
    lease /\ \A t \in Threads : thr[t].pc \notin Registered

\* Once a wipe has verified its deletion no draft comes back on disk, whatever
\* route, send or crash was under way ("nothing regrows behind it").
NothingRegrows == erased => \A d \in Drafts : disk[d].status = "absent"

\* The text that goes into another application is the text the ticket was
\* signed for, however the draft changes between the check and the injection.
PlacedWasApproved ==
  \A t \in Threads : thr[t].pc = "settle" /\ thr[t].seen # None =>
    thr[t].text = thr[t].seen

SameDraftPlacing ==
  \E t, u \in Threads : /\ t # u /\ thr[t].draft = thr[u].draft
                        /\ thr[t].pc \in Placing /\ thr[u].pc \in Placing
                        /\ thr[t].draft \notin reopened

SendingHasOwner ==
  \A d \in Drafts : mem[d].status = "sending" =>
    \E t \in Threads : thr[t].draft = d /\ thr[t].pc \in Placing /\ owner[d] = t

\* A draft in "sending" always has a send that will settle it: no draft stays
\* stuck in the one status every send refuses, not even after a crash.  And no
\* two sends place one draft at once, unless a route took it out of "sending"
\* meanwhile: the compare-and-set alone never lets two through.
OneSender == SendingHasOwner /\ ~SameDraftPlacing

\* A text that may already be in another application is never offered as fresh
\* (pending or accepted) before the user has acted on the draft again, even
\* across a crash between the injection and its record.
NoSilentDoublePlacement ==
  \A d \in Drafts \ reopened :
    mem[d].status \in {"pending", "accepted"} => mem[d].text \notin landed[d]

\* A cancellation raised by a drain is always withdrawn again, so an aborted
\* wipe does not leave sending disabled; and every send that registered is
\* deregistered, so a drain does not wait for one that is gone.
DrainsAndSendsEnd ==
  /\ cancel ~> ~cancel
  /\ \A t \in Threads : t \in active ~> t \notin active
\* A wipe deletes the drafts with no send under way and no draft coming back,
\* whatever unregistered routes write meanwhile: read off the threads' positions
\* and the rows on disk, the send path implements Erasure.
sending  == { t \in Threads : thr[t].pc \in Registered }
deleting == IF \E w \in Wipers : wp[w] \in Leased
              THEN CHOOSE w \in Wipers : wp[w] \in Leased ELSE None
onDisk   == { d \in Drafts : disk[d].status # "absent" }
Erasing  == INSTANCE Erasure
              WITH Actors <- Threads \union Wipers, Items <- Drafts, Nobody <- None,
                   working <- sending, eraser <- deleting, kept <- onDisk
WipeErases == Erasing!Spec
=============================================================================
