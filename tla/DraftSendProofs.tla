-------------------------- MODULE DraftSendProofs --------------------------
(***************************************************************************)
(* Proofs about DraftSend for any number of drafts, threads and wipes.     *)
(*                                                                         *)
(* WipeExcludesSends is not inductive: it needs that `active' is exactly   *)
(* the set of threads between begin_send and end_send, that the wipe which *)
(* holds the lease also holds the dictation gate (so there is one), and    *)
(* that the lease was only taken when no send was registered.              *)
(*                                                                         *)
(* The sends themselves are safe because of the reservation: as long as    *)
(* no route took it out of "sending", a draft being placed says so and     *)
(* names the thread that places it (ReservationInv).  That there is one    *)
(* sender, that the text placed is the text approved, and that a text      *)
(* placed is not offered again all start from it.                          *)
(***************************************************************************)
EXTENDS DraftSend, WellFoundedInduction, TLAPS

\* The part of the type invariant the argument needs.
Shape ==
  /\ DOMAIN thr = Threads
  /\ \A t \in Threads : "pc" \in DOMAIN thr[t]
  /\ wp \in [Wipers -> WipePcs]

ActiveIsRegistered == \A t \in Threads : t \in active <=> thr[t].pc \in Registered
GateIsHeld  == \A w \in Wipers : wp[w] \in Gated => gate = w
LeaseIsHeld == \A w \in Wipers : wp[w] \in Leased => lease
LeaseIsIdle == lease => \A t \in Threads : t \notin active

ExclusionInv ==
  /\ Shape
  /\ ActiveIsRegistered
  /\ GateIsHeld
  /\ LeaseIsHeld
  /\ LeaseIsIdle

LEMMA InitExclusion == Init => ExclusionInv
BY DraftSendAssumption DEF Init, ExclusionInv, Shape, ActiveIsRegistered, GateIsHeld, LeaseIsHeld,
   LeaseIsIdle, Idle, Registered, Gated, Leased, WipePcs

USE DEF ExclusionInv, Shape, ActiveIsRegistered, GateIsHeld, LeaseIsHeld, LeaseIsIdle

\* Every thread step, seen only through the thread's program counter and the
\* coordinator: what it may do without disturbing the invariant.
LEMMA SendStepExclusion ==
  ASSUME ExclusionInv, NEW t \in Threads, SendStep(t)
  PROVE  ExclusionInv'
<1>1. CASE Register(t)
  BY <1>1 DEF Register, MayRegister, Goto, Finish, Idle, Registered, wipeVs
<1>2. CASE Claim(t)
  BY <1>2 DEF Claim, Registered, wipeVs, coord
<1>3. CASE Mark(t)
  BY <1>3 DEF Mark, Goto, Registered, wipeVs, coord
<1>4. CASE Place(t)
  BY <1>4 DEF Place, Registered, wipeVs, coord
<1>5. CASE Settle(t)
  BY <1>5 DEF Settle, Registered, wipeVs, coord
<1>6. CASE Persist(t)
  BY <1>6 DEF Persist, Goto, Registered, wipeVs, coord
<1>7. CASE EndSend(t)
  BY <1>7 DEF EndSend, Goto, Finish, Idle, Registered, wipeVs
<1>8. CASE Unlist(t)
  BY <1>8 DEF Unlist, Finish, Idle, Registered, wipeVs, coord
<1> QED BY <1>1, <1>2, <1>3, <1>4, <1>5, <1>6, <1>7, <1>8 DEF SendStep

\* A thread that moves from one program counter outside Registered to another
\* leaves the invariant alone.
LEMMA OutsideKeepsExclusion ==
  ASSUME ExclusionInv, NEW t \in Threads, thr[t].pc \notin Registered,
         NEW r, r.pc \notin Registered, "pc" \in DOMAIN r,
         thr' = [thr EXCEPT ![t] = r], UNCHANGED << coord, wipeVs >>
  PROVE  ExclusionInv'
BY DEF wipeVs, coord

LEMMA SameThreadsKeepExclusion ==
  ASSUME ExclusionInv, UNCHANGED << thr, coord, wipeVs >>
  PROVE  ExclusionInv'
BY DEF wipeVs, coord

\* Requests start threads at a program counter outside Registered and leave the
\* coordinator and the wipes alone.
LEMMA RequestExclusion ==
  ASSUME ExclusionInv,
         HttpSend \/ \E t \in Workers : PrimaryDisplayed(t) \/ PrimaryQueued(t)
  PROVE  ExclusionInv'
<1>a. \A d, via : Request(d, via).pc = "register" /\ "pc" \in DOMAIN Request(d, via)
  BY DEF Request, Idle
<1>b. {"idle", "register", "unlist"} \intersect Registered = {}
  BY DEF Registered
<1>1. CASE HttpSend
  <2>1. thr[Loop].pc = "idle" /\ Loop \in Threads /\ UNCHANGED << coord, wipeVs >>
    BY <1>1 DEF HttpSend, Threads
  <2>2. PICK d, via : thr' = [thr EXCEPT ![Loop] = Request(d, via)]
    BY <1>1 DEF HttpSend
  <2> QED BY <1>a, <1>b, <2>1, <2>2, OutsideKeepsExclusion
<1>2. ASSUME NEW t \in Workers, PrimaryDisplayed(t) PROVE ExclusionInv'
  <2>1. thr[t].pc = "idle" /\ t \in Threads /\ UNCHANGED << coord, wipeVs >>
    BY <1>2 DEF PrimaryDisplayed, Threads
  <2>2. PICK d : thr' = [thr EXCEPT ![t] = Request(d, "displayed")]
    BY <1>2 DEF PrimaryDisplayed
  <2> QED BY <1>a, <1>b, <2>1, <2>2, OutsideKeepsExclusion
<1>3. ASSUME NEW t \in Workers, PrimaryQueued(t) PROVE ExclusionInv'
  <2>1. thr[t].pc = "idle" /\ t \in Threads /\ UNCHANGED << coord, wipeVs >>
    BY <1>3 DEF PrimaryQueued, Threads
  <2>2. thr' = thr \/ \E r : /\ r.pc \in {"register", "unlist"} /\ "pc" \in DOMAIN r
                            /\ thr' = [thr EXCEPT ![t] = r]
    BY <1>3 DEF PrimaryQueued, Request, Idle
  <2>3. CASE thr' = thr
    BY <2>1, <2>3, SameThreadsKeepExclusion
  <2>4. CASE \E r : /\ r.pc \in {"register", "unlist"} /\ "pc" \in DOMAIN r
                   /\ thr' = [thr EXCEPT ![t] = r]
    <3>1. PICK r : /\ r.pc \in {"register", "unlist"} /\ "pc" \in DOMAIN r
                   /\ thr' = [thr EXCEPT ![t] = r]
      BY <2>4
    <3> QED BY <1>b, <2>1, <3>1, OutsideKeepsExclusion
  <2> QED BY <2>2, <2>3, <2>4
<1> QED BY <1>1, <1>2, <1>3

LEMMA RouteStepExclusion ==
  ASSUME ExclusionInv, RouteStep
  PROVE  ExclusionInv'
<1> USE DEF Registered, wipeVs, coord, Threads, Idle, ThenSave, Finish
<1>1. ASSUME NEW d \in Drafts, Accept(d) \/ Decline(d) PROVE ExclusionInv'
  <2>1. thr[Loop].pc = "idle" /\ ThenSave(d) /\ UNCHANGED << coord, wipeVs >>
    BY <1>1 DEF Accept, Decline
  <2> QED BY <2>1
<1>2. ASSUME NEW d \in Drafts, NEW x \in Texts, Edit(d, x) PROVE ExclusionInv'
  BY <1>2 DEF Edit
<1>3. ASSUME NEW d \in Drafts, RewriteBegin(d) PROVE ExclusionInv'
  BY <1>3 DEF RewriteBegin
<1>4. ASSUME NEW x \in Texts, RewriteEnd(x) PROVE ExclusionInv'
  <2>1. thr[Loop].pc = "rewrite" /\ UNCHANGED << coord, wipeVs >>
    BY <1>4 DEF RewriteEnd
  <2>2. Finish(Loop) \/ \E d : ThenSave(d)
    BY <1>4 DEF RewriteEnd
  <2>3. \E pc : pc \notin Registered /\ \E r : /\ r.pc = pc /\ "pc" \in DOMAIN r
                                             /\ thr' = [thr EXCEPT ![Loop] = r]
    BY <2>2
  <2> QED BY <2>1, <2>3
<1>5. CASE RouteSave
  BY <1>5 DEF RouteSave
<1>6. ASSUME NEW t \in Workers, DeleteQueued(t) \/ DeleteArchived(t) PROVE ExclusionInv'
  BY <1>6 DEF DeleteQueued, DeleteArchived
<1>7. ASSUME NEW t \in Workers, NEW d \in Drafts, DeleteDecide(t, d) PROVE ExclusionInv'
  BY <1>7 DEF DeleteDecide
<1>8. CASE EmergencyStop
  BY <1>8 DEF EmergencyStop
<1> QED BY <1>1, <1>2, <1>3, <1>4, <1>5, <1>6, <1>7, <1>8 DEF RouteStep

\* The steps of a wipe.  Taking the gate, the lease and giving them up are the
\* ones that touch the conjuncts; another wipe is never in Leased meanwhile
\* because it would hold the gate.
LEMMA WipeExclusion ==
  ASSUME ExclusionInv, NEW w \in Wipers, WipeCheck(w) \/ WipeStep(w)
  PROVE  ExclusionInv'
<1> USE DEF WipeGoto, dataVs, coord, Gated, Leased, WipePcs
<1>1. CASE WipeCheck(w)
  BY <1>1 DEF WipeCheck
<1>2. CASE WipeSet(w)
  BY <1>2 DEF WipeSet
<1>3. CASE WipeGate(w)
  BY <1>3, DraftSendAssumption DEF WipeGate
<1>4. CASE WipeCancel(w)
  BY <1>4 DEF WipeCancel
<1>5. CASE WipeLease(w)
  BY <1>5 DEF WipeLease, Drained
<1>6. CASE WipeDrainTimeout(w)
  BY <1>6 DEF WipeDrainTimeout
<1>7. CASE WipeTts(w)
  BY <1>7 DEF WipeTts
<1>8. CASE WipeClear(w)
  BY <1>8 DEF WipeClear
<1>9. CASE WipeDelete(w)
  BY <1>9 DEF WipeDelete
<1>10. CASE WipeRelease(w)
  <2>1. \A v \in Wipers \ {w} : wp[v] \notin Leased
    BY <1>10 DEF WipeRelease
  <2> QED BY <1>10, <2>1 DEF WipeRelease
<1>11. CASE WipeUngate(w)
  <2>1. \A v \in Wipers \ {w} : wp[v] \notin Gated
    BY <1>11 DEF WipeUngate
  <2> QED BY <1>11, <2>1 DEF WipeUngate
<1>12. CASE WipeUnflag(w)
  BY <1>12 DEF WipeUnflag
<1> QED BY <1>1, <1>2, <1>3, <1>4, <1>5, <1>6, <1>7, <1>8, <1>9, <1>10, <1>11, <1>12
        DEF WipeStep

LEMMA CrashExclusion ==
  ASSUME ExclusionInv, CrashAndRestart
  PROVE  ExclusionInv'
BY DEF CrashAndRestart, Idle, Registered, Gated, Leased, WipePcs

LEMMA StutterExclusion ==
  ASSUME ExclusionInv, UNCHANGED vars
  PROVE  ExclusionInv'
BY DEF vars, coord, wipeVs

LEMMA NextExclusion == ExclusionInv /\ [Next]_vars => ExclusionInv'
<1> SUFFICES ASSUME ExclusionInv, [Next]_vars PROVE ExclusionInv'
  OBVIOUS
<1>1. CASE UNCHANGED vars
  BY <1>1, StutterExclusion
<1>2. CASE Next
  BY <1>2, RequestExclusion, SendStepExclusion, RouteStepExclusion, WipeExclusion,
     CrashExclusion DEF Next
<1> QED BY <1>1, <1>2

\* While any wipe is past its drain it holds the lease and no send is between
\* begin_send and end_send, for every number of drafts, threads and wipes.
THEOREM WipeExclusion_Safety == Spec => []WipeExcludesSends
<1>1. ExclusionInv => WipeExcludesSends
  BY DEF WipeExcludesSends
<1> QED BY <1>1, InitExclusion, NextExclusion, PTL DEF Spec
-----------------------------------------------------------------------------
(* NothingRegrows.  Only a draft that memory still has is ever written, and   *)
(* no step of the send path brings a draft back into memory; so what has to   *)
(* be carried is that memory is already empty when the deletion begins.       *)

Rows ==
  /\ DOMAIN mem = Drafts /\ \A d \in Drafts : "status" \in DOMAIN mem[d]
  /\ DOMAIN disk = Drafts /\ \A d \in Drafts : "status" \in DOMAIN disk[d]
  /\ DOMAIN wp = Wipers
MemEmpty  == \A d \in Drafts : mem[d].status = "absent"
DiskEmpty == \A d \in Drafts : disk[d].status = "absent"
DeleteIsEmptied == (\E w \in Wipers : wp[w] = "delete") => MemEmpty
ErasedIsEmpty   == erased => MemEmpty /\ DiskEmpty

ErasureInv ==
  /\ Rows
  /\ DeleteIsEmptied
  /\ ErasedIsEmpty

\* What every step outside the wipe does to the rows: memory never regains a
\* draft, and a row of the disk changes only to a present draft's row, or to a
\* row without a draft.
RowsKept ==
  /\ Rows'
  /\ MemEmpty => MemEmpty'
  /\ MemEmpty /\ DiskEmpty => DiskEmpty'

LEMMA InitErasure == Init => ErasureInv
BY DEF Init, ErasureInv, Rows, DeleteIsEmptied, ErasedIsEmpty

LEMMA KeptErasure ==
  ASSUME ErasureInv, RowsKept, UNCHANGED << wp, erased >>
  PROVE  ErasureInv'
BY DEF ErasureInv, RowsKept, Rows, DeleteIsEmptied, ErasedIsEmpty, MemEmpty, DiskEmpty

\* Saving the row of a draft: nothing is written for one that memory lacks.
LEMMA SaveOneKeeps ==
  ASSUME Rows, NEW d, SaveOne(d), UNCHANGED << mem, wp >>
  PROVE  RowsKept
BY DEF Rows, SaveOne, Present, RowsKept, MemEmpty, DiskEmpty

\* Changing the record of one draft that is present, or removing it.
LEMMA ChangeKeeps ==
  ASSUME Rows, NEW d, NEW r, Present(d) \/ r.status = "absent", "status" \in DOMAIN r,
         mem' = [mem EXCEPT ![d] = r], UNCHANGED << disk, wp >>
  PROVE  RowsKept
BY DEF Rows, Present, RowsKept, MemEmpty, DiskEmpty

LEMMA SendStepErasure ==
  ASSUME ErasureInv, NEW t \in Threads, SendStep(t)
  PROVE  ErasureInv'
<1>0. Rows BY DEF ErasureInv
<1>u. ASSUME UNCHANGED << mem, disk, wp >> PROVE RowsKept
  BY <1>0, <1>u DEF Rows, RowsKept, MemEmpty, DiskEmpty
<1>1. CASE Register(t)
  BY <1>1, <1>u, KeptErasure DEF Register, wipeVs, ghosts
<1>2. CASE Claim(t)
  <2>1. RowsKept /\ UNCHANGED << wp, erased >>
    BY <1>2, <1>0, <1>u
       DEF Claim, MayReserve, wipeVs, ghosts, Rows, RowsKept, MemEmpty, DiskEmpty
  <2> QED BY <2>1, KeptErasure
<1>3. CASE Mark(t)
  BY <1>3, <1>0, SaveOneKeeps, KeptErasure DEF Mark, wipeVs, ghosts
<1>4. CASE Place(t)
  BY <1>4, <1>u, KeptErasure DEF Place, wipeVs
<1>5. CASE Settle(t)
  BY <1>5, <1>0, <1>u, KeptErasure
     DEF Settle, wipeVs, ghosts, Present, Rows, RowsKept, MemEmpty, DiskEmpty
<1>6. CASE Persist(t)
  BY <1>6, <1>0, <1>u, SaveOneKeeps, KeptErasure DEF Persist, wipeVs, ghosts
<1>7. CASE EndSend(t)
  BY <1>7, <1>u, KeptErasure DEF EndSend, wipeVs, ghosts
<1>8. CASE Unlist(t)
  BY <1>8, <1>u, KeptErasure DEF Unlist, wipeVs, ghosts
<1> QED BY <1>1, <1>2, <1>3, <1>4, <1>5, <1>6, <1>7, <1>8 DEF SendStep

LEMMA RouteStepErasure ==
  ASSUME ErasureInv, RouteStep
  PROVE  ErasureInv'
<1>0. Rows BY DEF ErasureInv
<1>u. ASSUME UNCHANGED << mem, disk, wp >> PROVE RowsKept
  BY <1>0, <1>u DEF Rows, RowsKept, MemEmpty, DiskEmpty
<1>c. ASSUME NEW d \in Drafts, Present(d), NEW r, "status" \in DOMAIN r, Change(d, r),
             UNCHANGED << disk, wp >>
      PROVE  ErasureInv'
  BY <1>c, <1>0, ChangeKeeps, KeptErasure DEF Change
<1>1. ASSUME NEW d \in Drafts, Accept(d) PROVE ErasureInv'
  BY <1>1, <1>0, <1>c DEF Accept, MayAccept, Present, wipeVs, Rows
<1>2. ASSUME NEW d \in Drafts, Decline(d) PROVE ErasureInv'
  BY <1>2, <1>0, <1>c DEF Decline, Present, wipeVs, Rows
<1>3. ASSUME NEW d \in Drafts, NEW x \in Texts, Edit(d, x) PROVE ErasureInv'
  <2> DEFINE back == [status |-> "pending", text |-> x, pending |-> FALSE]
             kept == [mem[d] EXCEPT !.text = x]
  <2>1. "status" \in DOMAIN back /\ "status" \in DOMAIN kept
    BY <1>0 DEF Rows
  <2>2. \E r : Change(d, r) /\ (r = back \/ r = kept)
    BY <1>3 DEF Edit
  <2>3. Present(d) /\ UNCHANGED << disk, wp >>
    BY <1>3 DEF Edit, wipeVs
  <2> HIDE DEF back, kept
  <2> QED BY <2>1, <2>2, <2>3, <1>c
<1>4. ASSUME NEW d \in Drafts, RewriteBegin(d) PROVE ErasureInv'
  BY <1>4, <1>u, KeptErasure DEF RewriteBegin, wipeVs, ghosts
<1>5. ASSUME NEW x \in Texts, RewriteEnd(x) PROVE ErasureInv'
  <2>1. UNCHANGED << disk, wp, erased >>
    BY <1>5 DEF RewriteEnd, Change, wipeVs, ghosts
  <2>2. CASE \E d : Present(d) /\ mem' = [mem EXCEPT ![d] = [mem[d] EXCEPT !.status = "pending", !.text = x]]
    <3>1. RowsKept
      BY <2>2, <2>1, <1>0 DEF Present, Rows, RowsKept, MemEmpty, DiskEmpty
    <3> QED BY <3>1, <2>1, KeptErasure
  <2>3. CASE UNCHANGED mem
    BY <2>3, <2>1, <1>u, KeptErasure
  <2> QED BY <1>5, <2>2, <2>3 DEF RewriteEnd, Change
<1>6. CASE RouteSave
  BY <1>6, <1>0, SaveOneKeeps, KeptErasure DEF RouteSave, wipeVs, ghosts
<1>7. ASSUME NEW t \in Workers, DeleteQueued(t) PROVE ErasureInv'
  <2>1. "status" \in DOMAIN Absent /\ Absent.status = "absent"
    BY DEF Absent
  <2>2. /\ mem' = [mem EXCEPT ![thr[t].draft] = Absent]
        /\ UNCHANGED << disk, wp, erased >>
    BY <1>7 DEF DeleteQueued, wipeVs
  <2>3. RowsKept
    BY <2>1, <2>2, <1>0, ChangeKeeps
  <2> QED BY <2>2, <2>3, KeptErasure
<1>8. ASSUME NEW t \in Workers, DeleteArchived(t) PROVE ErasureInv'
  BY <1>8, <1>0, KeptErasure
     DEF DeleteArchived, Absent, wipeVs, ghosts, Rows, RowsKept, MemEmpty, DiskEmpty
<1>9. ASSUME NEW t \in Workers, NEW d \in Drafts, DeleteDecide(t, d) PROVE ErasureInv'
  BY <1>9, <1>u, KeptErasure DEF DeleteDecide, wipeVs, ghosts
<1>10. CASE EmergencyStop
  BY <1>10, <1>u, KeptErasure DEF EmergencyStop, wipeVs, ghosts
<1> QED BY <1>1, <1>2, <1>3, <1>4, <1>5, <1>6, <1>7, <1>8, <1>9, <1>10 DEF RouteStep

\* The wipe empties memory before it deletes, and nothing between the two
\* refills it; a second wipe finds memory empty as well.
LEMMA WipeErasure ==
  ASSUME ErasureInv, NEW w \in Wipers, WipeCheck(w) \/ WipeStep(w)
  PROVE  ErasureInv'
<1> USE DEF ErasureInv, Rows, DeleteIsEmptied, ErasedIsEmpty, MemEmpty, DiskEmpty,
            WipeGoto, dataVs, ghosts, coord
<1>1. CASE WipeClear(w)
  BY <1>1 DEF WipeClear, ClearedQueue, Absent
<1>2. CASE WipeDelete(w)
  BY <1>2 DEF WipeDelete, Absent
<1>3. CASE WipeGate(w)
  BY <1>3 DEF WipeGate
<1>4. CASE WipeTts(w)
  BY <1>4 DEF WipeTts
<1>5. CASE WipeCheck(w) \/ WipeSet(w) \/ WipeCancel(w) \/ WipeLease(w)
  BY <1>5 DEF WipeCheck, WipeSet, WipeCancel, WipeLease
<1>6. CASE WipeDrainTimeout(w) \/ WipeRelease(w) \/ WipeUngate(w) \/ WipeUnflag(w)
  BY <1>6 DEF WipeDrainTimeout, WipeRelease, WipeUngate, WipeUnflag
<1> QED BY <1>1, <1>2, <1>3, <1>4, <1>5, <1>6 DEF WipeStep

\* Startup loads the rows of the disk, one for one, and only reclassifies.
LEMMA CrashErasure ==
  ASSUME ErasureInv, CrashAndRestart
  PROVE  ErasureInv'
<1>1. \A d \in Drafts : /\ "status" \in DOMAIN Recover(d)
                        /\ disk[d].status = "absent" => Recover(d).status = "absent"
  BY DEF Recover, ErasureInv, Rows
<1> QED BY <1>1 DEF CrashAndRestart, ErasureInv, Rows, DeleteIsEmptied, ErasedIsEmpty, MemEmpty,
                    DiskEmpty, ghosts

LEMMA NextErasure == ErasureInv /\ [Next]_vars => ErasureInv'
<1> SUFFICES ASSUME ErasureInv, [Next]_vars PROVE ErasureInv'
  OBVIOUS
<1>1. CASE UNCHANGED vars
  BY <1>1 DEF vars, wipeVs, ghosts, ErasureInv, Rows, DeleteIsEmptied, ErasedIsEmpty, MemEmpty,
              DiskEmpty
<1>2. CASE HttpSend \/ \E t \in Workers : PrimaryDisplayed(t) \/ PrimaryQueued(t)
  <2>1. UNCHANGED << mem, disk, wp, erased >>
    BY <1>2 DEF HttpSend, PrimaryDisplayed, PrimaryQueued, wipeVs, ghosts
  <2> QED BY <2>1, KeptErasure DEF ErasureInv, Rows, RowsKept, MemEmpty, DiskEmpty
<1>3. CASE Next
  BY <1>2, <1>3, SendStepErasure, RouteStepErasure, WipeErasure, CrashErasure DEF Next
<1> QED BY <1>1, <1>3

LEMMA ErasureAlways == Spec => []ErasureInv
BY InitErasure, NextErasure, PTL DEF Spec

\* Once a wipe has verified its deletion, no draft is on disk again, for every
\* number of drafts, threads and wipes, with saves and deletions that may fail.
THEOREM NothingRegrows_Safety == Spec => []NothingRegrows
<1>1. ErasureInv => NothingRegrows
  BY DEF ErasureInv, ErasedIsEmpty, NothingRegrows, DiskEmpty
<1> QED BY <1>1, ErasureAlways, PTL
-----------------------------------------------------------------------------
(* The types, with a text for every draft that is there and for every send   *)
(* that has reserved one.                                                    *)

HIDE DEF ExclusionInv, Shape, ActiveIsRegistered, GateIsHeld, LeaseIsHeld, LeaseIsIdle

GoodRow    == { r \in DraftRec : r.status # "absent" => r.text \in Texts }
GoodThread == { q \in ThrRec : /\ q.pc # "idle" => q.draft \in Drafts
                               /\ q.pc \in Placing => q.text \in Texts }
GoodQueue(q) == q \in Seq(Drafts) /\ IsInjective(q)

MemFits    == mem \in [Drafts -> GoodRow]
DiskFits   == disk \in [Drafts -> GoodRow]
QueueFits  == GoodQueue(queue)
ThreadsFit == thr \in [Threads -> GoodThread]
OwnerFits  == owner \in [Drafts -> Threads \union {None}]
CoordFits  == active \subseteq Threads /\ cancel \in BOOLEAN /\ lease \in BOOLEAN
WipesFit   == wiping \in BOOLEAN /\ gate \in Wipers \union {None} /\ wp \in [Wipers -> WipePcs]
GhostsFit  == landed \in [Drafts -> SUBSET Texts] /\ reopened \subseteq Drafts /\ erased \in BOOLEAN

TypeInv ==
  /\ MemFits /\ DiskFits /\ QueueFits /\ ThreadsFit
  /\ OwnerFits /\ CoordFits /\ WipesFit /\ GhostsFit

LEMMA TypeInvImplies == TypeInv => TypeOK
BY DEF TypeInv, TypeOK, MemFits, DiskFits, QueueFits, ThreadsFit, OwnerFits, CoordFits, WipesFit,
       GhostsFit, GoodRow, GoodThread, GoodQueue

\* A set of positions that is not empty has a first one.
LEMMA LeastPosition ==
  ASSUME NEW I, I \subseteq Nat, I # {}
  PROVE  Min(I) \in I /\ \A k \in I : Min(I) <= k
<1> DEFINE R == { ss \in Nat \X Nat : ss[1] < ss[2] }
<1>1. IsWellFoundedOn(R, Nat)
  BY NatLessThanWellFounded DEF OpToRel
<1> HIDE DEF R
<1>2. PICK m \in I : \A k \in I : << k, m >> \notin R
  BY <1>1, WFMin
<1>3. \A k \in I : ~(k < m)
  BY <1>2 DEF R
<1>4. \A k \in I : m <= k
  BY <1>3
<1> QED BY <1>4 DEF Min

LEMMA EnlistGood ==
  ASSUME NEW q, GoodQueue(q), NEW d \in Drafts
  PROVE  GoodQueue(Enlist(q, d))
<1>1. CASE Contains(q, d)
  BY <1>1 DEF Enlist
<1>2. CASE ~Contains(q, d)
  <2>1. /\ Append(q, d) \in Seq(Drafts) /\ Len(Append(q, d)) = Len(q) + 1
        /\ Append(q, d)[Len(q) + 1] = d /\ Len(q) \in Nat
        /\ \A i \in 1..Len(q) : Append(q, d)[i] = q[i] /\ q[i] # d
    BY <1>2 DEF Contains, GoodQueue
  <2>2. DOMAIN q = 1..Len(q) /\ DOMAIN Append(q, d) = 1..(Len(q) + 1)
    BY <2>1 DEF GoodQueue
  <2>3. IsInjective(Append(q, d))
    <3>1. ASSUME NEW a \in 1..(Len(q) + 1), NEW b \in 1..(Len(q) + 1),
                 Append(q, d)[a] = Append(q, d)[b]
          PROVE  a = b
      <4>1. a \in 1..Len(q) \/ a = Len(q) + 1
        BY <2>1
      <4>2. b \in 1..Len(q) \/ b = Len(q) + 1
        BY <2>1
      <4>3. \A x, y \in 1..Len(q) : q[x] = q[y] => x = y
        BY <2>2 DEF GoodQueue, IsInjective
      <4> QED BY <2>1, <3>1, <4>1, <4>2, <4>3
    <3> QED BY <2>2, <3>1 DEF IsInjective
  <2> QED BY <1>2, <2>1, <2>3 DEF Enlist, GoodQueue
<1> QED BY <1>1, <1>2

LEMMA Joined ==
  ASSUME NEW S, NEW a \in Seq(S), NEW b \in Seq(S)
  PROVE  a \o b \in Seq(S) /\ Len(a \o b) = Len(a) + Len(b)
OBVIOUS

LEMMA UnlistedGood ==
  ASSUME NEW q, GoodQueue(q), NEW d
  PROVE  GoodQueue(Unlisted(q, d))
<1>1. CASE ~\E i \in 1..Len(q) : q[i] = d
  BY <1>1 DEF Unlisted, RemoveFirst
<1>2. CASE \E i \in 1..Len(q) : q[i] = d
  <2> DEFINE I == { i \in 1..Len(q) : q[i] = d }
             n == Min(I)
             r == RemoveAt(q, n)
  <2>1. n \in 1..Len(q) /\ Len(q) \in Nat
    BY <1>2, LeastPosition DEF GoodQueue
  <2>2. Unlisted(q, d) = r
    <3>1. I # {}
      BY <1>2
    <3>2. SelectInSeq(q, LAMBDA v : v = d) = n
      BY <3>1 DEF SelectInSeq
    <3> HIDE DEF n
    <3> QED BY <1>2, <3>2 DEF Unlisted, RemoveFirst
  <2> HIDE DEF n
  <2>3. /\ r \in Seq(Drafts) /\ Len(r) = Len(q) - 1
        /\ \A i \in 1..(Len(q) - 1) : r[i] = IF i < n THEN q[i] ELSE q[i + 1]
    <3> DEFINE before == SubSeq(q, 1, n - 1)
               after  == SubSeq(q, n + 1, Len(q))
    <3>1. /\ before \in Seq(Drafts) /\ Len(before) = n - 1
          /\ \A i \in 1..(n - 1) : before[i] = q[i]
      BY <2>1 DEF GoodQueue
    <3>2. /\ after \in Seq(Drafts) /\ Len(after) = Len(q) - n
          /\ \A i \in 1..(Len(q) - n) : after[i] = q[n + i]
      BY <2>1 DEF GoodQueue
    <3>3. r = before \o after
      BY DEF RemoveAt
    <3> HIDE DEF before, after, r
    <3>4. r \in Seq(Drafts) /\ Len(r) = Len(q) - 1
      <4>1. r \in Seq(Drafts) /\ Len(r) = Len(before) + Len(after)
        BY <3>1, <3>2, <3>3, Joined
      <4>2. Len(before) + Len(after) = Len(q) - 1
        BY <2>1, <3>1, <3>2
      <4> QED BY <4>1, <4>2
    <3>5. ASSUME NEW i \in 1..(Len(q) - 1) PROVE r[i] = IF i < n THEN q[i] ELSE q[i + 1]
      <4>1. CASE i < n
        <5>1. r[i] = before[i]
          BY <2>1, <3>1, <3>2, <3>3, <4>1
        <5> QED BY <2>1, <3>1, <4>1, <5>1
      <4>2. CASE ~(i < n)
        <5>1. i - (n - 1) \in 1..(Len(q) - n)
          BY <2>1, <4>2
        <5>2. r[i] = after[i - (n - 1)]
          BY <2>1, <3>1, <3>2, <3>3, <4>2
        <5> QED BY <2>1, <3>2, <4>2, <5>1, <5>2
      <4> QED BY <4>1, <4>2
    <3> QED BY <3>4, <3>5
  <2>4. \A a, b \in 1..Len(q) : q[a] = q[b] => a = b
    BY DEF GoodQueue, IsInjective
  <2> HIDE DEF r
  <2>5. IsInjective(r)
    <3>1. DOMAIN r = 1..(Len(q) - 1)
      BY <2>3
    <3>2. ASSUME NEW a \in 1..(Len(q) - 1), NEW b \in 1..(Len(q) - 1), r[a] = r[b]
          PROVE  a = b
      <4> DEFINE at(i) == IF i < n THEN i ELSE i + 1
      <4>1. at(a) \in 1..Len(q) /\ at(b) \in 1..Len(q) /\ q[at(a)] = q[at(b)]
        BY <2>1, <2>3, <3>2
      <4>2. at(a) = at(b)
        BY <2>4, <4>1
      <4> QED BY <2>1, <4>2
    <3> QED BY <3>1, <3>2 DEF IsInjective
  <2> QED BY <2>2, <2>3, <2>5 DEF GoodQueue
<1> QED BY <1>1, <1>2

LEMMA RestGood ==
  ASSUME NEW q, GoodQueue(q), NEW n \in 1..Len(q)
  PROVE  GoodQueue(SubSeq(q, n, Len(q)))
<1>1. /\ Len(q) \in Nat /\ SubSeq(q, n, Len(q)) \in Seq(Drafts)
      /\ Len(SubSeq(q, n, Len(q))) = Len(q) - n + 1
      /\ \A i \in 1..(Len(q) - n + 1) : SubSeq(q, n, Len(q))[i] = q[n + i - 1]
  BY DEF GoodQueue
<1>2. DOMAIN SubSeq(q, n, Len(q)) = 1..(Len(q) - n + 1)
  BY <1>1
<1>3. \A a, b \in 1..Len(q) : q[a] = q[b] => a = b
  BY DEF GoodQueue, IsInjective
<1>4. ASSUME NEW a \in 1..(Len(q) - n + 1), NEW b \in 1..(Len(q) - n + 1),
             SubSeq(q, n, Len(q))[a] = SubSeq(q, n, Len(q))[b]
      PROVE  a = b
  <2>1. n + a - 1 \in 1..Len(q) /\ n + b - 1 \in 1..Len(q)
    BY <1>1
  <2>2. n + a - 1 = n + b - 1
    BY <1>1, <1>3, <1>4, <2>1
  <2> QED BY <2>2
<1> QED BY <1>1, <1>2, <1>4 DEF GoodQueue, IsInjective

LEMMA EmptyGood == GoodQueue(<< >>)
BY DEF GoodQueue, IsInjective

\* A thread's next record, and the ones that start or end a request.
LEMMA IdleGood == Idle \in GoodThread
BY DEF Idle, GoodThread, ThrRec, ThrPcs, SendPcs, Placing, Results

LEMMA GotoGood ==
  ASSUME ThreadsFit, NEW t \in Threads, NEW pc \in ThrPcs, Goto(t, pc),
         pc # "idle" => thr[t].draft \in Drafts, pc \in Placing => thr[t].text \in Texts
  PROVE  ThreadsFit'
<1> DEFINE q == [thr[t] EXCEPT !.pc = pc]
<1>1. q \in GoodThread
  BY DEF ThreadsFit, GoodThread, ThrRec
<1>2. thr' = [thr EXCEPT ![t] = q]
  BY DEF Goto
<1> HIDE DEF q
<1> QED BY <1>1, <1>2 DEF ThreadsFit

LEMMA FinishGood ==
  ASSUME ThreadsFit, NEW t \in Threads, Finish(t)
  PROVE  ThreadsFit'
BY IdleGood DEF Finish, ThreadsFit

LEMMA RequestGood ==
  ASSUME NEW d \in Drafts, NEW via \in Vias
  PROVE  /\ Request(d, via) \in GoodThread
         /\ [Request(d, via) EXCEPT !.pc = "unlist"] \in GoodThread
BY DEF Request, Idle, GoodThread, ThrRec, ThrPcs, SendPcs, Placing, Results

\* Saving one draft, or none.
LEMMA SaveGood ==
  ASSUME MemFits, DiskFits, NEW d \in Drafts, SaveOne(d)
  PROVE  DiskFits'
BY DEF SaveOne, MemFits, DiskFits

LEMMA InitType == Init => TypeInv
<1> SUFFICES ASSUME Init PROVE TypeInv
  OBVIOUS
<1>1. MemFits /\ DiskFits
  BY DEF Init, MemFits, DiskFits, GoodRow, DraftRec, Statuses
<1>2. ThreadsFit
  BY IdleGood DEF Init, ThreadsFit
<1>3. QueueFits
  BY EmptyGood DEF Init, QueueFits
<1>4. OwnerFits /\ CoordFits /\ WipesFit /\ GhostsFit
  BY DEF Init, OwnerFits, CoordFits, WipesFit, GhostsFit, WipePcs
<1> QED BY <1>1, <1>2, <1>3, <1>4 DEF TypeInv

LEMMA RequestType ==
  ASSUME TypeInv, HttpSend \/ \E t \in Workers : PrimaryDisplayed(t) \/ PrimaryQueued(t)
  PROVE  TypeInv'
<1> USE DEF coord, wipeVs, ghosts
<1>1. CASE HttpSend
  <2>1. ThreadsFit'
    BY <1>1, RequestGood DEF HttpSend, TypeInv, ThreadsFit, Threads, Vias
  <2> QED BY <1>1, <2>1 DEF HttpSend, TypeInv, MemFits, DiskFits, QueueFits, OwnerFits, CoordFits,
                            WipesFit, GhostsFit
<1>2. ASSUME NEW t \in Workers, PrimaryDisplayed(t) PROVE TypeInv'
  <2>1. ThreadsFit'
    BY <1>2, RequestGood DEF PrimaryDisplayed, TypeInv, ThreadsFit, Threads, Vias
  <2> QED BY <1>2, <2>1 DEF PrimaryDisplayed, TypeInv, MemFits, DiskFits, QueueFits, OwnerFits,
                            CoordFits, WipesFit, GhostsFit
<1>3. ASSUME NEW t \in Workers, PrimaryQueued(t) PROVE TypeInv'
  <2> DEFINE Live(d) == Present(d) /\ mem[d].pending
             first   == SelectInSeq(queue, Live)
  <2>1. first = 0 \/ first \in 1..Len(queue)
    <3> DEFINE I == { i \in 1..Len(queue) : Live(queue[i]) }
    <3>1. first = IF I # {} THEN Min(I) ELSE 0
      BY DEF SelectInSeq
    <3>2. I \subseteq Nat /\ I \subseteq 1..Len(queue)
      BY DEF TypeInv, QueueFits, GoodQueue
    <3> HIDE DEF I, first
    <3> QED BY <3>1, <3>2, LeastPosition
  <2> HIDE DEF first
  <2>2. \/ queue' = << >> /\ UNCHANGED thr
        \/ /\ first # 0
           /\ queue' = SubSeq(queue, first, Len(queue))
           /\ thr' = [thr EXCEPT ![t] =
                IF wiping THEN [Request(queue[first], "queued") EXCEPT !.pc = "unlist"]
                          ELSE Request(queue[first], "queued")]
    BY <1>3 DEF PrimaryQueued, first
  <2>3. QueueFits'
    BY <2>1, <2>2, RestGood, EmptyGood DEF TypeInv, QueueFits
  <2>4. ThreadsFit'
    <3>1. first # 0 => queue[first] \in Drafts
      BY <2>1 DEF TypeInv, QueueFits, GoodQueue
    <3>2. "queued" \in Vias /\ t \in Threads
      BY DEF Vias, Threads
    <3>3. CASE UNCHANGED thr
      BY <3>3 DEF TypeInv, ThreadsFit
    <3>4. CASE first # 0 /\ \E q \in GoodThread : thr' = [thr EXCEPT ![t] = q]
      BY <3>2, <3>4 DEF TypeInv, ThreadsFit
    <3> QED BY <2>2, <3>1, <3>2, <3>3, <3>4, RequestGood
  <2>5. UNCHANGED << mem, disk, owner, coord, wipeVs, ghosts >>
    BY <1>3 DEF PrimaryQueued
  <2> QED BY <2>3, <2>4, <2>5 DEF TypeInv, MemFits, DiskFits, OwnerFits, CoordFits, WipesFit,
                                  GhostsFit
<1> QED BY <1>1, <1>2, <1>3

\* The steps of one send.
LEMMA SendStepType ==
  ASSUME TypeInv, NEW t \in Threads, SendStep(t)
  PROVE  TypeInv'
<1> USE DEF coord, wipeVs, ghosts
<1>0. /\ MemFits /\ DiskFits /\ QueueFits /\ ThreadsFit
      /\ OwnerFits /\ CoordFits /\ WipesFit /\ GhostsFit
  BY DEF TypeInv
<1>d. thr[t].pc # "idle" /\ thr[t].draft \in Drafts
  BY <1>0 DEF SendStep, Register, Claim, Mark, Place, Settle, Persist, EndSend, Unlist,
              ThreadsFit, GoodThread
<1>p. thr[t].pc \in Placing => thr[t].text \in Texts
  BY <1>0 DEF ThreadsFit, GoodThread
<1>1. CASE Register(t)
  <2>1. ThreadsFit'
    BY <1>1, <1>0, <1>d, GotoGood, FinishGood DEF Register, ThrPcs, SendPcs, Placing
  <2>2. CoordFits'
    BY <1>1, <1>0 DEF Register, CoordFits
  <2> QED BY <1>1, <1>0, <2>1, <2>2 DEF Register, TypeInv, MemFits, DiskFits, QueueFits, OwnerFits,
                                        WipesFit, GhostsFit
<1>2. CASE Claim(t)
  <2> DEFINE d == thr[t].draft
             via == thr[t].via
  <2>0. d \in Drafts /\ thr[t] \in ThrRec
    BY <1>0, <1>d DEF ThreadsFit, GoodThread
  <2>f. UNCHANGED << disk, coord, wipeVs, ghosts >>
    BY <1>2 DEF Claim
  <2>1. PICK seen \in Texts, resend \in BOOLEAN :
          \/ /\ MayReserve(d, via, seen, resend)
             /\ mem' = [mem EXCEPT ![d].status = "sending",
                                   ![d].pending = (via = "displayed") \/ @]
             /\ queue' = IF via = "displayed" THEN Enlist(queue, d) ELSE queue
             /\ owner' = [owner EXCEPT ![d] = t]
             /\ thr' = [thr EXCEPT ![t].pc = "mark", ![t].text = mem[d].text,
                                   ![t].seen = IF via = "copy" THEN None ELSE seen]
          \/ /\ thr' = [thr EXCEPT ![t].pc = "end", ![t].result = Refusal(d, seen)]
             /\ UNCHANGED << mem, queue, owner >>
    BY <1>2 DEF Claim
  <2>2. CASE /\ MayReserve(d, via, seen, resend)
             /\ mem' = [mem EXCEPT ![d].status = "sending",
                                   ![d].pending = (via = "displayed") \/ @]
             /\ queue' = IF via = "displayed" THEN Enlist(queue, d) ELSE queue
             /\ owner' = [owner EXCEPT ![d] = t]
             /\ thr' = [thr EXCEPT ![t].pc = "mark", ![t].text = mem[d].text,
                                   ![t].seen = IF via = "copy" THEN None ELSE seen]
    <3>1. mem[d] \in DraftRec /\ mem[d].text \in Texts
      BY <1>0, <2>0, <2>2 DEF MemFits, GoodRow, MayReserve
    <3> DEFINE b == (via = "displayed") \/ mem[d].pending
               r == [mem[d] EXCEPT !.status = "sending", !.pending = b]
               s == IF via = "copy" THEN None ELSE seen
               q == [thr[t] EXCEPT !.pc = "mark", !.text = mem[d].text, !.seen = s]
    <3>2. b \in BOOLEAN /\ s \in Texts \union {None}
      OBVIOUS
    <3>3. mem' = [mem EXCEPT ![d] = r] /\ thr' = [thr EXCEPT ![t] = q]
      BY <2>2
    <3> HIDE DEF b, s
    <3>4. r \in GoodRow
      BY <3>1, <3>2 DEF GoodRow, DraftRec, Statuses
    <3>5. q \in GoodThread
      BY <2>0, <3>1, <3>2 DEF GoodThread, ThrRec, ThrPcs, SendPcs
    <3> HIDE DEF r, q
    <3>6. MemFits' /\ ThreadsFit'
      BY <1>0, <3>3, <3>4, <3>5 DEF MemFits, ThreadsFit
    <3>7. QueueFits' /\ OwnerFits'
      BY <1>0, <2>0, <2>2, EnlistGood DEF QueueFits, OwnerFits
    <3> QED BY <1>0, <2>f, <3>6, <3>7 DEF TypeInv, DiskFits, CoordFits, WipesFit, GhostsFit
  <2>3. CASE /\ thr' = [thr EXCEPT ![t].pc = "end", ![t].result = Refusal(d, seen)]
             /\ UNCHANGED << mem, queue, owner >>
    <3> DEFINE q == [thr[t] EXCEPT !.pc = "end", !.result = Refusal(d, seen)]
    <3>1. Refusal(d, seen) \in Results
      BY DEF Refusal, Results
    <3>2. q \in GoodThread
      BY <2>0, <3>1 DEF GoodThread, ThrRec, ThrPcs, SendPcs, Placing
    <3>3. thr' = [thr EXCEPT ![t] = q]
      BY <2>3
    <3> HIDE DEF q
    <3>4. ThreadsFit'
      BY <1>0, <3>2, <3>3 DEF ThreadsFit
    <3> QED BY <1>0, <2>f, <2>3, <3>4 DEF TypeInv, MemFits, DiskFits, QueueFits, OwnerFits,
                                          CoordFits, WipesFit, GhostsFit
  <2> QED BY <2>1, <2>2, <2>3
<1>3. CASE Mark(t)
  <2>1. ThreadsFit' /\ DiskFits'
    BY <1>3, <1>0, <1>d, <1>p, GotoGood, SaveGood DEF Mark, ThrPcs, SendPcs, Placing
  <2> QED BY <1>3, <1>0, <2>1 DEF Mark, TypeInv, MemFits, QueueFits, OwnerFits, CoordFits, WipesFit,
                                  GhostsFit
<1>4. CASE Place(t)
  <2>1. PICK r \in {"ok", "fail", "interrupt"}, out \in BOOLEAN :
          /\ thr' = [thr EXCEPT ![t].pc = "settle", ![t].result = r, ![t].text = PlacedText(t)]
          /\ landed' = IF out THEN [landed EXCEPT ![thr[t].draft] = @ \union {PlacedText(t)}]
                              ELSE landed
    BY <1>4 DEF Place
  <2>2. PlacedText(t) \in Texts /\ thr[t] \in ThrRec
    BY <1>4, <1>0, <1>p DEF Place, PlacedText, Placing, ThreadsFit, GoodThread
  <2> DEFINE q == [thr[t] EXCEPT !.pc = "settle", !.result = r, !.text = PlacedText(t)]
  <2>3. thr' = [thr EXCEPT ![t] = q]
    BY <2>1
  <2>4. q \in GoodThread
    BY <1>d, <2>2 DEF GoodThread, ThrRec, ThrPcs, SendPcs, Results
  <2> HIDE DEF q
  <2>5. ThreadsFit'
    BY <1>0, <2>3, <2>4 DEF ThreadsFit
  <2>6. GhostsFit'
    BY <1>4, <1>0, <1>d, <2>1, <2>2 DEF Place, GhostsFit
  <2> QED BY <1>4, <1>0, <2>5, <2>6 DEF Place, TypeInv, MemFits, DiskFits, QueueFits, OwnerFits,
                                        CoordFits, WipesFit
<1>5. CASE Settle(t)
  <2>1. UNCHANGED << disk, owner, coord, wipeVs, ghosts >>
    BY <1>5 DEF Settle
  <2>2. QueueFits'
    <3>1. queue' = queue \/ queue' = Unlisted(queue, thr[t].draft)
      BY <1>5 DEF Settle
    <3> QED BY <1>0, <3>1, UnlistedGood DEF QueueFits
  <2>3. MemFits'
    <3>1. CASE mem' = mem
      BY <1>0, <3>1 DEF MemFits
    <3>2. CASE Present(thr[t].draft) /\ mem' # mem
      <4>1. mem[thr[t].draft] \in DraftRec /\ mem[thr[t].draft].text \in Texts
        BY <1>0, <1>d, <3>2 DEF MemFits, GoodRow, Present
      <4>2. \E r \in GoodRow : mem' = [mem EXCEPT ![thr[t].draft] = r]
        <5> DEFINE m  == mem[thr[t].draft]
                   r1 == [m EXCEPT !.status = "sent", !.pending = FALSE]
                   r2 == [m EXCEPT !.status = "send_error"]
                   r3 == [m EXCEPT !.status = "send_interrupted"]
        <5>1. r1 \in GoodRow /\ r2 \in GoodRow /\ r3 \in GoodRow
          BY <4>1 DEF GoodRow, DraftRec, Statuses
        <5>2. \/ mem' = [mem EXCEPT ![thr[t].draft] = r1]
              \/ mem' = [mem EXCEPT ![thr[t].draft] = r2]
              \/ mem' = [mem EXCEPT ![thr[t].draft] = r3]
          BY <1>5, <3>2 DEF Settle
        <5> HIDE DEF r1, r2, r3
        <5> QED BY <5>1, <5>2
      <4> QED BY <1>0, <4>2 DEF MemFits
    <3>3. CASE ~Present(thr[t].draft)
      BY <1>5, <1>0, <3>3 DEF Settle, MemFits
    <3> QED BY <3>1, <3>2, <3>3
  <2>4. ThreadsFit'
    <3> DEFINE q == [thr[t] EXCEPT !.pc = "persist", !.text = None, !.seen = None]
    <3>1. thr' = [thr EXCEPT ![t] = q]
      BY <1>5 DEF Settle
    <3>2. q \in GoodThread
      BY <1>0, <1>d DEF ThreadsFit, GoodThread, ThrRec, ThrPcs, SendPcs, Placing
    <3> HIDE DEF q
    <3> QED BY <1>0, <3>1, <3>2 DEF ThreadsFit
  <2> QED BY <1>0, <2>1, <2>2, <2>3, <2>4 DEF TypeInv, DiskFits, OwnerFits, CoordFits, WipesFit,
                                              GhostsFit
<1>6. CASE Persist(t)
  <2>1. ThreadsFit' /\ DiskFits'
    BY <1>6, <1>0, <1>d, GotoGood, SaveGood DEF Persist, ThrPcs, SendPcs, Placing, DiskFits
  <2> QED BY <1>6, <1>0, <2>1 DEF Persist, TypeInv, MemFits, QueueFits, OwnerFits, CoordFits,
                                  WipesFit, GhostsFit
<1>7. CASE EndSend(t)
  <2>1. ThreadsFit'
    BY <1>7, <1>0, <1>d, GotoGood, FinishGood DEF EndSend, ThrPcs, Placing
  <2>2. CoordFits'
    BY <1>7, <1>0 DEF EndSend, CoordFits
  <2> QED BY <1>7, <1>0, <2>1, <2>2 DEF EndSend, TypeInv, MemFits, DiskFits, QueueFits, OwnerFits,
                                        WipesFit, GhostsFit
<1>8. CASE Unlist(t)
  <2>1. ThreadsFit' /\ QueueFits'
    BY <1>8, <1>0, FinishGood, UnlistedGood DEF Unlist, QueueFits
  <2> QED BY <1>8, <1>0, <2>1 DEF Unlist, TypeInv, MemFits, DiskFits, OwnerFits, CoordFits, WipesFit,
                                  GhostsFit
<1> QED BY <1>1, <1>2, <1>3, <1>4, <1>5, <1>6, <1>7, <1>8 DEF SendStep

\* A route leaves a good row and the draft it saves.
LEMMA ChangeType ==
  ASSUME TypeInv, NEW d \in Drafts, NEW r \in GoodRow, Change(d, r)
  PROVE  MemFits' /\ GhostsFit'
BY DEF TypeInv, MemFits, GhostsFit, Change, TakenOut, ghosts

LEMMA LoopGood ==
  ASSUME ThreadsFit, NEW d \in Drafts,
         ThenSave(d) \/ thr' = [thr EXCEPT ![Loop] = [Idle EXCEPT !.pc = "rewrite", !.draft = d]]
  PROVE  ThreadsFit'
<1>1. /\ [Idle EXCEPT !.pc = "save", !.draft = d] \in GoodThread
      /\ [Idle EXCEPT !.pc = "rewrite", !.draft = d] \in GoodThread
  BY DEF Idle, GoodThread, ThrRec, ThrPcs, SendPcs, Placing, Results
<1> QED BY <1>1 DEF ThreadsFit, ThenSave, Threads

LEMMA RouteType ==
  ASSUME TypeInv, RouteStep
  PROVE  TypeInv'
<1> USE DEF coord, wipeVs, ghosts
<1>0. /\ MemFits /\ DiskFits /\ QueueFits /\ ThreadsFit
      /\ OwnerFits /\ CoordFits /\ WipesFit /\ GhostsFit
  BY DEF TypeInv
<1>r. ASSUME NEW d \in Drafts, Present(d)
      PROVE  mem[d] \in DraftRec /\ mem[d].text \in Texts
  BY <1>0, <1>r DEF MemFits, GoodRow, Present
<1>w. ASSUME NEW t \in Workers
      PROVE  /\ t \in Threads /\ thr[t] \in ThrRec
             /\ thr[t].pc # "idle" => thr[t].draft \in Drafts
  BY <1>0 DEF ThreadsFit, GoodThread, Threads
<1>1. ASSUME NEW d \in Drafts, Accept(d) PROVE TypeInv'
  <2> DEFINE r == [mem[d] EXCEPT !.status = "accepted", !.pending = TRUE]
  <2>1. r \in GoodRow
    BY <1>1, <1>r DEF Accept, MayAccept, Present, GoodRow, DraftRec, Statuses
  <2>2. Change(d, r) /\ queue' = Enlist(queue, d) /\ ThenSave(d)
    BY <1>1 DEF Accept
  <2> HIDE DEF r
  <2>3. MemFits' /\ GhostsFit' /\ QueueFits' /\ ThreadsFit'
    BY <1>0, <2>1, <2>2, ChangeType, EnlistGood, LoopGood DEF QueueFits
  <2> QED BY <1>1, <1>0, <2>3 DEF Accept, TypeInv, DiskFits, OwnerFits, CoordFits, WipesFit
<1>2. ASSUME NEW d \in Drafts, Decline(d) PROVE TypeInv'
  <2> DEFINE r == [mem[d] EXCEPT !.status = "declined", !.pending = FALSE]
  <2>1. r \in GoodRow
    BY <1>2, <1>r DEF Decline, Present, GoodRow, DraftRec, Statuses
  <2>2. Change(d, r) /\ queue' = Unlisted(queue, d) /\ ThenSave(d)
    BY <1>2 DEF Decline
  <2> HIDE DEF r
  <2>3. MemFits' /\ GhostsFit' /\ QueueFits' /\ ThreadsFit'
    BY <1>0, <2>1, <2>2, ChangeType, UnlistedGood, LoopGood DEF QueueFits
  <2> QED BY <1>2, <1>0, <2>3 DEF Decline, TypeInv, DiskFits, OwnerFits, CoordFits, WipesFit
<1>3. ASSUME NEW d \in Drafts, NEW x \in Texts, Edit(d, x) PROVE TypeInv'
  <2> DEFINE r1 == [status |-> "pending", text |-> x, pending |-> FALSE]
             r2 == [mem[d] EXCEPT !.text = x]
  <2>1. r1 \in GoodRow /\ r2 \in GoodRow
    BY <1>3, <1>r DEF Edit, GoodRow, DraftRec, Statuses
  <2>2. /\ Change(d, r1) \/ Change(d, r2)
        /\ queue' = Unlisted(queue, d) \/ queue' = queue
        /\ ThenSave(d)
    BY <1>3 DEF Edit
  <2> HIDE DEF r1, r2
  <2>3. MemFits' /\ GhostsFit'
    BY <2>1, <2>2, ChangeType
  <2>4. QueueFits' /\ ThreadsFit'
    BY <1>0, <2>2, UnlistedGood, LoopGood DEF QueueFits
  <2> QED BY <1>3, <1>0, <2>3, <2>4 DEF Edit, TypeInv, DiskFits, OwnerFits, CoordFits, WipesFit
<1>4. ASSUME NEW d \in Drafts, RewriteBegin(d) PROVE TypeInv'
  <2>1. ThreadsFit'
    BY <1>0, <1>4, LoopGood DEF RewriteBegin
  <2> QED BY <1>4, <1>0, <2>1 DEF RewriteBegin, TypeInv, MemFits, DiskFits, QueueFits, OwnerFits,
                                  CoordFits, WipesFit, GhostsFit
<1>5. ASSUME NEW x \in Texts, RewriteEnd(x) PROVE TypeInv'
  <2> DEFINE d == thr[Loop].draft
             r == [mem[d] EXCEPT !.status = "pending", !.text = x]
  <2>0. d \in Drafts /\ Loop \in Threads
    BY <1>5, <1>0 DEF RewriteEnd, ThreadsFit, GoodThread, Threads
  <2>f. UNCHANGED << disk, owner, queue, coord, wipeVs >>
    BY <1>5 DEF RewriteEnd
  <2>1. CASE Present(d) /\ Change(d, r) /\ ThenSave(d)
    <3>1. r \in GoodRow
      BY <1>r, <2>0, <2>1 DEF GoodRow, DraftRec, Statuses
    <3> HIDE DEF r, d
    <3>2. MemFits' /\ GhostsFit' /\ ThreadsFit'
      BY <1>0, <2>0, <2>1, <3>1, ChangeType, LoopGood
    <3> QED BY <1>0, <2>f, <3>2 DEF TypeInv, DiskFits, QueueFits, OwnerFits, CoordFits, WipesFit
  <2>2. CASE Finish(Loop) /\ UNCHANGED << mem, ghosts >>
    <3>1. ThreadsFit'
      BY <1>0, <2>0, <2>2, FinishGood
    <3> QED BY <1>0, <2>f, <2>2, <3>1 DEF TypeInv, MemFits, DiskFits, QueueFits, OwnerFits,
                                          CoordFits, WipesFit, GhostsFit
  <2> QED BY <1>5, <2>1, <2>2 DEF RewriteEnd
<1>6. CASE RouteSave
  <2>1. thr[Loop].draft \in Drafts /\ Loop \in Threads
    BY <1>6, <1>0 DEF RouteSave, ThreadsFit, GoodThread, Threads
  <2>2. DiskFits' /\ ThreadsFit'
    BY <1>0, <1>6, <2>1, SaveGood, FinishGood DEF RouteSave
  <2> QED BY <1>6, <1>0, <2>2 DEF RouteSave, TypeInv, MemFits, QueueFits, OwnerFits, CoordFits,
                                  WipesFit, GhostsFit
<1>a. Absent \in GoodRow
  BY DEF Absent, GoodRow, DraftRec, Statuses
<1>7. ASSUME NEW t \in Workers, DeleteQueued(t) PROVE TypeInv'
  <2>0. t \in Threads /\ thr[t] \in ThrRec /\ thr[t].draft \in Drafts
    BY <1>7, <1>w DEF DeleteQueued
  <2> DEFINE q == [thr[t] EXCEPT !.pc = "archive"]
  <2>1. q \in GoodThread
    BY <2>0 DEF GoodThread, ThrRec, ThrPcs, SendPcs, Placing
  <2>2. thr' = [thr EXCEPT ![t] = q]
    BY <1>7 DEF DeleteQueued
  <2> HIDE DEF q
  <2>3. ThreadsFit' /\ MemFits'
    BY <1>0, <1>a, <1>7, <2>1, <2>2 DEF DeleteQueued, ThreadsFit, MemFits
  <2>4. GhostsFit'
    BY <1>0, <1>7, <2>0 DEF DeleteQueued, GhostsFit, TakenOut
  <2> QED BY <1>7, <1>0, <2>3, <2>4 DEF DeleteQueued, TypeInv, DiskFits, QueueFits, OwnerFits,
                                        CoordFits, WipesFit
<1>8. ASSUME NEW t \in Workers, DeleteArchived(t) PROVE TypeInv'
  <2>1. DiskFits' /\ ThreadsFit'
    BY <1>0, <1>a, <1>w, <1>8, FinishGood DEF DeleteArchived, DiskFits
  <2> QED BY <1>8, <1>0, <2>1 DEF DeleteArchived, TypeInv, MemFits, QueueFits, OwnerFits, CoordFits,
                                  WipesFit, GhostsFit
<1>9. ASSUME NEW t \in Workers, NEW d \in Drafts, DeleteDecide(t, d) PROVE TypeInv'
  <2>1. [Idle EXCEPT !.pc = "delete", !.draft = d] \in GoodThread
    BY DEF Idle, GoodThread, ThrRec, ThrPcs, SendPcs, Placing, Results
  <2>2. ThreadsFit'
    BY <1>0, <1>9, <2>1 DEF DeleteDecide, ThreadsFit
  <2> QED BY <1>9, <1>0, <2>2 DEF DeleteDecide, TypeInv, MemFits, DiskFits, QueueFits, OwnerFits,
                                  CoordFits, WipesFit, GhostsFit
<1>10. CASE EmergencyStop
  BY <1>10, <1>0, EmptyGood DEF EmergencyStop, TypeInv, MemFits, DiskFits, QueueFits, ThreadsFit,
                                OwnerFits, CoordFits, WipesFit, GhostsFit
<1> QED BY <1>1, <1>2, <1>3, <1>4, <1>5, <1>6, <1>7, <1>8, <1>9, <1>10 DEF RouteStep

LEMMA WipeType ==
  ASSUME TypeInv, NEW w \in Wipers, WipeCheck(w) \/ WipeStep(w)
  PROVE  TypeInv'
<1> USE DEF coord, ghosts, dataVs, WipeGoto, WipePcs
<1>0. /\ MemFits /\ DiskFits /\ QueueFits /\ ThreadsFit
      /\ OwnerFits /\ CoordFits /\ WipesFit /\ GhostsFit
  BY DEF TypeInv
<1>1. [d \in Drafts |-> Absent] \in [Drafts -> GoodRow]
  BY DEF Absent, GoodRow, DraftRec, Statuses
<1>2. WipesFit'
  <2>1. CASE WipeTts(w)
    BY <1>0, <2>1 DEF WipeTts, WipesFit
  <2>2. CASE WipeGate(w)
    BY <1>0, <2>2 DEF WipeGate, WipesFit
  <2>3. CASE WipeCheck(w) \/ WipeSet(w) \/ WipeCancel(w) \/ WipeLease(w) \/ WipeDrainTimeout(w)
    BY <1>0, <2>3 DEF WipesFit, WipeCheck, WipeSet, WipeCancel, WipeLease, WipeDrainTimeout
  <2>4. CASE WipeClear(w) \/ WipeDelete(w) \/ WipeRelease(w) \/ WipeUngate(w) \/ WipeUnflag(w)
    BY <1>0, <2>4 DEF WipesFit, WipeClear, WipeDelete, WipeRelease, WipeUngate, WipeUnflag
  <2> QED BY <2>1, <2>2, <2>3, <2>4 DEF WipeStep
<1>3. CoordFits'
  BY <1>0 DEF CoordFits, WipeStep, WipeCheck, WipeSet, WipeGate, WipeCancel, WipeLease,
              WipeDrainTimeout, CancelRolledBack, WipeTts, WipeClear, WipeDelete, WipeRelease,
              WipeUngate, WipeUnflag
<1>4. MemFits' /\ QueueFits'
  BY <1>0, <1>1, EmptyGood
     DEF MemFits, QueueFits, WipeStep, WipeCheck, WipeSet, WipeGate, WipeCancel, WipeLease,
         WipeDrainTimeout, WipeTts, WipeClear, ClearedQueue, WipeDelete, WipeRelease, WipeUngate,
         WipeUnflag
<1>5. DiskFits' /\ GhostsFit'
  BY <1>0, <1>1
     DEF DiskFits, GhostsFit, WipeStep, WipeCheck, WipeSet, WipeGate, WipeCancel, WipeLease,
         WipeDrainTimeout, WipeTts, WipeClear, WipeDelete, WipeRelease, WipeUngate, WipeUnflag
<1>6. ThreadsFit' /\ OwnerFits'
  BY <1>0
     DEF ThreadsFit, OwnerFits, WipeStep, WipeCheck, WipeSet, WipeGate, WipeCancel, WipeLease,
         WipeDrainTimeout, WipeTts, WipeClear, WipeDelete, WipeRelease, WipeUngate, WipeUnflag
<1> QED BY <1>2, <1>3, <1>4, <1>5, <1>6 DEF TypeInv

LEMMA CrashType ==
  ASSUME TypeInv, CrashAndRestart
  PROVE  TypeInv'
<1> USE DEF ghosts
<1>1. \A d \in Drafts : Recover(d) \in GoodRow
  BY DEF Recover, TypeInv, DiskFits, GoodRow, DraftRec, Statuses
<1>2. MemFits' /\ DiskFits'
  BY <1>1 DEF CrashAndRestart, TypeInv, MemFits, DiskFits
<1>3. ThreadsFit' /\ QueueFits'
  BY IdleGood, EmptyGood DEF CrashAndRestart, ThreadsFit, QueueFits
<1>4. OwnerFits' /\ CoordFits' /\ WipesFit'
  BY DEF CrashAndRestart, OwnerFits, CoordFits, WipesFit, WipePcs
<1>5. GhostsFit'
  BY DEF CrashAndRestart, TypeInv, GhostsFit
<1> QED BY <1>2, <1>3, <1>4, <1>5 DEF TypeInv

LEMMA NextType == TypeInv /\ [Next]_vars => TypeInv'
<1> SUFFICES ASSUME TypeInv, [Next]_vars PROVE TypeInv'
  OBVIOUS
<1>1. CASE UNCHANGED vars
  BY <1>1 DEF vars, coord, wipeVs, ghosts, TypeInv, MemFits, DiskFits, QueueFits, ThreadsFit,
              OwnerFits, CoordFits, WipesFit, GhostsFit
<1>2. CASE Next
  BY <1>2, RequestType, SendStepType, RouteType, WipeType, CrashType DEF Next
<1> QED BY <1>1, <1>2

LEMMA TypeAlways == Spec => []TypeInv
BY InitType, NextType, PTL DEF Spec

\* The types hold for any number of drafts, threads and wipes; among them, that the
\* list of drafts queued to be sent never holds a draft twice
\* (server.py mark_draft_pending_send).
THEOREM TypeOK_Safety == Spec => []TypeOK
BY TypeAlways, TypeInvImplies, PTL
-----------------------------------------------------------------------------
(* Reservations.  OneSender, PlacedWasApproved and NoSilentDoublePlacement   *)
(* rest on one fact: while a send is placing a draft that no route took out  *)
(* of "sending", the draft says "sending" and names that send as its owner.  *)

Fresh == {"pending", "accepted"}

PlacingReserved ==
  \A t \in Threads : thr[t].pc \in Placing /\ thr[t].draft \notin reopened =>
    mem[thr[t].draft].status = "sending" /\ owner[thr[t].draft] = t
ReservationInv == SendingHasOwner /\ PlacingReserved

ApprovedText ==
  \A t \in Threads : thr[t].pc \in Placing /\ thr[t].seen # None => thr[t].text = thr[t].seen

\* A text that may have left the program belongs to a draft that neither memory
\* nor a restart would call fresh, and a send about to place one has seen to that.
LandedSettled ==
  \A d \in Drafts \ reopened : landed[d] # {} =>
    mem[d].status \notin Fresh /\ disk[d].status \notin Fresh
MarkOnDisk ==
  \A t \in Threads : thr[t].pc = "place" /\ thr[t].draft \notin reopened =>
    disk[thr[t].draft].status \notin Fresh
LandedInv == LandedSettled /\ MarkOnDisk

\* A step beside the sends: a thread that is placing does not move, a draft is
\* taken out of "sending" only with a note of it, and a row is written to disk
\* as memory has it.
ThreadsAside ==
  \A u \in Threads : thr'[u] = thr[u] \/ (thr[u].pc \notin Placing /\ thr'[u].pc \notin Placing)
MemAside ==
  \A d \in Drafts :
    \/ mem'[d].status = mem[d].status
    \/ /\ mem'[d].status # "sending"
       /\ \A u \in Threads : thr[u].pc \in Placing /\ thr[u].draft = d => d \in reopened'
DiskAside ==
  \A d \in Drafts : disk'[d] = disk[d] \/ disk'[d] = mem[d] \/ disk'[d].status = "absent"
LandedAside ==
  \A d \in Drafts :
    \/ landed'[d] = {}
    \/ /\ landed'[d] = landed[d]
       /\ mem'[d].status = mem[d].status \/ mem'[d].status \notin Fresh
Aside ==
  /\ ThreadsAside /\ MemAside /\ DiskAside /\ LandedAside
  /\ UNCHANGED owner /\ reopened \subseteq reopened'

LEMMA PlacingHasDraft ==
  ASSUME TypeInv, NEW t \in Threads, thr[t].pc \in Placing
  PROVE  thr[t].draft \in Drafts
BY DEF TypeInv, ThreadsFit, GoodThread, Placing

LEMMA AsideKeepsReservation ==
  ASSUME TypeInv, ReservationInv, Aside
  PROVE  ReservationInv'
<1>1. SendingHasOwner'
  <2> SUFFICES ASSUME NEW d \in Drafts, mem'[d].status = "sending"
               PROVE  \E t \in Threads : thr'[t].draft = d /\ thr'[t].pc \in Placing /\ owner'[d] = t
    BY DEF SendingHasOwner
  <2>1. mem[d].status = "sending"
    BY DEF Aside, MemAside
  <2>2. PICK t \in Threads : thr[t].draft = d /\ thr[t].pc \in Placing /\ owner[d] = t
    BY <2>1 DEF ReservationInv, SendingHasOwner
  <2> QED BY <2>2 DEF Aside, ThreadsAside
<1>2. PlacingReserved'
  <2> SUFFICES ASSUME NEW t \in Threads, thr'[t].pc \in Placing, thr'[t].draft \notin reopened'
               PROVE  mem'[thr'[t].draft].status = "sending" /\ owner'[thr'[t].draft] = t
    BY DEF PlacingReserved
  <2>1. thr'[t] = thr[t] /\ thr[t].pc \in Placing /\ thr[t].draft \notin reopened
    BY DEF Aside, ThreadsAside
  <2>2. mem[thr[t].draft].status = "sending" /\ owner[thr[t].draft] = t
    BY <2>1 DEF ReservationInv, PlacingReserved
  <2>3. thr[t].draft \in Drafts
    BY <2>1, PlacingHasDraft
  <2> QED BY <2>1, <2>2, <2>3 DEF Aside, MemAside
<1> QED BY <1>1, <1>2 DEF ReservationInv

LEMMA AsideKeepsApproved ==
  ASSUME ApprovedText, Aside
  PROVE  ApprovedText'
BY DEF ApprovedText, Aside, ThreadsAside

LEMMA AsideKeepsLanded ==
  ASSUME TypeInv, ReservationInv, LandedInv, Aside
  PROVE  LandedInv'
<1>1. LandedSettled'
  <2> SUFFICES ASSUME NEW d \in Drafts, d \notin reopened', landed'[d] # {}
               PROVE  mem'[d].status \notin Fresh /\ disk'[d].status \notin Fresh
    BY DEF LandedSettled
  <2>1. d \notin reopened /\ landed'[d] = landed[d]
    BY DEF Aside, LandedAside
  <2>2. mem[d].status \notin Fresh /\ disk[d].status \notin Fresh
    BY <2>1 DEF LandedInv, LandedSettled
  <2> QED BY <2>2 DEF Aside, LandedAside, DiskAside, Fresh
<1>2. MarkOnDisk'
  <2> SUFFICES ASSUME NEW t \in Threads, thr'[t].pc = "place", thr'[t].draft \notin reopened'
               PROVE  disk'[thr'[t].draft].status \notin Fresh
    BY DEF MarkOnDisk
  <2>1. thr'[t] = thr[t] /\ thr[t].pc = "place" /\ thr[t].draft \notin reopened
    BY DEF Aside, ThreadsAside, Placing
  <2>2. thr[t].draft \in Drafts /\ mem[thr[t].draft].status = "sending"
    BY <2>1, PlacingHasDraft DEF ReservationInv, PlacingReserved, Placing
  <2>3. disk[thr[t].draft].status \notin Fresh
    BY <2>1 DEF LandedInv, MarkOnDisk
  <2> QED BY <2>1, <2>2, <2>3 DEF Aside, DiskAside, Fresh
<1> QED BY <1>1, <1>2 DEF LandedInv

\* A thread outside Placing that moves to a place outside Placing.
LEMMA MovesAside ==
  ASSUME TypeInv, NEW t \in Threads, thr[t].pc \notin Placing,
         NEW q, q.pc \notin Placing, thr' = [thr EXCEPT ![t] = q]
  PROVE  ThreadsAside
BY DEF TypeInv, ThreadsFit, ThreadsAside

LEMMA StaysAside ==
  ASSUME UNCHANGED << mem, owner, ghosts >>
  PROVE  MemAside /\ LandedAside /\ UNCHANGED owner /\ reopened \subseteq reopened'
BY DEF MemAside, LandedAside, ghosts

LEMMA SaveAside ==
  ASSUME TypeInv, NEW d \in Drafts, SaveOne(d)
  PROVE  DiskAside
BY DEF SaveOne, DiskAside, TypeInv, DiskFits

LEMMA RequestAside ==
  ASSUME TypeInv, HttpSend \/ \E t \in Workers : PrimaryDisplayed(t) \/ PrimaryQueued(t)
  PROVE  Aside
<1>1. ThreadsAside
  <2>1. \A d, via : /\ Request(d, via).pc = "register"
                    /\ [Request(d, via) EXCEPT !.pc = "unlist"].pc = "unlist"
    BY DEF Request, Idle
  <2>2. CASE HttpSend
    <3>1. PICK d, via : thr' = [thr EXCEPT ![Loop] = Request(d, via)]
      BY <2>2 DEF HttpSend
    <3>2. Loop \in Threads /\ thr[Loop].pc = "idle"
      BY <2>2 DEF HttpSend, Threads
    <3> DEFINE q == Request(d, via)
    <3>3. thr' = [thr EXCEPT ![Loop] = q] /\ q.pc = "register"
      BY <2>1, <3>1
    <3> HIDE DEF q
    <3> QED BY <3>2, <3>3, MovesAside DEF Placing
  <2>3. ASSUME NEW t \in Workers, PrimaryDisplayed(t) PROVE ThreadsAside
    <3>1. PICK d : thr' = [thr EXCEPT ![t] = Request(d, "displayed")]
      BY <2>3 DEF PrimaryDisplayed
    <3>2. t \in Threads /\ thr[t].pc = "idle"
      BY <2>3 DEF PrimaryDisplayed, Threads
    <3> DEFINE q == Request(d, "displayed")
    <3>3. thr' = [thr EXCEPT ![t] = q] /\ q.pc = "register"
      BY <2>1, <3>1
    <3> HIDE DEF q
    <3> QED BY <3>2, <3>3, MovesAside DEF Placing
  <2>4. ASSUME NEW t \in Workers, PrimaryQueued(t) PROVE ThreadsAside
    <3>1. \/ thr' = thr
          \/ \E d : thr' = [thr EXCEPT ![t] = Request(d, "queued")]
          \/ \E d : thr' = [thr EXCEPT ![t] = [Request(d, "queued") EXCEPT !.pc = "unlist"]]
      BY <2>4 DEF PrimaryQueued
    <3>2. t \in Threads /\ thr[t].pc = "idle"
      BY <2>4 DEF PrimaryQueued, Threads
    <3>3. CASE thr' = thr
      BY <3>3 DEF ThreadsAside
    <3>4. ASSUME NEW d, thr' = [thr EXCEPT ![t] = Request(d, "queued")] PROVE ThreadsAside
      <4> DEFINE q == Request(d, "queued")
      <4>1. thr' = [thr EXCEPT ![t] = q] /\ q.pc = "register"
        BY <2>1, <3>4
      <4> HIDE DEF q
      <4> QED BY <3>2, <4>1, MovesAside DEF Placing
    <3>5. ASSUME NEW d, thr' = [thr EXCEPT ![t] = [Request(d, "queued") EXCEPT !.pc = "unlist"]]
          PROVE  ThreadsAside
      <4> DEFINE q == [Request(d, "queued") EXCEPT !.pc = "unlist"]
      <4>1. thr' = [thr EXCEPT ![t] = q] /\ q.pc = "unlist"
        BY <2>1, <3>5
      <4> HIDE DEF q
      <4> QED BY <3>2, <4>1, MovesAside DEF Placing
    <3> QED BY <3>1, <3>3, <3>4, <3>5
  <2> QED BY <2>2, <2>3, <2>4
<1>2. UNCHANGED << mem, disk, owner, ghosts >>
  BY DEF HttpSend, PrimaryDisplayed, PrimaryQueued
<1> QED BY <1>1, <1>2, StaysAside DEF Aside, DiskAside

LEMMA SendStepAside ==
  ASSUME TypeInv, NEW t \in Threads, Register(t) \/ Persist(t) \/ EndSend(t) \/ Unlist(t)
  PROVE  Aside
<1>0. thr \in [Threads -> GoodThread] /\ thr[t].draft \in Drafts
  BY DEF TypeInv, ThreadsFit, GoodThread, Register, Persist, EndSend, Unlist
<1>1. ThreadsAside
  <2>1. /\ thr[t].pc \notin Placing
        /\ Finish(t) \/ \E pc \in {"claim", "end", "unlist"} : Goto(t, pc)
    BY DEF Register, Persist, EndSend, Unlist, Placing
  <2>2. CASE Finish(t)
    BY <2>1, <2>2, MovesAside DEF Finish, Idle, Placing
  <2>3. ASSUME NEW pc \in {"claim", "end", "unlist"}, Goto(t, pc) PROVE ThreadsAside
    <3>1. thr' = [thr EXCEPT ![t] = [thr[t] EXCEPT !.pc = pc]]
      BY <2>3 DEF Goto
    <3>2. [thr[t] EXCEPT !.pc = pc].pc = pc
      BY <1>0 DEF GoodThread, ThrRec
    <3> QED BY <2>1, <3>1, <3>2, MovesAside DEF Placing
  <2> QED BY <2>1, <2>2, <2>3
<1>2. UNCHANGED << mem, owner, ghosts >>
  BY DEF Register, Persist, EndSend, Unlist
<1>3. DiskAside
  BY <1>0, SaveAside DEF Register, Persist, EndSend, Unlist, DiskAside
<1> QED BY <1>1, <1>2, <1>3, StaysAside DEF Aside

\* A route leaves "sending" alone, or notes that it took the draft out of it.
LEMMA ChangeAside ==
  ASSUME TypeInv, NEW d \in Drafts, NEW r, Change(d, r),
         r.status = "sending" => mem[d].status = "sending",
         ThreadsAside, UNCHANGED << disk, owner >>
  PROVE  Aside
<1>1. MemAside
  BY DEF TypeInv, MemFits, MemAside, Change, TakenOut
<1>2. LandedAside
  BY DEF TypeInv, MemFits, GhostsFit, LandedAside, Change
<1> QED BY <1>1, <1>2 DEF Aside, DiskAside, Change, TakenOut

LEMMA LoopAside ==
  ASSUME TypeInv, thr[Loop].pc \notin Placing, NEW d,
         \/ ThenSave(d) \/ Finish(Loop)
         \/ thr' = [thr EXCEPT ![Loop] = [Idle EXCEPT !.pc = "rewrite", !.draft = d]]
  PROVE  ThreadsAside
<1> DEFINE save    == [Idle EXCEPT !.pc = "save", !.draft = d]
           rewrite == [Idle EXCEPT !.pc = "rewrite", !.draft = d]
<1>1. Loop \in Threads
  BY DEF Threads
<1>2. Idle.pc \notin Placing /\ save.pc \notin Placing /\ rewrite.pc \notin Placing
  BY DEF Idle, Placing
<1>3. \/ thr' = [thr EXCEPT ![Loop] = Idle] \/ thr' = [thr EXCEPT ![Loop] = save]
      \/ thr' = [thr EXCEPT ![Loop] = rewrite]
  BY DEF ThenSave, Finish
<1> HIDE DEF save, rewrite
<1> QED BY <1>1, <1>2, <1>3, MovesAside

LEMMA RouteAside ==
  ASSUME TypeInv, RouteStep
  PROVE  Aside
<1>r. ASSUME NEW d \in Drafts PROVE mem[d] \in DraftRec
  BY DEF TypeInv, MemFits, GoodRow
<1>i. "idle" \notin Placing /\ "rewrite" \notin Placing /\ "save" \notin Placing
  BY DEF Placing
<1>1. ASSUME NEW d \in Drafts, Accept(d) PROVE Aside
  <2> DEFINE r == [mem[d] EXCEPT !.status = "accepted", !.pending = TRUE]
  <2>1. r.status = "accepted"
    BY <1>r DEF DraftRec
  <2>2. Change(d, r) /\ ThenSave(d) /\ thr[Loop].pc = "idle" /\ UNCHANGED << disk, owner >>
    BY <1>1 DEF Accept
  <2> HIDE DEF r
  <2> QED BY <1>i, <2>1, <2>2, LoopAside, ChangeAside
<1>2. ASSUME NEW d \in Drafts, Decline(d) PROVE Aside
  <2> DEFINE r == [mem[d] EXCEPT !.status = "declined", !.pending = FALSE]
  <2>1. r.status = "declined"
    BY <1>r DEF DraftRec
  <2>2. Change(d, r) /\ ThenSave(d) /\ thr[Loop].pc = "idle" /\ UNCHANGED << disk, owner >>
    BY <1>2 DEF Decline
  <2> HIDE DEF r
  <2> QED BY <1>i, <2>1, <2>2, LoopAside, ChangeAside
<1>3. ASSUME NEW d \in Drafts, NEW x \in Texts, Edit(d, x) PROVE Aside
  <2> DEFINE r1 == [status |-> "pending", text |-> x, pending |-> FALSE]
             r2 == [mem[d] EXCEPT !.text = x]
  <2>1. r1.status = "pending" /\ r2.status = mem[d].status
    BY <1>r DEF DraftRec
  <2>2. /\ Change(d, r1) \/ Change(d, r2)
        /\ ThenSave(d) /\ thr[Loop].pc = "idle" /\ UNCHANGED << disk, owner >>
    BY <1>3 DEF Edit
  <2> HIDE DEF r1, r2
  <2>3. ThreadsAside
    BY <1>i, <2>2, LoopAside
  <2> QED BY <2>1, <2>2, <2>3, ChangeAside
<1>4. ASSUME NEW d \in Drafts, RewriteBegin(d) PROVE Aside
  <2>1. ThreadsAside
    BY <1>4, <1>i, LoopAside DEF RewriteBegin
  <2>2. UNCHANGED << mem, disk, owner, ghosts >>
    BY <1>4 DEF RewriteBegin
  <2> QED BY <2>1, <2>2, StaysAside DEF Aside, DiskAside
<1>5. ASSUME NEW x \in Texts, RewriteEnd(x) PROVE Aside
  <2> DEFINE d == thr[Loop].draft
             r == [mem[d] EXCEPT !.status = "pending", !.text = x]
  <2>0. d \in Drafts /\ thr[Loop].pc = "rewrite" /\ UNCHANGED << disk, owner >>
    BY <1>5 DEF RewriteEnd, TypeInv, ThreadsFit, GoodThread, Threads
  <2>1. CASE Change(d, r) /\ ThenSave(d)
    <3>1. r.status = "pending"
      BY <1>r, <2>0 DEF DraftRec
    <3> HIDE DEF r
    <3>2. ThreadsAside
      BY <1>i, <2>0, <2>1, LoopAside
    <3> QED BY <2>0, <2>1, <3>1, <3>2, ChangeAside
  <2>2. CASE Finish(Loop) /\ UNCHANGED << mem, ghosts >>
    <3>1. ThreadsAside
      BY <1>i, <2>0, <2>2, LoopAside
    <3> QED BY <2>0, <2>2, <3>1, StaysAside DEF Aside, DiskAside
  <2> QED BY <1>5, <2>1, <2>2 DEF RewriteEnd
<1>6. CASE RouteSave
  <2>1. thr[Loop].draft \in Drafts
    BY <1>6 DEF RouteSave, TypeInv, ThreadsFit, GoodThread, Threads
  <2>2. ThreadsAside
    BY <1>6, <1>i, LoopAside DEF RouteSave
  <2>3. DiskAside /\ UNCHANGED << mem, owner, ghosts >>
    BY <1>6, <2>1, SaveAside DEF RouteSave
  <2> QED BY <2>2, <2>3, StaysAside DEF Aside
<1>7. ASSUME NEW t \in Workers, DeleteQueued(t) PROVE Aside
  <2>0. t \in Threads /\ thr[t] \in ThrRec /\ thr[t].draft \in Drafts /\ thr[t].pc = "delete"
    BY <1>7 DEF DeleteQueued, TypeInv, ThreadsFit, GoodThread, Threads
  <2>1. ThreadsAside
    <3>1. thr' = [thr EXCEPT ![t] = [thr[t] EXCEPT !.pc = "archive"]]
      BY <1>7 DEF DeleteQueued
    <3>2. [thr[t] EXCEPT !.pc = "archive"].pc = "archive"
      BY <2>0 DEF ThrRec
    <3> QED BY <2>0, <3>1, <3>2, MovesAside DEF Placing
  <2>2. /\ mem' = [mem EXCEPT ![thr[t].draft] = Absent] /\ Absent.status = "absent"
        /\ reopened' = TakenOut(thr[t].draft) /\ UNCHANGED << disk, owner, landed >>
    BY <1>7 DEF DeleteQueued, Absent
  <2>3. MemAside
    BY <2>0, <2>2 DEF TypeInv, MemFits, MemAside, TakenOut
  <2>4. LandedAside
    BY <2>0, <2>2 DEF TypeInv, MemFits, LandedAside, Fresh
  <2> QED BY <2>1, <2>2, <2>3, <2>4 DEF Aside, DiskAside, TakenOut
<1>8. ASSUME NEW t \in Workers, DeleteArchived(t) PROVE Aside
  <2>1. t \in Threads /\ thr[t].pc \notin Placing /\ Finish(t)
    BY <1>8 DEF DeleteArchived, Threads, Placing
  <2>2. ThreadsAside
    BY <2>1, MovesAside DEF Finish, Idle, Placing
  <2>3. DiskAside
    BY <1>8 DEF DeleteArchived, DiskAside, TypeInv, DiskFits, Absent
  <2>4. UNCHANGED << mem, owner, ghosts >>
    BY <1>8 DEF DeleteArchived
  <2> QED BY <2>2, <2>3, <2>4, StaysAside DEF Aside
<1>9. ASSUME NEW t \in Workers, NEW d \in Drafts, DeleteDecide(t, d) PROVE Aside
  <2>1. t \in Threads /\ thr[t].pc \notin Placing
    BY <1>9 DEF DeleteDecide, Threads, Placing
  <2>2. \E q : q.pc = "delete" /\ thr' = [thr EXCEPT ![t] = q]
    BY <1>9 DEF DeleteDecide, Idle
  <2>3. ThreadsAside
    BY <2>1, <2>2, MovesAside DEF Placing
  <2>4. UNCHANGED << mem, disk, owner, ghosts >>
    BY <1>9 DEF DeleteDecide
  <2> QED BY <2>3, <2>4, StaysAside DEF Aside, DiskAside
<1>10. CASE EmergencyStop
  BY <1>10, StaysAside DEF EmergencyStop, Aside, DiskAside, ThreadsAside
<1> QED BY <1>1, <1>2, <1>3, <1>4, <1>5, <1>6, <1>7, <1>8, <1>9, <1>10 DEF RouteStep

\* A wipe clears memory only when no send is registered.
LEMMA WipeAside ==
  ASSUME TypeInv, ExclusionInv, NEW w \in Wipers, WipeCheck(w) \/ WipeStep(w)
  PROVE  Aside
<1>1. CASE WipeClear(w)
  <2>1. \A u \in Threads : thr[u].pc \notin Placing
    BY <1>1 DEF WipeClear, ExclusionInv, LeaseIsHeld, LeaseIsIdle, ActiveIsRegistered, Leased,
                Registered, Placing
  <2>2. mem' = [d \in Drafts |-> Absent] /\ UNCHANGED << disk, owner, thr, ghosts >>
    BY <1>1 DEF WipeClear, ClearedQueue
  <2> QED BY <2>1, <2>2 DEF Aside, ThreadsAside, MemAside, DiskAside, LandedAside, Absent, Fresh,
                            ghosts
<1>2. CASE WipeDelete(w)
  BY <1>2 DEF WipeDelete, Aside, ThreadsAside, MemAside, DiskAside, LandedAside, Absent
<1>3. CASE ~WipeClear(w) /\ ~WipeDelete(w)
  <2>1. UNCHANGED << mem, disk, owner, thr, ghosts >>
    BY <1>3 DEF WipeStep, WipeCheck, WipeSet, WipeGate, WipeCancel, WipeLease, WipeDrainTimeout,
                WipeTts, WipeRelease, WipeUngate, WipeUnflag, dataVs
  <2> QED BY <2>1, StaysAside DEF Aside, DiskAside, ThreadsAside
<1> QED BY <1>1, <1>2, <1>3

\* The compare-and-set: who finds another status than "sending" finds no send
\* placing the draft, unless a route reopened it.
LEMMA ClaimKeeps ==
  ASSUME TypeInv, ReservationInv, ApprovedText, NEW t \in Threads, Claim(t)
  PROVE  ReservationInv' /\ ApprovedText' /\ (LandedInv => LandedInv')
<1> DEFINE d == thr[t].draft
           via == thr[t].via
<1>0. /\ thr \in [Threads -> GoodThread] /\ mem \in [Drafts -> GoodRow]
      /\ owner \in [Drafts -> Threads \union {None}]
      /\ d \in Drafts /\ thr[t].pc = "claim"
  BY DEF Claim, TypeInv, ThreadsFit, MemFits, OwnerFits, GoodThread
<1>f. UNCHANGED << disk, ghosts >>
  BY DEF Claim
<1>1. PICK seen \in Texts, resend \in BOOLEAN :
        \/ /\ MayReserve(d, via, seen, resend)
           /\ mem' = [mem EXCEPT ![d].status = "sending",
                                 ![d].pending = (via = "displayed") \/ @]
           /\ owner' = [owner EXCEPT ![d] = t]
           /\ thr' = [thr EXCEPT ![t].pc = "mark", ![t].text = mem[d].text,
                                 ![t].seen = IF via = "copy" THEN None ELSE seen]
        \/ /\ thr' = [thr EXCEPT ![t].pc = "end", ![t].result = Refusal(d, seen)]
           /\ UNCHANGED << mem, owner >>
  BY DEF Claim
<1>2. CASE /\ thr' = [thr EXCEPT ![t].pc = "end", ![t].result = Refusal(d, seen)]
           /\ UNCHANGED << mem, owner >>
  <2> DEFINE q == [thr[t] EXCEPT !.pc = "end", !.result = Refusal(d, seen)]
  <2>1. thr' = [thr EXCEPT ![t] = q] /\ q.pc = "end"
    BY <1>0, <1>2 DEF GoodThread, ThrRec
  <2> HIDE DEF q
  <2>2. ThreadsAside
    BY <1>0, <2>1, MovesAside DEF Placing
  <2>3. Aside
    BY <1>2, <1>f, <2>2, StaysAside DEF Aside, DiskAside
  <2> QED BY <2>3, AsideKeepsReservation, AsideKeepsApproved, AsideKeepsLanded
<1>3. CASE /\ MayReserve(d, via, seen, resend)
           /\ mem' = [mem EXCEPT ![d].status = "sending",
                                 ![d].pending = (via = "displayed") \/ @]
           /\ owner' = [owner EXCEPT ![d] = t]
           /\ thr' = [thr EXCEPT ![t].pc = "mark", ![t].text = mem[d].text,
                                 ![t].seen = IF via = "copy" THEN None ELSE seen]
  <2> DEFINE s == IF via = "copy" THEN None ELSE seen
             q == [thr[t] EXCEPT !.pc = "mark", !.text = mem[d].text, !.seen = s]
             b == (via = "displayed") \/ mem[d].pending
             r == [mem[d] EXCEPT !.status = "sending", !.pending = b]
  <2>1. mem[d].status # "sending" /\ (via # "copy" => seen = mem[d].text)
    BY <1>3 DEF MayReserve
  <2>2. /\ q.pc = "mark" /\ q.draft = d /\ (q.seen # None => q.text = q.seen)
        /\ r.status = "sending"
    BY <1>0, <2>1 DEF GoodThread, ThrRec, GoodRow, DraftRec
  <2>3. thr' = [thr EXCEPT ![t] = q] /\ mem' = [mem EXCEPT ![d] = r]
    BY <1>3
  <2> HIDE DEF s, q, b, r, d, via
  <2>4. \A u \in Threads : thr[u].pc \in Placing /\ thr[u].draft = d => d \in reopened
    BY <2>1 DEF ReservationInv, PlacingReserved
  <2>5. thr'[t] = q /\ \A u \in Threads \ {t} : thr'[u] = thr[u]
    BY <1>0, <2>3
  <2>6. mem'[d] = r /\ owner'[d] = t
        /\ \A e \in Drafts \ {d} : mem'[e] = mem[e] /\ owner'[e] = owner[e]
    BY <1>0, <1>3, <2>3
  <2>7. SendingHasOwner'
    <3> SUFFICES ASSUME NEW e \in Drafts, mem'[e].status = "sending"
                 PROVE  \E u \in Threads : thr'[u].draft = e /\ thr'[u].pc \in Placing /\ owner'[e] = u
      BY DEF SendingHasOwner
    <3>1. CASE e = d
      BY <2>2, <2>5, <2>6, <3>1 DEF Placing
    <3>2. CASE e # d
      <4>1. PICK u \in Threads : thr[u].draft = e /\ thr[u].pc \in Placing /\ owner[e] = u
        BY <2>6, <3>2 DEF ReservationInv, SendingHasOwner
      <4> QED BY <1>0, <2>5, <2>6, <3>2, <4>1 DEF Placing
    <3> QED BY <3>1, <3>2
  <2>8. PlacingReserved'
    <3> SUFFICES ASSUME NEW u \in Threads, thr'[u].pc \in Placing, thr'[u].draft \notin reopened
                 PROVE  mem'[thr'[u].draft].status = "sending" /\ owner'[thr'[u].draft] = u
      BY <1>f DEF PlacingReserved, ghosts
    <3>1. CASE u = t
      BY <2>2, <2>5, <2>6, <3>1
    <3>2. CASE u # t
      <4>1. thr'[u] = thr[u] /\ thr[u].draft \in Drafts \ {d}
        BY <2>4, <2>5, <3>2, PlacingHasDraft
      <4> QED BY <2>6, <4>1 DEF ReservationInv, PlacingReserved
    <3> QED BY <3>1, <3>2
  <2>9. ApprovedText'
    BY <2>2, <2>5 DEF ApprovedText
  <2>10. ASSUME LandedInv PROVE LandedInv'
    BY <1>f, <2>2, <2>5, <2>6, <2>10 DEF LandedInv, LandedSettled, MarkOnDisk, Fresh, ghosts
  <2> QED BY <2>7, <2>8, <2>9, <2>10 DEF ReservationInv
<1> QED BY <1>1, <1>2, <1>3

\* A send that moves on from one step of the placing to the next.
LEMMA OnwardKeeps ==
  ASSUME TypeInv, ReservationInv, ApprovedText, NEW t \in Threads, thr[t].pc \in Placing,
         NEW q, thr' = [thr EXCEPT ![t] = q], q.pc \in Placing, q.draft = thr[t].draft,
         q.text = thr[t].text, q.seen = thr[t].seen, UNCHANGED << mem, owner, reopened >>
  PROVE  ReservationInv' /\ ApprovedText'
<1>1. thr'[t] = q /\ \A u \in Threads \ {t} : thr'[u] = thr[u]
  BY DEF TypeInv, ThreadsFit
<1>2. SendingHasOwner'
  BY <1>1 DEF ReservationInv, SendingHasOwner
<1>3. PlacingReserved'
  BY <1>1 DEF ReservationInv, PlacingReserved
<1>4. ApprovedText'
  BY <1>1 DEF ApprovedText
<1> QED BY <1>2, <1>3, <1>4 DEF ReservationInv

LEMMA MarkKeeps ==
  ASSUME TypeInv, ReservationInv, ApprovedText, NEW t \in Threads, Mark(t)
  PROVE  /\ ReservationInv' /\ ApprovedText'
         /\ LandedInv /\ ~SaveMayFail => LandedInv'
<1> DEFINE q == [thr[t] EXCEPT !.pc = "place"]
           d == thr[t].draft
<1>0. thr[t] \in ThrRec /\ thr[t].pc = "mark" /\ d \in Drafts /\ disk \in [Drafts -> GoodRow]
  BY DEF Mark, TypeInv, ThreadsFit, DiskFits, GoodThread
<1>1. /\ thr' = [thr EXCEPT ![t] = q] /\ q.pc = "place" /\ q.draft = d
      /\ q.text = thr[t].text /\ q.seen = thr[t].seen
  BY <1>0 DEF Mark, Goto, ThrRec
<1> HIDE DEF q
<1>f. SaveOne(d) /\ UNCHANGED << mem, owner, ghosts >>
  BY DEF Mark
<1>2. ReservationInv' /\ ApprovedText'
  BY <1>0, <1>1, <1>f, OnwardKeeps DEF Placing, ghosts
<1>3. ASSUME LandedInv, ~SaveMayFail PROVE LandedInv'
  <2> HIDE DEF d
  <2>1. thr'[t] = q /\ \A u \in Threads \ {t} : thr'[u] = thr[u]
    BY <1>1 DEF TypeInv, ThreadsFit
  <2>2. disk' = IF Present(d) THEN [disk EXCEPT ![d] = mem[d]] ELSE disk
    BY <1>3, <1>f DEF SaveOne
  <2>3. d \notin reopened => mem[d].status = "sending"
    BY <1>0 DEF ReservationInv, PlacingReserved, Placing, d
  <2>4. d \notin reopened => disk'[d].status = "sending"
    BY <1>0, <2>2, <2>3 DEF Present
  <2>5. \A e \in Drafts \ {d} : disk'[e] = disk[e]
    BY <1>0, <2>2
  <2>6. LandedSettled'
    BY <1>3, <1>f, <2>3, <2>4, <2>5 DEF LandedInv, LandedSettled, Fresh, ghosts
  <2>7. MarkOnDisk'
    <3> SUFFICES ASSUME NEW u \in Threads, thr'[u].pc = "place", thr'[u].draft \notin reopened
                 PROVE  disk'[thr'[u].draft].status \notin Fresh
      BY <1>f DEF MarkOnDisk, ghosts
    <3>1. CASE thr'[u].draft = d
      BY <2>4, <3>1 DEF Fresh
    <3>2. CASE thr'[u].draft # d
      <4>1. thr'[u] = thr[u] /\ thr[u].draft \in Drafts \ {d}
        BY <1>1, <2>1, <3>2, PlacingHasDraft DEF Placing
      <4> QED BY <1>3, <2>5, <4>1 DEF LandedInv, MarkOnDisk
    <3> QED BY <3>1, <3>2
  <2> QED BY <2>6, <2>7 DEF LandedInv
<1> QED BY <1>2, <1>3

LEMMA PlaceKeeps ==
  ASSUME TypeInv, ReservationInv, ApprovedText, NEW t \in Threads, Place(t)
  PROVE  /\ ReservationInv' /\ ApprovedText'
         /\ LandedInv => LandedInv'
<1> DEFINE d == thr[t].draft
<1>0. /\ thr[t] \in ThrRec /\ thr[t].pc = "place" /\ d \in Drafts
      /\ landed \in [Drafts -> SUBSET Texts]
  BY DEF Place, TypeInv, ThreadsFit, GhostsFit, GoodThread
<1>1. PICK res \in {"ok", "fail", "interrupt"}, out \in BOOLEAN :
        /\ thr' = [thr EXCEPT ![t].pc = "settle", ![t].result = res, ![t].text = PlacedText(t)]
        /\ landed' = IF out THEN [landed EXCEPT ![d] = @ \union {PlacedText(t)}] ELSE landed
  BY DEF Place
<1> DEFINE q == [thr[t] EXCEPT !.pc = "settle", !.result = res, !.text = PlacedText(t)]
<1>2. /\ thr' = [thr EXCEPT ![t] = q] /\ q.pc = "settle" /\ q.draft = d
      /\ q.text = thr[t].text /\ q.seen = thr[t].seen
  BY <1>0, <1>1 DEF PlacedText, ThrRec
<1> HIDE DEF q
<1>f. UNCHANGED << mem, disk, owner, reopened >>
  BY DEF Place
<1>3. ReservationInv' /\ ApprovedText'
  BY <1>0, <1>2, <1>f, OnwardKeeps DEF Placing
<1>4. ASSUME LandedInv PROVE LandedInv'
  <2> HIDE DEF d
  <2>1. thr'[t] = q /\ \A u \in Threads \ {t} : thr'[u] = thr[u]
    BY <1>2 DEF TypeInv, ThreadsFit
  <2>2. d \notin reopened => mem[d].status = "sending" /\ disk[d].status \notin Fresh
    BY <1>0, <1>4 DEF ReservationInv, PlacingReserved, LandedInv, MarkOnDisk, Placing, d
  <2>3. \A e \in Drafts \ {d} : landed'[e] = landed[e]
    BY <1>0, <1>1
  <2>4. LandedSettled'
    BY <1>4, <1>f, <2>2, <2>3 DEF LandedInv, LandedSettled, Fresh
  <2>5. MarkOnDisk'
    BY <1>2, <1>4, <1>f, <2>1 DEF LandedInv, MarkOnDisk
  <2> QED BY <2>4, <2>5 DEF LandedInv
<1> QED BY <1>3, <1>4

\* The send accounts for its own reservation and for no other.
LEMMA SettleKeeps ==
  ASSUME TypeInv, ReservationInv, ApprovedText, NEW t \in Threads, Settle(t)
  PROVE  /\ ReservationInv' /\ ApprovedText'
         /\ LandedInv => LandedInv'
<1> DEFINE d == thr[t].draft
           m == mem[d]
           q == [thr[t] EXCEPT !.pc = "persist", !.text = None, !.seen = None]
<1>0. /\ thr[t] \in ThrRec /\ thr[t].pc = "settle" /\ d \in Drafts
      /\ mem \in [Drafts -> GoodRow] /\ m \in DraftRec
  BY DEF Settle, TypeInv, ThreadsFit, MemFits, GoodThread, GoodRow
<1>1. thr' = [thr EXCEPT ![t] = q] /\ q.pc = "persist"
  BY <1>0 DEF Settle, ThrRec
<1>f. UNCHANGED << disk, owner, ghosts >>
  BY DEF Settle
<1>2. /\ mem' = mem \/ \E r : mem' = [mem EXCEPT ![d] = r] /\
                              r.status \in {"sent", "send_error", "send_interrupted"}
      /\ mem' = mem => m.status # "sending" \/ owner[d] # t
  <2>1. CASE ~Present(d)
    BY <2>1 DEF Settle, Present
  <2>2. CASE Present(d) /\ thr[t].result = "ok"
    <3>1. mem' = [mem EXCEPT ![d] = [m EXCEPT !.status = "sent", !.pending = FALSE]]
      BY <2>2 DEF Settle
    <3>2. [m EXCEPT !.status = "sent", !.pending = FALSE].status = "sent"
      BY <1>0 DEF DraftRec
    <3>3. mem'[d].status = "sent"
      BY <1>0, <3>1, <3>2
    <3> QED BY <3>1, <3>2, <3>3
  <2>3. CASE Present(d) /\ thr[t].result = "fail"
    <3>1. mem' = [mem EXCEPT ![d] = [m EXCEPT !.status = "send_error"]]
      BY <2>3 DEF Settle
    <3>2. [m EXCEPT !.status = "send_error"].status = "send_error"
      BY <1>0 DEF DraftRec
    <3>3. mem'[d].status = "send_error"
      BY <1>0, <3>1, <3>2
    <3> QED BY <3>1, <3>2, <3>3
  <2>4. CASE Present(d) /\ thr[t].result \notin {"ok", "fail"}
    <3>1. mem' = IF m.status = "sending" /\ owner[d] = t
                   THEN [mem EXCEPT ![d] = [m EXCEPT !.status = "send_interrupted"]] ELSE mem
      BY <2>4 DEF Settle
    <3>2. [m EXCEPT !.status = "send_interrupted"].status = "send_interrupted"
      BY <1>0 DEF DraftRec
    <3>3. CASE m.status = "sending" /\ owner[d] = t
      <4>1. mem'[d].status = "send_interrupted"
        BY <1>0, <3>1, <3>2, <3>3
      <4> QED BY <3>1, <3>2, <3>3, <4>1
    <3> QED BY <3>1, <3>3
  <2> QED BY <2>1, <2>2, <2>3, <2>4
<1> HIDE DEF q, m
<1>3. thr'[t] = q /\ \A u \in Threads \ {t} : thr'[u] = thr[u]
  BY <1>1 DEF TypeInv, ThreadsFit
<1>4. \A e \in Drafts \ {d} : mem'[e] = mem[e]
  BY <1>0, <1>2
<1>5. /\ mem'[d].status = "sending" => mem'[d] = mem[d] /\ owner[d] # t
      /\ mem'[d] = mem[d] \/ mem'[d].status \in {"sent", "send_error", "send_interrupted"}
  BY <1>0, <1>2 DEF m
<1> HIDE DEF d
<1>6. SendingHasOwner'
  <2> SUFFICES ASSUME NEW e \in Drafts, mem'[e].status = "sending"
               PROVE  \E u \in Threads : thr'[u].draft = e /\ thr'[u].pc \in Placing /\ owner'[e] = u
    BY DEF SendingHasOwner
  <2>1. mem[e].status = "sending" /\ (e = d => owner[d] # t)
    BY <1>4, <1>5
  <2>2. PICK u \in Threads : thr[u].draft = e /\ thr[u].pc \in Placing /\ owner[e] = u
    BY <2>1 DEF ReservationInv, SendingHasOwner
  <2>3. u # t
    BY <2>1, <2>2 DEF d
  <2> QED BY <1>3, <1>f, <2>2, <2>3
<1>7. PlacingReserved'
  <2> SUFFICES ASSUME NEW u \in Threads, thr'[u].pc \in Placing, thr'[u].draft \notin reopened
               PROVE  mem'[thr'[u].draft].status = "sending" /\ owner[thr'[u].draft] = u
    BY <1>f DEF PlacingReserved, ghosts
  <2>1. u # t /\ thr'[u] = thr[u]
    BY <1>1, <1>3 DEF Placing
  <2>2. mem[thr[u].draft].status = "sending" /\ owner[thr[u].draft] = u
    BY <2>1 DEF ReservationInv, PlacingReserved
  <2>3. thr[u].draft # d
    BY <1>0, <2>1, <2>2 DEF ReservationInv, PlacingReserved, Placing, d
  <2> QED BY <1>4, <2>1, <2>2, <2>3, PlacingHasDraft
<1>8. ApprovedText'
  BY <1>1, <1>3 DEF ApprovedText, Placing
<1>9. ASSUME LandedInv PROVE LandedInv'
  <2>1. LandedSettled'
    BY <1>4, <1>5, <1>9, <1>f DEF LandedInv, LandedSettled, Fresh, ghosts
  <2>2. MarkOnDisk'
    BY <1>1, <1>3, <1>9, <1>f DEF LandedInv, MarkOnDisk, ghosts
  <2> QED BY <2>1, <2>2 DEF LandedInv
<1> QED BY <1>6, <1>7, <1>8, <1>9 DEF ReservationInv

\* Startup reclassifies what it loads: no draft says "sending" without a send,
\* and none that the disk did not call fresh becomes fresh.
LEMMA CrashKeeps ==
  ASSUME TypeInv, CrashAndRestart
  PROVE  /\ ReservationInv' /\ ApprovedText'
         /\ LandedInv /\ ~SaveMayFail => LandedInv'
<1>1. \A d \in Drafts : /\ Recover(d).status # "sending"
                        /\ disk[d].status \notin Fresh => Recover(d).status \notin Fresh
  BY DEF Recover, TypeInv, DiskFits, GoodRow, DraftRec, Fresh
<1>2. /\ mem' = [d \in Drafts |-> Recover(d)] /\ thr' = [t \in Threads |-> Idle]
      /\ UNCHANGED ghosts
  BY DEF CrashAndRestart
<1>3. \A t \in Threads : thr'[t].pc = "idle"
  BY <1>2 DEF Idle
<1>4. ReservationInv' /\ ApprovedText'
  BY <1>1, <1>2, <1>3 DEF ReservationInv, SendingHasOwner, PlacingReserved, ApprovedText, Placing
<1>5. ASSUME LandedInv, ~SaveMayFail PROVE LandedInv'
  <2>1. disk' = mem'
    BY <1>5 DEF CrashAndRestart
  <2> QED BY <1>1, <1>2, <1>3, <1>5, <2>1 DEF LandedInv, LandedSettled, MarkOnDisk, ghosts
<1> QED BY <1>4, <1>5

LEMMA InitReservation == Init => ReservationInv /\ ApprovedText /\ LandedInv
BY DEF Init, Idle, ReservationInv, SendingHasOwner, PlacingReserved, ApprovedText, Placing,
       LandedInv, LandedSettled, MarkOnDisk

LEMMA NextReservation ==
  ASSUME TypeInv, ExclusionInv, ReservationInv, ApprovedText, [Next]_vars
  PROVE  /\ ReservationInv' /\ ApprovedText'
         /\ LandedInv /\ ~SaveMayFail => LandedInv'
<1>1. CASE Aside
  BY <1>1, AsideKeepsReservation, AsideKeepsApproved, AsideKeepsLanded
<1>2. ASSUME NEW t \in Threads, SendStep(t), ~Aside
      PROVE  /\ ReservationInv' /\ ApprovedText'
             /\ LandedInv /\ ~SaveMayFail => LandedInv'
  <2>1. Claim(t) \/ Mark(t) \/ Place(t) \/ Settle(t)
    BY <1>2, SendStepAside DEF SendStep
  <2> QED BY <2>1, ClaimKeeps, MarkKeeps, PlaceKeeps, SettleKeeps
<1>3. CASE UNCHANGED vars
  <2>1. Aside
    BY <1>3, StaysAside DEF vars, Aside, DiskAside, ThreadsAside
  <2> QED BY <1>1, <2>1
<1>4. CASE Next /\ ~Aside
  <2>1. CrashAndRestart \/ \E t \in Threads : SendStep(t)
    BY <1>4, RequestAside, RouteAside, WipeAside DEF Next
  <2> QED BY <1>2, <1>4, <2>1, CrashKeeps
<1> QED BY <1>1, <1>3, <1>4

LEMMA ReservationAlways == Spec => [](TypeInv /\ ExclusionInv /\ ReservationInv /\ ApprovedText)
<1>1. ExclusionInv /\ [Next]_vars => ExclusionInv'
  BY NextExclusion
<1> QED BY <1>1, InitType, NextType, InitExclusion, InitReservation, NextReservation, PTL DEF Spec

\* A draft in "sending" always has a send under way that owns the reservation, and
\* two sends never place one draft at once unless a route took it out of "sending"
\* (server.py send_draft_by_id, recover_interrupted_sends), for any number of
\* drafts, threads and wipes, with saves that may fail and crashes at any point.
THEOREM OneSender_Safety == Spec => []OneSender
<1>1. TypeInv /\ ReservationInv => OneSender
  BY DEF ReservationInv, PlacingReserved, OneSender, SameDraftPlacing
<1> QED BY <1>1, ReservationAlways, PTL

\* The text that goes into another application is the text that was approved,
\* whatever routes change the draft between the check and the injection.
THEOREM PlacedWasApproved_Safety == Spec => []PlacedWasApproved
<1>1. ApprovedText => PlacedWasApproved
  BY DEF ApprovedText, PlacedWasApproved, Placing
<1> QED BY <1>1, ReservationAlways, PTL

\* As long as saves reach the disk, a text that may have landed is not offered as
\* fresh again before the user has acted on the draft, even across a crash: the
\* "sending" marker is on disk before the injection.  A save that is swallowed can
\* lose the marker, which is why the hypothesis is needed.
THEOREM NoSilentDoublePlacement_Safety ==
  ASSUME ~SaveMayFail
  PROVE  Spec => []NoSilentDoublePlacement
<1>1. LandedInv => NoSilentDoublePlacement
  BY DEF LandedInv, LandedSettled, Fresh, NoSilentDoublePlacement
<1>2. TypeInv /\ ExclusionInv /\ ReservationInv /\ ApprovedText /\ LandedInv /\ [Next]_vars
        => LandedInv'
  BY NextReservation
<1> QED BY <1>1, <1>2, InitReservation, ReservationAlways, PTL DEF Spec
-----------------------------------------------------------------------------
(* The erasure.  Only registered sends are drained; the other routes may save *)
(* under a deletion.  That they bring nothing back is KeptInv: a draft in     *)
(* memory is on disk already, and one being taken off the disk has left       *)
(* memory, so a save changes a row and never adds one.                        *)

MemOnDisk   == \A d \in Drafts : mem[d].status # "absent" => disk[d].status # "absent"
ArchiveGone == \A t \in Threads : thr[t].pc = "archive" => mem[thr[t].draft].status = "absent"
KeptInv     == MemOnDisk /\ ArchiveGone

\* `deleting' without its CHOOSE.
DeletingIs ==
  /\ \A w \in Wipers : wp[w] \in Leased => deleting = w
  /\ (\A w \in Wipers : wp[w] \notin Leased) => deleting = None
SendingIs == sending = active
Steps == [Erasing!Next]_<< sending, deleting, onDisk >>

\* What most steps leave alone.
MemShrinks == \A d \in Drafts : mem[d].status = "absent" => mem'[d].status = "absent"
DiskKeeps  == \A d \in Drafts : disk'[d].status = "absent" <=> disk[d].status = "absent"
ArchivesKept ==
  \A t \in Threads : thr'[t].pc = "archive" => thr[t].pc = "archive" /\ thr'[t].draft = thr[t].draft
WipesStay  == \A w \in Wipers : wp'[w] \in Leased <=> wp[w] \in Leased
Calm       == MemShrinks /\ DiskKeeps /\ ArchivesKept

LEMMA Positions == TypeInv /\ ExclusionInv => DeletingIs /\ SendingIs
<1> SUFFICES ASSUME TypeInv, ExclusionInv PROVE DeletingIs /\ SendingIs
  OBVIOUS
<1>1. SendingIs
  BY DEF SendingIs, sending, TypeInv, CoordFits, ExclusionInv, ActiveIsRegistered
<1>2. \A v, w \in Wipers : wp[v] \in Leased /\ wp[w] \in Leased => v = w
  BY DEF ExclusionInv, GateIsHeld, Leased, Gated
<1>3. DeletingIs
  BY <1>2 DEF DeletingIs, deleting
<1> QED BY <1>1, <1>3

LEMMA CalmKeeps == ASSUME TypeInv, KeptInv, Calm PROVE KeptInv'
<1>1. \A t \in Threads : thr[t].pc = "archive" => thr[t].draft \in Drafts
  BY DEF TypeInv, ThreadsFit, GoodThread
<1>2. MemOnDisk'
  BY DEF KeptInv, MemOnDisk, Calm, MemShrinks, DiskKeeps
<1>3. ArchiveGone'
  BY <1>1 DEF KeptInv, ArchiveGone, Calm, MemShrinks, ArchivesKept
<1> QED BY <1>2, <1>3 DEF KeptInv

LEMMA DiskStays == ASSUME DiskKeeps PROVE onDisk' = onDisk
BY DEF DiskKeeps, onDisk

LEMMA WipesSame ==
  ASSUME DeletingIs, DeletingIs', WipesStay
  PROVE  deleting' = deleting
<1>1. CASE \E w \in Wipers : wp[w] \in Leased
  BY <1>1 DEF WipesStay, DeletingIs
<1>2. CASE \A w \in Wipers : wp[w] \notin Leased
  BY <1>2 DEF WipesStay, DeletingIs
<1> QED BY <1>1, <1>2

LEMMA Stutters ==
  ASSUME DeletingIs, DeletingIs', SendingIs, SendingIs', DiskKeeps, WipesStay, active' = active
  PROVE  Steps
BY DiskStays, WipesSame DEF Steps, SendingIs

\* Whatever saves: a row of a draft memory has was on disk before.
LEMMA SaveKeeps ==
  ASSUME TypeInv, KeptInv, NEW d \in Drafts, SaveOne(d)
  PROVE  DiskKeeps
BY DEF TypeInv, MemFits, DiskFits, GoodRow, DraftRec, KeptInv, MemOnDisk, SaveOne, Present, DiskKeeps

LEMMA SameMem == UNCHANGED mem => MemShrinks
BY DEF MemShrinks
LEMMA SameDisk == UNCHANGED disk => DiskKeeps
BY DEF DiskKeeps
LEMMA SameWipes == UNCHANGED wp => WipesStay
BY DEF WipesStay
LEMMA OneMem ==
  ASSUME TypeInv, NEW d \in Drafts, NEW r, mem' = [mem EXCEPT ![d] = r],
         Present(d) \/ r.status = "absent"
  PROVE  MemShrinks
BY DEF TypeInv, MemFits, Present, MemShrinks
LEMMA OneThread ==
  ASSUME TypeInv, NEW t \in Threads, NEW q, thr' = [thr EXCEPT ![t] = q], q.pc # "archive"
  PROVE  ArchivesKept
BY DEF TypeInv, ThreadsFit, ArchivesKept
LEMMA SameThreads == UNCHANGED thr => ArchivesKept
BY DEF ArchivesKept
LEMMA OneGoes ==
  ASSUME TypeInv, NEW t \in Threads, NEW pc, Goto(t, pc), pc # "archive"
  PROVE  ArchivesKept
<1>1. [thr[t] EXCEPT !.pc = pc].pc = pc
  BY DEF TypeInv, ThreadsFit, GoodThread, ThrRec
<1> QED BY <1>1, OneThread DEF Goto
LEMMA OneFinishes ==
  ASSUME TypeInv, NEW t \in Threads, Finish(t)
  PROVE  ArchivesKept
<1>1. Idle.pc # "archive"
  BY DEF Idle
<1> QED BY <1>1, OneThread DEF Finish

\* A thread of the event loop or of the pool that begins something on a draft.
LEMMA OneBegins ==
  ASSUME TypeInv, NEW t \in Threads, NEW d, NEW pc, pc # "archive",
         thr' = [thr EXCEPT ![t] = [Idle EXCEPT !.pc = pc, !.draft = d]]
  PROVE  ArchivesKept
<1> DEFINE q == [Idle EXCEPT !.pc = pc, !.draft = d]
<1>1. q.pc # "archive"
  BY DEF Idle
<1>2. thr' = [thr EXCEPT ![t] = q]
  OBVIOUS
<1> HIDE DEF q
<1> QED BY <1>1, <1>2, OneThread

LEMMA RequestErasing ==
  ASSUME TypeInv, KeptInv, DeletingIs, DeletingIs', SendingIs, SendingIs',
         HttpSend \/ \E t \in Workers : PrimaryDisplayed(t) \/ PrimaryQueued(t)
  PROVE  KeptInv' /\ Steps
<1>1. UNCHANGED << mem, disk, active, wp >>
  BY DEF HttpSend, PrimaryDisplayed, PrimaryQueued, coord, wipeVs
<1>2. ArchivesKept
  <2>1. \A d, via : /\ Request(d, via).pc = "register"
                    /\ [Request(d, via) EXCEPT !.pc = "unlist"].pc = "unlist"
    BY DEF Request, Idle
  <2>2. CASE HttpSend
    <3>1. PICK d, via : thr' = [thr EXCEPT ![Loop] = Request(d, via)]
      BY <2>2 DEF HttpSend
    <3>2. Request(d, via).pc # "archive" /\ Loop \in Threads
      BY <2>1 DEF Threads
    <3> QED BY <3>1, <3>2, OneThread
  <2>3. ASSUME NEW t \in Workers, PrimaryDisplayed(t) PROVE ArchivesKept
    <3>1. PICK d : thr' = [thr EXCEPT ![t] = Request(d, "displayed")]
      BY <2>3 DEF PrimaryDisplayed
    <3>2. Request(d, "displayed").pc # "archive" /\ t \in Threads
      BY <2>1 DEF Threads
    <3> QED BY <3>1, <3>2, OneThread
  <2>4. ASSUME NEW t \in Workers, PrimaryQueued(t) PROVE ArchivesKept
    <3>1. thr' = thr \/ \E q : /\ q.pc \in {"register", "unlist"} /\ "pc" \in DOMAIN q
                               /\ thr' = [thr EXCEPT ![t] = q]
      BY <2>4 DEF PrimaryQueued, Request, Idle
    <3> QED BY <3>1, SameThreads, OneThread DEF Threads
  <2> QED BY <2>2, <2>3, <2>4
<1>3. Calm
  BY <1>1, <1>2, SameMem, SameDisk DEF Calm
<1> QED BY <1>1, <1>3, CalmKeeps, Stutters, SameWipes DEF Calm

\* A send registers when no wipe has the lease, and is done when it has
\* deregistered; between the two it may save, and adds no row.
LEMMA SendErasing ==
  ASSUME TypeInv, ExclusionInv, KeptInv, DeletingIs, DeletingIs', SendingIs, SendingIs',
         NEW t \in Threads, SendStep(t)
  PROVE  KeptInv' /\ Steps
<1> USE DEF coord, wipeVs
<1>d. thr[t].draft \in Drafts /\ thr[t] \in ThrRec /\ thr \in [Threads -> GoodThread]
  BY DEF SendStep, Register, Claim, Mark, Place, Settle, Persist, EndSend, Unlist,
         TypeInv, ThreadsFit, GoodThread
<1>q. ASSUME Calm, UNCHANGED << active, wp >> PROVE KeptInv' /\ Steps
  BY <1>q, CalmKeeps, Stutters, SameWipes DEF Calm
<1>s. ASSUME UNCHANGED << mem, disk >>, ArchivesKept PROVE Calm
  BY <1>s, SameMem, SameDisk DEF Calm
<1>1. CASE Register(t)
  <2>1. UNCHANGED << mem, disk, wp >> /\ ArchivesKept
    BY <1>1, OneGoes, OneFinishes DEF Register
  <2>2. CASE UNCHANGED active
    BY <2>1, <2>2, <1>q, <1>s
  <2>3. CASE MayRegister /\ active' = active \union {t}
    <3>1. \A w \in Wipers : wp[w] \notin Leased
      BY <2>3 DEF MayRegister, ExclusionInv, LeaseIsHeld
    <3>2. deleting = None /\ deleting' = None
      BY <3>1, <2>1 DEF DeletingIs
    <3>3. KeptInv' /\ onDisk' = onDisk
      BY <2>1, <1>s, CalmKeeps, DiskStays DEF Calm
    <3> QED BY <2>3, <3>2, <3>3 DEF SendingIs, Steps, Erasing!Next, Erasing!Begin
  <2> QED BY <1>1, <2>2, <2>3 DEF Register
<1>2. CASE Claim(t)
  <2>1. MemShrinks
    BY <1>2, <1>d DEF Claim, MayReserve, MemShrinks, TypeInv, MemFits, GoodRow, DraftRec
  <2>2. ArchivesKept
    BY <1>2, <1>d DEF Claim, ArchivesKept, GoodThread, ThrRec
  <2> QED BY <1>2, <2>1, <2>2, <1>q, SameDisk DEF Claim, Calm
<1>3. CASE Mark(t)
  BY <1>3, <1>d, <1>q, SameMem, SaveKeeps, OneGoes DEF Mark, Calm
<1>4. CASE Place(t)
  <2>1. ArchivesKept
    BY <1>4, <1>d DEF Place, ArchivesKept, GoodThread, ThrRec
  <2> QED BY <1>4, <2>1, <1>q, <1>s DEF Place
<1>5. CASE Settle(t)
  <2>1. MemShrinks
    BY <1>5, <1>d DEF Settle, Present, MemShrinks, TypeInv, MemFits, GoodRow, DraftRec
  <2>2. ArchivesKept
    BY <1>5, <1>d DEF Settle, ArchivesKept, GoodThread, ThrRec
  <2> QED BY <1>5, <2>1, <2>2, <1>q, SameDisk DEF Settle, Calm
<1>6. CASE Persist(t)
  BY <1>6, <1>d, <1>q, SameMem, SameDisk, SaveKeeps, OneGoes DEF Persist, Calm
<1>7. CASE EndSend(t)
  <2>1. UNCHANGED << mem, disk, wp >> /\ ArchivesKept /\ active' = active \ {t}
    BY <1>7, OneGoes, OneFinishes DEF EndSend
  <2>2. KeptInv' /\ onDisk' = onDisk
    BY <2>1, <1>s, CalmKeeps, DiskStays DEF Calm
  <2>3. deleting' = deleting
    BY <2>1, SameWipes, WipesSame
  <2> QED BY <2>1, <2>2, <2>3 DEF SendingIs, Steps, Erasing!Next, Erasing!End
<1>8. CASE Unlist(t)
  BY <1>8, <1>q, <1>s, OneFinishes DEF Unlist
<1> QED BY <1>1, <1>2, <1>3, <1>4, <1>5, <1>6, <1>7, <1>8 DEF SendStep

\* The routes save without registering; the Library's delete takes one draft
\* off the disk.
LEMMA RouteErasing ==
  ASSUME TypeInv, KeptInv, DeletingIs, DeletingIs', SendingIs, SendingIs', RouteStep
  PROVE  KeptInv' /\ Steps
<1> USE DEF coord, wipeVs
<1>l. Loop \in Threads /\ \A t \in Workers : t \in Threads
  BY DEF Threads
<1>f. thr \in [Threads -> GoodThread] /\ \A t \in Threads : thr[t] \in ThrRec
  BY DEF TypeInv, ThreadsFit, GoodThread
<1>q. ASSUME Calm, UNCHANGED << active, wp >> PROVE KeptInv' /\ Steps
  BY <1>q, CalmKeeps, Stutters, SameWipes DEF Calm
<1>s. ASSUME UNCHANGED << mem, disk >>, ArchivesKept PROVE Calm
  BY <1>s, SameMem, SameDisk DEF Calm
<1>c. ASSUME NEW d \in Drafts, Present(d), NEW r, Change(d, r), ThenSave(d), UNCHANGED disk
      PROVE  Calm
  <2>1. MemShrinks
    BY <1>c, OneMem DEF Change
  <2>2. ArchivesKept
    BY <1>c, <1>l, OneBegins DEF ThenSave
  <2> QED BY <2>1, <2>2, <1>c, SameDisk DEF Calm
<1>1. ASSUME NEW d \in Drafts, Accept(d) PROVE KeptInv' /\ Steps
  BY <1>1, <1>c, <1>q DEF Accept, MayAccept, Present
<1>2. ASSUME NEW d \in Drafts, Decline(d) PROVE KeptInv' /\ Steps
  BY <1>2, <1>c, <1>q DEF Decline
<1>3. ASSUME NEW d \in Drafts, NEW x \in Texts, Edit(d, x) PROVE KeptInv' /\ Steps
  BY <1>3, <1>c, <1>q DEF Edit
<1>4. ASSUME NEW d \in Drafts, RewriteBegin(d) PROVE KeptInv' /\ Steps
  <2>1. ArchivesKept
    BY <1>4, <1>l, OneBegins DEF RewriteBegin
  <2> QED BY <1>4, <2>1, <1>q, <1>s DEF RewriteBegin
<1>5. ASSUME NEW x \in Texts, RewriteEnd(x) PROVE KeptInv' /\ Steps
  <2>1. thr[Loop].draft \in Drafts
    BY <1>5, <1>l, <1>f DEF RewriteEnd, GoodThread
  <2>2. UNCHANGED << disk, active, wp >>
    BY <1>5 DEF RewriteEnd
  <2>3. CASE Present(thr[Loop].draft) /\ ThenSave(thr[Loop].draft)
             /\ \E r : Change(thr[Loop].draft, r)
    BY <2>1, <2>2, <2>3, <1>c, <1>q
  <2>4. CASE Finish(Loop) /\ UNCHANGED mem
    BY <2>2, <2>4, <1>l, <1>q, <1>s, OneFinishes
  <2> QED BY <1>5, <2>3, <2>4 DEF RewriteEnd
<1>6. CASE RouteSave
  <2>1. thr[Loop].draft \in Drafts
    BY <1>6, <1>l, <1>f DEF RouteSave, GoodThread
  <2> QED BY <1>6, <2>1, <1>l, <1>q, SameMem, SaveKeeps, OneFinishes DEF RouteSave, Calm
<1>7. ASSUME NEW t \in Workers, DeleteQueued(t) PROVE KeptInv' /\ Steps
  <2>1. thr[t].draft \in Drafts /\ UNCHANGED << disk, active, wp >>
    BY <1>7, <1>l, <1>f DEF DeleteQueued, GoodThread
  <2>2. mem' = [mem EXCEPT ![thr[t].draft] = Absent] /\ Absent.status = "absent"
    BY <1>7 DEF DeleteQueued, Absent
  <2>3. MemShrinks
    BY <2>1, <2>2, OneMem
  <2>4. mem'[thr[t].draft].status = "absent"
    BY <2>1, <2>2 DEF TypeInv, MemFits
  <2>5. /\ \A u \in Threads \ {t} : thr'[u] = thr[u]
        /\ thr'[t].draft = thr[t].draft
    BY <1>7, <1>l, <1>f DEF DeleteQueued, ThrRec
  <2>6. \A u \in Threads : thr[u].pc = "archive" => thr[u].draft \in Drafts
    BY <1>f DEF GoodThread
  <2>7. ArchiveGone'
    BY <2>3, <2>4, <2>5, <2>6 DEF ArchiveGone, KeptInv, MemShrinks
  <2>8. MemOnDisk'
    BY <2>1, <2>3 DEF MemOnDisk, KeptInv, MemShrinks
  <2> QED BY <2>1, <2>7, <2>8, Stutters, SameDisk, SameWipes DEF KeptInv
<1>8. ASSUME NEW t \in Workers, DeleteArchived(t) PROVE KeptInv' /\ Steps
  <2>1. thr[t].draft \in Drafts /\ UNCHANGED << mem, active, wp >> /\ thr[t].pc = "archive"
    BY <1>8, <1>l, <1>f DEF DeleteArchived, GoodThread
  <2>2. ArchivesKept
    BY <1>8, <1>l, OneFinishes DEF DeleteArchived
  <2>3. CASE UNCHANGED disk
    BY <2>1, <2>2, <2>3, <1>q, <1>s
  <2>4. CASE disk' = [disk EXCEPT ![thr[t].draft] = Absent]
    <3>1. \A d \in Drafts : disk'[d].status # "absent"
                              <=> disk[d].status # "absent" /\ d # thr[t].draft
      BY <2>1, <2>4 DEF Absent, TypeInv, DiskFits
    <3>2. onDisk' = onDisk \ {thr[t].draft}
      BY <3>1 DEF onDisk
    <3>3. mem[thr[t].draft].status = "absent"
      BY <2>1, <1>l DEF KeptInv, ArchiveGone
    <3>4. MemOnDisk'
      BY <2>1, <3>1, <3>3 DEF KeptInv, MemOnDisk
    <3>5. ArchiveGone'
      BY <2>1, <2>2 DEF KeptInv, ArchiveGone, ArchivesKept
    <3>6. deleting' = deleting
      BY <2>1, SameWipes, WipesSame
    <3>7. Erasing!Remove(thr[t].draft)
      BY <2>1, <3>2, <3>6 DEF SendingIs, Erasing!Remove
    <3> QED BY <2>1, <3>4, <3>5, <3>7 DEF KeptInv, Steps, Erasing!Next
  <2> QED BY <1>8, <2>3, <2>4 DEF DeleteArchived
<1>9. ASSUME NEW t \in Workers, NEW d \in Drafts, DeleteDecide(t, d) PROVE KeptInv' /\ Steps
  <2>1. ArchivesKept
    BY <1>9, <1>l, OneBegins DEF DeleteDecide
  <2> QED BY <1>9, <2>1, <1>q, <1>s DEF DeleteDecide
<1>10. CASE EmergencyStop
  BY <1>10, <1>q, <1>s, SameThreads DEF EmergencyStop
<1> QED BY <1>1, <1>2, <1>3, <1>4, <1>5, <1>6, <1>7, <1>8, <1>9, <1>10 DEF RouteStep

\* A wipe takes the lease when no send is registered and erases until it gives
\* the lease back; memory is empty by then.
LEMMA WipeErasing ==
  ASSUME TypeInv, ExclusionInv, ErasureInv, KeptInv,
         DeletingIs, DeletingIs', SendingIs, SendingIs',
         NEW w \in Wipers, WipeCheck(w) \/ WipeStep(w)
  PROVE  KeptInv' /\ Steps
<1> USE DEF dataVs, WipeGoto, Leased
<1>t. wp \in [Wipers -> WipePcs]
  BY DEF TypeInv, WipesFit
<1>q. ASSUME UNCHANGED << mem, disk, thr >> PROVE Calm
  BY <1>q, SameMem, SameDisk, SameThreads DEF Calm
<1>g. ASSUME wp[w] \in Gated PROVE \A v \in Wipers \ {w} : wp[v] \notin Leased
  BY <1>g DEF ExclusionInv, GateIsHeld, Gated
<1>1. CASE WipeCheck(w) \/ WipeSet(w) \/ WipeCancel(w) \/ WipeUngate(w) \/ WipeUnflag(w)
           \/ WipeDrainTimeout(w)
  <2>1. UNCHANGED << mem, disk, thr, active >> /\ WipesStay
    BY <1>1, <1>t DEF WipeCheck, WipeSet, WipeCancel, WipeUngate, WipeUnflag, WipeDrainTimeout,
                      coord, WipesStay
  <2> QED BY <2>1, <1>q, CalmKeeps, Stutters DEF Calm
<1>2. CASE WipeGate(w)
  <2>1. UNCHANGED << mem, disk, thr, active >> /\ WipesStay
    BY <1>2, <1>t DEF WipeGate, coord, WipesStay
  <2> QED BY <2>1, <1>q, CalmKeeps, Stutters DEF Calm
<1>3. CASE WipeTts(w)
  <2>1. UNCHANGED << mem, disk, thr, active >> /\ WipesStay
    BY <1>3, <1>t DEF WipeTts, coord, WipesStay
  <2> QED BY <2>1, <1>q, CalmKeeps, Stutters DEF Calm
<1>4. CASE WipeClear(w)
  <2>1. UNCHANGED << disk, thr, active >> /\ WipesStay
    BY <1>4, <1>t DEF WipeClear, ghosts, coord, WipesStay
  <2>2. MemShrinks
    BY <1>4 DEF WipeClear, ClearedQueue, Absent, MemShrinks
  <2> QED BY <2>1, <2>2, SameDisk, SameThreads, CalmKeeps, Stutters DEF Calm
<1>5. CASE WipeLease(w)
  <2>1. UNCHANGED << mem, disk, thr, active >> /\ active = {} /\ wp[w] = "drain"
        /\ wp' = [wp EXCEPT ![w] = "tts"]
    BY <1>5 DEF WipeLease, Drained
  <2>2. \A v \in Wipers : wp[v] \notin Leased
    BY <2>1, <1>g DEF Gated
  <2>3. deleting = None /\ deleting' = w
    BY <2>1, <2>2, <1>t DEF DeletingIs
  <2>4. KeptInv' /\ onDisk' = onDisk
    BY <2>1, <1>q, CalmKeeps, DiskStays DEF Calm
  <2> QED BY <2>1, <2>3, <2>4 DEF SendingIs, Steps, Erasing!Next, Erasing!Quiesce
<1>6. CASE WipeDelete(w)
  <2>1. /\ UNCHANGED << mem, thr, active >> /\ wp[w] = "delete"
        /\ wp' = [wp EXCEPT ![w] = "release"]
    BY <1>6 DEF WipeDelete, coord
  <2>2. WipesStay /\ deleting = w /\ deleting' = w
    BY <2>1, <1>t DEF WipesStay, DeletingIs
  <2>3. \A d \in Drafts : mem[d].status = "absent"
    BY <2>1 DEF ErasureInv, DeleteIsEmptied, MemEmpty
  <2>4. CASE UNCHANGED disk
    BY <2>1, <2>2, <2>4, <1>q, CalmKeeps, Stutters DEF Calm
  <2>5. CASE disk' = [d \in Drafts |-> Absent]
    <3>1. onDisk' = {}
      BY <2>5 DEF onDisk, Absent
    <3>2. Erasing!Erase(w)
      BY <2>1, <2>2, <3>1 DEF Erasing!Erase, SendingIs
    <3>3. KeptInv'
      BY <2>1, <2>3 DEF KeptInv, MemOnDisk, ArchiveGone
    <3> QED BY <3>2, <3>3 DEF Steps, Erasing!Next
  <2> QED BY <1>6, <2>4, <2>5 DEF WipeDelete
<1>7. CASE WipeRelease(w)
  <2>1. /\ UNCHANGED << mem, disk, thr, active >> /\ wp[w] = "release"
        /\ wp' = [wp EXCEPT ![w] = "ungate"]
    BY <1>7 DEF WipeRelease
  <2>2. \A v \in Wipers : wp'[v] \notin Leased
    BY <2>1, <1>g, <1>t DEF Gated
  <2>3. deleting = w /\ deleting' = None
    BY <2>1, <2>2 DEF DeletingIs
  <2>4. KeptInv' /\ onDisk' = onDisk
    BY <2>1, <1>q, CalmKeeps, DiskStays DEF Calm
  <2> QED BY <2>1, <2>3, <2>4 DEF SendingIs, Steps, Erasing!Next, Erasing!Resume
<1> QED BY <1>1, <1>2, <1>3, <1>4, <1>5, <1>6, <1>7 DEF WipeStep

\* A crash loads into memory what is on disk.
LEMMA CrashErasing ==
  ASSUME TypeInv, KeptInv, DeletingIs', SendingIs', CrashAndRestart
  PROVE  KeptInv' /\ Steps
<1>1. \A d \in Drafts : Recover(d).status = "absent" <=> disk[d].status = "absent"
  BY DEF Recover, TypeInv, DiskFits, GoodRow, DraftRec
<1>2. \A d \in Drafts : mem'[d] = Recover(d)
  BY DEF CrashAndRestart
<1>3. DiskKeeps
  BY <1>1, <1>2 DEF CrashAndRestart, DiskKeeps
<1>4. KeptInv'
  <2>1. MemOnDisk'
    BY <1>1, <1>2, <1>3 DEF MemOnDisk, DiskKeeps
  <2>2. ArchiveGone'
    BY DEF CrashAndRestart, ArchiveGone, Idle
  <2> QED BY <2>1, <2>2 DEF KeptInv
<1>5. \A w \in Wipers : wp'[w] \notin Leased
  BY DEF CrashAndRestart, Leased
<1>6. deleting' = None /\ sending' = {}
  BY <1>5 DEF DeletingIs, SendingIs, CrashAndRestart
<1> QED BY <1>3, <1>4, <1>6, DiskStays DEF Steps, Erasing!Next, Erasing!Crash

LEMMA NextErasing ==
  ASSUME TypeInv, ExclusionInv, ErasureInv, KeptInv,
         DeletingIs, DeletingIs', SendingIs, SendingIs', [Next]_vars
  PROVE  KeptInv' /\ Steps
<1>1. CASE UNCHANGED vars
  BY <1>1, SameMem, SameDisk, SameThreads, SameWipes, CalmKeeps, Stutters
     DEF Calm, vars, coord, wipeVs
<1> QED BY <1>1, RequestErasing, SendErasing, RouteErasing, WipeErasing, CrashErasing DEF Next

LEMMA InitKept == Init => KeptInv
BY DEF Init, KeptInv, MemOnDisk, ArchiveGone, Idle

LEMMA ExclusionAlways == Spec => []ExclusionInv
BY InitExclusion, NextExclusion, PTL DEF Spec

\* A wipe deletes the drafts on disk while no send is between begin_send and
\* end_send and none can begin, no send or route brings a draft back, and nothing
\* but a wipe or the Library's delete of one draft takes any away
\* (server.py _perform_privacy_wipe, send_draft_by_id; output_coordinator.py).
THEOREM WipeErases_Refinement == Spec => WipeErases
<1>1. Init => Erasing!Init
  <2> SUFFICES ASSUME Init PROVE Erasing!Init
    OBVIOUS
  <2>1. active = {} /\ \A w \in Wipers : wp[w] \notin Leased
    BY DEF Init, Leased
  <2>2. sending = {} /\ deleting = None
    BY <2>1, InitType, InitExclusion, Positions DEF SendingIs, DeletingIs
  <2> QED BY <2>2 DEF Erasing!Init, onDisk
<1>2. TypeInv /\ TypeInv' /\ ExclusionInv /\ ExclusionInv' /\ ErasureInv /\ KeptInv /\ [Next]_vars
        => KeptInv' /\ Steps
  <2>1. TypeInv' /\ ExclusionInv' => (DeletingIs /\ SendingIs)'
    BY Positions, PTL
  <2> QED BY <2>1, Positions, NextErasing
<1> QED BY <1>1, <1>2, InitKept, TypeAlways, ExclusionAlways, ErasureAlways, PTL
        DEF Spec, WipeErases, Erasing!Spec, Steps

-----------------------------------------------------------------------------
(* What a wipe raises.  The cancellation, the lease, the gate and the flag    *)
(* each make sends or dictations wait or be refused, so each must belong to a *)
(* wipe that still has to lower it: what no wipe holds nobody would lower.    *)

\* A wipe that has set its flag and not lowered it.
UnderWay == WipePcs \ {"idle", "set"}

CancelHasDrain == cancel => \E w \in Wipers : wp[w] \in {"drain"} \union Leased
LeaseHasWipe   == lease => \E w \in Wipers : wp[w] \in Leased
GateHasWipe    == gate # None => gate \in Wipers /\ wp[gate] \in Gated
FlagHasWipe    == wiping => \E w \in Wipers : wp[w] \in UnderWay

NothingLeftRaised ==
  /\ CancelHasDrain
  /\ LeaseHasWipe
  /\ GateHasWipe
  /\ FlagHasWipe

LEMMA InitRaises == Init => NothingLeftRaised
BY DEF Init, NothingLeftRaised, CancelHasDrain, LeaseHasWipe, GateHasWipe, FlagHasWipe

LEMMA SameRaised ==
  ASSUME NothingLeftRaised, UNCHANGED << cancel, lease, wiping, gate, wp >>
  PROVE  NothingLeftRaised'
BY DEF NothingLeftRaised, CancelHasDrain, LeaseHasWipe, GateHasWipe, FlagHasWipe

\* The sends and the routes touch none of it.
LEMMA SendRaises ==
  ASSUME NothingLeftRaised,
         \/ HttpSend
         \/ \E t \in Workers : PrimaryDisplayed(t) \/ PrimaryQueued(t)
         \/ \E t \in Threads : SendStep(t)
         \/ RouteStep
  PROVE  NothingLeftRaised'
<1>1. CASE HttpSend \/ \E t \in Workers : PrimaryDisplayed(t) \/ PrimaryQueued(t)
  BY <1>1, SameRaised DEF HttpSend, PrimaryDisplayed, PrimaryQueued, coord, wipeVs
<1>2. CASE \E t \in Threads : SendStep(t)
  <2> SUFFICES ASSUME NEW t \in Threads, SendStep(t)
               PROVE  UNCHANGED << cancel, lease, wiping, gate, wp >>
    BY <1>2, SameRaised
  <2>1. CASE Register(t)
    BY <2>1 DEF Register, wipeVs
  <2>2. CASE Claim(t) \/ Mark(t) \/ Place(t) \/ Settle(t) \/ Persist(t) \/ Unlist(t)
    BY <2>2 DEF Claim, Mark, Place, Settle, Persist, Unlist, coord, wipeVs
  <2>3. CASE EndSend(t)
    BY <2>3 DEF EndSend, wipeVs
  <2> QED BY <2>1, <2>2, <2>3 DEF SendStep
<1>3. CASE RouteStep
  BY <1>3, SameRaised DEF RouteStep, Accept, Decline, Edit, RewriteBegin, RewriteEnd, RouteSave,
     DeleteDecide, DeleteQueued, DeleteArchived, EmergencyStop, coord, wipeVs
<1> QED BY <1>1, <1>2, <1>3

\* A wipe that gives one of them up held it alone, or another wipe holds it still.
LEMMA WipeRaises ==
  ASSUME NothingLeftRaised, Shape, NEW w \in Wipers, WipeCheck(w) \/ WipeStep(w)
  PROVE  NothingLeftRaised'
<1> USE DEF NothingLeftRaised, CancelHasDrain, LeaseHasWipe, GateHasWipe, FlagHasWipe,
            Shape, WipeGoto, dataVs, coord, Gated, Leased, UnderWay, WipePcs
<1> None \notin Wipers
  BY DraftSendAssumption
<1>1. CASE WipeCheck(w)
  BY <1>1 DEF WipeCheck
<1>2. CASE WipeSet(w)
  <2>1. wp'[w] = "gate" /\ \A v \in Wipers \ {w} : wp'[v] = wp[v]
    BY <1>2 DEF WipeSet
  <2> QED BY <1>2, <2>1 DEF WipeSet
<1>3. CASE WipeGate(w)
  <2>1. wp[w] = "gate" /\ wp'[w] \in {"cancel", "unflag"} /\ \A v \in Wipers \ {w} : wp'[v] = wp[v]
    BY <1>3 DEF WipeGate
  <2>2. GateHasWipe'
    BY <1>3, <2>1 DEF WipeGate
  <2>3. FlagHasWipe'
    BY <1>3, <2>1 DEF WipeGate
  <2>4. CancelHasDrain' /\ LeaseHasWipe'
    BY <1>3, <2>1 DEF WipeGate
  <2> QED BY <2>2, <2>3, <2>4
<1>4. CASE WipeCancel(w)
  <2>1. wp[w] = "cancel" /\ wp'[w] = "drain" /\ \A v \in Wipers \ {w} : wp'[v] = wp[v]
    BY <1>4 DEF WipeCancel
  <2>2. CancelHasDrain' /\ LeaseHasWipe'
    BY <1>4, <2>1 DEF WipeCancel
  <2>3. GateHasWipe' /\ FlagHasWipe'
    BY <1>4, <2>1 DEF WipeCancel
  <2> QED BY <2>2, <2>3
<1>5. CASE WipeLease(w)
  <2>1. wp[w] = "drain" /\ wp'[w] = "tts" /\ \A v \in Wipers \ {w} : wp'[v] = wp[v]
    BY <1>5 DEF WipeLease
  <2>2. CancelHasDrain' /\ LeaseHasWipe'
    BY <1>5, <2>1 DEF WipeLease
  <2>3. GateHasWipe' /\ FlagHasWipe'
    BY <1>5, <2>1 DEF WipeLease
  <2> QED BY <2>2, <2>3
<1>6. CASE WipeDrainTimeout(w)
  BY <1>6 DEF WipeDrainTimeout, CancelRolledBack
<1>7. CASE WipeTts(w)
  BY <1>7 DEF WipeTts
<1>8. CASE WipeClear(w)
  BY <1>8 DEF WipeClear
<1>9. CASE WipeDelete(w)
  BY <1>9 DEF WipeDelete
<1>10. CASE WipeRelease(w)
  BY <1>10 DEF WipeRelease
<1>11. CASE WipeUngate(w)
  BY <1>11 DEF WipeUngate
<1>12. CASE WipeUnflag(w)
  BY <1>12 DEF WipeUnflag
<1> QED BY <1>1, <1>2, <1>3, <1>4, <1>5, <1>6, <1>7, <1>8, <1>9, <1>10, <1>11, <1>12
        DEF WipeStep

LEMMA CrashRaises ==
  ASSUME CrashAndRestart
  PROVE  NothingLeftRaised'
BY DEF CrashAndRestart, NothingLeftRaised, CancelHasDrain, LeaseHasWipe, GateHasWipe, FlagHasWipe

LEMMA NextRaises == NothingLeftRaised /\ ExclusionInv /\ [Next]_vars => NothingLeftRaised'
<1> SUFFICES ASSUME NothingLeftRaised, ExclusionInv, [Next]_vars PROVE NothingLeftRaised'
  OBVIOUS
<1>1. CASE UNCHANGED vars
  BY <1>1, SameRaised DEF vars, coord, wipeVs
<1>2. CASE Next
  BY <1>2, SendRaises, WipeRaises, CrashRaises DEF Next, ExclusionInv
<1> QED BY <1>1, <1>2

\* Every flag that keeps sends out is some wipe's to lower: a drain that timed
\* out has taken its cancellation back, an aborted wipe leaves no lease, gate or
\* flag, however many wipes passed the test of the flag together.
THEOREM NothingLeftRaised_Safety == Spec => []NothingLeftRaised
BY InitRaises, NextRaises, ExclusionAlways, PTL DEF Spec

=============================================================================
