-------------------------- MODULE WorkflowsProofs --------------------------
(***************************************************************************)
(* Theorems about Workflows, for any workflows, applications, plans and     *)
(* number of calls: the types, that what is approved is what the user read, *)
(* and that an application id changes only as a dialog showed it.           *)
(*                                                                          *)
(* ApprovedAsRead is not inductive: an approval must be known to have been  *)
(* read while its ticket is still under way (CallRead).                     *)
(***************************************************************************)
EXTENDS Workflows, TLAPS

Reviews == {"approve", "run"}
Changes == {"change", "remove"}

\* What the place of a call says of what it keeps.
Placed(me) ==
  /\ me.pc # "idle" /\ me.kind \in Reviews => me.id \in Ids
  /\ me.pc # "idle" /\ me.kind \in Changes => me.app \in Apps
  /\ me.pc = "asked" /\ me.kind \in Reviews => me.reg \in Registry
  /\ me.pc \in {"dialog", "posting"} /\ me.kind \in Reviews => me.plan \in Plans
  /\ me.pc # "idle" /\ me.kind \in Changes /\ me.expect # None => me.before = me.expect
GoodCalls == {me \in CallSet : Placed(me)}

Shape ==
  /\ store \in [Ids -> Maybe(Record)]
  /\ registry \in Registry /\ past \in Registry
  /\ call \in [Calls -> GoodCalls]
TypeRest ==
  /\ \A a \in Apps : registry[a] = None \/ past[a] = None
  /\ gap \in BOOLEAN
  /\ read \subseteq [id : Ids, plan : Plans, lines : Seq(LineSet)]

Reading(w, plan, lines) == [id |-> w, plan |-> plan, lines |-> lines]
StoreRead ==
  \A w \in Ids : store[w] # None /\ store[w].approved # None =>
    Reading(w, store[w].plan, store[w].approved) \in read
CallRead ==
  \A c \in Calls : call[c].pc = "posting" =>
    Reading(call[c].id, call[c].plan, call[c].lines) \in read

Inv == Shape /\ TypeRest /\ StoreRead /\ CallRead
-----------------------------------------------------------------------------
(* What the operators return.                                               *)

LEMMA PlanSteps ==
  ASSUME NEW p \in Plans
  PROVE  /\ p \in Seq(Step) /\ Len(p) \in Nat /\ Len(p) > 0 /\ DOMAIN p = 1..Len(p)
         /\ \A i \in DOMAIN p : p[i] \in Step
         /\ \A i \in DOMAIN p : p[i].do \in NeedsApp => p[i].app \in Apps
<1>1. p \in Seq(Step) /\ p # <<>>
  BY WorkflowsAssumption
<1>2. \A i \in DOMAIN p : p[i].do \in NeedsApp => p[i].app \in Apps
  BY WorkflowsAssumption
<1> QED
  BY <1>1, <1>2

\* A line tells of an application nothing but its name and what it starts.
LEMMA LineType ==
  ASSUME NEW s \in Step, NEW reg \in Registry,
         s.do \in NeedsApp => s.app \in Apps /\ reg[s.app] # None
  PROVE  Line(s, reg) \in LineSet
<1> DEFINE e == IF s.do \in NeedsApp THEN reg[s.app] ELSE None
<1> DEFINE T == UNION {{f.name, f.target} : f \in Entries}
<1>1. s.do \in NeedsApp => e \in Entries
  BY DEF Registry, Maybe
<1>2. Shown(s, e) \in SUBSET T
  <2>1. CASE s.do \in NeedsApp
    <3> HIDE DEF e
    <3> QED
      BY <1>1, <2>1 DEF Shown
  <2>2. CASE s.do \notin NeedsApp
    BY <2>2 DEF Shown, NeedsApp
  <2> QED
    BY <2>1, <2>2
<1> QED
  BY <1>2 DEF Line, LineSet

LEMMA PreviewType ==
  ASSUME NEW p \in Plans, NEW reg \in Registry, Valid(p, reg)
  PROVE  Preview(p, reg) \in Seq(LineSet)
<1>1. \A i \in DOMAIN p : Line(p[i], reg) \in LineSet
  BY PlanSteps, LineType DEF Valid
<1>2. DOMAIN p = 1..Len(p) /\ Len(p) \in Nat
  BY PlanSteps
<1> QED
  BY <1>1, <1>2 DEF Preview

LEMMA IdleGood == Idle \in GoodCalls
BY DEF Idle, GoodCalls, CallSet, Placed, Maybe, Pcs

LEMMA BecomeGood ==
  ASSUME call \in [Calls -> GoodCalls], NEW c \in Calls, NEW r \in GoodCalls, Become(c, r)
  PROVE  call' \in [Calls -> GoodCalls]
BY DEF Become
-----------------------------------------------------------------------------
(* Where a call goes.                                                       *)

LEMMA CallParts ==
  ASSUME Shape, NEW c \in Calls
  PROVE  call[c] \in GoodCalls /\ call[c] \in CallSet /\ Placed(call[c])
BY DEF Shape, GoodCalls

LEMMA AskGood ==
  ASSUME call \in [Calls -> GoodCalls], NEW c \in Calls, NEW r,
         [r EXCEPT !.pc = "dialog"] \in GoodCalls, Ask(c, r)
  PROVE  call' \in [Calls -> GoodCalls]
BY IdleGood DEF Ask, Become

\* A call that asks a review carries the registry it asks with.
LEMMA ReviewAsked ==
  ASSUME Shape, NEW kind \in Reviews, NEW w \in Ids
  PROVE  [Idle EXCEPT !.pc = "asked", !.kind = kind, !.id = w, !.reg = registry] \in GoodCalls
<1> DEFINE r == [Idle EXCEPT !.pc = "asked", !.kind = kind, !.id = w, !.reg = registry]
<1>1. r \in CallSet
  <2>1. Idle \in CallSet
    BY IdleGood DEF GoodCalls
  <2> QED
    BY <2>1 DEF Shape, CallSet, Maybe, Pcs, Kinds, Reviews
<1>2. Placed(r)
  BY DEF Placed, Shape, Idle, Reviews, Changes
<1> QED
  BY <1>1, <1>2 DEF GoodCalls

LEMMA ReviewShown ==
  ASSUME Shape, NEW c \in Calls, At(c, "asked", Reviews),
         NEW p \in Plans, Valid(p, call[c].reg)
  PROVE  [[call[c] EXCEPT !.plan = p, !.lines = Preview(p, call[c].reg), !.reg = None]
            EXCEPT !.pc = "dialog"] \in GoodCalls
<1> DEFINE me == call[c]
<1> DEFINE r == [[me EXCEPT !.plan = p, !.lines = Preview(p, me.reg), !.reg = None]
                   EXCEPT !.pc = "dialog"]
<1>1. me \in CallSet /\ Placed(me) /\ me.pc = "asked" /\ me.kind \in Reviews
  BY CallParts DEF At
<1>2. me.reg \in Registry /\ me.id \in Ids
  BY <1>1 DEF Placed
<1>3. Preview(p, me.reg) \in Seq(LineSet)
  BY <1>2, PreviewType
<1>4. r \in CallSet
  BY <1>1, <1>3 DEF CallSet, Maybe, Pcs
<1>5. r.pc = "dialog" /\ r.kind = me.kind /\ r.id = me.id /\ r.plan = p
  BY <1>1 DEF CallSet
<1>6. Placed(r)
  BY <1>1, <1>2, <1>5 DEF Placed, Reviews, Changes
<1> QED
  BY <1>4, <1>6 DEF GoodCalls

\* A change or a removal: the entry that is to go is the one that was shown.
LEMMA ChangeAsked ==
  ASSUME NEW pc \in {"asked", "dialog"}, NEW kind \in Changes, NEW a \in Apps,
         NEW e \in Maybe(Entries), NEW b \in Maybe(Entries), NEW x \in Maybe(Entries),
         x # None => b = x
  PROVE  [Idle EXCEPT !.pc = pc, !.kind = kind, !.app = a, !.entry = e,
                      !.before = b, !.expect = x] \in GoodCalls
<1> DEFINE r == [Idle EXCEPT !.pc = pc, !.kind = kind, !.app = a, !.entry = e,
                             !.before = b, !.expect = x]
<1>1. r \in CallSet
  <2>1. Idle \in CallSet
    BY IdleGood DEF GoodCalls
  <2> QED
    BY <2>1 DEF CallSet, Maybe, Pcs, Kinds, Changes
<1>2. Placed(r)
  BY DEF Placed, Idle, Reviews, Changes
<1> QED
  BY <1>1, <1>2 DEF GoodCalls

\* A call moves on and keeps what it has.
LEMMA MoveGood ==
  ASSUME Shape, NEW c \in Calls, NEW pc \in Pcs, NEW g \in Maybe(Registry),
         \/ call[c].pc = "asked" /\ call[c].kind \in Changes /\ pc = "dialog"
         \/ call[c].pc = "dialog" /\ call[c].kind = "approve" /\ pc = "posting"
  PROVE  [call[c] EXCEPT !.pc = pc, !.reg = g] \in GoodCalls
<1> DEFINE me == call[c]
<1> DEFINE r == [me EXCEPT !.pc = pc, !.reg = g]
<1>1. me \in CallSet /\ Placed(me)
  BY CallParts
<1>2. r \in CallSet /\ r.pc = pc
  BY <1>1 DEF CallSet
<1>3. /\ r.kind = me.kind /\ r.id = me.id /\ r.plan = me.plan /\ r.app = me.app
      /\ r.before = me.before /\ r.expect = me.expect
  BY <1>1 DEF CallSet
<1>4. Placed(r)
  BY <1>1, <1>2, <1>3 DEF Placed, Reviews, Changes
<1> QED
  BY <1>2, <1>4 DEF GoodCalls
-----------------------------------------------------------------------------
(* The types.                                                               *)

\* The store and the dialogs: what each action does to calls and types.
LEMMA DashboardStep ==
  ASSUME Shape, Dashboard
  PROVE  Shape'
<1>1. ASSUME NEW w \in Ids, NEW p \in Plans, NEW on \in BOOLEAN, Save(w, p, on)
      PROVE  Shape'
  <2>1. Kept(store[w], p) \in Maybe(Seq(LineSet))
    BY DEF Shape, Kept, Maybe, Record
  <2> QED
    BY <1>1, <2>1 DEF Shape, Save, Maybe, Record
<1>2. ASSUME NEW w \in Ids, NEW on \in BOOLEAN, SetEnabled(w, on)
      PROVE  Shape'
  BY <1>2 DEF Shape, SetEnabled, Maybe, Record
<1>3. ASSUME NEW w \in Ids, Delete(w)
      PROVE  Shape'
  BY <1>3 DEF Shape, Delete, Maybe
<1>4. CASE WipeWorkflows
  BY <1>4 DEF Shape, WipeWorkflows, Maybe
<1>5. CASE WipeRegistry
  BY <1>5 DEF Shape, WipeRegistry, Maybe, Registry
<1> QED
  BY <1>1, <1>2, <1>3, <1>4, <1>5 DEF Dashboard

LEMMA ReviewStep ==
  ASSUME Shape, NEW c \in Calls, Review(c)
  PROVE  Shape'
<1>1. ASSUME NEW kind \in {"approve", "run"}, NEW w \in Ids, AskReview(c, kind, w)
      PROVE  Shape'
  BY <1>1, ReviewAsked, BecomeGood DEF Shape, AskReview, Reviews, files
<1>2. CASE Reviewed(c)
  <2> DEFINE me  == call[c]
  <2> DEFINE rec == store[me.id]
  <2>1. At(c, "asked", Reviews) /\ me.id \in Ids
    BY <1>2, CallParts DEF Reviewed, At, Reviews, Placed
  <2>2. ASSUME rec # None, Valid(rec.plan, me.reg),
               Ask(c, [me EXCEPT !.plan = rec.plan, !.lines = Preview(rec.plan, me.reg),
                                 !.reg = None])
        PROVE  call' \in [Calls -> GoodCalls]
    <3>1. rec.plan \in Plans
      BY <2>1, <2>2 DEF Shape, Maybe, Record
    <3>2. [[me EXCEPT !.plan = rec.plan, !.lines = Preview(rec.plan, me.reg), !.reg = None]
             EXCEPT !.pc = "dialog"] \in GoodCalls
      BY <2>1, <2>2, <3>1, ReviewShown
    <3> QED
      BY <2>2, <3>2, AskGood DEF Shape
  <2>3. CASE Become(c, Idle)
    BY <2>3, BecomeGood, IdleGood, <1>2 DEF Shape, Reviewed, files
  <2> QED
    BY <1>2, <2>2, <2>3 DEF Reviewed, Shape, files
<1>3. CASE ClickApprove(c)
  <2> DEFINE r == [call[c] EXCEPT !.pc = "posting"]
  <2>1. call[c] \in CallSet /\ call[c].pc = "dialog" /\ call[c].kind = "approve"
    BY <1>3, CallParts DEF ClickApprove, At
  <2>2. r = [call[c] EXCEPT !.pc = "posting", !.reg = call[c].reg]
    BY <2>1 DEF CallSet
  <2>3. r \in GoodCalls
    <3>1. call[c].reg \in Maybe(Registry)
      BY <2>1 DEF CallSet
    <3> QED
      BY <2>1, <2>2, <3>1, MoveGood DEF Pcs
  <2> QED
    BY <1>3, <2>3, BecomeGood DEF ClickApprove, Shape, files
<1>4. CASE ApprovalArrives(c)
  <2>1. call[c].id \in Ids /\ call[c].lines \in Seq(LineSet)
    BY <1>4, CallParts DEF ApprovalArrives, At, Placed, Reviews, CallSet
  <2>2. store' \in [Ids -> Maybe(Record)]
    <3>1. CASE Grants(store[call[c].id], call[c])
      BY <1>4, <2>1, <3>1 DEF ApprovalArrives, Grants, Shape, Maybe, Record
    <3>2. CASE ~Grants(store[call[c].id], call[c])
      BY <1>4, <3>2 DEF ApprovalArrives, Shape
    <3> QED
      BY <3>1, <3>2
  <2> QED
    BY <1>4, <2>2, BecomeGood, IdleGood DEF ApprovalArrives, Shape
<1> QED
  BY <1>1, <1>2, <1>3, <1>4 DEF Review

LEMMA RegistryStep ==
  ASSUME Shape, NEW a \in Apps, NEW e \in Maybe(Entries), NEW x \in Maybe(Entries),
         Register(a, e, x) \/ Deregister(a, x)
  PROVE  registry' \in Registry /\ past' \in Registry
BY DEF Shape, Register, Deregister, Registry, Maybe

LEMMA ApplicationsStep ==
  ASSUME Shape, NEW c \in Calls, Applications(c)
  PROVE  Shape'
<1> USE DEF files
<1>1. ASSUME NEW a \in Apps, NEW e \in Entries, AskAdd(c, a, e)
      PROVE  Shape'
  <2>1. past[a] \in Maybe(Entries) /\ e \in Maybe(Entries) /\ None \in Maybe(Entries)
    BY DEF Shape, Registry, Maybe
  <2>2. [Idle EXCEPT !.pc = "asked", !.kind = "change", !.app = a, !.entry = e,
                     !.before = past[a], !.expect = None] \in GoodCalls
    BY <2>1, ChangeAsked DEF Changes
  <2> QED
    BY <1>1, <2>2, BecomeGood DEF AskAdd, Shape
<1>2. ASSUME NEW a \in Apps, NEW e \in Entries, AskReplace(c, a, e)
      PROVE  Shape'
  <2>1. registry[a] \in Maybe(Entries) /\ e \in Maybe(Entries)
    BY DEF Shape, Registry, Maybe
  <2>2. [Idle EXCEPT !.pc = "dialog", !.kind = "change", !.app = a, !.entry = e,
                     !.before = registry[a], !.expect = registry[a]] \in GoodCalls
    BY <2>1, ChangeAsked DEF Changes
  <2> QED
    BY <1>2, <2>2, BecomeGood DEF AskReplace, Shape
<1>3. ASSUME NEW a \in Apps, AskRemove(c, a)
      PROVE  Shape'
  <2>1. registry[a] \in Maybe(Entries) /\ None \in Maybe(Entries)
    BY DEF Shape, Registry, Maybe
  <2>2. [Idle EXCEPT !.pc = "asked", !.kind = "remove", !.app = a, !.entry = None,
                     !.before = registry[a], !.expect = registry[a]] \in GoodCalls
    BY <2>1, ChangeAsked DEF Changes
  <2> QED
    BY <1>3, <2>2, BecomeGood DEF AskRemove, Shape
<1>4. CASE Named(c)
  <2> DEFINE me == call[c]
  <2>1. me \in CallSet /\ me.pc = "asked" /\ me.kind \in Changes /\ me.app \in Apps
    BY <1>4, CallParts DEF Named, At, Placed, Changes
  <2>2. CASE Register(me.app, me.entry, None) /\ Become(c, Idle)
    <3>1. registry' \in Registry /\ past' \in Registry
      BY <2>1, <2>2, RegistryStep DEF CallSet, Maybe
    <3> QED
      BY <1>4, <2>2, <3>1, BecomeGood, IdleGood DEF Named, Shape
  <2>3. CASE Ask(c, me) /\ UNCHANGED << registry, past >>
    <3>1. [me EXCEPT !.pc = "dialog"] = [me EXCEPT !.pc = "dialog", !.reg = me.reg]
          /\ me.reg \in Maybe(Registry)
      BY <2>1 DEF CallSet
    <3>2. [me EXCEPT !.pc = "dialog"] \in GoodCalls
      BY <2>1, <3>1, MoveGood DEF Pcs
    <3> QED
      BY <1>4, <2>3, <3>2, AskGood DEF Named, Shape
  <2> QED
    BY <1>4, <2>2, <2>3 DEF Named
<1>5. CASE ClickChange(c)
  <2>1. call[c] \in CallSet /\ call[c].app \in Apps
    BY <1>5, CallParts DEF ClickChange, At, Placed, Changes
  <2>2. registry' \in Registry /\ past' \in Registry
    BY <1>5, <2>1, RegistryStep DEF ClickChange, CallSet
  <2> QED
    BY <1>5, <2>2, BecomeGood, IdleGood DEF ClickChange, Shape
<1>6. CASE ClickRemove(c)
  <2>1. call[c] \in CallSet /\ call[c].app \in Apps
    BY <1>6, CallParts DEF ClickRemove, At, Placed, Changes
  <2>2. registry' \in Registry /\ past' \in Registry
    BY <1>6, <2>1, RegistryStep DEF ClickRemove, CallSet
  <2> QED
    BY <1>6, <2>2, BecomeGood, IdleGood DEF ClickRemove, Shape
<1> QED
  BY <1>1, <1>2, <1>3, <1>4, <1>5, <1>6 DEF Applications

LEMMA ShapeStep ==
  ASSUME Shape, [Next]_vars
  PROVE  Shape'
<1> USE DEF files
<1>1. ASSUME NEW c \in Calls, Cancel(c)
      PROVE  Shape'
  BY <1>1, IdleGood, BecomeGood DEF Cancel, Shape
<1>2. ASSUME NEW c \in Calls, Unanswered(c)
      PROVE  Shape'
  BY <1>2, IdleGood, BecomeGood DEF Unanswered, Shape, Maybe
<1>3. CASE GapOver
  BY <1>3 DEF GapOver, Shape
<1>4. CASE UNCHANGED vars
  BY <1>4 DEF vars, Shape
<1> QED
  BY <1>1, <1>2, <1>3, <1>4, DashboardStep, ReviewStep, ApplicationsStep DEF Next

LEMMA RestStep ==
  ASSUME Shape, TypeRest, [Next]_vars
  PROVE  TypeRest'
<1> USE DEF files
<1>1. ASSUME NEW c \in Calls, ClickApprove(c)
      PROVE  TypeRest'
  <2>1. call[c].id \in Ids /\ call[c].plan \in Plans /\ call[c].lines \in Seq(LineSet)
    BY <1>1, CallParts DEF ClickApprove, At, Placed, Reviews, CallSet
  <2> QED
    BY <1>1, <2>1 DEF ClickApprove, TypeRest
<1>2. ASSUME NEW a \in Apps, NEW e, NEW x, Register(a, e, x) \/ Deregister(a, x)
      PROVE  \A b \in Apps : registry'[b] = None \/ past'[b] = None
  BY <1>2 DEF Register, Deregister, TypeRest, Shape, Registry
<1>3. ASSUME NEW c \in Calls, Named(c) \/ ClickChange(c) \/ ClickRemove(c)
      PROVE  TypeRest'
  <2>1. call[c].app \in Apps
    BY <1>3, CallParts DEF Named, ClickChange, ClickRemove, At, Placed, Changes
  <2> QED
    BY <1>2, <1>3, <2>1 DEF Named, ClickChange, ClickRemove, TypeRest
<1>4. CASE Dashboard \/ GapOver \/ UNCHANGED vars
  BY <1>4 DEF Dashboard, Save, SetEnabled, Delete, WipeWorkflows, WipeRegistry, GapOver,
              vars, TypeRest
<1>5. ASSUME NEW c \in Calls, Review(c), ~ClickApprove(c)
      PROVE  TypeRest'
  BY <1>5 DEF Review, AskReview, Reviewed, ApprovalArrives, TypeRest
<1>6. ASSUME NEW c \in Calls, Applications(c), ~Named(c), ~ClickChange(c), ~ClickRemove(c)
      PROVE  TypeRest'
  BY <1>6 DEF Applications, AskAdd, AskReplace, AskRemove, TypeRest
<1>7. ASSUME NEW c \in Calls, Cancel(c) \/ Unanswered(c)
      PROVE  TypeRest'
  BY <1>7 DEF Cancel, Unanswered, TypeRest
<1> QED
  BY <1>1, <1>3, <1>4, <1>5, <1>6, <1>7 DEF Next
-----------------------------------------------------------------------------
(* What is approved was read.                                               *)

LEMMA StoreReadStep ==
  ASSUME Shape, StoreRead, CallRead, [Next]_vars
  PROVE  StoreRead'
<1> USE DEF files
<1>1. CASE UNCHANGED store /\ read \subseteq read'
  BY <1>1 DEF StoreRead
<1>2. ASSUME NEW w \in Ids, NEW p \in Plans, NEW on \in BOOLEAN, Save(w, p, on)
      PROVE  StoreRead'
  BY <1>2 DEF Save, Kept, StoreRead, Shape
<1>3. ASSUME NEW w \in Ids, NEW on \in BOOLEAN, SetEnabled(w, on)
      PROVE  StoreRead'
  BY <1>3 DEF SetEnabled, StoreRead, Shape, Maybe, Record
<1>4. CASE WipeWorkflows \/ \E w \in Ids : Delete(w)
  BY <1>4 DEF WipeWorkflows, Delete, StoreRead, Shape
<1>5. ASSUME NEW c \in Calls, ApprovalArrives(c)
      PROVE  StoreRead'
  <2>1. Reading(call[c].id, call[c].plan, call[c].lines) \in read
    BY <1>5 DEF ApprovalArrives, At, CallRead
  <2>2. CASE Grants(store[call[c].id], call[c])
    BY <1>5, <2>1, <2>2 DEF ApprovalArrives, Grants, StoreRead, Shape, Maybe, Record
  <2>3. CASE ~Grants(store[call[c].id], call[c])
    BY <1>5, <2>3 DEF ApprovalArrives, StoreRead
  <2> QED
    BY <2>2, <2>3
<1>6. CASE WipeRegistry \/ GapOver \/ UNCHANGED vars
  BY <1>1, <1>6 DEF WipeRegistry, GapOver, vars
<1>7. ASSUME NEW c \in Calls, Review(c), ~ApprovalArrives(c)
      PROVE  StoreRead'
  BY <1>1, <1>7 DEF Review, AskReview, Reviewed, ClickApprove
<1>8. ASSUME NEW c \in Calls, Applications(c)
      PROVE  StoreRead'
  BY <1>1, <1>8 DEF Applications, AskAdd, AskReplace, AskRemove, Named, ClickChange, ClickRemove
<1>9. ASSUME NEW c \in Calls, Cancel(c) \/ Unanswered(c)
      PROVE  StoreRead'
  BY <1>1, <1>9 DEF Cancel, Unanswered
<1> QED
  BY <1>2, <1>3, <1>4, <1>5, <1>6, <1>7, <1>8, <1>9 DEF Next, Dashboard

LEMMA CallReadKept ==
  ASSUME Shape, CallRead, read \subseteq read', NEW c \in Calls, NEW r, Become(c, r),
         r.pc = "posting" => Reading(r.id, r.plan, r.lines) \in read'
  PROVE  CallRead'
BY DEF CallRead, Become, Shape

LEMMA CallReadIdle ==
  ASSUME Shape, CallRead, read \subseteq read', NEW c \in Calls, Become(c, Idle)
  PROVE  CallRead'
<1>1. Idle.pc = "idle"
  BY DEF Idle
<1> QED
  BY <1>1, CallReadKept

LEMMA CallReadAsk ==
  ASSUME Shape, CallRead, read \subseteq read', NEW c \in Calls, NEW r, Ask(c, r),
         [r EXCEPT !.pc = "dialog"].pc = "dialog"
  PROVE  CallRead'
BY CallReadKept, CallReadIdle DEF Ask

LEMMA CallReadStep ==
  ASSUME Shape, StoreRead, CallRead, [Next]_vars
  PROVE  CallRead'
<1> USE DEF files
<1>1. CASE Dashboard \/ GapOver \/ UNCHANGED vars
  BY <1>1 DEF Dashboard, Save, SetEnabled, Delete, WipeWorkflows, WipeRegistry, GapOver, vars,
              CallRead
<1>2. ASSUME NEW c \in Calls, Review(c)
      PROVE  CallRead'
  <2>1. ASSUME NEW kind, NEW w, AskReview(c, kind, w)
        PROVE  CallRead'
    <3> DEFINE r == [Idle EXCEPT !.pc = "asked", !.kind = kind, !.id = w, !.reg = registry]
    <3>1. r.pc = "asked"
      BY DEF Idle
    <3> QED
      BY <2>1, <3>1, CallReadKept DEF AskReview
  <2>2. CASE Reviewed(c)
    <3> DEFINE me  == call[c]
    <3> DEFINE rec == store[me.id]
    <3> DEFINE r   == [me EXCEPT !.plan = rec.plan, !.lines = Preview(rec.plan, me.reg),
                                 !.reg = None]
    <3>1. [r EXCEPT !.pc = "dialog"].pc = "dialog"
      BY CallParts DEF CallSet
    <3>2. Ask(c, r) \/ Become(c, Idle)
      BY <2>2 DEF Reviewed
    <3> HIDE DEF r
    <3> QED
      BY <2>2, <3>1, <3>2, CallReadAsk, CallReadIdle DEF Reviewed
  <2>3. CASE ClickApprove(c)
    <3> DEFINE r == [call[c] EXCEPT !.pc = "posting"]
    <3>1. r.id = call[c].id /\ r.plan = call[c].plan /\ r.lines = call[c].lines
      BY CallParts DEF CallSet
    <3>2. Reading(r.id, r.plan, r.lines) \in read'
      BY <2>3, <3>1 DEF ClickApprove, Reading
    <3>3. Become(c, r) /\ read \subseteq read'
      BY <2>3 DEF ClickApprove
    <3> HIDE DEF r
    <3> QED
      BY <3>2, <3>3, CallReadKept
  <2>4. CASE ApprovalArrives(c)
    BY <2>4, CallReadIdle DEF ApprovalArrives
  <2> QED
    BY <1>2, <2>1, <2>2, <2>3, <2>4 DEF Review
<1>3. ASSUME NEW c \in Calls, Applications(c)
      PROVE  CallRead'
  <2>1. ASSUME NEW pc \in {"asked", "dialog"}, NEW kind, NEW a, NEW e, NEW b, NEW x,
               Become(c, [Idle EXCEPT !.pc = pc, !.kind = kind, !.app = a, !.entry = e,
                                      !.before = b, !.expect = x]),
               UNCHANGED read
        PROVE  CallRead'
    <3> DEFINE r == [Idle EXCEPT !.pc = pc, !.kind = kind, !.app = a, !.entry = e,
                                 !.before = b, !.expect = x]
    <3>1. r.pc = pc
      BY DEF Idle
    <3> QED
      BY <2>1, <3>1, CallReadKept
  <2>2. CASE Named(c)
    <3>1. [call[c] EXCEPT !.pc = "dialog"].pc = "dialog"
      BY CallParts DEF CallSet
    <3>2. Ask(c, call[c]) \/ Become(c, Idle)
      BY <2>2 DEF Named
    <3> QED
      BY <2>2, <3>1, <3>2, CallReadAsk, CallReadIdle DEF Named
  <2>3. CASE ClickChange(c) \/ ClickRemove(c)
    BY <2>3, CallReadIdle DEF ClickChange, ClickRemove
  <2> QED
    BY <1>3, <2>1, <2>2, <2>3 DEF Applications, AskAdd, AskReplace, AskRemove
<1>4. ASSUME NEW c \in Calls, Cancel(c) \/ Unanswered(c)
      PROVE  CallRead'
  BY <1>4, CallReadIdle DEF Cancel, Unanswered
<1> QED
  BY <1>1, <1>2, <1>3, <1>4 DEF Next
-----------------------------------------------------------------------------
(* What holds.                                                              *)

LEMMA InitInv ==
  ASSUME Init
  PROVE  Inv
<1>1. Shape
  BY IdleGood DEF Init, Shape, Maybe, Registry
<1>2. TypeRest /\ StoreRead
  BY DEF Init, TypeRest, StoreRead
<1>3. CallRead
  BY DEF Init, Idle, CallRead
<1> QED
  BY <1>1, <1>2, <1>3 DEF Inv

LEMMA InvStep ==
  ASSUME Inv, [Next]_vars
  PROVE  Inv'
BY ShapeStep, RestStep, StoreReadStep, CallReadStep DEF Inv

\* Inv is an invariant of the specification.
THEOREM InvHolds == Spec => []Inv
<1>1. Init => Inv
  BY InitInv
<1>2. Inv /\ [Next]_vars => Inv'
  BY InvStep
<1> QED
  BY <1>1, <1>2, PTL DEF Spec

\* The files and the calls keep their types, and an id is not both registered
\* and remembered as removed (applicationRegistry.js confirm and remove).
THEOREM TypeOK_Safety == Spec => []TypeOK
<1>1. Inv => TypeOK
  BY DEF Inv, Shape, TypeRest, TypeOK, GoodCalls
<1> QED
  BY <1>1, InvHolds, PTL

\* What the store calls approved was read and approved with exactly those steps
\* and lines, however many edits, deletions, wipes and calls come in between
\* (approvalBroker.js approveWorkflow, workflow_store.py approve and save).
THEOREM ApprovedAsRead_Safety == Spec => []ApprovedAsRead
<1>1. Inv => ApprovedAsRead
  BY DEF Inv, StoreRead, Reading, ApprovedAsRead
<1> QED
  BY <1>1, InvHolds, PTL

\* What an id stands for changes only as its dialog showed it, or is wiped
\* (ipc.js applications:confirm and applications:remove).
THEOREM ChangesAreShown_Safety == Spec => ChangesAreShown
<1> DEFINE Asked(a) == Answered(a) \/ \A b \in Apps : registry'[b] = None /\ past'[b] = None
<1> DEFINE A == \A a \in Apps : registry[a] \notin {None, registry'[a]} => Asked(a)
<1>1. ASSUME Inv, [Next]_vars
      PROVE  [A]_vars
  <2> USE DEF files
  <2> SUFFICES ASSUME NEW a \in Apps, registry[a] \notin {None, registry'[a]}
               PROVE  Asked(a)
    OBVIOUS
  <2>1. WipeRegistry \/ \E c \in Calls : Named(c) \/ ClickChange(c) \/ ClickRemove(c)
    <3>1. registry' # registry
      OBVIOUS
    <3>2. Dashboard => WipeRegistry
      BY <3>1 DEF Dashboard, Save, SetEnabled, Delete, WipeWorkflows
    <3>3. ~GapOver /\ ~UNCHANGED vars
      BY <3>1 DEF GapOver, vars
    <3>4. \A c \in Calls : ~Review(c) /\ ~Cancel(c) /\ ~Unanswered(c)
      BY <3>1 DEF Review, AskReview, Reviewed, ClickApprove, ApprovalArrives, Cancel, Unanswered
    <3>5. \A c \in Calls : Applications(c) => Named(c) \/ ClickChange(c) \/ ClickRemove(c)
      BY <3>1 DEF Applications, AskAdd, AskReplace, AskRemove
    <3> QED
      BY <1>1, <3>2, <3>3, <3>4, <3>5 DEF Next
  <2>2. CASE WipeRegistry
    BY <2>2 DEF WipeRegistry
  <2>3. ASSUME NEW c \in Calls, Named(c) \/ ClickChange(c) \/ ClickRemove(c)
        PROVE  Asked(a)
    <3>1. call[c] \in CallSet /\ Placed(call[c]) /\ registry \in Registry /\ Idle.pc = "idle"
      BY <1>1, CallParts DEF Inv, Shape, Idle
    <3>2. CASE Named(c)
      BY <3>1, <3>2 DEF Named, Register, Registry
    <3>3. CASE ClickChange(c)
      BY <1>1, <3>1, <3>3 DEF ClickChange, At, Register, Registry, Placed, Changes, Answered,
                              Become, Inv, Shape
    <3>4. CASE ClickRemove(c)
      BY <1>1, <3>1, <3>4 DEF ClickRemove, At, Deregister, Registry, Placed, Changes, Answered,
                              Become, Inv, Shape
    <3> QED
      BY <2>3, <3>2, <3>3, <3>4
  <2> QED
    BY <2>1, <2>2, <2>3
<1> QED
  BY <1>1, InvHolds, PTL DEF Spec, ChangesAreShown, vars, files
=============================================================================
