------------------------ MODULE ControllerInputProofs ------------------------
(***************************************************************************)
(* Proofs about ControllerInput, for any controllers, names, tokens,       *)
(* bindings and plans: types; HoldTracked, from what the engine may have   *)
(* of a name (Plugged); HeldIsDown, from what is down (DownInv), where the *)
(* bindings are alike (HoldsAlike); DeferralCancelled, where they nest     *)
(* (ChordsNest).  Each action is summed up once by what it does to the     *)
(* device of one name; the invariants go over those sums.                  *)
(***************************************************************************)
EXTENDS ControllerInput, SequenceTheorems, FiniteSetTheorems, WellFoundedInduction, TLAPS

-----------------------------------------------------------------------------
(* The state of a device and the queue of the poll thread.                 *)

Waits    == [binding : InTables, tokens : SUBSET Tokens]
DevState == [pressed : SUBSET Tokens, recent : SUBSET Tokens, latched : SUBSET Actions,
             held : SUBSET HeldSet, pending : SUBSET Waits,
             progress : [Actions -> Nat], landed : SUBSET InTables]

\* One hold and one deferral for an action.
OneEach(d) ==
  /\ \A g, h \in d.held : g.binding.action = h.binding.action => g = h
  /\ \A x, y \in d.pending : x.binding.action = y.binding.action => x = y

DevTyped ==
  /\ dev \in [Names -> DevState] /\ \A n \in Names : OneEach(dev[n])
  /\ out \in Seq(Emissions) /\ known \subseteq Names

PlanTyped == plan \in Plans /\ table \in plan.tables

\* What a hold is: of the one action that is held.
HeldBegins == \A n \in Names : \A h \in dev[n].held : h.binding.hold

\* Where the engine has anything of a name, it knows the name, and a controller of
\* that name is plugged in.
Plugged ==
  /\ \A n \in known : \E p \in attached : NameOf[p] = n
  /\ \A n \in Names \ known : dev[n].pressed = {} /\ dev[n].held = {} /\ dev[n].pending = {}
  /\ \A i \in 1 .. Len(out) : out[i].kind = "press" => out[i].key \in known

-----------------------------------------------------------------------------
(* The bindings of a plan.                                                  *)

\* A set of numbers that is not empty has a least member.
LEMMA LeastNumber ==
  ASSUME NEW I, I \subseteq Nat, I # {}
  PROVE  \E m \in I : \A k \in I : m <= k
<1> DEFINE R == { ss \in Nat \X Nat : ss[1] < ss[2] }
<1>1. IsWellFoundedOn(R, Nat)
  BY NatLessThanWellFounded DEF OpToRel
<1> HIDE DEF R
<1>2. PICK m \in I : \A k \in I : << k, m >> \notin R
  BY <1>1, WFMin
<1>3. \A k \in I : ~(k < m)
  BY <1>2 DEF R
<1> QED BY <1>3

LEMMA BindingsOf ==
  ASSUME PlanTyped
  PROVE  /\ InTables \subseteq Bindings /\ ToSet(table) \subseteq InTables
         /\ table \in Seq(InTables)
         /\ \A b \in InTables : /\ b.events \in Seq(Tokens) /\ Len(b.events) \in Nat \ {0}
                                /\ b.hold => b.action = "begin"
         /\ \A b, c \in ToSet(table) : b.action = c.action => b = c
<1>1. plan \in Plan /\ \A T \in plan.tables : T \in Seq(Bindings)
  BY ControllerAssumption DEF PlanTyped, Plan
<1>2. \A T \in plan.tables : /\ \A i, j \in DOMAIN T : T[i].action = T[j].action => i = j
                             /\ \A i \in DOMAIN T : T[i].events # <<>> /\ (T[i].hold => T[i].action = "begin")
  BY ControllerAssumption DEF PlanTyped
<1>3. \A b : b \in InTables <=> \E T \in plan.tables : \E i \in DOMAIN T : T[i] = b
  BY DEF InTables, ToSet
<1>4. ASSUME NEW T \in plan.tables, NEW i \in DOMAIN T PROVE T[i] \in Bindings
  BY <1>1, ElementOfSeq, LenProperties
<1>5. InTables \subseteq Bindings
  BY <1>3, <1>4
<1>6. ASSUME NEW b \in InTables
      PROVE  /\ b.events \in Seq(Tokens) /\ Len(b.events) \in Nat \ {0}
             /\ b.hold => b.action = "begin"
  <2>1. b.events \in Seq(Tokens) /\ b.events # <<>> /\ (b.hold => b.action = "begin")
    BY <1>2, <1>3, <1>5 DEF Bindings
  <2> QED BY <2>1, EmptySeq, LenProperties
<1>7. ToSet(table) \subseteq InTables /\ \A i \in DOMAIN table : table[i] \in InTables
  BY <1>3 DEF PlanTyped, ToSet
<1>8. table \in Seq(InTables)
  BY <1>1, <1>7, IsASeq, LenProperties DEF PlanTyped
<1>9. ASSUME NEW b \in ToSet(table), NEW c \in ToSet(table), b.action = c.action PROVE b = c
  BY <1>2, <1>9 DEF PlanTyped, ToSet
<1> QED BY <1>5, <1>6, <1>7, <1>8, <1>9

\* What is held of a name is nothing or one hold.
LEMMA OneHold ==
  ASSUME PlanTyped, DevTyped, HeldBegins, NEW n \in Names
  PROVE  dev[n].held = {} \/ \E h \in HeldSet : dev[n].held = {h} /\ h.binding.action = "begin"
<1>1. dev[n].held \subseteq HeldSet /\ \A g, h \in dev[n].held : g.binding.action = h.binding.action => g = h
  BY DEF DevTyped, DevState, OneEach
<1>2. \A h \in dev[n].held : h.binding.action = "begin"
  BY <1>1, BindingsOf DEF HeldBegins, HeldSet
<1> QED BY <1>1, <1>2

\* The releases of a few holds: none, or one.
LEMMA ReleasesOf ==
  ASSUME NEW n \in Names, NEW H \in SUBSET HeldSet, H = {} \/ \E h : H = {h}
  PROVE  /\ Releases(n, H) \in Seq(Emissions)
         /\ \A i \in 1 .. Len(Releases(n, H)) : /\ Releases(n, H)[i].kind = "release"
                                                /\ Releases(n, H)[i].key = n
         /\ H # {} => 1 \in 1 .. Len(Releases(n, H))
<1> DEFINE R == {Release(n, h) : h \in H}
<1>1. R \subseteq Emissions /\ \A e \in R : e.kind = "release" /\ e.key = n
  BY DEF Release, Emissions, HeldSet
<1>2. CASE H = {}
  <2>1. R = {} /\ Cardinality(R) = 0 /\ 1 .. 0 = {}
    BY <1>2, FS_EmptySet
  <2>2. \E f \in [1 .. 0 -> R] : IsInjective(f)
    <3>1. [i \in 1 .. 0 |-> 0] \in [1 .. 0 -> R] /\ IsInjective([i \in 1 .. 0 |-> 0])
      BY <2>1 DEF IsInjective
    <3> QED BY <3>1
  <2>3. Releases(n, H) \in [1 .. 0 -> R]
    BY <2>1, <2>2 DEF Releases, SetToSeq
  <2>4. Releases(n, H) \in Seq(Emissions) /\ Len(Releases(n, H)) = 0
    BY <2>1, <2>3, IsASeq, LenProperties
  <2> QED BY <1>2, <2>1, <2>4
<1>3. ASSUME NEW h, H = {h} PROVE Releases(n, H) \in Seq(Emissions)
             /\ (\A i \in 1 .. Len(Releases(n, H)) : Releases(n, H)[i].kind = "release" /\ Releases(n, H)[i].key = n)
             /\ 1 \in 1 .. Len(Releases(n, H))
  <2> DEFINE r == Release(n, h)
  <2>0. R = {r} /\ 1 .. 1 = {1}
    BY <1>3
  <2>1. R = {r} /\ Cardinality(R) = 1 /\ 1 .. 1 = {1}
    BY <2>0, FS_Singleton
  <2>2. \E f \in [1 .. 1 -> R] : IsInjective(f)
    <3>1. [i \in 1 .. 1 |-> r] \in [1 .. 1 -> R] /\ IsInjective([i \in 1 .. 1 |-> r])
      BY <2>1 DEF IsInjective
    <3> QED BY <3>1
  <2>3. Releases(n, H) \in [1 .. 1 -> R]
    BY <2>1, <2>2 DEF Releases, SetToSeq
  <2>4. Releases(n, H) \in Seq(Emissions)
    BY <1>1, <2>3, IsASeq
  <2>5. Len(Releases(n, H)) = 1
    BY <2>3, <2>4, LenProperties
  <2> QED BY <1>1, <2>1, <2>3, <2>4, <2>5
<1> QED BY <1>2, <1>3

\* The bindings that fire are dispatched one by one, each in its place.
LEMMA Ordering ==
  ASSUME PlanTyped, NEW B
  PROVE  InOrder(B) \in Seq(InTables) /\ \A k \in 1 .. Len(InOrder(B)) : InOrder(B)[k] \in B
<1> DEFINE places == {i \in DOMAIN table : table[i] \in B}
           below(i) == {j \in places : j <= i}
           rank(i) == Cardinality(below(i))
           m == Cardinality(places)
<1>1. table \in Seq(InTables) /\ DOMAIN table = 1 .. Len(table) /\ Len(table) \in Nat
  BY BindingsOf, LenProperties
<1>2. IsFiniteSet(places) /\ m \in Nat /\ places \subseteq Nat
  <2>1. IsFiniteSet(1 .. Len(table)) /\ places \in SUBSET (1 .. Len(table))
    BY <1>1, FS_Interval
  <2>2. IsFiniteSet(places)
    BY <2>1, FS_Subset
  <2> QED BY <1>1, <2>1, <2>2, FS_CardinalityType
<1>3. ASSUME NEW i \in places
      PROVE  /\ IsFiniteSet(below(i)) /\ rank(i) \in 1 .. m
             /\ \A j \in places : j < i => rank(j) < rank(i)
  <2>1. IsFiniteSet(below(i)) /\ rank(i) <= m /\ rank(i) \in Nat
    BY <1>2, FS_Subset, FS_CardinalityType
  <2>2. rank(i) # 0
    BY <1>2, <2>1, FS_EmptySet
  <2>3. ASSUME NEW j \in places, j < i PROVE rank(j) < rank(i)
    <3>1. below(j) \subseteq below(i) /\ i \in below(i) /\ i \notin below(j)
      BY <1>2, <2>3
    <3>2. rank(j) <= rank(i) /\ rank(j) \in Nat /\ rank(j) # rank(i)
      BY <2>1, <3>1, FS_Subset, FS_CardinalityType
    <3> QED BY <2>1, <3>2
  <2> QED BY <1>2, <2>1, <2>2, <2>3
<1> DEFINE f == [i \in places |-> rank(i)]
<1> HIDE DEF places, rank, m
<1>4. f \in Injection(places, 1 .. m)
  <2>1. f \in [places -> 1 .. m]
    BY <1>3
  <2>2. ASSUME NEW i \in places, NEW j \in places, i # j PROVE f[i] # f[j]
    <3>1. i < j \/ j < i
      BY <1>2, <2>2
    <3>2. rank(i) \in 1 .. m /\ rank(j) \in 1 .. m
      BY <1>3
    <3>3. rank(i) < rank(j) \/ rank(j) < rank(i)
      BY <1>3, <3>1
    <3> QED BY <1>2, <3>2, <3>3
  <2> QED BY <2>1, <2>2, Zenon DEF Injection, IsInjective
<1>5. f \in Surjection(places, 1 .. m)
  BY <1>2, <1>4, FS_Injection, FS_Interval DEF m
<1>6. \A k \in 1 .. m : \E i \in places : rank(i) = k
  BY <1>5 DEF Surjection
<1>7. InOrder(B) = [k \in 1 .. m |-> table[CHOOSE i \in places : rank(i) = k]]
  BY DEF InOrder, places, rank, m
<1>8. \A k \in 1 .. m : InOrder(B)[k] \in B /\ InOrder(B)[k] \in InTables
  <2>1. \A i \in places : table[i] \in B /\ table[i] \in InTables
    BY <1>1 DEF places
  <2> QED BY <1>6, <1>7, <2>1
<1>9. InOrder(B) \in Seq(InTables) /\ Len(InOrder(B)) = m
  BY <1>2, <1>7, <1>8, IsASeq, LenProperties
<1> QED BY <1>8, <1>9
-----------------------------------------------------------------------------
(* The types.                                                               *)

LEMMA DevChanges ==
  ASSUME DevTyped, plan' = plan, NEW n \in Names, NEW D \in DevState, OneEach(D),
         dev' = [dev EXCEPT ![n] = D], out' \in Seq(Emissions), known' \subseteq Names
  PROVE  DevTyped' /\ dev'[n] = D /\ \A m \in Names \ {n} : dev'[m] = dev[m]
<1>1. InTables' = InTables
  BY DEF InTables
<1>2. Emissions' = Emissions /\ DevState' = DevState
  BY <1>1 DEF Emissions, DevState, HeldSet, Waits
<1>3. dev'[n] = D /\ \A m \in Names \ {n} : dev'[m] = dev[m]
  BY DEF DevTyped
<1>4. dev' \in [Names -> DevState]
  BY DEF DevTyped
<1>5. \A m \in Names : OneEach(dev'[m])
  BY <1>3 DEF DevTyped
<1>6. \A m \in Names : OneEach(dev[m])'
  BY <1>5 DEF OneEach
<1> QED BY <1>2, <1>3, <1>4, <1>6 DEF DevTyped

\* What a token does to the device it comes from, and what is dispatched.
Fired(n, t, late) ==
  {b \in InForce(n) :
     Completes([dev[n] EXCEPT !.pressed = @ \union {t}, !.recent = @ \union Bounces(t)], b, t, late)}
Fires(n, t, late) ==
  LET d == dev[n]
      e == dev'[n]
  IN  /\ e.pressed = d.pressed \union {t} /\ e.held = d.held
      /\ e.landed = d.landed \union {b \in Fired(n, t, late) : Chord(b)}
      /\ \A a \in Actions :
           \/ e.progress[a] = d.progress[a]
           \/ e.progress[a] = 0
           \/ \E b \in InForce(n) : /\ b.action = a /\ b.style = "sequence"
                                    /\ e.progress[a] < Len(b.events)
      /\ \A x \in e.pending :
           \/ x.tokens = e.pressed
           \/ x \in d.pending /\ ~ Cancelled(Fired(n, t, late), x)
      /\ \A i \in 1 .. Len(out') : /\ out'[i].kind = "press" /\ out'[i].key = n
                                   /\ out'[i].binding \in Fired(n, t, late)

LEMMA FireEffect ==
  ASSUME PlanTyped, DevTyped, plan' = plan, known' \subseteq Names,
         NEW n \in Names, NEW t \in Tokens, NEW late, Fire(n, t, late)
  PROVE  DevTyped' /\ Fires(n, t, late) /\ \A m \in Names \ {n} : dev'[m] = dev[m]
<1> DEFINE bs == InForce(n)
           before == [dev[n] EXCEPT !.pressed = @ \union {t}, !.recent = @ \union Bounces(t)]
           fired == {b \in bs : Completes(before, b, t, late)}
           d == Advanced(before, bs, t, late)
           deferred == {b \in fired : Deferred(d, bs, b)}
           now == InOrder(fired \ deferred)
           D == [d EXCEPT !.pending = Waiting(d, fired, deferred)]
<1>1. dev' = [dev EXCEPT ![n] = D] /\ out' = [i \in DOMAIN now |-> Press(n, now[i], FALSE)]
  BY DEF Fire
<1>2. /\ bs \subseteq InTables /\ InTables \subseteq Bindings
      /\ \A b, c \in bs : b.action = c.action => b = c
      /\ \A b \in bs : b.events \in Seq(Tokens) /\ Len(b.events) \in Nat \ {0} /\ b.action \in Actions
  BY BindingsOf DEF InForce, Bindings
<1>3. dev[n] \in DevState /\ OneEach(dev[n])
  BY DEF DevTyped
<1>4. before \in DevState /\ Bounces(t) \subseteq Tokens
  BY <1>3 DEF DevState, Bounces
<1>5. fired = Fired(n, t, late) /\ fired \subseteq bs /\ deferred \subseteq fired
  BY DEF Fired
<1>7. \A b \in bs : Progress(before, b, t, late) \in Nat
  <2>1. \A a \in Actions : before.progress[a] \in Nat
    BY <1>4 DEF DevState
  <2> HIDE DEF before
  <2> QED BY <1>2, <2>1 DEF Progress
<1> DEFINE prog == [a \in Actions |->
             IF \E b \in bs : b.action = a /\ b.style = "sequence"
               THEN LET b == CHOOSE x \in bs : x.action = a
                    IN  IF Completes(before, b, t, late) THEN 0 ELSE Progress(before, b, t, late)
               ELSE before.progress[a]]
           latch == before.latched \union {b.action : b \in {c \in bs : Chord(c) /\ Completes(before, c, t, late)}}
           land == before.landed \union {b \in bs : Chord(b) /\ Completes(before, b, t, late)}
<1>8. d = [before EXCEPT !.latched = latch, !.progress = prog, !.landed = land]
  BY DEF Advanced
<1>9. prog \in [Actions -> Nat] /\ latch \subseteq Actions /\ land \subseteq InTables
  <2>1. ASSUME NEW a \in Actions PROVE prog[a] \in Nat
    <3>1. CASE \E b \in bs : b.action = a /\ b.style = "sequence"
      <4>1. (CHOOSE x \in bs : x.action = a) \in bs
        BY <3>1
      <4> QED BY <1>7, <3>1, <4>1
    <3>2. CASE ~ \E b \in bs : b.action = a /\ b.style = "sequence"
      BY <1>4, <3>2 DEF DevState
    <3> QED BY <3>1, <3>2
  <2>2. before.latched \subseteq Actions /\ before.landed \subseteq InTables
    BY <1>4 DEF DevState
  <2>3. prog \in [Actions -> Nat]
    BY <2>1
  <2> HIDE DEF before, prog
  <2>4. latch \subseteq Actions
    BY <1>2, <2>2
  <2>5. land \subseteq InTables
    BY <1>2, <2>2
  <2> QED BY <2>3, <2>4, <2>5
<1>10. d \in DevState
  <2> HIDE DEF before, prog, latch, land, d
  <2> QED BY <1>4, <1>8, <1>9 DEF DevState
<1> HIDE DEF bs, before, fired, d, deferred, now, prog, latch, land
<1>11. Waiting(d, fired, deferred) \subseteq Waits
  BY <1>2, <1>5, <1>10 DEF Waiting, Waits, DevState
<1>12. D \in DevState /\ D.held = dev[n].held
  BY <1>4, <1>8, <1>10, <1>11 DEF DevState, before
<1>13. /\ D.pressed = dev[n].pressed \union {t} /\ D.landed = land /\ D.progress = prog
       /\ D.pending = Waiting(d, fired, deferred)
       /\ d.pressed = D.pressed /\ d.pending = dev[n].pending /\ d.held = dev[n].held
  BY <1>3, <1>8 DEF before, D, DevState
<1>14. OneEach(D)
  <2>1. \A g, h \in D.held : g.binding.action = h.binding.action => g = h
    BY <1>3, <1>12 DEF OneEach
  <2>2. ASSUME NEW x \in D.pending, NEW y \in D.pending, x.binding.action = y.binding.action
        PROVE  x = y
    <3>1. \A z \in D.pending :
            \/ z \in dev[n].pending /\ z.binding.action \notin {b.action : b \in deferred}
            \/ \E b \in deferred : z = [binding |-> b, tokens |-> d.pressed]
      BY <1>13 DEF Waiting
    <3>2. CASE x \in dev[n].pending /\ x.binding.action \notin {b.action : b \in deferred}
      BY <1>3, <2>2, <3>1, <3>2 DEF OneEach
    <3>3. CASE \E b \in deferred : x = [binding |-> b, tokens |-> d.pressed]
      <4>1. PICK b \in deferred : x = [binding |-> b, tokens |-> d.pressed]
        BY <3>3
      <4>2. PICK c \in deferred : y = [binding |-> c, tokens |-> d.pressed]
        BY <2>2, <3>1, <4>1
      <4>3. b.action = c.action /\ b \in bs /\ c \in bs
        BY <1>5, <2>2, <4>1, <4>2
      <4> QED BY <1>2, <4>1, <4>2, <4>3
    <3> QED BY <2>2, <3>1, <3>2, <3>3
  <2> HIDE DEF D
  <2> QED BY <2>1, <2>2 DEF OneEach
<1>15. /\ now \in Seq(InTables) /\ DOMAIN now = 1 .. Len(now) /\ Len(now) \in Nat
       /\ \A k \in 1 .. Len(now) : now[k] \in fired
  BY Ordering, LenProperties DEF now
<1>16. /\ out' \in Seq(Emissions) /\ Len(out') = Len(now)
       /\ \A k \in 1 .. Len(out') : out'[k] = Press(n, now[k], FALSE)
  <2>1. \A k \in 1 .. Len(now) : Press(n, now[k], FALSE) \in Emissions
    BY <1>15, ElementOfSeq DEF Press, Emissions
  <2>2. out' = [k \in 1 .. Len(now) |-> Press(n, now[k], FALSE)]
    BY <1>1, <1>15
  <2>f. out' \in [1 .. Len(now) -> Emissions]
    BY <2>1, <2>2
  <2>3. out' \in Seq(Emissions)
    BY <1>15, <2>f, SeqDef
  <2>4. Len(out') = Len(now)
    BY <1>15, <2>2, <2>3, LenProperties
  <2> QED BY <2>2, <2>3, <2>4
<1> HIDE DEF D
<1>17. DevTyped' /\ dev'[n] = D /\ \A m \in Names \ {n} : dev'[m] = dev[m]
  BY <1>1, <1>12, <1>14, <1>16, DevChanges
<1>18. \A a \in Actions :
         \/ prog[a] = dev[n].progress[a]
         \/ prog[a] = 0
         \/ \E b \in bs : b.action = a /\ b.style = "sequence" /\ prog[a] < Len(b.events)
  <2> SUFFICES ASSUME NEW a \in Actions
               PROVE \/ prog[a] = dev[n].progress[a]
                     \/ prog[a] = 0
                     \/ \E b \in bs : b.action = a /\ b.style = "sequence" /\ prog[a] < Len(b.events)
    OBVIOUS
  <2>1. CASE \E b \in bs : b.action = a /\ b.style = "sequence"
    <3> DEFINE b == CHOOSE x \in bs : x.action = a
    <3>1. b \in bs /\ b.action = a
      BY <2>1
    <3>2. b.style = "sequence"
      BY <1>2, <2>1, <3>1
    <3>3. prog[a] = IF Completes(before, b, t, late) THEN 0 ELSE Progress(before, b, t, late)
      BY <2>1 DEF prog
    <3> HIDE DEF b
    <3>4. Completes(before, b, t, late) \/ ~ (Progress(before, b, t, late) >= Len(b.events))
      BY <3>2 DEF Completes
    <3>5. Progress(before, b, t, late) \in Nat /\ Len(b.events) \in Nat
      BY <1>2, <1>7, <3>1
    <3> QED BY <3>1, <3>2, <3>3, <3>4, <3>5
  <2>2. CASE ~ \E b \in bs : b.action = a /\ b.style = "sequence"
    BY <1>3, <2>2 DEF prog, before, DevState
  <2> QED BY <2>1, <2>2
<1>19. \A x \in D.pending :
         x.tokens = D.pressed \/ (x \in dev[n].pending /\ ~ Cancelled(fired, x))
  BY <1>13 DEF Waiting
<1>20. land = dev[n].landed \union {b \in fired : Chord(b)}
  BY <1>3 DEF land, fired, before, DevState
<1>21. \A i \in 1 .. Len(out') : /\ out'[i].kind = "press" /\ out'[i].key = n
                                 /\ out'[i].binding \in fired
  <2> SUFFICES ASSUME NEW i \in 1 .. Len(out')
               PROVE  out'[i].kind = "press" /\ out'[i].key = n /\ out'[i].binding \in fired
    OBVIOUS
  <2>1. out'[i] = Press(n, now[i], FALSE) /\ now[i] \in fired
    BY <1>15, <1>16
  <2> QED BY <2>1 DEF Press
<1>22. Fires(n, t, late)
  BY <1>5, <1>12, <1>13, <1>17, <1>18, <1>19, <1>20, <1>21 DEF Fires, bs
<1> QED BY <1>17, <1>22

LEMMA FreshTyped ==
  /\ Fresh \in DevState /\ OneEach(Fresh)
  /\ Fresh.pressed = {} /\ Fresh.held = {} /\ Fresh.pending = {} /\ Fresh.landed = {}
  /\ Fresh.progress = [a \in Actions |-> 0]
BY DEF Fresh, DevState, OneEach

\* What another step does to the device n, what it tells the engine apart.
Others(n) == \A m \in Names \ {n} : dev'[m] = dev[m]
Rests(n)  == /\ dev'[n].pressed = dev[n].pressed /\ dev'[n].landed = dev[n].landed
             /\ dev'[n].progress = dev[n].progress

LEMMA AttachEffect ==
  ASSUME DevTyped, plan' = plan, NEW p \in Pads, Attach(p)
  PROVE  DevTyped' /\ dev'[NameOf[p]] = Fresh /\ Others(NameOf[p])
<1>1. NameOf[p] \in Names
  BY ControllerAssumption
<1>2. /\ dev' = [dev EXCEPT ![NameOf[p]] = Fresh] /\ out' = out
      /\ known' = known \union {NameOf[p]} /\ out' \in Seq(Emissions)
  BY DEF Attach, DevTyped
<1>3. known' \subseteq Names
  BY <1>1, <1>2 DEF DevTyped
<1> HIDE DEF Attach
<1> QED BY <1>1, <1>2, <1>3, FreshTyped, DevChanges DEF Others

LEMMA UnplugEffect ==
  ASSUME PlanTyped, DevTyped, HeldBegins, plan' = plan, NEW p \in Pads, Unplug(p)
  PROVE  /\ DevTyped' /\ dev'[NameOf[p]] = Fresh /\ Others(NameOf[p])
         /\ \A i \in 1 .. Len(out') : out'[i].kind = "release" /\ out'[i].key = NameOf[p]
         /\ dev[NameOf[p]].held # {} => 1 \in 1 .. Len(out')
<1> DEFINE n == NameOf[p]
<1>1. n \in Names
  BY ControllerAssumption
<1>2. /\ dev' = [dev EXCEPT ![n] = Fresh] /\ out' = Releases(n, dev[n].held)
      /\ known' = known \ {n}
  BY DEF Unplug
<1>3. known' \subseteq Names
  BY <1>2 DEF DevTyped
<1>4. dev[n].held \in SUBSET HeldSet /\ (dev[n].held = {} \/ \E h : dev[n].held = {h})
  BY <1>1, OneHold DEF DevTyped, DevState
<1> HIDE DEF n
<1>5. /\ out' \in Seq(Emissions)
      /\ \A i \in 1 .. Len(out') : out'[i].kind = "release" /\ out'[i].key = n
      /\ dev[n].held # {} => 1 \in 1 .. Len(out')
  BY <1>1, <1>2, <1>4, ReleasesOf
<1>6. DevTyped' /\ dev'[n] = Fresh /\ Others(n)
  BY <1>1, <1>2, <1>3, <1>5, FreshTyped, DevChanges DEF Others
<1> QED BY <1>5, <1>6 DEF n

\* A capture takes a token that goes down.
LEMMA CaptureEffect ==
  ASSUME DevTyped, plan' = plan, known' \subseteq Names, out' = out,
         NEW n \in Names, NEW t \in Tokens,
         dev' = [dev EXCEPT ![n].pressed = @ \union {t}, ![n].recent = @ \union Bounces(t)]
  PROVE  /\ DevTyped' /\ Others(n) /\ dev'[n].pressed = dev[n].pressed \union {t}
         /\ dev'[n].landed = dev[n].landed /\ dev'[n].progress = dev[n].progress
         /\ dev'[n].held = dev[n].held /\ dev'[n].pending = dev[n].pending
<1> DEFINE D == [dev[n] EXCEPT !.pressed = @ \union {t}, !.recent = @ \union Bounces(t)]
<1>1. dev[n] \in DevState /\ OneEach(dev[n]) /\ Bounces(t) \subseteq Tokens /\ out' \in Seq(Emissions)
  BY DEF DevTyped, Bounces
<1>2. dev' = [dev EXCEPT ![n] = D]
  BY DEF DevTyped
<1>3. D \in DevState /\ D.held = dev[n].held /\ D.pending = dev[n].pending
  BY <1>1 DEF DevState
<1>4. D.pressed = dev[n].pressed \union {t} /\ D.landed = dev[n].landed /\ D.progress = dev[n].progress
  BY <1>1 DEF DevState
<1>5. OneEach(D)
  BY <1>1, <1>3 DEF OneEach
<1> HIDE DEF D
<1>6. DevTyped' /\ dev'[n] = D /\ Others(n)
  BY <1>1, <1>2, <1>3, <1>5, DevChanges DEF Others
<1> QED BY <1>3, <1>4, <1>6

\* A token goes up: the engine's holds that it ends are released, or, under a
\* capture, marked.
Lets(n, over) ==
  /\ over = {h \in dev[n].held : ~ Satisfied(dev'[n].pressed, h.binding)}
  /\ dev'[n].held = dev[n].held \ over
  /\ \A i \in 1 .. Len(out') : out'[i].kind = "release" /\ out'[i].key = n
  /\ over # {} => 1 \in 1 .. Len(out')
Marks(n) ==
  /\ out' = out
  /\ \A h \in dev'[n].held : /\ h.loose \/ Satisfied(dev'[n].pressed, h.binding)
                             /\ \E g \in dev[n].held : g.binding = h.binding
  /\ \A g \in dev[n].held : \E h \in dev'[n].held : g.binding = h.binding
Ups(n, t) ==
  /\ dev'[n].pressed = dev[n].pressed \ {t} /\ dev'[n].pending = dev[n].pending
  /\ dev'[n].landed = {b \in dev[n].landed : t \notin Set(b)}
  /\ dev'[n].progress = dev[n].progress

LEMMA UpEffect ==
  ASSUME PlanTyped, DevTyped, HeldBegins, plan' = plan, known' = known,
         NEW n \in Names, NEW t \in Tokens, NEW d,
         d = [dev[n] EXCEPT !.pressed = @ \ {t}, !.landed = {b \in @ : t \notin Set(b)}],
         \/ LetGoUnseen(n, d) /\ out' = out
         \/ LetGo(n, d)
  PROVE  DevTyped' /\ Others(n) /\ Ups(n, t) /\ (Marks(n) \/ \E over : Lets(n, over))
<1>1. dev[n] \in DevState /\ OneEach(dev[n]) /\ known' \subseteq Names /\ out \in Seq(Emissions)
  BY DEF DevTyped
<1>2. /\ d \in DevState /\ OneEach(d) /\ d.held = dev[n].held /\ d.pending = dev[n].pending
      /\ d.pressed = dev[n].pressed \ {t} /\ d.progress = dev[n].progress
      /\ d.landed = {b \in dev[n].landed : t \notin Set(b)}
  BY <1>1 DEF DevState, OneEach
<1>3. d.held \subseteq HeldSet /\ (d.held = {} \/ \E h : d.held = {h})
  BY <1>2, OneHold DEF DevState
<1>4. CASE LetGoUnseen(n, d) /\ out' = out
  <2> DEFINE mark(h) == [h EXCEPT !.loose = @ \/ ~ Satisfied(d.pressed, h.binding)]
             marked == {mark(h) : h \in d.held}
             D == [d EXCEPT !.held = marked]
  <2>1. dev' = [dev EXCEPT ![n] = D]
    BY <1>4 DEF LetGoUnseen
  <2>2. \A h \in d.held : /\ mark(h) \in HeldSet /\ mark(h).binding = h.binding
                          /\ mark(h).loose \/ Satisfied(d.pressed, mark(h).binding)
    BY <1>3 DEF HeldSet
  <2>3. \A h \in marked : \E g \in d.held : h = mark(g)
    OBVIOUS
  <2>4. \A g \in d.held : mark(g) \in marked
    OBVIOUS
  <2> HIDE DEF mark, marked
  <2>5. marked \subseteq HeldSet
    BY <2>2, <2>3, Zenon
  <2>6. \A h \in marked : /\ h.loose \/ Satisfied(d.pressed, h.binding)
                          /\ \E g \in d.held : g.binding = h.binding
    <3> SUFFICES ASSUME NEW h \in marked
                 PROVE  /\ h.loose \/ Satisfied(d.pressed, h.binding)
                        /\ \E g \in d.held : g.binding = h.binding
      OBVIOUS
    <3>1. PICK g \in d.held : h = mark(g)
      BY <2>3
    <3> QED BY <2>2, <3>1
  <2>7. \A g \in d.held : \E h \in marked : g.binding = h.binding
    BY <2>2, <2>4
  <2>8. \A x, y \in marked : x = y
    BY <1>3, <2>3
  <2>9. /\ \A h \in marked : /\ h.loose \/ Satisfied(d.pressed, h.binding)
                             /\ \E g \in d.held : g.binding = h.binding
        /\ \A g \in d.held : \E h \in marked : g.binding = h.binding
        /\ \A x, y \in marked : x = y
    BY <2>6, <2>7, <2>8
  <2> HIDE DEF marked
  <2>10. /\ D \in DevState /\ D.held = marked /\ D.pressed = d.pressed /\ D.landed = d.landed
        /\ D.pending = d.pending /\ D.progress = d.progress
    BY <1>2, <2>5 DEF DevState
  <2>11. OneEach(D)
    BY <1>2, <2>9, <2>10 DEF OneEach
  <2> HIDE DEF D
  <2>12. DevTyped' /\ dev'[n] = D /\ Others(n)
    BY <1>1, <1>4, <2>1, <2>10, <2>11, DevChanges DEF Others
  <2>13. Marks(n) /\ Ups(n, t)
    BY <1>2, <1>4, <2>9, <2>10, <2>12 DEF Marks, Ups
  <2> QED BY <2>12, <2>13
<1>5. CASE LetGo(n, d)
  <2> DEFINE over == {h \in d.held : ~ Satisfied(d.pressed, h.binding)}
             D == [d EXCEPT !.latched = Rearmed(n, d), !.held = @ \ over]
  <2>1. dev' = [dev EXCEPT ![n] = D] /\ out' = Releases(n, over)
    BY <1>5 DEF LetGo
  <2>2. over \in SUBSET HeldSet /\ (over = {} \/ \E h : over = {h})
    BY <1>3
  <2>3. Rearmed(n, d) \subseteq Actions
    BY <1>2 DEF Rearmed, DevState
  <2> HIDE DEF over
  <2>4. /\ D \in DevState /\ D.held = d.held \ over /\ D.pressed = d.pressed /\ D.landed = d.landed
        /\ D.pending = d.pending /\ D.progress = d.progress
    BY <1>2, <2>3 DEF DevState
  <2>5. OneEach(D)
    BY <1>2, <2>4 DEF OneEach
  <2>6. /\ out' \in Seq(Emissions)
        /\ \A i \in 1 .. Len(out') : out'[i].kind = "release" /\ out'[i].key = n
        /\ over # {} => 1 \in 1 .. Len(out')
    BY <2>1, <2>2, ReleasesOf
  <2> HIDE DEF D
  <2>7. DevTyped' /\ dev'[n] = D /\ Others(n)
    BY <1>1, <2>1, <2>4, <2>5, <2>6, DevChanges DEF Others
  <2>8. Lets(n, over) /\ Ups(n, t)
    BY <1>2, <2>4, <2>6, <2>7 DEF Lets, Ups, over
  <2> QED BY <2>7, <2>8
<1> QED BY <1>4, <1>5

LEMMA SettleEffect ==
  ASSUME DevTyped, plan' = plan, NEW n \in Names, NEW t \in Tokens, Settle(n, t)
  PROVE  /\ DevTyped' /\ Others(n) /\ Rests(n) /\ out' = out /\ known' = known
         /\ dev'[n].held = dev[n].held /\ dev'[n].pending = dev[n].pending
<1> DEFINE D == [dev[n] EXCEPT !.recent = @ \ {t}]
<1>1. /\ dev[n] \in DevState /\ OneEach(dev[n])
      /\ out' = out /\ known' = known /\ out' \in Seq(Emissions) /\ known' \subseteq Names
  BY DEF DevTyped, Settle
<1>2. dev' = [dev EXCEPT ![n] = D]
  BY DEF DevTyped, Settle
<1>3. /\ D \in DevState /\ D.held = dev[n].held /\ D.pending = dev[n].pending
      /\ D.pressed = dev[n].pressed /\ D.landed = dev[n].landed /\ D.progress = dev[n].progress
  BY <1>1 DEF DevState
<1>4. OneEach(D)
  BY <1>1, <1>3 DEF OneEach
<1> HIDE DEF D
<1>5. DevTyped' /\ dev'[n] = D /\ Others(n)
  BY <1>1, <1>2, <1>3, <1>4, DevChanges DEF Others
<1> QED BY <1>1, <1>3, <1>5 DEF Rests

LEMMA TickEffect ==
  ASSUME DevTyped, plan' = plan, NEW n \in Names, NEW x \in dev[n].pending, Tick(n, x)
  PROVE  /\ DevTyped' /\ Others(n) /\ Rests(n) /\ known' = known
         /\ dev'[n].held = dev[n].held /\ dev'[n].pending = dev[n].pending \ {x}
         /\ Len(out') = 1
         /\ out'[1] = Press(n, x.binding, ~ Satisfied(dev[n].pressed, x.binding))
<1> DEFINE D == [dev[n] EXCEPT !.pending = @ \ {x}]
           e == Press(n, x.binding, ~ Satisfied(dev[n].pressed, x.binding))
<1>1. /\ dev[n] \in DevState /\ OneEach(dev[n]) /\ x \in Waits
      /\ known' = known /\ known' \subseteq Names
  BY DEF DevTyped, Tick, DevState
<1>2. dev' = [dev EXCEPT ![n] = D] /\ out' = << e >>
  BY DEF DevTyped, Tick
<1>3. /\ D \in DevState /\ D.held = dev[n].held /\ D.pending = dev[n].pending \ {x}
      /\ D.pressed = dev[n].pressed /\ D.landed = dev[n].landed /\ D.progress = dev[n].progress
  BY <1>1 DEF DevState
<1>4. OneEach(D)
  BY <1>1, <1>3 DEF OneEach
<1>5. e \in Emissions
  BY <1>1 DEF Press, Emissions, Waits
<1> HIDE DEF D, e
<1>6. out' \in Seq(Emissions) /\ Len(out') = 1 /\ out'[1] = e
  BY <1>2, <1>5
<1>7. DevTyped' /\ dev'[n] = D /\ Others(n)
  BY <1>1, <1>2, <1>3, <1>4, <1>6, DevChanges DEF Others
<1> QED BY <1>1, <1>3, <1>6, <1>7 DEF Rests, e

\* What the poll thread dispatches: a release, or a press whose hold is noted.
LEMMA DispatchEffect ==
  ASSUME DevTyped, plan' = plan, Dispatch
  PROVE  /\ DevTyped' /\ known' = known /\ 1 \in 1 .. Len(out) /\ out[1] \in Emissions
         /\ \A i \in 1 .. Len(out') : i + 1 \in 1 .. Len(out) /\ out'[i] = out[i + 1]
         /\ \A i \in 2 .. Len(out) : i - 1 \in 1 .. Len(out') /\ out'[i - 1] = out[i]
         /\ \/ /\ out[1].kind = "release" /\ dev' = dev /\ Perform(out[1].key, "end", FALSE)
            \/ /\ out[1].kind = "press"
               /\ Perform(out[1].key, out[1].binding.action, out[1].binding.hold)
               /\ Others(out[1].key) /\ Rests(out[1].key)
               /\ dev'[out[1].key].pending = dev[out[1].key].pending
               /\ dev'[out[1].key].held = IF out[1].binding.hold
                    THEN Noted(dev[out[1].key].held, out[1]) ELSE dev[out[1].key].held
<1> DEFINE e == out[1]
           n == e.key
           D == IF e.binding.hold THEN [dev[n] EXCEPT !.held = Noted(@, e)] ELSE dev[n]
<1>1. /\ out \in Seq(Emissions) /\ out # << >> /\ Head(out) = e /\ out' = Tail(out) /\ known' = known
      /\ known' \subseteq Names
  BY HeadTailProperties DEF Dispatch, DevTyped
<1>2. /\ Len(out) \in Nat \ {0} /\ Len(out') = Len(out) - 1 /\ out' \in Seq(Emissions)
      /\ \A i \in 1 .. Len(out') : out'[i] = out[i + 1]
  BY <1>1, HeadTailProperties, EmptySeq, LenProperties
<1>3. 1 \in 1 .. Len(out) /\ e \in Emissions
  BY <1>1, <1>2, ElementOfSeq
<1>4. \A i \in 1 .. Len(out') : i + 1 \in 1 .. Len(out)
  BY <1>2
<1>5. ASSUME NEW i \in 2 .. Len(out) PROVE i - 1 \in 1 .. Len(out') /\ out'[i - 1] = out[i]
  <2>1. i - 1 \in 1 .. Len(out') /\ (i - 1) + 1 = i
    BY <1>2
  <2> QED BY <1>2, <2>1
<1>6. CASE e.kind = "release" /\ dev' = dev /\ Perform(n, "end", FALSE)
  <2>1. InTables' = InTables
    BY DEF InTables
  <2>2. Emissions' = Emissions /\ DevState' = DevState
    BY <2>1 DEF Emissions, DevState, HeldSet, Waits
  <2>3. \A m \in Names : OneEach(dev[m])'
    BY <1>6 DEF DevTyped, OneEach
  <2>4. DevTyped'
    BY <1>1, <1>2, <1>6, <2>2, <2>3 DEF DevTyped
  <2> QED BY <1>1, <1>2, <1>3, <1>4, <1>5, <1>6, <2>4
<1>7. CASE e.kind = "press" /\ Perform(n, e.binding.action, e.binding.hold)
           /\ dev' = IF e.binding.hold THEN [dev EXCEPT ![n].held = Noted(@, e)] ELSE dev
  <2>1. n \in Names /\ e.binding \in InTables /\ e.loose \in BOOLEAN
    BY <1>3 DEF Emissions
  <2>2. dev[n] \in DevState /\ OneEach(dev[n])
    BY <2>1 DEF DevTyped
  <2>3. dev' = [dev EXCEPT ![n] = D]
    BY <1>7 DEF DevTyped
  <2>4. Noted(dev[n].held, e) \subseteq HeldSet
    BY <2>1, <2>2 DEF Noted, HeldSet, DevState
  <2>5. \A g, h \in Noted(dev[n].held, e) : g.binding.action = h.binding.action => g = h
    BY <2>2 DEF Noted, OneEach
  <2> HIDE DEF e, n
  <2>6. D.held = IF e.binding.hold THEN Noted(dev[n].held, e) ELSE dev[n].held
    BY <2>2 DEF DevState
  <2>7. /\ D \in DevState /\ D.pressed = dev[n].pressed /\ D.landed = dev[n].landed
        /\ D.progress = dev[n].progress /\ D.pending = dev[n].pending
    BY <2>2, <2>4 DEF DevState
  <2> HIDE DEF D
  <2>8. OneEach(D)
    BY <2>2, <2>5, <2>6, <2>7 DEF OneEach
  <2>9. DevTyped' /\ dev'[n] = D /\ Others(n)
    BY <1>1, <1>2, <2>1, <2>3, <2>7, <2>8, DevChanges DEF Others
  <2> QED BY <1>1, <1>2, <1>3, <1>4, <1>5, <1>7, <2>6, <2>7, <2>9 DEF Rests, n, e
<1> QED BY <1>1, <1>6, <1>7 DEF Dispatch

LEMMA ShutdownEffect ==
  ASSUME DevTyped, plan' = plan, Shutdown
  PROVE  DevTyped' /\ out' = out /\ known' = known /\ \A n \in Names : dev'[n] = Fresh
<1>1. InTables' = InTables
  BY DEF InTables
<1>2. Emissions' = Emissions /\ DevState' = DevState
  BY <1>1 DEF Emissions, DevState, HeldSet, Waits
<1>3. dev' = [n \in Names |-> Fresh] /\ out' = out /\ known' = known
  BY DEF Shutdown
<1>4. \A n \in Names : OneEach(dev[n])'
  BY <1>3, FreshTyped DEF OneEach
<1> QED BY <1>2, <1>3, <1>4, FreshTyped DEF DevTyped

EngineInv == PlanTyped /\ DevTyped /\ HeldBegins

\* A token goes down: the press is dropped, captured, or fires what it completes.
DownEffect(p, t) ==
  LET n == NameOf[p]
  IN  \/ dev' = dev /\ out' = out
      \/ /\ out' = out /\ Others(n) /\ dev'[n].pressed = dev[n].pressed \union {t}
         /\ dev'[n].landed = dev[n].landed /\ dev'[n].progress = dev[n].progress
         /\ dev'[n].held = dev[n].held /\ dev'[n].pending = dev[n].pending
      \/ Others(n) /\ \E late : Fires(n, t, late)

LEMMA SameDev ==
  ASSUME DevTyped, plan' = plan, dev' = dev, out' = out, known' \subseteq Names
  PROVE  DevTyped'
<1>1. InTables' = InTables
  BY DEF InTables
<1>2. Emissions' = Emissions /\ DevState' = DevState
  BY <1>1 DEF Emissions, DevState, HeldSet, Waits
<1>3. \A m \in Names : OneEach(dev[m])'
  BY DEF DevTyped, OneEach
<1> QED BY <1>2, <1>3 DEF DevTyped

LEMMA TokenDownEffect ==
  ASSUME EngineInv, NEW p \in Pads, NEW t \in Tokens, TokenDown(p, t)
  PROVE  DevTyped' /\ DownEffect(p, t)
<1> DEFINE n == NameOf[p]
<1>1. n \in Names
  BY ControllerAssumption
<1>2. PlanTyped /\ DevTyped /\ plan' = plan /\ known' = known \union {n}
  BY DEF EngineInv, TokenDown, profile
<1>3. known' \subseteq Names
  BY <1>1, <1>2 DEF DevTyped
<1>4. CASE dev' = dev /\ out' = out
  BY <1>2, <1>3, <1>4, SameDev DEF DownEffect
<1>5. CASE /\ out' = out
           /\ dev' = [dev EXCEPT ![n].pressed = @ \union {t}, ![n].recent = @ \union Bounces(t)]
  <2> HIDE DEF n
  <2>1. /\ DevTyped' /\ Others(n) /\ dev'[n].pressed = dev[n].pressed \union {t}
        /\ dev'[n].landed = dev[n].landed /\ dev'[n].progress = dev[n].progress
        /\ dev'[n].held = dev[n].held /\ dev'[n].pending = dev[n].pending
    BY <1>1, <1>2, <1>3, <1>5, CaptureEffect
  <2> QED BY <1>5, <2>1 DEF DownEffect, n
<1>6. ASSUME NEW late, Fire(n, t, late) PROVE DevTyped' /\ DownEffect(p, t)
  <2> HIDE DEF n
  <2>1. DevTyped' /\ Fires(n, t, late) /\ \A m \in Names \ {n} : dev'[m] = dev[m]
    BY <1>1, <1>2, <1>3, <1>6, FireEffect
  <2> QED BY <2>1 DEF DownEffect, Others, n
<1> QED BY <1>4, <1>5, <1>6 DEF TokenDown

\* A token goes up: of a name the engine does not know, or with its effect.
LEMMA TokenUpEffect ==
  ASSUME EngineInv, NEW p \in Pads, NEW t \in Tokens, TokenUp(p, t)
  PROVE  LET n == NameOf[p]
         IN  /\ DevTyped' /\ known' = known
             /\ \/ n \notin known /\ dev' = dev /\ out' = out
                \/ Others(n) /\ Ups(n, t) /\ (Marks(n) \/ \E over : Lets(n, over))
<1> DEFINE n == NameOf[p]
           d == [dev[n] EXCEPT !.pressed = @ \ {t}, !.landed = {b \in @ : t \notin Set(b)}]
<1>1. n \in Names
  BY ControllerAssumption
<1>2. /\ PlanTyped /\ DevTyped /\ HeldBegins /\ plan' = plan /\ known' = known
      /\ known' \subseteq Names
  BY DEF EngineInv, TokenUp, profile, DevTyped
<1>3. \/ n \notin known /\ dev' = dev /\ out' = out
      \/ LetGoUnseen(n, d) /\ out' = out
      \/ LetGo(n, d)
  BY DEF TokenUp
<1>4. CASE n \notin known /\ dev' = dev /\ out' = out
  BY <1>2, <1>4, SameDev
<1>5. CASE (LetGoUnseen(n, d) /\ out' = out) \/ LetGo(n, d)
  <2> HIDE DEF n
  <2>1. DevTyped' /\ Others(n) /\ Ups(n, t) /\ (Marks(n) \/ \E over : Lets(n, over))
    BY <1>1, <1>2, <1>5, UpEffect
  <2> QED BY <1>2, <2>1 DEF n
<1> QED BY <1>3, <1>4, <1>5

\* What the others do is beside the devices.
Beside == UNCHANGED << dev, out, known, attached, down >>
Elsewhere ==
  \/ Swallow \/ WizardBegins \/ WizardReads \/ WizardGivesUp
  \/ \E T \in plan.tables : SwitchProfile(T)
  \/ Keyboard \/ DeckKey \/ DeckEnabled
  \/ \E post \in posts : Arrive(post)
LEMMA ElsewhereEffect ==
  ASSUME Elsewhere
  PROVE  Beside
BY DEF Elsewhere, Beside, Swallow, WizardBegins, WizardReads, WizardGivesUp, SwitchProfile,
       Keyboard, DeckKey, DeckEvent, DeckEnabled, Arrive, devices, physical

LEMMA NextPlan ==
  ASSUME PlanTyped, [Next]_vars
  PROVE  plan' = plan /\ PlanTyped'
<1>1. plan' = plan /\ (table' = table \/ table' \in plan.tables)
  BY DEF Next, vars, Attach, Unplug, TokenDown, TokenUp, Settle, Tick, Dispatch, Swallow, Shutdown,
         WizardBegins, WizardReads, WizardGivesUp, SwitchProfile, Keyboard, DeckKey, DeckEvent,
         DeckEnabled, Arrive, profile
<1> QED BY <1>1 DEF PlanTyped

\* The steps, by what they do to a device.
LEMMA NextSteps ==
  ASSUME Next
  PROVE  \/ \E p \in Pads : Attach(p) \/ Unplug(p)
         \/ \E p \in Pads, t \in Tokens : TokenDown(p, t) \/ TokenUp(p, t)
         \/ \E n \in Names, t \in Tokens : Settle(n, t)
         \/ \E n \in Names : \E x \in dev[n].pending : Tick(n, x)
         \/ Dispatch \/ Shutdown \/ Elsewhere
BY DEF Next, Elsewhere

LEMMA NextEngine ==
  ASSUME EngineInv, [Next]_vars
  PROVE  EngineInv'
<1>1. PlanTyped /\ DevTyped /\ HeldBegins /\ plan' = plan /\ PlanTyped'
  BY NextPlan DEF EngineInv
<1>h. \A n \in Names : dev[n].held \subseteq HeldSet
  BY <1>1 DEF DevTyped, DevState
<1>2. ASSUME Beside \/ UNCHANGED vars PROVE DevTyped' /\ HeldBegins'
  <2>1. dev' = dev /\ out' = out /\ known' = known /\ known' \subseteq Names
    BY <1>1, <1>2 DEF Beside, vars, devices, DevTyped
  <2>2. DevTyped'
    BY <1>1, <2>1, SameDev
  <2> QED BY <1>1, <2>1, <2>2 DEF HeldBegins
<1>3. ASSUME NEW p \in Pads, Attach(p) PROVE DevTyped' /\ HeldBegins'
  <2>1. DevTyped' /\ dev'[NameOf[p]] = Fresh /\ Others(NameOf[p])
    BY <1>1, <1>3, AttachEffect
  <2> QED BY <1>1, <2>1, FreshTyped DEF HeldBegins, Others
<1>4. ASSUME NEW p \in Pads, Unplug(p) PROVE DevTyped' /\ HeldBegins'
  <2>1. DevTyped' /\ dev'[NameOf[p]] = Fresh /\ Others(NameOf[p])
    BY <1>1, <1>4, UnplugEffect
  <2> QED BY <1>1, <2>1, FreshTyped DEF HeldBegins, Others
<1>5. ASSUME NEW p \in Pads, NEW t \in Tokens, TokenDown(p, t) PROVE DevTyped' /\ HeldBegins'
  <2>1. DevTyped' /\ DownEffect(p, t) /\ NameOf[p] \in Names
    BY <1>5, TokenDownEffect, ControllerAssumption
  <2>2. \A n \in Names : dev'[n].held = dev[n].held
    BY <2>1 DEF DownEffect, Fires, Others
  <2> QED BY <1>1, <2>1, <2>2 DEF HeldBegins
<1>6. ASSUME NEW p \in Pads, NEW t \in Tokens, TokenUp(p, t) PROVE DevTyped' /\ HeldBegins'
  <2> DEFINE n == NameOf[p]
  <2>1. /\ DevTyped' /\ n \in Names
        /\ \/ dev' = dev
           \/ Others(n) /\ (Marks(n) \/ \E over : Lets(n, over))
    BY <1>6, TokenUpEffect, ControllerAssumption
  <2> HIDE DEF n
  <2>2. \A m \in Names : \A h \in dev'[m].held : \E g \in dev[m].held : g.binding = h.binding
    BY <2>1 DEF Others, Marks, Lets
  <2> QED BY <1>1, <2>1, <2>2 DEF HeldBegins
<1>7. ASSUME NEW n \in Names, NEW t \in Tokens, Settle(n, t) PROVE DevTyped' /\ HeldBegins'
  BY <1>1, <1>7, SettleEffect DEF HeldBegins, Others
<1>8. ASSUME NEW n \in Names, NEW x \in dev[n].pending, Tick(n, x) PROVE DevTyped' /\ HeldBegins'
  BY <1>1, <1>8, TickEffect DEF HeldBegins, Others
<1>9. ASSUME Dispatch PROVE DevTyped' /\ HeldBegins'
  <2> DEFINE e == out[1]
  <2>1. /\ DevTyped' /\ e \in Emissions
        /\ \/ dev' = dev
           \/ /\ Others(e.key)
              /\ dev'[e.key].held = IF e.binding.hold THEN Noted(dev[e.key].held, e)
                                                      ELSE dev[e.key].held
    BY <1>1, <1>9, DispatchEffect
  <2> HIDE DEF e
  <2>2. ASSUME NEW n \in Names, NEW h \in dev'[n].held PROVE h.binding.hold
    BY <1>1, <2>1 DEF HeldBegins, Others, Noted
  <2> QED BY <2>1, <2>2 DEF HeldBegins
<1>10. ASSUME Shutdown PROVE DevTyped' /\ HeldBegins'
  BY <1>1, <1>10, ShutdownEffect, FreshTyped DEF HeldBegins
<1>11. ASSUME Elsewhere PROVE DevTyped' /\ HeldBegins'
  BY <1>2, <1>11, ElsewhereEffect
<1>12. DevTyped' /\ HeldBegins'
  BY <1>2, <1>3, <1>4, <1>5, <1>6, <1>7, <1>8, <1>9, <1>10, <1>11, NextSteps
<1> QED BY <1>1, <1>12 DEF EngineInv

RuntimeTyped ==
  /\ recording \in Names \union {None, Other, Lost, Deck}
  /\ register \subseteq Names \union {Deck}
  /\ deck \in {"up", "down", "gone"} /\ deckOn \in BOOLEAN
  /\ posts \subseteq {"keyDown", "keyUp", "disconnected"}
  /\ stopping \in BOOLEAN
Captures == [on : BOOLEAN, held : SUBSET Tokens, peak : SUBSET Tokens]
PollTyped ==
  /\ attached \subseteq Pads /\ down \in [Pads -> SUBSET Tokens] /\ alive \in BOOLEAN
  /\ swallow = None \/ swallow \in [token : Tokens, goes : {"down", "up"}]
  /\ capture \in Captures
  /\ wizard \in BOOLEAN

LEMMA PerformTyped ==
  ASSUME RuntimeTyped, NEW who \in Names \union {Deck}, NEW action, NEW hold, Perform(who, action, hold)
  PROVE  /\ recording' \in Names \union {None, Other, Lost, Deck}
         /\ register' \subseteq Names \union {Deck}
BY DEF RuntimeTyped, Perform

LEMMA NextRuntime ==
  ASSUME EngineInv, RuntimeTyped, [Next]_vars
  PROVE  RuntimeTyped'
<1>1. CASE Dispatch
  <2>1. /\ out[1].key \in Names /\ \E action, hold : Perform(out[1].key, action, hold)
    <3>1. plan' = plan /\ DevTyped
      BY <1>1 DEF EngineInv, Dispatch, profile
    <3>2. /\ out[1] \in Emissions
          /\ \/ Perform(out[1].key, "end", FALSE)
             \/ Perform(out[1].key, out[1].binding.action, out[1].binding.hold)
      BY <1>1, <3>1, DispatchEffect
    <3> QED BY <3>2 DEF Emissions
  <2> QED BY <1>1, <2>1, PerformTyped DEF RuntimeTyped, Dispatch, streams
<1>2. ASSUME NEW post \in posts, Arrive(post) PROVE RuntimeTyped'
  <2>1. deck' = deck /\ deckOn' = deckOn /\ stopping' = stopping /\ posts' \subseteq posts
    BY <1>2 DEF Arrive
  <2>2. CASE \E action, hold : Perform(Deck, action, hold)
    BY <2>1, <2>2, PerformTyped DEF RuntimeTyped
  <2>3. CASE UNCHANGED runtime
    BY <2>1, <2>3 DEF RuntimeTyped, runtime
  <2>4. CASE /\ register' = register \ {Deck}
             /\ recording' \in {None, Lost, recording}
    BY <2>1, <2>4 DEF RuntimeTyped
  <2> QED BY <1>2, <2>2, <2>3, <2>4 DEF Arrive
<1>3. CASE Shutdown
  BY <1>3 DEF RuntimeTyped, Shutdown, streams
<1>4. CASE Keyboard
  BY <1>4 DEF RuntimeTyped, Keyboard, streams
<1>5. CASE DeckKey
  BY <1>5 DEF RuntimeTyped, DeckKey, DeckEvent, runtime
<1>6. CASE DeckEnabled
  BY <1>6 DEF RuntimeTyped, DeckEnabled, runtime
<1>7. ASSUME NEW p \in Pads, Attach(p) PROVE RuntimeTyped'
  BY <1>7, ControllerAssumption DEF RuntimeTyped, Attach, streams
<1>8. CASE UNCHANGED << runtime, streams, stopping >>
  BY <1>8 DEF RuntimeTyped, runtime, streams
<1>9. Next \/ UNCHANGED vars
  OBVIOUS
<1>10. ASSUME NEW p \in Pads, Unplug(p) \/ \E t \in Tokens : TokenDown(p, t) \/ TokenUp(p, t)
       PROVE  UNCHANGED << runtime, streams, stopping >>
  BY <1>10 DEF Unplug, TokenDown, TokenUp
<1>11. ASSUME \/ \E n \in Names : \/ \E t \in Tokens : Settle(n, t)
                                  \/ \E x \in dev[n].pending : Tick(n, x)
              \/ Swallow \/ WizardBegins \/ WizardReads \/ WizardGivesUp
              \/ \E T \in plan.tables : SwitchProfile(T)
              \/ UNCHANGED vars
       PROVE  UNCHANGED << runtime, streams, stopping >>
  BY <1>11 DEF Settle, Tick, Swallow, WizardBegins, WizardReads, WizardGivesUp, SwitchProfile, vars
<1> QED BY <1>1, <1>2, <1>3, <1>4, <1>5, <1>6, <1>7, <1>8, <1>9, <1>10, <1>11 DEF Next

LEMMA CapturesAre ==
  /\ \A H, P \in SUBSET Tokens : [on |-> TRUE, held |-> H, peak |-> P] \in Captures
  /\ NoCapture \in Captures /\ [NoCapture EXCEPT !.on = TRUE] \in Captures
BY DEF Captures, NoCapture

LEMMA NextPoll ==
  ASSUME PollTyped, [Next]_vars
  PROVE  PollTyped'
<1>1. ASSUME NEW p \in Pads, Attach(p) \/ Unplug(p) PROVE PollTyped'
  BY <1>1 DEF PollTyped, Attach, Unplug, poll, wizardry
<1>2. ASSUME NEW p \in Pads, NEW t \in Tokens, TokenDown(p, t) \/ TokenUp(p, t) PROVE PollTyped'
  <2>1. /\ UNCHANGED << attached, alive, capture, wizard >>
        /\ \/ swallow' = swallow
           \/ swallow' = [token |-> t, goes |-> "down"]
           \/ swallow' = [token |-> t, goes |-> "up"]
        /\ \/ down' = [down EXCEPT ![p] = @ \union {t}]
           \/ down' = [down EXCEPT ![p] = @ \ {t}]
    BY <1>2 DEF TokenDown, TokenUp, wizardry
  <2>2. down' \in [Pads -> SUBSET Tokens]
    BY <2>1 DEF PollTyped
  <2>3. swallow' = None \/ swallow' \in [token : Tokens, goes : {"down", "up"}]
    BY <2>1 DEF PollTyped
  <2> QED BY <2>1, <2>2, <2>3 DEF PollTyped
<1>3. CASE Swallow
  <2>1. /\ UNCHANGED << attached, down, wizard >> /\ swallow' = None
        /\ \/ alive' = FALSE /\ capture' = capture
           \/ /\ alive' = alive /\ swallow # None
              /\ \E H, P \in {capture.held, capture.held \union {swallow.token},
                              capture.held \ {swallow.token}, capture.peak} :
                   capture' = [on |-> TRUE, held |-> H, peak |-> P]
    BY <1>3 DEF Swallow, physical
  <2>2. alive' \in BOOLEAN
    BY <2>1 DEF PollTyped
  <2>3. capture' = capture \/ \E H, P \in SUBSET Tokens : capture' = [on |-> TRUE, held |-> H, peak |-> P]
    <3>1. /\ capture.held \in SUBSET Tokens /\ capture.peak \in SUBSET Tokens
          /\ swallow # None => swallow.token \in Tokens
      BY DEF PollTyped, Captures
    <3> QED BY <2>1, <3>1
  <2>4. capture' \in Captures
    BY <2>3, CapturesAre DEF PollTyped
  <2> QED BY <2>1, <2>2, <2>4 DEF PollTyped
<1>4. CASE WizardBegins \/ WizardReads \/ WizardGivesUp
  <2>1. /\ UNCHANGED << physical, poll >> /\ wizard' \in BOOLEAN
        /\ capture' \in {capture, NoCapture, [NoCapture EXCEPT !.on = TRUE]}
    BY <1>4 DEF WizardBegins, WizardReads, WizardGivesUp
  <2>2. capture' \in Captures
    BY <2>1, CapturesAre DEF PollTyped
  <2> QED BY <2>1, <2>2 DEF PollTyped, physical, poll
<1>5. ASSUME \/ \E n \in Names : \/ \E t \in Tokens : Settle(n, t)
                                 \/ \E x \in dev[n].pending : Tick(n, x)
             \/ Dispatch \/ Shutdown \/ \E T \in plan.tables : SwitchProfile(T)
             \/ Keyboard \/ DeckKey \/ DeckEnabled \/ \E post \in posts : Arrive(post)
             \/ UNCHANGED vars
      PROVE  UNCHANGED << physical, poll, wizardry >>
  BY <1>5 DEF Settle, Tick, Dispatch, Shutdown, SwitchProfile, Keyboard, DeckKey, DeckEvent, DeckEnabled,
              Arrive, vars
<1>6. CASE UNCHANGED << physical, poll, wizardry >>
  BY <1>6 DEF PollTyped, physical, poll, wizardry
<1> QED BY <1>1, <1>2, <1>3, <1>4, <1>5, <1>6 DEF Next

LEMMA InitTyped ==
  ASSUME Init
  PROVE  EngineInv /\ RuntimeTyped /\ PollTyped
<1>1. PlanTyped
  BY DEF Init, PlanTyped
<1>2. DevTyped
  <2>1. << >> \in Seq(Emissions)
    OBVIOUS
  <2> QED BY <2>1, FreshTyped DEF Init, DevTyped
<1>3. HeldBegins
  BY FreshTyped DEF Init, HeldBegins
<1>4. RuntimeTyped /\ PollTyped
  BY CapturesAre DEF Init, RuntimeTyped, PollTyped
<1> QED BY <1>1, <1>2, <1>3, <1>4 DEF EngineInv

\* TypeOK holds of every behaviour: the engine keeps its types, with at most one
\* hold and one deferral for an action, whatever fires at once.
THEOREM TypeOK_Safety == Spec => []TypeOK
<1>1. EngineInv /\ RuntimeTyped /\ PollTyped => TypeOK
  BY DEF EngineInv, RuntimeTyped, PollTyped, PlanTyped, DevTyped, DevState, Waits, OneEach, Captures, TypeOK
<1>2. EngineInv /\ RuntimeTyped /\ PollTyped /\ [Next]_vars
        => (EngineInv /\ RuntimeTyped /\ PollTyped)'
  BY NextEngine, NextRuntime, NextPoll
<1> QED BY <1>1, <1>2, InitTyped, PTL DEF Spec
-----------------------------------------------------------------------------
(* Holds are tracked.                                                       *)

LEMMA NextPlugged ==
  ASSUME EngineInv, PollTyped, Plugged, [Next]_vars
  PROVE  Plugged'
<1>1. PlanTyped /\ DevTyped /\ HeldBegins /\ plan' = plan /\ known \subseteq Names
  BY NextPlan DEF EngineInv, DevTyped
<1>n. \A p \in Pads : NameOf[p] \in Names
  BY ControllerAssumption
<1>2. CASE Beside \/ UNCHANGED vars
  BY <1>2 DEF Beside, vars, devices, physical, Plugged
<1>3. ASSUME NEW p \in Pads, Attach(p) PROVE Plugged'
  <2>1. dev'[NameOf[p]] = Fresh /\ Others(NameOf[p])
    BY <1>1, <1>3, AttachEffect
  <2>2. known' = known \union {NameOf[p]} /\ attached' = attached \union {p} /\ out' = out
    BY <1>3 DEF Attach
  <2> QED BY <1>n, <2>1, <2>2 DEF Plugged, Others
<1>4. ASSUME NEW p \in Pads, Unplug(p) PROVE Plugged'
  <2>1. /\ dev'[NameOf[p]] = Fresh /\ Others(NameOf[p])
        /\ \A i \in 1 .. Len(out') : out'[i].kind = "release"
    BY <1>1, <1>4, UnplugEffect
  <2>2. known' = known \ {NameOf[p]} /\ attached' = attached \ {p}
    BY <1>4 DEF Unplug
  <2> QED BY <1>n, <2>1, <2>2, FreshTyped DEF Plugged, Others
<1>5. ASSUME NEW p \in Pads, NEW t \in Tokens, TokenDown(p, t) PROVE Plugged'
  <2>1. DownEffect(p, t) /\ attached' = attached /\ p \in attached /\ known' = known \union {NameOf[p]}
    BY <1>5, TokenDownEffect DEF TokenDown
  <2>2. /\ \A m \in Names \ {NameOf[p]} : dev'[m] = dev[m]
        /\ out' = out \/ \A i \in 1 .. Len(out') : out'[i].key = NameOf[p]
    BY <2>1 DEF DownEffect, Others, Fires
  <2> QED BY <1>n, <2>1, <2>2 DEF Plugged
<1>6. ASSUME NEW p \in Pads, NEW t \in Tokens, TokenUp(p, t) PROVE Plugged'
  <2> DEFINE n == NameOf[p]
  <2>1. /\ n \in Names /\ known' = known /\ attached' = attached
        /\ \/ dev' = dev /\ out' = out
           \/ Others(n) /\ Ups(n, t) /\ (Marks(n) \/ \E over : Lets(n, over))
    BY <1>6, <1>n, TokenUpEffect DEF TokenUp
  <2> HIDE DEF n
  <2>2. CASE dev' = dev /\ out' = out
    BY <2>1, <2>2 DEF Plugged
  <2>3. CASE Others(n) /\ Ups(n, t) /\ (Marks(n) \/ \E over : Lets(n, over))
    <3>1. \A m \in Names \ known : dev'[m].pressed = {} /\ dev'[m].pending = {}
      BY <2>3 DEF Others, Ups, Plugged
    <3>2. \A m \in Names \ known : dev'[m].held = {}
      BY <2>3 DEF Others, Marks, Lets, Plugged
    <3>3. out' = out \/ \A i \in 1 .. Len(out') : out'[i].kind = "release"
      BY <2>3 DEF Marks, Lets
    <3> QED BY <2>1, <3>1, <3>2, <3>3 DEF Plugged
  <2> QED BY <2>1, <2>2, <2>3
<1>7. ASSUME NEW n \in Names, NEW t \in Tokens, Settle(n, t) PROVE Plugged'
  <2>1. /\ Others(n) /\ Rests(n) /\ out' = out /\ known' = known
        /\ dev'[n].held = dev[n].held /\ dev'[n].pending = dev[n].pending /\ attached' = attached
    BY <1>1, <1>7, SettleEffect DEF Settle, physical
  <2> QED BY <2>1 DEF Plugged, Others, Rests
<1>8. ASSUME NEW n \in Names, NEW x \in dev[n].pending, Tick(n, x) PROVE Plugged'
  <2>1. /\ Others(n) /\ Rests(n) /\ known' = known /\ dev'[n].held = dev[n].held
        /\ dev'[n].pending = dev[n].pending \ {x} /\ Len(out') = 1
        /\ out'[1] = Press(n, x.binding, ~ Satisfied(dev[n].pressed, x.binding))
        /\ attached' = attached
    BY <1>1, <1>8, TickEffect DEF Tick, physical
  <2>2. n \in known
    BY <1>8 DEF Plugged
  <2>3. \A i \in 1 .. Len(out') : out'[i].key = n
    BY <2>1 DEF Press
  <2> QED BY <2>1, <2>2, <2>3 DEF Plugged, Others, Rests
<1>9. CASE Dispatch
  <2> DEFINE e == out[1]
  <2>1. /\ known' = known /\ 1 \in 1 .. Len(out) /\ e \in Emissions
        /\ \A i \in 1 .. Len(out') : i + 1 \in 1 .. Len(out) /\ out'[i] = out[i + 1]
        /\ \/ dev' = dev
           \/ /\ e.kind = "press" /\ Others(e.key)
    BY <1>1, <1>9, DispatchEffect
  <2>2. e.kind = "press" => e.key \in known
    BY <2>1 DEF Plugged
  <2>3. \A i \in 1 .. Len(out') : out'[i].kind = "press" => out'[i].key \in known
    BY <2>1 DEF Plugged
  <2>4. attached' = attached
    BY <1>9 DEF Dispatch, physical
  <2> HIDE DEF e
  <2>5. \A m \in Names \ known : dev'[m] = dev[m]
    BY <2>1, <2>2 DEF Others
  <2> QED BY <2>1, <2>3, <2>4, <2>5 DEF Plugged
<1>10. CASE Shutdown
  <2>1. out' = out /\ known' = known /\ (\A n \in Names : dev'[n] = Fresh) /\ attached' = attached
    BY <1>1, <1>10, ShutdownEffect DEF Shutdown, physical
  <2> QED BY <2>1, FreshTyped DEF Plugged
<1>11. CASE Elsewhere
  BY <1>2, <1>11, ElsewhereEffect
<1> QED BY <1>2, <1>3, <1>4, <1>5, <1>6, <1>7, <1>8, <1>9, <1>10, <1>11, NextSteps

LEMMA EndingIs ==
  ASSUME DevTyped, NEW n
  PROVE  Ending(n) <=> \E i \in 1 .. Len(out) : out[i].key = n /\ out[i].kind = "release"
<1>1. DOMAIN out = 1 .. Len(out)
  BY LenProperties DEF DevTyped
<1> QED BY <1>1 DEF Ending, ToSet

\* What a step keeps of a hold of n.
Tracks(n) == n \in register /\ Holds(n) /\ \E p \in attached : NameOf[p] = n

\* A step that ends no recording but one of a name in N.
LEMMA StillTracked ==
  ASSUME HoldTracked, DevTyped, DevTyped', register \subseteq register',
         \A n \in Names : recording' = n => recording = n,
         recording' = Deck => recording = Deck,
         \A n \in Names : Tracks(n) => Ending(n)' \/ Tracks(n)',
         \A n \in Names : Ending(n) => Ending(n)'
  PROVE  HoldTracked'
BY DEF HoldTracked, Tracks

LEMMA NextTracked ==
  ASSUME EngineInv, RuntimeTyped, PollTyped, Plugged, HoldTracked, [Next]_vars
  PROVE  HoldTracked'
<1>1. PlanTyped /\ DevTyped /\ HeldBegins /\ plan' = plan /\ EngineInv' /\ DevTyped'
  BY NextPlan, NextEngine DEF EngineInv
<1>n. \A p \in Pads : NameOf[p] \in Names
  BY ControllerAssumption
<1>d. \A n \in Names : n \notin {None, Other, Lost, Deck}
  BY ControllerAssumption
<1>e. \A n : Ending(n) <=> \E i \in 1 .. Len(out) : out[i].key = n /\ out[i].kind = "release"
  BY <1>1, EndingIs
<1>f. \A n : Ending(n)' <=> \E i \in 1 .. Len(out') : out'[i].key = n /\ out'[i].kind = "release"
  <2>1. DOMAIN out' = 1 .. Len(out')
    BY <1>1, LenProperties DEF DevTyped
  <2> QED BY <2>1 DEF Ending, ToSet
<1>g. out = << >> => \A n : ~ Ending(n)
  BY <1>e
<1>2. ASSUME NEW p \in Pads, Attach(p) PROVE HoldTracked'
  <2>1. Others(NameOf[p]) /\ NameOf[p] \in Names
    BY <1>1, <1>2, <1>n, AttachEffect
  <2>2. /\ attached' = attached \union {p} /\ out = << >> /\ register' = register
        /\ recording' = IF recording = NameOf[p] THEN Lost ELSE recording
    BY <1>2 DEF Attach, Polling
  <2>3. \A n \in Names \ {NameOf[p]} : Tracks(n) => Tracks(n)'
    BY <2>1, <2>2 DEF Tracks, Holds, Others
  <2>4. ASSUME NEW n \in Names, recording' = n PROVE Tracks(n)'
    BY <1>d, <1>g, <2>2, <2>3, <2>4 DEF HoldTracked, Tracks
  <2>5. recording' = Deck => Deck \in register'
    BY <2>2, ControllerAssumption DEF HoldTracked
  <2> QED BY <2>4, <2>5 DEF HoldTracked, Tracks
<1>3. ASSUME NEW p \in Pads, Unplug(p) PROVE HoldTracked'
  <2>1. /\ Others(NameOf[p]) /\ NameOf[p] \in Names
        /\ \A i \in 1 .. Len(out') : out'[i].kind = "release" /\ out'[i].key = NameOf[p]
        /\ dev[NameOf[p]].held # {} => 1 \in 1 .. Len(out')
    BY <1>1, <1>3, <1>n, UnplugEffect
  <2>2. /\ attached' = attached \ {p} /\ out = << >> /\ register' = register /\ recording' = recording
    BY <1>3 DEF Unplug, Polling, runtime
  <2>3. Tracks(NameOf[p]) => Ending(NameOf[p])'
    BY <1>f, <2>1 DEF Tracks, Holds
  <2>4. \A n \in Names \ {NameOf[p]} : Tracks(n) => Tracks(n)'
    BY <2>1, <2>2 DEF Tracks, Holds, Others
  <2> QED BY <1>1, <1>g, <2>2, <2>3, <2>4, StillTracked
<1>4. ASSUME NEW p \in Pads, NEW t \in Tokens, TokenDown(p, t) PROVE HoldTracked'
  <2>1. /\ DownEffect(p, t) /\ attached' = attached /\ out = << >>
        /\ register' = register /\ recording' = recording
    BY <1>1, <1>4, TokenDownEffect DEF TokenDown, Polling, runtime
  <2>2. \A n \in Names : dev'[n].held = dev[n].held
    BY <1>n, <2>1 DEF DownEffect, Fires, Others
  <2>3. \A n \in Names : Tracks(n) => Tracks(n)'
    BY <2>1, <2>2 DEF Tracks, Holds
  <2> QED BY <1>1, <1>g, <2>1, <2>3, StillTracked
<1>5. ASSUME NEW p \in Pads, NEW t \in Tokens, TokenUp(p, t) PROVE HoldTracked'
  <2> DEFINE n == NameOf[p]
  <2>1. /\ n \in Names /\ attached' = attached /\ out = << >>
        /\ register' = register /\ recording' = recording
        /\ \/ dev' = dev
           \/ Others(n) /\ (Marks(n) \/ \E over : Lets(n, over))
    BY <1>5, <1>n, TokenUpEffect DEF TokenUp, Polling, runtime
  <2> HIDE DEF n
  <2>2. ASSUME NEW m \in Names, Tracks(m) PROVE Ending(m)' \/ Tracks(m)'
    <3>1. PICK h \in dev[m].held : h.binding.action = "begin"
      BY <2>2 DEF Tracks, Holds
    <3>2. CASE \E over : Lets(n, over) /\ h \in over /\ m = n
      BY <1>f, <3>2 DEF Lets
    <3>3. CASE \E g \in dev'[m].held : g.binding = h.binding
      BY <2>1, <2>2, <3>1, <3>3 DEF Tracks, Holds
    <3> QED BY <2>1, <3>1, <3>2, <3>3 DEF Others, Marks, Lets
  <2> QED BY <1>1, <1>g, <2>1, <2>2, StillTracked
<1>6. ASSUME NEW n \in Names, NEW t \in Tokens, Settle(n, t) PROVE HoldTracked'
  <2>1. /\ Others(n) /\ out' = out /\ dev'[n].held = dev[n].held /\ attached' = attached
        /\ register' = register /\ recording' = recording
    BY <1>1, <1>6, SettleEffect DEF Settle, physical, runtime
  <2>2. \A m \in Names : Tracks(m) => Tracks(m)'
    BY <2>1 DEF Tracks, Holds, Others
  <2> QED BY <1>1, <1>e, <1>f, <2>1, <2>2, StillTracked
<1>7. ASSUME NEW n \in Names, NEW x \in dev[n].pending, Tick(n, x) PROVE HoldTracked'
  <2>1. /\ Others(n) /\ out = << >> /\ dev'[n].held = dev[n].held /\ attached' = attached
        /\ register' = register /\ recording' = recording
    BY <1>1, <1>7, TickEffect DEF Tick, Polling, physical, runtime
  <2>2. \A m \in Names : Tracks(m) => Tracks(m)'
    BY <2>1 DEF Tracks, Holds, Others
  <2> QED BY <1>1, <1>g, <2>1, <2>2, StillTracked
<1>8. CASE Dispatch
  <2> DEFINE e == out[1]
             n == e.key
  <2>1. /\ known' = known /\ 1 \in 1 .. Len(out) /\ e \in Emissions
        /\ \A i \in 2 .. Len(out) : i - 1 \in 1 .. Len(out') /\ out'[i - 1] = out[i]
        /\ \/ e.kind = "release" /\ dev' = dev /\ Perform(n, "end", FALSE)
           \/ /\ e.kind = "press" /\ Perform(n, e.binding.action, e.binding.hold)
              /\ Others(n)
              /\ dev'[n].held = IF e.binding.hold THEN Noted(dev[n].held, e) ELSE dev[n].held
    BY <1>1, <1>8, DispatchEffect
  <2>2. attached' = attached /\ n \in Names /\ e.binding \in InTables
    BY <1>8, <2>1 DEF Dispatch, physical, Emissions
  <2>3. CASE e.kind = "release"
    <3>1. recording' = None
      BY <2>1, <2>3 DEF Perform
    <3> QED BY <1>d, <3>1, ControllerAssumption DEF HoldTracked
  <2>4. CASE e.kind = "press"
    <3>1. n \in known /\ \E p \in attached : NameOf[p] = n
      BY <2>1, <2>4 DEF Plugged
    <3>2. e.binding.hold => e.binding.action = "begin"
      BY <1>1, <2>2, BindingsOf
    <3>3. \A m \in Names : Ending(m) => Ending(m)'
      <4> SUFFICES ASSUME NEW m \in Names, Ending(m) PROVE Ending(m)'
        OBVIOUS
      <4>1. PICK i \in 1 .. Len(out) : out[i].key = m /\ out[i].kind = "release"
        BY <1>e
      <4>2. i \in 2 .. Len(out)
        BY <2>4, <4>1
      <4> QED BY <1>f, <2>1, <4>1, <4>2
    <3> HIDE DEF e, n
    <3>4. e.binding.hold => \E h \in dev'[n].held : h.binding.action = "begin"
      <4>1. e.binding.hold => [binding |-> e.binding, loose |-> e.loose] \in dev'[n].held
        BY <2>1, <2>4 DEF Noted, e
      <4> QED BY <3>2, <4>1
    <3>5. \A m \in Names : Holds(m) => Holds(m)'
      <4>1. (\E h \in dev[n].held : h.binding.action = "begin")
              => \E h \in dev'[n].held : h.binding.action = "begin"
        <5>1. CASE e.binding.hold
          BY <3>4, <5>1
        <5>2. CASE ~ e.binding.hold
          BY <2>1, <2>4, <5>2 DEF e, n
        <5> QED BY <5>1, <5>2
      <4>2. \A m \in Names \ {n} : dev'[m] = dev[m]
        BY <2>1, <2>4 DEF Others, e, n
      <4> QED BY <4>1, <4>2 DEF Holds
    <3>6. /\ register \subseteq register' /\ (e.binding.hold => n \in register')
          /\ recording' \in {None, Other, recording} \/ (recording' = n /\ e.binding.hold)
      <4>1. Perform(n, e.binding.action, e.binding.hold) /\ e.binding.action # "end"
        <5>1. e.binding \in Bindings
          BY <1>1, <2>2, BindingsOf DEF e
        <5> QED BY <2>1, <2>4, <5>1 DEF e, n, Bindings, Actions
      <4> QED BY <4>1 DEF Perform
    <3>7. ASSUME NEW m \in Names, recording' = m PROVE Ending(m)' \/ Tracks(m)'
      <4>1. CASE recording' = n /\ e.binding.hold
        BY <2>2, <3>1, <3>4, <3>6, <3>7, <4>1 DEF Tracks, Holds
      <4>2. CASE recording' = recording
        BY <2>2, <3>3, <3>5, <3>6, <3>7, <4>2 DEF HoldTracked, Tracks
      <4> QED BY <1>d, <3>6, <3>7, <4>1, <4>2
    <3>8. recording' = Deck => Deck \in register'
      BY <1>d, <2>2, <3>6, ControllerAssumption DEF HoldTracked, n, e
    <3> QED BY <3>7, <3>8 DEF HoldTracked, Tracks
  <2> QED BY <2>1, <2>3, <2>4
<1>9. CASE Shutdown
  <2> DEFINE holding == {n \in Names : dev[n].held # {}}
  <2>1. /\ out' = out /\ attached' = attached /\ register' = register \ holding
        /\ recording' = IF holding = {} THEN recording ELSE None
    BY <1>1, <1>9, ShutdownEffect DEF Shutdown, physical
  <2>2. CASE holding # {}
    BY <1>d, <2>1, <2>2, ControllerAssumption DEF HoldTracked
  <2>3. CASE holding = {}
    <3>1. \A n \in Names : ~ Tracks(n)
      BY <2>3 DEF Tracks, Holds
    <3> HIDE DEF holding
    <3>2. register' = register /\ recording' = recording
      BY <2>1, <2>3
    <3> QED BY <1>1, <1>e, <1>f, <2>1, <3>1, <3>2, StillTracked
  <2> QED BY <2>2, <2>3
<1>10. ASSUME NEW post \in posts, Arrive(post) PROVE HoldTracked'
  <2>1. dev' = dev /\ out' = out /\ attached' = attached
    BY <1>10 DEF Arrive, devices, physical
  <2>2. \A n \in Names : (Ending(n) => Ending(n)') /\ (Holds(n) => Holds(n)')
    BY <1>e, <1>f, <2>1 DEF Holds
  <2>3. /\ \A n \in Names : n \in register => n \in register'
        /\ \A n \in Names : recording' = n => recording = n
        /\ recording' = Deck => Deck \in register'
    BY <1>10, <1>d, ControllerAssumption DEF Arrive, Perform, runtime, HoldTracked
  <2> QED BY <2>1, <2>2, <2>3 DEF HoldTracked
<1>11. ASSUME \/ Swallow \/ WizardBegins \/ WizardReads \/ WizardGivesUp
              \/ \E T \in plan.tables : SwitchProfile(T)
              \/ Keyboard \/ DeckKey \/ DeckEnabled \/ UNCHANGED vars
       PROVE  HoldTracked'
  <2>1. /\ dev' = dev /\ out' = out /\ attached' = attached /\ register' = register
        /\ recording' \in {recording, Other, None}
    BY <1>11 DEF Swallow, WizardBegins, WizardReads, WizardGivesUp, SwitchProfile, Keyboard, DeckKey,
                 DeckEvent, DeckEnabled, vars, devices, physical, runtime
  <2>2. \A n \in Names : (Ending(n) => Ending(n)') /\ (Tracks(n) => Tracks(n)')
    BY <1>e, <1>f, <2>1 DEF Holds, Tracks
  <2> QED BY <1>1, <1>d, <2>1, <2>2, StillTracked, ControllerAssumption
<1> QED BY <1>2, <1>3, <1>4, <1>5, <1>6, <1>7, <1>8, <1>9, <1>10, <1>11, NextSteps DEF Elsewhere

LEMMA TrackedAlways == Spec => [](EngineInv /\ RuntimeTyped /\ PollTyped /\ Plugged /\ HoldTracked)
<1> DEFINE Inv == EngineInv /\ RuntimeTyped /\ PollTyped /\ Plugged /\ HoldTracked
<1>1. Init => Plugged /\ HoldTracked
  BY FreshTyped, ControllerAssumption DEF Init, Plugged, HoldTracked
<1>2. Init => Inv
  BY <1>1, InitTyped
<1>3. Inv /\ [Next]_vars => Inv'
  BY NextEngine, NextRuntime, NextPoll, NextPlugged, NextTracked
<1> QED BY <1>2, <1>3, PTL DEF Spec

\* HoldTracked holds of every behaviour: a recording that a hold began ends with the
\* loss of its device.  Engine and dispatcher both have the hold while a controller
\* of its name is plugged in, and when it is let go or pulled out its release is on
\* its way, whatever profile, capture or second controller came between.
THEOREM HoldTracked_Safety == Spec => []HoldTracked
BY TrackedAlways, PTL
-----------------------------------------------------------------------------
(* A hold is of buttons that are down.                                      *)

\* What a wizard's capture gives, and what no store checks of an edited file or of
\* two profiles: a single binding has one event, and the sequences that hold are of
\* one length.  Progress in a sequence is kept by action and outlives a switch, so
\* that otherwise a shorter one may fire at its first token.
HoldsAlike ==
  \A p \in Plans : \A b, c \in UNION {ToSet(T) : T \in p.tables} :
    b.hold => /\ b.style = "single" => Len(b.events) = 1
              /\ b.style = "sequence" /\ c.style = "sequence" /\ c.action = b.action
                   => Len(b.events) = Len(c.events)

Down(n) == UNION {down[p] : p \in {q \in attached : NameOf[q] = n}}

\* What is down for the engine is down; a press on its way is of buttons that are.
Backed(n, held) == \A h \in held : h.loose \/ Satisfied(Down(n), h.binding)
DownInv ==
  /\ \A n \in Names : dev[n].pressed \subseteq Down(n)
  /\ \A n \in Names : Backed(n, dev[n].held)
  /\ \A i \in 1 .. Len(out), n \in Names :
       out[i].key = n /\ out[i].kind = "press" /\ out[i].binding.hold =>
         out[i].loose \/ Satisfied(Down(n), out[i].binding)
  /\ \A n \in Names : \A b \in InTables :
       b.style = "sequence" /\ b.hold => dev[n].progress[b.action] < Len(b.events)

LEMMA SatisfiedGrows ==
  ASSUME NEW P, NEW Q, P \subseteq Q, NEW b, Satisfied(P, b)
  PROVE  Satisfied(Q, b)
BY DEF Satisfied

LEMMA BackedGrows ==
  ASSUME NEW n, NEW held, Backed(n, held), Down(n) \subseteq Down(n)'
  PROVE  \A h \in held : h.loose \/ Satisfied(Down(n)', h.binding)
BY SatisfiedGrows DEF Backed

\* The last token of a hold that fires is the one that came.
LEMMA FiredIsDown ==
  ASSUME HoldsAlike, PlanTyped, DevTyped, DownInv, NEW n \in Names, NEW t, NEW late,
         NEW b \in Fired(n, t, late), b.hold
  PROVE  Satisfied(dev[n].pressed \union {t}, b)
<1> DEFINE before == [dev[n] EXCEPT !.pressed = @ \union {t}, !.recent = @ \union Bounces(t)]
<1>1. /\ b \in InForce(n) /\ b \in InTables /\ b \in Bindings /\ b.action \in Actions
      /\ Len(b.events) \in Nat \ {0}
  BY BindingsOf DEF Fired, InForce, Bindings
<1>2. Completes(before, b, t, late)
  BY DEF Fired
<1>3. dev[n] \in DevState /\ before.pressed = dev[n].pressed \union {t} /\ before.progress = dev[n].progress
  BY DEF DevTyped, DevState
<1>4. b.style = "single" => Len(b.events) = 1
  BY <1>1 DEF HoldsAlike, InTables, PlanTyped
<1>5. CASE b.style = "single"
  <2>1. t = b.events[1] /\ ~ Chord(b)
    BY <1>2, <1>5 DEF Completes, Chord
  <2> QED BY <1>4, <1>5, <2>1 DEF Satisfied, Last
<1>6. CASE Chord(b)
  BY <1>2, <1>3, <1>6 DEF Completes, Satisfied, Chord
<1>7. CASE b.style = "sequence"
  <2> DEFINE reached == IF b.action \in late THEN 0 ELSE before.progress[b.action]
             expected == b.events[IF reached < Len(b.events) THEN reached + 1 ELSE 1]
  <2>1. reached \in Nat /\ reached < Len(b.events)
    <3>1. before.progress[b.action] < Len(b.events) /\ before.progress[b.action] \in Nat
      BY <1>1, <1>3, <1>7 DEF DownInv, DevState
    <3> QED BY <1>1, <3>1
  <2>2. expected = b.events[reached + 1]
    BY <2>1
  <2>3. Progress(before, b, t, late)
          = IF t = expected THEN reached + 1 ELSE IF t = b.events[1] THEN 1 ELSE 0
    BY DEF Progress
  <2>4. Progress(before, b, t, late) >= Len(b.events)
    BY <1>2, <1>7 DEF Completes, Chord
  <2> HIDE DEF before, reached, expected
  <2>5. t = b.events[Len(b.events)]
    <3>1. CASE t = expected
      <4>1. reached + 1 = Len(b.events)
        BY <1>1, <2>1, <2>3, <2>4, <3>1
      <4> QED BY <2>2, <3>1, <4>1
    <3>2. CASE t # expected
      <4>1. CASE t = b.events[1]
        <5>1. Progress(before, b, t, late) = 1
          BY <2>3, <3>2, <4>1
        <5>2. Len(b.events) = 1
          <6>1. \A k \in Nat \ {0} : 1 >= k => k = 1
            OBVIOUS
          <6>2. 1 >= Len(b.events) /\ Len(b.events) \in Nat \ {0}
            BY <1>1, <2>4, <5>1
          <6> QED BY <6>1, <6>2
        <5> QED BY <4>1, <5>2
      <4>2. CASE t # b.events[1]
        <5>1. Progress(before, b, t, late) = 0
          BY <2>3, <3>2, <4>2
        <5> QED BY <1>1, <2>4, <5>1
      <4> QED BY <4>1, <4>2
    <3> QED BY <3>1, <3>2
  <2> QED BY <1>7, <2>5 DEF Satisfied, Chord, Last
<1> QED BY <1>1, <1>5, <1>6, <1>7 DEF Bindings, Chord

\* A step that changes the device n at most keeps the others' holds backed.
DownKept(n) ==
  /\ \A m \in Names \ {n} : dev'[m] = dev[m] /\ Down(m) \subseteq Down(m)'
  /\ dev'[n].pressed \subseteq Down(n)'
  /\ \A h \in dev'[n].held : h.loose \/ Satisfied(Down(n)', h.binding)
  /\ \A i \in 1 .. Len(out'), m \in Names :
       out'[i].key = m /\ out'[i].kind = "press" /\ out'[i].binding.hold =>
         out'[i].loose \/ Satisfied(Down(m)', out'[i].binding)
  /\ \A b \in InTables : b.style = "sequence" /\ b.hold => dev'[n].progress[b.action] < Len(b.events)

LEMMA DownKeeps ==
  ASSUME DownInv, plan' = plan, NEW n \in Names, DownKept(n)
  PROVE  DownInv'
<1>1. InTables' = InTables
  BY DEF InTables
<1>2. \A m \in Names : dev'[m].pressed \subseteq Down(m)'
  BY DEF DownInv, DownKept
<1>3. ASSUME NEW m \in Names
      PROVE  \A h \in dev'[m].held : h.loose \/ Satisfied(Down(m)', h.binding)
  <2>1. CASE m = n
    BY <2>1 DEF DownKept
  <2>2. CASE m # n
    <3>1. Backed(m, dev[m].held) /\ Down(m) \subseteq Down(m)' /\ dev'[m] = dev[m]
      BY <2>2 DEF DownInv, DownKept
    <3> QED BY <3>1, BackedGrows
  <2> QED BY <2>1, <2>2
<1>4. \A m \in Names : Backed(m, dev[m].held)'
  BY <1>3 DEF Backed
<1>5. \A m \in Names : \A b \in InTables' :
        b.style = "sequence" /\ b.hold => dev'[m].progress[b.action] < Len(b.events)
  BY <1>1 DEF DownInv, DownKept
<1>6. (\A i \in 1 .. Len(out), m \in Names :
         out[i].key = m /\ out[i].kind = "press" /\ out[i].binding.hold =>
           out[i].loose \/ Satisfied(Down(m), out[i].binding))'
  BY DEF DownKept
<1> HIDE DEF DownKept
<1> QED BY <1>2, <1>4, <1>5, <1>6 DEF DownInv

\* The tokens of a name, as a controller of it comes, goes, or is used.
LEMMA DownChanges ==
  ASSUME NEW m
  PROVE  /\ attached \subseteq attached' /\ (\A p \in attached : down[p] \subseteq down'[p])
              => Down(m) \subseteq Down(m)'
         /\ (\A p : NameOf[p] = m => (p \in attached <=> p \in attached') /\ down'[p] = down[p])
              => Down(m)' = Down(m)
         /\ \A p \in attached' : NameOf[p] = m => down'[p] \subseteq Down(m)'
BY DEF Down

\* A device that is reset has nothing to back.
LEMMA FreshKept ==
  ASSUME PlanTyped, DevTyped, NEW n \in Names, dev'[n] = Fresh, Others(n),
         \A m \in Names \ {n} : Down(m) \subseteq Down(m)',
         \A i \in 1 .. Len(out') : out'[i].kind = "release"
  PROVE  DownKept(n)
<1>1. \A b \in InTables : b.action \in Actions /\ 0 < Len(b.events)
  <2>1. \A b \in InTables : Len(b.events) \in Nat \ {0} /\ b \in Bindings
    BY BindingsOf
  <2> QED BY <2>1 DEF Bindings
<1>2. \A b \in InTables : dev'[n].progress[b.action] < Len(b.events)
  BY <1>1, FreshTyped
<1> QED BY <1>2, FreshTyped DEF DownKept, Others

LEMMA NextDown ==
  ASSUME HoldsAlike, EngineInv, PollTyped, Plugged, DownInv, [Next]_vars
  PROVE  DownInv'
<1>1. /\ PlanTyped /\ DevTyped /\ HeldBegins /\ plan' = plan /\ DevTyped'
      /\ down \in [Pads -> SUBSET Tokens] /\ attached \subseteq Pads
  BY NextPlan, NextEngine DEF EngineInv, PollTyped
<1>n. \A p \in Pads : NameOf[p] \in Names
  BY ControllerAssumption
<1>i. InTables' = InTables
  BY <1>1 DEF InTables
<1>o. out = << >> => \A i \in 1 .. Len(out) : FALSE
  OBVIOUS
<1>2. CASE UNCHANGED << attached, down, dev, out >>
  <2>1. \A m \in Names : Down(m)' = Down(m)
    BY <1>2 DEF Down
  <2>2. \A m \in Names : dev'[m].pressed \subseteq Down(m)' /\ Backed(m, dev[m].held)'
    BY <1>2, <2>1 DEF DownInv, Backed
  <2>3. (\A i \in 1 .. Len(out), m \in Names :
           out[i].key = m /\ out[i].kind = "press" /\ out[i].binding.hold =>
             out[i].loose \/ Satisfied(Down(m), out[i].binding))'
    BY <1>2, <2>1 DEF DownInv
  <2> QED BY <1>2, <1>i, <2>2, <2>3 DEF DownInv
<1>3. ASSUME NEW p \in Pads, Attach(p) PROVE DownInv'
  <2>1. dev'[NameOf[p]] = Fresh /\ Others(NameOf[p]) /\ NameOf[p] \in Names
    BY <1>1, <1>3, <1>n, AttachEffect
  <2>2. attached' = attached \union {p} /\ down' = down /\ out' = out /\ out = << >>
    BY <1>3 DEF Attach, Polling
  <2>3. \A m \in Names : Down(m) \subseteq Down(m)'
    BY <2>2, DownChanges
  <2> QED BY <1>1, <1>o, <2>1, <2>2, <2>3, FreshKept, DownKeeps
<1>4. ASSUME NEW p \in Pads, Unplug(p) PROVE DownInv'
  <2>1. /\ dev'[NameOf[p]] = Fresh /\ Others(NameOf[p]) /\ NameOf[p] \in Names
        /\ \A i \in 1 .. Len(out') : out'[i].kind = "release"
    BY <1>1, <1>4, <1>n, UnplugEffect
  <2>2. attached' = attached \ {p} /\ down' = [down EXCEPT ![p] = {}]
    BY <1>4 DEF Unplug
  <2>3. \A m \in Names \ {NameOf[p]} : \A q \in attached : NameOf[q] = m => q \in attached' /\ down'[q] = down[q]
    BY <1>1, <2>2
  <2>4. \A m \in Names \ {NameOf[p]} : Down(m) \subseteq Down(m)'
    BY <2>3 DEF Down
  <2> QED BY <1>1, <2>1, <2>4, FreshKept, DownKeeps
<1>5. ASSUME NEW p \in Pads, NEW t \in Tokens, TokenDown(p, t) PROVE DownInv'
  <2> DEFINE n == NameOf[p]
  <2>1. /\ DownEffect(p, t) /\ attached' = attached /\ p \in attached /\ out = << >>
        /\ down' = [down EXCEPT ![p] = @ \union {t}] /\ n \in Names
    BY <1>5, <1>n, TokenDownEffect DEF TokenDown, Polling
  <2>2. \A m \in Names : Down(m) \subseteq Down(m)'
    <3>1. \A q \in attached : down[q] \subseteq down'[q]
      BY <1>1, <2>1
    <3> QED BY <2>1, <3>1, DownChanges
  <2>3. t \in Down(n)'
    <3>1. p \in attached' /\ NameOf[p] = n /\ t \in down'[p]
      BY <1>1, <2>1
    <3> QED BY <3>1 DEF Down
  <2>4. /\ dev[n].pressed \subseteq Down(n)' /\ Backed(n, dev[n].held)
        /\ \A b \in InTables : b.style = "sequence" /\ b.hold => dev[n].progress[b.action] < Len(b.events)
    BY <2>1, <2>2 DEF DownInv
  <2>5. \A h \in dev[n].held : h.loose \/ Satisfied(Down(n)', h.binding)
    BY <2>1, <2>2, <2>4, BackedGrows
  <2>6. CASE dev' = dev /\ out' = out
    BY <1>1, <1>o, <2>1, <2>2, <2>4, <2>5, <2>6, DownKeeps DEF DownKept
  <2>7. CASE /\ out' = out /\ Others(n) /\ dev'[n].pressed = dev[n].pressed \union {t}
             /\ dev'[n].progress = dev[n].progress /\ dev'[n].held = dev[n].held
    BY <1>1, <1>o, <2>1, <2>2, <2>3, <2>4, <2>5, <2>7, DownKeeps DEF DownKept, Others
  <2>8. ASSUME NEW late, Others(n), Fires(n, t, late) PROVE DownInv'
    <3>1. /\ dev'[n].pressed = dev[n].pressed \union {t} /\ dev'[n].held = dev[n].held
          /\ \A i \in 1 .. Len(out') : out'[i].key = n /\ out'[i].binding \in Fired(n, t, late)
      BY <2>8 DEF Fires
    <3>2. dev'[n].pressed \subseteq Down(n)'
      BY <2>3, <2>4, <3>1
    <3>3. ASSUME NEW i \in 1 .. Len(out'), out'[i].binding.hold
          PROVE  Satisfied(Down(n)', out'[i].binding)
      <4>1. Satisfied(dev[n].pressed \union {t}, out'[i].binding)
        BY <1>1, <2>1, <3>1, <3>3, FiredIsDown
      <4> QED BY <3>1, <3>2, <4>1, SatisfiedGrows
    <3>4. ASSUME NEW b \in InTables, b.style = "sequence", b.hold
          PROVE  dev'[n].progress[b.action] < Len(b.events)
      <4>1. b.action \in Actions /\ Len(b.events) \in Nat \ {0} /\ b \in Bindings
        BY <1>1, BindingsOf DEF Bindings
      <4>2. \/ dev'[n].progress[b.action] = dev[n].progress[b.action]
            \/ dev'[n].progress[b.action] = 0
            \/ \E c \in InForce(n) : /\ c.action = b.action /\ c.style = "sequence"
                                     /\ dev'[n].progress[b.action] < Len(c.events)
        BY <2>8, <4>1 DEF Fires
      <4>3. ASSUME NEW c \in InForce(n), c.action = b.action, c.style = "sequence"
            PROVE  Len(c.events) = Len(b.events)
        <5>1. c \in InTables
          BY <1>1, BindingsOf DEF InForce
        <5> QED BY <1>1, <3>4, <4>3, <5>1 DEF HoldsAlike, InTables, PlanTyped
      <4> QED BY <2>4, <3>4, <4>1, <4>2, <4>3
    <3>5. DownKept(n)
      BY <2>2, <2>5, <2>8, <3>1, <3>2, <3>3, <3>4 DEF DownKept, Others
    <3> QED BY <1>1, <2>1, <3>5, DownKeeps
  <2> QED BY <2>1, <2>6, <2>7, <2>8 DEF DownEffect
<1>6. ASSUME NEW p \in Pads, NEW t \in Tokens, TokenUp(p, t) PROVE DownInv'
  <2> DEFINE n == NameOf[p]
  <2>1. /\ attached' = attached /\ p \in attached /\ out = << >> /\ n \in Names
        /\ down' = [down EXCEPT ![p] = @ \ {t}]
        /\ \/ n \notin known /\ dev' = dev /\ out' = out
           \/ Others(n) /\ Ups(n, t) /\ (Marks(n) \/ \E over : Lets(n, over))
    BY <1>6, <1>n, TokenUpEffect DEF TokenUp, Polling
  <2>2. \A m \in Names \ {n} : Down(m) \subseteq Down(m)'
    <3>1. \A m \in Names \ {n} : \A q \in attached : NameOf[q] = m => q \in attached' /\ down'[q] = down[q]
      BY <1>1, <2>1
    <3> QED BY <3>1 DEF Down
  <2>3. dev[n].pressed \ {t} \subseteq Down(n)'
    <3>1. \A q \in attached : down[q] \ {t} \subseteq down'[q]
      BY <1>1, <2>1
    <3>2. Down(n) \ {t} \subseteq Down(n)'
      BY <2>1, <3>1 DEF Down
    <3> QED BY <2>1, <3>2 DEF DownInv
  <2>4. \A b \in InTables : b.style = "sequence" /\ b.hold => dev[n].progress[b.action] < Len(b.events)
    BY <2>1 DEF DownInv
  <2>5. CASE n \notin known /\ dev' = dev /\ out' = out
    <3>1. dev[n].pressed = {} /\ dev[n].held = {}
      BY <2>1, <2>5 DEF Plugged
    <3> QED BY <1>1, <1>o, <2>1, <2>2, <2>4, <2>5, <3>1, DownKeeps DEF DownKept
  <2>6. CASE Others(n) /\ Ups(n, t) /\ (Marks(n) \/ \E over : Lets(n, over))
    <3>1. dev'[n].pressed \subseteq Down(n)' /\ dev'[n].progress = dev[n].progress
      BY <2>3, <2>6 DEF Ups
    <3>2. \A h \in dev'[n].held : h.loose \/ Satisfied(dev'[n].pressed, h.binding)
      BY <2>6 DEF Marks, Lets
    <3>3. \A h \in dev'[n].held : h.loose \/ Satisfied(Down(n)', h.binding)
      BY <3>1, <3>2, SatisfiedGrows
    <3>4. \A i \in 1 .. Len(out') : out'[i].kind = "release"
      BY <1>o, <2>1, <2>6 DEF Marks, Lets
    <3> QED BY <1>1, <2>1, <2>2, <2>4, <2>6, <3>1, <3>3, <3>4, DownKeeps DEF DownKept, Others
  <2> QED BY <2>1, <2>5, <2>6
<1>7. ASSUME UNCHANGED << attached, down >> PROVE \A m : Down(m)' = Down(m)
  BY <1>7 DEF Down
<1>8. ASSUME NEW n \in Names, NEW t \in Tokens, Settle(n, t) PROVE DownInv'
  <2>1. /\ Others(n) /\ Rests(n) /\ out' = out /\ dev'[n].held = dev[n].held
    BY <1>1, <1>8, SettleEffect
  <2>2. \A m : Down(m)' = Down(m)
    BY <1>7, <1>8 DEF Settle, physical
  <2>3. /\ dev[n].pressed \subseteq Down(n) /\ Backed(n, dev[n].held)
        /\ \A b \in InTables : b.style = "sequence" /\ b.hold => dev[n].progress[b.action] < Len(b.events)
        /\ \A i \in 1 .. Len(out), m \in Names :
             out[i].key = m /\ out[i].kind = "press" /\ out[i].binding.hold =>
               out[i].loose \/ Satisfied(Down(m), out[i].binding)
    BY DEF DownInv
  <2>4. DownKept(n)
    BY <2>1, <2>2, <2>3 DEF DownKept, Others, Rests, Backed
  <2> QED BY <1>1, <2>4, DownKeeps
<1>9. ASSUME NEW n \in Names, NEW x \in dev[n].pending, Tick(n, x) PROVE DownInv'
  <2>1. /\ Others(n) /\ Rests(n) /\ dev'[n].held = dev[n].held /\ Len(out') = 1
        /\ out'[1] = Press(n, x.binding, ~ Satisfied(dev[n].pressed, x.binding))
    BY <1>1, <1>9, TickEffect
  <2>2. \A m : Down(m)' = Down(m)
    BY <1>7, <1>9 DEF Tick, physical
  <2>3. /\ dev[n].pressed \subseteq Down(n) /\ Backed(n, dev[n].held)
        /\ \A b \in InTables : b.style = "sequence" /\ b.hold => dev[n].progress[b.action] < Len(b.events)
    BY DEF DownInv
  <2>4. ASSUME NEW i \in 1 .. Len(out')
        PROVE  out'[i].key = n /\ (out'[i].loose \/ Satisfied(Down(n)', out'[i].binding))
    <3>1. i = 1
      BY <2>1
    <3>2. Satisfied(dev[n].pressed, x.binding) => Satisfied(Down(n)', x.binding)
      BY <2>2, <2>3, SatisfiedGrows
    <3>3. /\ out'[i].key = n /\ out'[i].binding = x.binding
          /\ out'[i].loose = ~ Satisfied(dev[n].pressed, x.binding)
      BY <2>1, <3>1 DEF Press
    <3>4. CASE Satisfied(dev[n].pressed, x.binding)
      BY <3>2, <3>3, <3>4
    <3>5. CASE ~ Satisfied(dev[n].pressed, x.binding)
      <4>1. out'[i].loose = TRUE
        BY <3>3, <3>5
      <4> QED BY <3>3, <4>1
    <3> QED BY <3>4, <3>5
  <2>5. DownKept(n)
    BY <2>1, <2>2, <2>3, <2>4 DEF DownKept, Others, Rests, Backed
  <2> QED BY <1>1, <2>5, DownKeeps
<1>10. CASE Dispatch
  <2> DEFINE e == out[1]
             n == e.key
  <2>1. /\ 1 \in 1 .. Len(out) /\ e \in Emissions /\ n \in Names
        /\ \A i \in 1 .. Len(out') : i + 1 \in 1 .. Len(out) /\ out'[i] = out[i + 1]
        /\ \/ dev' = dev
           \/ /\ e.kind = "press" /\ Others(n) /\ Rests(n)
              /\ dev'[n].held = IF e.binding.hold THEN Noted(dev[n].held, e) ELSE dev[n].held
    BY <1>1, <1>10, DispatchEffect DEF Emissions
  <2>2. \A m : Down(m)' = Down(m)
    BY <1>7, <1>10 DEF Dispatch, physical
  <2>3. /\ dev[n].pressed \subseteq Down(n) /\ Backed(n, dev[n].held)
        /\ \A b \in InTables : b.style = "sequence" /\ b.hold => dev[n].progress[b.action] < Len(b.events)
        /\ \A i \in 1 .. Len(out), m \in Names :
             out[i].key = m /\ out[i].kind = "press" /\ out[i].binding.hold =>
               out[i].loose \/ Satisfied(Down(m), out[i].binding)
    BY <2>1 DEF DownInv
  <2>4. \A i \in 1 .. Len(out'), m \in Names :
          out'[i].key = m /\ out'[i].kind = "press" /\ out'[i].binding.hold =>
            out'[i].loose \/ Satisfied(Down(m)', out'[i].binding)
    BY <2>1, <2>2, <2>3
  <2>5. e.kind = "press" /\ e.binding.hold => e.loose \/ Satisfied(Down(n), e.binding)
    BY <2>1, <2>3
  <2> HIDE DEF e, n
  <2>6. ASSUME NEW h \in dev'[n].held PROVE h.loose \/ Satisfied(Down(n), h.binding)
    <3>1. \/ h \in dev[n].held
          \/ h = [binding |-> e.binding, loose |-> e.loose] /\ e.kind = "press" /\ e.binding.hold
      BY <2>1 DEF Noted
    <3> QED BY <2>3, <2>5, <3>1 DEF Backed
  <2>7. /\ dev'[n].pressed = dev[n].pressed /\ dev'[n].progress = dev[n].progress
        /\ \A m \in Names \ {n} : dev'[m] = dev[m]
    BY <2>1 DEF Others, Rests
  <2>8. PICK k \in Names : k = n
    BY <2>1
  <2>9. DownKept(k)
    BY <2>2, <2>3, <2>4, <2>6, <2>7, <2>8 DEF DownKept
  <2> QED BY <1>1, <2>9, DownKeeps
<1>11. CASE Shutdown
  <2>1. out' = out /\ \A n \in Names : dev'[n] = Fresh
    BY <1>1, <1>11, ShutdownEffect
  <2>2. \A m : Down(m)' = Down(m)
    BY <1>7, <1>11 DEF Shutdown, physical
  <2>3. \A b \in InTables : b.action \in Actions /\ 0 < Len(b.events)
    <3>1. \A b \in InTables : Len(b.events) \in Nat \ {0} /\ b \in Bindings
      BY <1>1, BindingsOf
    <3> QED BY <3>1 DEF Bindings
  <2>4. \A m \in Names : dev'[m].pressed \subseteq Down(m)' /\ Backed(m, dev[m].held)'
    BY <2>1, FreshTyped DEF Backed
  <2>5. \A m \in Names : \A b \in InTables' : dev'[m].progress[b.action] < Len(b.events)
    BY <1>i, <2>1, <2>3, FreshTyped
  <2>6. (\A i \in 1 .. Len(out), m \in Names :
           out[i].key = m /\ out[i].kind = "press" /\ out[i].binding.hold =>
             out[i].loose \/ Satisfied(Down(m), out[i].binding))'
    BY <2>1, <2>2 DEF DownInv
  <2> QED BY <2>4, <2>5, <2>6 DEF DownInv
<1>12. CASE Elsewhere \/ UNCHANGED vars
  BY <1>2, <1>12, ElsewhereEffect DEF Beside, vars, physical, devices
<1> QED BY <1>3, <1>4, <1>5, <1>6, <1>8, <1>9, <1>10, <1>11, <1>12, NextSteps

\* HeldIsDown holds of every behaviour, if the bindings are alike: a hold outlives its
\* buttons only if it fired after they were let go or they were let go under a
\* capture, whatever bounces, profile switches and second controllers came between.
THEOREM HeldIsDown_Safety == HoldsAlike => (Spec => []HeldIsDown)
<1> SUFFICES ASSUME HoldsAlike PROVE Spec => []HeldIsDown
  OBVIOUS
<1> DEFINE Inv == EngineInv /\ RuntimeTyped /\ PollTyped /\ Plugged /\ DownInv
<1>1. Init => Plugged /\ DownInv
  <2> SUFFICES ASSUME Init PROVE Plugged /\ DownInv
    OBVIOUS
  <2>1. PlanTyped /\ out = << >> /\ known = {} /\ \A n \in Names : dev[n] = Fresh
    BY InitTyped DEF Init, EngineInv
  <2>2. \A b \in InTables : b.action \in Actions /\ 0 < Len(b.events)
    <3>1. \A b \in InTables : Len(b.events) \in Nat \ {0} /\ b \in Bindings
      BY <2>1, BindingsOf
    <3> QED BY <3>1 DEF Bindings
  <2> QED BY <2>1, <2>2, FreshTyped DEF Plugged, DownInv, Backed
<1>2. Inv => HeldIsDown
  BY DEF DownInv, Backed, HeldIsDown, Down
<1>3. Init => Inv
  BY <1>1, InitTyped
<1>4. Inv /\ [Next]_vars => Inv'
  BY NextEngine, NextRuntime, NextPoll, NextPlugged, NextDown
<1> QED BY <1>2, <1>3, <1>4, PTL DEF Spec
-----------------------------------------------------------------------------
(* A chord that fired cancels what waits inside it.                         *)

\* What no store checks of the bindings in force at a time: one that is longer than
\* a chord and shares a token with it contains it.  Only the longest of those that
\* fire cancel, so that otherwise what waits inside a chord may be left.
ChordsNest ==
  \A p \in Plans : \A T \in p.tables : \A b, c \in ToSet(T) :
    Chord(c) /\ Len(b.events) > Len(c.events) /\ Set(b) \intersect Set(c) # {}
      => Set(c) \subseteq Set(b)

LandedInv ==
  /\ \A n \in Names : \A c \in dev[n].landed : Chord(c) /\ Set(c) \subseteq dev[n].pressed
  /\ DeferralCancelled

\* A binding fires by one of its own tokens.
LEMMA FiredByOwn ==
  ASSUME PlanTyped, DevTyped, NEW n \in Names, NEW t, NEW late, NEW b \in Fired(n, t, late)
  PROVE  /\ t \in Set(b) /\ b \in ToSet(table)
         /\ Chord(b) => Set(b) \subseteq dev[n].pressed \union {t}
<1> DEFINE before == [dev[n] EXCEPT !.pressed = @ \union {t}, !.recent = @ \union Bounces(t)]
<1>1. /\ b \in ToSet(table) /\ b \in Bindings /\ b.action \in Actions /\ b.events \in Seq(Tokens)
      /\ Len(b.events) \in Nat \ {0} /\ DOMAIN b.events = 1 .. Len(b.events)
  BY BindingsOf, LenProperties DEF Fired, InForce, Bindings
<1>2. Completes(before, b, t, late)
  BY DEF Fired
<1>3. /\ dev[n] \in DevState /\ before.pressed = dev[n].pressed \union {t}
      /\ before.progress = dev[n].progress
  BY DEF DevTyped, DevState
<1>4. 1 \in 1 .. Len(b.events) /\ b.events[1] \in Set(b)
  BY <1>1 DEF Set, ToSet
<1>5. CASE b.style = "single"
  BY <1>1, <1>2, <1>4, <1>5 DEF Completes, Chord
<1>6. CASE Chord(b)
  BY <1>1, <1>2, <1>3, <1>6 DEF Completes, Chord
<1>7. CASE b.style = "sequence"
  <2> DEFINE reached == IF b.action \in late THEN 0 ELSE before.progress[b.action]
             next == IF reached < Len(b.events) THEN reached + 1 ELSE 1
             progress == Progress(before, b, t, late)
  <2>1. reached \in Nat
    BY <1>1, <1>3 DEF DevState
  <2>2. next \in 1 .. Len(b.events)
    BY <1>1, <2>1
  <2>3. progress = IF t = b.events[next] THEN reached + 1 ELSE IF t = b.events[1] THEN 1 ELSE 0
    BY DEF Progress
  <2>4. progress >= Len(b.events)
    BY <1>2, <1>7 DEF Completes, Chord
  <2> HIDE DEF next, reached, progress
  <2>5. t = b.events[next] \/ t = b.events[1]
    BY <1>1, <2>3, <2>4
  <2>6. b.events[next] \in Set(b)
    BY <1>1, <2>2 DEF Set, ToSet
  <2> QED BY <1>1, <1>4, <1>7, <2>5, <2>6 DEF Chord
<1> QED BY <1>1, <1>5, <1>6, <1>7 DEF Bindings, Chord

\* Of those that fire, one is the longest: one with the fewest that are longer.
LEMMA LongestFired ==
  ASSUME PlanTyped, DevTyped, NEW n \in Names, NEW t, NEW late, NEW c \in Fired(n, t, late)
  PROVE  \E b \in Fired(n, t, late) : \A a \in Fired(n, t, late) : Len(a.events) <= Len(b.events)
<1> DEFINE F == Fired(n, t, late)
           longer(b) == {a \in F : Len(a.events) > Len(b.events)}
           counts == {k \in Nat : \E b \in F : Cardinality(longer(b)) = k}
<1>1. F \subseteq ToSet(table) /\ \A b \in F : Len(b.events) \in Nat
  BY BindingsOf DEF Fired, InForce
<1>2. IsFiniteSet(F)
  <2>1. table \in Seq(InTables)
    BY BindingsOf
  <2>2. IsFiniteSet(ToSet(table))
    <3> DEFINE D == 1 .. Len(table)
               f == [i \in D |-> table[i]]
    <3>1. DOMAIN table = D /\ Len(table) \in Nat
      BY <2>1, LenProperties
    <3>2. IsFiniteSet(D)
      BY <3>1, FS_Interval
    <3>3. f \in Surjection(D, ToSet(table))
      BY <3>1 DEF Surjection, ToSet
    <3> QED BY <3>2, <3>3, FS_Surjection
  <2> QED BY <1>1, <2>2, FS_Subset
<1>3. \A b \in F : IsFiniteSet(longer(b)) /\ Cardinality(longer(b)) \in Nat
  BY <1>2, FS_Subset, FS_CardinalityType
<1>4. PICK b \in F : \A a \in F : Cardinality(longer(b)) <= Cardinality(longer(a))
  <2>1. PICK k \in counts : \A l \in counts : k <= l
    <3>1. counts \subseteq Nat /\ counts # {}
      BY <1>3
    <3> HIDE DEF counts
    <3> QED BY <3>1, LeastNumber
  <2> QED BY <1>3, <2>1
<1>5. ASSUME NEW a \in F, Len(a.events) > Len(b.events) PROVE FALSE
  <2>1. longer(a) \subseteq longer(b) /\ a \in longer(b) /\ a \notin longer(a)
    BY <1>1, <1>5
  <2> HIDE DEF longer
  <2>2. /\ IsFiniteSet(longer(b)) /\ Cardinality(longer(b)) \in Nat
        /\ Cardinality(longer(a)) \in Nat /\ Cardinality(longer(b)) <= Cardinality(longer(a))
    BY <1>3, <1>4
  <2>3. longer(a) \in SUBSET longer(b) /\ longer(a) # longer(b)
    BY <2>1
  <2>4. Cardinality(longer(a)) <= Cardinality(longer(b)) /\ Cardinality(longer(a)) # Cardinality(longer(b))
    BY <2>2, <2>3, FS_Subset
  <2> QED BY <2>2, <2>4
<1>6. \A a \in F : Len(a.events) <= Len(b.events)
  BY <1>1, <1>5
<1> QED BY <1>6

\* What fires as a chord leaves nothing waiting inside it.
LEMMA FiredCancels ==
  ASSUME ChordsNest, PlanTyped, DevTyped, NEW n \in Names, NEW t, NEW late,
         NEW c \in Fired(n, t, late), Chord(c), NEW x, Set(x.binding) \subseteq Set(c)
  PROVE  Cancelled(Fired(n, t, late), x)
<1> DEFINE F == Fired(n, t, late)
<1>1. PICK b \in F : \A a \in F : Len(a.events) <= Len(b.events)
  BY LongestFired
<1>2. \A a \in F : t \in Set(a) /\ a \in ToSet(table) /\ Len(a.events) \in Nat
  BY FiredByOwn, BindingsOf
<1> HIDE DEF F
<1>c. c \in F
  BY DEF F
<1>3. CASE Len(b.events) > Len(c.events)
  <2>1. Set(c) \subseteq Set(b)
    BY <1>1, <1>2, <1>c, <1>3 DEF ChordsNest, PlanTyped
  <2> QED BY <1>1, <2>1 DEF Cancelled, F
<1>4. CASE ~ (Len(b.events) > Len(c.events))
  <2>1. \A a \in F : Len(a.events) <= Len(c.events)
    <3>1. Len(b.events) \in Nat /\ Len(c.events) \in Nat /\ Len(b.events) = Len(c.events)
      BY <1>1, <1>2, <1>c, <1>4
    <3> QED BY <1>1, <3>1
  <2> QED BY <1>c, <2>1 DEF Cancelled, F
<1> QED BY <1>3, <1>4

\* A step that changes the device n at most.
Covered(d) ==
  /\ \A c \in d.landed : Chord(c) /\ Set(c) \subseteq d.pressed
  /\ \A c \in d.landed : \A x \in d.pending : Set(x.binding) \subseteq Set(c) => Set(c) \subseteq x.tokens

LEMMA CoveredKeeps ==
  ASSUME LandedInv, NEW n \in Names, Others(n), Covered(dev[n]) => Covered(dev'[n])
  PROVE  LandedInv'
<1>1. \A m \in Names : Covered(dev[m])
  BY DEF LandedInv, DeferralCancelled, Covered
<1>2. \A m \in Names : Covered(dev'[m])
  BY <1>1 DEF Others
<1> QED BY <1>2 DEF LandedInv, DeferralCancelled, Covered

LEMMA SameLanded ==
  ASSUME LandedInv, dev' = dev
  PROVE  LandedInv'
BY DEF LandedInv, DeferralCancelled

LEMMA NextLanded ==
  ASSUME ChordsNest, EngineInv, LandedInv, [Next]_vars
  PROVE  LandedInv'
<1>1. PlanTyped /\ DevTyped /\ HeldBegins /\ plan' = plan
  BY NextPlan DEF EngineInv
<1>n. \A p \in Pads : NameOf[p] \in Names
  BY ControllerAssumption
<1>f. Covered(Fresh)
  BY FreshTyped DEF Covered
<1>2. ASSUME NEW p \in Pads, Attach(p) \/ Unplug(p) PROVE LandedInv'
  <2>1. dev'[NameOf[p]] = Fresh /\ Others(NameOf[p]) /\ NameOf[p] \in Names
    BY <1>1, <1>2, <1>n, AttachEffect, UnplugEffect
  <2> QED BY <1>f, <2>1, CoveredKeeps
<1>3. ASSUME NEW p \in Pads, NEW t \in Tokens, TokenDown(p, t) PROVE LandedInv'
  <2> DEFINE n == NameOf[p]
  <2>1. DownEffect(p, t) /\ n \in Names
    BY <1>3, <1>n, TokenDownEffect
  <2>2. CASE dev' = dev
    BY <2>2, SameLanded
  <2>3. CASE /\ Others(n) /\ dev'[n].pressed = dev[n].pressed \union {t}
             /\ dev'[n].landed = dev[n].landed /\ dev'[n].pending = dev[n].pending
    <3>1. Covered(dev[n]) => Covered(dev'[n])
      BY <2>3 DEF Covered
    <3> QED BY <2>1, <2>3, <3>1, CoveredKeeps
  <2>4. ASSUME NEW late, Others(n), Fires(n, t, late) PROVE LandedInv'
    <3> HIDE DEF n
    <3> DEFINE d == dev[n]
               e == dev'[n]
               F == Fired(n, t, late)
    <3>1. /\ e.pressed = d.pressed \union {t} /\ e.landed = d.landed \union {b \in F : Chord(b)}
          /\ \A x \in e.pending : x.tokens = e.pressed \/ (x \in d.pending /\ ~ Cancelled(F, x))
      BY <2>4 DEF Fires
    <3>2. \A c \in F : Chord(c) => Set(c) \subseteq e.pressed
      BY <1>1, <2>1, <3>1, FiredByOwn
    <3>3. ASSUME Covered(d) PROVE Covered(e)
      <4>1. \A c \in e.landed : Chord(c) /\ Set(c) \subseteq e.pressed
        BY <3>1, <3>2, <3>3 DEF Covered
      <4>2. ASSUME NEW c \in e.landed, NEW x \in e.pending, Set(x.binding) \subseteq Set(c)
            PROVE  Set(c) \subseteq x.tokens
        <5>1. CASE x.tokens = e.pressed
          BY <4>1, <5>1
        <5>2. CASE x \in d.pending /\ ~ Cancelled(F, x)
          <6>1. c \in d.landed \/ (c \in F /\ Chord(c))
            BY <3>1
          <6>2. ~ (c \in F /\ Chord(c))
            BY <1>1, <2>1, <4>2, <5>2, FiredCancels
          <6> QED BY <3>3, <4>2, <5>2, <6>1, <6>2 DEF Covered
        <5> QED BY <3>1, <5>1, <5>2
      <4> HIDE DEF e
      <4> QED BY <4>1, <4>2 DEF Covered
    <3> QED BY <2>1, <2>4, <3>3, CoveredKeeps
  <2> QED BY <2>1, <2>2, <2>3, <2>4 DEF DownEffect
<1>4. ASSUME NEW p \in Pads, NEW t \in Tokens, TokenUp(p, t) PROVE LandedInv'
  <2> DEFINE n == NameOf[p]
  <2>1. n \in Names /\ (dev' = dev \/ (Others(n) /\ Ups(n, t)))
    BY <1>4, <1>n, TokenUpEffect
  <2>2. Ups(n, t) /\ Covered(dev[n]) => Covered(dev'[n])
    BY DEF Ups, Covered
  <2> QED BY <2>1, <2>2, SameLanded, CoveredKeeps
<1>5. ASSUME NEW n \in Names, Others(n), Rests(n), dev'[n].pending \subseteq dev[n].pending
      PROVE  LandedInv'
  <2>1. Covered(dev[n]) => Covered(dev'[n])
    BY <1>5 DEF Rests, Covered
  <2> QED BY <1>5, <2>1, CoveredKeeps
<1>6. ASSUME NEW n \in Names, NEW t \in Tokens, Settle(n, t) PROVE LandedInv'
  BY <1>1, <1>5, <1>6, SettleEffect
<1>7. ASSUME NEW n \in Names, NEW x \in dev[n].pending, Tick(n, x) PROVE LandedInv'
  <2>1. Others(n) /\ Rests(n) /\ dev'[n].pending \subseteq dev[n].pending
    BY <1>1, <1>7, TickEffect
  <2> QED BY <1>5, <2>1
<1>8. CASE Dispatch
  <2>1. /\ out[1] \in Emissions
        /\ \/ dev' = dev
           \/ /\ Others(out[1].key) /\ Rests(out[1].key)
              /\ dev'[out[1].key].pending = dev[out[1].key].pending
    BY <1>1, <1>8, DispatchEffect
  <2>2. PICK k \in Names : k = out[1].key
    BY <2>1 DEF Emissions
  <2>3. CASE dev' = dev
    BY <2>3, SameLanded
  <2>4. CASE Others(k) /\ Rests(k) /\ dev'[k].pending = dev[k].pending
    BY <1>5, <2>4
  <2> QED BY <2>1, <2>2, <2>3, <2>4 DEF Others, Rests
<1>9. CASE Shutdown
  <2>1. \A n \in Names : Covered(dev'[n])
    BY <1>1, <1>9, <1>f, ShutdownEffect
  <2> QED BY <2>1 DEF LandedInv, DeferralCancelled, Covered
<1>10. CASE Elsewhere \/ UNCHANGED vars
  <2>1. dev' = dev
    BY <1>10, ElsewhereEffect DEF Beside, vars, devices
  <2> QED BY <2>1, SameLanded
<1> QED BY <1>2, <1>3, <1>4, <1>6, <1>7, <1>8, <1>9, <1>10, NextSteps

\* DeferralCancelled holds of every behaviour, if the bindings nest: while a chord
\* that fired is held, no shorter action inside it still waits to fire, but one whose
\* own press completed the chord.
THEOREM DeferralCancelled_Safety == ChordsNest => (Spec => []DeferralCancelled)
<1> SUFFICES ASSUME ChordsNest PROVE Spec => []DeferralCancelled
  OBVIOUS
<1>1. Init => EngineInv /\ LandedInv
  BY InitTyped, FreshTyped DEF Init, LandedInv, DeferralCancelled
<1>2. EngineInv /\ LandedInv /\ [Next]_vars => (EngineInv /\ LandedInv)'
  BY NextEngine, NextLanded
<1>3. LandedInv => DeferralCancelled
  BY DEF LandedInv
<1> QED BY <1>1, <1>2, <1>3, PTL DEF Spec
=============================================================================
