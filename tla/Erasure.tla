------------------------------ MODULE Erasure ------------------------------
(***************************************************************************)
(* What a privacy wipe promises ("Quiesce fully, then delete", server.py    *)
(* _perform_privacy_wipe, lines 3965-3980): things are kept only by those   *)
(* that are at work, and they are erased, all at once, only by an eraser    *)
(* that found nobody at work and lets nobody begin.  A single thing may be  *)
(* removed at any time; a crash ends the work and the erasure and neither   *)
(* adds nor takes a thing.                                                  *)
(***************************************************************************)

CONSTANTS Actors, Items, Nobody

VARIABLES
    working,   \* the actors at work
    eraser,    \* the actor that erases, or Nobody
    kept       \* the things that are kept

Init ==
    /\ working = {} /\ eraser = Nobody
    /\ kept \subseteq Items

Begin(a) ==
    /\ eraser = Nobody
    /\ working' = working \union {a}
    /\ UNCHANGED <<eraser, kept>>

Create(a, i) ==
    /\ a \in working
    /\ kept' = kept \union {i}
    /\ UNCHANGED <<working, eraser>>

End(a) ==
    /\ working' = working \ {a}
    /\ UNCHANGED <<eraser, kept>>

Remove(i) ==
    /\ kept' = kept \ {i}
    /\ UNCHANGED <<working, eraser>>

Quiesce(a) ==
    /\ eraser = Nobody /\ working = {}
    /\ eraser' = a
    /\ UNCHANGED <<working, kept>>

Erase(a) ==
    /\ eraser = a
    /\ kept' = {}
    /\ UNCHANGED <<working, eraser>>

Resume(a) ==
    /\ eraser = a
    /\ eraser' = Nobody
    /\ UNCHANGED <<working, kept>>

Crash ==
    /\ working' = {} /\ eraser' = Nobody
    /\ UNCHANGED kept

Next ==
    \/ \E a \in Actors : Begin(a) \/ End(a) \/ Quiesce(a) \/ Erase(a) \/ Resume(a)
    \/ \E a \in Actors, i \in Items : Create(a, i)
    \/ \E i \in Items : Remove(i)
    \/ Crash

Spec == Init /\ [][Next]_<<working, eraser, kept>>

=============================================================================
