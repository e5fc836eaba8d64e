---------------------------- MODULE ExclusiveUse ----------------------------
(***************************************************************************)
(* What the runtime leases promise (model_runtime_coordinator.py, lines     *)
(* 8-16): a runtime is used by any number of users at once, or is being     *)
(* rebuilt by exactly one owner, never both.                                *)
(***************************************************************************)

CONSTANTS Runtimes, Actors, Nobody

VARIABLES
    users,    \* per runtime: the actors that use it
    owner     \* per runtime: the actor that rebuilds it, or Nobody

Init ==
    /\ users = [r \in Runtimes |-> {}]
    /\ owner = [r \in Runtimes |-> Nobody]

Join(a, r) ==
    /\ owner[r] = Nobody
    /\ users' = [users EXCEPT ![r] = @ \union {a}]
    /\ UNCHANGED owner

Leave(a, r) ==
    /\ users' = [users EXCEPT ![r] = @ \ {a}]
    /\ UNCHANGED owner

Seize(a, r) ==
    /\ owner[r] = Nobody
    /\ users[r] = {}
    /\ owner' = [owner EXCEPT ![r] = a]
    /\ UNCHANGED users

GiveBack(a, r) ==
    /\ owner[r] = a
    /\ owner' = [owner EXCEPT ![r] = Nobody]
    /\ UNCHANGED users

Next == \E a \in Actors, r \in Runtimes :
            Join(a, r) \/ Leave(a, r) \/ Seize(a, r) \/ GiveBack(a, r)

Spec == Init /\ [][Next]_<<users, owner>>

=============================================================================
