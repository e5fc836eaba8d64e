---------------------------- MODULE MCWorkflows ----------------------------
(***************************************************************************)
(* One workflow and one application: two entries of one name that start     *)
(* different targets, a plan whose lines do not tell them apart and one     *)
(* whose lines do.                                                          *)
(***************************************************************************)
EXTENDS Workflows, TLC

CONSTANTS app, name, old, new

Do(do, a) == [do |-> do, app |-> a]
Bring == << Do("wait", app), Do("focus", app) >>
Start == << Do("other", None), Do("launch", app) >>
TwoPlans   == {Bring, Start}
TwoEntries == {[name |-> name, target |-> t] : t \in {old, new}}
CallSymmetry == Permutations(Calls)
=============================================================================
