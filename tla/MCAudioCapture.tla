--------------------------- MODULE MCAudioCapture ---------------------------
(***************************************************************************)
(* An instance of AudioCapture with four plans. A recording mutes two other *)
(* applications and meets every fault of the audio tools, and a crash; two  *)
(* recordings follow each other; an emergency stop or a shutdown comes      *)
(* beside a recording; the wake listener runs, with a microphone that may   *)
(* not open, under an emergency stop and a wipe.                            *)
(***************************************************************************)
EXTENDS AudioCapture, TLC

CONSTANTS u1, u2

Muting == [does |-> (u1 :> {Start, Stop}) @@ (u2 :> {}), modes |-> {"isolate"},
           faults |-> {"list", "refuse", "timeout", "journal"},
           others |-> 2, starts |-> 1, wakes |-> 0, crashes |-> 1]
Twice == [Muting EXCEPT !.faults = {"list", "refuse"}, !.starts = 2, !.crashes = 0]
Ending == [Muting EXCEPT !.does[u2] = {Emergency, Shutdown}, !.modes = {"isolate", "off"},
                         !.faults = {}, !.others = 1, !.crashes = 0]
Listening == [does |-> (u1 :> {Start, Stop, WakeOn, WakeOff}) @@ (u2 :> {Emergency, Wipe}),
              modes |-> {"key"}, faults |-> {"open"},
              others |-> 0, starts |-> 2, wakes |-> 1, crashes |-> 0]
AllPlans == {Muting, Twice, Ending, Listening}
Sym == Permutations(Streams)

=============================================================================
